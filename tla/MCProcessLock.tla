---------------------------- MODULE MCProcessLock ----------------------------
(* Processes and who can open which lock file. *)
EXTENDS ProcessLock, TLC

CONSTANTS p1, p2, p3, p4

\* The files of p1 and p2 under /var/lock are closed to p3 and p4.
OpensMixed == "primary" :> {p1, p2} @@ "fallback" :> Process
=============================================================================
