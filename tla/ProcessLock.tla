----------------------------- MODULE ProcessLock -----------------------------
(***************************************************************************)
(* Processes that start an EtherCAT backend for the same master: the       *)
(* process lock (a file under /var/lock, or under /tmp if that one cannot  *)
(* be opened), then the reservation of the master in the kernel and its    *)
(* device node, and their release in the reverse order by stop, by a start *)
(* that fails, or by the kernel when a process dies.                       *)
(*                                                                         *)
(* The file system and the kernel's master are external.  A lock file has  *)
(* the permissions its first user gave it, so some processes may be unable *)
(* to open it.                                                             *)
(***************************************************************************)
EXTENDS Naturals

CONSTANTS Process,  \* processes that use the SDK on one master
          Opens,    \* which processes can open which lock file
          Crashes   \* may processes die?

File == {"primary", "fallback"}

ASSUME OpensAssumption == Opens \in [File -> SUBSET Process]
ASSUME CrashesAssumption == Crashes \in BOOLEAN

VARIABLES pc,        \* start and stop of each process
          lock,      \* masterLock.fd_: the file a process has locked, or none
          owners,    \* processes that hold the kernel's master (external)
          devices    \* processes with an open masterFd

vars == <<pc, lock, owners, devices>>

Init ==
  /\ pc = [p \in Process |-> "idle"]
  /\ lock = [p \in Process |-> "none"]
  /\ owners = {} /\ devices = {}

Locked(f) == \E p \in Process : lock[p] = f

Goto(p, from, to) == pc[p] = from /\ pc' = [pc EXCEPT ![p] = to]

-----------------------------------------------------------------------------
(* Faulty variants, for mutation testing. *)

\* A lock that another process holds is also a reason to fall back.
TryPrimary_FallsBackOnBusy(p) ==
  /\ IF p \in Opens["primary"] /\ ~Locked("primary")
       THEN Goto(p, "idle", "request") /\ lock' = [lock EXCEPT ![p] = "primary"]
       ELSE Goto(p, "idle", "fallback") /\ UNCHANGED lock
  /\ UNCHANGED <<owners, devices>>

\* The lock is released before the master and the device.
BeginRelease_LockFirst(p) ==
  /\ Goto(p, "running", "releaseMaster")
  /\ lock' = [lock EXCEPT ![p] = "none"]
  /\ UNCHANGED <<owners, devices>>

\* A start that fails returns at once.
RequestMaster_JustReturns(p) ==
  /\ \/ owners = {} /\ Goto(p, "request", "open") /\ owners' = {p}
     \/ Goto(p, "request", "idle") /\ UNCHANGED owners
  /\ UNCHANGED <<lock, devices>>

\* The lock is the existence of the file: a dead process leaves it behind.
Reap_KeepsLock(p) ==
  /\ pc[p] = "dead"
  /\ \/ p \in owners /\ owners' = owners \ {p}
        /\ UNCHANGED <<pc, lock, devices>>
     \/ p \in devices /\ devices' = devices \ {p}
        /\ UNCHANGED <<pc, lock, owners>>
     \/ p \notin owners \cup devices
        /\ pc' = [pc EXCEPT ![p] = "idle"]
        /\ UNCHANGED <<lock, owners, devices>>

-----------------------------------------------------------------------------
(* start *)

\* acquireEthercatProcessLock: the lock file under /var/lock.  One that
\* cannot be opened leads to the fallback; one that is locked fails the start,
\* which changes nothing.
TryPrimary(p) ==
  /\ \/ /\ p \in Opens["primary"] /\ ~Locked("primary")
        /\ Goto(p, "idle", "request")
        /\ lock' = [lock EXCEPT ![p] = "primary"]
     \/ /\ p \notin Opens["primary"]
        /\ Goto(p, "idle", "fallback")
        /\ UNCHANGED lock
  /\ UNCHANGED <<owners, devices>>

\* The lock file under /tmp.
TryFallback(p) ==
  /\ IF p \in Opens["fallback"] /\ ~Locked("fallback")
       THEN Goto(p, "fallback", "request") /\ lock' = [lock EXCEPT ![p] = "fallback"]
       ELSE Goto(p, "fallback", "idle") /\ UNCHANGED lock
  /\ UNCHANGED <<owners, devices>>

\* ecrt_request_master: refused while another process holds the master, or for
\* a reason of its own.
RequestMaster(p) ==
  /\ \/ owners = {} /\ Goto(p, "request", "open") /\ owners' = {p}
     \/ Goto(p, "request", "releaseLock") /\ UNCHANGED owners
  /\ UNCHANGED <<lock, devices>>

\* open of /dev/EtherCAT<n>.
OpenDevice(p) ==
  /\ \/ Goto(p, "open", "running") /\ devices' = devices \cup {p}
     \/ Goto(p, "open", "releaseMaster") /\ UNCHANGED devices
  /\ UNCHANGED <<lock, owners>>

-----------------------------------------------------------------------------
(* stop, and the end of a start that fails *)

BeginRelease(p) ==
  /\ Goto(p, "running", "releaseMaster")
  /\ UNCHANGED <<lock, owners, devices>>

ReleaseMaster(p) ==
  /\ Goto(p, "releaseMaster", "closeDevice")
  /\ owners' = owners \ {p}
  /\ UNCHANGED <<lock, devices>>

CloseDevice(p) ==
  /\ Goto(p, "closeDevice", "releaseLock")
  /\ devices' = devices \ {p}
  /\ UNCHANGED <<lock, owners>>

\* ProcessLock::release.
ReleaseLock(p) ==
  /\ Goto(p, "releaseLock", "idle")
  /\ lock' = [lock EXCEPT ![p] = "none"]
  /\ UNCHANGED <<owners, devices>>

Release(p) == ReleaseMaster(p) \/ CloseDevice(p) \/ ReleaseLock(p)

-----------------------------------------------------------------------------
(* Death of a process; the kernel closes its files in some order (external) *)

Die(p) ==
  /\ Crashes
  /\ pc[p] \notin {"idle", "dead"}
  /\ pc' = [pc EXCEPT ![p] = "dead"]
  /\ UNCHANGED <<lock, owners, devices>>

Reap(p) ==
  /\ pc[p] = "dead"
  /\ \/ lock[p] # "none" /\ lock' = [lock EXCEPT ![p] = "none"]
        /\ UNCHANGED <<pc, owners, devices>>
     \/ p \in owners /\ owners' = owners \ {p}
        /\ UNCHANGED <<pc, lock, devices>>
     \/ p \in devices /\ devices' = devices \ {p}
        /\ UNCHANGED <<pc, lock, owners>>
     \/ lock[p] = "none" /\ p \notin owners \cup devices
        /\ pc' = [pc EXCEPT ![p] = "idle"]
        /\ UNCHANGED <<lock, owners, devices>>

Try(p) == TryPrimary(p) \/ TryFallback(p)

Next ==
  \E p \in Process :
    \/ Try(p) \/ RequestMaster(p) \/ OpenDevice(p)
    \/ BeginRelease(p) \/ Release(p)
    \/ Die(p) \/ Reap(p)

Spec == Init /\ [][Next]_vars

\* start and stop run on once they are called, and the kernel cleans up.
FairSpec ==
  /\ Spec
  /\ \A p \in Process :
       /\ WF_vars(TryFallback(p) \/ RequestMaster(p) \/ OpenDevice(p))
       /\ WF_vars(Release(p)) /\ WF_vars(Reap(p))

-----------------------------------------------------------------------------
TypeOK ==
  /\ pc \in [Process -> {"idle", "fallback", "request", "open", "running",
                         "releaseMaster", "closeDevice", "releaseLock", "dead"}]
  /\ lock \in [Process -> File \cup {"none"}]
  /\ owners \subseteq Process /\ devices \subseteq Process
  /\ \A p \in Process : pc[p] \in {"idle", "fallback"} => lock[p] = "none"

\* Two processes are led to the same lock file.
SameFile(p, q) == p \in Opens["primary"] <=> q \in Opens["primary"]

\* Of the processes that are led to the same lock file, the lock admits one to
\* the master.
LockExclusive ==
  \A p, q \in Process :
    SameFile(p, q) /\ lock[p] # "none" /\ lock[q] # "none" => p = q

\* Whoever holds the master or its device node holds the lock.
UsedUnderLock ==
  \A p \in owners \cup devices : pc[p] # "dead" => lock[p] # "none"

\* Behind the lock the master is free of the processes that are led to the same
\* file: one of them can be in the way only because the kernel has not cleaned up
\* after its death.
FreeBehindLock ==
  \A p, q \in Process :
    SameFile(p, q) /\ pc[p] = "request" /\ q \in owners => pc[q] = "dead"

\* All three: the lock stands for the master, from either side.
LockCovers == LockExclusive /\ UsedUnderLock /\ FreeBehindLock

\* A lock outlives neither its process, nor stop, nor a start that fails.
LockIsFreed ==
  \A p \in Process :
    pc[p] \in {"releaseMaster", "releaseLock", "dead"} ~> lock[p] = "none"

-----------------------------------------------------------------------------
(* The inductive invariant behind the safety properties. *)

\* What each process holds, by how far it has come.
HeldInv ==
  \A p \in Process :
    /\ pc[p] \in {"request", "open", "running", "releaseMaster", "closeDevice",
                  "releaseLock"} => lock[p] # "none"
    /\ p \in owners => pc[p] \in {"open", "running", "releaseMaster", "dead"}
    /\ p \in devices => pc[p] \in {"running", "releaseMaster", "closeDevice", "dead"}
    /\ lock[p] = "primary" => p \in Opens["primary"]
    /\ lock[p] = "fallback" => p \notin Opens["primary"]
    /\ pc[p] = "fallback" => p \notin Opens["primary"]
    /\ pc[p] = "dead" => Crashes

\* A file is locked by one process.
FlockInv ==
  \A p, q \in Process : lock[p] = lock[q] /\ lock[p] # "none" => p = q

IInv == TypeOK /\ HeldInv /\ FlockInv

=============================================================================
