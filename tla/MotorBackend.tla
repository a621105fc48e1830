---------------------------- MODULE MotorBackend ----------------------------
(***************************************************************************)
(* What every MotorBackend promises the facade that owns it: start either  *)
(* succeeds, with threads that serve the buffers, or fails with none left; *)
(* a frame is published only by such a thread; and when stop returns there *)
(* is none, so the buffers may be destroyed.  A backend is started at most *)
(* once.  Threads may come up before start returns and outlive the request *)
(* to stop, never stop itself.  CanBackend and EthercatLifecycle implement *)
(* this specification; DriverSdk composes backends that obey it.           *)
(***************************************************************************)

VARIABLES phase,     \* how far the owner of the backend has come
          active,    \* a thread of the backend may touch the buffers
          output     \* the last frame it published

vars == <<phase, active, output>>

Phases == {"created", "starting", "running", "failed", "stopping", "stopped"}

Init == phase = "created" /\ active = FALSE

\* start is called, and may bring up a thread at once or fail at once.
Start ==
  /\ phase = "created"
  /\ \/ phase' = "starting" /\ active' \in BOOLEAN
     \/ phase' = "failed" /\ UNCHANGED active
  /\ UNCHANGED output

ThreadsBegin ==
  /\ phase = "starting" /\ ~active
  /\ active' = TRUE
  /\ UNCHANGED <<phase, output>>

StartSucceeds ==
  /\ phase = "starting" /\ active
  /\ phase' = "running"
  /\ UNCHANGED <<active, output>>

StartFails ==
  /\ phase = "starting" /\ ~active
  /\ phase' = "failed"
  /\ UNCHANGED <<active, output>>

Publish == active /\ UNCHANGED <<phase, active>>

\* stop is called, of a backend in whatever state.
StopBegins ==
  /\ phase \in {"created", "running", "failed"}
  /\ phase' = "stopping"
  /\ UNCHANGED <<active, output>>

\* Threads end when stop, or a start that goes back, tells them to.
ThreadsEnd ==
  /\ phase \in {"starting", "stopping"} /\ active
  /\ active' = FALSE
  /\ UNCHANGED <<phase, output>>

\* stop returns, without delay when there is nothing to stop.
StopReturns ==
  /\ phase \in {"created", "failed", "stopping"} /\ ~active
  /\ phase' = "stopped"
  /\ UNCHANGED <<active, output>>

Next ==
  \/ Start \/ ThreadsBegin \/ StartSucceeds \/ StartFails
  \/ Publish
  \/ StopBegins \/ ThreadsEnd \/ StopReturns

Spec == Init /\ [][Next]_vars
=============================================================================
