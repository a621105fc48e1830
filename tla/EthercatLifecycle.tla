-------------------------- MODULE EthercatLifecycle --------------------------
(***************************************************************************)
(* start and stop of one EtherCAT backend: the resources start acquires,   *)
(* the realtime thread that uses them, the wait for fresh feedback, the    *)
(* way back when any of it fails, and stop.  What the realtime loop does   *)
(* in a cycle is module EthercatCycle; here a cycle publishes one frame,   *)
(* which is ready (every motor fresh and without error) or not.            *)
(*                                                                         *)
(* The slaves are external and taken together: al is the highest AL state  *)
(* among them.  They move towards the state last requested, reach OP only  *)
(* while process data is exchanged, and may fall back from OP.             *)
(***************************************************************************)
EXTENDS Naturals, Sequences

CONSTANTS ReadyFrames,  \* RMD_ECAT_START_READY_FRAMES
          Waits         \* RMD_ECAT_START_READY_TIMEOUT_MS is not 0

ASSUME ReadyFramesAssumption == ReadyFrames \in Nat \ {0}
ASSUME WaitsAssumption == Waits \in BOOLEAN

\* What start acquires or sets up before it spawns the thread, in this order.
Resource == <<"lock", "master", "device", "domains", "activation", "data">>
Resources == {"lock", "master", "device", "domains", "activation", "data"}

\* What every cycle of the realtime loop works on.
UsedByLoop == {"master", "domains", "activation", "data"}

VARIABLES pc,          \* the caller of start and stop
          stopping,    \* stop is under way, not the way back from a failed start
          held,        \* what runtime_ holds of Resources
          slaveCount,  \* runtime_->slaveCount is not 0
          stop,        \* stop
          running,     \* status.running_
          consecutive, \* consecutiveReady
          thread,      \* the realtime thread: where it is in its loop
          unseen,      \* actualBuffer's sequence differs from lastSequence
          ready,       \* frameReadyForBindings of the last published frame
          al, requested,  \* AL state of the slaves, last requested (external)
          refusals,    \* history: requests refused, parity
          gaveUp,      \* history: the slaves could not be taken down in time
          readyCount   \* history: ready frames published, up to ReadyFrames

callerVars == <<pc, stopping, held, slaveCount, stop, running, consecutive>>
slaveVars == <<al, requested, refusals, gaveUp>>
frameVars == <<unseen, ready, readyCount>>
vars == <<callerVars, thread, slaveVars, frameVars>>

Init ==
  /\ pc = "idle" /\ stopping = FALSE
  /\ held = {} /\ slaveCount = FALSE
  /\ stop = TRUE /\ running = FALSE /\ consecutive = 0
  /\ thread = "off"
  /\ unseen = FALSE /\ ready = FALSE
  /\ al = "preop" /\ requested = "preop"
  /\ refusals = 0 /\ gaveUp = FALSE
  /\ readyCount = 0

OneMore(n) == IF n < ReadyFrames THEN n + 1 ELSE n

-----------------------------------------------------------------------------
(* start *)

StartBegin ==
  /\ pc = "idle"
  /\ pc' = "acquire"
  /\ UNCHANGED <<stopping, held, slaveCount, stop, running, consecutive,
                 thread, slaveVars, frameVars>>

\* The next resource that is not held.
NextResource ==
  Resource[CHOOSE i \in DOMAIN Resource :
             /\ Resource[i] \notin held
             /\ \A j \in 1 .. i - 1 : Resource[j] \in held]

\* It is acquired; with the device comes the number of slaves, if the master
\* tells it.  What a domain carries is configured before the next one.
Acquire ==
  /\ pc = "acquire"
  /\ held # Resources
  /\ held' = held \cup {NextResource}
  /\ pc' = IF NextResource = "domains" THEN "configure" ELSE pc
  /\ slaveCount' \in IF NextResource = "device" THEN BOOLEAN ELSE {slaveCount}
  /\ UNCHANGED <<stopping, stop, running, consecutive, thread, slaveVars,
                 frameVars>>

\* configureMtDevicePdos: the slaves accept the request for PREOP, and their
\* process data is configured.
Configure ==
  /\ pc = "configure"
  /\ pc' = "acquire"
  /\ requested' = "preop"
  /\ UNCHANGED <<stopping, held, slaveCount, stop, running, consecutive, thread,
                 al, refusals, gaveUp, frameVars>>

\* Where start repeats a request every second until it is accepted.
Repeating == {"configure", "requestOp"}

\* The kernel refuses it.  Some of the slaves may have been asked to enter OP.
RequestRefused ==
  /\ pc \in Repeating
  /\ refusals' = 1 - refusals
  /\ requested' \in IF pc = "requestOp" THEN {requested, "op"} ELSE {requested}
  /\ UNCHANGED <<callerVars, thread, al, gaveUp, frameVars>>

\* failStart: release the master, close its device, release the lock.
FailStart ==
  /\ pc' = "failed"
  /\ running' = FALSE
  /\ held' = {}

\* It is not, or cannot be configured, and start fails.
AcquireFails ==
  /\ \/ pc = "acquire" /\ held # Resources
     \/ pc = "configure"
  /\ FailStart
  /\ UNCHANGED <<stopping, slaveCount, stop, consecutive, thread, slaveVars,
                 frameVars>>

\* The thread runs, and the number of slaves is read again, if the master tells.
SpawnThread ==
  /\ pc = "acquire"
  /\ held = Resources
  /\ pc' = "requestOp"
  /\ slaveCount' \in BOOLEAN
  /\ stop' = FALSE
  /\ running' = TRUE
  /\ thread' = "top"
  /\ UNCHANGED <<stopping, held, consecutive, slaveVars, frameVars>>

\* requestAllSlavesState(0x08) has been accepted, or there is no slave to ask.
\* A zero timeout skips the wait.
RequestOp ==
  /\ pc = "requestOp"
  /\ pc' = IF Waits THEN "wait" ELSE "started"
  /\ \/ requested' = "op"
     \/ ~slaveCount /\ UNCHANGED requested
  /\ consecutive' = 0
  /\ UNCHANGED <<stopping, held, slaveCount, stop, running, thread, al, refusals,
                 gaveUp, frameVars>>

\* Faulty: the sequence number is not compared.
Sample_AnyFrame ==
  /\ pc = "wait"
  /\ unseen' = FALSE
  /\ consecutive' = IF ready THEN OneMore(consecutive) ELSE 0
  /\ pc' = IF consecutive' = ReadyFrames THEN "started" ELSE "wait"
  /\ UNCHANGED <<stopping, held, slaveCount, stop, running, thread, slaveVars,
                 ready, readyCount>>

\* Faulty: one frame too many is asked for.
Sample_OffByOne ==
  /\ pc = "wait"
  /\ unseen
  /\ unseen' = FALSE
  /\ consecutive' = IF ready THEN consecutive + 1 ELSE 0
  /\ pc' = IF consecutive' > ReadyFrames THEN "started" ELSE "wait"
  /\ UNCHANGED <<stopping, held, slaveCount, stop, running, thread, slaveVars,
                 ready, readyCount>>

\* waitForStartupReady: look at the newest frame once per millisecond.
Sample ==
  /\ pc = "wait"
  /\ unseen
  /\ unseen' = FALSE
  /\ consecutive' = IF ready THEN OneMore(consecutive) ELSE 0
  /\ pc' = IF consecutive' = ReadyFrames THEN "started" ELSE "wait"
  /\ UNCHANGED <<stopping, held, slaveCount, stop, running, thread, slaveVars,
                 ready, readyCount>>

\* Take the slaves out of OP, if there is a device and there are slaves, and
\* then stop the thread.
BeginShutdown(failed) ==
  /\ stopping' = ~failed
  /\ IF "device" \in held /\ slaveCount
       THEN pc' = "requestSafeop" /\ UNCHANGED <<stop, gaveUp>>
       ELSE pc' = "join" /\ stop' = TRUE /\ gaveUp' = TRUE
  /\ UNCHANGED <<held, slaveCount, running, consecutive, thread, al, requested,
                 refusals, frameVars>>

\* Faulty: the way back is that of a start that has no thread yet.
ReadyTimeout_NoShutdown ==
  /\ pc = "wait"
  /\ FailStart
  /\ UNCHANGED <<stopping, slaveCount, stop, consecutive, thread, slaveVars,
                 frameVars>>

\* The deadline passes.
ReadyTimeout ==
  /\ pc = "wait"
  /\ BeginShutdown(TRUE)

-----------------------------------------------------------------------------
(* stop *)

\* stop of a backend that was started.
StopStarted ==
  /\ pc = "started"
  /\ BeginShutdown(FALSE)

\* stop of one that was not, or whose start failed: there is no thread.
StopUnstarted ==
  /\ pc \in {"idle", "failed"}
  /\ pc' = "stopped"
  /\ stop' = TRUE
  /\ held' = {}
  /\ running' = FALSE
  /\ UNCHANGED <<stopping, slaveCount, consecutive, thread, slaveVars,
                 frameVars>>

\* requestSlaveRangeStateBestEffort(0x04), then (0x02): up to three attempts,
\* which may all fail.
RequestDown ==
  /\ \/ pc = "requestSafeop" /\ pc' = "awaitSafeop"
        /\ requested' \in {"safeop", requested}
        /\ gaveUp' = (gaveUp \/ requested' # "safeop")
     \/ pc = "requestPreop" /\ pc' = "awaitPreop"
        /\ requested' \in {"preop", requested}
        /\ gaveUp' = (gaveUp \/ requested' # "preop")
  /\ UNCHANGED <<stopping, held, slaveCount, stop, running, consecutive,
                 thread, al, refusals, frameVars>>

\* Faulty: waitForAlStatesClear does not give up.
AwaitDown_NoDeadline ==
  /\ \/ /\ pc = "awaitSafeop" /\ al # "op"
        /\ pc' = "requestPreop"
        /\ UNCHANGED stop
     \/ /\ pc = "awaitPreop" /\ al = "preop"
        /\ pc' = "join"
        /\ stop' = TRUE
  /\ UNCHANGED <<stopping, held, slaveCount, running, consecutive, thread,
                 slaveVars, frameVars>>

\* waitForAlStatesClear sees the slaves out of OP, or gives up after 3 s; then
\* out of SAFEOP, or gives up, and the thread is told to stop.
AwaitDown ==
  /\ \/ /\ pc = "awaitSafeop"
        /\ pc' = "requestPreop"
        /\ gaveUp' = (gaveUp \/ al = "op")
        /\ UNCHANGED stop
     \/ /\ pc = "awaitPreop"
        /\ pc' = "join"
        /\ gaveUp' = (gaveUp \/ al # "preop")
        /\ stop' = TRUE
  /\ UNCHANGED <<stopping, held, slaveCount, running, consecutive, thread,
                 al, requested, refusals, frameVars>>

\* Faulty: the thread is not joined.
JoinAndRelease_NoJoin ==
  /\ pc = "join"
  /\ pc' = IF stopping THEN "stopped" ELSE "failed"
  /\ held' = {}
  /\ running' = FALSE
  /\ UNCHANGED <<stopping, slaveCount, stop, consecutive, thread, slaveVars,
                 frameVars>>

\* Join the thread; release the master, the device and the lock.
JoinAndRelease ==
  /\ pc = "join"
  /\ thread = "exited"
  /\ pc' = IF stopping THEN "stopped" ELSE "failed"
  /\ held' = {}
  /\ running' = FALSE
  /\ UNCHANGED <<stopping, slaveCount, stop, consecutive, thread, slaveVars,
                 frameVars>>

\* Where the caller is while it takes the slaves out of OP.
Demoting == {"requestSafeop", "awaitSafeop", "requestPreop", "awaitPreop"}

Caller ==
  \/ Acquire \/ AcquireFails \/ Configure \/ SpawnThread \/ RequestOp
  \/ RequestRefused
  \/ Sample
  \/ RequestDown \/ AwaitDown \/ JoinAndRelease

-----------------------------------------------------------------------------
(* realtimeLoop *)

CycleTop ==
  /\ thread = "top"
  /\ thread' = IF stop THEN "exited" ELSE "cycle"
  /\ UNCHANGED <<callerVars, slaveVars, frameVars>>

\* A cycle publishes a frame; its data can be complete only in OP.
Cycle ==
  /\ thread = "cycle"
  /\ thread' = "top"
  /\ unseen' = TRUE
  /\ ready' \in IF al = "op" THEN BOOLEAN ELSE {FALSE}
  /\ readyCount' = IF ready' THEN OneMore(readyCount) ELSE readyCount
  /\ UNCHANGED <<callerVars, slaveVars>>

-----------------------------------------------------------------------------
(* The slaves (external) *)

SlavesStep ==
  /\ \/ requested \in {"safeop", "op"} /\ al = "preop" /\ al' = "safeop"
     \/ requested = "op" /\ al = "safeop" /\ thread # "exited" /\ al' = "op"
     \/ requested \in {"preop", "safeop"} /\ al = "op" /\ al' = "safeop"
     \/ requested = "preop" /\ al = "safeop" /\ al' = "preop"
  /\ UNCHANGED <<callerVars, thread, requested, refusals, gaveUp, frameVars>>

SlavesFallBack ==
  /\ al = "op"
  /\ al' = "safeop"
  /\ UNCHANGED <<callerVars, thread, requested, refusals, gaveUp, frameVars>>

Next ==
  \/ StartBegin \/ StopStarted \/ StopUnstarted
  \/ ReadyTimeout
  \/ Caller
  \/ CycleTop \/ Cycle
  \/ SlavesStep \/ SlavesFallBack

Spec == Init /\ [][Next]_vars

\* start and stop run on once they are called, time passes, and the realtime
\* thread runs.  Nothing is assumed of the slaves, nor of the kernel: that a
\* request is refused is a step of the caller, too, and may be its only one.
FairSpec ==
  /\ Spec
  /\ WF_vars(Caller) /\ WF_vars(ReadyTimeout)
  /\ WF_vars(CycleTop) /\ WF_vars(Cycle)

-----------------------------------------------------------------------------
TypeOK ==
  /\ pc \in {"idle", "acquire", "configure", "requestOp", "wait", "started",
             "requestSafeop", "awaitSafeop", "requestPreop", "awaitPreop",
             "join", "failed", "stopped"}
  /\ stopping \in BOOLEAN /\ held \subseteq Resources
  /\ slaveCount \in BOOLEAN /\ stop \in BOOLEAN /\ running \in BOOLEAN
  /\ consecutive \in 0 .. ReadyFrames
  /\ thread \in {"off", "top", "cycle", "exited"}
  /\ unseen \in BOOLEAN /\ ready \in BOOLEAN
  /\ al \in {"preop", "safeop", "op"} /\ requested \in {"preop", "safeop", "op"}
  /\ refusals \in {0, 1} /\ gaveUp \in BOOLEAN
  /\ readyCount \in 0 .. ReadyFrames

\* The realtime thread never works on a master, a domain or process data that
\* has been released.
NoUseAfterRelease == thread \in {"top", "cycle"} => UsedByLoop \subseteq held

\* When start has failed or stop has returned nothing is held, no thread is left
\* and the backend is not reported running.
CleanRelease ==
  pc \in {"failed", "stopped"} =>
    held = {} /\ thread \in {"off", "exited"} /\ ~running

\* start returns success only after as many distinct ready frames as configured
\* were published.
EnoughFreshFrames == pc = "started" /\ Waits => readyCount = ReadyFrames

\* Process data is exchanged as long as the slaves are in OP: the thread stops
\* only after they have left it, or after the backend has tried and given up.
ExchangedInOp == thread = "exited" => al # "op" \/ gaveUp

\* Both: what the backend holds is held while it is used, and no longer.
ResourcesSafe == NoUseAfterRelease /\ CleanRelease

\* Both: neither does start return nor the thread end too early.
StartAndStopInOrder == EnoughFreshFrames /\ ExchangedInOp

\* start returns, with success or a failure, unless the kernel refuses for ever to
\* pass on a request for PREOP or OP: these two loops have no bound, and nothing
\* else makes start wait for ever, whatever the slaves and the thread do.
StartReturns ==
  \/ []<><<RequestRefused>>_vars
  \/ pc = "acquire" ~> pc \in {"started", "failed", "stopped"}

\* stop and the way back from a failed start come to an end.
StopReturns == pc \in Demoting \cup {"join"} ~> pc \in {"failed", "stopped"}

\* Both: stop always returns, and start unless it is refused for ever.
CallsReturn == StartReturns /\ StopReturns

\* What the facade sees of this backend: how far its owner has come with it,
\* and whether the realtime thread may still touch the buffers.
Phase ==
  CASE pc = "idle" -> "created"
    [] pc = "started" -> "running"
    [] pc \in {"failed", "stopped"} -> pc
    [] pc \in Demoting \cup {"join"} /\ stopping -> "stopping"
    [] OTHER -> "starting"

Serving == thread \in {"top", "cycle"}

Contract == INSTANCE MotorBackend WITH
  phase <- Phase, active <- Serving, output <- <<ready, readyCount>>

\* The backend keeps what the facade relies on: a thread only between start and
\* the return of stop, frames from it only, a failed start leaves none.
BackendSpec == Contract!Spec

-----------------------------------------------------------------------------
(* The inductive invariant behind the safety properties. *)

\* What is held and whether there is a thread, by how far the caller has come.
PhaseInv ==
  /\ pc \in {"idle", "acquire", "configure"} => thread = "off"
  /\ pc = "idle" => held = {}
  /\ pc \in {"requestOp", "wait", "started"} \cup Demoting =>
       held = Resources /\ thread \in {"top", "cycle"} /\ ~stop
  /\ pc = "join" => held = Resources /\ thread # "off" /\ stop
  /\ thread = "exited" => stop

\* The frames counted so far were distinct and ready.
CountInv ==
  /\ pc = "wait" => consecutive + (IF unseen /\ ready THEN 1 ELSE 0)
                      <= readyCount \/ readyCount = ReadyFrames
  /\ ready => readyCount > 0

\* How far the slaves have been taken down.
DownInv ==
  ~gaveUp =>
    /\ pc \in {"idle", "acquire", "configure"} =>
         requested = "preop" /\ al = "preop"
    /\ pc = "awaitSafeop" => requested = "safeop"
    /\ pc = "requestPreop" => requested = "safeop" /\ al # "op"
    /\ pc = "awaitPreop" => requested = "preop" /\ al # "op"
    /\ pc = "join" \/ thread = "exited" => requested = "preop" /\ al = "preop"

IInv ==
  /\ TypeOK
  /\ PhaseInv
  /\ CountInv
  /\ DownInv
  /\ NoUseAfterRelease
  /\ CleanRelease
  /\ EnoughFreshFrames
  /\ ExchangedInOp

=============================================================================
