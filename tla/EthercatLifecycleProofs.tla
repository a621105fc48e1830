----------------------- MODULE EthercatLifecycleProofs -----------------------
(***************************************************************************)
(* Proofs about start and stop of an EtherCAT backend, for every number of *)
(* ready frames, with and without the wait for them.                       *)
(***************************************************************************)
EXTENDS EthercatLifecycle, TLAPS

\* The next resource is one of the six.
LEMMA NextResourceIsOne ==
  ASSUME held \subseteq Resources, held # Resources
  PROVE  NextResource \in Resources
<1> DEFINE P(i) == /\ Resource[i] \notin held
                   /\ \A j \in 1 .. i - 1 : Resource[j] \in held
<1>1. DOMAIN Resource = 1 .. 6
  BY DEF Resource
<1>2. \A i \in 1 .. 6 : Resource[i] \in Resources
  BY DEF Resource, Resources
<1>3. \E i \in 1 .. 6 : P(i)
  <2>1. /\ Resource[1] = "lock" /\ Resource[2] = "master"
        /\ Resource[3] = "device" /\ Resource[4] = "domains"
        /\ Resource[5] = "activation" /\ Resource[6] = "data"
    BY DEF Resource
  <2>2. CASE Resource[1] \notin held
    BY <2>2
  <2>3. CASE Resource[1] \in held /\ Resource[2] \notin held
    <3>1. P(2)
      BY <2>3
    <3> QED BY <3>1
  <2>4. CASE Resource[1] \in held /\ Resource[2] \in held /\ Resource[3] \notin held
    <3>1. \A j \in 1 .. 2 : j = 1 \/ j = 2
      OBVIOUS
    <3>2. P(3)
      BY <2>4, <3>1
    <3> QED BY <3>2
  <2>5. CASE /\ Resource[1] \in held /\ Resource[2] \in held
             /\ Resource[3] \in held /\ Resource[4] \notin held
    <3>1. \A j \in 1 .. 3 : j = 1 \/ j = 2 \/ j = 3
      OBVIOUS
    <3>2. P(4)
      BY <2>5, <3>1
    <3> QED BY <3>2
  <2>6. CASE /\ Resource[1] \in held /\ Resource[2] \in held
             /\ Resource[3] \in held /\ Resource[4] \in held
             /\ Resource[5] \notin held
    <3>1. \A j \in 1 .. 4 : j = 1 \/ j = 2 \/ j = 3 \/ j = 4
      OBVIOUS
    <3>2. P(5)
      BY <2>6, <3>1
    <3> QED BY <3>2
  <2>7. CASE /\ Resource[1] \in held /\ Resource[2] \in held
             /\ Resource[3] \in held /\ Resource[4] \in held
             /\ Resource[5] \in held
    <3>1. \A j \in 1 .. 5 : j = 1 \/ j = 2 \/ j = 3 \/ j = 4 \/ j = 5
      OBVIOUS
    <3>2. Resource[6] \notin held
      BY <2>1, <2>7 DEF Resources
    <3>3. P(6)
      BY <2>7, <3>1, <3>2
    <3> QED BY <3>3
  <2> QED BY <2>2, <2>3, <2>4, <2>5, <2>6, <2>7
<1>4. \E i \in DOMAIN Resource : P(i)
  BY <1>1, <1>3
<1>5. (CHOOSE i \in DOMAIN Resource : P(i)) \in 1 .. 6
  BY <1>1, <1>4
<1> QED BY <1>2, <1>5 DEF NextResource

-----------------------------------------------------------------------------
\* The strengthened invariant holds in every reachable state.
LEMMA InitInv == Init => IInv
<1> SUFFICES ASSUME Init PROVE IInv
  OBVIOUS
<1>1. TypeOK
  <2>1. 0 \in 0 .. ReadyFrames
    BY ReadyFramesAssumption
  <2> QED BY <2>1, Zenon DEF Init, TypeOK
<1>2. CountInv /\ EnoughFreshFrames
  BY DEF Init, CountInv, EnoughFreshFrames
<1>3. PhaseInv /\ DownInv /\ NoUseAfterRelease /\ CleanRelease /\ ExchangedInOp
  BY DEF Init, PhaseInv, DownInv, NoUseAfterRelease, CleanRelease,
     ExchangedInOp, Demoting
<1> QED BY <1>1, <1>2, <1>3 DEF IInv

\* The steps of the realtime thread and of the slaves.
LEMMA OthersInv ==
  ASSUME IInv, CycleTop \/ Cycle \/ SlavesStep \/ SlavesFallBack
  PROVE  IInv'
<1> USE ReadyFramesAssumption, WaitsAssumption
<1>1. CASE CycleTop
  BY <1>1 DEF IInv, CycleTop, TypeOK, PhaseInv, CountInv, DownInv,
     NoUseAfterRelease, CleanRelease, EnoughFreshFrames, ExchangedInOp,
     callerVars, slaveVars, frameVars, Demoting
<1>2. CASE Cycle
  <2>1. TypeOK'
    <3>1. ready' \in BOOLEAN
      BY <1>2 DEF Cycle
    <3>2. readyCount' \in 0 .. ReadyFrames
      BY <1>2 DEF IInv, TypeOK, Cycle, OneMore
    <3> QED
      BY <1>2, <3>1, <3>2 DEF IInv, TypeOK, Cycle, callerVars, slaveVars
  <2>2. CountInv'
    BY <1>2 DEF IInv, TypeOK, CountInv, Cycle, OneMore, callerVars
  <2>3. EnoughFreshFrames'
    BY <1>2 DEF IInv, TypeOK, EnoughFreshFrames, Cycle, OneMore, callerVars
  <2>4. PhaseInv' /\ DownInv' /\ NoUseAfterRelease' /\ CleanRelease' /\ ExchangedInOp'
    BY <1>2 DEF IInv, TypeOK, PhaseInv, DownInv, NoUseAfterRelease,
       CleanRelease, ExchangedInOp, Cycle, callerVars, slaveVars, Demoting
  <2> QED BY <2>1, <2>2, <2>3, <2>4 DEF IInv
<1>3. CASE SlavesStep
  BY <1>3 DEF IInv, SlavesStep, TypeOK, PhaseInv, CountInv, DownInv,
     NoUseAfterRelease, CleanRelease, EnoughFreshFrames, ExchangedInOp,
     callerVars, frameVars, Demoting
<1>4. CASE SlavesFallBack
  BY <1>4 DEF IInv, SlavesFallBack, TypeOK, PhaseInv, CountInv, DownInv,
     NoUseAfterRelease, CleanRelease, EnoughFreshFrames, ExchangedInOp,
     callerVars, frameVars, Demoting
<1> QED BY <1>1, <1>2, <1>3, <1>4

\* start up to the wait for fresh feedback.
LEMMA StartInv ==
  ASSUME IInv,
         \/ StartBegin \/ Acquire \/ AcquireFails \/ Configure
         \/ SpawnThread \/ RequestOp \/ RequestRefused
  PROVE  IInv'
<1> USE ReadyFramesAssumption, WaitsAssumption
<1>1. CASE StartBegin
  BY <1>1 DEF IInv, StartBegin, TypeOK, PhaseInv, CountInv, DownInv,
     NoUseAfterRelease, CleanRelease, EnoughFreshFrames, ExchangedInOp,
     slaveVars, frameVars, Demoting
<1>2. CASE Acquire
  <2>1. NextResource \in Resources
    BY <1>2, NextResourceIsOne DEF IInv, TypeOK, Acquire
  <2>2. held' \subseteq Resources /\ slaveCount' \in BOOLEAN
    BY <1>2, <2>1 DEF IInv, TypeOK, Acquire
  <2> QED
    BY <1>2, <2>2 DEF IInv, Acquire, TypeOK, PhaseInv, CountInv, DownInv,
       NoUseAfterRelease, CleanRelease, EnoughFreshFrames, ExchangedInOp,
       slaveVars, frameVars, Demoting
<1>3. CASE AcquireFails
  <2>1. pc \in {"acquire", "configure"} /\ ~gaveUp => requested = "preop"
    BY <1>3 DEF IInv, DownInv, AcquireFails
  <2>2. thread = "off"
    BY <1>3 DEF IInv, PhaseInv, AcquireFails
  <2> QED
    BY <1>3, <2>1, <2>2 DEF IInv, AcquireFails, FailStart, TypeOK, PhaseInv, CountInv, DownInv,
     NoUseAfterRelease, CleanRelease, EnoughFreshFrames, ExchangedInOp,
     slaveVars, frameVars, Demoting
<1>4. CASE SpawnThread
  BY <1>4 DEF IInv, SpawnThread, TypeOK, PhaseInv, CountInv, DownInv,
     NoUseAfterRelease, CleanRelease, EnoughFreshFrames, ExchangedInOp,
     slaveVars, frameVars, Demoting, Resources, UsedByLoop
<1>5. CASE RequestOp
  <2>1. requested' \in {"preop", "safeop", "op"}
    BY <1>5 DEF IInv, TypeOK, RequestOp
  <2>2. TypeOK'
    BY <1>5, <2>1 DEF IInv, TypeOK, RequestOp, frameVars
  <2>3. CountInv' /\ EnoughFreshFrames'
    BY <1>5 DEF IInv, TypeOK, CountInv, EnoughFreshFrames, RequestOp, frameVars
  <2>4. DownInv'
    BY <1>5, <2>1 DEF IInv, DownInv, PhaseInv, RequestOp, Demoting
  <2>5. PhaseInv' /\ NoUseAfterRelease' /\ CleanRelease' /\ ExchangedInOp'
    BY <1>5 DEF IInv, PhaseInv, NoUseAfterRelease, CleanRelease,
       ExchangedInOp, RequestOp, Demoting
  <2> QED BY <2>2, <2>3, <2>4, <2>5 DEF IInv
<1>6. CASE Configure
  BY <1>6 DEF IInv, Configure, TypeOK, PhaseInv, CountInv, DownInv,
     NoUseAfterRelease, CleanRelease, EnoughFreshFrames, ExchangedInOp,
     frameVars, Demoting
<1>7. CASE RequestRefused
  <2>1. /\ pc \in {"configure", "requestOp"}
        /\ requested' \in {"preop", "safeop", "op"}
        /\ pc = "configure" => requested' = requested
        /\ refusals' \in {0, 1}
    BY <1>7 DEF IInv, TypeOK, RequestRefused, Repeating
  <2>2. UNCHANGED <<pc, stopping, held, slaveCount, stop, running, consecutive,
                    thread, al, gaveUp, unseen, ready, readyCount>>
    BY <1>7 DEF RequestRefused, callerVars, frameVars
  <2>3. TypeOK'
    BY <2>1, <2>2 DEF IInv, TypeOK
  <2>4. CountInv' /\ EnoughFreshFrames' /\ PhaseInv' /\ NoUseAfterRelease'
        /\ CleanRelease' /\ ExchangedInOp'
    BY <2>1, <2>2 DEF IInv, CountInv, EnoughFreshFrames, PhaseInv,
       NoUseAfterRelease, CleanRelease, ExchangedInOp, Demoting
  <2>5. DownInv'
    BY <2>1, <2>2 DEF IInv, DownInv, PhaseInv
  <2> QED BY <2>3, <2>4, <2>5 DEF IInv
<1> QED BY <1>1, <1>2, <1>3, <1>4, <1>5, <1>6, <1>7

\* The way back from where the thread runs: out of OP first, or to the join.
LEMMA ShutdownInv ==
  ASSUME IInv, pc \in {"wait", "started"}, NEW failed \in BOOLEAN, BeginShutdown(failed)
  PROVE  IInv'
<1>1. /\ held = Resources /\ thread \in {"top", "cycle"} /\ ~stop
      /\ slaveCount \in BOOLEAN /\ stop \in BOOLEAN /\ gaveUp \in BOOLEAN
  BY DEF IInv, PhaseInv, TypeOK
<1>2. /\ stopping' \in BOOLEAN
      /\ UNCHANGED <<held, slaveCount, running, consecutive, thread, al, requested,
                     refusals, unseen, ready, readyCount>>
      /\ \/ pc' = "requestSafeop" /\ UNCHANGED <<stop, gaveUp>>
         \/ pc' = "join" /\ stop' = TRUE /\ gaveUp' = TRUE
  BY DEF BeginShutdown, frameVars
<1>3. TypeOK'
  <2>1. pc' \in {"requestSafeop", "join"} /\ stop' \in BOOLEAN /\ gaveUp' \in BOOLEAN
    BY <1>1, <1>2
  <2> QED BY <1>2, <2>1 DEF IInv, TypeOK
<1>4. PhaseInv' /\ NoUseAfterRelease' /\ CleanRelease'
  BY <1>1, <1>2 DEF IInv, PhaseInv, NoUseAfterRelease, CleanRelease, Demoting
<1>5. CountInv' /\ EnoughFreshFrames'
  BY <1>2 DEF IInv, CountInv, EnoughFreshFrames
<1>6. DownInv' /\ ExchangedInOp'
  BY <1>1, <1>2 DEF IInv, DownInv, ExchangedInOp
<1> QED BY <1>3, <1>4, <1>5, <1>6 DEF IInv

\* The wait, the way back and stop.
LEMMA StopInv ==
  ASSUME IInv,
         \/ Sample \/ ReadyTimeout \/ StopStarted \/ StopUnstarted
         \/ RequestDown \/ AwaitDown \/ JoinAndRelease
  PROVE  IInv'
<1> USE ReadyFramesAssumption, WaitsAssumption
<1>1. CASE Sample
  <2>1. consecutive' \in 0 .. ReadyFrames /\ pc' \in {"started", "wait"}
    BY <1>1 DEF IInv, TypeOK, Sample, OneMore
  <2>2. TypeOK'
    <3>1. unseen' \in BOOLEAN
      BY <1>1 DEF Sample
    <3>2. UNCHANGED <<stopping, held, slaveCount, stop, running, thread, ready, readyCount,
                      al, requested, refusals, gaveUp>>
      BY <1>1 DEF Sample, slaveVars
    <3> QED BY <2>1, <3>1, <3>2 DEF IInv, TypeOK
  <2>3. CountInv' /\ EnoughFreshFrames'
    BY <1>1 DEF IInv, TypeOK, CountInv, EnoughFreshFrames, Sample, OneMore
  <2>4. PhaseInv' /\ DownInv' /\ NoUseAfterRelease' /\ CleanRelease' /\ ExchangedInOp'
    BY <1>1, <2>1 DEF IInv, PhaseInv, DownInv, NoUseAfterRelease, CleanRelease,
       ExchangedInOp, Sample, slaveVars, Demoting
  <2> QED BY <2>2, <2>3, <2>4 DEF IInv
<1>2. CASE ReadyTimeout
  BY <1>2, ShutdownInv DEF ReadyTimeout
<1>3. CASE StopStarted
  BY <1>3, ShutdownInv DEF StopStarted
<1>4. CASE StopUnstarted
  <2>1. /\ pc' = "stopped" /\ stop' /\ held' = {} /\ ~running'
        /\ thread \in {"off", "exited"} /\ running' \in BOOLEAN /\ stop' \in BOOLEAN
        /\ UNCHANGED <<stopping, slaveCount, consecutive, thread, al, requested, refusals,
                       gaveUp, unseen, ready, readyCount>>
    BY <1>4 DEF IInv, StopUnstarted, PhaseInv, CleanRelease, slaveVars, frameVars
  <2>2. TypeOK'
    BY <2>1 DEF IInv, TypeOK
  <2>3. PhaseInv' /\ NoUseAfterRelease' /\ CleanRelease'
    BY <2>1 DEF IInv, PhaseInv, NoUseAfterRelease, CleanRelease, Demoting
  <2>4. CountInv' /\ EnoughFreshFrames'
    BY <2>1 DEF IInv, CountInv, EnoughFreshFrames
  <2>5. DownInv' /\ ExchangedInOp'
    BY <2>1 DEF IInv, DownInv, ExchangedInOp
  <2> QED BY <2>2, <2>3, <2>4, <2>5 DEF IInv
<1>5. CASE RequestDown
  <2>1. /\ pc \in {"requestSafeop", "requestPreop"}
        /\ pc' = IF pc = "requestSafeop" THEN "awaitSafeop" ELSE "awaitPreop"
        /\ requested' \in {"preop", "safeop", "op"}
        /\ ~gaveUp' =>
             ~gaveUp /\ requested' = IF pc = "requestSafeop" THEN "safeop"
                                                             ELSE "preop"
    BY <1>5 DEF IInv, TypeOK, RequestDown
  <2> gaveUp' \in BOOLEAN
    BY <1>5 DEF RequestDown
  <2>2. TypeOK'
    BY <1>5, <2>1 DEF IInv, TypeOK, RequestDown, frameVars
  <2>3. CountInv' /\ EnoughFreshFrames'
    BY <1>5, <2>1 DEF IInv, CountInv, EnoughFreshFrames, RequestDown, frameVars
  <2>4. DownInv'
    BY <1>5, <2>1 DEF IInv, DownInv, PhaseInv, RequestDown, Demoting
  <2>5. PhaseInv' /\ NoUseAfterRelease' /\ CleanRelease' /\ ExchangedInOp'
    BY <1>5, <2>1 DEF IInv, PhaseInv, NoUseAfterRelease, CleanRelease,
       ExchangedInOp, RequestDown, Demoting
  <2> QED BY <2>2, <2>3, <2>4, <2>5 DEF IInv
<1>6. CASE AwaitDown
  <2>1. /\ \/ pc = "awaitSafeop" /\ pc' = "requestPreop" /\ stop' = stop
              /\ (~gaveUp' => ~gaveUp /\ al # "op")
           \/ pc = "awaitPreop" /\ pc' = "join" /\ stop' = TRUE
              /\ (~gaveUp' => ~gaveUp /\ al = "preop")
        /\ UNCHANGED <<stopping, held, slaveCount, running, consecutive, thread,
                       al, requested, refusals, frameVars>>
    BY <1>6 DEF AwaitDown
  <2> gaveUp' \in BOOLEAN
    BY <1>6 DEF AwaitDown
  <2>2. TypeOK'
    <3>1. pc' \in {"requestPreop", "join"} /\ stop' \in BOOLEAN
      BY <2>1 DEF IInv, TypeOK
    <3>2. UNCHANGED <<stopping, held, slaveCount, running, consecutive, thread,
                      al, requested, refusals, unseen, ready, readyCount>>
      BY <2>1 DEF frameVars
    <3> QED BY <3>1, <3>2 DEF IInv, TypeOK
  <2>3. CountInv' /\ EnoughFreshFrames'
    BY <2>1 DEF IInv, CountInv, EnoughFreshFrames, frameVars
  <2>4. DownInv'
    BY <2>1 DEF IInv, DownInv, PhaseInv, slaveVars, Demoting
  <2>5. PhaseInv' /\ NoUseAfterRelease' /\ CleanRelease' /\ ExchangedInOp'
    BY <2>1 DEF IInv, PhaseInv, NoUseAfterRelease, CleanRelease,
       ExchangedInOp, slaveVars, Demoting
  <2> QED BY <2>2, <2>3, <2>4, <2>5 DEF IInv
<1>7. CASE JoinAndRelease
  BY <1>7 DEF IInv, JoinAndRelease, TypeOK, PhaseInv, CountInv, DownInv,
     NoUseAfterRelease, CleanRelease, EnoughFreshFrames, ExchangedInOp,
     slaveVars, frameVars, Demoting
<1> QED BY <1>1, <1>2, <1>3, <1>4, <1>5, <1>6, <1>7

LEMMA StutterInv == ASSUME IInv, UNCHANGED vars PROVE IInv'
BY DEF IInv, TypeOK, PhaseInv, CountInv, DownInv, NoUseAfterRelease,
   CleanRelease, EnoughFreshFrames, ExchangedInOp, vars, callerVars, slaveVars,
   frameVars

\* The inductive invariant of start and stop.
THEOREM Invariance == Spec => []IInv
<1>1. IInv /\ [Next]_vars => IInv'
  BY OthersInv, StartInv, StopInv, StutterInv DEF Next, Caller
<1> QED BY InitInv, <1>1, PTL DEF Spec

-----------------------------------------------------------------------------
\* Every variable keeps its type.
THEOREM TypeCorrect == Spec => []TypeOK
<1>1. IInv => TypeOK
  BY DEF IInv
<1> QED BY Invariance, <1>1, PTL

\* No cycle of the realtime loop works on what start or stop has released.
THEOREM NothingUsedAfterRelease == Spec => []NoUseAfterRelease
<1>1. IInv => NoUseAfterRelease
  BY DEF IInv
<1> QED BY Invariance, <1>1, PTL

\* A failed start and a stop leave nothing behind.
THEOREM NothingLeftBehind == Spec => []CleanRelease
<1>1. IInv => CleanRelease
  BY DEF IInv
<1> QED BY Invariance, <1>1, PTL

\* A successful start has seen as many distinct ready frames as configured.
THEOREM StartHasSeenFrames == Spec => []EnoughFreshFrames
<1>1. IInv => EnoughFreshFrames
  BY DEF IInv
<1> QED BY Invariance, <1>1, PTL

\* Slaves are never left in OP without process data, unless the backend tried to
\* take them down and gave up.
THEOREM SlavesLeaveOpFirst == Spec => []ExchangedInOp
<1>1. IInv => ExchangedInOp
  BY DEF IInv
<1> QED BY Invariance, <1>1, PTL

\* Nothing is used after it was released, and nothing is left behind by start
\* or stop.
THEOREM ResourcesAreSafe == Spec => []ResourcesSafe
BY NothingUsedAfterRelease, NothingLeftBehind, PTL DEF ResourcesSafe

\* Neither does start return nor the realtime thread end too early.
THEOREM OrderIsKept == Spec => []StartAndStopInOrder
BY StartHasSeenFrames, SlavesLeaveOpFirst, PTL DEF StartAndStopInOrder
-----------------------------------------------------------------------------
(* The backend implements the contract of MotorBackend. *)

\* What the caller does is a step of start or stop as the facade sees it.
LEMMA CallerImplements ==
  ASSUME IInv, Caller \/ StartBegin \/ StopStarted \/ StopUnstarted \/ ReadyTimeout
  PROVE  [Contract!Next]_Contract!vars
<1> USE DEF Phase, Serving, Demoting, Contract!vars
<1>1. /\ pc \in {"idle", "acquire", "configure"} => thread = "off"
      /\ pc \in {"requestOp", "wait", "started"} \cup Demoting => Serving
      /\ pc \in {"failed", "stopped"} => ~Serving
      /\ Serving' = (thread' \in {"top", "cycle"})
  BY DEF IInv, PhaseInv, CleanRelease
<1>2. CASE StartBegin
  BY <1>1, <1>2 DEF StartBegin, frameVars, Contract!Next, Contract!Start
<1>3. CASE Acquire \/ AcquireFails \/ Configure
  BY <1>1, <1>3 DEF Acquire, AcquireFails, Configure, FailStart, frameVars, Contract!Next, Contract!StartFails
<1>4. CASE SpawnThread
  BY <1>1, <1>4 DEF SpawnThread, frameVars, Contract!Next, Contract!ThreadsBegin
<1>5. CASE RequestOp \/ RequestRefused \/ Sample
  BY <1>1, <1>5 DEF RequestOp, RequestRefused, Sample, callerVars, frameVars, Contract!Next, Contract!StartSucceeds
<1>6. CASE StopStarted \/ ReadyTimeout
  BY <1>1, <1>6 DEF StopStarted, ReadyTimeout, BeginShutdown, frameVars, Contract!Next,
                    Contract!StopBegins
<1>7. CASE RequestDown \/ AwaitDown
  BY <1>1, <1>7 DEF RequestDown, AwaitDown, frameVars
<1>8. CASE JoinAndRelease \/ StopUnstarted
  BY <1>1, <1>8 DEF JoinAndRelease, StopUnstarted, frameVars, Contract!Next, Contract!StartFails,
                    Contract!StopReturns
<1> QED BY <1>2, <1>3, <1>4, <1>5, <1>6, <1>7, <1>8 DEF Caller

\* The thread publishes while it serves, and ends when it is told to.
LEMMA OthersImplement ==
  ASSUME IInv, CycleTop \/ Cycle \/ SlavesStep \/ SlavesFallBack \/ UNCHANGED vars
  PROVE  [Contract!Next]_Contract!vars
<1> USE DEF Phase, Serving, Contract!vars
<1>1. CASE CycleTop
  BY <1>1 DEF CycleTop, IInv, TypeOK, PhaseInv, CleanRelease, Demoting, callerVars, frameVars,
              Contract!Next, Contract!ThreadsEnd
<1>2. CASE Cycle
  BY <1>2 DEF Cycle, callerVars, Contract!Next, Contract!Publish
<1>3. CASE SlavesStep \/ SlavesFallBack \/ UNCHANGED vars
  BY <1>3 DEF SlavesStep, SlavesFallBack, vars, callerVars, frameVars
<1> QED BY <1>1, <1>2, <1>3

\* An EtherCAT backend is a MotorBackend as the facade relies on it.
THEOREM ImplementsContract == Spec => BackendSpec
<1>1. Init => Contract!Init
  BY DEF Init, Contract!Init, Phase, Serving
<1>2. IInv /\ [Next]_vars => [Contract!Next]_Contract!vars
  BY CallerImplements, OthersImplement DEF Next
<1> QED BY <1>1, <1>2, Invariance, PTL DEF Spec, BackendSpec, Contract!Spec
=============================================================================
