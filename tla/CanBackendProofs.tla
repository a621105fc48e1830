-------------------------- MODULE CanBackendProofs --------------------------
(***************************************************************************)
(* The safety of the CAN backend for every set of motors with distinct     *)
(* slave ids, every mix of lost replies, silent motors and other traffic:  *)
(* no frame passes off an old reply as new, the stale flag and the status  *)
(* word agree, and the socket outlives both threads.                       *)
(***************************************************************************)
EXTENDS CanBackend, TLAPS

\* A backend object starts with no thread, no socket, an empty mask and a frame
\* that shows no motor as healthy.
LEMMA InitIInv == Init => IInv
<1> SUFFICES ASSUME Init PROVE IInv
  OBVIOUS
<1> USE DEF Init
<1>1. TypeOK
  <2>1. published \in Frame
    BY DEF Frame, StatusWord
  <2>2. stop \in BOOLEAN /\ open \in BOOLEAN /\ running \in BOOLEAN
    OBVIOUS
  <2>3. degraded \in BOOLEAN
    OBVIOUS
  <2> QED
    BY <2>1, <2>2, <2>3, SilentAssumption DEF TypeOK, StatusWord, MaxQuiet
<1>2. LifecycleInv
  BY DEF LifecycleInv, NoIoAfterClose
<1>3. TrackerInv
  BY DEF TrackerInv
<1>4. published.status = [m \in Motor |-> "initial"] /\ published.stale = {}
  OBVIOUS
<1>5. StaleFlagMatchesStatus /\ HealthyIsFresh /\ HeardIsHealthy
  BY <1>4 DEF StaleFlagMatchesStatus, HealthyIsFresh, HeardIsHealthy
<1> QED
  BY <1>1, <1>2, <1>3, <1>5 DEF IInv

\* The mask has room for a motor exactly if the motor was not heard yet.
LEMMA ReceivedIsAnswered ==
  ASSUME TypeOK, TrackerInv, NEW m \in Motor
  PROVE  IsReceived(m) <=> m \in answered
  BY SlaveIdAssumption DEF TypeOK, TrackerInv, IsReceived

\* When a reply completes the mask, every motor was heard.
LEMMA CompleteMeansAll ==
  ASSUME TypeOK, TrackerInv, NEW m \in Motor, Completes(m)
  PROVE  answered \cup {m} = Motor
<1>1. ASSUME NEW n \in Motor PROVE n \in answered \cup {m}
  <2>1. SlaveId[n] \in current \cup {SlaveId[m]}
    BY DEF Completes, ExpectedMask
  <2> QED
    BY <2>1, SlaveIdAssumption DEF TypeOK, TrackerInv
<1> QED
  BY <1>1 DEF TypeOK

\* start and stop keep the invariant.
LEMMA LifecycleIInv ==
  IInv /\ (StartTx \/ StartRx \/ StartFails \/ SetTarget \/ StopStep) => IInv'
<1> SUFFICES ASSUME IInv,
                    StartTx \/ StartRx \/ StartFails \/ SetTarget \/ StopStep
             PROVE  IInv'
  OBVIOUS
<1> USE DEF StartTx, StartRx, StartFails, SetTarget, StopStep, StopRequest,
            JoinTx, JoinRxAndClose, appVars, statusVars, txVars, trackVars,
            pubVars, envVars
<1>1. TypeOK'
  <2> USE DEF IInv, TypeOK
  <2>1. CASE StartTx \/ StartRx
    <3>1. stop' \in BOOLEAN /\ open' \in BOOLEAN /\ running' \in BOOLEAN
      BY <2>1
    <3> QED
      BY <2>1, <3>1
  <2>2. CASE StartFails
    BY <2>2 DEF SetFault, BackendFault
  <2>3. CASE SetTarget
    <3>1. target' \in [Motor -> {-1, 0, 1}]
      BY <2>3, TargetsAssumption
    <3> QED
      BY <2>3, <3>1
  <2>4. CASE StopStep
    <3>1. stop' \in BOOLEAN /\ open' \in BOOLEAN /\ running' \in BOOLEAN
      BY <2>4
    <3> QED
      BY <2>4, <3>1
  <2> QED
    BY <2>1, <2>2, <2>3, <2>4
<1>2. LifecycleInv'
  BY DEF IInv, LifecycleInv, NoIoAfterClose
<1>3. TrackerInv'
  BY DEF IInv, TrackerInv, LifecycleInv
<1>4. StaleFlagMatchesStatus' /\ HealthyIsFresh' /\ HeardIsHealthy'
  BY DEF IInv, StaleFlagMatchesStatus, HealthyIsFresh, HeardIsHealthy
<1> QED
  BY <1>1, <1>2, <1>3, <1>4 DEF IInv

\* The transmit thread touches neither the tracker nor a published frame.
LEMMA TxStepIInv == IInv /\ TxStep => IInv'
<1> SUFFICES ASSUME IInv, TxStep PROVE IInv'
  OBVIOUS
<1> USE DEF TxStep, TxCycle, TxSend, TxSendFails, TxSleep, appVars,
            statusVars, trackVars, pubVars, envVars
<1>1. TypeOK'
  <2> USE DEF IInv, TypeOK
  <2>1. CASE TxCycle
    BY <2>1
  <2>2. ASSUME NEW m \in Motor, TxSend(m) PROVE TypeOK'
    BY <2>2 DEF CommandFor
  <2>3. ASSUME NEW m \in Motor, TxSendFails(m) PROVE TypeOK'
    BY <2>3 DEF SetFault, BackendFault
  <2>4. CASE TxSleep
    BY <2>4 DEF MaxQuiet
  <2> QED
    BY <2>1, <2>2, <2>3, <2>4
<1>2. LifecycleInv'
  BY DEF IInv, LifecycleInv, NoIoAfterClose
<1>3. TrackerInv'
  BY DEF IInv, TrackerInv
<1>4. StaleFlagMatchesStatus' /\ HealthyIsFresh' /\ HeardIsHealthy'
  BY DEF IInv, StaleFlagMatchesStatus, HealthyIsFresh, HeardIsHealthy
<1> QED
  BY <1>1, <1>2, <1>3, <1>4 DEF IInv

\* So does the bus.
LEMMA EnvironmentIInv == IInv /\ Environment => IInv'
<1> SUFFICES ASSUME IInv, Environment PROVE IInv'
  OBVIOUS
<1> USE DEF Environment, Reply, LoseReply, FallSilent, ComeBack, OtherTraffic,
            appVars, statusVars, txVars, trackVars, pubVars
<1>1. TypeOK'
  BY DEF IInv, TypeOK
<1>2. LifecycleInv'
  BY DEF IInv, LifecycleInv, NoIoAfterClose
<1>3. TrackerInv'
  BY DEF IInv, TrackerInv
<1>4. StaleFlagMatchesStatus' /\ HealthyIsFresh' /\ HeardIsHealthy'
  BY DEF IInv, StaleFlagMatchesStatus, HealthyIsFresh, HeardIsHealthy
<1> QED
  BY <1>1, <1>2, <1>3, <1>4 DEF IInv

\* A reply marks its motor, or completes and publishes a frame of motors that
\* were all heard.
LEMMA RxReplyIInv == ASSUME NEW m \in Motor, IInv, RxReply(m) PROVE IInv'
<1> USE DEF RxReply, appVars, statusVars, txVars
<1>1. TypeOK'
  BY DEF IInv, TypeOK, Frame, StatusWord, ExpectedMask, pubVars, MaxQuiet
<1>2. LifecycleInv'
  BY DEF IInv, LifecycleInv, NoIoAfterClose
<1>3. stale' = {n \in Motor : status'[n] = "lost"}
  BY DEF IInv, TypeOK, TrackerInv
<1>4. TrackerInv'
  <2>1. current' = {SlaveId[n] : n \in answered'}
    BY DEF IInv, TypeOK, TrackerInv
  <2>2. answered' \cap stale' = {}
    BY DEF IInv, TrackerInv
  <2> QED
    BY <1>3, <2>1, <2>2 DEF TrackerInv
<1>5. CASE Completes(m)
  <2>1. freshIn' = Motor
    BY <1>5, CompleteMeansAll DEF IInv
  <2>2. StaleFlagMatchesStatus'
    <3>1. published'.stale = stale' /\ published'.status = status'
      BY <1>5
    <3> QED
      BY <1>3, <3>1 DEF StaleFlagMatchesStatus
  <2>3. HeardIsHealthy'
    <3>1. published'.stale = stale \ {m} /\ freshIn' = answered \cup {m}
      BY <1>5
    <3> QED
      BY <3>1 DEF IInv, TrackerInv, HeardIsHealthy
  <2> QED
    BY <1>1, <1>2, <1>4, <2>1, <2>2, <2>3 DEF IInv, HealthyIsFresh
<1>6. CASE ~Completes(m)
  <2>1. StaleFlagMatchesStatus' /\ HealthyIsFresh' /\ HeardIsHealthy'
    BY <1>6 DEF IInv, StaleFlagMatchesStatus, HealthyIsFresh, HeardIsHealthy,
                pubVars
  <2> QED
    BY <1>1, <1>2, <1>4, <2>1 DEF IInv
<1> QED
  BY <1>5, <1>6

\* Any other frame is dropped.
LEMMA RxOtherIInv == IInv /\ RxOther => IInv'
  BY DEF IInv, RxOther, appVars, statusVars, txVars, trackVars, pubVars,
         TypeOK, LifecycleInv, NoIoAfterClose, TrackerInv,
         StaleFlagMatchesStatus, HealthyIsFresh, HeardIsHealthy, MaxQuiet

\* A timeout alone changes no frame.
LEMMA RxTimeoutIInv == IInv /\ RxTimeout => IInv'
  BY DEF IInv, RxTimeout, appVars, statusVars, txVars, trackVars, pubVars,
         TypeOK, LifecycleInv, NoIoAfterClose, TrackerInv,
         StaleFlagMatchesStatus, HealthyIsFresh, HeardIsHealthy, MaxQuiet

\* What follows it marks the motors that were not heard, and no other.
LEMMA RxMarkMissingIInv == IInv /\ RxMarkMissing => IInv'
<1> SUFFICES ASSUME IInv, RxMarkMissing PROVE IInv'
  OBVIOUS
<1> USE DEF RxMarkMissing, MarkMissingStale, appVars, txVars, pubVars, envVars
<1>1. TypeOK'
  BY DEF IInv, TypeOK, StatusWord, SetFault, FeedbackTimeout, MaxQuiet
<1>2. LifecycleInv'
  BY DEF IInv, LifecycleInv, NoIoAfterClose
<1>3. TrackerInv'
  <2>1. \A m \in Motor : IsReceived(m) <=> m \in answered
    BY ReceivedIsAnswered DEF IInv
  <2>2. stale' = {m \in Motor : status'[m] = "lost"}
    BY DEF IInv, TypeOK, TrackerInv
  <2>3. \A m \in Motor \ answered : m \in stale'
    BY <2>1
  <2>4. answered \cap stale' = {}
    BY <2>1 DEF IInv, TypeOK, TrackerInv
  <2> QED
    BY <2>2, <2>3, <2>4 DEF IInv, TrackerInv
<1>4. StaleFlagMatchesStatus' /\ HealthyIsFresh' /\ HeardIsHealthy'
  BY DEF IInv, StaleFlagMatchesStatus, HealthyIsFresh, HeardIsHealthy
<1> QED
  BY <1>1, <1>2, <1>3, <1>4 DEF IInv

\* The partial frame shows as healthy only motors that were heard.
LEMMA RxPublishPartialIInv == IInv /\ RxPublishPartial => IInv'
<1> SUFFICES ASSUME IInv, RxPublishPartial PROVE IInv'
  OBVIOUS
<1> USE DEF RxPublishPartial, appVars, statusVars, txVars, envVars
<1>1. TypeOK'
  BY DEF IInv, TypeOK, Frame
<1>2. LifecycleInv'
  BY DEF IInv, LifecycleInv, NoIoAfterClose
<1>3. TrackerInv'
  BY DEF IInv, TrackerInv
<1>4. StaleFlagMatchesStatus'
  BY DEF IInv, TrackerInv, StaleFlagMatchesStatus
<1>5. HealthyIsFresh' /\ HeardIsHealthy'
  BY DEF IInv, TrackerInv, HealthyIsFresh, HeardIsHealthy
<1> QED
  BY <1>1, <1>2, <1>3, <1>4, <1>5 DEF IInv

\* The receive thread leaves its loop or waits for a frame.
LEMMA RxWaitIInv == IInv /\ RxWait => IInv'
  BY DEF IInv, RxWait, appVars, statusVars, txVars, trackVars, pubVars,
         envVars, TypeOK, LifecycleInv, NoIoAfterClose, TrackerInv,
         StaleFlagMatchesStatus, HealthyIsFresh, HeardIsHealthy, MaxQuiet

\* Every step keeps the invariant.
LEMMA NextIInv == IInv /\ [Next]_vars => IInv'
<1> SUFFICES ASSUME IInv, [Next]_vars PROVE IInv'
  OBVIOUS
<1>1. CASE StartTx \/ StartRx \/ StartFails \/ SetTarget \/ StopStep
  BY <1>1, LifecycleIInv
<1>2. CASE TxStep
  BY <1>2, TxStepIInv
<1>3. ASSUME NEW m \in Motor, RxReply(m) PROVE IInv'
  BY <1>3, RxReplyIInv
<1>4. CASE RxOther
  BY <1>4, RxOtherIInv
<1>5. CASE RxTimeout
  BY <1>5, RxTimeoutIInv
<1>6. CASE RxMarkMissing \/ RxPublishPartial
  BY <1>6, RxMarkMissingIInv, RxPublishPartialIInv
<1>7. CASE RxWait
  BY <1>7, RxWaitIInv
<1>8. CASE Environment
  BY <1>8, EnvironmentIInv
<1>9. CASE UNCHANGED vars
  BY <1>9 DEF vars, appVars, statusVars, txVars, trackVars, pubVars, envVars,
              IInv, TypeOK, LifecycleInv, NoIoAfterClose, TrackerInv,
              StaleFlagMatchesStatus, HealthyIsFresh, HeardIsHealthy
<1> QED
  BY <1>1, <1>2, <1>3, <1>4, <1>5, <1>6, <1>7, <1>8, <1>9 DEF Next, RxStep

\* The inductive invariant holds in every reachable state.
THEOREM Invariance == Spec => []IInv
  BY InitIInv, NextIInv, PTL DEF Spec

\* Every variable keeps its type.
THEOREM TypeCorrect == Spec => []TypeOK
<1>1. IInv => TypeOK
  BY DEF IInv
<1> QED
  BY Invariance, <1>1, PTL

\* A motor shown as healthy in a published frame replied since the last one.
THEOREM FramesAreFresh == Spec => []HealthyIsFresh
<1>1. IInv => HealthyIsFresh
  BY DEF IInv
<1> QED
  BY Invariance, <1>1, PTL

\* The stale flags and the status words of a published frame agree.
THEOREM FlagsAgree == Spec => []StaleFlagMatchesStatus
<1>1. IInv => StaleFlagMatchesStatus
  BY DEF IInv
<1> QED
  BY Invariance, <1>1, PTL

\* No thread of the backend outlives the socket it uses.
THEOREM SocketOutlivesThreads == Spec => []NoIoAfterClose
<1>1. IInv => NoIoAfterClose
  BY DEF IInv, LifecycleInv
<1> QED
  BY Invariance, <1>1, PTL

\* A timeout, and a failing poll or read, costs only motors that were not heard:
\* no frame reports as lost a motor whose reply was read since the frame before.
THEOREM TimeoutsSpareHeardMotors == Spec => []HeardIsHealthy
<1>1. IInv => HeardIsHealthy
  BY DEF IInv
<1> QED
  BY Invariance, <1>1, PTL
-----------------------------------------------------------------------------
(* The backend implements the contract of MotorBackend. *)

\* Which threads serve, by how far the owner of the backend has come.
ThreadsInv ==
  /\ app \in {"new", "stop"} => txPc = "off" /\ rxPc = "off"
  /\ app \in {"new", "starting", "running"} => ~stop
  /\ app \in {"starting", "running"} => Serving(txPc)
  /\ app = "stopped" => ~Serving(txPc) /\ ~Serving(rxPc)

\* A thread ends only when stop was requested, which stays so.
LEMMA ThreadsStep == IInv /\ ThreadsInv /\ [Next]_vars => ThreadsInv'
<1> SUFFICES ASSUME IInv, ThreadsInv, [Next]_vars PROVE ThreadsInv'
  OBVIOUS
<1> USE DEF ThreadsInv, Serving, IInv, LifecycleInv, NoIoAfterClose
<1>1. CASE StartTx \/ StartRx \/ StartFails \/ SetTarget \/ StopStep
  BY <1>1 DEF StartTx, StartRx, StartFails, SetTarget, StopStep, StopRequest, JoinTx,
              JoinRxAndClose, txVars, appVars
<1>2. CASE TxStep
  BY <1>2 DEF TxStep, TxCycle, TxSend, TxSendFails, TxSleep, appVars
<1>3. CASE RxStep
  BY <1>3 DEF RxStep, RxReply, RxOther, RxTimeout,
              RxMarkMissing, RxPublishPartial, RxWait, appVars, txVars
<1>4. CASE Environment \/ UNCHANGED vars
  BY <1>4 DEF Environment, Reply, LoseReply, FallSilent, ComeBack, OtherTraffic, appVars, txVars, vars
<1> QED BY <1>1, <1>2, <1>3, <1>4 DEF Next

\* The steps of the owner are those of start and stop.
LEMMA OwnerImplements ==
  ASSUME IInv, ThreadsInv,
         StartTx \/ StartRx \/ StartFails \/ SetTarget \/ StopStep
  PROVE  [Contract!Next]_Contract!vars
<1> USE DEF Phase, Serving, Contract!vars, txVars, appVars, pubVars
<1>1. CASE StartTx \/ StartFails
  BY <1>1 DEF StartTx, StartFails, ThreadsInv, Contract!Next, Contract!Start
<1>2. CASE StartRx
  BY <1>2 DEF StartRx, ThreadsInv, Contract!Next, Contract!StartSucceeds
<1>3. CASE SetTarget \/ JoinTx
  BY <1>3 DEF SetTarget, JoinTx
<1>4. CASE StopRequest
  BY <1>4 DEF StopRequest, Contract!Next, Contract!StopBegins
<1>5. CASE JoinRxAndClose
  BY <1>5 DEF JoinRxAndClose, IInv, LifecycleInv, Contract!Next, Contract!StopReturns
<1> QED BY <1>1, <1>2, <1>3, <1>4, <1>5 DEF StopStep

\* The threads publish while they serve, and end when stop was requested.
LEMMA ThreadsImplement ==
  ASSUME IInv, ThreadsInv, TxStep \/ RxStep \/ Environment \/ UNCHANGED vars
  PROVE  [Contract!Next]_Contract!vars
<1> USE DEF Phase, Serving, Contract!vars, appVars, pubVars
<1>1. CASE TxCycle
  BY <1>1 DEF TxCycle, ThreadsInv, IInv, TypeOK, Contract!Next, Contract!ThreadsEnd
<1>2. ASSUME NEW m \in Motor, TxSend(m) \/ TxSendFails(m) PROVE UNCHANGED Contract!vars
  BY <1>2 DEF TxSend, TxSendFails
<1>3. CASE TxSleep
  BY <1>3 DEF TxSleep
<1>4. CASE RxWait
  BY <1>4 DEF RxWait, ThreadsInv, IInv, TypeOK, LifecycleInv, txVars, Contract!Next, Contract!ThreadsEnd
<1>5. ASSUME NEW m \in Motor, RxReply(m) PROVE Contract!Next
  BY <1>5 DEF RxReply, txVars, Contract!Next, Contract!Publish
<1>6. CASE RxOther \/ RxTimeout \/ RxMarkMissing
  BY <1>6 DEF RxOther, RxTimeout, RxMarkMissing, txVars
<1>7. CASE RxPublishPartial
  BY <1>7 DEF RxPublishPartial, txVars, Contract!Next, Contract!Publish
<1>8. CASE Environment \/ UNCHANGED vars
  BY <1>8 DEF Environment, Reply, LoseReply, FallSilent, ComeBack, OtherTraffic, txVars, vars
<1> QED BY <1>1, <1>2, <1>3, <1>4, <1>5, <1>6, <1>7, <1>8 DEF TxStep, RxStep

\* A CAN backend is a MotorBackend as the facade relies on it.
THEOREM ImplementsContract == Spec => BackendSpec
<1>1. Init => Contract!Init /\ ThreadsInv
  BY DEF Init, Contract!Init, Phase, Serving, ThreadsInv
<1>2. IInv /\ ThreadsInv /\ [Next]_vars => [Contract!Next]_Contract!vars
  BY OwnerImplements, ThreadsImplement DEF Next
<1> QED BY <1>1, <1>2, ThreadsStep, Invariance, PTL DEF Spec, BackendSpec, Contract!Spec
=============================================================================
