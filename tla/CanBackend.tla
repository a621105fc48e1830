----------------------------- MODULE CanBackend -----------------------------
(***************************************************************************)
(* One CAN backend (RmdCanBackend): start and stop, the transmit thread    *)
(* that sends one MIT command per motor and cycle, and the receive thread  *)
(* that collects the replies of all motors into one published frame        *)
(* (FeedbackFrameTracker over MaskTracker).  The target and actual buffers *)
(* are the registers that module SnapshotBuffer shows them to be, so one   *)
(* step reads or publishes a frame.  The two stores of setFault are one    *)
(* step here: no property relates them.                                    *)
(*                                                                         *)
(* The bus and the motors are external: a live motor owes one reply per    *)
(* command, a reply may be lost, a motor may fall silent or come back, and *)
(* other frames (status replies, other nodes) share the bus.  A frame is   *)
(* the motor whose valid MIT reply it is, or one of OtherFrame.            *)
(***************************************************************************)
EXTENDS Integers, FiniteSets

CONSTANTS Motor,        \* motors of this backend
          SlaveId,      \* slaveId of each motor, as configured
          Targets,      \* target frames the application sets: the value of
                        \* enabled for each motor
          Silent,       \* motors that do not answer when start is called
          Lossy,        \* may sends fail, replies get lost, motors fall
                        \* silent and come back?
          Prompt,       \* is the transmit thread never late by 50 ms?
          OtherFrame    \* frames on the bus that are no MIT reply:
                        \* "other" and, with no data bytes, "empty"

ASSUME MotorAssumption == Motor # {} /\ IsFiniteSet(Motor)
ASSUME SlaveIdAssumption ==
  /\ SlaveId \in [Motor -> 0 .. 63]
  /\ \A m, n \in Motor : SlaveId[m] = SlaveId[n] => m = n
ASSUME TargetsAssumption == Targets \subseteq [Motor -> {-1, 0, 1}]
ASSUME SilentAssumption == Silent \subseteq Motor
ASSUME LossyAssumption == Lossy \in BOOLEAN
ASSUME PromptAssumption == Prompt \in BOOLEAN
ASSUME OtherFrameAssumption ==
  OtherFrame \subseteq {"other", "empty"} /\ OtherFrame \cap Motor = {}

VARIABLES app,       \* the caller of start, setMotorTarget and stop
          stop,      \* stop_
          open,      \* the socket of transport_ is open
          running, degraded, errorCode,  \* status_
          target,    \* targetBuffer_: the enabled word per motor
          txPc, txTarget, txTodo,  \* txLoop: place, targets, motors to send
          rxPc,      \* rxLoop: place
          status,    \* workingActuals_: statusWord per motor, abstracted
          stale,     \* workingActuals_.stale
          current,   \* mitFrame_: currentMask_ as a set of slave ids
          published, \* actualBuffer_: the last published frame
          alive, owed, command, rxq,  \* the motors and the bus (external)
          quiet,     \* command cycles ended in the current receive, when Prompt
          answered,  \* history: motors heard since the last publication
          freshIn,   \* history: the value of answered at that publication
          parity     \* history: flips with every publication

appVars == <<app, stop, open, running>>
statusVars == <<degraded, errorCode>>
txVars == <<txPc, txTarget, txTodo>>
trackVars == <<status, stale, current>>
pubVars == <<published, freshIn, parity>>
envVars == <<alive, owed, command, rxq>>
vars == <<appVars, statusVars, target, txVars, rxPc, trackVars, pubVars,
          envVars, quiet, answered>>

FeedbackTimeout == 1
BackendFault == 2

\* A receive that waits 50 ms outlasts this many command cycles.
MaxQuiet == 2

\* Faulty: the mask also expects a motor of another backend.
ExpectedMask_AllBackends == {SlaveId[m] : m \in Motor} \cup {62}

ExpectedMask == {SlaveId[m] : m \in Motor}
IsReceived(m) == SlaveId[m] \in current

\* statusWord: 0x0000 before any reply, 0x0237 after one, 0xffff when stale.
StatusWord == {"initial", "ok", "lost"}
Frame == [status : [Motor -> StatusWord], stale : SUBSET Motor]

Init ==
  /\ app = "new" /\ stop = FALSE /\ open = FALSE /\ running = FALSE
  /\ degraded = FALSE /\ errorCode = 0
  /\ target = [m \in Motor |-> 0]
  /\ txPc = "off" /\ txTarget = [m \in Motor |-> 0] /\ txTodo = {}
  /\ rxPc = "off"
  /\ status = [m \in Motor |-> "initial"] /\ stale = {} /\ current = {}
  /\ published = [status |-> status, stale |-> {}]
  /\ alive = Motor \ Silent /\ owed = {} /\ rxq = {} /\ quiet = 0
  /\ command = [m \in Motor |-> "none"]
  /\ answered = {} /\ freshIn = {} /\ parity = 0

\* Faulty: error codes add up instead of replacing each other.
SetFault_Adds(code) == degraded' = TRUE /\ errorCode' = errorCode + code

SetFault(code) == degraded' = TRUE /\ errorCode' = code

-----------------------------------------------------------------------------
(* Faulty variants of definitions below, for mutation testing. *)

\* Only 0 disables a motor, so a fault reset (-1) is sent as an active target.
CommandFor_NonZero(enabled) == IF enabled # 0 THEN "active" ELSE "zero"

\* The transmit thread never looks at stop_ again.
TxCycle_IgnoresStop ==
  /\ txPc = "top"
  /\ txPc' = "send" /\ txTarget' = target /\ txTodo' = Motor
  /\ UNCHANGED <<appVars, statusVars, target, rxPc, trackVars, pubVars,
                 envVars, answered, quiet>>

\* mitFrame_.reset is forgotten after a partial frame.
RxPublishPartial_NoReset ==
  /\ rxPc = "publish"
  /\ published' = [status |-> status, stale |-> stale]
  /\ freshIn' = answered
  /\ parity' = 1 - parity
  /\ answered' = {}
  /\ rxPc' = "top"
  /\ UNCHANGED <<appVars, statusVars, target, txVars, status, stale, current,
                 envVars, quiet>>

\* stop does not wait for the receive thread.
JoinRxAndClose_NoWait ==
  /\ app = "joinRx"
  /\ app' = "stopped"
  /\ open' = FALSE
  /\ running' = FALSE
  /\ UNCHANGED <<stop, statusVars, target, txVars, rxPc, trackVars, pubVars,
                 envVars, answered, quiet>>

\* Timeouts count only once a frame has begun.
RxTimeout_OnlyPartial ==
  /\ rxPc = "receive"
  /\ rxq = {} /\ current # {}
  /\ rxPc' = "timeout"
  /\ UNCHANGED <<appVars, statusVars, target, txVars, trackVars, pubVars,
                 envVars, answered, quiet>>

-----------------------------------------------------------------------------
(* start and stop, called by the application *)

\* start: open the socket, clear stop_, set running, spawn the transmit thread.
StartTx ==
  /\ app = "new"
  /\ app' = "starting"
  /\ open' = TRUE
  /\ stop' = FALSE
  /\ running' = TRUE
  /\ txPc' = "top"
  /\ UNCHANGED <<statusVars, target, txTarget, txTodo, rxPc, trackVars,
                 pubVars, envVars, answered, quiet>>

\* ... and then the receive thread.
StartRx ==
  /\ app = "starting"
  /\ app' = "running"
  /\ rxPc' = "top"
  /\ UNCHANGED <<stop, open, running, statusVars, target, txVars, trackVars,
                 pubVars, envVars, answered, quiet>>

\* No such master, or its device cannot be opened.
StartFails ==
  /\ app = "new"
  /\ app' = "stop"
  /\ SetFault(BackendFault)
  /\ UNCHANGED <<stop, open, running, target, txVars, rxPc, trackVars,
                 pubVars, envVars, answered, quiet>>

\* setMotorTarget publishes a target frame for this backend.
SetTarget ==
  /\ app = "running"
  /\ target' \in Targets
  /\ UNCHANGED <<appVars, statusVars, txVars, rxPc, trackVars, pubVars,
                 envVars, answered, quiet>>

\* stop: raise stop_ ...
StopRequest ==
  /\ app \in {"running", "stop"}
  /\ app' = "joinTx"
  /\ stop' = TRUE
  /\ UNCHANGED <<open, running, statusVars, target, txVars, rxPc, trackVars,
                 pubVars, envVars, answered, quiet>>

\* ... join each thread that was started ...
JoinTx ==
  /\ app = "joinTx"
  /\ txPc \in {"off", "exited"}
  /\ app' = "joinRx"
  /\ UNCHANGED <<stop, open, running, statusVars, target, txVars, rxPc,
                 trackVars, pubVars, envVars, answered, quiet>>

\* ... and close the socket.
JoinRxAndClose ==
  /\ app = "joinRx"
  /\ rxPc \in {"off", "exited"}
  /\ app' = "stopped"
  /\ open' = FALSE
  /\ running' = FALSE
  /\ UNCHANGED <<stop, statusVars, target, txVars, rxPc, trackVars, pubVars,
                 envVars, answered, quiet>>

StopStep == StopRequest \/ JoinTx \/ JoinRxAndClose

-----------------------------------------------------------------------------
(* txLoop *)

\* Top of a cycle: leave, or read the current target frame.
TxCycle ==
  /\ txPc = "top"
  /\ IF stop
       THEN txPc' = "exited" /\ UNCHANGED <<txTarget, txTodo>>
       ELSE txPc' = "send" /\ txTarget' = target /\ txTodo' = Motor
  /\ UNCHANGED <<appVars, statusVars, target, rxPc, trackVars, pubVars,
                 envVars, answered, quiet>>

\* What packMit is given: anything but enabled = 1 becomes the zero target.
CommandFor(enabled) == IF enabled = 1 THEN "active" ELSE "zero"

\* One motor's command goes out; a live motor obeys it and owes a reply.
TxSend(m) ==
  /\ txPc = "send"
  /\ m \in txTodo
  /\ txTodo' = txTodo \ {m}
  /\ command' = [command EXCEPT ![m] = CommandFor(txTarget[m])]
  /\ owed' = owed \cup ({m} \cap alive)
  /\ UNCHANGED <<appVars, statusVars, target, txPc, txTarget, rxPc, trackVars,
                 pubVars, alive, rxq, answered, quiet>>

\* transport_.send fails: the motor keeps its last command.
TxSendFails(m) ==
  /\ Lossy
  /\ txPc = "send"
  /\ m \in txTodo
  /\ txTodo' = txTodo \ {m}
  /\ SetFault(BackendFault)
  /\ UNCHANGED <<appVars, target, txPc, txTarget, rxPc, trackVars, pubVars,
                 envVars, answered, quiet>>

\* End of a cycle: the loop sleeps until the next one.
TxSleep ==
  /\ txPc = "send"
  /\ txTodo = {}
  /\ txPc' = "top"
  /\ quiet' = IF Prompt /\ quiet < MaxQuiet THEN quiet + 1 ELSE quiet
  /\ UNCHANGED <<appVars, statusVars, target, txTarget, txTodo, rxPc,
                 trackVars, pubVars, envVars, answered>>

TxStep ==
  \/ TxCycle
  \/ \E m \in Motor : TxSend(m) \/ TxSendFails(m)
  \/ TxSleep

-----------------------------------------------------------------------------
(* rxLoop *)

\* Top of the loop: leave, or wait up to 50 ms for a frame.  A stop that comes
\* during the wait is seen only after what the wait brings has been handled.
RxWait ==
  /\ rxPc = "top"
  /\ rxPc' = IF stop THEN "exited" ELSE "receive"
  /\ quiet' = 0
  /\ UNCHANGED <<appVars, statusVars, target, txVars, trackVars, pubVars,
                 envVars, answered>>

\* mitFrame_.markReceived: is the frame complete with this motor's reply?
Completes(m) == current \cup {SlaveId[m]} = ExpectedMask

\* A valid MIT reply: update the motor, mark it, publish a complete frame.
RxReply(m) ==
  /\ rxPc = "receive"
  /\ m \in rxq
  /\ rxPc' = "top"
  /\ rxq' = rxq \ {m}
  /\ status' = [status EXCEPT ![m] = "ok"]
  /\ stale' = stale \ {m}
  /\ IF Completes(m)
       THEN /\ current' = {}
            /\ answered' = {}
            /\ published' = [status |-> status', stale |-> stale']
            /\ freshIn' = answered \cup {m}
            /\ parity' = 1 - parity
       ELSE /\ current' = current \cup {SlaveId[m]}
            /\ answered' = answered \cup {m}
            /\ UNCHANGED pubVars
  /\ UNCHANGED <<appVars, statusVars, target, txVars, alive, owed, command,
                 quiet>>

\* A frame that is no MIT reply of these motors changes nothing.
RxOther ==
  /\ rxPc = "receive"
  /\ "other" \in rxq
  /\ rxPc' = "top"
  /\ rxq' = rxq \ {"other"}
  /\ UNCHANGED <<appVars, statusVars, target, txVars, trackVars, pubVars,
                 alive, owed, command, answered, quiet>>

\* markMissingStale.
MarkMissingStale ==
  LET missing == {m \in Motor : ~IsReceived(m)} IN
    /\ status' = [m \in Motor |-> IF m \in missing THEN "lost" ELSE status[m]]
    /\ stale' = stale \cup missing

\* If the transmit thread keeps its period, which is much shorter than 50 ms,
\* whole command cycles pass before a timeout, as long as there are any, and
\* every motor that answers at all has answered one of them.
SilentFor50ms ==
  Prompt => owed = {} /\ (quiet = MaxQuiet \/ txPc = "exited")

\* receive returns 0 or less: nothing came for 50 ms, a frame without data came,
\* whose length is 0, or poll or read failed (a signal interrupts poll, too),
\* whatever waits in the queue.
RxTimeout ==
  /\ rxPc = "receive"
  /\ \/ rxq = {} /\ SilentFor50ms /\ UNCHANGED rxq
     \/ "empty" \in rxq /\ rxq' = rxq \ {"empty"}
     \/ Lossy /\ UNCHANGED rxq
  /\ rxPc' = "timeout"
  /\ UNCHANGED <<appVars, statusVars, target, txVars, trackVars, pubVars,
                 alive, owed, command, answered, quiet>>

\* All three are a timeout to rxLoop: it raises the fault and marks the motors
\* that were not heard, one whose reply has just come among them.
RxMarkMissing ==
  /\ rxPc = "timeout"
  /\ SetFault(FeedbackTimeout)
  /\ MarkMissingStale
  /\ rxPc' = "publish"
  /\ UNCHANGED <<appVars, target, txVars, current, pubVars, envVars, answered,
                 quiet>>

\* Publish the partial frame and start a new one.
RxPublishPartial ==
  /\ rxPc = "publish"
  /\ published' = [status |-> status, stale |-> stale]
  /\ freshIn' = answered
  /\ parity' = 1 - parity
  /\ current' = {}
  /\ answered' = {}
  /\ rxPc' = "top"
  /\ UNCHANGED <<appVars, statusVars, target, txVars, status, stale, envVars,
                 quiet>>

RxStep ==
  \/ RxWait
  \/ \E m \in Motor : RxReply(m)
  \/ RxOther
  \/ RxTimeout
  \/ RxMarkMissing
  \/ RxPublishPartial

-----------------------------------------------------------------------------
(* The motors and the bus (external) *)

Reply(m) ==
  /\ m \in owed
  /\ owed' = owed \ {m}
  /\ rxq' = rxq \cup {m}
  /\ UNCHANGED <<appVars, statusVars, target, txVars, rxPc, trackVars,
                 pubVars, alive, command, answered, quiet>>

LoseReply(m) ==
  /\ Lossy
  /\ m \in owed
  /\ owed' = owed \ {m}
  /\ UNCHANGED <<appVars, statusVars, target, txVars, rxPc, trackVars,
                 pubVars, alive, command, rxq, answered, quiet>>

FallSilent(m) ==
  /\ Lossy
  /\ m \in alive
  /\ alive' = alive \ {m}
  /\ owed' = owed \ {m}
  /\ UNCHANGED <<appVars, statusVars, target, txVars, rxPc, trackVars,
                 pubVars, command, rxq, answered, quiet>>

ComeBack(m) ==
  /\ Lossy
  /\ m \notin alive
  /\ alive' = alive \cup {m}
  /\ UNCHANGED <<appVars, statusVars, target, txVars, rxPc, trackVars,
                 pubVars, owed, command, rxq, answered, quiet>>

OtherTraffic ==
  /\ \E f \in OtherFrame \ rxq : rxq' = rxq \cup {f}
  /\ UNCHANGED <<appVars, statusVars, target, txVars, rxPc, trackVars,
                 pubVars, alive, owed, command, answered, quiet>>

Environment ==
  \/ \E m \in Motor : Reply(m) \/ LoseReply(m) \/ FallSilent(m) \/ ComeBack(m)
  \/ OtherTraffic

Next ==
  \/ StartTx \/ StartRx \/ StartFails \/ SetTarget \/ StopStep
  \/ TxStep
  \/ RxStep
  \/ Environment

Spec == Init /\ [][Next]_vars

\* Both threads are scheduled, stop runs on once it is called, every owed reply
\* is sent or lost, and every received reply is taken from the socket queue.
FairSpec ==
  /\ Spec
  /\ WF_vars(StartRx)
  /\ WF_vars(JoinTx) /\ WF_vars(JoinRxAndClose)
  /\ WF_vars(TxStep)
  /\ WF_vars(RxStep)
  /\ \A m \in Motor : SF_vars(Reply(m) \/ LoseReply(m)) /\ SF_vars(RxReply(m))

-----------------------------------------------------------------------------
TypeOK ==
  /\ app \in {"new", "starting", "running", "stop", "joinTx", "joinRx",
              "stopped"}
  /\ stop \in BOOLEAN /\ open \in BOOLEAN /\ running \in BOOLEAN
  /\ degraded \in BOOLEAN
  /\ errorCode \in {0, FeedbackTimeout, BackendFault}
  /\ target \in [Motor -> {-1, 0, 1}] /\ txTarget \in [Motor -> {-1, 0, 1}]
  /\ txPc \in {"off", "top", "send", "exited"} /\ txTodo \subseteq Motor
  /\ rxPc \in {"off", "top", "receive", "timeout", "publish", "exited"}
  /\ status \in [Motor -> StatusWord] /\ stale \subseteq Motor
  /\ published \in Frame
  /\ current \subseteq ExpectedMask
  /\ alive \subseteq Motor /\ owed \subseteq alive /\ quiet \in 0 .. MaxQuiet
  /\ rxq \subseteq Motor \cup OtherFrame
  /\ command \in [Motor -> {"none", "zero", "active"}]
  /\ answered \subseteq Motor /\ freshIn \subseteq Motor /\ parity \in {0, 1}

\* A motor that a published frame shows as healthy has replied since the frame
\* published before it: no frame passes off an old reply as a new one.
HealthyIsFresh ==
  \A m \in Motor :
    published.status[m] = "ok" /\ m \notin published.stale => m \in freshIn

\* The two ways an application learns of a lost motor agree in every published
\* frame: the stale flag behind getMotorActual's return value, and the status
\* word 0xffff with errorCode 1 that feedbackReady tests.
StaleFlagMatchesStatus ==
  published.stale = {m \in Motor : published.status[m] = "lost"}

\* The socket is closed only when neither thread can use it again.
NoIoAfterClose ==
  ~open => txPc \in {"off", "exited"} /\ rxPc \in {"off", "exited"}

\* No published frame reports as lost a motor whose reply was read since the
\* frame before.  A timeout, whatever its cause, costs only motors not heard, and
\* a reply too late for its frame, because it came after poll gave up or waited
\* while poll failed, makes its motor healthy in the next.
HeardIsHealthy == freshIn \cap published.stale = {}

\* With every motor answering, complete frames keep coming: again and again a
\* frame without stale motors is published.
CompleteFramesKeepComing ==
  <>[](app = "running" /\ alive = Motor) =>
    []<><<published'.stale = {} /\ parity' # parity>>_vars

\* When the whole bus falls silent every motor ends up reported stale.
SilentBusIsReported ==
  <>[](app = "running" /\ alive = {}) => <>[](published.stale = Motor)

\* Both: silence is reported, and nothing but silence.
SilenceIsReported == SilentBusIsReported /\ []HeardIsHealthy

\* stop returns, whatever the bus does meanwhile: it is not in progress for ever,
\* and "stopped" is the only way on.
StopReturns == []<>(app \notin {"joinTx", "joinRx"})

\* A motor the application stops enabling, and keeps so, stops being driven.
DisableReachesMotor ==
  \A m \in Motor :
    <>[](app = "running" /\ target[m] # 1) => <>[](command[m] # "active")

\* What the facade sees of this backend: how far its owner has come with it,
\* and whether a thread may still touch the buffers.
Phase ==
  CASE app = "new" -> "created"
    [] app = "stop" -> "failed"
    [] app \in {"joinTx", "joinRx"} -> "stopping"
    [] OTHER -> app

Serving(place) == place \notin {"off", "exited"}

Contract == INSTANCE MotorBackend WITH
  phase <- Phase, active <- Serving(txPc) \/ Serving(rxPc), output <- published

\* The backend keeps what the facade relies on: threads only between start and
\* the return of stop, frames from them only, a failed start leaves none.
BackendSpec == Contract!Spec

-----------------------------------------------------------------------------
(* The inductive invariant behind the safety properties. *)

\* Which threads exist and whether the socket is open, by how far the caller of
\* start and stop has come.
LifecycleInv ==
  /\ app = "new" => txPc = "off" /\ rxPc = "off"
  /\ app = "starting" => open /\ rxPc = "off"
  /\ app = "running" => open
  /\ app = "joinRx" => txPc \in {"off", "exited"}
  /\ NoIoAfterClose

\* The mask of the tracker is exactly the motors heard since the last
\* publication, and the working frame's two records of loss agree.
TrackerInv ==
  /\ current = {SlaveId[m] : m \in answered}
  /\ stale = {m \in Motor : status[m] = "lost"}
  /\ answered \cap stale = {}
  /\ rxPc = "publish" => \A m \in Motor \ answered : m \in stale

IInv ==
  /\ TypeOK
  /\ LifecycleInv
  /\ TrackerInv
  /\ StaleFlagMatchesStatus
  /\ HealthyIsFresh
  /\ HeardIsHealthy

-----------------------------------------------------------------------------
(* What the documents say and the code does not do. *)

\* docs/usage_guide_zh.md:676: when only some motors reply, a partial frame is
\* published after a timeout and the motors that did not are marked stale.
SilentMotorIsReported ==
  \A m \in Motor :
    <>[](app = "running" /\ m \notin alive) => <>[](m \in published.stale)

=============================================================================
