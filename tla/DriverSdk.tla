----------------------------- MODULE DriverSdk -----------------------------
(***************************************************************************)
(* The facade an application uses (DriverSDK::Impl): init reads a          *)
(* configuration, starts the IMU and one backend per bus and master, and   *)
(* undoes it all when one of them fails; setMotorTarget converts one       *)
(* target per motor and hands the frame to the backends one after the      *)
(* other, while their threads keep reading frames and publishing feedback. *)
(* The application has one thread, so an operation that runs excludes the  *)
(* others, but not the backends.                                           *)
(*                                                                         *)
(* The threads behind a backend are modules CanBackend and EthercatCycle;  *)
(* here a backend that runs takes its newest frame and publishes feedback  *)
(* for some of its motors at any time.                                     *)
(***************************************************************************)
EXTENDS MotorConfig, Conversion

CONSTANTS Documents,   \* configuration files an application may pass to init
          ModeTables,  \* arguments of setMode
          CurrentTables, \* arguments of setMaxCurr
          BiasTables,  \* arguments of setCntBias
          Requests,    \* joint targets an application asks of one motor
          MaxMotors,   \* MaxRealtimeMotors, the size of a frame
          MaxInits,    \* bound on the calls of init
          MaxSequence  \* bound on the calls of setMotorTarget

ASSUME DocumentsAssumption ==
  \A d \in Documents :
    IsDocument(d) /\ \A k \in DOMAIN d.motors : IsParameters(d.motors[k].parameters)
ASSUME CurrentTablesAssumption == CurrentTables \subseteq Seq(Nat)
ASSUME RequestsAssumption ==
  Requests \subseteq [pos : Int, vel : Int, tor : Int, kp : Int, kd : Int, enabled : Int]
ASSUME MaxMotorsAssumption == MaxMotors \in Nat
ASSUME MaxInitsAssumption == MaxInits \in Nat
ASSUME MaxSequenceAssumption == MaxSequence \in Nat

VARIABLES pc,       \* operation in progress and how far it is
          next,     \* the backend it deals with next
          then,     \* stopping: what follows, "load" or "throw"
          doc,      \* init: the document it was given
          config, registry, modes, currents,  \* config_, registry_, ...
          imu,      \* the IMU thread runs
          backends, \* backendRuntimes_
          sequence, frame,  \* targetSequence_; the frame being published
          initialized,
          inits, result  \* calls of init so far; how the last one ended

tables == <<config, registry, modes, currents>>
vars == <<pc, next, then, doc, tables, imu, backends, sequence, frame,
          initialized, inits, result>>

NoFrame == [sequence |-> 0, asked |-> <<>>, can |-> <<>>, ecat |-> <<>>]

Init ==
  /\ pc = "idle" /\ next = 1 /\ then = "load" /\ doc \in Documents
  /\ config = [Failed EXCEPT !.ok = TRUE] /\ registry = <<>>
  /\ modes = <<>> /\ currents = <<>>
  /\ imu = FALSE /\ backends = <<>>
  /\ sequence = 0 /\ frame = NoFrame
  /\ initialized = FALSE
  /\ inits = 0 /\ result = "none"

-----------------------------------------------------------------------------
(* Faulty variants of definitions below, for mutation testing. *)

\* A backend that does not start is left to itself; the others keep running.
StartFails_NoStop ==
  /\ pc = "start" /\ next <= Len(backends)
  /\ pc' = "idle" /\ result' = "thrown"
  /\ UNCHANGED <<next, then, doc, tables, imu, backends, sequence, frame, initialized, inits>>

\* The size of the tables is taken for granted.
TablesFit_Unchecked(total) == TRUE

\* The list of backends shrinks while it is gone through.
StopBackend_Erases ==
  /\ pc = "stopping" /\ next <= Len(backends)
  /\ next' = next + 1
  /\ backends' = [b \in 1 .. Len(backends) - 1 |-> backends[IF b < next THEN b ELSE b + 1]]
  /\ UNCHANGED <<pc, then, doc, tables, imu, sequence, frame, initialized, inits, result>>

\* Every other backend is left without the frame.
PublishTo_Skips ==
  /\ pc = "publish" /\ next <= Len(backends)
  /\ next' = next + 2
  /\ backends' = [backends EXCEPT ![next].target = frame]
  /\ UNCHANGED <<pc, then, doc, tables, imu, sequence, frame, initialized, inits, result>>

-----------------------------------------------------------------------------
(* init and stop *)

Goto(place) == pc' = place /\ next' = 1

Throw == Goto("idle") /\ result' = "thrown"

\* stop, then go on with init or throw the error.
StopAll(after) == Goto("stopping") /\ then' = after

InitBegin ==
  /\ pc = "idle" /\ inits < MaxInits
  /\ inits' = inits + 1
  /\ doc' \in Documents
  /\ StopAll("load")
  /\ result' = "none"
  /\ UNCHANGED <<tables, imu, backends, sequence, frame, initialized>>

StopBackend ==
  /\ pc = "stopping" /\ next <= Len(backends)
  /\ next' = next + 1
  /\ backends' = [backends EXCEPT ![next].state = "stopped"]
  /\ UNCHANGED <<pc, then, doc, tables, imu, sequence, frame, initialized, inits, result>>

StopRest ==
  /\ pc = "stopping" /\ next > Len(backends)
  /\ backends' = <<>> /\ imu' = FALSE /\ initialized' = FALSE
  /\ IF then = "load" THEN Goto("load") /\ UNCHANGED result ELSE Throw
  /\ UNCHANGED <<then, doc, tables, sequence, frame, inits>>

\* ensureOperatingModes, ensureMaxCurrents: an empty table gets the default
\* and keeps it for later calls of init.
EnsureTable(table, default, total) ==
  IF table = <<>> THEN [i \in 1 .. total |-> default] ELSE table

TablesFit(total) == Len(modes') = total /\ Len(currents') = total

Load ==
  LET loaded == LoadConfig(doc) IN
  /\ pc = "load"
  /\ IF ~loaded.ok THEN UNCHANGED tables /\ Throw
     ELSE /\ config' = loaded
          /\ IF ~AliasesInRange(loaded)
             THEN UNCHANGED <<registry, modes, currents>> /\ Throw
             ELSE /\ registry' = FromConfig(loaded)
                  /\ modes' = EnsureTable(modes, 8, loaded.total)
                  /\ currents' = IF Len(modes') = loaded.total
                                 THEN EnsureTable(currents, 1000, loaded.total)
                                 ELSE currents
                  /\ IF TablesFit(loaded.total)
                     THEN Goto("imu") /\ UNCHANGED result
                     ELSE Throw
  /\ UNCHANGED <<then, doc, imu, backends, sequence, frame, initialized, inits>>

\* The serial port opens and the thread starts, or init fails.
StartImu ==
  /\ pc = "imu"
  /\ \/ ~config.imu /\ UNCHANGED <<imu, then>> /\ Goto("create")
     \/ config.imu /\ imu' = TRUE /\ UNCHANGED then /\ Goto("create")
     \/ config.imu /\ UNCHANGED imu /\ StopAll("throw")
  /\ UNCHANGED <<doc, tables, backends, sequence, frame, initialized, inits, result>>

\* A backend holds an initial feedback frame that counts as fresh.
Created(b) ==
  [bus |-> BusOf(registry, b), state |-> "created", modes |-> modes,
   target |-> NoFrame, taken |-> 0,
   valid |-> {registry[i].index : i \in MotorsOf(registry, b)}, stale |-> {}]

\* A motor beyond the size of a frame throws with nobody to stop the IMU and
\* the backends made so far.
CreateBackends ==
  LET TooBig(b) == \E i \in MotorsOf(registry, b) : registry[i].index >= MaxMotors
      made == {b \in 1 .. BackendCount(registry) : \A c \in 1 .. b : ~TooBig(c)}
  IN
  /\ pc = "create"
  /\ backends' = [b \in 1 .. Cardinality(made) |-> Created(b)]
  /\ IF Cardinality(made) = BackendCount(registry)
     THEN Goto("start") /\ UNCHANGED result
     ELSE Throw
  /\ UNCHANGED <<then, doc, tables, imu, sequence, frame, initialized, inits>>

\* An EtherCAT backend refuses motors that are no MT_Device.
Startable(b) ==
  \A i \in MotorsOf(registry, b) : registry[i].bus = "ecat" => registry[i].type = "MT_Device"

StartBackend ==
  /\ pc = "start" /\ next <= Len(backends) /\ Startable(next)
  /\ next' = next + 1
  /\ backends' = [backends EXCEPT ![next].state = "running"]
  /\ UNCHANGED <<pc, then, doc, tables, imu, sequence, frame, initialized, inits, result>>

StartFails ==
  /\ pc = "start" /\ next <= Len(backends)
  /\ StopAll("throw")
  /\ UNCHANGED <<doc, tables, imu, backends, sequence, frame, initialized, inits, result>>

InitReturns ==
  /\ pc = "start" /\ next > Len(backends)
  /\ initialized' = TRUE /\ result' = "ok"
  /\ Goto("idle")
  /\ UNCHANGED <<then, doc, tables, imu, backends, sequence, frame, inits>>

-----------------------------------------------------------------------------
(* setMode, setMaxCurr, setCntBias: only while there is no session *)

SetMode ==
  /\ pc = "idle" /\ ~initialized
  /\ modes' \in ModeTables
  /\ UNCHANGED <<pc, next, then, doc, config, registry, currents, imu, backends,
                 sequence, frame, initialized, inits, result>>

SetMaxCurrents ==
  /\ pc = "idle" /\ ~initialized
  /\ currents' \in CurrentTables
  /\ UNCHANGED <<pc, next, then, doc, config, registry, modes, imu, backends,
                 sequence, frame, initialized, inits, result>>

\* The bias of every configured motor; the next init reads it from the file
\* again.
SetCountBias ==
  /\ pc = "idle" /\ ~initialized
  /\ \E bias \in BiasTables :
       /\ Len(bias) = config.total
       /\ config' = [config EXCEPT !.motors =
            [i \in DOMAIN @ |-> [@[i] EXCEPT !.parameters.countBias = bias[config.motors[i].alias]]]]
  /\ registry' = FromConfig(config')
  /\ UNCHANGED <<pc, next, then, doc, modes, currents, imu, backends, sequence,
                 frame, initialized, inits, result>>

-----------------------------------------------------------------------------
(* setMotorTarget *)

ConvertCan(data) ==
  [x \in {registry[i].index : i \in {j \in DOMAIN registry : registry[j].bus = "can"}} |->
     LET p == registry[CHOOSE i \in DOMAIN registry : registry[i].index = x].parameters
     IN LimitTarget(ToCanTarget(data[x + 1], p), p)]

ConvertEcat(data) ==
  [x \in {registry[i].index : i \in {j \in DOMAIN registry : registry[j].bus = "ecat"}} |->
     LET p == registry[CHOOSE i \in DOMAIN registry : registry[i].index = x].parameters
     IN PackForRealtime(ToEthercatTarget(data[x + 1], p, modes[x + 1], currents[x + 1]),
                        p, RxProfileForMode(modes[x + 1]))]

\* A frame of one target per motor, with one sequence number for all backends.
SetTargets ==
  /\ pc = "idle" /\ initialized /\ sequence < MaxSequence
  /\ sequence' = sequence + 1
  /\ \E data \in [1 .. config.total -> Requests] :
       frame' = [sequence |-> sequence', asked |-> data,
                 can |-> ConvertCan(data), ecat |-> ConvertEcat(data)]
  /\ Goto("publish")
  /\ UNCHANGED <<then, doc, tables, imu, backends, initialized, inits, result>>

PublishTo ==
  /\ pc = "publish" /\ next <= Len(backends)
  /\ next' = next + 1
  /\ backends' = [backends EXCEPT ![next].target = frame]
  /\ UNCHANGED <<pc, then, doc, tables, imu, sequence, frame, initialized, inits, result>>

SetTargetsReturns ==
  /\ pc = "publish" /\ next > Len(backends)
  /\ Goto("idle")
  /\ UNCHANGED <<then, doc, tables, imu, backends, sequence, frame, initialized, inits, result>>

-----------------------------------------------------------------------------
(* Threads of the backends *)

OwnMotors(b) == {registry[i].index : i \in MotorsOf(registry, b)}

TakeTarget(b) ==
  /\ backends[b].state = "running"
  /\ backends[b].taken # backends[b].target.sequence
  /\ backends' = [backends EXCEPT ![b].taken = backends[b].target.sequence]
  /\ UNCHANGED <<pc, next, then, doc, tables, imu, sequence, frame, initialized, inits, result>>

\* A lost EtherCAT motor is neither valid nor fresh, a silent CAN motor stale.
PublishActuals(b) ==
  /\ backends[b].state = "running"
  /\ \E lost \in SUBSET OwnMotors(b) :
       backends' = [backends EXCEPT ![b] = [@ EXCEPT
         !.stale = lost,
         !.valid = IF backends[b].bus = "ecat" THEN OwnMotors(b) \ lost ELSE OwnMotors(b)]]
  /\ UNCHANGED <<pc, next, then, doc, tables, imu, sequence, frame, initialized, inits, result>>

Backend == \E b \in DOMAIN backends : TakeTarget(b) \/ PublishActuals(b)

\* getMotorActual and getEncoderCount: minus the number of motors, counted
\* backend by backend, that have no fresh feedback.
GetActuals ==
  LET Missing(b, i) == \/ registry[i].index \notin backends[b].valid
                       \/ registry[i].index \in backends[b].stale
  IN -Cardinality({r \in (DOMAIN backends) \X (DOMAIN registry) :
                     r[2] \in MotorsOf(registry, r[1]) /\ Missing(r[1], r[2])})

-----------------------------------------------------------------------------
Application ==
  \/ InitBegin \/ StopBackend \/ StopRest \/ Load \/ StartImu \/ CreateBackends
  \/ StartBackend \/ StartFails \/ InitReturns
  \/ SetMode \/ SetMaxCurrents \/ SetCountBias
  \/ SetTargets \/ PublishTo \/ SetTargetsReturns

Next == Application \/ Backend

Spec == Init /\ [][Next]_vars
-----------------------------------------------------------------------------
(* Properties *)

Places == {"idle", "stopping", "load", "imu", "create", "start", "publish"}

\* Everything has its type.
TypeOK ==
  /\ pc \in Places /\ next \in 1 .. Len(backends) + 1 /\ then \in {"load", "throw"}
  /\ doc \in Documents
  /\ imu \in BOOLEAN /\ initialized \in BOOLEAN
  /\ sequence \in 0 .. MaxSequence /\ inits \in 0 .. MaxInits
  /\ result \in {"none", "ok", "thrown"}
  /\ \A b \in DOMAIN backends : backends[b].state \in {"created", "running", "stopped"}

Running == {b \in DOMAIN backends : backends[b].state = "running"}

\* An application that has a session has all of its backends and its IMU
\* running; one that has none, because init threw whatever came up first, has
\* no motor backend running.  Only an alias too large for a frame leaves the
\* IMU thread behind, until the next init or the end of the process.
AllOrNothing ==
  pc = "idle" =>
    IF initialized
    THEN Running = DOMAIN backends /\ imu = config.imu
    ELSE Running = {} /\ (imu => \E i \in DOMAIN registry : registry[i].index >= MaxMotors)

\* During a session setMotorTarget can look up every motor: the tables kept
\* from earlier calls have an entry for each, its index fits the frames, it
\* belongs to one backend, and its EtherCAT target has the layout the process
\* data was configured for, whichever configurations and tables came before.
SessionConsistent ==
  initialized /\ pc \in {"idle", "publish"} =>
    /\ Len(modes) = config.total /\ Len(currents) = config.total
    /\ \A i, j \in DOMAIN registry :
         registry[i].index = registry[j].index => i = j
    /\ \A i \in DOMAIN registry :
         /\ registry[i].index \in 0 .. Min({config.total, MaxMotors}) - 1
         /\ registry[i].backend \in DOMAIN backends
         /\ backends[registry[i].backend].bus = registry[i].bus
         /\ registry[i].parameters = ParameterMap(doc)[registry[i].alias]
    /\ \A i \in DOMAIN registry : registry[i].bus = "ecat" =>
         LET binding == Binding(registry[i], backends[registry[i].backend].modes) IN
         /\ binding.rx = RxProfileForMode(modes[registry[i].index + 1])
         /\ binding.size > 0
    /\ -GetActuals \in 0 .. Len(registry)

\* The position a drive is sent, read back the way feedback is read.
JointPosition(m, b) ==
  IF m.bus = "ecat"
  THEN CountsToRad(backends[b].target.ecat[m.index].bytes.pos, m.parameters)
  ELSE ToPublicPosition(backends[b].target.can[m.index].pos, m.parameters)

HasTarget(b) == backends[b].target.sequence > 0 /\ initialized /\ pc # "stopping"

\* A count stands for one position, and the range is not empty.  The loader
\* does not check it.
ReadsBack(p) ==
  p.polarity \in {-1, 1} /\ p.minimumPosition <= p.maximumPosition /\ p.encoderResolution > 0

\* The raw torque does not leave 16 bits, in mode 10 by the motor's current
\* alone, otherwise by its limits only.  The loader does not check it.
KeepsDirection(p, mode, current) ==
  /\ p.polarity \in {-1, 1} /\ p.maximumTorque >= 0 /\ p.torqueGain >= 0
  /\ \/ mode = 10 /\ current <= 32767
     \/ p.maximumTorque * p.torqueGain <= 32767

WithinLimits(bus) ==
  \A b \in DOMAIN backends : HasTarget(b) /\ backends[b].bus = bus =>
    \A i \in MotorsOf(registry, b) :
      ReadsBack(registry[i].parameters) =>
        JointPosition(registry[i], b) =
          ClampPosition(backends[b].target.asked[registry[i].index + 1].pos, registry[i].parameters)

\* The EtherCAT process data of every motor says, in joint coordinates, the
\* requested position limited to the configured range, whatever polarity,
\* bias and mode.  In mode 10 its torque stays within the motor's current and,
\* if that fits 16 bits, points the requested way however large the scale of
\* the motor is; in the other modes it does so as long as the largest torque
\* of the motor fits: beyond, the raw value wraps.
EcatCommandWithinLimits ==
  /\ WithinLimits("ecat")
  /\ \A b \in DOMAIN backends : HasTarget(b) /\ backends[b].bus = "ecat" =>
       \A i \in MotorsOf(registry, b) :
         LET p == registry[i].parameters
             bytes == backends[b].target.ecat[registry[i].index].bytes
             asked == backends[b].target.asked[registry[i].index + 1]
             current == currents[registry[i].index + 1]
         IN /\ bytes.mode = 10 => Abs(bytes.tor) <= current
            /\ KeepsDirection(p, bytes.mode, current) => bytes.tor * p.polarity * asked.tor >= 0

\* The same for CAN, which is not so: limitTarget applies the joint limits a
\* second time to the motor's own coordinate.
CanCommandWithinLimits == WithinLimits("can")

\* An MIT frame carries the limited target to within half a step of each of
\* its fields, and a motor that gets no torque gets less than one step, unless
\* the file has a negative largest torque.
MitCarried(target, p) ==
  LET read == ParseMit(PackMit(target, p), p)
  IN /\ Abs(read.pos - Clamp(target.pos, -PMax, PMax)) <= 1
     /\ Abs(read.vel - Clamp(target.vel, -VMax, VMax)) <= (2 * VMax) \div 4095
     /\ p.maximumTorque >= 0 =>
          Abs(read.tor - target.tor) <= (2 * PositiveTorqueLimit(p)) \div 4095

MitFieldsFaithful ==
  \A b \in DOMAIN backends : HasTarget(b) /\ backends[b].bus = "can" =>
    \A i \in MotorsOf(registry, b) :
      MitCarried(backends[b].target.can[registry[i].index], registry[i].parameters)

\* Both: what a drive is sent over EtherCAT is what was asked for, and what a
\* motor is sent over CAN is what the conversion made of it.
CommandsFaithful == EcatCommandWithinLimits /\ MitFieldsFaithful

\* All backends hold the frame of the same call, except while a call is
\* handing it round, and then the two that exist are of consecutive calls.
OneCommandForAll ==
  initialized /\ pc # "stopping" =>
    \A a, b \in DOMAIN backends :
      LET s == backends[a].target.sequence
          t == backends[b].target.sequence
      IN s = t \/ (pc = "publish" /\ {s, t} \subseteq {0, sequence - 1, sequence})

=============================================================================
