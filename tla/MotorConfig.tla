----------------------------- MODULE MotorConfig -----------------------------
(***************************************************************************)
(* From a configuration document to the motors a session drives:           *)
(* loadConfig, MotorRegistry::fromConfig and the EtherCAT bindings.  A     *)
(* document is the sequence of entries of each of its sections; an entry   *)
(* keeps the attributes that decide whether and where a motor is placed,   *)
(* and motor parameters are one opaque value.  Reading a document fails    *)
(* (throws) or yields the configuration.                                   *)
(***************************************************************************)
EXTENDS Integers, Sequences, FiniteSets, FiniteSetsExt

\* Types are told apart by prefix RMD, by MTDEVICE without _ and -, or not.
Types == {"RMD", "MT_Device", "other", "none"}

\* Documents: sections are sequences, and an alias is an integer (0 when it is
\* missing).
IsSection(entries) == entries \in Seq({entries[k] : k \in DOMAIN entries})

IsDocument(doc) ==
  /\ doc.imu \in BOOLEAN
  /\ IsSection(doc.motors) /\ IsSection(doc.canSlaves) /\ IsSection(doc.ecatSlaves)
  /\ \A k \in DOMAIN doc.motors : doc.motors[k].alias \in Int

Failed == [ok |-> FALSE, total |-> 0, motors |-> <<>>, imu |-> FALSE]

-----------------------------------------------------------------------------
(* loadConfig *)

\* Parameters by alias, the last <Motor> of an alias wins; others are skipped.
ParameterMap(doc) ==
  [a \in {doc.motors[i].alias : i \in {j \in DOMAIN doc.motors : doc.motors[j].alias > 0}} |->
     doc.motors[CHOOSE i \in DOMAIN doc.motors :
                  /\ doc.motors[i].alias = a
                  /\ \A j \in DOMAIN doc.motors : doc.motors[j].alias = a => j <= i].parameters]

\* The total motor count is the largest alias that has parameters.
TotalMotorCount(doc) == Max({0} \cup DOMAIN ParameterMap(doc))

\* The motor takes the place of an earlier one with the same alias.
Upsert(motors, motor) ==
  IF \E i \in DOMAIN motors : motors[i].alias = motor.alias
  THEN [i \in DOMAIN motors |-> IF motors[i].alias = motor.alias THEN motor ELSE motors[i]]
  ELSE Append(motors, motor)

\* One entry of a section: on which bus it puts a motor, unless it is passed
\* over or an error.
Placement(entry, bus, skipped, wrong) ==
  [entry |-> entry, bus |-> bus, skipped |-> skipped, wrong |-> wrong]

\* <CAN><Slaves>: enabled RMD motors with an identifier above zero.
CanSlaves(doc) ==
  [k \in DOMAIN doc.canSlaves |->
     LET e == doc.canSlaves[k] IN
     Placement(e, "can", ~e.enabled \/ e.type # "RMD",
               e.id <= 0 \/ e.alias \notin DOMAIN ParameterMap(doc))]

\* <ECAT><Slaves>: enabled MT_Device slaves; a missing slave position (-1) is
\* accepted here and becomes alias - 1 later.
EcatSlaves(doc) ==
  [k \in DOMAIN doc.ecatSlaves |->
     LET e == doc.ecatSlaves[k] IN
     Placement(e, "ecat", ~e.enabled \/ e.type # "MT_Device",
               e.alias \notin DOMAIN ParameterMap(doc))]

\* <Motors><Motor bus=...>: any type on EtherCAT, RMD or no type on CAN.
ExplicitPlacements(doc) ==
  [k \in DOMAIN doc.motors |->
     LET e == doc.motors[k] IN
     Placement(e, e.bus,
               \/ e.bus = "none"
               \/ /\ e.bus = "can" /\ e.alias \in DOMAIN ParameterMap(doc)
                  /\ e.type \notin {"RMD", "none"},
               \/ e.bus \notin {"can", "ecat"}
               \/ e.alias \notin DOMAIN ParameterMap(doc)
               \/ e.bus = "can" /\ e.id <= 0
               \/ e.bus = "ecat" /\ e.id < 0)]

\* The sections are read in this order.
Placements(doc) == CanSlaves(doc) \o EcatSlaves(doc) \o ExplicitPlacements(doc)

MotorOf(doc, placement) ==
  LET e == placement.entry IN
  [alias |-> e.alias, bus |-> placement.bus, master |-> e.master, type |-> e.type,
   id |-> e.id, parameters |-> ParameterMap(doc)[e.alias]]

Place(doc, config, placement) ==
  IF ~config.ok \/ placement.skipped THEN config
  ELSE IF placement.wrong THEN Failed
  ELSE [config EXCEPT !.motors = Upsert(@, MotorOf(doc, placement))]

\* The configuration after so many placements.
Loading(doc) ==
  LET placements == Placements(doc)
      after[n \in 0 .. Len(placements)] ==
        IF n = 0
        THEN [ok |-> TRUE, total |-> TotalMotorCount(doc), motors |-> <<>>, imu |-> FALSE]
        ELSE Place(doc, after[n - 1], placements[n])
  IN after

\* The file is read, then its sections; the IMU's comes last.
LoadConfig(doc) ==
  LET all == Loading(doc)[Len(Placements(doc))]
  IN IF doc.loads /\ all.ok THEN [all EXCEPT !.imu = doc.imu] ELSE Failed

-----------------------------------------------------------------------------
(* MotorRegistry::fromConfig *)

SameBackend(m, n) == m.bus = n.bus /\ m.master = n.master

\* Position, in order of first appearance, of the backend of motor i.
BackendIndex(motors, i) ==
  LET First(k) == \A j \in 1 .. k - 1 : ~SameBackend(motors[j], motors[k])
      first == Min({j \in DOMAIN motors : SameBackend(motors[j], motors[i])})
  IN Cardinality({k \in 1 .. first : First(k)})

\* Every alias lies in 1..total, or fromConfig throws.
AliasesInRange(config) == \A i \in DOMAIN config.motors : config.motors[i].alias \in 1 .. config.total

\* Registry motors carry their index in the frames and their backend.
FromConfig(config) ==
  [i \in DOMAIN config.motors |->
     LET m == config.motors[i] IN
     [alias |-> m.alias, index |-> m.alias - 1, bus |-> m.bus, master |-> m.master,
      type |-> m.type, id |-> m.id, parameters |-> m.parameters,
      backend |-> BackendIndex(config.motors, i)]]

BackendCount(registry) == Cardinality({registry[i].backend : i \in DOMAIN registry})

MotorsOf(registry, b) == {i \in DOMAIN registry : registry[i].backend = b}

BusOf(registry, b) == registry[CHOOSE i \in MotorsOf(registry, b) : TRUE].bus

-----------------------------------------------------------------------------
(* EtherCAT bindings *)

RxProfileForMode(mode) == IF mode = 5 THEN "pvt" ELSE "standard"

\* Bytes of the process data a drive takes in each profile.
RxPdoSize(profile) == IF profile = "standard" THEN 16 ELSE 22

\* resolveEthercatSlavePosition
SlavePosition(motor) == IF motor.id >= 0 THEN motor.id ELSE motor.alias - 1

\* buildEthercatPdoBindings and assignEthercatPdoProfiles: only an MT_Device
\* gets the profile of its mode and a size.
Binding(motor, modes) ==
  LET device == motor.type = "MT_Device"
      profile == IF device THEN RxProfileForMode(modes[motor.index + 1]) ELSE "standard"
  IN [position |-> SlavePosition(motor), rx |-> profile,
      size |-> IF device THEN RxPdoSize(profile) ELSE 0]
=============================================================================
