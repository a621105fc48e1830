------------------------- MODULE EthercatCycleProofs -------------------------
(***************************************************************************)
(* The safety of the EtherCAT loop for every set of motors and domains,    *)
(* every command timeout, every number of drive faults and every pattern   *)
(* of failed exchanges: no drive is armed that the application did not ask *)
(* for in time, and no word arms a motor that is reported stale.           *)
(***************************************************************************)
EXTENDS EthercatCycle, TLAPS

\* The loop starts with disarming words and drives that are not armed.
LEMMA InitIInv == Init => IInv
<1> SUFFICES ASSUME Init PROVE IInv
  OBVIOUS
<1> USE DEF Init
<1>1. TypeOK
  <2>1. stamped \in BOOLEAN /\ degraded \in BOOLEAN
    OBVIOUS
  <2>2. published \in Frame
    BY DEF Frame
  <2>3. drive \in [Motor -> DriveState] /\ input \in [Motor -> DriveState]
    BY DEF DriveState
  <2> QED
    BY <2>1, <2>2, <2>3, TimeoutAssumption, MaxFaultsAssumption
       DEF TypeOK, StatusWord, ControlWords
<1>2. WordInv /\ LossInv /\ StaleMeansDegraded
  BY DEF WordInv, LossInv, StaleMeansDegraded
<1>3. ArmedOnlyOnRequest /\ SilentAppDisarmed
  BY DEF ArmedOnlyOnRequest, SilentAppDisarmed, Armed, Expired
<1> QED
  BY <1>1, <1>2, <1>3 DEF IInv

\* A new target frame is not expired, and words already written stay justified.
LEMMA SetTargetIInv == IInv /\ SetTarget => IInv'
<1> SUFFICES ASSUME IInv, SetTarget PROVE IInv'
  OBVIOUS
<1> USE DEF IInv, SetTarget, workVars, busVars
<1>1. TypeOK'
  <2>1. stamped' \in BOOLEAN /\ degraded' \in BOOLEAN
    BY DEF TypeOK
  <2>2. target' \in [Motor -> {-1, 0, 1}]
    BY TargetsAssumption
  <2> QED
    BY <2>1, <2>2, TimeoutAssumption DEF TypeOK
<1>2. ~Expired'
  BY TimeoutAssumption DEF Expired
<1>3. WordInv'
  BY <1>2 DEF WordInv
<1>4. LossInv' /\ StaleMeansDegraded' /\ ArmedOnlyOnRequest'
  BY DEF LossInv, StaleMeansDegraded, ArmedOnlyOnRequest
<1>5. SilentAppDisarmed'
  BY <1>2 DEF SilentAppDisarmed
<1> QED
  BY <1>1, <1>3, <1>4, <1>5

\* The receive marks the motors of incomplete domains in all three records.
LEMMA ReceiveIInv == IInv /\ Receive => IInv'
<1> SUFFICES ASSUME IInv, Receive PROVE IInv'
  OBVIOUS
<1> USE DEF IInv, Receive, ReadDomains, appVars, busVars
<1>1. TypeOK'
  <2>1. stamped' \in BOOLEAN /\ degraded' \in BOOLEAN
    BY DEF TypeOK
  <2>2. age' \in 0 .. Timeout
    BY TimeoutAssumption DEF TypeOK
  <2>3. status' \in [Motor -> StatusWord]
    BY DEF TypeOK, StatusWord
  <2>4. valid' \subseteq Motor /\ stale' \subseteq Motor
    BY DEF Received
  <2> QED
    BY <2>1, <2>2, <2>3, <2>4 DEF TypeOK
<1>2. WordInv' /\ SilentAppDisarmed'
  BY DEF WordInv, SilentAppDisarmed
<1>3. LossInv'
  BY DEF LossInv, Received
<1>4. StaleMeansDegraded' /\ ArmedOnlyOnRequest'
  BY DEF StaleMeansDegraded, ArmedOnlyOnRequest
<1> QED
  BY <1>1, <1>2, <1>3, <1>4

\* A control word drives a motor on only if it is asked for and its status known.
LEMMA ControlWordArms ==
  ASSUME NEW e, NEW s
  PROVE  /\ ControlWord(e, s) \in ControlWords
         /\ ControlWord(e, s) \notin Disarming =>
              e = 1 /\ s \in {"ready"} \cup Armed
  BY DEF ControlWord, ControlWords, Disarming, Armed

\* The words written drive on only what was asked for in time.
LEMMA CommandIInv == IInv /\ Command => IInv'
<1> SUFFICES ASSUME IInv, Command PROVE IInv'
  OBVIOUS
<1> USE DEF IInv, Command, WriteDomains, appVars, workVars, busVars
<1>1. TypeOK'
  <2>1. stamped' \in BOOLEAN /\ degraded' \in BOOLEAN
    BY DEF TypeOK
  <2>2. word' \in [Motor -> ControlWords]
    BY ControlWordArms
  <2>3. published' \in Frame
    BY DEF TypeOK, Frame
  <2> QED
    BY <2>1, <2>2, <2>3 DEF TypeOK
<1>2. WordInv'
  <2>1. ASSUME NEW m \in Motor, word'[m] \notin Disarming
        PROVE  m \in asked' /\ m \in valid' /\ ~Expired'
    <3>1. Effective(m) = 1 /\ KnownStatus(m) \in {"ready"} \cup Armed
      BY <2>1, ControlWordArms
    <3>2. ~Expired /\ target[m] = 1
      BY <3>1 DEF Effective
    <3>3. m \in valid
      BY <3>1 DEF KnownStatus, Armed
    <3> QED
      BY <3>2, <3>3 DEF Expired
  <2> QED
    BY <2>1 DEF WordInv
<1>3. LossInv' /\ StaleMeansDegraded'
  BY DEF LossInv, StaleMeansDegraded
<1>4. ArmedOnlyOnRequest' /\ SilentAppDisarmed'
  BY DEF ArmedOnlyOnRequest, SilentAppDisarmed
<1> QED
  BY <1>1, <1>2, <1>3, <1>4

\* A disarming word leaves no drive switched on.
LEMMA DisarmingWorks ==
  ASSUME NEW s \in DriveState, NEW last, NEW w \in Disarming
  PROVE  React(s, last, w) \cap Armed = {}
  BY DEF React, DriveState, Disarming, Armed

\* A drive that is reached obeys its word; one that is not stays as it was.
LEMMA BusIInv == IInv /\ Bus => IInv'
<1> SUFFICES ASSUME IInv, Bus PROVE IInv'
  OBVIOUS
<1> PICK reached \in IF Lossy THEN SUBSET Motor ELSE {Motor} :
      /\ drive' \in [Motor -> DriveState]
      /\ \A m \in Motor :
           IF m \in reached
             THEN drive'[m] \in React(drive[m], lastWord[m], word[m])
             ELSE drive'[m] = drive[m]
      /\ lastWord' = [m \in Motor |->
                        IF m \in reached THEN word[m] ELSE lastWord[m]]
      /\ authorised' = (authorised \ reached) \cup (asked \cap reached)
      /\ LET whole == {d \in Domain :
                         \A m \in Motor : DomainOf[m] = d => m \in reached}
         IN complete' \in IF Lossy THEN SUBSET whole ELSE {whole}
  BY DEF Bus
<1> USE DEF IInv
<1>1. /\ pc = "bus" /\ pc' = "receive"
      /\ input' = drive
      /\ UNCHANGED <<target, stamped, age, status, valid, stale, degraded,
                     word, published, faults, asked>>
  BY DEF Bus, appVars, workVars
<1>2. TypeOK'
  <2>1. stamped' \in BOOLEAN /\ degraded' \in BOOLEAN
    BY <1>1 DEF TypeOK
  <2>2. complete' \subseteq Domain
    OBVIOUS
  <2>3. authorised' \subseteq Motor
    BY DEF TypeOK
  <2>4. lastWord' \in [Motor -> ControlWords]
    BY DEF TypeOK
  <2> QED
    BY <1>1, <2>1, <2>2, <2>3, <2>4 DEF TypeOK
<1>3. ASSUME NEW m \in Motor, m \in reached, drive'[m] \in Armed
      PROVE  m \in asked /\ ~Expired
  <2>1. word[m] \notin Disarming
    BY <1>3, DisarmingWorks DEF TypeOK
  <2> QED
    BY <1>1, <2>1 DEF WordInv
<1>4. ArmedOnlyOnRequest'
  <2> SUFFICES ASSUME NEW m \in Motor, drive'[m] \in Armed
               PROVE  m \in authorised'
    BY DEF ArmedOnlyOnRequest
  <2>1. CASE m \in reached
    BY <2>1, <1>3
  <2>2. CASE m \notin reached
    BY <2>2 DEF ArmedOnlyOnRequest
  <2> QED
    BY <2>1, <2>2
<1>5. SilentAppDisarmed'
  <2>1. Expired' = Expired
    BY <1>1 DEF Expired
  <2>2. \A m \in Motor : DomainOf[m] \in complete' => m \in reached
    BY LossyAssumption
  <2> QED
    BY <2>1, <2>2, <1>3 DEF SilentAppDisarmed
<1>6. WordInv' /\ LossInv' /\ StaleMeansDegraded'
  BY <1>1 DEF WordInv, LossInv, StaleMeansDegraded
<1> QED
  BY <1>2, <1>4, <1>5, <1>6

\* A drive that trips is not armed.
LEMMA FaultIInv == ASSUME NEW m \in Motor, IInv, Fault(m) PROVE IInv'
<1> USE DEF IInv, Fault, appVars, workVars
<1>1. TypeOK'
  <2>1. stamped' \in BOOLEAN /\ degraded' \in BOOLEAN
    BY DEF TypeOK
  <2>2. faults' \in 0 .. MaxFaults
    BY MaxFaultsAssumption DEF TypeOK
  <2>3. drive' \in [Motor -> DriveState]
    BY DEF TypeOK, DriveState
  <2> QED
    BY <2>1, <2>2, <2>3 DEF TypeOK
<1>2. \A n \in Motor : drive'[n] \in Armed => drive[n] \in Armed
  BY DEF TypeOK, Armed
<1>3. WordInv' /\ LossInv' /\ StaleMeansDegraded'
  BY DEF WordInv, LossInv, StaleMeansDegraded, Expired
<1>4. ArmedOnlyOnRequest' /\ SilentAppDisarmed'
  BY <1>2 DEF ArmedOnlyOnRequest, SilentAppDisarmed, Expired
<1> QED
  BY <1>1, <1>3, <1>4

\* Every step keeps the invariant.
LEMMA NextIInv == IInv /\ [Next]_vars => IInv'
<1> SUFFICES ASSUME IInv, [Next]_vars PROVE IInv'
  OBVIOUS
<1>1. CASE SetTarget
  BY <1>1, SetTargetIInv
<1>2. CASE Receive
  BY <1>2, ReceiveIInv
<1>3. CASE Command
  BY <1>3, CommandIInv
<1>4. CASE Bus
  BY <1>4, BusIInv
<1>5. ASSUME NEW m \in Motor, Fault(m) PROVE IInv'
  BY <1>5, FaultIInv
<1>6. CASE UNCHANGED vars
  BY <1>6 DEF vars, appVars, workVars, busVars, IInv, TypeOK, WordInv, LossInv,
              ArmedOnlyOnRequest, SilentAppDisarmed, StaleMeansDegraded, Expired
<1> QED
  BY <1>1, <1>2, <1>3, <1>4, <1>5, <1>6 DEF Next

\* The inductive invariant holds in every reachable state.
THEOREM Invariance == Spec => []IInv
  BY InitIInv, NextIInv, PTL DEF Spec

\* Every variable keeps its type.
THEOREM TypeCorrect == Spec => []TypeOK
<1>1. IInv => TypeOK
  BY DEF IInv
<1> QED
  BY Invariance, <1>1, PTL

\* No drive is switched on or enabled without a request in time.
THEOREM ArmingIsRequested == Spec => []ArmedOnlyOnRequest
<1>1. IInv => ArmedOnlyOnRequest
  BY DEF IInv
<1> QED
  BY Invariance, <1>1, PTL

\* The watchdog disarms every drive of a silent application whose domain is
\* exchanged.
THEOREM WatchdogDisarms == Spec => []SilentAppDisarmed
<1>1. IInv => SilentAppDisarmed
  BY DEF IInv
<1> QED
  BY Invariance, <1>1, PTL

\* A motor in a published stale set is sent a disarming word in that cycle.
THEOREM StaleIsReleased == Spec => []StaleMotorIsReleased
<1>1. IInv => StaleMotorIsReleased
  BY DEF IInv, WordInv, LossInv, TypeOK, StaleMotorIsReleased, Frame
<1> QED
  BY Invariance, <1>1, PTL

\* The backend status is degraded before a stale frame can be read.
THEOREM StaleIsDegraded == Spec => []StaleMeansDegraded
<1>1. IInv => StaleMeansDegraded
  BY DEF IInv
<1> QED
  BY Invariance, <1>1, PTL
=============================================================================
