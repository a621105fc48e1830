---------------------------- MODULE EthercatCycle ----------------------------
(***************************************************************************)
(* The realtime loop of one EtherCAT backend (realtimeLoop): receive the   *)
(* process data, turn every domain into actuals or mark it lost, read the  *)
(* newest target frame, apply the command watchdog, derive one control     *)
(* word per motor from target and status, publish, send.  The buffers are  *)
(* the registers that module SnapshotBuffer shows them to be.              *)
(*                                                                         *)
(* Time is counted in cycles; a target frame is stamped with the cycle it  *)
(* is published in.  Everything a cycle does after the receive is one step *)
(* because only the target read and the actual publication are visible to  *)
(* the application.  Bus and drives are external: the image reaches some   *)
(* of the motors, a domain's working counter is complete only if all its   *)
(* motors were reached, and each drive follows the CiA 402 state machine.  *)
(***************************************************************************)
EXTENDS Integers, FiniteSets

CONSTANTS Motor,        \* motors of this backend
          Domain,       \* its process data domains
          DomainOf,     \* the domain each motor belongs to
          Targets,      \* target frames the application sets: the value of
                        \* enabled for each motor
          Timeout,      \* command timeout in cycles; 0 turns the watchdog off
          Lossy,        \* may exchanges with some of the motors fail?
          MaxFaults     \* bound on the number of drive faults

ASSUME DomainAssumption == DomainOf \in [Motor -> Domain]
ASSUME TargetsAssumption == Targets \subseteq [Motor -> {-1, 0, 1}]
ASSUME TimeoutAssumption == Timeout \in Nat
ASSUME LossyAssumption == Lossy \in BOOLEAN
ASSUME MaxFaultsAssumption == MaxFaults \in Nat

VARIABLES target,    \* targetBuffer: the enabled word per motor
          stamped,   \* a frame was published, its timestamp is not zero
          age,       \* cycles since its timestamp, counted up to Timeout
          pc,        \* realtimeLoop: place
          status, valid, stale,  \* workingActuals
          word,      \* the control words in the process image
          published, \* actualBuffer: the last published frame
          degraded,  \* status.degraded_
          drive, lastWord,  \* drive state; control word it got last (external)
          input, complete,  \* status words and domains received (external)
          faults,    \* number of drive faults so far
          asked,     \* history: motors the current words may enable
          authorised \* history: motors whose last received word was so allowed

appVars == <<target, stamped>>
workVars == <<status, valid, stale, degraded>>
busVars == <<drive, lastWord, input, complete, authorised>>
vars == <<appVars, age, pc, workVars, word, published, busVars, faults, asked>>

\* CiA 402 states a status word reports (& 0x007f), and 0xffff for none.
DriveState == {"disabled", "ready", "on", "enabled", "fault"}
StatusWord == DriveState \cup {"lost"}
Frame == [status : [Motor -> StatusWord \cup {"initial"}], stale : SUBSET Motor]

\* 0x0006, 0x0007, 0x000f, 0x0086.
ControlWords == {"shutdown", "switchOn", "enable", "reset"}
Disarming == {"shutdown", "reset"}
Armed == {"on", "enabled"}

Init ==
  /\ target = [m \in Motor |-> 0] /\ stamped = FALSE /\ age = 0
  /\ pc = "receive"
  /\ status = [m \in Motor |-> "lost"] /\ valid = {} /\ stale = {}
  /\ word = [m \in Motor |-> "shutdown"]
  /\ published = [status |-> [m \in Motor |-> "initial"], stale |-> {}]
  /\ degraded = FALSE
  /\ drive \in [Motor -> {"disabled", "ready", "fault"}]
  /\ lastWord = word
  /\ input = drive /\ complete = {}
  /\ faults = 0
  /\ asked = {} /\ authorised = {}

-----------------------------------------------------------------------------
(* Faulty variants of definitions below, for mutation testing. *)

\* Domain numbers taken for motor numbers.
Received_ByDomain == complete

\* A lost domain only raises the stale flag; the last status stays valid.
ReadDomains_KeepsStatus ==
  LET received == {m \in Motor : DomainOf[m] \in complete} IN
    /\ status' = [m \in Motor |-> IF m \in received THEN input[m] ELSE status[m]]
    /\ valid' = valid \cup received
    /\ stale' = Motor \ received

\* The watchdog is left out.
Effective_NoWatchdog(m) == target[m]

\* Only operation enabled, not switched on, leads to the enable word.
ControlWord_NoSwitchedOn(enabled, s) ==
  CASE enabled = -1 -> "reset"
    [] enabled = 1 /\ s = "ready" -> "switchOn"
    [] enabled = 1 /\ s = "enabled" -> "enable"
    [] OTHER -> "shutdown"

-----------------------------------------------------------------------------
(* The application *)

\* setMotorTarget: a new frame, stamped with the current time.
SetTarget ==
  /\ target' \in Targets
  /\ stamped' = TRUE
  /\ age' = 0
  /\ UNCHANGED <<pc, workVars, word, published, busVars, faults, asked>>

-----------------------------------------------------------------------------
(* The realtime loop *)

\* The motors whose process data arrived in this cycle.
Received == {m \in Motor : DomainOf[m] \in complete}

\* readEthercatDomainSnapshot for all domains, lost ones without data.
ReadDomains ==
  /\ status' = [m \in Motor |-> IF m \in Received THEN input[m] ELSE "lost"]
  /\ valid' = Received
  /\ stale' = Motor \ Received

\* Wake up, receive, process every domain.
Receive ==
  /\ pc = "receive"
  /\ pc' = "command"
  /\ age' = IF age < Timeout THEN age + 1 ELSE age
  /\ ReadDomains
  /\ degraded' = (degraded \/ Received # Motor)
  /\ UNCHANGED <<appVars, word, published, busVars, faults, asked>>

\* applyEthercatCommandWatchdog: is the frame too old to be obeyed?
Expired == Timeout > 0 /\ stamped /\ age >= Timeout

\* enabled after the watchdog.
Effective(m) == IF Expired THEN 0 ELSE target[m]

\* ethercatMtDeviceControlWord.
ControlWord(enabled, s) ==
  CASE enabled = -1 -> "reset"
    [] enabled = 1 /\ s = "ready" -> "switchOn"
    [] enabled = 1 /\ s \in Armed -> "enable"
    [] OTHER -> "shutdown"

\* What writeEthercatDomainSnapshot takes for the status of a motor.
KnownStatus(m) == IF m \in valid THEN status[m] ELSE "lost"

\* Faulty: an expired frame is skipped, the image keeps its words.
WriteDomains_SkipsExpired ==
  word' = IF Expired THEN word
          ELSE [m \in Motor |-> ControlWord(target[m], KnownStatus(m))]

\* writeEthercatDomainSnapshot for all domains.
WriteDomains ==
  word' = [m \in Motor |-> ControlWord(Effective(m), KnownStatus(m))]

\* Read the targets, write the image, publish the actuals, send.
Command ==
  /\ pc = "command"
  /\ pc' = "bus"
  /\ WriteDomains
  /\ published' = [status |-> status, stale |-> stale]
  /\ asked' = {m \in Motor : target[m] = 1 /\ ~Expired}
  /\ UNCHANGED <<appVars, age, workVars, busVars, faults>>

-----------------------------------------------------------------------------
(* The bus and the drives (external) *)

\* The states a drive in state s may be in after it received control word w.
React(s, last, w) ==
  CASE s = "fault" -> IF w = "reset" /\ last # "reset"
                        THEN {"disabled"} ELSE {"fault"}
    [] s # "fault" /\ w \in Disarming -> {"ready"}
    [] s = "disabled" /\ w \notin Disarming -> {"disabled"}
    [] s \in {"ready"} \cup Armed /\ w = "switchOn" -> {"on"}
    [] s = "ready" /\ w = "enable" -> {"ready", "on", "enabled"}
    [] s \in Armed /\ w = "enable" -> {"enabled"}

\* One exchange: every motor reached reports its status and obeys its word.
Bus ==
  /\ pc = "bus"
  /\ pc' = "receive"
  /\ \E reached \in IF Lossy THEN SUBSET Motor ELSE {Motor} :
       /\ drive' \in [Motor -> DriveState]
       /\ \A m \in Motor :
            IF m \in reached
              THEN drive'[m] \in React(drive[m], lastWord[m], word[m])
              ELSE drive'[m] = drive[m]
       /\ lastWord' = [m \in Motor |->
                         IF m \in reached THEN word[m] ELSE lastWord[m]]
       /\ authorised' = (authorised \ reached) \cup (asked \cap reached)
       /\ LET whole == {d \in Domain :
                          \A m \in Motor : DomainOf[m] = d => m \in reached}
          IN complete' \in IF Lossy THEN SUBSET whole ELSE {whole}
  /\ input' = drive
  /\ UNCHANGED <<appVars, age, workVars, word, published, faults, asked>>

\* A drive trips.
Fault(m) ==
  /\ faults < MaxFaults
  /\ drive[m] # "fault"
  /\ drive' = [drive EXCEPT ![m] = "fault"]
  /\ faults' = faults + 1
  /\ UNCHANGED <<appVars, age, pc, workVars, word, published, lastWord, input,
                 complete, asked, authorised>>

Next ==
  \/ SetTarget
  \/ Receive
  \/ Command
  \/ Bus
  \/ \E m \in Motor : Fault(m)

Spec == Init /\ [][Next]_vars

\* The realtime thread runs and every exchange ends; nothing is assumed of the
\* application.
FairSpec == Spec /\ WF_vars(Receive) /\ WF_vars(Command) /\ WF_vars(Bus)

-----------------------------------------------------------------------------
TypeOK ==
  /\ target \in [Motor -> {-1, 0, 1}] /\ stamped \in BOOLEAN
  /\ age \in 0 .. Timeout
  /\ pc \in {"receive", "command", "bus"}
  /\ status \in [Motor -> StatusWord]
  /\ valid \subseteq Motor /\ stale \subseteq Motor
  /\ word \in [Motor -> ControlWords] /\ lastWord \in [Motor -> ControlWords]
  /\ published \in Frame
  /\ degraded \in BOOLEAN
  /\ drive \in [Motor -> DriveState] /\ input \in [Motor -> DriveState]
  /\ complete \subseteq Domain
  /\ faults \in 0 .. MaxFaults
  /\ asked \subseteq Motor /\ authorised \subseteq Motor

\* A drive is switched on or enabled only if the last control word that reached
\* it came from a frame that asked for it and had not expired.
ArmedOnlyOnRequest ==
  \A m \in Motor : drive[m] \in Armed => m \in authorised

\* Once the application has been silent for the command timeout, the next
\* exchange of a motor's domain leaves its drive not switched on, even if earlier
\* exchanges of it failed.
SilentAppDisarmed ==
  Expired /\ pc = "receive" =>
    \A m \in Motor : DomainOf[m] \in complete => drive[m] \notin Armed

\* A motor reported stale is not driven on: the word sent to it disarms.
StaleMotorIsReleased ==
  pc = "bus" => \A m \in published.stale : word[m] \in Disarming

\* Whoever reads a stale frame finds the backend degraded.
StaleMeansDegraded == published.stale # {} => degraded

\* A motor the application keeps enabling gets enabled and stays so, whatever
\* happens to motors of other domains, once its own domain is exchanged.
EnableReachesDrive ==
  \A m \in Motor :
    <>[](/\ target[m] = 1 /\ ~Expired
         /\ DomainOf[m] \in complete
         /\ drive[m] # "fault")
      => <>[](drive[m] = "enabled")

\* A fault reset that is a new request clears the fault.
FaultResetWorks ==
  \A m \in Motor :
    (/\ drive[m] = "fault" /\ lastWord[m] # "reset"
     /\ [](target[m] = -1 /\ ~Expired /\ DomainOf[m] \in complete))
      ~> drive[m] # "fault"

\* Both: a drive comes to do what it is asked for.
DriveResponds == EnableReachesDrive /\ FaultResetWorks

-----------------------------------------------------------------------------
(* The inductive invariant behind the safety properties. *)

\* The words of the cycle under way: only motors asked for are driven on, no
\* motor marked stale is, and an expired frame drives none.
WordInv ==
  pc = "bus" =>
    /\ published.stale = stale
    /\ \A m \in Motor :
         word[m] \notin Disarming => m \in asked /\ m \in valid /\ ~Expired

\* The three records of a lost motor agree.
LossInv ==
  /\ valid \cap stale = {}
  /\ stale # {} => degraded

IInv ==
  /\ TypeOK
  /\ WordInv
  /\ LossInv
  /\ ArmedOnlyOnRequest
  /\ SilentAppDisarmed
  /\ StaleMeansDegraded

=============================================================================
