------------------------- MODULE MotionProgramProofs -------------------------
(***************************************************************************)
(* Proofs about the bench programs: for every set of motors, arguments,    *)
(* counts and limits, and any kinematics.                                  *)
(***************************************************************************)
EXTENDS MotionProgram, WellFoundedInduction, TLAPS

\* What the phases take of a plan.
PlanInv ==
  /\ plan.every \in Nat \ {0} /\ plan.misses \in Nat \ {0}
  /\ pc \notin {"args", "exit"} =>
       /\ prog = "mock" => plan.every = 1
       /\ prog = "probe" => plan.ramp \in Nat /\ plan.extra.samples \in Nat \ {0}

\* Which program is in which phase, and what its last frame was.
PhaseInv ==
  /\ cmd = [enabled |-> cmd.enabled, pos |-> cmd.pos, tor |-> cmd.tor]
  /\ pc = "args" => prog = "none" /\ ready = 0 /\ good = 0 /\ on = 0
  /\ pc = "enable" => prog # "probe"
  /\ pc \in {"prepare", "arrive", "finish"} => prog = "probe"
  /\ pc \in {"args", "settle", "exit"} => ~cmd.enabled
  /\ pc = "thrown" => prog \in {"path", "mock"}

\* The counts of good and operational samples as the phases know them.
CountInv ==
  /\ pc = "settle" /\ prog # "probe" => good = Upto(ready)
  /\ pc = "enable" =>
       /\ ~cmd.enabled => good = ReadySamples
       /\ Upto(ready) <= on
       /\ ready > 0 => cmd.enabled /\ blind = 0
  /\ pc = "move" /\ prog # "probe" => cmd.enabled
  /\ prog = "probe" /\ pc \in {"prepare", "arrive", "move", "finish"} => on > 0

\* Frames since the last operational sample, at most so many.
BlindLimit ==
  IF prog = "mock" THEN missed + 1
  ELSE missed * plan.every + (IF i % plan.every = 0 THEN plan.every ELSE i % plan.every) - 1

BlindInv ==
  pc = "move" /\ prog # "probe" => missed < plan.misses /\ blind <= BlindLimit

\* Enabled frames since a stop request, by how far a program has come since.
LateInv ==
  /\ ~stop \/ pc \in {"args", "settle"} => late = 0
  /\ prog # "probe" \/ pc \in {"prepare", "arrive"} => late <= 1
  /\ pc \in {"move", "finish"} => late <= 2
  /\ late <= 3

IInv == TypeOK /\ PlanInv /\ PhaseInv /\ CountInv /\ BlindInv /\ LateInv

-----------------------------------------------------------------------------
(* Arithmetic *)

\* The smaller of two numbers.
LEMMA MinOfTwo ==
  ASSUME NEW a \in Int, NEW b \in Int
  PROVE  Min({a, b}) = IF a <= b THEN a ELSE b
BY DEF Min

\* The larger one.
LEMMA MaxOfTwo ==
  ASSUME NEW a \in Int, NEW b \in Int
  PROVE  Max({a, b}) = IF a <= b THEN b ELSE a
BY DEF Max

\* A count that stops at ReadySamples.
LEMMA UptoCounts ==
  ASSUME NEW n \in Nat
  PROVE  /\ Upto(n) \in 0 .. ReadySamples
         /\ Upto(n) = IF n <= ReadySamples THEN n ELSE ReadySamples
BY MinOfTwo, CountAssumption DEF Upto

\* One more of n.
LEMMA Products ==
  ASSUME NEW n \in Nat, NEW m \in Nat
  PROVE  m * n \in Nat /\ (m + 1) * n = m * n + n /\ 0 * n = 0
OBVIOUS

\* Remainders are unique.
LEMMA Remainder ==
  ASSUME NEW n \in Nat \ {0}, NEW q \in Int, NEW p \in Int,
         NEW a \in 0 .. n - 1, NEW b \in 0 .. n - 1, n * q + a = n * p + b
  PROVE  a = b
<1>1. n * (q - p) = b - a
  OBVIOUS
<1>2. CASE q - p >= 1
  <2>1. n * (q - p) >= n
    BY <1>2
  <2> QED BY <1>1, <2>1
<1>3. CASE q - p <= -1
  <2>1. n * (q - p) <= -n
    BY <1>3
  <2> QED BY <1>1, <2>1
<1>4. CASE q - p = 0
  BY <1>1, <1>4
<1> QED BY <1>2, <1>3, <1>4

\* The remainder of the next number is zero, or larger.
LEMMA NextRemainder ==
  ASSUME NEW n \in Nat \ {0}, NEW k \in Nat
  PROVE  /\ k % n \in 0 .. n - 1
         /\ (k + 1) % n = 0 \/ (k + 1) % n >= (k % n) + 1
<1> DEFINE r == k % n
           s == (k + 1) % n
<1>1. r \in 0 .. n - 1 /\ s \in 0 .. n - 1 /\ k \div n \in Int /\ (k + 1) \div n \in Int
  OBVIOUS
<1>2. k = n * (k \div n) + r /\ k + 1 = n * ((k + 1) \div n) + s
  OBVIOUS
<1> HIDE DEF r, s
<1>3. CASE r + 1 \in 0 .. n - 1
  <2>1. n * (k \div n) + (r + 1) = n * ((k + 1) \div n) + s
    BY <1>1, <1>2
  <2>2. s = r + 1
    BY <1>1, <1>3, <2>1, Remainder
  <2> QED BY <1>1, <2>2 DEF r, s
<1>4. CASE r = n - 1
  <2> DEFINE q == k \div n + 1
             p == (k + 1) \div n
  <2>1. q \in Int /\ p \in Int
    BY <1>1
  <2>2. n * q = n * (k \div n) + n
    BY <1>1
  <2>3. n * q + 0 = n * p + s
    BY <1>1, <1>2, <1>4, <2>2
  <2>4. 0 \in 0 .. n - 1
    OBVIOUS
  <2> HIDE DEF q, p
  <2>5. 0 = s
    BY <1>1, <2>1, <2>3, <2>4, Remainder
  <2> QED BY <1>1, <2>5 DEF r, s
<1> QED BY <1>1, <1>3, <1>4

-----------------------------------------------------------------------------
(* Plans *)

Fits(p, q) ==
  /\ q.every \in Nat \ {0} /\ q.misses \in Nat \ {0}
  /\ p = "mock" => q.every = 1
  /\ p = "probe" => q.ramp \in Nat /\ q.extra.samples \in Nat \ {0}

\* What PlanOf makes of its arguments.
LEMMA PlanFields ==
  ASSUME NEW goal, NEW ramp, NEW steps, NEW every \in Int, NEW misses, NEW extra,
         NEW q, q = PlanOf(goal, ramp, steps, every, misses, extra)
  PROVE  /\ q.every \in Nat \ {0} /\ (every <= 1 => q.every = 1)
         /\ q.misses = misses /\ q.ramp = ramp /\ q.extra = extra
<1>1. q.every = Max({1, every}) /\ q.misses = misses /\ q.ramp = ramp /\ q.extra = extra
  BY DEF PlanOf
<1>2. Max({1, every}) = IF 1 <= every THEN every ELSE 1
  BY MaxOfTwo
<1> QED BY <1>1, <1>2

\* What the programs accept fits their phases.
LEMMA AcceptedFits ==
  /\ \A q \in HoldArgs : Fits("hold", q)
  /\ \A q \in PositionArgs : Fits("position", q)
  /\ \A q \in PathArgs : Fits("path", q)
  /\ \A q \in JointArgs : Fits("joint", q)
  /\ \A q \in MockArgs : Fits("mock", q)
  /\ \A q \in FitArgs : Fits("fit", q)
  /\ \A q \in JumpArgs : Fits("jump", q)
  /\ \A q \in ProbeArgs : Fits("probe", q)
<1>1. 100 \div Period \in Int /\ 500 \div Period \in Int /\ 1 \in Int
  BY CountAssumption
<1>2. 1 \in Nat \ {0} /\ MissLimit \in Nat \ {0}
  BY CountAssumption
<1>3. \A q \in HoldArgs : Fits("hold", q)
  BY <1>1, <1>2, PlanFields DEF HoldArgs, Fits
<1>4. \A q \in PositionArgs : Fits("position", q)
  BY <1>1, <1>2, PlanFields DEF PositionArgs, Fits
<1>5. \A q \in PathArgs : Fits("path", q)
  <2> SUFFICES ASSUME NEW q \in PathArgs PROVE Fits("path", q)
    OBVIOUS
  <2> DEFINE Ramp(a) == a[2][1]
             Steps(a) == (a[2][1] + a[2][2]) \div Period
             Extra(a) == [mode |-> a[1], path |-> PathForMode(a[1], a[2][2])]
             Accepted == {b \in PathModes \X Timings : PathAccepted(b[1], b[2][2])}
  <2>1. q \in {PlanOf(<<>>, Ramp(a), Steps(a), 500 \div Period, MissLimit, Extra(a)) : a \in Accepted}
    BY DEF PathArgs
  <2> HIDE DEF Ramp, Steps, Extra, Accepted
  <2>2. \E goal, ramp, steps, extra : q = PlanOf(goal, ramp, steps, 500 \div Period, MissLimit, extra)
    BY <2>1
  <2> QED BY <1>1, <1>2, <2>2, PlanFields DEF Fits
<1>6. \A q \in JointArgs : Fits("joint", q)
  BY <1>1, <1>2, PlanFields DEF JointArgs, Fits
<1>7. \A q \in MockArgs : Fits("mock", q)
  BY <1>1, <1>2, PlanFields DEF MockArgs, Fits
<1>8. \A q \in FitArgs : Fits("fit", q)
  BY <1>1, <1>2, PlanFields DEF FitArgs, Fits
<1>9. \A q \in ProbeArgs : Fits("probe", q)
  BY <1>1, <1>2, PlanFields, ProbesAssumption DEF ProbeArgs, Fits
<1>10. \A q \in JumpArgs : Fits("jump", q)
  BY <1>1, <1>2, PlanFields DEF JumpArgs, Fits
<1> QED BY <1>3, <1>4, <1>5, <1>6, <1>7, <1>8, <1>9, <1>10

-----------------------------------------------------------------------------
(* Every step keeps the invariant *)

LEMMA InitInv == Init => IInv
<1> SUFFICES ASSUME Init PROVE IInv
  OBVIOUS
<1>1. TypeOK
  <2>1. 0 \in 0 .. ReadySamples
    BY CountAssumption
  <2>2. /\ i = 0 /\ ready = 0 /\ missed = 0 /\ blind = 0 /\ late = 0 /\ good = 0 /\ on = 0
        /\ code = 0 /\ cmd.enabled = FALSE /\ stop = FALSE /\ pc = "args" /\ prog = "none"
    BY DEF Init
  <2> QED BY <2>1, <2>2 DEF TypeOK, Phase
<1>2. PlanInv
  BY DEF Init, PlanInv, NoPlan
<1>3. PhaseInv /\ CountInv /\ BlindInv /\ LateInv
  BY DEF Init, PhaseInv, CountInv, BlindInv, LateInv
<1> QED BY <1>1, <1>2, <1>3 DEF IInv

\* A signal changes no phase.
LEMMA RequestStopKeeps == IInv /\ (RequestStop \/ UNCHANGED vars) => IInv'
<1> SUFFICES ASSUME IInv, RequestStop \/ UNCHANGED vars PROVE IInv'
  OBVIOUS
<1>1. UNCHANGED <<prog, plan, pc, i, ready, missed, start, cmd, code, good, on, blind, late>>
  BY DEF RequestStop, vars, seen
<1>2. stop' \in BOOLEAN
  BY DEF RequestStop, vars, IInv, TypeOK
<1>3. TypeOK' /\ PlanInv' /\ PhaseInv'
  BY <1>1, <1>2 DEF IInv, TypeOK, PlanInv, PhaseInv
<1>4. CountInv' /\ BlindInv'
  BY <1>1 DEF IInv, CountInv, BlindInv, BlindLimit, Upto
<1>5. ~stop' => ~stop
  BY DEF RequestStop, vars
<1>6. LateInv'
  BY <1>1, <1>5 DEF IInv, LateInv
<1> QED BY <1>3, <1>4, <1>6 DEF IInv

Programs == {"hold", "position", "path", "joint", "mock", "fit", "jump", "probe"}

\* A program begins with a plan that fits, or ends.
LEMMA BeginKeeps ==
  ASSUME IInv, NEW p \in Programs, NEW accepted, \A q \in accepted : Fits(p, q),
         Begin(p, accepted)
  PROVE  IInv'
<1> USE DEF IInv
<1>1. /\ pc = "args" /\ prog' = p
      /\ UNCHANGED <<i, ready, missed, start, stop, cmd, good, on, blind, late>>
      /\ \/ plan' \in accepted /\ pc' = "settle" /\ UNCHANGED code
         \/ UNCHANGED plan /\ pc' = "exit" /\ code' \in {1, 2}
  BY DEF Begin, seen, Exit
<1>2. TypeOK'
  BY <1>1 DEF TypeOK, Programs, Phase
<1>3. PlanInv'
  <2>1. CASE plan' \in accepted /\ pc' = "settle"
    BY <1>1, <2>1 DEF Fits, PlanInv
  <2>2. CASE UNCHANGED plan /\ pc' = "exit"
    BY <1>1, <2>2 DEF PlanInv
  <2> QED BY <1>1, <2>1, <2>2
<1>4. PhaseInv'
  BY <1>1 DEF PhaseInv
<1>5. CountInv' /\ BlindInv' /\ LateInv'
  <2>1. Upto(0) = 0
    BY UptoCounts, CountAssumption
  <2> QED BY <1>1, <2>1 DEF CountInv, BlindInv, LateInv, PhaseInv
<1> QED BY <1>2, <1>3, <1>4, <1>5

\* Waiting counts good samples; ReadySamples of them end it.
LEMMA SettleKeeps ==
  ASSUME IInv, prog # "probe", NEW breaks, Settle(breaks)
  PROVE  IInv'
<1> USE DEF IInv
<1>1. /\ pc = "settle" /\ UNCHANGED <<prog, plan, stop, cmd, late>>
      /\ i \in Nat /\ ready \in Nat /\ good \in 0 .. ReadySamples /\ good = Upto(ready)
      /\ on \in 0 .. ReadySamples /\ blind \in Nat /\ ~cmd.enabled /\ late = 0
  BY DEF Settle, TypeOK, PhaseInv, CountInv, LateInv
<1>2. CASE \E s \in Samples :
             /\ See(s, 0, 0) /\ Count(s) /\ ready' = Consecutive(FeedbackReady(s), ready)
             /\ i' = i + 1
             /\ UNCHANGED <<pc, missed, start, code>>
  <2>1. PICK s \in Samples :
             /\ See(s, 0, 0) /\ Count(s) /\ ready' = Consecutive(FeedbackReady(s), ready)
             /\ i' = i + 1
             /\ UNCHANGED <<pc, missed, start, code>>
    BY <1>2
  <2>2. ready' \in Nat /\ blind' \in Nat
    BY <1>1, <2>1 DEF Consecutive, See
  <2>3. good' \in 0 .. ReadySamples /\ good' = Upto(ready')
    BY <1>1, <2>1, UptoCounts, CountAssumption DEF Consecutive, Count
  <2>4. on' \in 0 .. ReadySamples
    BY <1>1, <2>1, UptoCounts, CountAssumption DEF Count
  <2>5. TypeOK'
    BY <1>1, <2>1, <2>2, <2>3, <2>4 DEF TypeOK
  <2>6. PlanInv' /\ PhaseInv' /\ CountInv' /\ BlindInv' /\ LateInv'
    BY <1>1, <2>1, <2>3 DEF PlanInv, PhaseInv, CountInv, Upto, BlindInv, LateInv
  <2> QED BY <2>5, <2>6
<1>3. CASE /\ Exit(IF stop THEN 130 ELSE 1)
           /\ UNCHANGED <<i, ready, missed, start, seen>>
  <2>1. TypeOK'
    BY <1>1, <1>3 DEF TypeOK, Exit, Phase, seen
  <2>2. PlanInv' /\ PhaseInv' /\ CountInv' /\ BlindInv' /\ LateInv'
    BY <1>1, <1>3 DEF PlanInv, PhaseInv, CountInv, BlindInv, LateInv, Exit, seen
  <2> QED BY <2>1, <2>2
<1>4. CASE ready >= ReadySamples /\ Enter("enable") /\ UNCHANGED <<code, seen>>
  <2>1. good' = ReadySamples /\ ready' = 0 /\ pc' = "enable"
    BY <1>1, <1>4, UptoCounts, CountAssumption DEF Enter, seen
  <2>2. TypeOK'
    BY <1>1, <1>4 DEF TypeOK, Enter, Phase, seen
  <2>3. Upto(ready') <= on'
    BY <1>1, <1>4, <2>1, UptoCounts, CountAssumption DEF seen
  <2>4. CountInv'
    BY <1>1, <2>1, <2>3 DEF CountInv, Upto
  <2>5. PlanInv' /\ PhaseInv' /\ BlindInv' /\ LateInv'
    BY <1>1, <2>1 DEF PlanInv, PhaseInv, BlindInv, LateInv
  <2> QED BY <2>2, <2>4, <2>5
<1> QED BY <1>2, <1>3, <1>4 DEF Settle

\* A program may end once feedback is good.
LEMMA SettledExitKeeps ==
  ASSUME IInv, pc = "settle", Exit(2),
         UNCHANGED <<prog, plan, i, ready, missed, stop, cmd, late, seen>>
  PROVE  IInv'
<1> USE DEF IInv
<1>1. TypeOK'
  BY DEF TypeOK, Exit, Phase, seen
<1>2. PlanInv' /\ PhaseInv' /\ CountInv' /\ BlindInv' /\ LateInv'
  BY DEF PlanInv, PhaseInv, CountInv, BlindInv, LateInv, Exit, seen
<1> QED BY <1>1, <1>2

\* A step that leads out of the limits ends the program before it enables.
LEMMA JumpSettleKeeps ==
  ASSUME IInv, prog = "jump", JumpSettle
  PROVE  IInv'
<1> USE DEF IInv
<1>1. CASE Settle(FALSE)
  BY <1>1, SettleKeeps
<1>2. CASE /\ pc = "settle" /\ Exit(2)
           /\ UNCHANGED <<prog, plan, i, ready, missed, stop, cmd, late, seen>>
  BY <1>2, SettledExitKeeps
<1> QED BY <1>1, <1>2 DEF JumpSettle

\* So does a path for a motor that is not active.
LEMMA PathSettleKeeps ==
  ASSUME IInv, prog = "path", PathSettle
  PROVE  IInv'
<1>1. CASE Settle(TRUE)
  BY <1>1, SettleKeeps
<1>2. CASE /\ pc = "settle" /\ Exit(2)
           /\ UNCHANGED <<prog, plan, i, ready, missed, start, stop, cmd, late, seen>>
  BY <1>2, SettledExitKeeps
<1> QED BY <1>1, <1>2 DEF PathSettle

\* Disabling, exiting and giving up raise no count and enable nothing.
LEMMA DisableKeeps ==
  ASSUME IInv, pc \notin {"args", "exit"}, NEW c \in {0, 1, 2, 130}, Disable(c),
         UNCHANGED <<prog, plan, start, stop, cmd, late, good, on>>, blind' \in Nat
  PROVE  IInv'
<1> USE DEF IInv
<1>1. pc' = "disable" /\ i' = 0 /\ ready' = 0 /\ missed' = 0 /\ code' = c
  BY DEF Disable, Enter
<1>2. TypeOK'
  BY <1>1 DEF TypeOK, Phase
<1>3. PlanInv' /\ PhaseInv' /\ CountInv' /\ BlindInv' /\ LateInv'
  BY <1>1 DEF PlanInv, PhaseInv, CountInv, BlindInv, LateInv, TypeOK
<1> QED BY <1>2, <1>3

\* A loop that has found no stop request sends one frame, before or after one.
LEMMA SendAfterCheck ==
  ASSUME IInv, ~stop, SignalBeforeSend, NEW pos, NEW tor, SendEnabled(pos, tor)
  PROVE  /\ cmd' = [enabled |-> TRUE, pos |-> pos, tor |-> tor]
         /\ stop' \in BOOLEAN /\ late' = IF stop' THEN 1 ELSE 0
<1>1. late = 0 /\ stop = FALSE
  BY DEF IInv, LateInv, TypeOK
<1>2. stop' \in BOOLEAN
  BY <1>1 DEF SignalBeforeSend
<1>3. late' = IF stop' THEN 1 ELSE 0
  <2>1. late' = IF stop' THEN late + 1 ELSE late
    BY DEF SendEnabled
  <2>2. CASE stop'
    BY <1>1, <2>1, <2>2
  <2>3. CASE ~stop'
    BY <1>1, <2>1, <2>3
  <2> QED BY <2>2, <2>3
<1>4. cmd' = [enabled |-> TRUE, pos |-> pos, tor |-> tor]
  BY DEF SendEnabled
<1> QED BY <1>2, <1>3, <1>4

\* Enabling counts operational samples; ReadySamples of them start the motion.
LEMMA EnableKeeps ==
  ASSUME IInv, NEW rereads, Enable(rereads)
  PROVE  IInv'
<1> USE DEF IInv
<1>1. /\ pc = "enable" /\ prog # "probe" /\ UNCHANGED <<prog, plan>>
      /\ i \in Nat /\ ready \in Nat /\ good \in 0 .. ReadySamples
      /\ on \in 0 .. ReadySamples /\ blind \in Nat
      /\ Upto(ready) <= on
  BY DEF Enable, TypeOK, PhaseInv, CountInv
<1>2. CASE /\ Enabling /\ SignalBeforeSend /\ SendEnabled(start, 0)
           /\ \E s \in Samples : See(s, 1, 0) /\ Count(s) /\ ready' = Consecutive(OperationReady(s), ready)
           /\ i' = i + 1
           /\ UNCHANGED <<pc, missed, start, code>>
  <2>1. PICK s \in Samples :
             See(s, 1, 0) /\ Count(s) /\ ready' = Consecutive(OperationReady(s), ready)
    BY <1>2
  <2>2. /\ cmd' = [enabled |-> TRUE, pos |-> start, tor |-> 0]
        /\ stop' \in BOOLEAN /\ late' = IF stop' THEN 1 ELSE 0
    BY <1>2, SendAfterCheck DEF Enabling
  <2>3. ready' \in Nat /\ blind' \in Nat /\ (ready' > 0 => blind' = 0)
    BY <1>1, <2>1 DEF Consecutive, See
  <2>4. good' \in 0 .. ReadySamples /\ on' \in 0 .. ReadySamples
    BY <1>1, <2>1, UptoCounts, CountAssumption DEF Count
  <2>5. Upto(ready') <= on'
    BY <1>1, <2>1, UptoCounts, CountAssumption DEF Count, Consecutive
  <2>6. TypeOK'
    BY <1>1, <1>2, <2>2, <2>3, <2>4 DEF TypeOK
  <2>7. CountInv'
    BY <1>1, <1>2, <2>2, <2>3, <2>5 DEF CountInv, Upto
  <2>8. PlanInv' /\ PhaseInv' /\ BlindInv' /\ LateInv'
    BY <1>1, <1>2, <2>2 DEF PlanInv, PhaseInv, BlindInv, LateInv
  <2> QED BY <2>6, <2>7, <2>8
<1>3. CASE \E c \in {1, 130} : Disable(c) /\ UNCHANGED <<start, stop, cmd, late, seen>>
  BY <1>1, <1>3, DisableKeeps DEF seen
<1>4. CASE ready >= ReadySamples /\ Enter("move") /\ UNCHANGED <<stop, cmd, late, seen, code>>
  <2>1. /\ pc' = "move" /\ i' = 0 /\ ready' = 0 /\ missed' = 0
        /\ UNCHANGED <<stop, cmd, late, good, on, blind, code>>
    BY <1>4 DEF Enter, seen
  <2>2. cmd.enabled /\ blind = 0
    BY <1>1, <1>4, CountAssumption DEF CountInv
  <2>3. TypeOK'
    BY <1>1, <2>1 DEF TypeOK, Phase
  <2>4. CountInv' /\ PlanInv' /\ PhaseInv'
    BY <1>1, <2>1, <2>2 DEF CountInv, PlanInv, PhaseInv
  <2>6. late \in Nat /\ late <= 1 /\ (~stop => late = 0)
    BY <1>1 DEF LateInv, TypeOK
  <2>7. LateInv'
    BY <1>1, <2>1, <2>6 DEF LateInv
  <2>5. BlindInv'
    <3>1. plan.every \in Nat \ {0} /\ plan.misses \in Nat \ {0}
      BY DEF PlanInv
    <3>2. 0 % plan.every \in 0 .. plan.every - 1
      BY <3>1, NextRemainder
    <3>3. 0 * plan.every = 0
      BY <3>1
    <3> QED BY <1>1, <2>1, <2>2, <3>1, <3>2, <3>3 DEF BlindInv, BlindLimit
  <2> QED BY <2>3, <2>4, <2>5, <2>7
<1> QED BY <1>2, <1>3, <1>4 DEF Enable

\* A motion step of blind frames stays below the limit: the next remainder is
\* zero or larger, and a monitored sample that is not operational counts.
LEMMA BlindStep ==
  ASSUME IInv, pc = "move", prog \notin {"probe", "mock"},
         \/ /\ Monitored
            /\ \/ blind' = 0 /\ missed' = 0
               \/ blind' = blind + 1 /\ missed' = missed + 1 /\ missed' < plan.misses
         \/ ~Monitored /\ blind' = blind + 1 /\ missed' = missed,
         i' = i + 1, pc' = pc, UNCHANGED <<prog, plan>>
  PROVE  BlindInv'
<1> DEFINE n == plan.every
           r == i % n
           s == (i + 1) % n
<1>1. /\ n \in Nat \ {0} /\ i \in Nat /\ missed \in Nat /\ blind \in Nat
      /\ plan.misses \in Nat \ {0}
  BY DEF IInv, PlanInv, TypeOK
<1>2. r \in 0 .. n - 1 /\ s \in 0 .. n - 1 /\ (s = 0 \/ s >= r + 1)
  <2> HIDE DEF n
  <2>1. i + 1 \in Nat
    BY <1>1
  <2>2. i % n \in 0 .. n - 1 /\ ((i + 1) % n = 0 \/ (i + 1) % n >= (i % n) + 1)
    BY <1>1, NextRemainder
  <2>3. (i + 1) % n \in 0 .. n - 1
    BY <1>1, <2>1, NextRemainder
  <2> QED BY <2>2, <2>3
<1>3. missed < plan.misses /\ blind <= missed * n + (IF r = 0 THEN n ELSE r) - 1
  BY DEF IInv, BlindInv, BlindLimit
<1>4. Monitored <=> r = 0 \/ i + 1 = plan.steps
  BY DEF Monitored
<1>5. missed * n \in Nat /\ (missed + 1) * n = missed * n + n /\ 0 * n = 0
  BY <1>1, Products
<1> HIDE DEF n, r, s
<1>6. missed' < plan.misses /\ blind' <= missed' * n + (IF s = 0 THEN n ELSE s) - 1
  <2>1. CASE blind' = 0 /\ missed' = 0
    BY <1>1, <1>2, <1>5, <2>1
  <2>2. CASE blind' = blind + 1 /\ missed' = missed + 1 /\ missed' < plan.misses
    <3>1. missed' * n = missed * n + n
      BY <1>5, <2>2
    <3> QED BY <1>1, <1>2, <1>3, <1>5, <2>2, <3>1
  <2>3. CASE ~Monitored /\ blind' = blind + 1 /\ missed' = missed
    <3>1. missed' * n = missed * n
      BY <2>3
    <3> QED BY <1>1, <1>2, <1>3, <1>4, <1>5, <2>3, <3>1
  <2> QED BY <2>1, <2>2, <2>3
<1> QED BY <1>6 DEF BlindInv, BlindLimit, n, s

\* A motion loop that watches its samples.
LEMMA RunKeeps ==
  ASSUME IInv, prog \notin {"probe", "mock"}, NEW pos, Run(pos)
  PROVE  IInv'
<1> USE DEF IInv
<1>1. /\ pc = "move" /\ stop = FALSE /\ UNCHANGED <<prog, plan, start, good, on>>
      /\ i \in Nat /\ ready \in Nat /\ missed \in Nat /\ blind \in Nat
  BY DEF Run, Moving, TypeOK
<1>2. CASE UNCHANGED <<stop, cmd, late, blind>> /\ Disable(1)
  BY <1>1, <1>2, DisableKeeps
<1>3. CASE /\ SignalBeforeSend /\ SendEnabled(pos, 0)
           /\ \/ Monitored /\ \E s \in Samples : See(s, 1, 0) /\ Watch(s)
              \/ /\ ~Monitored
                 /\ i' = i + 1 /\ blind' = blind + 1
                 /\ UNCHANGED <<pc, code, ready, missed>>
  <2>1. /\ cmd' = [enabled |-> TRUE, pos |-> pos, tor |-> 0]
        /\ stop' \in BOOLEAN /\ late' = IF stop' THEN 1 ELSE 0
    BY <1>1, <1>3, SendAfterCheck
  <2>2. CASE \E s \in Samples : See(s, 1, 0) /\ TooManyMissed(s) /\ Disable(1)
    <3>1. /\ pc' = "disable" /\ i' = 0 /\ ready' = 0 /\ missed' = 0 /\ code' = 1
          /\ blind' \in Nat
      BY <1>1, <2>2 DEF Disable, Enter, See
    <3>2. TypeOK'
      BY <1>1, <2>1, <3>1 DEF TypeOK, Phase
    <3>3. PlanInv' /\ PhaseInv' /\ CountInv' /\ BlindInv' /\ LateInv'
      BY <1>1, <2>1, <3>1 DEF PlanInv, PhaseInv, CountInv, BlindInv, LateInv
    <3> QED BY <3>2, <3>3
  <2>3. CASE \/ Monitored /\ \E s \in Samples : See(s, 1, 0) /\ ~TooManyMissed(s) /\ Advance(s)
             \/ /\ ~Monitored
                /\ i' = i + 1 /\ blind' = blind + 1
                /\ UNCHANGED <<pc, code, ready, missed>>
    <3>1. /\ i' = i + 1 /\ UNCHANGED <<pc, code, ready>>
          /\ \/ /\ Monitored
                /\ \/ blind' = 0 /\ missed' = 0
                   \/ blind' = blind + 1 /\ missed' = missed + 1 /\ missed' < plan.misses
             \/ ~Monitored /\ blind' = blind + 1 /\ missed' = missed
      <4>1. plan.misses \in Nat
        BY DEF PlanInv
      <4> QED BY <1>1, <2>3, <4>1 DEF See, Advance, TooManyMissed
    <3>2. BlindInv'
      BY <1>1, <3>1, BlindStep
    <3>3. TypeOK'
      BY <1>1, <2>1, <3>1 DEF TypeOK
    <3>4. PlanInv' /\ PhaseInv' /\ CountInv' /\ LateInv'
      BY <1>1, <2>1, <3>1 DEF PlanInv, PhaseInv, CountInv, LateInv
    <3> QED BY <3>2, <3>3, <3>4
  <2> QED BY <1>3, <2>2, <2>3 DEF Watch
<1> QED BY <1>2, <1>3 DEF Run

\* The end of a motion.
LEMMA FinishKeeps ==
  ASSUME IInv, NEW c \in {0, 1, 130}, Finish(c)
  PROVE  IInv'
<1>1. pc = "move" /\ blind \in Nat
  BY DEF Finish, IInv, TypeOK
<1> QED BY <1>1, DisableKeeps DEF Finish, seen

\* A frame that disables.
LEMMA DisablingKeeps ==
  ASSUME IInv, prog # "probe", Disabling
  PROVE  IInv'
<1> USE DEF IInv
<1>1. /\ pc = "disable" /\ pc' \in {"disable", "exit"} /\ i' = i + 1
      /\ UNCHANGED <<prog, plan, ready, missed, start, stop, code, good, on, blind, late>>
  BY DEF Disabling, seen
<1>2. cmd' = [enabled |-> FALSE, pos |-> cmd.pos, tor |-> 0]
  BY DEF Disabling, PhaseInv
<1>3. TypeOK'
  BY <1>1, <1>2 DEF TypeOK, Phase
<1>4. PlanInv' /\ PhaseInv' /\ CountInv' /\ BlindInv' /\ LateInv'
  BY <1>1, <1>2 DEF PlanInv, PhaseInv, CountInv, BlindInv, LateInv
<1> QED BY <1>3, <1>4

\* The solver throws, in the loop that called it.
LEMMA ThrownKeeps ==
  ASSUME IInv, pc = "move", prog \in {"path", "mock"}, pc' = "thrown", code' = 1, blind' \in Nat,
         UNCHANGED <<prog, plan, i, ready, missed, start, stop, cmd, late, good, on>>
  PROVE  IInv'
<1>1. TypeOK'
  BY DEF IInv, TypeOK, Phase
<1>2. PlanInv' /\ PhaseInv' /\ CountInv' /\ BlindInv' /\ LateInv'
  BY DEF IInv, PlanInv, PhaseInv, CountInv, BlindInv, LateInv
<1> QED BY <1>1, <1>2 DEF IInv

\* Following a path, which may leave its limits or throw.
LEMMA PathMoveKeeps ==
  ASSUME IInv, prog = "path", PathMove
  PROVE  IInv'
<1>1. pc = "move" /\ blind \in Nat
  BY DEF PathMove, Moving, Run, IInv, TypeOK
<1>2. CASE \E pos : Run(pos)
  BY <1>2, RunKeeps
<1>3. CASE Disable(2) /\ UNCHANGED <<prog, plan, start, stop, cmd, late, seen>>
  BY <1>1, <1>3, DisableKeeps DEF seen
<1>4. CASE /\ pc' = "thrown" /\ code' = 1
           /\ UNCHANGED <<prog, plan, i, ready, missed, start, stop, cmd, late, seen>>
  BY <1>1, <1>4, ThrownKeeps DEF seen
<1> QED BY <1>2, <1>3, <1>4 DEF PathMove

\* The mock controller looks before it sends.
LEMMA MockMoveKeeps ==
  ASSUME IInv, prog = "mock", MockMove
  PROVE  IInv'
<1> USE DEF IInv
<1>1. /\ pc = "move" /\ stop = FALSE /\ UNCHANGED <<prog, plan, start, good, on>>
      /\ i \in Nat /\ ready \in Nat /\ missed \in Nat /\ blind \in Nat
      /\ plan.misses \in Nat \ {0} /\ missed < plan.misses /\ blind <= missed + 1
  BY DEF MockMove, Moving, TypeOK, BlindInv, BlindLimit, PlanInv
<1>2. CASE blind' \in Nat /\ UNCHANGED <<stop, cmd, late>> /\ Disable(1)
  BY <1>1, <1>2, DisableKeeps
<1>3. CASE /\ blind' \in Nat /\ pc' = "thrown" /\ code' = 1
           /\ UNCHANGED <<i, ready, missed, stop, cmd, late>>
  BY <1>1, <1>3, ThrownKeeps
<1>4. CASE \E s \in Samples : \E pos :
             /\ ~TooManyMissed(s) /\ See(s, 0, 1) /\ Advance(s)
             /\ SignalBeforeSend /\ SendEnabled(pos, 0)
  <2>0. PICK s \in Samples : \E pos :
          /\ ~TooManyMissed(s) /\ See(s, 0, 1) /\ Advance(s)
          /\ SignalBeforeSend /\ SendEnabled(pos, 0)
    BY <1>4
  <2>1. PICK pos :
          /\ ~TooManyMissed(s) /\ See(s, 0, 1) /\ Advance(s)
          /\ SignalBeforeSend /\ SendEnabled(pos, 0)
    BY <2>0
  <2>2. /\ cmd' = [enabled |-> TRUE, pos |-> pos, tor |-> 0]
        /\ stop' \in BOOLEAN /\ late' = IF stop' THEN 1 ELSE 0
    BY <1>1, <2>1, SendAfterCheck
  <2>3. /\ i' = i + 1 /\ UNCHANGED <<pc, code, ready>>
        /\ missed' \in Nat /\ missed' < plan.misses
        /\ blind' \in Nat /\ blind' <= missed' + 1
    BY <1>1, <2>1 DEF Advance, TooManyMissed, See
  <2>4. TypeOK'
    BY <1>1, <2>2, <2>3 DEF TypeOK
  <2>5. PlanInv' /\ PhaseInv' /\ CountInv' /\ LateInv'
    BY <1>1, <2>2, <2>3 DEF PlanInv, PhaseInv, CountInv, LateInv
  <2>6. BlindInv'
    BY <1>1, <2>3 DEF BlindInv, BlindLimit
  <2> QED BY <2>4, <2>5, <2>6
<1>5. PICK s \in Samples :
        \/ See(s, 0, 0) /\ TooManyMissed(s) /\ Disable(1) /\ UNCHANGED <<stop, cmd, late>>
        \/ See(s, 0, 0) /\ pc' = "thrown" /\ code' = 1 /\ UNCHANGED <<i, ready, missed, stop, cmd, late>>
        \/ /\ ~TooManyMissed(s) /\ See(s, 0, 1) /\ Advance(s)
           /\ SignalBeforeSend /\ SendEnabled(Ramped(MockFinal, i * Period), 0)
        \/ See(s, 0, 0) /\ Disable(1) /\ UNCHANGED <<stop, cmd, late>>
  BY DEF MockMove
<1>6. See(s, 0, 0) => blind' \in Nat
  BY <1>1 DEF See
<1> QED BY <1>2, <1>3, <1>4, <1>5, <1>6

\* Its last sample decides the exit code.
LEMMA MockFinishKeeps ==
  ASSUME IInv, prog = "mock", MockFinish
  PROVE  IInv'
<1>1. pc = "move" /\ blind \in Nat
  BY DEF MockFinish, IInv, TypeOK
<1>2. PICK s \in Samples, imuSeen \in BOOLEAN :
        /\ See(s, 0, 0)
        /\ Disable(IF stop THEN 130 ELSE IF OperationReady(s) /\ imuSeen THEN 0 ELSE 1)
        /\ UNCHANGED <<prog, plan, start, stop, cmd, late, good, on>>
  BY DEF MockFinish
<1>3. blind' \in Nat
  BY <1>1, <1>2 DEF See
<1>4. \E c \in {0, 1, 130} : Disable(c)
  BY <1>2
<1> QED BY <1>1, <1>2, <1>3, <1>4, DisableKeeps

-----------------------------------------------------------------------------
(* The torque probe *)

\* Phases of the probe: what they share is enough for the invariant.
LEMMA ProbeStep ==
  ASSUME IInv, prog = "probe", UNCHANGED <<prog, plan, good, on>>,
         pc \in {"prepare", "arrive", "move", "finish"},
         pc' \in {"prepare", "arrive", "move", "finish", "disable"},
         i' \in Nat, ready' \in Nat, missed' \in Nat, blind' \in Nat, code' \in {0, 1, 2, 130},
         cmd' = [enabled |-> cmd'.enabled, pos |-> cmd'.pos, tor |-> cmd'.tor],
         cmd'.enabled \in BOOLEAN, late' \in Nat, stop' \in BOOLEAN,
         ~stop' => late' = 0,
         pc' \in {"prepare", "arrive"} => late' <= 1,
         pc' \in {"move", "finish"} => late' <= 2,
         late' <= 3
  PROVE  IInv'
<1> USE DEF IInv
<1>1. TypeOK'
  BY DEF TypeOK, Phase
<1>2. PlanInv' /\ PhaseInv' /\ CountInv' /\ BlindInv' /\ LateInv'
  BY DEF PlanInv, PhaseInv, CountInv, BlindInv, LateInv
<1> QED BY <1>1, <1>2

\* waitForActual ends with an operational motor.
LEMMA ProbeWaitKeeps ==
  ASSUME IInv, prog = "probe", ProbeWait
  PROVE  IInv'
<1> USE DEF IInv
<1>1. /\ pc = "settle" /\ UNCHANGED <<prog, plan, stop, cmd, late>> /\ late = 0 /\ ~cmd.enabled
      /\ i \in Nat /\ ready \in Nat /\ missed \in Nat /\ blind \in Nat
      /\ good \in 0 .. ReadySamples /\ on \in 0 .. ReadySamples /\ code \in {0, 1, 2, 130}
  BY DEF ProbeWait, TypeOK, LateInv, PhaseInv
<1>2. CASE i = SettleSamples /\ Exit(1) /\ UNCHANGED <<i, ready, missed, start, seen>>
  <2>1. TypeOK'
    BY <1>1, <1>2 DEF TypeOK, Exit, Phase, seen
  <2>2. PlanInv' /\ PhaseInv' /\ CountInv' /\ BlindInv' /\ LateInv'
    BY <1>1, <1>2 DEF PlanInv, PhaseInv, CountInv, BlindInv, LateInv, Exit, seen
  <2> QED BY <2>1, <2>2
<1>3. ASSUME NEW s \in ProbeSamples, See(s, 0, 0), Count(s),
             \/ ~OperationReady(s) /\ i' = i + 1 /\ UNCHANGED <<pc, ready, missed, start, code>>
             \/ OperationReady(s) /\ Exit(1) /\ UNCHANGED <<i, ready, missed>>
             \/ /\ OperationReady(s) /\ UNCHANGED code
                /\ \E place \in {"prepare", "move"} : Enter(place)
      PROVE  IInv'
  <2>1. /\ blind' \in Nat /\ good' \in 0 .. ReadySamples /\ on' \in 0 .. ReadySamples
        /\ OperationReady(s) => on' > 0
    BY <1>1, <1>3, UptoCounts, CountAssumption DEF See, Count
  <2>2. /\ i' \in Nat /\ ready' \in Nat /\ missed' \in Nat /\ code' \in {0, 1, 2, 130}
        /\ pc' \in {"settle", "exit", "prepare", "move"}
        /\ pc' \in {"prepare", "move"} => on' > 0
    BY <1>1, <1>3, <2>1 DEF Exit, Enter
  <2>3. TypeOK'
    BY <1>1, <2>1, <2>2 DEF TypeOK, Phase
  <2>4. PlanInv' /\ PhaseInv' /\ CountInv' /\ BlindInv' /\ LateInv'
    BY <1>1, <2>2 DEF PlanInv, PhaseInv, CountInv, BlindInv, LateInv
  <2> QED BY <2>3, <2>4
<1>4. CASE \E s \in ProbeSamples :
             /\ See(s, 0, 0) /\ Count(s)
             /\ \/ ~OperationReady(s) /\ i' = i + 1 /\ UNCHANGED <<pc, ready, missed, start, code>>
                \/ /\ OperationReady(s)
                   /\ start' \in Starts
                   /\ LET target == Final(ProbeMotor)' IN
                      IF ~Inside(ProbeMotor, target) THEN Exit(1) /\ UNCHANGED <<i, ready, missed>>
                      ELSE /\ UNCHANGED code
                           /\ Enter(IF Abs(target - start'[ProbeMotor]) > 349 THEN "prepare" ELSE "move")
  BY <1>3, <1>4
<1> QED BY <1>2, <1>4 DEF ProbeWait

\* The other phases of the probe.
LEMMA ProbeKeeps ==
  ASSUME IInv, prog = "probe",
         ProbePrepare \/ ProbeArrive \/ ProbePhase \/ ProbePhasesEnd \/ ProbeFinish
  PROVE  IInv'
<1> USE DEF IInv
<1>1. /\ i \in Nat /\ ready \in Nat /\ missed \in Nat /\ blind \in Nat /\ late \in Nat
      /\ code \in {0, 1, 2, 130} /\ stop \in BOOLEAN /\ cmd.enabled \in BOOLEAN
      /\ cmd = [enabled |-> cmd.enabled, pos |-> cmd.pos, tor |-> cmd.tor]
  BY DEF TypeOK, PhaseInv
<1>2. /\ ~stop => late = 0
      /\ pc \in {"prepare", "arrive"} => late <= 1
      /\ pc \in {"move", "finish"} => late <= 2
  BY DEF LateInv
<1>3. pc \in {"prepare", "arrive", "move", "finish"} =>
        plan.ramp \in Nat /\ plan.extra.samples \in Nat \ {0}
  BY DEF PlanInv
<1>4. CASE ProbePrepare
  <2>1. /\ pc = "prepare" /\ UNCHANGED <<prog, plan, good, on>> /\ plan.ramp \in Nat
    BY <1>3, <1>4 DEF ProbePrepare
  <2>2. CASE stop /\ Enter("arrive") /\ UNCHANGED <<stop, cmd, late, blind, code>>
    BY <1>1, <1>2, <2>1, <2>2, ProbeStep DEF Enter
  <2>3. CASE \E pos : /\ ~stop /\ SignalBeforeSend /\ ProbeSend(pos, 0)
                      /\ \E s \in ProbeSamples :
                           /\ See(s, 1, 0)
                           /\ \/ s[ProbeMotor] # "lost" /\ Disable(1)
                              \/ i < plan.ramp /\ i' \in i + 1 .. plan.ramp /\ UNCHANGED <<pc, ready, missed, code>>
                              \/ i = plan.ramp /\ Enter("arrive") /\ UNCHANGED code
    <3>1. /\ stop' \in BOOLEAN /\ late' = (IF stop' THEN 1 ELSE 0)
          /\ cmd'.enabled \in BOOLEAN
          /\ cmd' = [enabled |-> cmd'.enabled, pos |-> cmd'.pos, tor |-> cmd'.tor]
      <4>1. PICK pos : ~stop /\ SignalBeforeSend /\ ProbeSend(pos, 0)
        BY <2>3
      <4>2. /\ cmd' = [enabled |-> TRUE, pos |-> [m \in {ProbeMotor} |-> pos], tor |-> 0]
            /\ stop' \in BOOLEAN /\ late' = IF stop' THEN 1 ELSE 0
        BY <4>1, SendAfterCheck DEF ProbeSend
      <4> QED BY <4>2
    <3>2. blind' \in Nat
      BY <1>1, <2>3 DEF See
    <3>3. /\ pc' \in {"prepare", "arrive", "disable"} /\ i' \in Nat /\ ready' \in Nat
          /\ missed' \in Nat /\ code' \in {0, 1, 2, 130}
      BY <1>1, <2>1, <2>3 DEF Disable, Enter
    <3>4. late' \in Nat /\ late' <= 1 /\ late' <= 2 /\ late' <= 3
      BY <3>1
    <3> HIDE DEF IInv
    <3> QED BY <2>1, <3>1, <3>2, <3>3, <3>4, ProbeStep
  <2> QED BY <1>4, <2>2, <2>3, Zenon DEF ProbePrepare
<1>5. CASE ProbeArrive
  <2>1. /\ pc = "arrive" /\ UNCHANGED <<prog, plan, stop, good, on, code>>
        /\ late' \in Nat /\ late' <= 2 /\ late' <= 3 /\ (~stop => late' = 0)
        /\ cmd' = [enabled |-> cmd'.enabled, pos |-> cmd'.pos, tor |-> cmd'.tor]
        /\ cmd'.enabled \in BOOLEAN /\ blind' \in Nat
        /\ pc' = "move" /\ i' = 0 /\ ready' = 0 /\ missed' = 0
    BY <1>1, <1>2, <1>5 DEF ProbeArrive, ProbeSend, SendEnabled, Enter
  <2> HIDE DEF IInv
  <2> QED BY <1>1, <2>1, ProbeStep
<1>6. CASE ProbePhase
  <2>1. /\ pc = "move" /\ stop = FALSE /\ UNCHANGED <<prog, plan, good, on>>
        /\ plan.extra.samples \in Nat \ {0}
    BY <1>1, <1>3, <1>6 DEF ProbePhase, Moving
  <2> DEFINE phase == i \div plan.extra.samples
  <2>2. /\ SignalBeforeSend
        /\ ProbeSend(Final(ProbeMotor),
                     Phases(plan.extra.ff, plan.extra.step, plan.extra.min)[phase + 1])
        /\ \E s \in ProbeSamples :
             /\ See(s, 1, 0)
             /\ \/ s[ProbeMotor] # "lost" /\ Enter("finish") /\ code' = 1
                \/ /\ i' \in {i + 1, (phase + 1) * plan.extra.samples}
                   /\ UNCHANGED <<pc, ready, missed, code>>
    BY <1>6, Zenon DEF ProbePhase
  <2>3. phase \in Nat /\ (phase + 1) * plan.extra.samples \in Nat
    <3>1. phase \in Nat
      BY <1>1, <2>1
    <3> HIDE DEF phase
    <3>2. phase + 1 \in Nat
      BY <3>1
    <3> QED BY <2>1, <3>1, <3>2, Products
  <2> HIDE DEF phase
  <2>4. /\ stop' \in BOOLEAN /\ late' = (IF stop' THEN 1 ELSE 0)
        /\ cmd'.enabled \in BOOLEAN
        /\ cmd' = [enabled |-> cmd'.enabled, pos |-> cmd'.pos, tor |-> cmd'.tor]
        /\ blind' \in Nat
    <3>1. PICK pos, tor : ProbeSend(pos, tor)
      BY <2>2
    <3>2. /\ cmd' = [enabled |-> TRUE, pos |-> [m \in {ProbeMotor} |-> pos], tor |-> tor]
          /\ stop' \in BOOLEAN /\ late' = IF stop' THEN 1 ELSE 0
      BY <2>1, <2>2, <3>1, SendAfterCheck DEF ProbeSend
    <3>3. blind' \in Nat
      BY <1>1, <2>2 DEF See
    <3> QED BY <3>2, <3>3
  <2>5. /\ pc' \in {"move", "finish"} /\ i' \in Nat /\ ready' \in Nat
        /\ missed' \in Nat /\ code' \in {0, 1, 2, 130}
    BY <1>1, <2>1, <2>2, <2>3 DEF Enter
  <2>6. late' \in Nat /\ late' <= 1 /\ late' <= 2 /\ late' <= 3
    BY <2>4
  <2> HIDE DEF IInv
  <2> QED BY <2>1, <2>4, <2>5, <2>6, ProbeStep
<1>7. CASE ProbePhasesEnd
  <2>1. /\ pc = "move" /\ pc' = "finish" /\ i' = 0 /\ ready' = 0 /\ missed' = 0
        /\ UNCHANGED <<prog, plan, stop, cmd, late, good, on, blind, code>>
    BY <1>7 DEF ProbePhasesEnd, Enter, seen
  <2> QED BY <1>1, <1>2, <2>1, ProbeStep
<1>8. CASE ProbeFinish
  <2>1. /\ pc = "finish" /\ UNCHANGED <<prog, plan, stop, good, on, code>>
        /\ late' \in Nat /\ late' <= 3 /\ (~stop => late' = 0)
        /\ cmd' = [enabled |-> cmd'.enabled, pos |-> cmd'.pos, tor |-> cmd'.tor]
        /\ cmd'.enabled \in BOOLEAN /\ blind' \in Nat
        /\ pc' = "disable" /\ i' = 0 /\ ready' = 0 /\ missed' = 0
    BY <1>1, <1>2, <1>8 DEF ProbeFinish, ProbeSend, SendEnabled, Enter
  <2> QED BY <1>1, <2>1, ProbeStep
<1> QED BY <1>4, <1>5, <1>6, <1>7, <1>8

\* Its only disabling frame.
LEMMA ProbeDisableKeeps ==
  ASSUME IInv, prog = "probe", ProbeDisable
  PROVE  IInv'
<1> USE DEF IInv
<1>1. /\ pc = "disable" /\ pc' = "exit" /\ code' \in {0, 1, 2, 130}
      /\ UNCHANGED <<prog, plan, i, ready, missed, start, stop, good, on, blind, late>>
  BY DEF ProbeDisable, Exit, seen, TypeOK
<1>2. cmd' = [enabled |-> FALSE, pos |-> cmd.pos, tor |-> 0]
  BY DEF ProbeDisable, PhaseInv
<1>3. TypeOK'
  BY <1>1, <1>2 DEF TypeOK, Phase
<1>4. PlanInv' /\ PhaseInv' /\ CountInv' /\ BlindInv' /\ LateInv'
  BY <1>1, <1>2 DEF PlanInv, PhaseInv, CountInv, BlindInv, LateInv
<1> QED BY <1>3, <1>4

-----------------------------------------------------------------------------
(* Ramps stay between their ends *)

\* Products of numbers that are not negative.
LEMMA Product ==
  ASSUME NEW a \in Int, NEW b \in Int, 0 <= a, 0 <= b
  PROVE  a * b \in Int /\ 0 <= a * b
OBVIOUS

\* Products grow with their factors.
LEMMA Grows ==
  ASSUME NEW a \in Int, NEW b \in Int, NEW c \in Int, a <= b, 0 <= c
  PROVE  a * c \in Int /\ b * c \in Int /\ a * c <= b * c
<1>1. (b - a) * c = b * c - a * c
  OBVIOUS
<1>2. 0 <= (b - a) * c
  BY Product
<1> QED BY <1>1, <1>2

\* A quotient is between zero and the greatest number it may be.
LEMMA QuotientBounds ==
  ASSUME NEW x \in Int, NEW n \in Nat \ {0}, NEW k \in Int
  PROVE  /\ x \div n \in Int
         /\ 0 <= x => 0 <= x \div n
         /\ x <= k * n => x \div n <= k
         /\ k * n <= x => k <= x \div n
         /\ x < k * n => x \div n < k
<1> DEFINE q == x \div n
           r == x % n
<1>1. q \in Int /\ r \in Int /\ 0 <= r /\ r < n /\ x = n * q + r
  OBVIOUS
<1> HIDE DEF q, r
<1>2. ASSUME NEW a \in Int, NEW b \in Int, a + 1 <= b PROVE a * n + n <= b * n
  <2>1. (a + 1) * n <= b * n
    BY <1>2, Grows
  <2> QED BY <1>2, <2>1
<1>3. ASSUME 0 <= x PROVE 0 <= q
  <2>1. CASE q <= -1
    <3>1. q * n + n <= 0 * n
      BY <1>1, <1>2, <2>1
    <3> QED BY <1>1, <1>3, <3>1
  <2> QED BY <1>1, <2>1
<1>4. ASSUME x <= k * n PROVE q <= k
  <2>1. CASE k + 1 <= q
    <3>1. k * n + n <= q * n
      BY <1>1, <1>2, <2>1
    <3>2. x >= q * n
      BY <1>1
    <3>3. k * n \in Int /\ q * n \in Int
      BY <1>1
    <3> QED BY <1>1, <1>4, <3>1, <3>2, <3>3
  <2> QED BY <1>1, <2>1
<1>5. ASSUME k * n <= x PROVE k <= q
  <2>1. CASE q + 1 <= k
    <3>1. q * n + n <= k * n
      BY <1>1, <1>2, <2>1
    <3>2. x < q * n + n
      BY <1>1
    <3>3. k * n \in Int /\ q * n \in Int
      BY <1>1
    <3> QED BY <1>1, <1>5, <3>1, <3>2, <3>3
  <2> QED BY <1>1, <2>1
<1>6. ASSUME x < k * n PROVE q < k
  <2>1. CASE k <= q
    <3>1. k * n <= q * n
      BY <1>1, <2>1, Grows
    <3>2. x >= q * n
      BY <1>1
    <3>3. k * n \in Int /\ q * n \in Int
      BY <1>1
    <3> QED BY <1>1, <1>6, <3>1, <3>2, <3>3
  <2> QED BY <1>1, <2>1
<1> QED BY <1>1, <1>3, <1>4, <1>5, <1>6 DEF q

\* The smooth ramp begins at nothing and never passes its end.
LEMMA ProgressBounds ==
  ASSUME NEW t \in Int
  PROVE  /\ Progress(t) \in Int
         /\ 0 <= t /\ t <= 100 => 0 <= Progress(t) /\ Progress(t) <= 10000
<1> DEFINE cube == t * t * t
           curve == 100000 - 1500 * t + 6 * t * t
           d == cube \div 100
<1>1. cube \in Int /\ curve \in Int /\ d \in Int
  OBVIOUS
<1>2. Progress(t) = (d * curve) \div 10000
  BY DEF Progress
<1>3. d * curve \in Int
  <2> HIDE DEF d, curve
  <2> QED BY <1>1
<1>4. Progress(t) \in Int
  <2> HIDE DEF d, curve
  <2> QED BY <1>2, <1>3
<1>5. ASSUME 0 <= t, t <= 100 PROVE 0 <= Progress(t) /\ Progress(t) <= 10000
  <2>1. 0 <= cube
    <3>1. t * t \in Int /\ 0 <= t * t
      BY <1>5, Product
    <3> QED BY <1>5, <3>1, Product
  <2>2. 0 <= curve
    <3>1. 6 * curve = (6 * t - 750) * (6 * t - 750) + 37500
      OBVIOUS
    <3>2. (6 * t - 750) * (6 * t - 750) >= 0
      OBVIOUS
    <3> HIDE DEF curve
    <3> QED BY <1>1, <3>1, <3>2
  <2>3. 0 <= d /\ 100 * d <= cube
    <3> HIDE DEF cube
    <3> QED BY <1>1, <2>1
  <2>4. cube * curve <= 10000000000
    <3> DEFINE u == 100 - t
               rest == 10000 + 300 * t + 6 * t * t
    <3>1. 10000000000 - cube * curve = (u * u * u) * rest
      OBVIOUS
    <3>2. u \in Int /\ 0 <= u
      BY <1>5
    <3>3. u * u * u \in Int /\ 0 <= u * u * u
      <4> HIDE DEF u
      <4>1. u * u \in Int /\ 0 <= u * u
        BY <3>2, Product
      <4> QED BY <3>2, <4>1, Product
    <3>4. rest \in Int /\ 0 <= rest
      <4>1. t * t \in Int /\ 0 <= t * t
        BY <1>5, Product
      <4>2. 6 * t * t = 6 * (t * t)
        OBVIOUS
      <4> QED BY <1>5, <4>1, <4>2
    <3> HIDE DEF u, rest
    <3>5. 0 <= (u * u * u) * rest
      BY <3>3, <3>4, Product
    <3>6. cube * curve \in Int
      <4> HIDE DEF cube, curve
      <4> QED BY <1>1
    <3> HIDE DEF cube, curve
    <3> QED BY <3>1, <3>5, <3>6
  <2> HIDE DEF cube, curve, d
  <2>5. (100 * d) * curve <= cube * curve
    BY <1>1, <2>2, <2>3, Grows
  <2>6. (100 * d) * curve = 100 * (d * curve)
    BY <1>1
  <2>7. d * curve <= 10000 * 10000
    BY <1>1, <1>3, <2>4, <2>5, <2>6
  <2>8. 0 <= d * curve
    BY <1>1, <2>2, <2>3, Product
  <2> QED BY <1>2, <1>3, <2>7, <2>8, QuotientBounds
<1> QED BY <1>4, <1>5

\* p of n parts of the way from a to b are between them.
LEMMA PartOfTheWay ==
  ASSUME NEW a \in Int, NEW b \in Int, NEW p \in Int, NEW n \in Nat \ {0}
  PROVE  /\ a + ((b - a) * p) \div n \in Int
         /\ 0 <= p /\ p <= n =>
              IF a <= b THEN a <= a + ((b - a) * p) \div n /\ a + ((b - a) * p) \div n <= b
                        ELSE b <= a + ((b - a) * p) \div n /\ a + ((b - a) * p) \div n <= a
<1> DEFINE d == b - a
           q == (d * p) \div n
<1>1. d \in Int /\ d * p \in Int
  OBVIOUS
<1>2. q \in Int
  <2> HIDE DEF d
  <2> QED BY <1>1, QuotientBounds
<1>3. ASSUME 0 <= p, p <= n, a <= b PROVE 0 <= q /\ q <= d
  <2>1. 0 <= d
    BY <1>3
  <2> HIDE DEF d
  <2>2. 0 <= d * p
    BY <1>1, <1>3, <2>1, Product
  <2>3. p * d <= n * d
    BY <1>1, <1>3, <2>1, Grows
  <2>4. d * p <= d * n
    BY <1>1, <2>3
  <2> QED BY <1>1, <2>2, <2>4, QuotientBounds
<1>4. ASSUME 0 <= p, p <= n, b < a PROVE d <= q /\ q <= 0
  <2> DEFINE e == -d
  <2>1. e \in Int /\ 0 <= e
    BY <1>4
  <2>2. d = -e
    OBVIOUS
  <2> HIDE DEF d, e
  <2>3. p * e <= n * e
    BY <1>4, <2>1, Grows
  <2>4. 0 <= e * p
    BY <1>4, <2>1, Product
  <2>5. /\ d * p = -(e * p) /\ e * p = p * e /\ d * n = -(n * e)
        /\ e * p \in Int /\ n * e \in Int /\ 0 * n = 0
    BY <2>1, <2>2
  <2>6. d * n <= d * p /\ d * p <= 0 * n
    BY <2>3, <2>4, <2>5
  <2> QED BY <1>1, <2>6, QuotientBounds
<1> HIDE DEF q
<1>5. (a + q \in Int) /\ (0 <= p /\ p <= n => IF a <= b THEN a <= a + q /\ a + q <= b
                                                        ELSE b <= a + q /\ a + q <= a)
  BY <1>1, <1>2, <1>3, <1>4
<1> QED BY <1>5 DEF q

\* Progress is counted in 1/10000.
LEMMA BetweenEnds ==
  ASSUME NEW a \in Int, NEW b \in Int, NEW p \in Int
  PROVE  /\ Between(a, b, p) \in Int
         /\ 0 <= p /\ p <= 10000 =>
              IF a <= b THEN a <= Between(a, b, p) /\ Between(a, b, p) <= b
                        ELSE b <= Between(a, b, p) /\ Between(a, b, p) <= a
BY PartOfTheWay DEF Between

\* So is a ramp, whatever time has passed.
LEMMA RampProgressBounds ==
  ASSUME NEW elapsed \in Nat, NEW ramp \in Nat
  PROVE  /\ RampProgress(elapsed, ramp) \in Int
         /\ 0 <= RampProgress(elapsed, ramp) /\ RampProgress(elapsed, ramp) <= 10000
<1>1. CASE ramp <= 0
  BY <1>1 DEF RampProgress
<1>2. CASE ramp > 0
  <2> DEFINE h == (100 * elapsed) \div ramp
             t == Min({100, h})
  <2>1. 100 * elapsed \in Int /\ 0 <= 100 * elapsed
    OBVIOUS
  <2>2. h \in Int /\ 0 <= h
    BY <1>2, <2>1, QuotientBounds
  <2> HIDE DEF h
  <2>3. t \in Int /\ 0 <= t /\ t <= 100
    BY <2>2, MinOfTwo
  <2>4. RampProgress(elapsed, ramp) = Progress(t)
    BY <1>2 DEF RampProgress, h
  <2> HIDE DEF t
  <2> QED BY <2>3, <2>4, ProgressBounds
<1> QED BY <1>1, <1>2

-----------------------------------------------------------------------------
(* Joint paths and the policy give joint angles *)

\* Angles of the joints of a leg.
JointSet == [hip : Int, knee : Int, pitch : Int, roll : Int]

\* The kinematics give numbers, if they give anything.
SolveGivesNumbers ==
  \A j \in JointSet : Solvable(j) => \A m \in DOMAIN Solve(j) : Solve(j)[m] \in Int

\* Points of a path, and one that takes time.
Timed == [ms : Int, joints : JointSet]

GoodPath(path) ==
  /\ path \in Seq(Timed)
  /\ path # <<>>
  /\ path[Len(path)].ms > 0
  /\ \A k \in 2 .. Len(path) : path[k - 1].ms < path[k].ms

\* Four angles are one of them.
LEMMA JointsInSet ==
  ASSUME NEW hip \in Int, NEW knee \in Int, NEW pitch \in Int, NEW roll \in Int
  PROVE  Joints(hip, knee, pitch, roll) \in JointSet
BY DEF Joints, JointSet

\* A way there and back.
LEMMA SwingIsPath ==
  ASSUME NEW ms \in Nat \ {0}, NEW from \in JointSet, NEW to \in JointSet
  PROVE  /\ Swing(ms, from, to) \in Seq(Timed) /\ Swing(ms, from, to) # <<>>
         /\ Swing(ms, from, to)[Len(Swing(ms, from, to))].ms > 0
<1> DEFINE half == ms \div 2
<1>1. half \in Int
  OBVIOUS
<1> HIDE DEF half
<1>2. At(0, from) \in Timed /\ At(half, to) \in Timed /\ At(ms, from) \in Timed
  BY <1>1 DEF At, Timed
<1>3. Swing(ms, from, to) = <<At(0, from), At(half, to), At(ms, from)>>
  BY DEF Swing, half
<1>4. At(ms, from).ms = ms
  BY DEF At
<1> QED BY <1>2, <1>3, <1>4

\* A path over a table of angles.
LEMMA RollSwingIsPath ==
  ASSUME NEW step \in Nat \ {0}
  PROVE  /\ RollSwing(step) \in Seq(Timed) /\ RollSwing(step) # <<>>
         /\ RollSwing(step)[Len(RollSwing(step))].ms > 0
<1> DEFINE Angle(k) == <<0, 3500, -3500, 0>>[k]
           Point(k) == At((k - 1) * step, Joints(3500, -7000, 1750, Angle(k)))
<1>1. ASSUME NEW k \in 1 .. 4 PROVE Point(k) \in Timed /\ Point(k).ms = (k - 1) * step
  <2>1. Angle(k) \in Int
    <3>1. k = 1 \/ k = 2 \/ k = 3 \/ k = 4
      OBVIOUS
    <3> QED BY <3>1
  <2> HIDE DEF Angle
  <2>2. Joints(3500, -7000, 1750, Angle(k)) \in JointSet
    BY <2>1, JointsInSet
  <2>3. (k - 1) * step \in Int
    OBVIOUS
  <2> QED BY <2>2, <2>3 DEF At, Timed
<1>2. RollSwing(step) = [k \in 1 .. 4 |-> Point(k)]
  BY DEF RollSwing
<1> HIDE DEF Point
<1>3. RollSwing(step) \in Seq(Timed) /\ Len(RollSwing(step)) = 4
  BY <1>1, <1>2
<1>4. RollSwing(step)[4].ms = 3 * step /\ 3 * step > 0
  BY <1>1, <1>2
<1>5. RollSwing(step) # <<>>
  <2>1. Len(<<>>) # 4
    OBVIOUS
  <2> QED BY <1>3, <2>1, Zenon
<1> QED BY <1>3, <1>4, <1>5

LEMMA KneeRangeIsPath ==
  ASSUME NEW step \in Nat \ {0}
  PROVE  /\ KneeRange(step) \in Seq(Timed) /\ KneeRange(step) # <<>>
         /\ KneeRange(step)[Len(KneeRange(step))].ms > 0
<1> DEFINE Angle(k) == <<0, -3000, -6000, -9000, -12000, -9000, -6000, -3000, 0>>[k]
           Point(k) == At((k - 1) * step, Joints(3500, Angle(k), 3500, 0))
<1>1. ASSUME NEW k \in 1 .. 9 PROVE Point(k) \in Timed /\ Point(k).ms = (k - 1) * step
  <2>1. Angle(k) \in Int
    <3>1. k = 1 \/ k = 2 \/ k = 3 \/ k = 4 \/ k = 5 \/ k = 6 \/ k = 7 \/ k = 8 \/ k = 9
      OBVIOUS
    <3> QED BY <3>1
  <2> HIDE DEF Angle
  <2>2. Joints(3500, Angle(k), 3500, 0) \in JointSet
    BY <2>1, JointsInSet
  <2>3. (k - 1) * step \in Int
    OBVIOUS
  <2> QED BY <2>2, <2>3 DEF At, Timed
<1>2. KneeRange(step) = [k \in 1 .. 9 |-> Point(k)]
  BY DEF KneeRange
<1> HIDE DEF Point
<1>3. KneeRange(step) \in Seq(Timed) /\ Len(KneeRange(step)) = 9
  BY <1>1, <1>2
<1>4. KneeRange(step)[9].ms = 8 * step /\ 8 * step > 0
  BY <1>1, <1>2
<1>5. KneeRange(step) # <<>>
  <2>1. Len(<<>>) # 9
    OBVIOUS
  <2> QED BY <1>3, <2>1, Zenon
<1> QED BY <1>3, <1>4, <1>5

\* Every path a mode names takes some time and is made of angles.
LEMMA PathsAreGood ==
  ASSUME NEW mode \in PathModes, NEW ms \in Nat \ {0}, ValidPath(PathForMode(mode, ms))
  PROVE  GoodPath(PathForMode(mode, ms))
<1> DEFINE Fine(path) == path \in Seq(Timed) /\ path # <<>> /\ path[Len(path)].ms > 0
<1>1. ASSUME NEW t \in Nat \ {0}, NEW from \in JointSet, NEW to \in JointSet
      PROVE  Fine(Swing(t, from, to))
  BY <1>1, SwingIsPath
<1>2. ASSUME NEW t \in Nat \ {0} PROVE Fine(RollSwing(t)) /\ Fine(KneeRange(t))
  BY <1>2, RollSwingIsPath, KneeRangeIsPath
<1> HIDE DEF Fine
<1>3. ASSUME NEW t \in Nat \ {0}, NEW deep \in Int
      PROVE  /\ Fine(AnklePitchSwing(t)) /\ Fine(KneeAnkleSwing(t))
             /\ Fine(KneePitchSwing(t, deep)) /\ Fine(Squat(t))
  <2>1. /\ Joints(3500, -7000, 0, 0) \in JointSet /\ Joints(3500, -7000, 3500, 0) \in JointSet
        /\ Joints(3500, -10000, 0, 0) \in JointSet /\ Joints(3500, 0, 3500, 0) \in JointSet
        /\ Joints(3500, deep, 3500, 0) \in JointSet /\ Joints(5000, -10000, 3800, 0) \in JointSet
    BY <1>3, JointsInSet
  <2> QED BY <1>1, <1>3, <2>1 DEF AnklePitchSwing, KneeAnkleSwing, KneePitchSwing, Squat
<1>4. CASE mode = "demo"
  <2>1. Joints(3500, -7000, 3500, 0) \in JointSet /\ Joints(3700, -6800, 3300, 200) \in JointSet
    BY JointsInSet
  <2>2. PathForMode(mode, ms)
          = Swing(ms, Joints(3500, -7000, 3500, 0), Joints(3700, -6800, 3300, 200))
    BY <1>4 DEF PathForMode
  <2>3. Fine(PathForMode(mode, ms))
    BY <1>1, <2>1, <2>2
  <2> QED BY <2>3 DEF Fine, GoodPath, ValidPath
<1>5. CASE mode \in {"ankle_pitch_swing", "squat"}
  <2>1. Fine(PathForMode(mode, ms))
    BY <1>3, <1>5 DEF PathForMode
  <2> QED BY <2>1 DEF Fine, GoodPath, ValidPath
<1>6. CASE mode \in DOMAIN RepeatedPaths
  <2>1. PathForMode(mode, ms) = RepeatedPaths[mode]
    BY <1>6 DEF PathForMode, RepeatedPaths
  <2>2. Fine(RepeatedPaths[mode])
    BY <1>2, <1>3, <1>6 DEF RepeatedPaths
  <2> QED BY <2>1, <2>2 DEF Fine, GoodPath, ValidPath
<1> QED BY <1>4, <1>5, <1>6 DEF PathModes

\* A set of positive numbers that is not empty has a smallest element.
LEMMA MinOf ==
  ASSUME NEW S, NEW n \in Nat, S \subseteq 1 .. n, NEW x \in S
  PROVE  Min(S) \in S /\ \A y \in S : Min(S) <= y
<1> DEFINE Less == {r \in Nat \X Nat : r[1] < r[2]}
<1>1. IsWellFoundedOn(Less, Nat)
  BY NatLessThanWellFounded DEF OpToRel
<1> HIDE DEF Less
<1>2. PICK m \in S : \A y \in S : ~(<<y, m>> \in Less)
  <2>1. S \subseteq Nat /\ S # {}
    OBVIOUS
  <2> QED BY <1>1, <2>1, WFMin
<1>3. ASSUME NEW y \in S PROVE m <= y
  <2>1. y \in Nat /\ m \in Nat /\ <<y, m>> \notin Less
    BY <1>2
  <2>2. y < m => <<y, m>> \in Less
    BY <2>1 DEF Less
  <2> QED BY <2>1, <2>2
<1> QED BY <1>3 DEF Min

LEMMA BetweenInt == \A a, b, p \in Int : Between(a, b, p) \in Int
BY BetweenEnds

\* Whenever it is sampled, a path gives angles.
LEMMA SamplesAreJoints ==
  ASSUME NEW path, GoodPath(path), NEW ms \in Int
  PROVE  SamplePath(path, ms) \in JointSet
<1> DEFINE later == {n \in DOMAIN path : ms <= path[n].ms}
           k == Min(later)
           from == path[k - 1].joints
           to == path[k].joints
           length == path[k].ms - path[k - 1].ms
           t == (100 * (ms - path[k - 1].ms)) \div length
           part == [j \in DOMAIN to |-> Between(from[j], to[j], Progress(t))]
<1>1. /\ Len(path) \in Nat \ {0}
      /\ DOMAIN path = 1 .. Len(path)
      /\ \A n \in 1 .. Len(path) : path[n].ms \in Int /\ path[n].joints \in JointSet
  <2>1. path \in Seq(Timed) /\ path # <<>>
    BY DEF GoodPath
  <2>2. \A n \in 1 .. Len(path) : path[n] \in Timed
    BY <2>1
  <2> QED BY <2>1, <2>2 DEF Timed
<1>2. SamplePath(path, ms) = CASE later = {} -> path[Len(path)].joints
                               [] later # {} /\ k = 1 -> path[1].joints
                               [] OTHER -> part
  BY DEF SamplePath
<1>3. ASSUME later # {} PROVE k \in later
  <2>1. PICK x : x \in later
    BY <1>3
  <2>2. later \subseteq 1 .. Len(path)
    BY <1>1
  <2> HIDE DEF later
  <2> QED BY <1>1, <2>1, <2>2, MinOf
<1>4. later \subseteq 1 .. Len(path)
  BY <1>1
<1> HIDE DEF later, k
<1>5. ASSUME later # {}, k # 1 PROVE part \in JointSet
  <2>1. k \in 2 .. Len(path) /\ k - 1 \in 1 .. Len(path) /\ k \in 1 .. Len(path)
    <3>1. k \in 1 .. Len(path)
      BY <1>3, <1>4, <1>5
    <3>2. k \in Int /\ 1 <= k /\ k <= Len(path)
      BY <1>1, <3>1
    <3> QED BY <1>1, <1>5, <3>2
  <2>2. /\ from \in JointSet /\ to \in JointSet
        /\ path[k - 1].ms \in Int /\ path[k].ms \in Int /\ path[k - 1].ms < path[k].ms
    BY <1>1, <2>1 DEF GoodPath
  <2>3. length \in Nat \ {0} /\ 100 * (ms - path[k - 1].ms) \in Int
    BY <2>2
  <2> HIDE DEF from, to, length
  <2>4. t \in Int
    BY <2>3
  <2> HIDE DEF t
  <2>5. Progress(t) \in Int
    BY <2>4, ProgressBounds
  <2>6. DOMAIN to = {"hip", "knee", "pitch", "roll"} /\ DOMAIN from = DOMAIN to
    BY <2>2 DEF JointSet
  <2>7. \A j \in DOMAIN to : from[j] \in Int /\ to[j] \in Int
    BY <2>2 DEF JointSet
  <2>8. \A j \in DOMAIN to : Between(from[j], to[j], Progress(t)) \in Int
    BY <2>5, <2>7, BetweenInt, Zenon
  <2> QED BY <2>6, <2>8 DEF JointSet
<1> HIDE DEF part
<1>6. path[Len(path)].joints \in JointSet /\ path[1].joints \in JointSet
  <2>1. Len(path) \in 1 .. Len(path) /\ 1 \in 1 .. Len(path)
    BY <1>1
  <2> QED BY <1>1, <2>1
<1> QED BY <1>2, <1>5, <1>6

\* So does the policy, at any time.
LEMMA ActionsAreJoints ==
  ASSUME NEW ms \in Int
  PROVE  MockAction(ms) \in JointSet
<1> DEFINE x == ((ms % 2000) * 180) \div 2000
           below == 40500 - x * (180 - x)
           half == (400 * x * (180 - x)) \div below
<1>1. x \in Int
  OBVIOUS
<1> HIDE DEF x
<1>2. below \in Nat \ {0}
  <2>1. below = (x - 90) * (x - 90) + 32400
    BY <1>1
  <2>2. 0 <= (x - 90) * (x - 90) /\ (x - 90) * (x - 90) \in Int
    BY <1>1
  <2> QED BY <2>1, <2>2
<1>3. 400 * x * (180 - x) \in Int
  BY <1>1
<1> HIDE DEF below
<1>4. half \in Int
  BY <1>2, <1>3, QuotientBounds
<1>5. Wave(ms) = half \/ Wave(ms) = -half
  BY DEF Wave, x, below, half
<1> HIDE DEF half
<1>6. Wave(ms) \in Int
  BY <1>4, <1>5
<1> QED BY <1>6, JointsInSet DEF MockAction

-----------------------------------------------------------------------------
(* Theorems *)

\* One program at a time.
LEMMA NextKeeps == IInv /\ [Next]_vars => IInv'
<1> SUFFICES ASSUME IInv, [Next]_vars PROVE IInv'
  OBVIOUS
<1>1. CASE RequestStop \/ UNCHANGED vars
  BY <1>1, RequestStopKeeps
<1>2. CASE Hold
  <2>1. ASSUME Begin("hold", HoldArgs) PROVE IInv'
    BY <2>1, AcceptedFits, BeginKeeps DEF Programs
  <2>2. ASSUME prog = "hold", HoldSettle \/ HoldEnable \/ HoldMove \/ HoldFinish PROVE IInv'
    BY <2>2, SettleKeeps, EnableKeeps, RunKeeps, FinishKeeps
       DEF HoldSettle, HoldEnable, HoldMove, HoldFinish
  <2> QED BY <1>2, <2>1, <2>2 DEF Hold
<1>3. CASE Position
  <2>1. ASSUME Begin("position", PositionArgs) PROVE IInv'
    BY <2>1, AcceptedFits, BeginKeeps DEF Programs
  <2>2. ASSUME prog = "position", PositionSettle \/ PositionEnable \/ PositionMove \/ PositionFinish
        PROVE  IInv'
    BY <2>2, SettleKeeps, EnableKeeps, RunKeeps, FinishKeeps
       DEF PositionSettle, PositionEnable, PositionMove, PositionFinish
  <2> QED BY <1>3, <2>1, <2>2 DEF Position
<1>4. CASE Path
  <2>1. ASSUME Begin("path", PathArgs) PROVE IInv'
    BY <2>1, AcceptedFits, BeginKeeps DEF Programs
  <2>2. ASSUME prog = "path", PathSettle \/ PathEnable \/ PathMove \/ PathFinish PROVE IInv'
    BY <2>2, PathSettleKeeps, EnableKeeps, PathMoveKeeps, FinishKeeps DEF PathEnable, PathFinish
  <2> QED BY <1>4, <2>1, <2>2 DEF Path
<1>5. CASE Joint
  <2>1. ASSUME Begin("joint", JointArgs) PROVE IInv'
    BY <2>1, AcceptedFits, BeginKeeps DEF Programs
  <2>2. ASSUME prog = "joint", JointSettle \/ JointEnable \/ JointMove \/ JointFinish PROVE IInv'
    BY <2>2, SettleKeeps, EnableKeeps, RunKeeps, FinishKeeps
       DEF JointSettle, JointEnable, JointMove, JointFinish
  <2> QED BY <1>5, <2>1, <2>2 DEF Joint
<1>6. CASE Mock
  <2>1. ASSUME Begin("mock", MockArgs) PROVE IInv'
    BY <2>1, AcceptedFits, BeginKeeps DEF Programs
  <2>2. ASSUME prog = "mock", MockSettle \/ MockEnable \/ MockMove \/ MockFinish PROVE IInv'
    BY <2>2, SettleKeeps, EnableKeeps, MockMoveKeeps, MockFinishKeeps DEF MockSettle, MockEnable
  <2> QED BY <1>6, <2>1, <2>2 DEF Mock
<1>7. CASE Fit
  <2>1. ASSUME Begin("fit", FitArgs) PROVE IInv'
    BY <2>1, AcceptedFits, BeginKeeps DEF Programs
  <2>2. ASSUME prog = "fit", FitSettle \/ FitEnable \/ FitMove \/ FitFinish PROVE IInv'
    BY <2>2, SettleKeeps, EnableKeeps, RunKeeps, FinishKeeps
       DEF FitSettle, FitEnable, FitMove, FitFinish
  <2> QED BY <1>7, <2>1, <2>2 DEF Fit
<1>8. CASE Probe
  <2>1. ASSUME Begin("probe", ProbeArgs) PROVE IInv'
    BY <2>1, AcceptedFits, BeginKeeps DEF Programs
  <2>2. ASSUME prog = "probe",
               ProbeWait \/ ProbeDisable \/
               (ProbePrepare \/ ProbeArrive \/ ProbePhase \/ ProbePhasesEnd \/ ProbeFinish)
        PROVE  IInv'
    BY <2>2, ProbeWaitKeeps, ProbeKeeps, ProbeDisableKeeps
  <2> QED BY <1>8, <2>1, <2>2 DEF Probe
<1>9. CASE prog # "probe" /\ Disabling
  BY <1>9, DisablingKeeps
<1>10. CASE Jump
  <2>1. ASSUME Begin("jump", JumpArgs) PROVE IInv'
    BY <2>1, AcceptedFits, BeginKeeps DEF Programs
  <2>2. ASSUME prog = "jump", JumpSettle \/ JumpEnable \/ JumpMove \/ JumpFinish PROVE IInv'
    BY <2>2, JumpSettleKeeps, EnableKeeps, RunKeeps, FinishKeeps
       DEF JumpEnable, JumpMove, JumpFinish
  <2> QED BY <1>10, <2>1, <2>2 DEF Jump
<1> QED BY <1>1, <1>2, <1>3, <1>4, <1>5, <1>6, <1>7, <1>8, <1>9, <1>10 DEF Next, Program

\* The invariant holds in every reachable state.
THEOREM Invariance == Spec => []IInv
BY InitInv, NextKeeps, PTL DEF Spec

\* Type correctness.
THEOREM TypeCorrect == Spec => []TypeOK
<1>1. IInv => TypeOK
  BY DEF IInv
<1> QED BY <1>1, Invariance, PTL

\* However a program ends that its solver has not ended, its last frame disables
\* the motors; only the joint path and the mock controller can end by the solver.
THEOREM NoMotorLeftEnabled == Spec => []EndsDisabled
<1>1. IInv => EndsDisabled
  BY DEF IInv, PhaseInv, EndsDisabled
<1> QED BY <1>1, Invariance, PTL

\* A program gives up in time when it no longer sees its motors operational,
\* for every period and number of misses, and sends one enabled frame at most
\* after a stop request, three if it is the probe.
THEOREM LossAndStopAreHeeded == Spec => []Attentive
<1>1. ASSUME IInv PROVE BlindBounded
  <2> SUFFICES ASSUME pc = "move", prog # "probe" PROVE blind <= plan.misses * plan.every
    BY DEF BlindBounded
  <2>1. /\ missed \in Nat /\ blind \in Nat /\ i \in Nat
        /\ plan.misses \in Nat \ {0} /\ plan.every \in Nat \ {0}
        /\ missed < plan.misses /\ blind <= BlindLimit
        /\ prog = "mock" => plan.every = 1
    BY <1>1 DEF IInv, TypeOK, PlanInv, BlindInv
  <2>2. CASE prog = "mock"
    <3>1. plan.misses * plan.every = plan.misses
      BY <2>1, <2>2
    <3> QED BY <2>1, <2>2, <3>1 DEF BlindLimit
  <2>3. CASE prog # "mock"
    <3> DEFINE n == plan.every
               k == plan.misses
               r == i % n
    <3>1. n \in Nat \ {0} /\ k \in Nat \ {0}
      BY <2>1
    <3>2. r \in 0 .. n - 1
      <4> HIDE DEF n
      <4> QED BY <2>1, <3>1, NextRemainder
    <3>3. blind <= missed * n + (IF r = 0 THEN n ELSE r) - 1
      BY <2>1, <2>3 DEF BlindLimit
    <3> HIDE DEF n, k, r
    <3>4. missed * n \in Nat /\ missed * n + n <= k * n
      <4>1. k = missed + 1 + (k - missed - 1) /\ k - missed - 1 \in Nat
        BY <2>1, <3>1 DEF k
      <4>2. \A d \in Nat : (missed + 1 + d) * n = missed * n + n + d * n /\ d * n \in Nat
        BY <2>1, <3>1
      <4>3. missed * n \in Nat
        BY <2>1, <3>1, Products
      <4> QED BY <2>1, <3>1, <4>1, <4>2, <4>3
    <3>5. blind <= k * n
      BY <2>1, <3>1, <3>2, <3>3, <3>4
    <3>6. k * n \in Nat
      BY <3>1, Products
    <3> QED BY <3>5 DEF k, n
  <2> QED BY <2>2, <2>3
<1>2. ASSUME IInv PROVE StopObeyed
  BY <1>2 DEF IInv, LateInv, StopObeyed
<1>3. IInv => Attentive
  BY <1>1, <1>2 DEF Attentive
<1> QED BY <1>3, Invariance, PTL

\* What EnabledAfterReady says of a step.
ReadyStep ==
  /\ ~cmd.enabled /\ cmd'.enabled =>
       IF prog = "probe" THEN on > 0 ELSE good = ReadySamples
  /\ pc = "enable" /\ pc' = "move" => on = ReadySamples

\* A step of enabling is ready by the counts.
LEMMA EnableIsReady ==
  ASSUME IInv, NEW rereads, Enable(rereads)
  PROVE  ReadyStep
<1>1. /\ pc = "enable" /\ prog # "probe" /\ ready \in Nat /\ on \in 0 .. ReadySamples
      /\ Upto(ready) <= on /\ (~cmd.enabled => good = ReadySamples)
  BY DEF Enable, IInv, PhaseInv, TypeOK, CountInv
<1>2. CASE ready >= ReadySamples
  <2>1. on = ReadySamples
    BY <1>1, <1>2, UptoCounts, CountAssumption
  <2> QED BY <1>1, <2>1 DEF ReadyStep
<1>3. CASE pc' # "move"
  BY <1>1, <1>3 DEF ReadyStep
<1> QED BY <1>1, <1>2, <1>3 DEF Enable, Disable, Enter

\* No other step enables a motor for the first time, except the probe's.
LEMMA OthersAreReady ==
  ASSUME IInv, pc # "enable",
         \/ cmd.enabled \/ cmd' = cmd \/ cmd'.enabled = FALSE
         \/ prog = "probe" /\ pc \in {"prepare", "arrive", "move", "finish"}
  PROVE  ReadyStep
BY DEF ReadyStep, IInv, CountInv

\* Motors are enabled, and moved, after as many good samples in a row as the
\* programs ask for, however many that is.
THEOREM EnabledWhenReady == Spec => EnabledAfterReady
<1>1. ASSUME IInv, Next PROVE ReadyStep \/ UNCHANGED vars
  <2>1. CASE RequestStop
    BY <2>1 DEF RequestStop, ReadyStep
  <2>2. ASSUME NEW p, NEW accepted, Begin(p, accepted) PROVE ReadyStep
    BY <1>1, <2>2, OthersAreReady DEF Begin
  <2>3. ASSUME NEW breaks, Settle(breaks) PROVE ReadyStep
    BY <1>1, <2>3, OthersAreReady DEF Settle
  <2>4. ASSUME NEW rereads, Enable(rereads) PROVE ReadyStep
    BY <1>1, <2>4, EnableIsReady
  <2>5. ASSUME NEW c, Finish(c) PROVE ReadyStep
    BY <1>1, <2>5, OthersAreReady DEF Finish
  <2>6. ASSUME prog # "probe", pc = "move" PROVE ReadyStep
    BY <1>1, <2>6, OthersAreReady DEF IInv, CountInv
  <2>7. CASE prog # "probe" /\ Disabling
    <3>1. pc = "disable" /\ cmd'.enabled = FALSE
      BY <1>1, <2>7 DEF Disabling, IInv, PhaseInv
    <3> QED BY <1>1, <3>1, OthersAreReady
  <2>8. CASE prog = "probe" /\ ProbeDisable
    <3>1. pc = "disable" /\ cmd'.enabled = FALSE
      BY <1>1, <2>8 DEF ProbeDisable, IInv, PhaseInv
    <3> QED BY <1>1, <3>1, OthersAreReady
  <2>9. CASE prog = "probe" /\ ProbeWait
    BY <1>1, <2>9, OthersAreReady DEF ProbeWait
  <2>10. ASSUME prog = "probe", pc \in {"prepare", "arrive", "move", "finish"} PROVE ReadyStep
    BY <1>1, <2>10, OthersAreReady
  <2>11. CASE Hold \/ Position \/ Joint
    BY <2>11, <2>2, <2>3, <2>4, <2>5, <2>6, Zenon
       DEF Hold, HoldSettle, HoldEnable, HoldMove, HoldFinish,
           Position, PositionSettle, PositionEnable, PositionMove, PositionFinish,
           Joint, JointSettle, JointEnable, JointMove, JointFinish, Run, Moving
  <2>12. CASE Path
    BY <2>12, <2>2, <2>3, <2>4, <2>5, <2>6, <1>1, OthersAreReady
       DEF Path, PathSettle, PathEnable, PathMove, PathFinish, Moving
  <2>13. CASE Mock
    BY <2>13, <2>2, <2>3, <2>4, <2>6 DEF Mock, MockSettle, MockEnable, MockMove, MockFinish, Moving
  <2>14. CASE Fit
    BY <2>14, <2>2, <2>3, <2>4, <2>5, <2>6
       DEF Fit, FitSettle, FitEnable, FitMove, FitFinish, Run, Moving
  <2>15. CASE Jump
    BY <2>15, <2>2, <2>3, <2>4, <2>5, <2>6, <1>1, OthersAreReady
       DEF Jump, JumpSettle, JumpEnable, JumpMove, JumpFinish, Run, Moving
  <2>16. CASE Probe
    BY <2>16, <2>2, <2>8, <2>9, <2>10
       DEF Probe, ProbePrepare, ProbeArrive, ProbePhase, ProbePhasesEnd, ProbeFinish, Moving
  <2> QED BY <1>1, <2>1, <2>7, <2>11, <2>12, <2>13, <2>14, <2>15, <2>16 DEF Next, Program
<1>2. IInv /\ [Next]_vars =>
        [/\ ~cmd.enabled /\ cmd'.enabled =>
              IF prog = "probe" THEN on > 0 ELSE good = ReadySamples
         /\ pc = "enable" /\ pc' = "move" => on = ReadySamples]_vars
  BY <1>1 DEF ReadyStep
<1> QED BY <1>2, Invariance, PTL DEF Spec, EnabledAfterReady
-----------------------------------------------------------------------------
(* Motors are commanded within their range *)

\* m may be told to go to x.
InRange(m, x) ==
  /\ Min({start[m], Limits[m].lo}) - Drift <= x
  /\ x <= Max({start[m], Limits[m].hi}) + Drift

Commanded == prog \in Controlled /\ (prog = "mock" => plan.ramp % Period = 0)

GoalInside(goal) == \A m \in DOMAIN goal : goal[m] \in Int /\ Inside(m, goal[m])

\* What the commands of program p take of its plan.
PlanBounds(p, q) ==
  /\ p \in {"position", "path", "joint", "mock"} => q.ramp \in Nat
  /\ p \in {"position", "joint"} => GoalInside(q.goal)
  /\ p = "path" => GoodPath(q.extra.path)
  /\ p = "mock" /\ q.extra # "policy" => GoalInside(q.goal)
  /\ p = "mock" /\ q.extra = "policy" => q.steps \in Nat /\ MockPolicyHolds(q.steps)
  /\ p = "fit" => /\ q.extra \in Scans /\ q.extra.points >= 3
                  /\ q.steps = q.extra.points * (q.extra.ramp + q.extra.hold)
                  /\ Inside(q.extra.motor, q.extra.from) /\ Inside(q.extra.motor, q.extra.to)
  /\ p = "jump" => q.extra \in Jumps
  /\ p = "probe" => q.extra \in Probes /\ q.goal = q.extra.goal /\ q.ramp = q.extra.ramp

ProbeMoves == {"prepare", "arrive", "move", "finish"}

\* The limits are looked at when a plan is made, or when the motors are found;
\* the commands are made later, from the plan and the captured positions.
RangeInv ==
  /\ start \in [Motors -> Int]
  /\ pc \notin {"args", "exit"} => PlanBounds(prog, plan)
  /\ prog = "jump" /\ pc \in {"enable", "move"} => Inside(plan.extra.motor, JumpFinal)
  /\ prog = "probe" /\ pc \in ProbeMoves => Inside(ProbeMotor, Final(ProbeMotor))
  /\ prog = "probe" /\ pc = "prepare" => i <= plan.ramp
  /\ pc = "enable" /\ cmd.enabled => cmd.pos = start
  /\ CommandsInRange

\* What the programs accept stays inside.
LEMMA PlanParts ==
  ASSUME NEW goal, NEW ramp, NEW steps \in Int, NEW every, NEW misses, NEW extra,
         NEW q, q = PlanOf(goal, ramp, steps, every, misses, extra)
  PROVE  /\ q.goal = goal /\ q.ramp = ramp /\ q.extra = extra
         /\ q.steps = IF 1 <= steps THEN steps ELSE 1
<1>1. q.goal = goal /\ q.ramp = ramp /\ q.extra = extra /\ q.steps = Max({1, steps})
  BY DEF PlanOf
<1> QED BY <1>1, MaxOfTwo

LEMMA TimingParts ==
  ASSUME NEW t \in Timings
  PROVE  t[1] \in Nat /\ t[2] \in Nat \ {0} /\ t[2] \div Period \in Int
         /\ (t[1] + t[2]) \div Period \in Int
         /\ (t[2] + Period - 1) \div Period \in Nat /\ (t[2] + Period - 1) \div Period >= 1
<1>1. t[1] \in Nat /\ t[2] \in Nat \ {0}
  BY ArgumentsAssumption
<1>2. Period \in Nat \ {0}
  BY CountAssumption
<1>3. 1 * Period <= t[2] + Period - 1 /\ t[2] + Period - 1 \in Int
  BY <1>1, <1>2
<1>4. 1 <= (t[2] + Period - 1) \div Period /\ (t[2] + Period - 1) \div Period \in Int
  BY <1>2, <1>3, QuotientBounds
<1>5. t[2] \div Period \in Int /\ (t[1] + t[2]) \div Period \in Int
  BY <1>1, <1>2, QuotientBounds
<1> QED BY <1>1, <1>4, <1>5

LEMMA PositionBounds == \A q \in PositionArgs : PlanBounds("position", q)
<1> SUFFICES ASSUME NEW q \in PositionArgs PROVE PlanBounds("position", q)
  OBVIOUS
<1>1. PICK goal \in {r \in Requests : Within(r)}, t \in Timings :
        q = PlanOf(goal, t[1], t[2] \div Period, 100 \div Period, MissLimit, <<>>)
  BY DEF PositionArgs
<1>2. q.goal = goal /\ q.ramp \in Nat
  BY <1>1, TimingParts, PlanParts
<1>3. GoalInside(goal)
  BY <1>1, PositionsAssumption DEF GoalInside, Within
<1> QED BY <1>2, <1>3 DEF PlanBounds

LEMMA JointBounds ==
  ASSUME SolveGivesNumbers
  PROVE  \A q \in JointArgs : PlanBounds("joint", q)
<1> SUFFICES ASSUME NEW q \in JointArgs PROVE PlanBounds("joint", q)
  OBVIOUS
<1>1. PICK joints \in {j \in JointRequests : Resolved(j)}, t \in Timings :
        q = PlanOf(Solve(joints), t[1], t[2] \div Period, 100 \div Period, MissLimit, <<>>)
  BY DEF JointArgs
<1>2. q.goal = Solve(joints) /\ q.ramp \in Nat
  BY <1>1, TimingParts, PlanParts
<1>3. GoalInside(Solve(joints))
  BY <1>1, ArgumentsAssumption DEF GoalInside, Within, Resolved, SolveGivesNumbers, JointSet
<1> QED BY <1>2, <1>3 DEF PlanBounds

LEMMA PathBounds == \A q \in PathArgs : PlanBounds("path", q)
<1> SUFFICES ASSUME NEW q \in PathArgs PROVE PlanBounds("path", q)
  OBVIOUS
<1> DEFINE Steps(a) == (a[2][1] + a[2][2]) \div Period
           Extra(a) == [mode |-> a[1], path |-> PathForMode(a[1], a[2][2])]
           Accepted == {b \in PathModes \X Timings : PathAccepted(b[1], b[2][2])}
<1>1. q \in {PlanOf(<<>>, a[2][1], Steps(a), 500 \div Period, MissLimit, Extra(a)) : a \in Accepted}
  BY DEF PathArgs
<1> HIDE DEF Steps, Extra
<1>2. PICK a \in Accepted :
        q = PlanOf(<<>>, a[2][1], Steps(a), 500 \div Period, MissLimit, Extra(a))
  BY <1>1
<1>3. a[1] \in PathModes /\ a[2] \in Timings /\ PathAccepted(a[1], a[2][2])
  BY <1>2
<1>4. a[2][1] \in Nat /\ a[2][2] \in Nat \ {0} /\ Steps(a) \in Int
  BY <1>3, TimingParts DEF Steps
<1>5. q.ramp \in Nat /\ q.extra = Extra(a)
  BY <1>2, <1>4, PlanParts
<1>6. GoodPath(PathForMode(a[1], a[2][2]))
  BY <1>3, <1>4, PathsAreGood DEF PathAccepted
<1> QED BY <1>5, <1>6 DEF PlanBounds, Extra

LEMMA MockBounds == \A q \in MockArgs : PlanBounds("mock", q)
<1> SUFFICES ASSUME NEW q \in MockArgs PROVE PlanBounds("mock", q)
  OBVIOUS
<1> DEFINE Iterations(ms) == (ms + Period - 1) \div Period
<1>1. \/ \E goal \in {r \in Requests : Within(r)}, t \in Timings :
           q = PlanOf(goal, t[1], Iterations(t[2]), 1, MissLimit, "targets")
      \/ \E t \in {u \in Timings : MockPolicyHolds(Iterations(u[2]))} :
           q = PlanOf(<<>>, t[1], Iterations(t[2]), 1, MissLimit, "policy")
  BY DEF MockArgs
<1>2. \A t \in Timings : t[1] \in Nat /\ Iterations(t[2]) \in Nat /\ Iterations(t[2]) >= 1
  BY TimingParts
<1> HIDE DEF Iterations
<1>3. ASSUME NEW goal \in {r \in Requests : Within(r)}, NEW t \in Timings,
             q = PlanOf(goal, t[1], Iterations(t[2]), 1, MissLimit, "targets")
      PROVE  PlanBounds("mock", q)
  <2>1. q.goal = goal /\ q.ramp \in Nat /\ q.extra = "targets"
    BY <1>2, <1>3, PlanParts
  <2>2. GoalInside(goal)
    BY PositionsAssumption DEF GoalInside, Within
  <2> QED BY <2>1, <2>2 DEF PlanBounds
<1>4. ASSUME NEW t \in {u \in Timings : MockPolicyHolds(Iterations(u[2]))},
             q = PlanOf(<<>>, t[1], Iterations(t[2]), 1, MissLimit, "policy")
      PROVE  PlanBounds("mock", q)
  <2>1. q.ramp \in Nat /\ q.extra = "policy" /\ q.steps = Iterations(t[2]) /\ q.steps \in Nat
    BY <1>2, <1>4, PlanParts
  <2>2. MockPolicyHolds(q.steps)
    BY <1>4, <2>1
  <2> QED BY <2>1, <2>2 DEF PlanBounds
<1> QED BY <1>1, <1>3, <1>4

LEMMA FitBounds == \A q \in FitArgs : PlanBounds("fit", q)
<1> SUFFICES ASSUME NEW q \in FitArgs PROVE PlanBounds("fit", q)
  OBVIOUS
<1>1. PICK scan \in {c \in Scans : c.points >= 3 /\ Inside(c.motor, c.from) /\ Inside(c.motor, c.to)} :
        q = PlanOf(<<>>, scan.ramp, scan.points * (scan.ramp + scan.hold), 1, 1, scan)
  BY DEF FitArgs
<1>2. scan.points \in Int /\ scan.points >= 3 /\ scan.ramp + scan.hold \in Nat \ {0}
  BY ArgumentsAssumption
<1>3. /\ scan.points * (scan.ramp + scan.hold) \in Int
      /\ 1 <= scan.points * (scan.ramp + scan.hold)
  <2> DEFINE n == scan.ramp + scan.hold
  <2>1. n \in Int /\ 1 <= n /\ 0 <= n
    BY <1>2
  <2> HIDE DEF n
  <2>2. scan.points * n \in Int /\ 3 * n <= scan.points * n
    BY <1>2, <2>1, Grows
  <2>3. 1 <= scan.points * n
    BY <2>1, <2>2
  <2> QED BY <2>2, <2>3 DEF n
<1>4. q.extra = scan /\ q.steps = scan.points * (scan.ramp + scan.hold)
  BY <1>1, <1>3, PlanParts
<1> QED BY <1>1, <1>4 DEF PlanBounds

LEMMA OtherBounds ==
  /\ \A q \in HoldArgs : PlanBounds("hold", q)
  /\ \A q \in JumpArgs : PlanBounds("jump", q)
  /\ \A q \in ProbeArgs : PlanBounds("probe", q)
<1>1. \A q \in HoldArgs : PlanBounds("hold", q)
  BY DEF PlanBounds
<1>2. \A q \in JumpArgs : PlanBounds("jump", q)
  <2> SUFFICES ASSUME NEW q \in JumpArgs PROVE PlanBounds("jump", q)
    OBVIOUS
  <2>1. PICK jump \in Jumps : q = PlanOf(<<>>, 0, jump.baseline + jump.response, 1, 1, jump)
    BY DEF JumpArgs
  <2>2. q.extra = jump
    BY <2>1 DEF PlanOf
  <2> QED BY <2>2 DEF PlanBounds
<1>3. \A q \in ProbeArgs : PlanBounds("probe", q)
  <2> SUFFICES ASSUME NEW q \in ProbeArgs PROVE PlanBounds("probe", q)
    OBVIOUS
  <2> DEFINE Steps(p) == p.samples * Len(Phases(p.ff, p.step, p.min))
  <2>1. \E p \in Probes : q = PlanOf(p.goal, p.ramp, Steps(p), 1, 1, p)
    BY DEF ProbeArgs
  <2> HIDE DEF Steps
  <2>2. PICK p \in Probes : q = PlanOf(p.goal, p.ramp, Steps(p), 1, 1, p)
    BY <2>1
  <2>3. q.extra = p /\ q.goal = p.goal /\ q.ramp = p.ramp
    BY <2>2 DEF PlanOf
  <2> QED BY <2>3 DEF PlanBounds
<1> QED BY <1>1, <1>2, <1>3

\* y is between a and b.
Amid(a, y, b) == (a <= y /\ y <= b) \/ (b <= y /\ y <= a)

\* Where m may be sent: inside its limits, or where it was found.
Allowed(m, y) == y \in Int /\ (Inside(m, y) \/ y = start[m])

LEMMA Widened ==
  ASSUME NEW s \in Int, NEW lo \in Int, NEW hi \in Int, NEW x \in Int, NEW y \in Int, NEW d \in Nat,
         (lo <= y /\ y <= hi) \/ y = s, Amid(s, x, y)
  PROVE  Min({s, lo}) - d <= x /\ x <= Max({s, hi}) + d
<1>1. /\ Min({s, lo}) = IF s <= lo THEN s ELSE lo
      /\ Max({s, hi}) = IF s <= hi THEN hi ELSE s
  BY MinOfTwo, MaxOfTwo
<1> QED BY <1>1 DEF Amid

\* An allowed position and all on the way to it are in range.
LEMMA Reach ==
  ASSUME RangeInv, NEW m \in Motors, NEW y, Allowed(m, y), NEW x \in Int, Amid(start[m], x, y)
  PROVE  InRange(m, x)
<1>1. /\ start[m] \in Int /\ Limits[m].lo \in Int /\ Limits[m].hi \in Int /\ Drift \in Nat
  BY PositionsAssumption DEF RangeInv
<1>2. y \in Int /\ ((Limits[m].lo <= y /\ y <= Limits[m].hi) \/ y = start[m])
  BY DEF Allowed, Inside
<1> QED BY <1>1, <1>2, Widened, Zenon DEF InRange

LEMMA AllowedInRange ==
  ASSUME RangeInv, NEW m \in Motors, NEW x, Allowed(m, x)
  PROVE  InRange(m, x)
<1>1. start[m] \in Int /\ x \in Int
  BY DEF RangeInv, Allowed
<1>2. Amid(start[m], x, x)
  BY <1>1 DEF Amid
<1> QED BY <1>1, <1>2, Reach, Zenon

LEMMA StartInRange ==
  ASSUME RangeInv
  PROVE  \A m \in DOMAIN start : m \in Motors /\ InRange(m, start[m])
<1> SUFFICES ASSUME NEW m \in DOMAIN start PROVE m \in Motors /\ InRange(m, start[m])
  OBVIOUS
<1>1. m \in Motors /\ Allowed(m, start[m])
  BY DEF RangeInv, Allowed
<1> QED BY <1>1, AllowedInRange

\* A number on the way from the captured position to x.
LEMMA Ways ==
  ASSUME NEW a \in Int, NEW x \in Int, NEW p \in Int, 0 <= p, p <= 10000
  PROVE  Between(a, x, p) \in Int /\ Amid(a, Between(a, x, p), x)
BY BetweenEnds DEF Amid

LEMMA WayInRange ==
  ASSUME RangeInv, NEW m \in Motors, NEW x \in Int, Allowed(m, x),
         NEW p \in Int, 0 <= p, p <= 10000
  PROVE  InRange(m, Between(start[m], x, p))
<1>1. start[m] \in Int
  BY DEF RangeInv
<1>2. Between(start[m], x, p) \in Int /\ Amid(start[m], Between(start[m], x, p), x)
  BY <1>1, Ways
<1> QED BY <1>2, Reach

\* A ramp to where the limits allow keeps to the range.
LEMMA MotorInRange ==
  ASSUME RangeInv, NEW ramp \in Nat, NEW elapsed \in Nat,
         NEW m \in Motors, NEW x \in Int, Allowed(m, x)
  PROVE  InRange(m, Between(start[m], x, RampProgress(elapsed, ramp)))
<1>1. PICK p \in Int : p = RampProgress(elapsed, ramp) /\ 0 <= p /\ p <= 10000
  BY RampProgressBounds
<1>2. 0 <= p /\ p <= 10000
  BY <1>1
<1>3. InRange(m, Between(start[m], x, p))
  BY <1>2, WayInRange
<1> QED BY <1>1, <1>3

LEMMA RampInRange ==
  ASSUME IInv, RangeInv, plan.ramp \in Nat, NEW final,
         \A m \in Motors : final[m] \in Int /\ Allowed(m, final[m])
  PROVE  \A m \in DOMAIN Ramped(final, i * Period) : InRange(m, Ramped(final, i * Period)[m])
<1> DEFINE elapsed == i * Period
<1>1. i \in Nat /\ Period \in Nat
  BY CountAssumption DEF IInv, TypeOK
<1>2. elapsed \in Nat
  BY <1>1, Products
<1> HIDE DEF elapsed
<1>3. ASSUME NEW m \in Motors
      PROVE  InRange(m, Between(start[m], final[m], RampProgress(elapsed, plan.ramp)))
  BY <1>2, MotorInRange
<1>4. Ramped(final, i * Period)
        = [m \in Motors |-> Between(start[m], final[m], RampProgress(elapsed, plan.ramp))]
  BY DEF Ramped, elapsed
<1> QED BY <1>3, <1>4

\* The requested position, or the captured one.
LEMMA FinalInside ==
  ASSUME RangeInv, GoalInside(plan.goal), NEW m \in Motors
  PROVE  Final(m) \in Int /\ Allowed(m, Final(m))
BY DEF Final, GoalInside, RangeInv, Allowed

\* Most steps leave plan and captured positions alone; the frame they make, if
\* they make one, is in range.
LEMMA RangeStep ==
  ASSUME RangeInv, UNCHANGED <<prog, plan, start>>, pc \notin {"args", "exit"},
         \/ pc' = pc \/ pc' \in {"disable", "exit", "thrown"}
         \/ pc = "enable" /\ pc' = "move" /\ prog # "probe"
         \/ pc \in ProbeMoves /\ pc' \in ProbeMoves /\ prog = "probe",
         prog = "probe" /\ pc' = "prepare" => i' <= plan.ramp,
         \/ cmd' = cmd \/ cmd'.enabled = FALSE
         \/ Commanded => \A m \in DOMAIN cmd'.pos : InRange(m, cmd'.pos[m]),
         pc' = "enable" /\ cmd'.enabled => cmd'.pos = start \/ cmd' = cmd
  PROVE  RangeInv'
<1>1. start' \in [Motors -> Int] /\ PlanBounds(prog', plan')
  BY DEF RangeInv
<1>2. prog' = "jump" /\ pc' \in {"enable", "move"} => Inside(plan'.extra.motor, JumpFinal')
  BY DEF RangeInv, JumpFinal, ProbeMoves
<1>3. prog' = "probe" /\ pc' \in ProbeMoves => Inside(ProbeMotor, Final(ProbeMotor))'
  BY DEF RangeInv, ProbeMotor, Final, ProbeMoves, Inside
<1>4. prog' = "probe" /\ pc' = "prepare" => i' <= plan'.ramp
  OBVIOUS
<1>5. pc' = "enable" /\ cmd'.enabled => cmd'.pos = start'
  BY DEF RangeInv, ProbeMoves
<1>6. CommandsInRange'
  <2>1. CASE cmd' = cmd
    BY <2>1 DEF RangeInv, CommandsInRange
  <2>2. CASE cmd'.enabled = FALSE
    BY <2>2 DEF CommandsInRange
  <2>3. CASE Commanded => \A m \in DOMAIN cmd'.pos : InRange(m, cmd'.pos[m])
    BY <2>3 DEF Commanded, CommandsInRange, InRange
  <2> QED BY <2>1, <2>2, <2>3
<1> QED BY <1>1, <1>2, <1>3, <1>4, <1>5, <1>6 DEF RangeInv

\* A plan is made before anything is enabled.
LEMMA BeginRange ==
  ASSUME IInv, RangeInv, NEW p, NEW accepted, \A q \in accepted : PlanBounds(p, q),
         Begin(p, accepted)
  PROVE  RangeInv'
<1>1. /\ pc = "args" /\ prog' = p /\ cmd' = cmd /\ ~cmd.enabled /\ start' = start
      /\ \/ plan' \in accepted /\ pc' = "settle"
         \/ pc' = "exit"
  BY DEF Begin, seen, Exit, IInv, PhaseInv
<1> QED BY <1>1 DEF RangeInv, CommandsInRange, ProbeMoves

\* So are the motors found.
LEMMA SettleRange ==
  ASSUME IInv, RangeInv, prog # "probe", NEW breaks, Settle(breaks),
         prog = "jump" /\ pc' = "enable" => Inside(plan.extra.motor, JumpFinal')
  PROVE  RangeInv'
<1>1. pc = "settle" /\ UNCHANGED <<prog, plan, cmd>> /\ ~cmd.enabled
  BY DEF Settle, IInv, PhaseInv
<1>2. CASE pc' \in {"settle", "exit"} /\ start' = start
  BY <1>1, <1>2, RangeStep
<1>3. CASE pc' = "enable" /\ start' \in Starts
  <2>1. start' \in [Motors -> Int]
    BY <1>3, PositionsAssumption
  <2>2. PlanBounds(prog', plan')
    BY <1>1 DEF RangeInv
  <2>3. prog' = "jump" => Inside(plan'.extra.motor, JumpFinal')
    BY <1>1, <1>3
  <2> QED BY <1>1, <1>3, <2>1, <2>2, <2>3 DEF RangeInv, CommandsInRange, ProbeMoves
<1> QED BY <1>1, <1>2, <1>3 DEF Settle, Exit, Enter

LEMMA JumpSettleRange ==
  ASSUME IInv, RangeInv, prog = "jump", JumpSettle
  PROVE  RangeInv'
<1>1. CASE Settle(FALSE) /\ (pc' = "enable" => Inside(plan.extra.motor, JumpFinal'))
  BY <1>1, SettleRange
<1>2. CASE /\ pc = "settle" /\ Exit(2) /\ start' \in Starts
           /\ UNCHANGED <<prog, plan, i, ready, missed, stop, cmd, late, seen>>
  <2>1. start' \in [Motors -> Int] /\ ~cmd'.enabled /\ pc' = "exit"
    BY <1>2, PositionsAssumption DEF IInv, PhaseInv, Exit
  <2> QED BY <1>2, <2>1 DEF RangeInv, CommandsInRange, ProbeMoves
<1> QED BY <1>1, <1>2 DEF JumpSettle

LEMMA PathSettleRange ==
  ASSUME IInv, RangeInv, prog = "path", PathSettle
  PROVE  RangeInv'
<1>1. CASE Settle(TRUE)
  BY <1>1, SettleRange
<1>2. CASE /\ pc = "settle" /\ Exit(2)
           /\ UNCHANGED <<prog, plan, i, ready, missed, start, stop, cmd, late, seen>>
  <2>1. ~cmd'.enabled /\ pc' = "exit" /\ UNCHANGED <<prog, plan, start, cmd>>
    BY <1>2 DEF IInv, PhaseInv, Exit
  <2> QED BY <1>2, <2>1, RangeStep
<1> QED BY <1>1, <1>2 DEF PathSettle

\* Motors are enabled where they were found.
LEMMA EnableRange ==
  ASSUME IInv, RangeInv, Enable({start})
  PROVE  RangeInv'
<1>1. pc = "enable" /\ prog # "probe" /\ UNCHANGED <<prog, plan>>
  BY DEF Enable, IInv, PhaseInv
<1>2. CASE SendEnabled(start, 0) /\ UNCHANGED <<pc, start>>
  <2>1. cmd'.pos = start
    BY <1>2 DEF SendEnabled
  <2>2. \A m \in DOMAIN cmd'.pos : InRange(m, cmd'.pos[m])
    BY <2>1, StartInRange
  <2> QED BY <1>1, <1>2, <2>1, <2>2, RangeStep
<1>3. CASE pc' \in {"disable", "move"} /\ UNCHANGED <<start, cmd>>
  BY <1>1, <1>3, RangeStep
<1> QED BY <1>1, <1>2, <1>3 DEF Enable, Disable, Enter

\* The scan looks again where its motor is, which has drifted a little.
LEMMA FitEnableRange ==
  ASSUME IInv, RangeInv, prog = "fit", FitEnable
  PROVE  RangeInv'
<1> DEFINE mo == plan.extra.motor
           Again == {[start EXCEPT ![mo] = @ + d] : d \in -Drift .. Drift}
<1>1. pc = "enable" /\ UNCHANGED <<prog, plan>> /\ Enable(Again)
  BY DEF FitEnable, Enable
<1>2. CASE SendEnabled(start, 0) /\ UNCHANGED <<pc, start>>
  <2>1. cmd'.pos = start
    BY <1>2 DEF SendEnabled
  <2>2. \A m \in DOMAIN cmd'.pos : InRange(m, cmd'.pos[m])
    BY <2>1, StartInRange
  <2> QED BY <1>1, <1>2, <2>1, <2>2, RangeStep
<1>3. CASE pc' = "disable" /\ UNCHANGED <<start, cmd>>
  BY <1>1, <1>3, RangeStep
<1>4. CASE pc' = "move" /\ start' \in Again /\ cmd' = cmd
  <2>1. PICK d \in -Drift .. Drift : start' = [start EXCEPT ![mo] = @ + d]
    BY <1>4
  <2>2. Drift \in Nat /\ d \in Int /\ -Drift <= d /\ d <= Drift /\ start \in [Motors -> Int]
    BY PositionsAssumption DEF RangeInv
  <2>3. mo \in Motors
    BY <1>1, ArgumentsAssumption DEF RangeInv, PlanBounds
  <2> HIDE DEF mo, Again
  <2>4. start' \in [Motors -> Int]
    BY <2>1, <2>2, <2>3
  <2>5. CommandsInRange'
    <3> SUFFICES ASSUME cmd.enabled, NEW m \in DOMAIN start
                 PROVE  /\ Min({start'[m], Limits[m].lo}) - Drift <= start[m]
                        /\ start[m] <= Max({start'[m], Limits[m].hi}) + Drift
      BY <1>1, <1>4 DEF RangeInv, CommandsInRange
    <3>1. /\ m \in Motors /\ start[m] \in Int /\ start'[m] \in Int
          /\ Limits[m].lo \in Int /\ Limits[m].hi \in Int
      BY <2>2, <2>4, PositionsAssumption
    <3>2. start'[m] = start[m] \/ start'[m] = start[m] + d
      BY <2>1, <2>2, <2>3, <3>1
    <3>3. Min({start'[m], Limits[m].lo}) <= start'[m] /\ start'[m] <= Max({start'[m], Limits[m].hi})
      BY <3>1, MinOfTwo, MaxOfTwo
    <3>4. Min({start'[m], Limits[m].lo}) \in Int /\ Max({start'[m], Limits[m].hi}) \in Int
      BY <3>1, MinOfTwo, MaxOfTwo
    <3> QED BY <2>2, <3>1, <3>2, <3>3, <3>4
  <2>6. PlanBounds(prog', plan')
    BY <1>1 DEF RangeInv
  <2> QED BY <1>1, <1>4, <2>4, <2>5, <2>6 DEF RangeInv
<1> QED BY <1>1, <1>2, <1>3, <1>4 DEF Enable, Disable, Enter

\* A motion sends what is in range, or nothing.
LEMMA RunRange ==
  ASSUME IInv, RangeInv, prog # "probe", NEW pos, Run(pos),
         Commanded => \A m \in DOMAIN pos : InRange(m, pos[m])
  PROVE  RangeInv'
<1>1. pc = "move" /\ UNCHANGED <<prog, plan, start>>
  BY DEF Run, Moving
<1>2. pc' \in {"move", "disable"}
  BY <1>1 DEF Run, Watch, Disable, Enter, Advance
<1>3. cmd' = cmd \/ cmd'.pos = pos
  BY DEF Run, SendEnabled
<1> QED BY <1>1, <1>2, <1>3, RangeStep

LEMMA FinishRange ==
  ASSUME RangeInv, NEW c, Finish(c)
  PROVE  RangeInv'
<1>1. pc = "move" /\ pc' = "disable" /\ UNCHANGED <<prog, plan, start, cmd>>
  BY DEF Finish, Disable, Enter
<1> QED BY <1>1, RangeStep

\* The joints' motors, where they are in the limits.
LEMMA LegAllowed ==
  ASSUME RangeInv, NEW joints \in JointSet, SolveGivesNumbers, Resolved(joints), NEW final,
         final = [m \in Motors |-> IF m \in DOMAIN Solve(joints) THEN Solve(joints)[m] ELSE start[m]]
  PROVE  \A m \in Motors : final[m] \in Int /\ Allowed(m, final[m])
<1> SUFFICES ASSUME NEW m \in Motors PROVE final[m] \in Int /\ Allowed(m, final[m])
  OBVIOUS
<1>1. CASE m \in DOMAIN Solve(joints)
  <2>1. Solve(joints)[m] \in Int /\ Inside(m, Solve(joints)[m])
    BY <1>1 DEF SolveGivesNumbers, Resolved, Within
  <2> QED BY <1>1, <2>1 DEF Allowed
<1>2. CASE m \notin DOMAIN Solve(joints)
  BY <1>2 DEF Allowed, RangeInv
<1> QED BY <1>1, <1>2

\* Ramps to requested positions.
LEMMA TargetsRange ==
  ASSUME IInv, RangeInv, plan.ramp \in Nat, GoalInside(plan.goal), NEW final,
         final = [m \in Motors |-> Final(m)]
  PROVE  \A m \in DOMAIN Ramped(final, i * Period) : InRange(m, Ramped(final, i * Period)[m])
<1>1. \A m \in Motors : final[m] \in Int /\ Allowed(m, final[m])
  BY FinalInside
<1> QED BY <1>1, RampInRange

LEMMA HoldRange ==
  ASSUME IInv, RangeInv, prog = "hold", HoldMove
  PROVE  RangeInv'
BY RunRange DEF HoldMove, Commanded, Controlled

LEMMA PositionRange ==
  ASSUME IInv, RangeInv, prog = "position", PositionMove
  PROVE  RangeInv'
<1>1. plan.ramp \in Nat /\ GoalInside(plan.goal)
  BY DEF PositionMove, Run, Moving, RangeInv, PlanBounds
<1>2. \A m \in DOMAIN Ramped(PositionFinal, i * Period) : InRange(m, Ramped(PositionFinal, i * Period)[m])
  BY <1>1, TargetsRange DEF PositionFinal
<1> QED BY <1>2, RunRange DEF PositionMove

LEMMA JointRange ==
  ASSUME IInv, RangeInv, prog = "joint", JointMove
  PROVE  RangeInv'
<1>1. plan.ramp \in Nat /\ GoalInside(plan.goal)
  BY DEF JointMove, Run, Moving, RangeInv, PlanBounds
<1>2. \A m \in DOMAIN Ramped(JointFinal, i * Period) : InRange(m, Ramped(JointFinal, i * Period)[m])
  BY <1>1, TargetsRange DEF JointFinal
<1> QED BY <1>2, RunRange DEF JointMove

\* The path is sampled at times it has angles for.
LEMMA PathJointsAreJoints ==
  ASSUME IInv, plan.ramp \in Nat, GoodPath(plan.extra.path)
  PROVE  PathJoints \in JointSet
<1> DEFINE ms == i * Period
           path == plan.extra.path
           elapsed == ms - plan.ramp
           time == SampleTime(plan.extra.mode, path, elapsed)
<1>1. i \in Nat /\ Period \in Nat
  BY CountAssumption DEF IInv, TypeOK
<1>2. ms \in Nat
  BY <1>1, Products
<1> HIDE DEF ms
<1>3. elapsed \in Int
  BY <1>2
<1> HIDE DEF elapsed
<1>4. path \in Seq(Timed) /\ path # <<>> /\ path[Len(path)].ms > 0
  BY DEF GoodPath
<1> HIDE DEF path
<1>5. path[1].joints \in JointSet /\ path[Len(path)].ms \in Int
  <2>1. Len(path) \in Nat /\ Len(path) # 0
    BY <1>4
  <2>2. path[1] \in Timed /\ path[Len(path)] \in Timed
    BY <1>4, <2>1
  <2> QED BY <2>2 DEF Timed
<1>6. time \in Int
  <2>1. PathDuration(path) \in Nat \ {0}
    BY <1>4, <1>5 DEF PathDuration
  <2>2. elapsed % PathDuration(path) \in Int
    BY <1>3, <2>1
  <2> QED BY <1>3, <2>2 DEF SampleTime
<1> HIDE DEF time
<1>7. SamplePath(path, time) \in JointSet
  BY <1>6, SamplesAreJoints DEF path
<1>8. PathJoints = IF ms < plan.ramp THEN path[1].joints ELSE SamplePath(path, time)
  BY DEF PathJoints, ms, path, elapsed, time
<1> QED BY <1>5, <1>7, <1>8

LEMMA PathRange ==
  ASSUME IInv, RangeInv, SolveGivesNumbers, prog = "path", PathMove
  PROVE  RangeInv'
<1>1. pc = "move"
  BY DEF PathMove, Moving
<1>2. plan.ramp \in Nat /\ GoodPath(plan.extra.path)
  BY <1>1 DEF RangeInv, PlanBounds
<1>3. CASE Resolved(PathJoints) /\ Run(Ramped(PathFinal, i * Period))
  <2>1. PathJoints \in JointSet
    BY <1>2, PathJointsAreJoints
  <2>2. \A m \in Motors : PathFinal[m] \in Int /\ Allowed(m, PathFinal[m])
    BY <1>3, <2>1, LegAllowed DEF PathFinal
  <2>3. \A m \in DOMAIN Ramped(PathFinal, i * Period) : InRange(m, Ramped(PathFinal, i * Period)[m])
    BY <1>2, <2>2, RampInRange
  <2> QED BY <1>3, <2>3, RunRange
<1>4. CASE pc' \in {"disable", "thrown"} /\ UNCHANGED <<prog, plan, start, cmd>>
  BY <1>1, <1>4, RangeStep
<1> QED BY <1>3, <1>4 DEF PathMove, Resolved, Disable, Enter

\* The policy was looked at beforehand at the times it is asked at now, if the
\* ramp ends with a period.
LEMMA PolicyResolved ==
  ASSUME IInv, RangeInv, prog = "mock", Moving, plan.extra = "policy", plan.ramp % Period = 0
  PROVE  MockPolicy \in JointSet /\ Resolved(MockPolicy)
<1>1. /\ pc = "move" /\ i \in Nat /\ Period \in Nat \ {0} /\ plan.ramp \in Nat
      /\ plan.steps \in Nat /\ i < plan.steps /\ MockPolicyHolds(plan.steps)
  BY CountAssumption DEF IInv, TypeOK, Moving, RangeInv, PlanBounds
<1> DEFINE n == plan.ramp \div Period
           elapsed == i * Period
           k == IF i <= n THEN 0 ELSE i - n
<1>2. n \in Nat /\ plan.ramp = Period * n
  BY <1>1
<1> HIDE DEF n
<1>3. k \in 0 .. plan.steps - 1
  BY <1>1, <1>2
<1>4. Max({0, elapsed - plan.ramp}) = k * Period
  <2>1. elapsed \in Int /\ elapsed - plan.ramp = (i - n) * Period
    BY <1>1, <1>2
  <2>2. CASE i <= n
    <3>1. (i - n) * Period <= 0 * Period /\ (i - n) * Period \in Int
      BY <1>1, <1>2, <2>2, Grows
    <3> QED BY <1>1, <2>1, <2>2, <3>1, MaxOfTwo
  <2>3. CASE i > n
    <3>1. 0 <= (i - n) * Period /\ (i - n) * Period \in Int
      BY <1>1, <1>2, <2>3, Product
    <3> QED BY <1>1, <1>2, <2>1, <2>3, <3>1, MaxOfTwo
  <2> QED BY <1>1, <1>2, <2>2, <2>3
<1>5. MockPolicy = MockAction(k * Period)
  BY <1>4 DEF MockPolicy
<1> HIDE DEF k, elapsed
<1>6. Resolved(MockAction(k * Period))
  BY <1>1, <1>3 DEF MockPolicyHolds
<1>7. MockAction(k * Period) \in JointSet
  <2>1. k \in Int /\ k * Period \in Int
    BY <1>1, <1>3
  <2> QED BY <2>1, ActionsAreJoints
<1> QED BY <1>5, <1>6, <1>7

LEMMA MockRange ==
  ASSUME IInv, RangeInv, SolveGivesNumbers, prog = "mock", MockMove
  PROVE  RangeInv'
<1>1. pc = "move" /\ Moving /\ UNCHANGED <<prog, plan, start>>
  BY DEF MockMove, Moving
<1>2. plan.ramp \in Nat
  BY <1>1 DEF RangeInv, PlanBounds
<1>3. ASSUME plan.ramp % Period = 0
      PROVE  \A m \in Motors : MockFinal[m] \in Int /\ Allowed(m, MockFinal[m])
  <2>1. CASE plan.extra = "policy"
    <3>1. MockPolicy \in JointSet /\ Resolved(MockPolicy)
      BY <1>1, <1>3, <2>1, PolicyResolved
    <3> QED BY <2>1, <3>1, LegAllowed DEF MockFinal
  <2>2. CASE plan.extra # "policy"
    <3>1. GoalInside(plan.goal)
      BY <1>1, <2>2 DEF RangeInv, PlanBounds
    <3>2. \A m \in Motors : Final(m) \in Int /\ Allowed(m, Final(m))
      BY <3>1, FinalInside
    <3> QED BY <2>2, <3>2 DEF MockFinal
  <2> QED BY <2>1, <2>2
<1>4. Commanded => \A m \in DOMAIN Ramped(MockFinal, i * Period) :
                     InRange(m, Ramped(MockFinal, i * Period)[m])
  BY <1>2, <1>3, RampInRange DEF Commanded
<1>5. CASE cmd'.pos = Ramped(MockFinal, i * Period) /\ pc' = pc
  BY <1>1, <1>4, <1>5, RangeStep
<1>6. CASE cmd' = cmd /\ pc' \in {"disable", "thrown"}
  BY <1>1, <1>6, RangeStep
<1>7. \/ cmd' = cmd /\ pc' \in {"disable", "thrown"}
      \/ cmd'.pos = Ramped(MockFinal, i * Period) /\ pc' = pc
  BY DEF MockMove, Disable, Enter, Advance, SendEnabled
<1> QED BY <1>5, <1>6, <1>7

LEMMA MockFinishRange ==
  ASSUME RangeInv, prog = "mock", MockFinish
  PROVE  RangeInv'
<1>1. pc = "move" /\ pc' = "disable" /\ UNCHANGED <<prog, plan, start, cmd>>
  BY DEF MockFinish, Disable, Enter
<1> QED BY <1>1, RangeStep

\* Between two positions inside the limits all are.
LEMMA InsideAmid ==
  ASSUME NEW m \in Motors, NEW a \in Int, NEW b \in Int, NEW x \in Int,
         Inside(m, a), Inside(m, b), Amid(a, x, b)
  PROVE  Inside(m, x)
<1>1. Limits[m].lo \in Int /\ Limits[m].hi \in Int
  BY PositionsAssumption
<1> QED BY <1>1 DEF Inside, Amid

LEMMA PartAmid ==
  ASSUME NEW a \in Int, NEW b \in Int, NEW p \in Int, NEW n \in Nat \ {0}, 0 <= p, p <= n
  PROVE  a + ((b - a) * p) \div n \in Int /\ Amid(a, a + ((b - a) * p) \div n, b)
<1> DEFINE y == a + ((b - a) * p) \div n
<1>1. y \in Int /\ (IF a <= b THEN a <= y /\ y <= b ELSE b <= y /\ y <= a)
  BY PartOfTheWay
<1> HIDE DEF y
<1>2. Amid(a, y, b)
  BY <1>1 DEF Amid
<1> QED BY <1>1, <1>2 DEF y

LEMMA WayInside ==
  ASSUME NEW m \in Motors, NEW a \in Int, NEW b \in Int, Inside(m, a), Inside(m, b),
         NEW p \in Int, 0 <= p, p <= 10000
  PROVE  Between(a, b, p) \in Int /\ Inside(m, Between(a, b, p))
<1>1. Between(a, b, p) \in Int /\ Amid(a, Between(a, b, p), b)
  BY Ways
<1> QED BY <1>1, InsideAmid

\* Every point of a scan is inside, and what comes between two of them.
LEMMA FitInRange ==
  ASSUME IInv, RangeInv, prog = "fit", Moving
  PROVE  plan.extra.motor \in Motors /\ InRange(plan.extra.motor, FitPosition)
<1> DEFINE scan == plan.extra
           mo == scan.motor
           n == scan.ramp + scan.hold
           point == i \div n
           rest == i % n
           k == Min({scan.ramp, rest + 1})
           Target(p) == scan.from + ((scan.to - scan.from) * p) \div (scan.points - 1)
           from == IF point = 0 THEN start[mo] ELSE Target(point - 1)
           t == (100 * k) \div scan.ramp
<1>1. /\ scan \in Scans /\ scan.points >= 3 /\ plan.steps = scan.points * n
      /\ Inside(mo, scan.from) /\ Inside(mo, scan.to) /\ i \in Nat /\ i < plan.steps
  BY DEF Moving, RangeInv, PlanBounds, IInv, TypeOK
<1>2. /\ mo \in Motors /\ scan.from \in Int /\ scan.to \in Int /\ scan.points \in Int
      /\ scan.ramp \in Nat \ {0} /\ scan.hold \in Nat \ {0}
  BY <1>1, ArgumentsAssumption
<1>3. n \in Nat \ {0}
  BY <1>2
<1>4. FitPosition = Between(from, Target(point), Progress(t))
  BY DEF FitPosition
<1>5. i < scan.points * n
  BY <1>1
<1> HIDE DEF n
<1>6. point \in Int /\ 0 <= point /\ point < scan.points /\ rest \in Int /\ 0 <= rest
  BY <1>1, <1>2, <1>3, <1>5, QuotientBounds
<1>7. ASSUME NEW p \in Int, 0 <= p, p <= scan.points - 1
      PROVE  Target(p) \in Int /\ Inside(mo, Target(p))
  <2> DEFINE a == scan.from
             b == scan.to
             d == scan.points - 1
  <2>1. d \in Nat \ {0} /\ p <= d /\ a \in Int /\ b \in Int
    BY <1>1, <1>2, <1>7
  <2>2. Target(p) = a + ((b - a) * p) \div d
    OBVIOUS
  <2> HIDE DEF a, b, d, Target
  <2>3. a + ((b - a) * p) \div d \in Int /\ Amid(a, a + ((b - a) * p) \div d, b)
    BY <1>7, <2>1, PartAmid
  <2>4. Target(p) \in Int /\ Amid(a, Target(p), b)
    BY <2>2, <2>3
  <2> HIDE DEF mo, scan
  <2> QED BY <1>1, <1>2, <2>1, <2>4, InsideAmid DEF a, b
<1> HIDE DEF point, rest
<1>8. t \in Int /\ 0 <= t /\ t <= 100
  <2> DEFINE ramp == scan.ramp
  <2>1. k \in Int /\ 0 <= k /\ k <= ramp
    BY <1>2, <1>6, MinOfTwo
  <2>2. ramp \in Nat \ {0}
    BY <1>2
  <2> HIDE DEF k, ramp
  <2>3. 100 * k \in Int /\ 0 <= 100 * k /\ 100 * k <= 100 * ramp
    BY <2>1, <2>2
  <2>4. (100 * k) \div ramp \in Int /\ 0 <= (100 * k) \div ramp /\ (100 * k) \div ramp <= 100
    BY <2>2, <2>3, QuotientBounds
  <2> QED BY <2>4 DEF ramp
<1> HIDE DEF t, k
<1>9. Progress(t) \in Int /\ 0 <= Progress(t) /\ Progress(t) <= 10000
  BY <1>8, ProgressBounds
<1>10. Target(point) \in Int /\ Inside(mo, Target(point))
  BY <1>2, <1>6, <1>7
<1>11. CASE point = 0
  <2>1. from = start[mo] /\ Allowed(mo, Target(point))
    BY <1>10, <1>11 DEF Allowed
  <2> HIDE DEF from, Target, mo, scan
  <2>2. InRange(mo, Between(start[mo], Target(point), Progress(t)))
    BY <1>2, <1>9, <1>10, <2>1, WayInRange
  <2> QED BY <1>2, <1>4, <2>1, <2>2 DEF mo, scan
<1>12. CASE point # 0
  <2>1. Target(point - 1) \in Int /\ Inside(mo, Target(point - 1))
    <3>1. point - 1 \in Int /\ 0 <= point - 1 /\ point - 1 <= scan.points - 1
      BY <1>2, <1>6, <1>12
    <3> HIDE DEF Target
    <3> QED BY <1>7, <3>1
  <2>2. from = Target(point - 1)
    BY <1>12
  <2> HIDE DEF from, Target, mo, scan
  <2>3. PICK a \in Int : a = from /\ Inside(mo, a)
    BY <2>1, <2>2
  <2>4. PICK b \in Int : b = Target(point) /\ Inside(mo, b)
    BY <1>10
  <2>5. PICK p \in Int : p = Progress(t) /\ 0 <= p /\ p <= 10000
    BY <1>9
  <2>6. mo \in Motors /\ Inside(mo, a) /\ Inside(mo, b) /\ 0 <= p /\ p <= 10000
    BY <1>2, <2>3, <2>4, <2>5
  <2>7. Between(a, b, p) \in Int /\ Inside(mo, Between(a, b, p))
    BY <2>6, WayInside
  <2>8. InRange(mo, Between(a, b, p))
    BY <1>2, <2>7, AllowedInRange DEF Allowed
  <2> QED BY <1>2, <1>4, <2>3, <2>4, <2>5, <2>8 DEF mo, scan
<1> QED BY <1>11, <1>12

LEMMA FitRange ==
  ASSUME IInv, RangeInv, prog = "fit", FitMove
  PROVE  RangeInv'
<1> DEFINE mo == plan.extra.motor
           pos == [cmd.pos EXCEPT ![mo] = FitPosition]
<1>1. Moving /\ pc = "move"
  BY DEF FitMove, Run, Moving
<1>2. mo \in Motors /\ InRange(mo, FitPosition)
  BY <1>1, FitInRange
<1>3. cmd.enabled
  BY <1>1 DEF IInv, CountInv
<1>4. \A m \in DOMAIN cmd.pos : InRange(m, cmd.pos[m])
  BY <1>3 DEF RangeInv, CommandsInRange, Controlled, InRange
<1>5. \A m \in DOMAIN pos : m \in DOMAIN cmd.pos /\ pos[m] = IF m = mo THEN FitPosition ELSE cmd.pos[m]
  OBVIOUS
<1>6. \A m \in DOMAIN pos : InRange(m, pos[m])
  BY <1>2, <1>4, <1>5
<1>7. Run(pos)
  BY DEF FitMove
<1> HIDE DEF pos
<1> QED BY <1>6, <1>7, RunRange

\* The jump's end was compared with the limits when its motor was found.
LEMMA JumpRange ==
  ASSUME IInv, RangeInv, prog = "jump", JumpMove
  PROVE  RangeInv'
<1> DEFINE mo == plan.extra.motor
           pos == IF i < plan.extra.baseline THEN start ELSE [start EXCEPT ![mo] = JumpFinal]
<1>1. pc = "move"
  BY DEF JumpMove, Run, Moving
<1>2. mo \in Motors /\ plan.extra.step \in Int /\ Inside(mo, JumpFinal)
  BY <1>1, ArgumentsAssumption DEF RangeInv, PlanBounds
<1>3. InRange(mo, JumpFinal)
  <2>1. start[mo] \in Int
    BY <1>2 DEF RangeInv
  <2>2. JumpFinal \in Int
    BY <1>2, <2>1 DEF JumpFinal
  <2> QED BY <1>2, <2>2, AllowedInRange DEF Allowed
<1>4. \A m \in DOMAIN start : InRange(m, start[m])
  BY StartInRange
<1>5. \A m \in DOMAIN pos : m \in DOMAIN start /\ (pos[m] = start[m] \/ (m = mo /\ pos[m] = JumpFinal))
  <2>1. CASE i < plan.extra.baseline
    <3>1. pos = start
      BY <2>1
    <3> HIDE DEF pos
    <3> QED BY <3>1
  <2>2. CASE ~(i < plan.extra.baseline)
    <3>1. pos = [start EXCEPT ![mo] = JumpFinal]
      BY <2>2
    <3> HIDE DEF pos
    <3> QED BY <3>1
  <2> QED BY <2>1, <2>2
<1>6. \A m \in DOMAIN pos : InRange(m, pos[m])
  BY <1>3, <1>4, <1>5
<1>7. Run(pos)
  BY DEF JumpMove
<1> HIDE DEF pos
<1> QED BY <1>6, <1>7, RunRange

\* The probe finds its motor, and compares its target with the limits.
LEMMA ProbeWaitRange ==
  ASSUME IInv, RangeInv, prog = "probe", ProbeWait
  PROVE  RangeInv'
<1>1. pc = "settle" /\ UNCHANGED <<prog, plan, cmd>> /\ ~cmd.enabled
  BY DEF ProbeWait, IInv, PhaseInv
<1>2. CASE start' = start /\ pc' \in {"settle", "exit"}
  BY <1>1, <1>2, RangeStep
<1>3. CASE start' \in Starts /\ pc' = "exit"
  <2>1. start' \in [Motors -> Int]
    BY <1>3, PositionsAssumption
  <2> QED BY <1>1, <1>3, <2>1 DEF RangeInv, CommandsInRange, ProbeMoves
<1>4. CASE /\ start' \in Starts /\ Inside(ProbeMotor, Final(ProbeMotor)')
           /\ pc' \in {"prepare", "move"} /\ i' = 0
  <2>1. start' \in [Motors -> Int]
    BY <1>4, PositionsAssumption
  <2>2. PlanBounds(prog', plan')
    BY <1>1 DEF RangeInv
  <2>3. plan'.ramp \in Nat \ {0}
    BY <1>1, <2>2, ProbesAssumption DEF PlanBounds
  <2>4. Inside(ProbeMotor, Final(ProbeMotor))'
    BY <1>1, <1>4 DEF ProbeMotor, Inside
  <2>5. i' <= plan'.ramp
    BY <1>4, <2>3
  <2> QED BY <1>1, <1>4, <2>1, <2>2, <2>4, <2>5 DEF RangeInv, CommandsInRange
<1>5. \/ start' = start /\ pc' \in {"settle", "exit"}
      \/ start' \in Starts /\ pc' = "exit"
      \/ /\ start' \in Starts /\ Inside(ProbeMotor, Final(ProbeMotor)')
         /\ pc' \in {"prepare", "move"} /\ i' = 0
  <2>1. CASE i = SettleSamples /\ Exit(1) /\ UNCHANGED <<i, ready, missed, start, seen>>
    BY <2>1 DEF Exit
  <2>2. ASSUME NEW s \in ProbeSamples,
               \/ ~OperationReady(s) /\ i' = i + 1 /\ UNCHANGED <<pc, ready, missed, start, code>>
               \/ /\ OperationReady(s)
                  /\ start' \in Starts
                  /\ LET target == Final(ProbeMotor)' IN
                     IF ~Inside(ProbeMotor, target) THEN Exit(1) /\ UNCHANGED <<i, ready, missed>>
                     ELSE /\ UNCHANGED code
                          /\ Enter(IF Abs(target - start'[ProbeMotor]) > 349 THEN "prepare" ELSE "move")
        PROVE  \/ start' = start /\ pc' \in {"settle", "exit"}
               \/ start' \in Starts /\ pc' = "exit"
               \/ /\ start' \in Starts /\ Inside(ProbeMotor, Final(ProbeMotor)')
                  /\ pc' \in {"prepare", "move"} /\ i' = 0
    BY <1>1, <2>2 DEF Exit, Enter
  <2> QED BY <2>1, <2>2 DEF ProbeWait
<1> QED BY <1>2, <1>3, <1>4, <1>5

\* What the probe takes of its plan once it moves.
LEMMA ProbeParts ==
  ASSUME RangeInv, prog = "probe", pc \in ProbeMoves
  PROVE  /\ ProbeMotor \in Motors /\ plan.ramp \in Nat \ {0} /\ start[ProbeMotor] \in Int
         /\ Final(ProbeMotor) \in Int /\ Allowed(ProbeMotor, Final(ProbeMotor))
         /\ InRange(ProbeMotor, Final(ProbeMotor))
<1>1. /\ plan.extra \in Probes /\ plan.goal = plan.extra.goal /\ plan.ramp = plan.extra.ramp
      /\ Inside(ProbeMotor, Final(ProbeMotor))
  BY DEF RangeInv, PlanBounds, ProbeMoves
<1>2. ProbeMotor \in Motors /\ plan.ramp \in Nat \ {0}
  BY <1>1, ProbesAssumption DEF ProbeMotor
<1>3. start[ProbeMotor] \in Int
  BY <1>2 DEF RangeInv
<1>4. Final(ProbeMotor) \in Int
  BY <1>1, <1>3, ProbesAssumption DEF Final
<1>5. Allowed(ProbeMotor, Final(ProbeMotor))
  BY <1>1, <1>4 DEF Allowed
<1> QED BY <1>2, <1>3, <1>4, <1>5, AllowedInRange

LEMMA ProbeSent ==
  ASSUME NEW pos, NEW tor, ProbeSend(pos, tor), InRange(ProbeMotor, pos)
  PROVE  \A m \in DOMAIN cmd'.pos : InRange(m, cmd'.pos[m])
<1>1. cmd'.pos = [m \in {ProbeMotor} |-> pos]
  BY DEF ProbeSend, SendEnabled
<1> QED BY <1>1

\* A part of the way to the target, as far as the clock says.
LEMMA ProbeWay ==
  ASSUME IInv, RangeInv, prog = "probe", pc = "prepare"
  PROVE  InRange(ProbeMotor, start[ProbeMotor]
                    + ((Final(ProbeMotor) - start[ProbeMotor]) * i) \div plan.ramp)
<1>1. /\ ProbeMotor \in Motors /\ plan.ramp \in Nat \ {0} /\ start[ProbeMotor] \in Int
      /\ Final(ProbeMotor) \in Int /\ Allowed(ProbeMotor, Final(ProbeMotor))
  BY ProbeParts DEF ProbeMoves
<1>2. i \in Int /\ 0 <= i /\ i <= plan.ramp
  BY DEF IInv, TypeOK, RangeInv
<1>3. PICK a \in Int : a = start[ProbeMotor]
  BY <1>1
<1>4. PICK b \in Int : b = Final(ProbeMotor)
  BY <1>1
<1>5. PICK n \in Nat \ {0} : n = plan.ramp
  BY <1>1
<1>6. i <= n
  BY <1>2, <1>5
<1>7. a + ((b - a) * i) \div n \in Int /\ Amid(a, a + ((b - a) * i) \div n, b)
  BY <1>2, <1>6, PartAmid
<1> DEFINE y == a + ((b - a) * i) \div n
<1>8. y \in Int /\ Amid(start[ProbeMotor], y, Final(ProbeMotor))
  BY <1>3, <1>4, <1>7
<1> HIDE DEF y
<1>9. InRange(ProbeMotor, y)
  BY <1>1, <1>8, Reach
<1> QED BY <1>3, <1>4, <1>5, <1>9 DEF y

LEMMA ProbeRange ==
  ASSUME IInv, RangeInv, prog = "probe",
         ProbePrepare \/ ProbeArrive \/ ProbePhase \/ ProbePhasesEnd \/ ProbeFinish
  PROVE  RangeInv'
<1>1. CASE ProbePrepare
  <2> DEFINE pos == start[ProbeMotor]
                      + ((Final(ProbeMotor) - start[ProbeMotor]) * i) \div plan.ramp
  <2>1. pc = "prepare" /\ UNCHANGED <<prog, plan, start>>
    BY <1>1 DEF ProbePrepare
  <2>2. InRange(ProbeMotor, pos)
    BY <2>1, ProbeWay
  <2>3. plan.ramp \in Nat \ {0}
    BY <2>1, ProbeParts DEF ProbeMoves
  <2>4. \/ stop /\ Enter("arrive") /\ cmd' = cmd
        \/ /\ ProbeSend(pos, 0)
           /\ \/ Disable(1)
              \/ i' \in i + 1 .. plan.ramp /\ pc' = pc
              \/ Enter("arrive")
    BY <1>1 DEF ProbePrepare
  <2> HIDE DEF pos
  <2>5. cmd' = cmd \/ \A m \in DOMAIN cmd'.pos : InRange(m, cmd'.pos[m])
    BY <2>2, <2>4, ProbeSent
  <2>6. pc' \in {"prepare", "arrive", "disable"} /\ (pc' = "prepare" => i' <= plan.ramp)
    <3>1. i \in Nat
      BY DEF IInv, TypeOK
    <3> QED BY <2>1, <2>3, <2>4, <3>1 DEF Enter, Disable
  <2> QED BY <2>1, <2>5, <2>6, RangeStep DEF ProbeMoves
<1>2. CASE ProbeArrive
  <2>1. /\ pc = "arrive" /\ pc' = "move" /\ UNCHANGED <<prog, plan, start>>
        /\ ProbeSend(Final(ProbeMotor), 0)
    BY <1>2 DEF ProbeArrive, Enter
  <2>2. \A m \in DOMAIN cmd'.pos : InRange(m, cmd'.pos[m])
    BY <2>1, ProbeParts, ProbeSent DEF ProbeMoves
  <2> QED BY <2>1, <2>2, RangeStep DEF ProbeMoves
<1>3. CASE ProbePhase
  <2>1. /\ pc = "move" /\ pc' \in {"move", "finish"} /\ UNCHANGED <<prog, plan, start>>
        /\ \E tor : ProbeSend(Final(ProbeMotor), tor)
    BY <1>3 DEF ProbePhase, Moving, Enter
  <2>2. \A m \in DOMAIN cmd'.pos : InRange(m, cmd'.pos[m])
    BY <2>1, ProbeParts, ProbeSent DEF ProbeMoves
  <2> QED BY <2>1, <2>2, RangeStep DEF ProbeMoves
<1>4. CASE ProbePhasesEnd
  <2>1. pc = "move" /\ pc' = "finish" /\ UNCHANGED <<prog, plan, start, cmd>>
    BY <1>4 DEF ProbePhasesEnd, Enter
  <2> QED BY <2>1, RangeStep DEF ProbeMoves
<1>5. CASE ProbeFinish
  <2>1. /\ pc = "finish" /\ pc' = "disable" /\ UNCHANGED <<prog, plan, start>>
        /\ ProbeSend(Final(ProbeMotor), 0)
    BY <1>5 DEF ProbeFinish, Enter
  <2>2. \A m \in DOMAIN cmd'.pos : InRange(m, cmd'.pos[m])
    BY <2>1, ProbeParts, ProbeSent DEF ProbeMoves
  <2> QED BY <2>1, <2>2, RangeStep DEF ProbeMoves
<1> QED BY <1>1, <1>2, <1>3, <1>4, <1>5

\* Frames that disable.
LEMMA DisablingRange ==
  ASSUME IInv, RangeInv, Disabling \/ ProbeDisable
  PROVE  RangeInv'
<1>1. /\ pc = "disable" /\ pc' \in {"disable", "exit"} /\ UNCHANGED <<prog, plan, start>>
      /\ cmd' = [cmd EXCEPT !.enabled = FALSE, !.tor = 0]
  BY DEF Disabling, ProbeDisable, Exit
<1>2. cmd'.enabled = FALSE
  BY <1>1 DEF IInv, PhaseInv
<1> QED BY <1>1, <1>2, RangeStep

LEMMA RequestStopRange ==
  ASSUME RangeInv, RequestStop \/ UNCHANGED vars
  PROVE  RangeInv'
<1>1. UNCHANGED <<prog, plan, pc, i, start, cmd>>
  BY DEF RequestStop, vars
<1> QED BY <1>1 DEF RangeInv, CommandsInRange, ProbeMotor, Final, JumpFinal, Inside

\* Every step keeps the range.
LEMMA NextRange ==
  ASSUME SolveGivesNumbers, IInv, RangeInv, [Next]_vars
  PROVE  RangeInv'
<1>1. CASE RequestStop \/ UNCHANGED vars
  BY <1>1, RequestStopRange
<1>2. CASE Hold
  <2>1. CASE Begin("hold", HoldArgs)
    BY <2>1, BeginRange, OtherBounds
  <2>2. CASE prog = "hold" /\ (HoldSettle \/ HoldEnable \/ HoldMove \/ HoldFinish)
    BY <2>2, SettleRange, EnableRange, HoldRange, FinishRange DEF HoldSettle, HoldEnable, HoldFinish
  <2> QED BY <1>2, <2>1, <2>2 DEF Hold
<1>3. CASE Position
  <2>1. CASE Begin("position", PositionArgs)
    BY <2>1, BeginRange, PositionBounds
  <2>2. CASE prog = "position" /\ (PositionSettle \/ PositionEnable \/ PositionMove \/ PositionFinish)
    BY <2>2, SettleRange, EnableRange, PositionRange, FinishRange
       DEF PositionSettle, PositionEnable, PositionFinish
  <2> QED BY <1>3, <2>1, <2>2 DEF Position
<1>4. CASE Path
  <2>1. CASE Begin("path", PathArgs)
    BY <2>1, BeginRange, PathBounds
  <2>2. CASE prog = "path" /\ (PathSettle \/ PathEnable \/ PathMove \/ PathFinish)
    BY <2>2, PathSettleRange, EnableRange, PathRange, FinishRange DEF PathEnable, PathFinish
  <2> QED BY <1>4, <2>1, <2>2 DEF Path
<1>5. CASE Joint
  <2>1. CASE Begin("joint", JointArgs)
    BY <2>1, BeginRange, JointBounds
  <2>2. CASE prog = "joint" /\ (JointSettle \/ JointEnable \/ JointMove \/ JointFinish)
    BY <2>2, SettleRange, EnableRange, JointRange, FinishRange DEF JointSettle, JointEnable, JointFinish
  <2> QED BY <1>5, <2>1, <2>2 DEF Joint
<1>6. CASE Mock
  <2>1. CASE Begin("mock", MockArgs)
    BY <2>1, BeginRange, MockBounds
  <2>2. CASE prog = "mock" /\ (MockSettle \/ MockEnable \/ MockMove \/ MockFinish)
    BY <2>2, SettleRange, EnableRange, MockRange, MockFinishRange DEF MockSettle, MockEnable
  <2> QED BY <1>6, <2>1, <2>2 DEF Mock
<1>7. CASE Fit
  <2>1. CASE Begin("fit", FitArgs)
    BY <2>1, BeginRange, FitBounds
  <2>2. CASE prog = "fit" /\ (FitSettle \/ FitEnable \/ FitMove \/ FitFinish)
    BY <2>2, SettleRange, FitEnableRange, FitRange, FinishRange DEF FitSettle, FitFinish
  <2> QED BY <1>7, <2>1, <2>2 DEF Fit
<1>8. CASE Jump
  <2>1. CASE Begin("jump", JumpArgs)
    BY <2>1, BeginRange, OtherBounds
  <2>2. CASE prog = "jump" /\ (JumpSettle \/ JumpEnable \/ JumpMove \/ JumpFinish)
    BY <2>2, JumpSettleRange, EnableRange, JumpRange, FinishRange DEF JumpEnable, JumpFinish
  <2> QED BY <1>8, <2>1, <2>2 DEF Jump
<1>9. CASE Probe
  <2>1. CASE Begin("probe", ProbeArgs)
    BY <2>1, BeginRange, OtherBounds
  <2>2. CASE prog = "probe" /\ (ProbeWait \/ ProbePrepare \/ ProbeArrive \/ ProbePhase
                                \/ ProbePhasesEnd \/ ProbeFinish \/ ProbeDisable)
    BY <2>2, ProbeWaitRange, ProbeRange, DisablingRange
  <2> QED BY <1>9, <2>1, <2>2 DEF Probe
<1>10. CASE prog # "probe" /\ Disabling
  BY <1>10, DisablingRange
<1> QED BY <1>1, <1>2, <1>3, <1>4, <1>5, <1>6, <1>7, <1>8, <1>9, <1>10 DEF Next, Program

\* Whatever a program is asked for, at every period and ramp, and wherever the
\* motors are found: no enabled frame leaves what lies between the captured
\* position and the configured limits, while limits are compared when plans are
\* made and frames are made later, if the kinematics give numbers.
THEOREM MotorsStayInRange ==
  ASSUME SolveGivesNumbers
  PROVE  Spec => []CommandsInRange
<1>1. Init => RangeInv
  BY DEF Init, RangeInv, CommandsInRange, ProbeMoves
<1>2. IInv /\ RangeInv /\ [Next]_vars => RangeInv'
  BY NextRange
<1>3. RangeInv => CommandsInRange
  BY DEF RangeInv
<1> QED BY <1>1, <1>2, <1>3, Invariance, PTL DEF Spec
=============================================================================
