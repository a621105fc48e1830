---------------------------- MODULE MotionProgram ----------------------------
(***************************************************************************)
(* The bench programs of examples/ that move motors through the SDK.       *)
(* One of them runs: it waits until feedback is good, captures where the   *)
(* motors are, enables them there, moves them along a ramp, a joint path,  *)
(* a scan, a step or a torque test while watching their feedback, disables *)
(* them; a signal may ask it to stop at any time.  The programs share      *)
(* their phases (Settle, Enable, Run, Disabling) and differ in what they   *)
(* accept, where they send the motors and what they do about feedback.     *)
(*                                                                         *)
(* A sample says of each motor whether its feedback is lost, reports a     *)
(* fault, or shows the drive off or on.  Positions are in 0.1 mrad, times  *)
(* in ms.  Torques are those of rmd_mit_torque_probe.                      *)
(***************************************************************************)
EXTENDS Integers, Sequences, FiniteSets, FiniteSetsExt

CONSTANTS Motors,         \* active motors
          Limits,         \* configured [lo, hi] of each motor
          Starts,         \* positions the motors may be found at
          Requests,       \* motor=position arguments, partial functions
          Timings,        \* <<ramp_ms, hold_ms or duration_ms>> arguments
          JointRequests,  \* joint targets of rmd_ecat_joint_targets
          Scans,          \* arguments of rmd_ecat_pvt_torque_fit
          Jumps,          \* arguments of rmd_ecat_step_response_test
          Probes,         \* arguments of rmd_mit_torque_probe
          Period,         \* period_ms, or 1000 / policy_hz
          SettleSamples,  \* settle_samples; the patience of waitForActual
          ReadySamples,   \* good samples in a row that count as settled
          MissLimit,      \* MaxConsecutiveMissedFeedback
          Repeats,        \* frames sent to disable
          Drift,          \* an enabled motor moves no further from its target
          Solve(_), Solvable(_), \* leg motors of joint targets; no exception
          MaxStep         \* largest step of a ramp or path, for StepBounded

ASSUME CountAssumption ==
  /\ SettleSamples \in Nat /\ ReadySamples \in Nat \ {0}
  /\ MissLimit \in Nat \ {0} /\ Repeats \in Nat \ {0} /\ Period \in Nat \ {0}

ASSUME PositionsAssumption ==
  /\ Drift \in Nat
  /\ \A m \in Motors : Limits[m].lo \in Int /\ Limits[m].hi \in Int
  /\ Starts \subseteq [Motors -> Int]
  /\ \A r \in Requests : \A m \in DOMAIN r : r[m] \in Int

ASSUME ArgumentsAssumption ==
  /\ Timings \subseteq Nat \X (Nat \ {0})
  /\ JointRequests \subseteq [hip : Int, knee : Int, pitch : Int, roll : Int]
  /\ \A c \in Scans : /\ c.motor \in Motors /\ c.from \in Int /\ c.to \in Int /\ c.points \in Int
                      /\ c.ramp \in Nat \ {0} /\ c.hold \in Nat \ {0}
  /\ \A j \in Jumps : j.motor \in Motors /\ j.step \in Int

ASSUME ProbesAssumption ==
  \A p \in Probes : /\ p.motor \in Motors /\ \A m \in DOMAIN p.goal : p.goal[m] \in Int
                    /\ p.ramp \in Nat \ {0} /\ p.samples \in Nat \ {0}

VARIABLES prog, plan, \* the program, what its arguments ask for
          pc,         \* its phase
          i, ready, missed, \* loop index, consecutive good and bad samples
          start,      \* startPositions
          stop,       \* gStopRequested
          cmd,        \* the last frame given to setMotorTarget
          code,       \* exit code
          good, on,   \* good and operational samples seen in a row
          blind,      \* enabled frames since the last operational sample
          late        \* enabled frames sent in spite of a stop request

seen == <<good, on, blind>>
vars == <<prog, plan, pc, i, ready, missed, start, stop, cmd, code, seen, late>>

NoPlan == [goal |-> <<>>, ramp |-> 0, steps |-> 0, every |-> 1, misses |-> 1, extra |-> <<>>]

Init ==
  /\ prog = "none" /\ plan = NoPlan /\ pc = "args"
  /\ i = 0 /\ ready = 0 /\ missed = 0 /\ start = [m \in Motors |-> 0]
  /\ stop = FALSE /\ cmd = [enabled |-> FALSE, pos |-> [m \in Motors |-> 0], tor |-> 0]
  /\ code = 0 /\ good = 0 /\ on = 0 /\ blind = 0 /\ late = 0

-----------------------------------------------------------------------------
(* Feedback *)

Samples == [Motors -> {"lost", "fault", "off", "on"}]

FeedbackReady(s) == \A m \in Motors : s[m] \in {"off", "on"}

OperationReady(s) == \A m \in Motors : s[m] = "on"

\* Bug: a bad sample does not start the count again.
Consecutive_NoReset(isReady, count) == IF isReady THEN count + 1 ELSE count

\* recordConsecutiveReady
Consecutive(isReady, count) == IF isReady THEN count + 1 ELSE 0

Upto(n) == Min({n, ReadySamples})

\* Feedback s is seen after and before so many enabled frames.
See(s, after, before) ==
  blind' = (IF OperationReady(s) THEN 0 ELSE blind + after) + before

\* good and on count up to the motion, and rest then.
Count(s) ==
  /\ good' = IF FeedbackReady(s) THEN Upto(good + 1) ELSE 0
  /\ on' = IF OperationReady(s) THEN Upto(on + 1) ELSE 0

\* smoothRampProgress and minimumJerkProgress of t hundredths, in 1/10000.
Progress(t) == (((t * t * t) \div 100) * (100000 - 1500 * t + 6 * t * t)) \div 10000

Between(a, b, progress) == a + ((b - a) * progress) \div 10000

\* smoothRampProgressForElapsed
RampProgress(elapsed, ramp) ==
  IF ramp <= 0 THEN 10000 ELSE Progress(Min({100, (100 * elapsed) \div ramp}))

-----------------------------------------------------------------------------
(* Phases the programs share *)

Exit(c) == pc' = "exit" /\ code' = c

Abs(x) == IF x < 0 THEN -x ELSE x

Enter(phase) == pc' = phase /\ i' = 0 /\ ready' = 0 /\ missed' = 0

\* disableMotors, then exit with c.
Disable(c) == Enter("disable") /\ code' = c

\* A signal may come after a loop has looked at the flag and before it sends.
SignalBeforeSend == stop' \in {stop, TRUE}

SendEnabled(pos, tor) ==
  /\ cmd' = [enabled |-> TRUE, pos |-> pos, tor |-> tor]
  /\ late' = IF stop' THEN late + 1 ELSE late

Begin(p, accepted) ==
  /\ pc = "args" /\ prog' = p
  /\ \/ plan' \in accepted /\ pc' = "settle" /\ UNCHANGED code
     \/ UNCHANGED plan /\ \E c \in {1, 2} : Exit(c)
  /\ UNCHANGED <<i, ready, missed, start, stop, cmd, seen, late>>

\* Wait for ReadySamples good samples in a row, at once or at the end.
Settling(breaks) == ~stop /\ i < SettleSamples /\ (breaks => ready < ReadySamples)

\* Bug: a bad sample starts the patience again.
Settle_Restarts(breaks) ==
  /\ pc = "settle"
  /\ \/ /\ Settling(breaks)
        /\ \E s \in Samples :
             /\ See(s, 0, 0) /\ Count(s) /\ ready' = Consecutive(FeedbackReady(s), ready)
             /\ i' = IF FeedbackReady(s) THEN i + 1 ELSE 0
        /\ UNCHANGED <<pc, missed, start, code>>
     \/ /\ ~Settling(breaks) /\ (stop \/ ready < ReadySamples)
        /\ Exit(IF stop THEN 130 ELSE 1)
        /\ UNCHANGED <<i, ready, missed, start, seen>>
     \/ /\ ~Settling(breaks) /\ ~stop /\ ready >= ReadySamples
        /\ start' \in Starts
        /\ Enter("enable")
        /\ UNCHANGED <<code, seen>>
  /\ UNCHANGED <<prog, plan, stop, cmd, late>>

Settle(breaks) ==
  /\ pc = "settle"
  /\ \/ /\ Settling(breaks)
        /\ \E s \in Samples : See(s, 0, 0) /\ Count(s) /\ ready' = Consecutive(FeedbackReady(s), ready)
        /\ i' = i + 1
        /\ UNCHANGED <<pc, missed, start, code>>
     \/ /\ ~Settling(breaks) /\ (stop \/ ready < ReadySamples)
        /\ Exit(IF stop THEN 130 ELSE 1)
        /\ UNCHANGED <<i, ready, missed, start, seen>>
     \/ /\ ~Settling(breaks) /\ ~stop /\ ready >= ReadySamples
        /\ start' \in Starts
        /\ Enter("enable")
        /\ UNCHANGED <<code, seen>>
  /\ UNCHANGED <<prog, plan, stop, cmd, late>>

\* Command the captured positions until every drive reports operation.  A
\* refused frame ends the program; the frames that disable are not refused.
Enabling == ~stop /\ i < SettleSamples /\ ready < ReadySamples

Enable(rereads) ==
  /\ pc = "enable"
  /\ \/ /\ Enabling
        /\ SignalBeforeSend /\ SendEnabled(start, 0)
        /\ \E s \in Samples : See(s, 1, 0) /\ Count(s) /\ ready' = Consecutive(OperationReady(s), ready)
        /\ i' = i + 1
        /\ UNCHANGED <<pc, missed, start, code>>
     \/ Enabling /\ Disable(1) /\ UNCHANGED <<start, stop, cmd, late, seen>>
     \/ /\ ~Enabling /\ (stop \/ ready < ReadySamples)
        /\ Disable(IF stop THEN 130 ELSE 1)
        /\ UNCHANGED <<start, stop, cmd, late, seen>>
     \/ /\ ~Enabling /\ ~stop /\ ready >= ReadySamples
        /\ start' \in rereads
        /\ Enter("move")
        /\ UNCHANGED <<stop, cmd, late, seen, code>>
  /\ UNCHANGED <<prog, plan>>

Moving == pc = "move" /\ ~stop /\ i < plan.steps

Monitored == i % plan.every = 0 \/ i + 1 = plan.steps

\* Bug: one more is needed.
TooManyMissed_OneLate(s) == ~OperationReady(s) /\ missed >= plan.misses

\* Too many monitored samples in a row without operation end the motion.
TooManyMissed(s) == ~OperationReady(s) /\ missed + 1 >= plan.misses

\* Bug: a good sample makes up for one bad sample only.
Advance_Forgives(s) ==
  /\ missed' = IF OperationReady(s) THEN missed - 1 ELSE missed + 1
  /\ i' = i + 1
  /\ UNCHANGED <<pc, code, ready>>

Advance(s) ==
  /\ missed' = IF OperationReady(s) THEN 0 ELSE missed + 1
  /\ i' = i + 1
  /\ UNCHANGED <<pc, code, ready>>

\* Bug: the motors stay enabled.
Watch_Exits(s) ==
  IF TooManyMissed(s) THEN Exit(1) /\ UNCHANGED <<i, ready, missed>> ELSE Advance(s)

Watch(s) == IF TooManyMissed(s) THEN Disable(1) ELSE Advance(s)

\* One iteration of a motion loop: send pos, then look at the feedback.
Run(pos) ==
  /\ Moving
  /\ \/ /\ SignalBeforeSend /\ SendEnabled(pos, 0)
        /\ \/ Monitored /\ \E s \in Samples : See(s, 1, 0) /\ Watch(s)
           \/ /\ ~Monitored
              /\ i' = i + 1 /\ blind' = blind + 1
              /\ UNCHANGED <<pc, code, ready, missed>>
     \/ Disable(1) /\ UNCHANGED <<stop, cmd, late, blind>>
  /\ UNCHANGED <<prog, plan, start, good, on>>

Finish(c) ==
  /\ pc = "move" /\ ~Moving
  /\ Disable(c)
  /\ UNCHANGED <<prog, plan, start, stop, cmd, late, seen>>

\* disableMotors
Disabling ==
  /\ pc = "disable"
  /\ cmd' = [cmd EXCEPT !.enabled = FALSE, !.tor = 0]
  /\ i' = i + 1
  /\ pc' = IF i + 1 >= Repeats THEN "exit" ELSE pc
  /\ UNCHANGED <<prog, plan, ready, missed, start, stop, code, seen, late>>

\* Requested positions, or the captured one.
Final(m) == IF m \in DOMAIN plan.goal THEN plan.goal[m] ELSE start[m]

Ramped(final, elapsed) ==
  [m \in Motors |-> Between(start[m], final[m], RampProgress(elapsed, plan.ramp))]

Inside(m, pos) == Limits[m].lo <= pos /\ pos <= Limits[m].hi

Within(positions) == \A m \in DOMAIN positions : Inside(m, positions[m])

PlanOf(goal, ramp, steps, every, misses, extra) ==
  [goal |-> goal, ramp |-> ramp, steps |-> Max({1, steps}), every |-> Max({1, every}),
   misses |-> misses, extra |-> extra]

-----------------------------------------------------------------------------
(* rmd_ecat_hold_position: stay, or ramp to zero; one miss is too many *)

HoldArgs ==
  {PlanOf(goal, t[1], t[2] \div Period, 100 \div Period, 1, <<>>) :
     goal \in {<<>>, [m \in Motors |-> 0]}, t \in Timings}

HoldSettle == Settle(TRUE)

HoldFinal == [m \in Motors |-> Final(m)]

HoldEnable == Enable({start})

HoldMove == Run(Ramped(HoldFinal, i * Period))

HoldFinish == Finish(0)

Hold ==
  \/ Begin("hold", HoldArgs)
  \/ prog = "hold" /\ (HoldSettle \/ HoldEnable \/ HoldMove \/ HoldFinish)

-----------------------------------------------------------------------------
(* rmd_ecat_position_targets: ramp to the requested positions *)

PositionArgs ==
  {PlanOf(goal, t[1], t[2] \div Period, 100 \div Period, MissLimit, <<>>) :
     goal \in {r \in Requests : Within(r)}, t \in Timings}

PositionSettle == Settle(TRUE)

PositionFinal == [m \in Motors |-> Final(m)]

PositionEnable == Enable({start})

PositionMove == Run(Ramped(PositionFinal, i * Period))

\* The timing file may not open.
PositionFinish == \E c \in {0, 1} : Finish(c)

Position ==
  \/ Begin("position", PositionArgs)
  \/ prog = "position" /\ (PositionSettle \/ PositionEnable \/ PositionMove \/ PositionFinish)

-----------------------------------------------------------------------------
(* Joint paths of the leg *)

Joints(hip, knee, pitch, roll) == [hip |-> hip, knee |-> knee, pitch |-> pitch, roll |-> roll]

At(ms, joints) == [ms |-> ms, joints |-> joints]

\* validateLegJointPath
ValidPath(path) ==
  path # <<>> /\ path[1].ms >= 0 /\ \A k \in 2 .. Len(path) : path[k - 1].ms < path[k].ms

\* sampleLegJointPath
SamplePath(path, ms) ==
  LET later == {k \in DOMAIN path : ms <= path[k].ms}
      k == Min(later)
      t == (100 * (ms - path[k - 1].ms)) \div (path[k].ms - path[k - 1].ms)
  IN CASE later = {} -> path[Len(path)].joints
       [] later # {} /\ k = 1 -> path[1].joints
       [] OTHER -> [j \in DOMAIN path[k].joints |->
                      Between(path[k - 1].joints[j], path[k].joints[j], Progress(t))]

\* Bug: the path does not come back to where it began.
Swing_OneWay(ms, from, to) == <<At(0, from), At(ms, to)>>

\* There and back again.
Swing(ms, from, to) == <<At(0, from), At(ms \div 2, to), At(ms, from)>>

RollSwing(step) ==
  [k \in 1 .. 4 |-> At((k - 1) * step, Joints(3500, -7000, 1750, <<0, 3500, -3500, 0>>[k]))]

KneeRange(step) ==
  [k \in 1 .. 9 |-> At((k - 1) * step,
     Joints(3500, <<0, -3000, -6000, -9000, -12000, -9000, -6000, -3000, 0>>[k], 3500, 0))]

AnklePitchSwing(ms) == Swing(ms, Joints(3500, -7000, 0, 0), Joints(3500, -7000, 3500, 0))

KneeAnkleSwing(ms) == Swing(ms, Joints(3500, -10000, 0, 0), Joints(3500, 0, 3500, 0))

KneePitchSwing(ms, deep) ==
  Swing(ms, Joints(3500, -7000, 3500, 0), Joints(3500, deep, 3500, 0))

Squat(ms) == Swing(ms, Joints(3500, -7000, 3500, 0), Joints(5000, -10000, 3800, 0))

\* The paths that repeat have a duration of their own.
RepeatedPaths ==
  [ankle_pitch_swing_repeat |-> AnklePitchSwing(4000),
   ankle_pitch_swing_fast_repeat |-> AnklePitchSwing(1600),
   ankle_roll_swing_fast_repeat |-> RollSwing(800),
   knee_ankle_swing_repeat |-> KneeAnkleSwing(8000),
   knee_ankle_swing_slow_repeat |-> KneeAnkleSwing(16000),
   knee_pitch_swing_repeat |-> KneePitchSwing(8000, -9000),
   knee_pitch_swing_deep_repeat |-> KneePitchSwing(10000, -10000),
   knee_pitch_range_fast_repeat |-> KneeRange(500),
   knee_pitch_range_faster_repeat |-> KneeRange(300),
   squat_repeat |-> Squat(12000),
   squat_slow_repeat |-> Squat(20000)]

PathForMode(mode, ms) ==
  CASE mode = "demo" -> Swing(ms, Joints(3500, -7000, 3500, 0), Joints(3700, -6800, 3300, 200))
    [] mode = "ankle_pitch_swing" -> AnklePitchSwing(ms)
    [] mode = "squat" -> Squat(ms)
    [] OTHER -> RepeatedPaths[mode]

PathModes == {"demo", "ankle_pitch_swing", "squat"} \cup DOMAIN RepeatedPaths

PathDuration(path) == path[Len(path)].ms

SampleTime(mode, path, elapsed) ==
  IF mode \in DOMAIN RepeatedPaths THEN elapsed % PathDuration(path) ELSE elapsed

-----------------------------------------------------------------------------
(* rmd_ecat_joint_path_demo: ramp to a joint path, then follow it *)

\* Bug: the motor positions are not compared with the limits.
Resolved_Unchecked(joints) == Solvable(joints)

Resolved(joints) == Solvable(joints) /\ Within(Solve(joints))

\* The path is checked beforehand, at multiples of the period.
PathLimitsHold(mode, path, ms) ==
  \A k \in 0 .. ms \div Period : Resolved(SamplePath(path, SampleTime(mode, path, k * Period)))

PathAccepted(mode, ms) ==
  ValidPath(PathForMode(mode, ms)) /\ PathLimitsHold(mode, PathForMode(mode, ms), ms)

PathArgs ==
  {PlanOf(<<>>, a[2][1], (a[2][1] + a[2][2]) \div Period, 500 \div Period, MissLimit,
          [mode |-> a[1], path |-> PathForMode(a[1], a[2][2])]) :
     a \in {b \in PathModes \X Timings : PathAccepted(b[1], b[2][2])}}

\* The path may want a motor that is not active.
PathSettle ==
  \/ Settle(TRUE)
  \/ /\ pc = "settle" /\ ~Settling(TRUE) /\ ~stop /\ ready >= ReadySamples
     /\ Exit(2)
     /\ UNCHANGED <<prog, plan, i, ready, missed, start, stop, cmd, late, seen>>

PathEnable == Enable({start})

PathJoints ==
  LET ms == i * Period
      path == plan.extra.path
  IN IF ms < plan.ramp THEN path[1].joints
     ELSE SamplePath(path, SampleTime(plan.extra.mode, path, ms - plan.ramp))

PathFinal ==
  LET leg == Solve(PathJoints) IN [m \in Motors |-> IF m \in DOMAIN leg THEN leg[m] ELSE start[m]]

\* The times sampled now are those checked before only when the ramp is a
\* multiple of the period: a target out of its limits ends the motion, an
\* exception of the solver the program.
PathMove ==
  \/ /\ Moving /\ Solvable(PathJoints) /\ Within(Solve(PathJoints))
     /\ Run(Ramped(PathFinal, i * Period))
  \/ /\ Moving /\ Solvable(PathJoints) /\ ~Within(Solve(PathJoints))
     /\ Disable(2)
     /\ UNCHANGED <<prog, plan, start, stop, cmd, late, seen>>
  \/ /\ Moving /\ ~Solvable(PathJoints)
     /\ pc' = "thrown" /\ code' = 1
     /\ UNCHANGED <<prog, plan, i, ready, missed, start, stop, cmd, late, seen>>

PathFinish == Finish(0)

Path ==
  \/ Begin("path", PathArgs)
  \/ prog = "path" /\ (PathSettle \/ PathEnable \/ PathMove \/ PathFinish)

-----------------------------------------------------------------------------
(* rmd_ecat_joint_targets: ramp to the motor positions of one joint target *)

JointArgs ==
  {PlanOf(Solve(joints), t[1], t[2] \div Period, 100 \div Period, MissLimit, <<>>) :
     joints \in {j \in JointRequests : Resolved(j)}, t \in Timings}

JointSettle == Settle(TRUE)

JointFinal == [m \in Motors |-> Final(m)]

JointEnable == Enable({start})

JointMove == Run(Ramped(JointFinal, i * Period))

JointFinish == \E c \in {0, 1} : Finish(c)

Joint ==
  \/ Begin("joint", JointArgs)
  \/ prog = "joint" /\ (JointSettle \/ JointEnable \/ JointMove \/ JointFinish)

-----------------------------------------------------------------------------
(* rmd_ecat_mock_controller: a policy loop that looks before it sends *)

\* sin of a 0.25 Hz wave, in 1/100, by Bhaskara's formula.
Wave(ms) ==
  LET x == ((ms % 2000) * 180) \div 2000
      half == (400 * x * (180 - x)) \div (40500 - x * (180 - x))
  IN IF ms % 4000 < 2000 THEN half ELSE -half

MockAction(ms) == Joints(3500 + 10 * Wave(ms), -7000 + 22 * Wave(ms), 3500, 0)

MockPolicyHolds(iterations) == \A k \in 0 .. iterations - 1 : Resolved(MockAction(k * Period))

MockArgs ==
  LET Iterations(ms) == (ms + Period - 1) \div Period IN
  {PlanOf(goal, t[1], Iterations(t[2]), 1, MissLimit, "targets") :
     goal \in {r \in Requests : Within(r)}, t \in Timings}
  \cup
  {PlanOf(<<>>, t[1], Iterations(t[2]), 1, MissLimit, "policy") :
     t \in {u \in Timings : MockPolicyHolds(Iterations(u[2]))}}

MockSettle == Settle(TRUE)

MockEnable == Enable({start})

\* The policy's time starts when the ramp is over.
MockPolicy == MockAction(Max({0, i * Period - plan.ramp}))

MockFinal ==
  IF plan.extra # "policy" THEN [m \in Motors |-> Final(m)]
  ELSE LET leg == Solve(MockPolicy) IN [m \in Motors |-> IF m \in DOMAIN leg THEN leg[m] ELSE start[m]]

\* In every iteration, whatever the mode, the joint angles are solved from the
\* measured positions, which may be any: the solver may throw.  What the policy
\* wants now is not compared with the limits any more; the solver may fail for
\* it, too.  The only handler of exceptions disables nobody.
MockMove ==
  /\ Moving
  /\ \E s \in Samples :
       \/ See(s, 0, 0) /\ pc' = "thrown" /\ code' = 1 /\ UNCHANGED <<i, ready, missed, stop, cmd, late>>
       \/ See(s, 0, 0) /\ TooManyMissed(s) /\ Disable(1) /\ UNCHANGED <<stop, cmd, late>>
       \/ /\ ~TooManyMissed(s)
          /\ \/ /\ plan.extra = "policy" /\ ~Solvable(MockPolicy)
                /\ See(s, 0, 0) /\ pc' = "thrown" /\ code' = 1
                /\ UNCHANGED <<i, ready, missed, stop, cmd, late>>
             \/ /\ plan.extra = "policy" => Solvable(MockPolicy)
                /\ \/ /\ See(s, 0, 1) /\ Advance(s)
                      /\ SignalBeforeSend /\ SendEnabled(Ramped(MockFinal, i * Period), 0)
                   \/ See(s, 0, 0) /\ Disable(1) /\ UNCHANGED <<stop, cmd, late>>
  /\ UNCHANGED <<prog, plan, start, good, on>>

\* Success takes operational feedback at the end and an IMU that spoke.
MockFinish ==
  /\ pc = "move" /\ ~Moving
  /\ \E s \in Samples, imuSeen \in BOOLEAN :
       /\ See(s, 0, 0)
       /\ Disable(IF stop THEN 130 ELSE IF OperationReady(s) /\ imuSeen THEN 0 ELSE 1)
  /\ UNCHANGED <<prog, plan, start, stop, cmd, late, good, on>>

Mock ==
  \/ Begin("mock", MockArgs)
  \/ prog = "mock" /\ (MockSettle \/ MockEnable \/ MockMove \/ MockFinish)

-----------------------------------------------------------------------------
(* rmd_ecat_pvt_torque_fit: visit the points of a scan, hold at each *)

FitArgs ==
  {PlanOf(<<>>, scan.ramp, scan.points * (scan.ramp + scan.hold), 1, 1, scan) :
     scan \in {c \in Scans : c.points >= 3 /\ Inside(c.motor, c.from) /\ Inside(c.motor, c.to)}}

FitSettle == Settle(FALSE)

\* The scan sets out from where the motor is when all drives are enabled.
FitEnable ==
  Enable({[start EXCEPT ![plan.extra.motor] = @ + d] : d \in -Drift .. Drift})

FitPosition ==
  LET scan == plan.extra
      point == i \div (scan.ramp + scan.hold)
      k == Min({scan.ramp, (i % (scan.ramp + scan.hold)) + 1})
      Target(p) == scan.from + ((scan.to - scan.from) * p) \div (scan.points - 1)
      from == IF point = 0 THEN start[scan.motor] ELSE Target(point - 1)
  IN Between(from, Target(point), Progress((100 * k) \div scan.ramp))

FitMove == Run([cmd.pos EXCEPT ![plan.extra.motor] = FitPosition])

FitFinish == \E c \in {IF stop THEN 130 ELSE 0, 1} : Finish(c)

Fit ==
  \/ Begin("fit", FitArgs)
  \/ prog = "fit" /\ (FitSettle \/ FitEnable \/ FitMove \/ FitFinish)

-----------------------------------------------------------------------------
(* rmd_ecat_step_response_test: one motor jumps by a step, without a ramp *)

\* 0.2 rad at most.
MaxJump == 2000

JumpArgs ==
  {PlanOf(<<>>, 0, jump.baseline + jump.response, 1, 1, jump) :
     jump \in {j \in Jumps : Abs(j.step) \in 1 .. MaxJump}}

JumpFinal == start[plan.extra.motor] + plan.extra.step

\* Where the step leads is known, and checked, when the motor is found.
JumpSettle ==
  \/ Settle(FALSE) /\ (pc' = "enable" => Inside(plan.extra.motor, JumpFinal'))
  \/ /\ pc = "settle" /\ ~Settling(FALSE) /\ ~stop /\ ready >= ReadySamples
     /\ UNCHANGED <<prog, plan, i, ready, missed, stop, cmd, late, seen>>
     /\ start' \in Starts /\ ~Inside(plan.extra.motor, JumpFinal')
     /\ Exit(2)

JumpEnable == Enable({start})

JumpMove ==
  Run(IF i < plan.extra.baseline THEN start ELSE [start EXCEPT ![plan.extra.motor] = JumpFinal])

JumpFinish == \E c \in {IF stop THEN 130 ELSE 0, 1} : Finish(c)

Jump ==
  \/ Begin("jump", JumpArgs)
  \/ prog = "jump" /\ (JumpSettle \/ JumpEnable \/ JumpMove \/ JumpFinish)

-----------------------------------------------------------------------------
(* rmd_mit_torque_probe: one CAN motor, paced by the clock; it looks at no *)
(* status once it has started, and a stop ends its loops only: it is sent  *)
(* to its target then all the same                                         *)

Upwards(from, to, step) ==
  [k \in 1 .. (IF from < to THEN (to - from - 1) \div step + 1 ELSE 0) |-> from + (k - 1) * step]

Negated(torques) == [k \in DOMAIN torques |-> -torques[k]]

\* The torques of the phases.
Phases(ff, step, min) ==
  IF step > 0
  THEN IF min < 0
       THEN <<0>> \o (IF ff > 0 THEN Append(Upwards(step, ff, step), ff) ELSE <<>>)
                  \o Append(Negated(Upwards(step, -min, step)), min)
       ELSE Append(Upwards(min, ff, step), ff)
  ELSE IF ff = 0 THEN <<0>> ELSE <<0, ff, 0, -ff, 0, ff, 0, -ff, 0>>

ProbeArgs ==
  {PlanOf(p.goal, p.ramp, p.samples * Len(Phases(p.ff, p.step, p.min)), 1, 1, p) :
     p \in {q \in Probes : /\ q.ff \in 0 .. 100 /\ q.step \in 0 .. 100 /\ q.min \in -100 .. 100
                           /\ q.step > 0 => q.min <= q.ff}}

ProbeMotor == plan.extra.motor

ProbeSend(pos, tor) == SendEnabled([m \in {ProbeMotor} |-> pos], tor)

ProbeSamples == {[m \in Motors |-> kind] : kind \in {"lost", "fault", "off", "on"}}

\* waitForActual, and the limits of the target; far targets get a ramp.
ProbeWait ==
  /\ pc = "settle"
  /\ UNCHANGED <<prog, plan, stop, cmd, late>>
  /\ \/ /\ i < SettleSamples
        /\ \E s \in ProbeSamples :
             /\ See(s, 0, 0) /\ Count(s)
             /\ \/ ~OperationReady(s) /\ i' = i + 1 /\ UNCHANGED <<pc, ready, missed, start, code>>
                \/ /\ OperationReady(s)
                   /\ start' \in Starts
                   /\ LET target == Final(ProbeMotor)' IN
                      IF ~Inside(ProbeMotor, target) THEN Exit(1) /\ UNCHANGED <<i, ready, missed>>
                      ELSE /\ UNCHANGED code
                           /\ Enter(IF Abs(target - start'[ProbeMotor]) > 349 THEN "prepare" ELSE "move")
     \/ i = SettleSamples /\ Exit(1) /\ UNCHANGED <<i, ready, missed, start, seen>>

\* The ramp to the target; how far it is says the clock.
ProbePrepare ==
  /\ pc = "prepare"
  /\ \/ /\ ~stop
        /\ SignalBeforeSend
        /\ ProbeSend(start[ProbeMotor]
             + ((Final(ProbeMotor) - start[ProbeMotor]) * i) \div plan.ramp, 0)
        /\ \E s \in ProbeSamples :
             /\ See(s, 1, 0)
             /\ \/ s[ProbeMotor] # "lost" /\ Disable(1)
                \/ i < plan.ramp /\ i' \in i + 1 .. plan.ramp /\ UNCHANGED <<pc, ready, missed, code>>
                \/ i = plan.ramp /\ Enter("arrive") /\ UNCHANGED code
     \/ stop /\ Enter("arrive") /\ UNCHANGED <<stop, cmd, late, blind, code>>
  /\ UNCHANGED <<prog, plan, start, good, on>>

ProbeArrive ==
  /\ pc = "arrive"
  /\ UNCHANGED <<prog, plan, start, stop, code, good, on>>
  /\ ProbeSend(Final(ProbeMotor), 0) /\ blind' = blind + 1
  /\ Enter("move")

\* A lost sample is skipped; one beyond the limits ends the test.
ProbePhase ==
  LET phases == Phases(plan.extra.ff, plan.extra.step, plan.extra.min)
      phase == i \div plan.extra.samples
  IN
  /\ Moving
  /\ SignalBeforeSend
  /\ ProbeSend(Final(ProbeMotor), phases[phase + 1])
  /\ \E s \in ProbeSamples :
       /\ See(s, 1, 0)
       /\ \/ s[ProbeMotor] # "lost" /\ Enter("finish") /\ code' = 1
          \/ i' \in {i + 1, (phase + 1) * plan.extra.samples} /\ UNCHANGED <<pc, ready, missed, code>>
  /\ UNCHANGED <<prog, plan, start, good, on>>

ProbePhasesEnd ==
  /\ pc = "move" /\ ~Moving
  /\ Enter("finish")
  /\ UNCHANGED <<prog, plan, start, stop, cmd, late, seen, code>>

ProbeFinish ==
  /\ pc = "finish"
  /\ UNCHANGED <<prog, plan, start, stop, good, on, code>>
  /\ ProbeSend(Final(ProbeMotor), 0) /\ blind' = blind + 1
  /\ Enter("disable")

\* disableMit
ProbeDisable ==
  /\ pc = "disable"
  /\ cmd' = [cmd EXCEPT !.enabled = FALSE, !.tor = 0]
  /\ Exit(IF stop THEN 1 ELSE code)
  /\ UNCHANGED <<prog, plan, i, ready, missed, start, stop, seen, late>>

Probe ==
  \/ Begin("probe", ProbeArgs)
  \/ prog = "probe" /\ \/ ProbeWait \/ ProbePrepare \/ ProbeArrive \/ ProbePhase
                       \/ ProbePhasesEnd \/ ProbeFinish \/ ProbeDisable

-----------------------------------------------------------------------------
\* SIGINT or SIGTERM.
RequestStop ==
  /\ pc \notin {"exit", "thrown"} /\ ~stop
  /\ stop' = TRUE
  /\ UNCHANGED <<prog, plan, pc, i, ready, missed, start, cmd, code, seen, late>>

Program ==
  \/ Hold \/ Position \/ Path \/ Joint \/ Mock \/ Fit \/ Jump \/ Probe
  \/ prog # "probe" /\ Disabling

Next == Program \/ RequestStop

Spec == Init /\ [][Next]_vars /\ WF_vars(Program)

-----------------------------------------------------------------------------
(* Properties *)

Phase == {"args", "settle", "enable", "prepare", "arrive", "move", "finish", "disable", "exit", "thrown"}

\* Everything has its type.
TypeOK ==
  /\ prog \in {"none", "hold", "position", "path", "joint", "mock", "fit", "jump", "probe"}
  /\ pc \in Phase
  /\ i \in Nat /\ ready \in Nat /\ missed \in Nat /\ blind \in Nat /\ late \in Nat
  /\ stop \in BOOLEAN /\ cmd.enabled \in BOOLEAN
  /\ code \in {0, 1, 2, 130}
  /\ good \in 0 .. ReadySamples /\ on \in 0 .. ReadySamples

\* The first enabled frame follows ReadySamples good samples in a row of all
\* motors, whatever was lost before, and the motion ReadySamples samples in
\* which all of them were operational; the CAN probe takes one.
EnabledAfterReady ==
  [][/\ ~cmd.enabled /\ cmd'.enabled =>
          IF prog = "probe" THEN on > 0 ELSE good = ReadySamples
     /\ pc = "enable" /\ pc' = "move" => on = ReadySamples]_vars

Controlled == {"position", "path", "joint", "mock", "fit", "jump", "probe"}

\* Motors are commanded only between where they were found and their
\* configured limits.  The mock policy is checked beforehand at the times it
\* is sampled at only if the ramp is a multiple of the period.
CommandsInRange ==
  cmd.enabled /\ prog \in Controlled /\ (prog = "mock" => plan.ramp % Period = 0) =>
    \A m \in DOMAIN cmd.pos :
      /\ Min({start[m], Limits[m].lo}) - Drift <= cmd.pos[m]
      /\ cmd.pos[m] <= Max({start[m], Limits[m].hi}) + Drift

\* Two enabled frames in a row are never further apart than a step of a ramp
\* or path: not between phases, not where a path starts again, not on the way
\* out.  This needs a ramp, or the one step that is asked for, and does not
\* hold for the probe, which the clock paces and whose stop sends the motor to
\* its target at once.
StepBounded ==
  [][cmd.enabled /\ cmd'.enabled /\ (plan.ramp > 0 \/ prog = "jump") /\ prog # "probe" =>
       LET most == IF prog = "jump" THEN MaxJump ELSE MaxStep IN
       \A m \in DOMAIN cmd.pos : Abs(cmd'.pos[m] - cmd.pos[m]) <= most]_vars

\* A program that moves EtherCAT motors without seeing them operational gives
\* up after as many frames as it takes to miss MissLimit monitored samples.
BlindBounded ==
  pc = "move" /\ prog # "probe" => blind <= plan.misses * plan.every

\* After a stop request at most one more enabled frame is made, by the iteration
\* that had looked at the flag just before; the probe makes up to two more, when
\* it ends its ramp and its phases, with the target it was going to.
StopObeyed == late <= (IF prog = "probe" THEN 3 ELSE 1)

Attentive == BlindBounded /\ StopObeyed

\* However a program ends, no motor is left enabled, unless it is ended by an
\* exception of the leg's solver: the handlers of rmd_ecat_joint_path_demo and
\* of rmd_ecat_mock_controller, in both modes of it, disable nobody.  No other
\* program can end so.
EndsDisabled ==
  /\ pc = "exit" => ~cmd.enabled
  /\ pc = "thrown" => prog \in {"path", "mock"}

\* Whatever feedback does, a program ends.
Terminates == <>(pc \in {"exit", "thrown"})
=============================================================================
