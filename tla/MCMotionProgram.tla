--------------------------- MODULE MCMotionProgram ---------------------------
(* Two leg motors, arguments, and kinematics that are linear. *)
EXTENDS MotionProgram, TLC

TwoMotors == {3, 4}
MotorLimits == (3 :> [lo |-> 0, hi |-> 8785]) @@ (4 :> [lo |-> -9990, hi |-> 2000])
StartPositions == {(3 :> 7000) @@ (4 :> -3000)}
PositionRequests == {<<>>, (4 :> -9000), (3 :> 4000) @@ (4 :> 20000)}
TimingChoices == {<<0, 450>>, <<620, 450>>, <<620, 1700>>}
FitScans == {[motor |-> 3, from |-> 2000, to |-> 5000, points |-> 3, ramp |-> 6, hold |-> 2],
             [motor |-> 4, from |-> -7000, to |-> 9000, points |-> 3, ramp |-> 6, hold |-> 2]}
StepJumps == {[motor |-> 3, step |-> -1500, baseline |-> 2, response |-> 3],
              [motor |-> 3, step |-> 2500, baseline |-> 1, response |-> 1],
              [motor |-> 4, step |-> 2000, baseline |-> 1, response |-> 2],
              [motor |-> 3, step |-> 2000, baseline |-> 1, response |-> 2]}
TorqueProbe(goal, ff, step, min) ==
  [motor |-> 4, goal |-> goal, ff |-> ff, step |-> step, min |-> min, ramp |-> 3, samples |-> 2]
TorqueProbes == {TorqueProbe(<<>>, 10, 0, 0), TorqueProbe((4 :> -6900), 25, 10, -20),
                 TorqueProbe((4 :> -5000), 20, 10, 0), TorqueProbe((4 :> 9000), 0, 0, 0),
                 TorqueProbe(<<>>, 0, 10, 5)}
LegTargets == {[hip |-> 3500, knee |-> -7000, pitch |-> 3500, roll |-> 0],
               [hip |-> 5000, knee |-> -10000, pitch |-> 2000, roll |-> 0]}

\* The solver fails at an angle that a demo path, and at one that the policy
\* meets off the grid of the check, as a squat meets a position beyond a limit.
LinearLeg(j) == (3 :> j.hip + j.pitch) @@ (4 :> j.knee + j.roll)
Reachable(j) == j.pitch \notin 3299 .. 3301 /\ <<j.hip, j.knee>> # <<4400, -5020>>
=============================================================================
