--------------------------- MODULE MCEthercatCycle ---------------------------
(* Small instances of EthercatCycle for TLC. *)
EXTENDS EthercatCycle, TLC

CONSTANTS m1, m2, d1, d2

TwoMotors == {m1, m2}
OneDomain == {d1}
TwoDomains == {d1, d2}

Together == m1 :> d1 @@ m2 :> d1
Apart == m1 :> d1 @@ m2 :> d2

AllTargets == [TwoMotors -> {-1, 0, 1}]

\* One motor is enabled and reset in turn while the other stays enabled.
EnableOrReset == {m1 :> e @@ m2 :> 1 : e \in {-1, 1}}

\* The motors of one domain are interchangeable (not in the liveness run).
MotorSymmetry == Permutations(TwoMotors)
=============================================================================
