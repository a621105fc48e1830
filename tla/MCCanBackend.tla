---------------------------- MODULE MCCanBackend ----------------------------
(* Small instances of CanBackend for TLC. *)
EXTENDS CanBackend, TLC

CONSTANTS m1, m2

TwoMotors == {m1, m2}
TwoSlaveIds == m1 :> 1 @@ m2 :> 63

OnlyM2 == {m2}

\* The motors left as they start, two idle motors put to work, and two working
\* motors of which one is reset and the other released.
Idle == m1 :> 0 @@ m2 :> 0
Driven == m1 :> 1 @@ m2 :> 1
Released == m1 :> -1 @@ m2 :> 0
OnlyIdle == {Idle}
DrivenOrReleased == {Driven, Released}

Nothing == {}
OtherNodes == {"other"}
EmptyFrames == {"empty"}
=============================================================================
