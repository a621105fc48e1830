----------------------------- MODULE Conversion -----------------------------
(***************************************************************************)
(* The arithmetic between an application's joint values and the values on  *)
(* the two buses, over integers: positions, velocities and torques are     *)
(* counted in thousandths of their unit, and an EtherCAT motor's           *)
(* encoderResolution is given in counts per such thousandth.  Integer      *)
(* fields have the width they have on the wire.                            *)
(***************************************************************************)
EXTENDS Integers

\* Two's complement value that is left of v in a field of 2^bits values.
Wrap(v, range) == ((v + range \div 2) % range) - range \div 2
Int16(v) == Wrap(v, 65536)

Clamp(value, min, max) == IF value < min THEN min ELSE IF value > max THEN max ELSE value

Abs(x) == IF x < 0 THEN -x ELSE x

\* Rounded quotient; halves go away from zero (lround).
Round(a, b) == IF a >= 0 THEN (a + b \div 2) \div b ELSE -((b \div 2 - a) \div b)

\* readMotorParameters: any numbers a file has; nothing more is asked of them.
IsParameters(p) ==
  /\ p.polarity \in Int /\ p.countBias \in Int
  /\ p.minimumPosition \in Int /\ p.maximumPosition \in Int
  /\ p.maximumTorque \in Int /\ p.torqueGain \in Int
  /\ p.encoderResolution \in Int

-----------------------------------------------------------------------------
(* EtherCAT: counts and raw torque *)

RadToCounts(rad, p) == p.polarity * rad * p.encoderResolution + p.countBias
RadDeltaToCounts(rad, p) == p.polarity * rad * p.encoderResolution

CountsToRad(counts, p) ==
  IF p.encoderResolution = 0 THEN 0
  ELSE Round(p.polarity * (counts - p.countBias), p.encoderResolution)

CountDeltaToRad(counts, p) ==
  IF p.encoderResolution = 0 THEN 0 ELSE Round(p.polarity * counts, p.encoderResolution)

\* torqueGain is raw units per torque unit, 0 when the motor's scale is 0.
TorqueToRaw(torque, p) == Int16(p.polarity * torque * p.torqueGain)

\* Bug: the limit comes after the cast.
TorqueToRawLimited_CastFirst(torque, p, maxCurrent) ==
  Clamp(Int16(p.polarity * torque * p.torqueGain), -maxCurrent, maxCurrent)

\* The limit is the motor's maxCurrent, which reaches 65535: the cast to 16
\* bits comes last.
TorqueToRawLimited(torque, p, maxCurrent) ==
  Int16(Clamp(p.polarity * torque * p.torqueGain, -maxCurrent, maxCurrent))

ClampPosition(pos, p) == Clamp(pos, p.minimumPosition, p.maximumPosition)
ClampTorque(tor, p) == Clamp(tor, -p.maximumTorque, p.maximumTorque)

\* toEthercatTarget: joint values, limited; mode and current go with them.
ToEthercatTarget(t, p, mode, maxCurrent) ==
  [pos |-> ClampPosition(t.pos, p), vel |-> t.vel, tor |-> ClampTorque(t.tor, p),
   kp |-> t.kp, kd |-> t.kd, enabled |-> t.enabled, mode |-> mode, maxCurrent |-> maxCurrent]

PackedTorque(t, p) ==
  CASE t.mode = 8 -> 0
    [] t.mode = 10 -> TorqueToRawLimited(ClampTorque(t.tor, p), p, t.maxCurrent)
    [] OTHER -> TorqueToRaw(ClampTorque(t.tor, p), p)

\* What either profile says; the standard one has a limit of the torque, the
\* other the gains, in thousandths, the unit they have here.
Packed(t, p, limit, kp, kd) ==
  [pos |-> RadToCounts(ClampPosition(t.pos, p), p), vel |-> RadDeltaToCounts(t.vel, p),
   tor |-> PackedTorque(t, p), mode |-> t.mode, maxTorque |-> limit, kp |-> kp, kd |-> kd]

PackStandard(t, p) == Packed(t, p, t.maxCurrent, 0, 0)

PackPvt(t, p) ==
  Packed(t, p, 0, IF t.mode = 5 THEN t.kp ELSE 0, IF t.mode = 5 THEN t.kd ELSE 0)

PackForRealtime(t, p, profile) ==
  [enabled |-> t.enabled, profile |-> profile,
   bytes |-> IF profile = "standard" THEN PackStandard(t, p) ELSE PackPvt(t, p)]

-----------------------------------------------------------------------------
(* CAN: joint values to motor values, and the integer fields of MIT frames *)

ToCanTarget(t, p) ==
  [t EXCEPT !.pos = p.polarity * ClampPosition(@, p) + p.countBias,
            !.vel = p.polarity * @,
            !.tor = p.polarity * ClampTorque(@, p)]

KpMax == 500000
KdMax == 50000

\* limitTarget: the joint limits again, on the motor's values.
LimitTarget(t, p) ==
  [t EXCEPT !.pos = ClampPosition(@, p), !.tor = ClampTorque(@, p),
            !.kp = Clamp(@, 0, KpMax), !.kd = Clamp(@, 0, KdMax)]

\* levels is the largest value of the field, 2^bits - 1.
FloatToUint(value, min, max, levels) == Round((Clamp(value, min, max) - min) * levels, max - min)

UintToFloat(value, min, max, levels) ==
  Round((IF value > levels THEN levels ELSE value) * (max - min), levels) + min

PMax == 12566
VMax == 45000

PositiveTorqueLimit(p) == IF p.maximumTorque > 0 THEN p.maximumTorque ELSE 24000

\* The five fields of an MIT command: 16 bits of position, 12 of the others.
PackMit(t, p) ==
  LET limit == PositiveTorqueLimit(p) IN
  [pos |-> FloatToUint(t.pos, -PMax, PMax, 65535),
   vel |-> FloatToUint(t.vel, -VMax, VMax, 4095),
   kp |-> FloatToUint(t.kp, 0, KpMax, 4095),
   kd |-> FloatToUint(t.kd, 0, KdMax, 4095),
   tor |-> FloatToUint(t.tor, -limit, limit, 4095)]

\* What a reply with the same fields means (parseMitReply).
ParseMit(f, p) ==
  LET limit == PositiveTorqueLimit(p) IN
  [pos |-> UintToFloat(f.pos, -PMax, PMax, 65535),
   vel |-> UintToFloat(f.vel, -VMax, VMax, 4095),
   tor |-> UintToFloat(f.tor, -limit, limit, 4095)]

\* toPublicActual: a CAN motor's feedback in joint coordinates.
ToPublicPosition(pos, p) == p.polarity * (pos - p.countBias)
=============================================================================
