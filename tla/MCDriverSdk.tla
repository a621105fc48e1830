----------------------------- MODULE MCDriverSdk -----------------------------
(* Configuration files, tables and requests of an application. *)
EXTENDS DriverSdk

Straight == [polarity |-> 1, countBias |-> 0, minimumPosition |-> -1000,
             maximumPosition |-> 1000, maximumTorque |-> 2684,
             encoderResolution |-> 21, torqueGain |-> 1]
\* Polarity and range as of a knee motor of the configurations in config/.
Reversed == [Straight EXCEPT !.polarity = -1, !.minimumPosition = -300,
                             !.maximumPosition = 530, !.countBias = 40]
\* The largest torque of this one does not fit 16 bits.
Strong == [Reversed EXCEPT !.torqueGain = 20]

Motor(alias, parameters, bus, id, type) ==
  [alias |-> alias, parameters |-> parameters, bus |-> bus, master |-> 0, id |-> id, type |-> type]
Slave(alias, id, type, enabled) ==
  [alias |-> alias, master |-> 0, id |-> id, type |-> type, enabled |-> enabled]
Document(motors, can, ecat, hasImu) ==
  [loads |-> TRUE, motors |-> motors, canSlaves |-> can, ecatSlaves |-> ecat, imu |-> hasImu]

TwoMotors == <<Motor(1, Straight, "none", 0, "none"), Motor(2, Reversed, "none", 0, "none")>>

\* One motor on each bus, and the IMU.
Mixed == Document(TwoMotors, <<Slave(1, 1, "RMD", TRUE)>>,
                  <<Slave(2, -1, "MT_Device", TRUE), Slave(9, 0, "other", TRUE)>>, TRUE)
\* A motor of the CAN section moved to EtherCAT by an explicit placement, next
\* to a strong one; the other slave of the section is switched off.
Moved == Document(<<Motor(1, Straight, "ecat", 3, "MT_Device"), Motor(2, Strong, "ecat", 4, "MT_Device")>>,
                  <<Slave(1, 1, "RMD", TRUE), Slave(2, 2, "RMD", FALSE)>>, <<>>, FALSE)
\* A type an EtherCAT backend refuses, an alias without parameters.
Refused == Document(<<Motor(1, Straight, "can", 1, "RMD"), Motor(2, Reversed, "ecat", 3, "RMD")>>,
                    <<>>, <<>>, TRUE)
Unknown == Document(TwoMotors, <<Slave(3, 1, "RMD", TRUE)>>, <<>>, FALSE)
\* Three motors, the last one beyond the frame.
Large == Document(<<Motor(1, Straight, "can", 1, "none"), Motor(3, Straight, "ecat", 0, "MT_Device")>>,
                  <<>>, <<>>, TRUE)
\* An asymmetric range and reversed polarity on CAN.
CanReversed == Document(<<Motor(1, [Reversed EXCEPT !.countBias = 0], "can", 1, "RMD")>>, <<>>, <<>>, FALSE)

AllDocuments == {Mixed, Moved, Refused, Unknown, Large, [Mixed EXCEPT !.loads = FALSE]}
CanDocuments == {CanReversed}

Modes == {<<8, 5>>, <<8, 10>>, <<8>>}
Currents == {<<1000, 500>>, <<1000, 40000>>}
Biases == {<<7, 7>>}
NoTables == {}

Request(pos, vel, tor, enabled) ==
  [pos |-> pos, vel |-> vel, tor |-> tor, kp |-> 20000, kd |-> 1000, enabled |-> enabled]
MotorRequests == {Request(0, 0, 0, 0), Request(2000, 300, 3000, 1), Request(-310, -50000, -900, 1)}
=============================================================================
