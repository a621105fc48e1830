------------------------- MODULE MCEthercatLifecycle -------------------------
(* start and stop of one EtherCAT backend; the constants are in the .cfg. *)
EXTENDS EthercatLifecycle
=============================================================================
