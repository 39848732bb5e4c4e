---------------------------- MODULE MCI2CDevice ----------------------------
(* The I2C device for TLC: resources 1 and 3 are registered, by different  *)
(* interfaces; 2 is not.                                                   *)
EXTENDS I2CDevice, TLC

Table == (0 :> 2) @@ (1 :> 0) @@ (2 :> 2) @@ (3 :> 1)
=============================================================================
