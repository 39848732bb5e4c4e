----------------------------- MODULE MCI2CHost ------------------------------
(* The I2C hosts for TLC: resources 1 and 3 are registered, by different   *)
(* interfaces; 2 is not.                                                   *)
EXTENDS I2CHost, TLC

Table == (0 :> 2) @@ (1 :> 0) @@ (2 :> 2) @@ (3 :> 1)

(* What tells states apart: all but the verdict of the last stop, which no  *)
(* property of the hosts is about.                                         *)
HostView ==
  <<i2c, last_status, bus, sent, nacked, calls, got, driver, pc, goal, todo, user>>
=============================================================================
