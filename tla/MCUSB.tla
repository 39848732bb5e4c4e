------------------------------- MODULE MCUSB -------------------------------
(* The USB transport for TLC: resource 1 is registered, by interface 1; 2  *)
(* is not.                                                                 *)
EXTENDS USB, TLC

Table == (0 :> 2) @@ (1 :> 1) @@ (2 :> 2)
=============================================================================
