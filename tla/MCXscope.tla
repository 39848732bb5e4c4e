------------------------------ MODULE MCXscope ------------------------------
(* The xSCOPE transport for TLC: resources 1 and 3 are registered, by      *)
(* different interfaces; 2 is not.                                         *)
EXTENDS Xscope, TLC

Table == (0 :> 2) @@ (1 :> 0) @@ (2 :> 2) @@ (3 :> 1)
=============================================================================
