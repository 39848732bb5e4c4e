------------------------------ MODULE Registry ------------------------------
(***************************************************************************)
(* What registration promises, without saying how: a registry of resources *)
(* that is opened, offered to the tasks 0, 1, ... in turn, and closed.     *)
(* The task whose turn it is may take any resource nobody has, one at a    *)
(* time; a resource once taken stays with its owner until the registry is  *)
(* opened again, and nothing is taken while it is closed.  Before the      *)
(* registry is first opened the owners are whatever memory holds.          *)
(***************************************************************************)
EXTENDS Naturals

CONSTANTS
  Resource,   \* what can be registered
  Barred,     \* the resources no task may take
  Owners,     \* the tasks that may take part
  None        \* the owner of a free resource

VARIABLES
  owner,      \* owner[x]: the task that has x, or None
  turn,       \* the task that is asked, when the registry is open
  open        \* is the registry open?

vars == <<owner, turn, open>>

Init ==
  /\ owner \in [Resource -> Owners \cup {None}]
  /\ turn \in Nat
  /\ open = FALSE

(* Everything is given back and task 0 is asked first. *)
Open ==
  /\ ~open
  /\ open' = TRUE
  /\ turn' = 0
  /\ owner' = [x \in Resource |-> None]

Take(x) ==
  /\ open
  /\ turn \in Owners
  /\ x \notin Barred
  /\ owner[x] = None
  /\ owner' = [owner EXCEPT ![x] = turn]
  /\ UNCHANGED <<turn, open>>

Pass ==
  /\ open
  /\ turn' = turn + 1
  /\ UNCHANGED <<owner, open>>

Close ==
  /\ open
  /\ open' = FALSE
  /\ UNCHANGED <<owner, turn>>

Next == Open \/ Pass \/ Close \/ \E x \in Resource : Take(x)

Spec == Init /\ [][Next]_vars
=============================================================================
