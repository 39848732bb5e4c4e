--------------------------- MODULE ControlService ---------------------------
(***************************************************************************)
(* What a host may expect of control_write_command and                     *)
(* control_read_command, whatever the transport: for a request of the kind *)
(* the transport makes promises about, the task that registered the        *)
(* resource is called once at most, with exactly what was asked for, and   *)
(* the host is told of success only when that call was made and returned   *)
(* success; a read then hands out the reply of that call.                  *)
(*                                                                         *)
(* A request may fail at any time, before or after the call.               *)
(***************************************************************************)
EXTENDS Control

CONSTANTS
  resource_table,  \* which task registered which resource
  Request,         \* what a host may ask for: records with at least the
                   \* fields op, resid, cmd, len and data
  Promised         \* those the promise is made for

VARIABLES
  busy,            \* is the host in one of the two functions?
  request,         \* what it was called for last
  log,             \* the calls made on the control interface since
  result           \* what it returned last

vars == <<busy, request, log, result>>

NoResult == [ret |-> CONTROL_ERROR, data |-> <<>>]

Init ==
  /\ busy = FALSE
  /\ request \in Request
  /\ log = <<>>
  /\ result = NoResult

(* The call c is the one the request r asks for. *)
Serves(c, r) ==
  /\ c.op = r.op /\ c.resid = r.resid /\ c.cmd = r.cmd
  /\ c.ifnum = resource_table[r.resid]
  /\ Len(c.payload) = r.len
  /\ r.op = "write" => c.payload = r.data

(* The result res is the truth about the calls l made for the request r. *)
Honest(res, r, l) ==
  res.ret = CONTROL_SUCCESS =>
    /\ l # <<>>
    /\ l[1].ret = CONTROL_SUCCESS
    /\ r.op = "read" => res.data = l[1].payload

Begin ==
  /\ ~busy /\ busy' = TRUE
  /\ request' \in Request
  /\ log' = <<>>
  /\ result' = NoResult

Execute ==
  /\ busy
  /\ Len(log') = Len(log) + 1
  /\ SubSeq(log', 1, Len(log)) = log
  /\ request \in Promised => Len(log') = 1 /\ Serves(log'[1], request)
  /\ UNCHANGED <<busy, request, result>>

Finish ==
  /\ busy /\ busy' = FALSE
  /\ request \in Promised => Honest(result', request, log)
  /\ UNCHANGED <<request, log>>

Next == Begin \/ Execute \/ Finish

Spec == Init /\ [][Next]_vars
=============================================================================
