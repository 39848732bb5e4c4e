-------------------------------- MODULE USB --------------------------------
(***************************************************************************)
(* The USB transport, end to end.  A command is a control transfer on      *)
(* endpoint 0: a SET request for a write, followed by a GET request for    *)
(* the status, or a GET request for a read.  A transfer that is neither    *)
(* acknowledged nor stalled is given up by the host after a while, and the *)
(* device may still be at it when the next one comes.                      *)
(*                                                                         *)
(* libusb and lib_xud are not part of the repository.  Of them: a SETUP    *)
(* waits at the endpoint until the device takes it, unless a later one     *)
(* replaces it or it is given up before it got there; data and answers     *)
(* only go between a device and a host that still has the transfer open.   *)
(***************************************************************************)
EXTENDS Control

CONSTANTS
  resource_table,            \* as control_register_resources left it
  USB_TRANSACTION_MAX_BYTES, \* the host's limit of a payload (2048)
  EP0_MAX_REQUEST_SIZE,      \* size of the device's request_data (256)
  Resids, Cmds, Lengths,     \* what the user asks for,
  DataBytes,                 \* and the bytes of the payload
  AppBytes, AppRet,          \* what the application replies and returns
  Junk                       \* what uninitialised memory may hold

ASSUME USBAssumption ==
  /\ resource_table \in ResTable
  /\ {USB_TRANSACTION_MAX_BYTES, EP0_MAX_REQUEST_SIZE} \subseteq Nat \ {0}
  /\ CONTROL_SPECIAL_RESID < RESOURCE_TABLE_MAX
  /\ Resids \cup Cmds \cup DataBytes \cup AppBytes \cup Junk \subseteq Byte
  /\ Lengths \subseteq Nat
  /\ AppRet \subseteq ControlRet

VARIABLES
  host,         \* where the thread of the command is
  request,      \* the command the user asked for
  result,       \* what the user got, and whether a status was read for it
  answer,       \* how the open transfer ended, if it has
  setup,        \* the SETUP at the endpoint that the device has not taken
  ep0, stage,   \* the request the device is at, if any, and how far it is
  ret, reply,   \* what its processing returned, and the payload of a GET
  last_status,
  calls         \* calls made since the command began

bus    == <<answer, setup>>
device == <<ep0, stage, ret, reply, last_status, calls>>
vars   == <<host, request, result, bus, device>>

(* What is there at most once is the set of it. *)
None == {}

Dir == {"SET", "GET"}
Setup == [dir : Dir, resid : Byte, cmd : Byte, len : Nat, data : Seq(Byte),
          live : BOOLEAN]   \* does the host still have the transfer open?
Answer == [ok : BOOLEAN, data : Seq(Byte)]

-----------------------------------------------------------------------------
(* control_usb_fill_header: resid and cmd are bytes and the length is      *)
(* below 2^16, so all of them fit their fields.                            *)
control_usb_fill_header(dir, res, c, len, data) ==
  [dir |-> dir, resid |-> res, cmd |-> c, len |-> len, data |-> data, live |-> TRUE]

StatusQuery ==
  control_usb_fill_header("GET", CONTROL_SPECIAL_RESID,
                          CONTROL_GET_LAST_COMMAND_STATUS, 1, <<>>)

NoResult == [ret |-> CONTROL_ERROR, data |-> <<>>, read |-> FALSE]

Init ==
  /\ host = "idle"
  /\ request = StatusQuery
  /\ result = NoResult
  /\ answer = None /\ setup = None
  /\ ep0 = None /\ stage = "setup"
  /\ ret = CONTROL_ERROR /\ reply = <<>>
  /\ last_status = CONTROL_SUCCESS
  /\ calls = <<>>

-----------------------------------------------------------------------------
(* The host.                                                               *)

Finish(r, data, read) ==
  /\ result' = [ret |-> r, data |-> data, read |-> read]
  /\ host' = "idle"

(* payload_len_exceeds_control_packet_size, then the transfer. *)
Begin(r) ==
  /\ request' = r
  /\ calls' = <<>>
  /\ IF r.len > USB_TRANSACTION_MAX_BYTES
     THEN Finish(CONTROL_DATA_LENGTH_ERROR, <<>>, FALSE) /\ UNCHANGED setup
     ELSE host' = "transfer" /\ setup' = {r} /\ result' = NoResult
  /\ UNCHANGED <<answer, ep0, stage, ret, reply, last_status>>

control_write_command ==
  /\ host = "idle"
  /\ \E res \in Resids, c \in Cmds, len \in Lengths :
       \E data \in [1 .. len -> DataBytes] :
         Begin(control_usb_fill_header("SET", res, CONTROL_CMD_SET_WRITE(c), len, data))

(* control_query_version is such a read as well. *)
control_read_command ==
  /\ host = "idle"
  /\ \E res \in Resids, c \in Cmds, len \in Lengths :
       Begin(control_usb_fill_header("GET", res, CONTROL_CMD_SET_READ(c), len, <<>>))

(* libusb_control_transfer returns: the rest of the two commands. *)
TransferFails ==
  /\ host = "transfer"
  /\ \E a \in answer : ~a.ok
  /\ Finish(CONTROL_ERROR, <<>>, FALSE)
  /\ answer' = None
  /\ UNCHANGED <<request, setup, device>>

ReadReturns ==
  /\ host = "transfer" /\ request.dir = "GET"
  /\ \E a \in answer : a.ok /\ Finish(CONTROL_SUCCESS, a.data, FALSE)
  /\ answer' = None
  /\ UNCHANGED <<request, setup, device>>

(* control_command_status *)
WriteQueries ==
  /\ host = "transfer" /\ request.dir = "SET"
  /\ \E a \in answer : a.ok
  /\ host' = "query"
  /\ setup' = {StatusQuery}
  /\ answer' = None
  /\ UNCHANGED <<request, result, device>>

(* What becomes of a failed query is not looked at, and status is unset. *)
WriteReturns ==
  /\ host = "query"
  /\ \E a \in answer :
       \/ a.ok /\ Finish(a.data[1], <<>>, TRUE)
       \/ ~a.ok /\ \E x \in Junk : Finish(x, <<>>, FALSE)
  /\ answer' = None
  /\ UNCHANGED <<request, setup, device>>

GivenUp(s) == {[p EXCEPT !.live = FALSE] : p \in s}

(* After sync_timeout_ms, or when the bus is reset.  A SETUP that the      *)
(* endpoint has not got is gone.                                           *)
Timeout ==
  /\ host # "idle" /\ answer = None
  /\ answer' = {[ok |-> FALSE, data |-> <<>>]}
  /\ ep0' = GivenUp(ep0)
  /\ setup' \in {None, GivenUp(setup)}
  /\ UNCHANGED <<host, request, result, stage, ret, reply, last_status, calls>>

-----------------------------------------------------------------------------
(* The device: the loop of endpoint 0.                                     *)

TakeSetup ==
  /\ ep0 = None /\ setup # None
  /\ ep0' = setup
  /\ setup' = None
  /\ UNCHANGED <<host, request, result, answer, stage, ret, reply, last_status, calls>>

(* The loop goes on, and the variables of the request are gone. *)
EndOfRequest ==
  /\ ep0' = None
  /\ stage' = "setup" /\ ret' = CONTROL_ERROR /\ reply' = <<>>

(* The end of request p, with answer a if the host is still there. *)
Answers(p, a) ==
  /\ answer' = IF p.live THEN {a} ELSE answer
  /\ EndOfRequest
  /\ UNCHANGED <<host, request, result, setup, last_status, calls>>

Stall(p) == Answers(p, [ok |-> FALSE, data |-> <<>>])

(* Mutant: the length of the request is not compared with the buffer. *)
Fits_Unchecked(p) == TRUE

Fits(p) == p.len <= EP0_MAX_REQUEST_SIZE

TooLong ==
  \E p \in ep0 : stage = "setup" /\ ~Fits(p) /\ Stall(p)

(* USB_EP0_Receive.  The data stage of a request without data is empty. *)
Receive ==
  \E p \in ep0 :
    /\ stage = "setup" /\ p.dir = "SET" /\ Fits(p)
    /\ p.len = 0 \/ p.live
    /\ stage' = "received"
    /\ UNCHANGED <<host, request, result, bus, ep0, ret, reply, last_status, calls>>

ReceiveFails ==
  \E p \in ep0 :
    /\ stage = "setup" /\ p.dir = "SET" /\ Fits(p)
    /\ p.len # 0 /\ ~p.live
    /\ Stall(p)

Search(x) ==
  resource_table_search(resource_table, {CONTROL_SPECIAL_RESID}, x)

(* The result r of control_process_usb_set_request, with the calls cs. *)
SetRequest(r, cs) ==
  /\ stage = "received"
  /\ stage' = "executed"
  /\ ret' = r
  /\ last_status' = r
  /\ calls' = calls \o cs
  /\ UNCHANGED <<host, request, result, bus, ep0, reply>>

SetRefused ==
  \E p \in ep0 :
    /\ Search(p.resid) = {} \/ IS_CONTROL_CMD_READ(p.cmd)
    /\ SetRequest(CONTROL_BAD_COMMAND, <<>>)

(* Mutant: the status only ever records failures. *)
SetDispatched_KeepsFailure ==
  \E p \in ep0 : \E ifn \in Search(p.resid), r \in AppRet :
    /\ ~IS_CONTROL_CMD_READ(p.cmd)
    /\ p.resid # CONTROL_SPECIAL_RESID
    /\ stage = "received"
    /\ stage' = "executed"
    /\ ret' = r
    /\ last_status' = IF r = CONTROL_SUCCESS THEN last_status ELSE r
    /\ calls' = Append(calls, WriteCall(ifn, p.resid, p.cmd, p.data, r))
    /\ UNCHANGED <<host, request, result, bus, ep0, reply>>

(* write_command *)
SetDispatched ==
  \E p \in ep0 : \E ifn \in Search(p.resid), r \in AppRet :
    /\ ~IS_CONTROL_CMD_READ(p.cmd)
    /\ p.resid # CONTROL_SPECIAL_RESID
    /\ SetRequest(r, <<WriteCall(ifn, p.resid, p.cmd, p.data, r)>>)

SetSpecial ==
  \E p \in ep0 :
    /\ ~IS_CONTROL_CMD_READ(p.cmd)
    /\ p.resid = CONTROL_SPECIAL_RESID
    /\ SetRequest(CONTROL_BAD_COMMAND, <<>>)

(* Mutant: the status stage does not wait for the result. *)
SetAcknowledged_Always ==
  \E p \in ep0 :
    /\ stage = "executed" /\ p.dir = "SET"
    /\ Answers(p, [ok |-> TRUE, data |-> <<>>])

(* XUD_DoSetRequestStatus *)
SetAcknowledged ==
  \E p \in ep0 :
    /\ stage = "executed" /\ p.dir = "SET"
    /\ ret = CONTROL_SUCCESS
    /\ Answers(p, [ok |-> TRUE, data |-> <<>>])

(* The result of a failed request stays XUD_RES_OKAY, that of its data     *)
(* stage: the caller takes it for handled and does not stall.              *)
SetNotAnswered ==
  \E p \in ep0 :
    /\ stage = "executed" /\ p.dir = "SET"
    /\ ret # CONTROL_SUCCESS
    /\ EndOfRequest
    /\ UNCHANGED <<host, request, result, bus, last_status, calls>>

(* The result r of control_process_usb_get_request, with the payload d. *)
GetRequest(p, r, d, cs) ==
  /\ stage = "setup" /\ p.dir = "GET" /\ Fits(p)
  /\ stage' = "executed"
  /\ ret' = r
  /\ reply' = d
  /\ calls' = calls \o cs
  /\ UNCHANGED <<host, request, result, bus, ep0, last_status>>

GetRefused ==
  \E p \in ep0 :
    /\ Search(p.resid) = {} \/ ~IS_CONTROL_CMD_READ(p.cmd)
    /\ GetRequest(p, CONTROL_BAD_COMMAND, <<>>, <<>>)

(* read_command.  What a failed read leaves in the buffer is not sent. *)
GetDispatched ==
  \E p \in ep0 : \E ifn \in Search(p.resid), r \in AppRet, d \in [1 .. p.len -> AppBytes] :
    /\ IS_CONTROL_CMD_READ(p.cmd)
    /\ p.resid # CONTROL_SPECIAL_RESID
    /\ GetRequest(p, r, d, <<ReadCall(ifn, p.resid, p.cmd, d, r)>>)

GetSpecial ==
  \E p \in ep0 :
    /\ IS_CONTROL_CMD_READ(p.cmd)
    /\ p.resid = CONTROL_SPECIAL_RESID
    /\ LET r == special_read_ret(p.cmd, p.len)
       IN GetRequest(p, r, IF r = CONTROL_SUCCESS
                           THEN <<special_read_byte(p.cmd, last_status)>> ELSE <<>>, <<>>)

(* Mutant: the data is sent whatever the result. *)
GetAnswered_Always ==
  \E p \in ep0 :
    /\ stage = "executed" /\ p.dir = "GET"
    /\ Answers(p, [ok |-> TRUE, data |-> reply])

(* XUD_DoGetRequest *)
GetAnswered ==
  \E p \in ep0 :
    /\ stage = "executed" /\ p.dir = "GET"
    /\ ret = CONTROL_SUCCESS
    /\ Answers(p, [ok |-> TRUE, data |-> reply])

GetStalled ==
  \E p \in ep0 :
    /\ stage = "executed" /\ p.dir = "GET"
    /\ ret # CONTROL_SUCCESS
    /\ Stall(p)

-----------------------------------------------------------------------------
Host ==
  \/ control_write_command \/ control_read_command
  \/ TransferFails \/ ReadReturns \/ WriteQueries \/ WriteReturns \/ Timeout

Device ==
  \/ TakeSetup \/ TooLong
  \/ Receive \/ ReceiveFails
  \/ SetRefused \/ SetDispatched \/ SetSpecial \/ SetAcknowledged \/ SetNotAnswered
  \/ GetRefused \/ GetDispatched \/ GetSpecial \/ GetAnswered \/ GetStalled

Next == Host \/ Device

Spec == Init /\ [][Next]_vars

-----------------------------------------------------------------------------
(* Type invariant.  The payload of a call lies within request_data. *)
TypeOK ==
  /\ host \in {"idle", "transfer", "query"}
  /\ request \in Setup
  /\ result \in [ret : ControlRet \cup Junk, data : Seq(Byte), read : BOOLEAN]
  /\ answer \subseteq Answer
  /\ setup \cup ep0 \subseteq Setup
  /\ stage \in {"setup", "received", "executed"}
  /\ ret \in ControlRet
  /\ reply \in Seq(Byte)
  /\ last_status \in ControlRet
  /\ calls \in Seq(Call)
  /\ \A k \in 1 .. Len(calls) : Len(calls[k].payload) <= EP0_MAX_REQUEST_SIZE

(* The last call the device made is the one the user asked for, and the    *)
(* task returned CONTROL_SUCCESS.                                          *)
LastCallIsThis ==
  /\ calls # <<>>
  /\ LET c == calls[Len(calls)] IN
     /\ c.op = (IF request.dir = "SET" THEN "write" ELSE "read")
     /\ c.resid = request.resid /\ c.cmd = request.cmd
     /\ c.ifnum = resource_table[request.resid]
     /\ c.payload = (IF request.dir = "SET" THEN request.data ELSE result.data)
     /\ c.ret = CONTROL_SUCCESS

(* A write for which the user is told success was executed with success,   *)
(* after everything that was still on the device from commands given up,   *)
(* although the status may be a byte that was never set.                   *)
SuccessMeansExecuted ==
  host = "idle" /\ request.dir = "SET" /\ result.ret = CONTROL_SUCCESS => LastCallIsThis

(* A read that succeeds returns the reply to this very call, never that to *)
(* an earlier one the host gave up, nor the leavings of a failed one.      *)
ReplyOfThisRead ==
  host = "idle" /\ request.dir = "GET" /\ result.ret = CONTROL_SUCCESS =>
    request.resid = CONTROL_SPECIAL_RESID \/ LastCallIsThis

(* Where the status query is answered it is answered for this write: a     *)
(* write given up earlier does not get in between, and since only a        *)
(* success is acknowledged, the answer is a success.                       *)
StatusOfThisWrite ==
  host = "idle" /\ result.read => result.ret = CONTROL_SUCCESS /\ LastCallIsThis
=============================================================================
