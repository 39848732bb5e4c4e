------------------------------- MODULE Xscope -------------------------------
(***************************************************************************)
(* The xSCOPE transport, end to end.  The host uploads a packet through    *)
(* the endpoint library, the device answers on a probe, and the library    *)
(* delivers the answer with a callback on a thread of its own, while the   *)
(* thread of the command polls record_count.  On the device one buffer     *)
(* serves as request, as payload of the call, and as response.             *)
(*                                                                         *)
(* The endpoint library is not part of the repository: an upload fails or  *)
(* arrives, in order and once, and so does a response; an empty upload     *)
(* fails or brings the device nothing to receive.  The device may have     *)
(* another probe, with records that come at any time.                      *)
(***************************************************************************)
EXTENDS Control

CONSTANTS
  resource_table,          \* as control_register_resources left it
  XSCOPE_UPLOAD_MAX_WORDS, \* size of the host's buffer in words (64)
  Resids,                  \* what the user asks for: resource ids,
  Cmds,                    \* command codes,
  Lengths,                 \* lengths of the payload
  DataBytes,               \* and its bytes
  AppBytes,                \* what the application replies to a read
  AppRet,                  \* what the application returns
  Junk                     \* what uninitialised memory may hold

XSCOPE_UPLOAD_MAX_BYTES == 4 * XSCOPE_UPLOAD_MAX_WORDS
HEADER                  == 4  \* of control_xscope_packet and _response
XSCOPE_DATA_MAX_BYTES   == XSCOPE_UPLOAD_MAX_BYTES - HEADER

ASSUME XscopeAssumption ==
  /\ resource_table \in ResTable
  /\ XSCOPE_UPLOAD_MAX_WORDS \in Nat \ {0, 1}
  /\ XSCOPE_DATA_MAX_BYTES < 2 * READ_BIT
  /\ CONTROL_SPECIAL_RESID < RESOURCE_TABLE_MAX
  /\ Resids \cup Cmds \cup DataBytes \cup AppBytes \cup Junk \subseteq Byte
  /\ Lengths \subseteq Nat
  /\ AppRet \subseteq ControlRet

VARIABLES
  host,           \* where the thread of the command is
  request,        \* the command the user asked for, with its read bit set
                  \* or cleared by the function the user called
  b,              \* the packet built for it, if any
  probe_id,       \* the probe the responses come from,
  probe_id_set,   \* and whether it is known yet
  record_count,   \* responses seen since it was last set to zero
  last_response,  \* the last response, if any
  recording,      \* is record_callback between the copy and the count?
  result,         \* what the user got
  uplink,         \* the packet on the way to the device, if any
  probe,          \* the response on the way back, if any
  noise,          \* the record of the other probe on its way, if any
  buffer,         \* the buffer of xscope_control_client
  last_status,    \* on the device
  calls           \* calls made since the command began

wire   == <<uplink, probe, noise>>
ids    == <<probe_id, probe_id_set>>
device == <<buffer, last_status, calls>>
vars   == <<host, request, b, ids, record_count, last_response, recording, result,
            wire, device>>

Index == 0 .. (XSCOPE_DATA_MAX_BYTES - 1)

(* The first len bytes of a payload in the buffer. *)
Prefix(p, len) == [k \in 1 .. len |-> p[k - 1]]

Request  == [op : {"write", "read"}, resid : Byte, cmd : Byte, len : Nat,
             data : Seq(Byte)]
Packet   == [resid : Byte, cmd : Byte, payload_len : Byte, pad : Byte,
             data : Seq(Byte)]
Response == [resid : Byte, cmd : Byte, payload_len : Byte, ret : Byte,
             data : Seq(Byte)]

(* What is there at most once is the set of it. *)
None == {}

Probes == {"control", "other"}   \* XSCOPE_CONTROL_PROBE and another

-----------------------------------------------------------------------------
NoResult == [ret |-> CONTROL_ERROR, data |-> <<>>]

Init ==
  /\ host = "closed"
  /\ request = [op |-> "write", resid |-> 0, cmd |-> 0, len |-> 0, data |-> <<>>]
  /\ probe_id \in Probes /\ probe_id_set = FALSE  \* zero is the id of either
  /\ b = None /\ last_response = None /\ recording = FALSE
  /\ record_count = 0
  /\ result = NoResult
  /\ uplink = None /\ probe = None /\ noise = None
  /\ \E x \in Junk :
       buffer = [resid |-> x, cmd |-> x, payload_len |-> x, ret |-> x,
                 data |-> [k \in Index |-> x]]
  /\ last_status = CONTROL_SUCCESS
  /\ calls = <<>>

-----------------------------------------------------------------------------
(* The host connects: control_init_xscope, and register_callback on the    *)
(* thread of the endpoint library, called for every probe there is.        *)
control_init_xscope ==
  /\ host = "closed"
  /\ host' = "connecting"
  /\ UNCHANGED <<request, b, ids, record_count, last_response, recording, result,
                 wire, device>>

register_callback ==
  /\ host = "connecting" /\ ~probe_id_set
  /\ probe_id' = "control" /\ probe_id_set' = TRUE
  /\ UNCHANGED <<host, request, b, record_count, last_response, recording, result,
                 wire, device>>

Connected ==
  /\ host = "connecting" /\ probe_id_set
  /\ host' = "idle"
  /\ UNCHANGED <<request, b, ids, record_count, last_response, recording, result,
                 wire, device>>

(* control_xscope_create_upload_buffer: the length in bytes is  *)
(* compared with a number of words, and the pad byte is not set.           *)
control_xscope_create_upload_buffer(r) ==
  IF r.len > XSCOPE_UPLOAD_MAX_WORDS
  THEN {None}
  ELSE {{[resid |-> r.resid, cmd |-> r.cmd, payload_len |-> r.len, pad |-> x,
          data |-> r.data]} : x \in Junk}

Begin(r) ==
  /\ request' = r
  /\ b' \in control_xscope_create_upload_buffer(r)
  /\ host' = "built"
  /\ result' = NoResult /\ calls' = <<>>
  /\ UNCHANGED <<ids, record_count, last_response, recording, wire, buffer, last_status>>

control_write_command ==
  /\ host = "idle"
  /\ \E res \in Resids, c \in Cmds, len \in Lengths :
       \E data \in [1 .. len -> DataBytes] :
         Begin([op |-> "write", resid |-> res, cmd |-> CONTROL_CMD_SET_WRITE(c),
                len |-> len, data |-> data])

(* control_query_version is such a read as well. *)
control_read_command ==
  /\ host = "idle"
  /\ \E res \in Resids, c \in Cmds, len \in Lengths :
       Begin([op |-> "read", resid |-> res, cmd |-> CONTROL_CMD_SET_READ(c),
              len |-> len, data |-> <<>>])

(* Mutant: the responses of earlier commands stay counted. *)
Reset_Forgotten ==
  /\ host = "built"
  /\ host' = "reset"
  /\ UNCHANGED <<request, b, ids, record_count, last_response, recording, result,
                 wire, device>>

Reset ==
  /\ host = "built"
  /\ record_count' = 0
  /\ host' = "reset"
  /\ UNCHANGED <<request, b, ids, last_response, recording, result, wire, device>>

(* xscope_ep_request_upload *)
Upload ==
  /\ host = "reset"
  /\ uplink' = b
  /\ host' = "waiting"
  /\ UNCHANGED <<request, b, ids, record_count, last_response, recording, result,
                 probe, noise, device>>

UploadFails ==
  /\ host = "reset"
  /\ result' = NoResult
  /\ host' = "idle"
  /\ UNCHANGED <<request, b, ids, record_count, last_response, recording, wire, device>>

(* What the user gets from the response r.  The bytes are copied whether   *)
(* the response has them or not.                                           *)
Outcome(r, x) ==
  [ret  |-> CONTROL_SUCCESS + r.ret,
   data |-> IF IS_CONTROL_CMD_READ(request.cmd)
            THEN [k \in 1 .. request.len |-> IF k <= Len(r.data) THEN r.data[k] ELSE x]
            ELSE <<>>]

(* Mutant: the wait is given up. *)
Return_GivesUp ==
  /\ host = "waiting"
  /\ result' = NoResult
  /\ host' = "idle"
  /\ UNCHANGED <<request, b, ids, record_count, last_response, recording, wire, device>>

(* The poll of record_count, every pause_short. *)
Return ==
  /\ host = "waiting"
  /\ record_count # 0
  /\ \E r \in last_response, x \in Junk : result' = Outcome(r, x)
  /\ host' = "idle"
  /\ UNCHANGED <<request, b, ids, record_count, last_response, recording, wire, device>>

-----------------------------------------------------------------------------
(* record_callback, on the thread of the endpoint library, for the record  *)
(* of either probe.                                                        *)
Records(id) == IF id = "control" THEN probe ELSE noise

Taken(id) ==
  /\ ~recording /\ Records(id) # None
  /\ IF id = "control" THEN probe' = None /\ UNCHANGED noise
                       ELSE noise' = None /\ UNCHANGED probe

(* Mutant: the flag is looked at, the id is not. *)
IsResponse_AnyId(id) == probe_id_set

IsResponse(id) == probe_id_set /\ id = probe_id

RecordCopies ==
  \E id \in Probes :
    /\ IsResponse(id)
    /\ Taken(id)
    /\ last_response' = Records(id)
    /\ recording' = TRUE
    /\ UNCHANGED <<host, request, b, ids, record_count, result, uplink, device>>

RecordIgnored ==
  \E id \in Probes :
    /\ ~IsResponse(id)
    /\ Taken(id)
    /\ UNCHANGED <<host, request, b, ids, record_count, last_response, recording,
                   result, uplink, device>>

RecordCounts ==
  /\ recording
  /\ record_count' = record_count + 1
  /\ recording' = FALSE
  /\ UNCHANGED <<host, request, b, ids, last_response, result, wire, device>>

-----------------------------------------------------------------------------
(* The device: the case of xscope_control_client.  The packet lands on top *)
(* of the last response.                                                   *)
Received(p) ==
  [resid |-> p.resid, cmd |-> p.cmd, payload_len |-> p.payload_len, ret |-> p.pad,
   data |-> [k \in Index |-> IF k < Len(p.data) THEN p.data[k + 1] ELSE buffer.data[k]]]

Search(x) ==
  resource_table_search(resource_table, {CONTROL_SPECIAL_RESID}, x)

(* xscope_core_bytes: n bytes after the header of the buffer. *)
Respond(buf, n) ==
  /\ buffer' = buf
  /\ uplink' = None
  /\ probe' = {[resid |-> buf.resid, cmd |-> buf.cmd, payload_len |-> buf.payload_len,
                ret |-> buf.ret, data |-> Prefix(buf.data, n)]}
  /\ UNCHANGED <<host, request, b, ids, record_count, last_response, recording, result,
                 noise>>

(* Mutant: no response for an unknown resource. *)
UploadUnknown_NoResponse ==
  \E p \in uplink :
    /\ Search(p.resid) = {}
    /\ buffer' = Received(p)
    /\ uplink' = None
    /\ UNCHANGED <<host, request, b, ids, record_count, last_response, recording, result,
                   probe, noise, last_status, calls>>

UploadUnknown ==
  \E p \in uplink :
    /\ Search(p.resid) = {}
    /\ Respond(Received(p), 0)
    /\ UNCHANGED <<last_status, calls>>

UploadWrite ==
  \E p \in uplink : \E ifn \in Search(p.resid), ret \in ControlRet :
    /\ ~IS_CONTROL_CMD_READ(p.cmd)
    /\ IF p.resid = CONTROL_SPECIAL_RESID
       THEN ret = CONTROL_BAD_COMMAND /\ UNCHANGED calls
       ELSE /\ ret \in AppRet
            /\ calls' = Append(calls, WriteCall(ifn, p.resid, p.cmd,
                          Prefix(Received(p).data, p.payload_len), ret))
    /\ last_status' = ret
    /\ Respond([Received(p) EXCEPT !.ret = ret], 0)

(* read_command: the payloads it may leave in the buffer. *)
Replies(p) ==
  {[k \in Index |-> IF k < p.payload_len THEN reply[k] ELSE Received(p).data[k]] :
     reply \in [0 .. (p.payload_len - 1) -> AppBytes]}

ReadSpecial ==
  \E p \in uplink :
    /\ IS_CONTROL_CMD_READ(p.cmd)
    /\ p.resid = CONTROL_SPECIAL_RESID
    /\ IF special_read_ret(p.cmd, p.payload_len) = CONTROL_SUCCESS
       THEN Respond([Received(p) EXCEPT !.ret = CONTROL_SUCCESS,
                       !.data[0] = special_read_byte(p.cmd, last_status)], 1)
       ELSE Respond([Received(p) EXCEPT !.ret = CONTROL_BAD_COMMAND], 0)
    /\ UNCHANGED <<last_status, calls>>

(* Data is only returned with success.  An application that fails may or   *)
(* may not have written to the buffer.                                     *)
UploadRead ==
  \E p \in uplink : \E ifn \in Search(p.resid), ret \in AppRet :
    \E d \in Replies(p) \cup (IF ret = CONTROL_SUCCESS THEN {} ELSE {Received(p).data}) :
      /\ IS_CONTROL_CMD_READ(p.cmd)
      /\ p.resid # CONTROL_SPECIAL_RESID
      /\ calls' = Append(calls, ReadCall(ifn, p.resid, p.cmd,
                    Prefix(d, p.payload_len), ret))
      /\ Respond([Received(p) EXCEPT !.ret = ret, !.data = d],
                 IF ret = CONTROL_SUCCESS THEN p.payload_len ELSE 0)
      /\ UNCHANGED last_status

(* The application has something to say on its own probe. *)
OtherProbe ==
  /\ host # "closed" /\ noise = None
  /\ \E x \in Junk :
       noise' = {[resid |-> x, cmd |-> x, payload_len |-> 0, ret |-> x, data |-> <<>>]}
  /\ UNCHANGED <<host, request, b, ids, record_count, last_response, recording, result,
                 uplink, probe, device>>

-----------------------------------------------------------------------------
Connect  == control_init_xscope \/ register_callback \/ Connected
Command  == Reset \/ Upload \/ UploadFails \/ Return
Callback == RecordCopies \/ RecordCounts
Device   == UploadUnknown \/ UploadWrite \/ ReadSpecial \/ UploadRead

Next ==
  \/ Connect \/ control_write_command \/ control_read_command \/ Command
  \/ Callback \/ RecordIgnored \/ Device \/ OtherProbe

Spec == Init /\ [][Next]_vars

(* The three threads run, and the library delivers the responses in spite  *)
(* of the other probe; the user need not call.                             *)
FairSpec == Spec /\ WF_vars(Command) /\ WF_vars(Callback) /\ WF_vars(Device)

-----------------------------------------------------------------------------
(* Type invariant of host, link and device. *)
TypeOK ==
  /\ host \in {"closed", "connecting", "idle", "built", "reset", "waiting"}
  /\ request \in Request
  /\ \A p \in b \cup uplink : p \in Packet
  /\ \A r \in last_response \cup probe \cup noise : r \in Response
  /\ probe_id \in Probes /\ probe_id_set \in BOOLEAN
  /\ recording \in BOOLEAN
  /\ record_count \in {0, 1}
  /\ result \in [ret : ControlRet \cup Junk, data : Seq(Byte)]
  /\ buffer \in [resid : Byte, cmd : Byte, payload_len : Byte, ret : Byte,
                 data : [Index -> Byte]]
  /\ last_status \in ControlRet
  /\ calls \in Seq(Call)

(* The two threads of the host share their variables without a lock.  What *)
(* makes that work: outside the wait of a command nothing is on its way,   *)
(* so the callback that counts and replaces the last response never runs   *)
(* while the command resets the count or reads the response.               *)
NothingInFlight ==
  host # "waiting" => uplink = None /\ probe = None /\ ~recording

(* The answer to a packet that was sent is always somewhere: on the link,  *)
(* in the callback or in the count, and nowhere can it be taken for the    *)
(* record of another probe.  So a command that waits without limit never   *)
(* waits for what has been lost.                                           *)
AnswerUnderWay ==
  host = "waiting" /\ b # None =>
    \/ uplink = b
    \/ probe # None /\ IsResponse("control")
    \/ recording /\ last_response # None
    \/ record_count # 0 /\ last_response # None

(* A command to a registered resource gives the user the result, and after *)
(* a successful read the data, of the one call it made, with the payload   *)
(* the user passed; only after a failed upload is there none.  Nothing of  *)
(* an earlier command comes through the shared buffer or the last response.*)
ResultOfThisCommand ==
  host = "idle" /\ request.resid # CONTROL_SPECIAL_RESID /\ Search(request.resid) # {} =>
    IF calls = <<>>
    THEN result.ret = CONTROL_ERROR
    ELSE LET c == calls[1] IN
         /\ Len(calls) = 1
         /\ c.resid = request.resid /\ c.cmd = request.cmd
         /\ c.ifnum = resource_table[request.resid]
         /\ c.ret = result.ret
         /\ c.op = "write" <=> ~IS_CONTROL_CMD_READ(request.cmd)
         /\ c.op = "write" => c.payload = request.data
         /\ c.op = "read" /\ c.ret = CONTROL_SUCCESS => result.data = c.payload

(* The wait has no time limit; a packet that was sent ends it. *)
HostReturns == (host = "waiting" /\ b # None) ~> host = "idle"

(* What the documentation says: the host is told whether the device has    *)
(* received the command, so a success means it was executed.               *)
SuccessMeansExecuted ==
  host = "idle" /\ request.resid # CONTROL_SPECIAL_RESID /\ result.ret = CONTROL_SUCCESS =>
    calls # <<>>

(* What the documentation says: 252 bytes of data (four less than the      *)
(* upload) is the maximum of the transport, so such a command comes back.  *)
LegalCommandReturns ==
  (host = "waiting" /\ request.len <= XSCOPE_DATA_MAX_BYTES) ~> host = "idle"

(* What the two functions promise for a registered resource: the task is   *)
(* called once at most, as asked, and a success is the success of that     *)
(* call, whatever the buffer and the last response hold.                   *)
Service == INSTANCE ControlService WITH
  busy <- host \notin {"closed", "connecting", "idle"},
  log <- calls,
  Promised <- {r \in Request : r.resid # CONTROL_SPECIAL_RESID /\ Search(r.resid) # {}}

ImplementsControlService == Service!Spec
=============================================================================
