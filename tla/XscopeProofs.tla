---------------------------- MODULE XscopeProofs ----------------------------
(***************************************************************************)
(* Proofs about the xSCOPE transport.  The inductive invariant follows one *)
(* command around: its packet, the response, the callback and the count    *)
(* are never there two at a time, and each of them is about the command    *)
(* the host waits for.  From it follow the result the user gets, and that  *)
(* the transport implements ControlService.                                *)
(***************************************************************************)
EXTENDS Xscope, ControlLemmas

(* Only the control probe is ever listened to, and by the time the first   *)
(* command is made it is known.                                            *)
ProbeKnown ==
  /\ host \notin {"closed", "connecting"} => probe_id_set
  /\ probe_id_set => probe_id = "control"

(* A command is on its way as a packet, as a response, in the callback or  *)
(* in the count.                                                           *)
OneAtATime ==
  /\ uplink # None => uplink = b /\ probe = None
  /\ uplink # None \/ probe # None => ~recording /\ record_count = 0
  /\ recording \/ host = "reset" => record_count = 0

(* What the user asks for. *)
WellAsked ==
  /\ request.op = "read" <=> IS_CONTROL_CMD_READ(request.cmd)
  /\ request.op = "write" => Len(request.data) = request.len
  /\ request.op = "read" => request.data = <<>>

(* The packet carries it, with a pad byte that was never set. *)
PacketOfRequest ==
  \A p \in b :
    /\ p.resid = request.resid /\ p.cmd = request.cmd
    /\ p.payload_len = request.len /\ p.data = request.data
    /\ p.pad \in Junk
    /\ request.len <= XSCOPE_DATA_MAX_BYTES

(* Nothing is called before the packet is taken. *)
NotCalledYet ==
  host \in {"closed", "connecting", "built", "reset"} \/ uplink # None => calls = <<>>

Known == request.resid # CONTROL_SPECIAL_RESID /\ Search(request.resid) # {}

Serves(c) ==
  /\ c.op = request.op /\ c.resid = request.resid /\ c.cmd = request.cmd
  /\ c.ifnum = resource_table[request.resid]
  /\ Len(c.payload) = request.len
  /\ request.op = "write" => c.payload = request.data

(* The response r is the truth about the call that was made. *)
IsAnswer(r) ==
  /\ r.ret \in ControlRet \cup Junk
  /\ Known =>
       /\ Len(calls) = 1
       /\ Serves(calls[1]) /\ calls[1].ret = r.ret
       /\ calls[1].op = "read" /\ r.ret = CONTROL_SUCCESS => r.data = calls[1].payload

AnswersAreTrue ==
  /\ \A r \in probe : IsAnswer(r)
  /\ host = "waiting" /\ (recording \/ record_count # 0) =>
       \A r \in last_response : IsAnswer(r)

NotConnected == host \in {"closed", "connecting"} => result = NoResult

IInv ==
  /\ TypeOK
  /\ ProbeKnown /\ OneAtATime /\ NothingInFlight
  /\ WellAsked /\ PacketOfRequest /\ NotCalledYet
  /\ AnswersAreTrue /\ NotConnected /\ ResultOfThisCommand

-----------------------------------------------------------------------------
(* The sizes: the words of the upload are less than the bytes of its data. *)
LEMMA SizeFacts ==
  /\ XSCOPE_DATA_MAX_BYTES \in Nat
  /\ XSCOPE_UPLOAD_MAX_WORDS <= XSCOPE_DATA_MAX_BYTES
  /\ 0 .. XSCOPE_DATA_MAX_BYTES \subseteq Byte
  /\ 0 \in Index
BY XscopeAssumption, ControlAssumption
   DEF XSCOPE_DATA_MAX_BYTES, XSCOPE_UPLOAD_MAX_BYTES, HEADER, Byte, Index

LEMMA SearchFacts ==
  ASSUME NEW x \in Byte
  PROVE  /\ Search(x) \subseteq IfNum
         /\ x # CONTROL_SPECIAL_RESID => \A k \in Search(x) : k = resource_table[x]
BY XscopeAssumption, LookupFacts DEF Search

(* The first len bytes of a payload. *)
LEMMA PrefixFacts ==
  ASSUME NEW p \in [Index -> Byte], NEW len \in 0 .. XSCOPE_DATA_MAX_BYTES
  PROVE  /\ Prefix(p, len) \in Seq(Byte)
         /\ Len(Prefix(p, len)) = len
         /\ \A k \in 1 .. len : Prefix(p, len)[k] = p[k - 1]
<1>1. len \in Nat
  BY SizeFacts
<1>2. \A k \in 1 .. len : k - 1 \in Index
  BY <1>1, SizeFacts DEF Index
<1> QED BY <1>1, <1>2 DEF Prefix

(* What lands in the buffer. *)
LEMMA ReceivedFacts ==
  ASSUME TypeOK, NEW p \in Packet
  PROVE  /\ Received(p) \in [resid : Byte, cmd : Byte, payload_len : Byte, ret : Byte,
                             data : [Index -> Byte]]
         /\ Received(p).resid = p.resid /\ Received(p).cmd = p.cmd
         /\ Received(p).payload_len = p.payload_len /\ Received(p).ret = p.pad
         /\ \A k \in Index : k < Len(p.data) => Received(p).data[k] = p.data[k + 1]
<1> DEFINE d == [k \in Index |-> IF k < Len(p.data) THEN p.data[k + 1] ELSE buffer.data[k]]
<1>1. p.data \in Seq(Byte) /\ buffer.data \in [Index -> Byte]
  BY DEF TypeOK, Packet
<1>2. \A k \in Index : k < Len(p.data) => p.data[k + 1] \in Byte
  BY <1>1 DEF Index
<1>3. d \in [Index -> Byte]
  BY <1>1, <1>2
<1>4. \A k \in Index : k < Len(p.data) => d[k] = p.data[k + 1]
  OBVIOUS
<1> HIDE DEF d
<1>5. Received(p) = [resid |-> p.resid, cmd |-> p.cmd, payload_len |-> p.payload_len,
                     ret |-> p.pad, data |-> d]
  BY DEF Received, d
<1> QED BY <1>3, <1>4, <1>5 DEF Packet

-----------------------------------------------------------------------------
LEMMA Initially == Init => IInv
<1> SUFFICES ASSUME Init PROVE IInv
  OBVIOUS
<1>1. request \in Request /\ request.op = "write" /\ request.cmd = 0 /\ request.len = 0
      /\ request.data = <<>>
  BY EmptySeq, ControlAssumption DEF Init, Request, Byte
<1>2. result \in [ret : ControlRet \cup Junk, data : Seq(Byte)] /\ result.ret = CONTROL_ERROR
  BY EmptySeq, RetFacts DEF Init, NoResult
<1>3. buffer \in [resid : Byte, cmd : Byte, payload_len : Byte, ret : Byte,
                  data : [Index -> Byte]]
  <2>1. PICK x \in Junk : buffer = [resid |-> x, cmd |-> x, payload_len |-> x, ret |-> x,
                                    data |-> [k \in Index |-> x]]
    BY DEF Init
  <2>2. x \in Byte
    BY XscopeAssumption
  <2> QED BY <2>1, <2>2
<1>4. TypeOK
  BY <1>1, <1>2, <1>3, EmptySeq, RetFacts DEF Init, TypeOK, None
<1>5. WellAsked
  BY <1>1, ControlAssumption DEF WellAsked, IS_CONTROL_CMD_READ
<1> QED BY <1>1, <1>2, <1>4, <1>5
  DEF Init, IInv, ProbeKnown, OneAtATime, NothingInFlight, PacketOfRequest, NotCalledYet,
      AnswersAreTrue, NotConnected, ResultOfThisCommand, None

-----------------------------------------------------------------------------
(* The host.                                                               *)
LEMMA ConnectStep == ASSUME IInv, Connect PROVE IInv'
<1>1. /\ UNCHANGED <<request, b, record_count, last_response, recording, result, uplink, probe,
                     noise, buffer, last_status, calls>>
      /\ host # "waiting" /\ host' \in {"connecting", "idle"}
      /\ result = NoResult /\ calls = <<>>
  BY DEF Connect, control_init_xscope, register_callback, Connected, wire, device, IInv,
         NotConnected, NotCalledYet
<1>2. \/ UNCHANGED <<probe_id, probe_id_set>> /\ (host' # "connecting" => probe_id_set)
      \/ probe_id' = "control" /\ probe_id_set' = TRUE
  BY DEF Connect, control_init_xscope, register_callback, Connected, ids
<1>3. probe_id_set' \in BOOLEAN /\ probe_id' \in Probes /\ ProbeKnown'
  <2>1. probe_id_set \in BOOLEAN /\ probe_id \in Probes
        /\ (probe_id_set => probe_id = "control")
    BY DEF IInv, TypeOK, ProbeKnown
  <2>2. CASE UNCHANGED <<probe_id, probe_id_set>> /\ (host' # "connecting" => probe_id_set)
    BY <1>1, <2>1, <2>2 DEF ProbeKnown
  <2>3. CASE probe_id' = "control" /\ probe_id_set' = TRUE
    BY <2>3 DEF ProbeKnown, Probes
  <2> QED BY <1>2, <2>2, <2>3
<1>4. TypeOK'
  BY <1>1, <1>3 DEF IInv, TypeOK
<1>5. ResultOfThisCommand'
  BY <1>1 DEF ResultOfThisCommand, NoResult
<1> QED BY <1>1, <1>3, <1>4, <1>5
  DEF IInv, OneAtATime, NothingInFlight, WellAsked, PacketOfRequest, NotCalledYet,
      AnswersAreTrue, IsAnswer, Known, Serves, NotConnected

Asked ==
  {r \in Request : /\ r.op = "read" <=> IS_CONTROL_CMD_READ(r.cmd)
                   /\ r.op = "write" => Len(r.data) = r.len
                   /\ r.op = "read" => r.data = <<>>}

LEMMA WriteAsks ==
  ASSUME control_write_command PROVE host = "idle" /\ \E r \in Asked : Begin(r)
<1>1. PICK res \in Resids, c \in Cmds, len \in Lengths : \E data \in [1 .. len -> DataBytes] :
        Begin([op |-> "write", resid |-> res, cmd |-> CONTROL_CMD_SET_WRITE(c),
               len |-> len, data |-> data])
  BY DEF control_write_command
<1>2. PICK data \in [1 .. len -> DataBytes] :
        Begin([op |-> "write", resid |-> res, cmd |-> CONTROL_CMD_SET_WRITE(c),
               len |-> len, data |-> data])
  BY <1>1
<1>3. /\ res \in Byte /\ len \in Nat
      /\ CONTROL_CMD_SET_WRITE(c) \in Byte /\ ~IS_CONTROL_CMD_READ(CONTROL_CMD_SET_WRITE(c))
  BY XscopeAssumption, CmdFacts
<1>4. data \in Seq(Byte) /\ Len(data) = len
  BY <1>3, XscopeAssumption
<1> QED BY <1>2, <1>3, <1>4 DEF control_write_command, Request, Asked

LEMMA ReadAsks ==
  ASSUME control_read_command PROVE host = "idle" /\ \E r \in Asked : Begin(r)
<1>1. PICK res \in Resids, c \in Cmds, len \in Lengths :
        Begin([op |-> "read", resid |-> res, cmd |-> CONTROL_CMD_SET_READ(c),
               len |-> len, data |-> <<>>])
  BY DEF control_read_command
<1>2. /\ res \in Byte /\ len \in Nat
      /\ CONTROL_CMD_SET_READ(c) \in Byte /\ IS_CONTROL_CMD_READ(CONTROL_CMD_SET_READ(c))
  BY XscopeAssumption, CmdFacts
<1> QED BY <1>1, <1>2, EmptySeq DEF control_read_command, Request, Asked

(* The packet that is built for a request that fits. *)
LEMMA PacketFacts ==
  ASSUME NEW r \in Request, NEW ps \in control_xscope_create_upload_buffer(r)
  PROVE  /\ ps \subseteq Packet
         /\ \A p \in ps : /\ p.resid = r.resid /\ p.cmd = r.cmd
                          /\ p.payload_len = r.len /\ p.data = r.data
                          /\ p.pad \in Junk /\ r.len <= XSCOPE_DATA_MAX_BYTES
<1>1. CASE r.len > XSCOPE_UPLOAD_MAX_WORDS
  BY <1>1 DEF control_xscope_create_upload_buffer, None
<1>2. CASE ~(r.len > XSCOPE_UPLOAD_MAX_WORDS)
  <2>1. PICK x \in Junk :
          ps = {[resid |-> r.resid, cmd |-> r.cmd, payload_len |-> r.len, pad |-> x,
                 data |-> r.data]}
    BY <1>2 DEF control_xscope_create_upload_buffer
  <2>2. r.len \in Nat /\ r.len <= XSCOPE_DATA_MAX_BYTES
    BY <1>2, SizeFacts, XscopeAssumption DEF Request
  <2>3. x \in Byte /\ r.len \in Byte
    BY <2>2, SizeFacts, XscopeAssumption
  <2> QED BY <2>1, <2>2, <2>3 DEF Packet, Request
<1> QED BY <1>1, <1>2

LEMMA BeginStep == ASSUME IInv, host = "idle", NEW r \in Asked, Begin(r) PROVE IInv'
<1>1. r \in Request /\ b' \in control_xscope_create_upload_buffer(r)
  BY DEF Asked, Begin
<1>2. /\ request' = r /\ host' = "built" /\ result' = NoResult /\ calls' = <<>>
      /\ UNCHANGED <<probe_id, probe_id_set, record_count, last_response, recording,
                     uplink, probe, noise, buffer, last_status>>
  BY DEF Begin, ids, wire
<1>3. uplink = None /\ probe = None /\ ~recording
  BY DEF IInv, NothingInFlight
<1>4. b' \subseteq Packet /\ PacketOfRequest'
  BY <1>1, <1>2, PacketFacts DEF PacketOfRequest
<1>5. NoResult \in [ret : ControlRet \cup Junk, data : Seq(Byte)]
  BY RetFacts, EmptySeq DEF NoResult
<1>6. TypeOK'
  BY <1>1, <1>2, <1>3, <1>4, <1>5, EmptySeq DEF IInv, TypeOK, None
<1>7. WellAsked'
  BY <1>2 DEF Asked, WellAsked
<1> QED BY <1>2, <1>3, <1>4, <1>6, <1>7
  DEF IInv, ProbeKnown, OneAtATime, NothingInFlight, NotCalledYet, AnswersAreTrue,
      NotConnected, ResultOfThisCommand, None

LEMMA SendStep == ASSUME IInv, Reset \/ Upload \/ UploadFails PROVE IInv'
<1>1. CASE Reset
  <2>1. /\ host = "built" /\ record_count' = 0 /\ host' = "reset"
        /\ UNCHANGED <<request, b, probe_id, probe_id_set, last_response, recording, result,
                       uplink, probe, noise, buffer, last_status, calls>>
    BY <1>1 DEF Reset, ids, wire, device
  <2>2. TypeOK'
    BY <2>1 DEF IInv, TypeOK
  <2> QED BY <2>1, <2>2
    DEF IInv, ProbeKnown, OneAtATime, NothingInFlight, WellAsked, PacketOfRequest,
        NotCalledYet, AnswersAreTrue, NotConnected, ResultOfThisCommand, None
<1>2. CASE Upload
  <2>1. /\ host = "reset" /\ uplink' = b /\ host' = "waiting"
        /\ UNCHANGED <<request, b, probe_id, probe_id_set, record_count, last_response,
                       recording, result, probe, noise, buffer, last_status, calls>>
    BY <1>2 DEF Upload, ids, device
  <2>2. /\ uplink = None /\ probe = None /\ ~recording /\ record_count = 0 /\ calls = <<>>
    BY <2>1 DEF IInv, NothingInFlight, OneAtATime, NotCalledYet
  <2>3. TypeOK'
    BY <2>1 DEF IInv, TypeOK
  <2> QED BY <2>1, <2>2, <2>3
    DEF IInv, ProbeKnown, OneAtATime, NothingInFlight, WellAsked, PacketOfRequest,
        NotCalledYet, AnswersAreTrue, NotConnected, ResultOfThisCommand, None
<1>3. CASE UploadFails
  <2>1. /\ host = "reset" /\ result' = NoResult /\ host' = "idle"
        /\ UNCHANGED <<request, b, probe_id, probe_id_set, record_count, last_response,
                       recording, uplink, probe, noise, buffer, last_status, calls>>
    BY <1>3 DEF UploadFails, ids, wire, device
  <2>2. calls = <<>> /\ NoResult.ret = CONTROL_ERROR
    BY <2>1 DEF IInv, NotCalledYet, NoResult
  <2>3. NoResult \in [ret : ControlRet \cup Junk, data : Seq(Byte)]
    BY RetFacts, EmptySeq DEF NoResult
  <2>4. TypeOK'
    BY <2>1, <2>3 DEF IInv, TypeOK
  <2> QED BY <2>1, <2>2, <2>4
    DEF IInv, ProbeKnown, OneAtATime, NothingInFlight, WellAsked, PacketOfRequest,
        NotCalledYet, AnswersAreTrue, NotConnected, ResultOfThisCommand, Search, None
<1> QED BY <1>1, <1>2, <1>3

(* What the user gets from a true answer. *)
LEMMA OutcomeFacts ==
  ASSUME IInv, NEW r \in Response, IsAnswer(r), NEW x \in Junk
  PROVE  /\ Outcome(r, x) \in [ret : ControlRet \cup Junk, data : Seq(Byte)]
         /\ Outcome(r, x).ret = r.ret
         /\ Known /\ r.ret = CONTROL_SUCCESS /\ request.op = "read" =>
              Outcome(r, x).data = calls[1].payload
<1> DEFINE d == [k \in 1 .. request.len |-> IF k <= Len(r.data) THEN r.data[k] ELSE x]
<1>1. r.ret \in Nat /\ r.ret \in ControlRet \cup Junk /\ r.data \in Seq(Byte) /\ x \in Byte
      /\ request.len \in Nat
  BY ByteFacts, XscopeAssumption DEF Response, IsAnswer, IInv, TypeOK, Request
<1>2. CONTROL_SUCCESS + r.ret = r.ret
  BY <1>1 DEF CONTROL_SUCCESS
<1>3. \A k \in 1 .. request.len : (IF k <= Len(r.data) THEN r.data[k] ELSE x) \in Byte
  BY <1>1
<1>4. d \in Seq(Byte) /\ Len(d) = request.len
  BY <1>1, <1>3
<1>5. ASSUME Known, r.ret = CONTROL_SUCCESS, request.op = "read"
      PROVE  d = calls[1].payload
  <2>1. /\ r.data = calls[1].payload /\ Len(calls[1].payload) = request.len
    BY <1>5 DEF IsAnswer, Serves
  <2>2. \A k \in 1 .. Len(d) : d[k] = r.data[k]
    BY <1>4, <2>1
  <2> QED BY <1>1, <1>4, <2>1, <2>2, SameElements
<1>6. request.op = "read" <=> IS_CONTROL_CMD_READ(request.cmd)
  BY DEF IInv, WellAsked
<1> HIDE DEF d
<1>7. Outcome(r, x) = [ret |-> CONTROL_SUCCESS + r.ret,
                       data |-> IF IS_CONTROL_CMD_READ(request.cmd) THEN d ELSE <<>>]
  BY DEF Outcome, d
<1>8. Outcome(r, x).ret = r.ret
      /\ Outcome(r, x).data = IF IS_CONTROL_CMD_READ(request.cmd) THEN d ELSE <<>>
  BY <1>2, <1>7
<1>9. Outcome(r, x) \in [ret : ControlRet \cup Junk, data : Seq(Byte)]
  BY <1>1, <1>2, <1>4, <1>7, EmptySeq
<1> QED BY <1>5, <1>6, <1>8, <1>9

(* The response the command returns with is the answer to it. *)
LEMMA ReturnFacts ==
  ASSUME IInv, Return
  PROVE  /\ host = "waiting" /\ host' = "idle"
         /\ UNCHANGED <<request, b, probe_id, probe_id_set, record_count, last_response,
                        recording, uplink, probe, noise, buffer, last_status, calls>>
         /\ uplink = None /\ probe = None /\ ~recording
         /\ \E r \in last_response, x \in Junk : IsAnswer(r) /\ r \in Response /\ result' = Outcome(r, x)
BY DEF Return, ids, wire, device, IInv, OneAtATime, AnswersAreTrue, TypeOK, None

LEMMA ReturnStep == ASSUME IInv, Return PROVE IInv'
<1>1. /\ host' = "idle"
      /\ UNCHANGED <<request, b, probe_id, probe_id_set, record_count, last_response,
                     recording, uplink, probe, noise, buffer, last_status, calls>>
      /\ uplink = None /\ probe = None /\ ~recording
  BY ReturnFacts
<1>2. PICK r \in last_response, x \in Junk : IsAnswer(r) /\ r \in Response /\ result' = Outcome(r, x)
  BY ReturnFacts
<1>3. /\ result' \in [ret : ControlRet \cup Junk, data : Seq(Byte)]
      /\ result'.ret = r.ret
      /\ Known /\ r.ret = CONTROL_SUCCESS /\ request.op = "read" =>
           result'.data = calls[1].payload
  BY <1>2, OutcomeFacts
<1>4. TypeOK'
  BY <1>1, <1>3 DEF IInv, TypeOK
<1>5. request.op \in {"read", "write"} /\ (request.op = "read" <=> IS_CONTROL_CMD_READ(request.cmd))
  BY DEF IInv, WellAsked, TypeOK, Request
<1>6. ASSUME Known PROVE ResultOfThisCommand'
  <2>1. /\ Len(calls) = 1
        /\ Serves(calls[1]) /\ calls[1].ret = r.ret
    BY <1>2, <1>6 DEF IsAnswer
  <2>2. calls # <<>>
    BY <2>1
  <2> QED BY <1>1, <1>3, <1>5, <1>6, <2>1, <2>2 DEF ResultOfThisCommand, Serves
<1>7. ASSUME ~Known PROVE ResultOfThisCommand'
  BY <1>1, <1>7 DEF Known, ResultOfThisCommand, Search
<1>8. ProbeKnown' /\ NotConnected' /\ NotCalledYet'
  BY <1>1, ReturnFacts DEF IInv, ProbeKnown, NotConnected, NotCalledYet, None
<1>9. OneAtATime' /\ NothingInFlight' /\ AnswersAreTrue'
  BY <1>1 DEF OneAtATime, NothingInFlight, AnswersAreTrue, None
<1>10. WellAsked' /\ PacketOfRequest'
  BY <1>1 DEF IInv, WellAsked, PacketOfRequest
<1> QED BY <1>4, <1>6, <1>7, <1>8, <1>9, <1>10 DEF IInv

-----------------------------------------------------------------------------
(* The callback, and the other probe.                                      *)
LEMMA RecordStep == ASSUME IInv, RecordCopies PROVE IInv'
<1>1. PICK id \in Probes : IsResponse(id) /\ Taken(id) /\ last_response' = Records(id)
  BY DEF RecordCopies
<1>2. id = "control"
  BY <1>1 DEF IsResponse, IInv, ProbeKnown
<1>3. /\ probe # None /\ probe' = None /\ last_response' = probe /\ recording' = TRUE
      /\ UNCHANGED <<host, request, b, probe_id, probe_id_set, record_count, result, uplink,
                     noise, buffer, last_status, calls>>
  BY <1>1, <1>2 DEF RecordCopies, Taken, Records, ids, device
<1>4. host = "waiting" /\ uplink = None /\ record_count = 0
  BY <1>3 DEF IInv, NothingInFlight, OneAtATime
<1>5. TypeOK'
  BY <1>3 DEF IInv, TypeOK, None
<1> QED BY <1>3, <1>4, <1>5
  DEF IInv, ProbeKnown, OneAtATime, NothingInFlight, WellAsked, PacketOfRequest, NotCalledYet,
      AnswersAreTrue, IsAnswer, Known, Serves, NotConnected, ResultOfThisCommand, None

LEMMA CountStep == ASSUME IInv, RecordCounts PROVE IInv'
<1>1. /\ recording /\ recording' = FALSE /\ record_count' = record_count + 1
      /\ UNCHANGED <<host, request, b, probe_id, probe_id_set, last_response, result, uplink,
                     probe, noise, buffer, last_status, calls>>
  BY DEF RecordCounts, ids, wire, device
<1>2. host = "waiting" /\ uplink = None /\ probe = None /\ record_count = 0
  BY <1>1 DEF IInv, NothingInFlight, OneAtATime, None
<1>3. TypeOK'
  <2>1. record_count' = 1
    BY <1>1, <1>2
  <2>2. recording' \in BOOLEAN
    BY <1>1
  <2> QED BY <1>1, <2>1, <2>2 DEF IInv, TypeOK
<1>4. \A r \in last_response : IsAnswer(r)
  <2>1. host = "waiting" /\ recording /\ AnswersAreTrue
    BY <1>1, <1>2 DEF IInv
  <2> QED BY <2>1, Zenon DEF AnswersAreTrue
<1>5. AnswersAreTrue'
  BY <1>1, <1>2, <1>4 DEF AnswersAreTrue, IsAnswer, Known, Serves, Search, None
<1>6. OneAtATime' /\ NothingInFlight' /\ ProbeKnown'
  BY <1>1, <1>2 DEF IInv, OneAtATime, NothingInFlight, ProbeKnown, None
<1> QED BY <1>1, <1>2, <1>3, <1>5, <1>6
  DEF IInv, WellAsked, PacketOfRequest, NotCalledYet, NotConnected, ResultOfThisCommand, None

LEMMA NoiseStep == ASSUME IInv, RecordIgnored \/ OtherProbe PROVE IInv'
<1>1. UNCHANGED <<host, request, b, probe_id, probe_id_set, record_count, last_response,
                  recording, result, uplink, buffer, last_status, calls>>
  BY DEF RecordIgnored, OtherProbe, ids, device
<1>2. probe' = probe \/ (probe' = None /\ ~recording)
  BY DEF RecordIgnored, OtherProbe, Taken, Records
<1>3. \A r \in noise' : r \in Response
  <2>1. CASE RecordIgnored
    BY <2>1 DEF RecordIgnored, Taken, IInv, TypeOK, None
  <2>2. CASE OtherProbe
    <3>1. PICK x \in Junk : noise' = {[resid |-> x, cmd |-> x, payload_len |-> 0, ret |-> x,
                                       data |-> <<>>]}
      BY <2>2 DEF OtherProbe
    <3>2. x \in Byte /\ 0 \in Byte /\ <<>> \in Seq(Byte)
      BY XscopeAssumption, ControlAssumption, EmptySeq DEF Byte
    <3>3. [resid |-> x, cmd |-> x, payload_len |-> 0, ret |-> x, data |-> <<>>] \in Response
      BY <3>2 DEF Response
    <3> QED BY <3>1, <3>3
  <2> QED BY <2>1, <2>2
<1>4. TypeOK'
  BY <1>1, <1>2, <1>3 DEF IInv, TypeOK, None
<1> QED BY <1>1, <1>2, <1>4
  DEF IInv, ProbeKnown, OneAtATime, NothingInFlight, WellAsked, PacketOfRequest, NotCalledYet,
      AnswersAreTrue, IsAnswer, Known, Serves, NotConnected, ResultOfThisCommand, None

-----------------------------------------------------------------------------
(* The device, with the packet p in hand.                                  *)
LEMMA InHand ==
  ASSUME IInv, NEW p \in uplink
  PROVE  /\ p \in Packet /\ p.pad \in Junk
         /\ p.resid = request.resid /\ p.cmd = request.cmd
         /\ p.payload_len = request.len /\ p.data = request.data
         /\ request.len \in 0 .. XSCOPE_DATA_MAX_BYTES
         /\ calls = <<>> /\ host = "waiting" /\ probe = None
         /\ ~recording /\ record_count = 0
<1>1. p \in b /\ calls = <<>> /\ host = "waiting" /\ probe = None /\ ~recording /\ record_count = 0
  BY DEF IInv, OneAtATime, NothingInFlight, NotCalledYet, None
<1>2. request.len \in Nat
  BY DEF IInv, TypeOK, Request
<1> QED BY <1>1, <1>2, SizeFacts DEF IInv, TypeOK, PacketOfRequest

Buffer == [resid : Byte, cmd : Byte, payload_len : Byte, ret : Byte, data : [Index -> Byte]]

(* A response that is true of the calls made for it. *)
LEMMA RespondStep ==
  ASSUME IInv, NEW p \in uplink, NEW buf \in Buffer, NEW n \in 0 .. XSCOPE_DATA_MAX_BYTES,
         Respond(buf, n), last_status' \in ControlRet, calls' \in Seq(Call),
         buf.ret \in ControlRet \cup Junk,
         Known => /\ Len(calls') = 1 /\ Serves(calls'[1]) /\ calls'[1].ret = buf.ret
                  /\ calls'[1].op = "read" /\ buf.ret = CONTROL_SUCCESS =>
                       Prefix(buf.data, n) = calls'[1].payload
  PROVE  IInv'
<1> DEFINE r == [resid |-> buf.resid, cmd |-> buf.cmd, payload_len |-> buf.payload_len,
                 ret |-> buf.ret, data |-> Prefix(buf.data, n)]
<1>1. /\ buffer' = buf /\ uplink' = None /\ probe' = {r}
      /\ UNCHANGED <<host, request, b, probe_id, probe_id_set, record_count, last_response,
                     recording, result, noise>>
  BY DEF Respond, ids
<1>2. host = "waiting" /\ ~recording /\ record_count = 0 /\ uplink # None
  BY InHand DEF None
<1>3. r \in Response /\ r.ret = buf.ret /\ r.data = Prefix(buf.data, n)
  BY PrefixFacts DEF Response, Buffer
<1> HIDE DEF r
<1>4. TypeOK'
  BY <1>1, <1>3 DEF IInv, TypeOK, Buffer, None
<1>5. AnswersAreTrue'
  <2>1. Known' => Known
    BY <1>1 DEF Known, Search
  <2>2. IsAnswer(r)'
    BY <1>1, <1>3, <2>1 DEF IsAnswer, Serves
  <2> QED BY <1>1, <1>2, <2>2 DEF AnswersAreTrue
<1>6. OneAtATime' /\ NothingInFlight' /\ NotCalledYet' /\ NotConnected' /\ ResultOfThisCommand'
  BY <1>1, <1>2 DEF OneAtATime, NothingInFlight, NotCalledYet, NotConnected,
                    ResultOfThisCommand, None
<1>7. ProbeKnown' /\ WellAsked' /\ PacketOfRequest'
  BY <1>1 DEF IInv, ProbeKnown, WellAsked, PacketOfRequest
<1> QED BY <1>4, <1>5, <1>6, <1>7 DEF IInv

LEMMA UnknownStep == ASSUME IInv, UploadUnknown PROVE IInv'
<1>1. PICK p \in uplink : Search(p.resid) = {} /\ Respond(Received(p), 0)
  BY DEF UploadUnknown
<1>2. Received(p) \in Buffer /\ Received(p).ret \in Junk
  BY InHand, ReceivedFacts DEF IInv, Buffer
<1>3. UNCHANGED <<last_status, calls>>
  BY DEF UploadUnknown
<1>4. ~Known
  BY <1>1, InHand DEF Known
<1>5. 0 \in 0 .. XSCOPE_DATA_MAX_BYTES
  BY SizeFacts
<1>6. last_status' \in ControlRet /\ calls' \in Seq(Call)
  BY <1>3 DEF IInv, TypeOK
<1> DEFINE buf == Received(p)
<1> HIDE DEF buf
<1>7. buf \in Buffer /\ buf.ret \in Junk /\ Respond(buf, 0)
  BY <1>1, <1>2 DEF buf
<1> QED BY <1>4, <1>5, <1>6, <1>7, RespondStep

(* The write call has the payload the user passed. *)
LEMMA WriteServes ==
  ASSUME IInv, NEW p \in uplink, NEW ifn \in Search(p.resid), NEW ret \in ControlRet,
         ~IS_CONTROL_CMD_READ(p.cmd), p.resid # CONTROL_SPECIAL_RESID
  PROVE  LET c == WriteCall(ifn, p.resid, p.cmd, Prefix(Received(p).data, p.payload_len), ret)
         IN  c \in Call /\ c.ret = ret /\ c.op = "write" /\ Serves(c)
<1> DEFINE pl == Prefix(Received(p).data, p.payload_len)
<1>1. p \in Packet /\ p.resid = request.resid /\ p.cmd = request.cmd
      /\ p.payload_len = request.len /\ p.data = request.data
      /\ request.len \in 0 .. XSCOPE_DATA_MAX_BYTES
  BY InHand
<1>2. request.op = "write" /\ Len(request.data) = request.len /\ request.data \in Seq(Byte)
  BY <1>1 DEF IInv, WellAsked, TypeOK, Request
<1>3. /\ Received(p).data \in [Index -> Byte]
      /\ \A k \in Index : k < Len(p.data) => Received(p).data[k] = p.data[k + 1]
  BY <1>1, ReceivedFacts DEF IInv
<1>4. /\ pl \in Seq(Byte) /\ Len(pl) = request.len
      /\ \A k \in 1 .. request.len : pl[k] = Received(p).data[k - 1]
  BY <1>1, <1>3, PrefixFacts
<1> HIDE DEF pl
<1>5. \A k \in 1 .. request.len : pl[k] = request.data[k]
  <2> SUFFICES ASSUME NEW k \in 1 .. request.len PROVE pl[k] = request.data[k]
    OBVIOUS
  <2>1. k - 1 \in Index /\ k - 1 < Len(p.data) /\ (k - 1) + 1 = k
    BY <1>1, <1>2, SizeFacts DEF Index
  <2> QED BY <1>1, <1>3, <1>4, <2>1
<1>6. pl = request.data
  BY <1>2, <1>4, <1>5, SameElements
<1>7. ifn \in IfNum /\ ifn = resource_table[request.resid] /\ p.resid \in Byte /\ p.cmd \in Byte
  BY <1>1, SearchFacts DEF Packet
<1>8. WriteCall(ifn, p.resid, p.cmd, pl, ret) \in Call
  BY <1>4, <1>7, CallType
<1>9. LET c == WriteCall(ifn, p.resid, p.cmd, pl, ret)
      IN  c.ret = ret /\ c.op = "write" /\ Serves(c)
  BY <1>1, <1>2, <1>4, <1>6, <1>7 DEF WriteCall, Serves
<1> QED BY <1>8, <1>9 DEF pl

(* The record of calls, when it was empty. *)
LEMMA FirstCall ==
  ASSUME calls = <<>>, NEW c \in Call, calls' = Append(calls, c)
  PROVE  calls' \in Seq(Call) /\ Len(calls') = 1 /\ calls'[1] = c
OBVIOUS

LEMMA WriteStep == ASSUME IInv, UploadWrite PROVE IInv'
<1>1. PICK p \in uplink : \E ifn \in Search(p.resid), ret \in ControlRet :
        /\ ~IS_CONTROL_CMD_READ(p.cmd)
        /\ IF p.resid = CONTROL_SPECIAL_RESID
           THEN ret = CONTROL_BAD_COMMAND /\ UNCHANGED calls
           ELSE /\ ret \in AppRet
                /\ calls' = Append(calls, WriteCall(ifn, p.resid, p.cmd,
                              Prefix(Received(p).data, p.payload_len), ret))
        /\ last_status' = ret
        /\ Respond([Received(p) EXCEPT !.ret = ret], 0)
  BY DEF UploadWrite
<1>2. PICK ifn \in Search(p.resid), ret \in ControlRet :
        /\ ~IS_CONTROL_CMD_READ(p.cmd)
        /\ IF p.resid = CONTROL_SPECIAL_RESID
           THEN ret = CONTROL_BAD_COMMAND /\ UNCHANGED calls
           ELSE /\ ret \in AppRet
                /\ calls' = Append(calls, WriteCall(ifn, p.resid, p.cmd,
                              Prefix(Received(p).data, p.payload_len), ret))
        /\ last_status' = ret
        /\ Respond([Received(p) EXCEPT !.ret = ret], 0)
  BY <1>1
<1> DEFINE buf == [Received(p) EXCEPT !.ret = ret]
           c == WriteCall(ifn, p.resid, p.cmd, Prefix(Received(p).data, p.payload_len), ret)
<1>3. buf \in Buffer /\ buf.ret = ret
  <2>1. Received(p) \in Buffer
    BY InHand, ReceivedFacts DEF IInv, Buffer
  <2> HIDE DEF IInv
  <2> QED BY <2>1, ByteFacts DEF Buffer
<1> HIDE DEF buf
<1>4. Respond(buf, 0) /\ last_status' \in ControlRet /\ 0 \in 0 .. XSCOPE_DATA_MAX_BYTES
  BY <1>2, SizeFacts DEF buf
<1>5. CASE p.resid = CONTROL_SPECIAL_RESID
  <2>1. ~Known
    BY <1>5, InHand DEF Known
  <2>2. calls' \in Seq(Call)
    BY <1>2, <1>5 DEF IInv, TypeOK
  <2> QED BY <1>3, <1>4, <2>1, <2>2, RespondStep
<1>6. CASE p.resid # CONTROL_SPECIAL_RESID
  <2>1. c \in Call /\ c.ret = ret /\ c.op = "write" /\ Serves(c)
    BY <1>2, <1>6, WriteServes
  <2> HIDE DEF c
  <2>2. calls' \in Seq(Call) /\ Len(calls') = 1 /\ calls'[1] = c
    BY <1>2, <1>6, <2>1, FirstCall, InHand DEF c
  <2> QED BY <1>3, <1>4, <2>1, <2>2, RespondStep
<1> QED BY <1>5, <1>6

LEMMA ReadSpecialStep == ASSUME IInv, ReadSpecial PROVE IInv'
<1>1. PICK p \in uplink :
        /\ p.resid = CONTROL_SPECIAL_RESID
        /\ IF special_read_ret(p.cmd, p.payload_len) = CONTROL_SUCCESS
           THEN Respond([Received(p) EXCEPT !.ret = CONTROL_SUCCESS,
                           !.data[0] = special_read_byte(p.cmd, last_status)], 1)
           ELSE Respond([Received(p) EXCEPT !.ret = CONTROL_BAD_COMMAND], 0)
  BY DEF ReadSpecial
<1>2. ~Known
  BY <1>1, InHand DEF Known
<1>3. /\ last_status' \in ControlRet /\ calls' \in Seq(Call)
  BY DEF ReadSpecial, IInv, TypeOK
<1>4. Received(p) \in Buffer
  BY InHand, ReceivedFacts DEF IInv, Buffer
<1>5. PICK buf \in Buffer, n \in 0 .. XSCOPE_DATA_MAX_BYTES :
        buf.ret \in ControlRet /\ Respond(buf, n)
  <2>1. CASE special_read_ret(p.cmd, p.payload_len) = CONTROL_SUCCESS
    <3> DEFINE buf == [Received(p) EXCEPT !.ret = CONTROL_SUCCESS,
                           !.data[0] = special_read_byte(p.cmd, last_status)]
    <3>1. special_read_byte(p.cmd, last_status) \in Byte
      BY InHand, SpecialFacts DEF IInv, TypeOK, Packet
    <3>2. buf \in Buffer /\ buf.ret \in ControlRet
      BY <1>4, <3>1, SizeFacts, RetFacts, ByteFacts DEF Buffer
    <3>3. 1 \in 0 .. XSCOPE_DATA_MAX_BYTES
      BY SizeFacts DEF Index
    <3> HIDE DEF buf
    <3>4. Respond(buf, 1)
      BY <1>1, <2>1 DEF buf
    <3> QED BY <3>2, <3>3, <3>4
  <2>2. CASE special_read_ret(p.cmd, p.payload_len) # CONTROL_SUCCESS
    <3> DEFINE buf == [Received(p) EXCEPT !.ret = CONTROL_BAD_COMMAND]
    <3>1. buf \in Buffer /\ buf.ret \in ControlRet
      BY <1>4, RetFacts, ByteFacts DEF Buffer
    <3>2. 0 \in 0 .. XSCOPE_DATA_MAX_BYTES
      BY SizeFacts
    <3> HIDE DEF buf
    <3>3. Respond(buf, 0)
      BY <1>1, <2>2 DEF buf
    <3> QED BY <3>1, <3>2, <3>3
  <2> QED BY <2>1, <2>2
<1> QED BY <1>2, <1>3, <1>5, RespondStep

(* What a read leaves in the buffer. *)
LEMMA RepliesType ==
  ASSUME IInv, NEW p \in uplink, NEW d \in Replies(p)
  PROVE  d \in [Index -> Byte]
<1>1. PICK reply \in [0 .. (p.payload_len - 1) -> AppBytes] :
        d = [k \in Index |-> IF k < p.payload_len THEN reply[k] ELSE Received(p).data[k]]
  BY DEF Replies
<1>2. Received(p).data \in [Index -> Byte] /\ p.payload_len \in Nat
  BY InHand, ReceivedFacts DEF IInv
<1>3. \A k \in Index :
        (IF k < p.payload_len THEN reply[k] ELSE Received(p).data[k]) \in Byte
  <2> SUFFICES ASSUME NEW k \in Index
               PROVE  (IF k < p.payload_len THEN reply[k] ELSE Received(p).data[k]) \in Byte
    OBVIOUS
  <2>1. k < p.payload_len => k \in 0 .. (p.payload_len - 1)
    BY <1>2 DEF Index
  <2>2. k < p.payload_len => reply[k] \in Byte
    BY <2>1, XscopeAssumption
  <2> QED BY <1>2, <2>2
<1> QED BY <1>1, <1>3

LEMMA ReadStep == ASSUME IInv, UploadRead PROVE IInv'
<1>1. PICK p \in uplink : \E ifn \in Search(p.resid), ret \in AppRet :
        \E d \in Replies(p) \cup (IF ret = CONTROL_SUCCESS THEN {} ELSE {Received(p).data}) :
          /\ IS_CONTROL_CMD_READ(p.cmd)
          /\ p.resid # CONTROL_SPECIAL_RESID
          /\ calls' = Append(calls, ReadCall(ifn, p.resid, p.cmd, Prefix(d, p.payload_len), ret))
          /\ Respond([Received(p) EXCEPT !.ret = ret, !.data = d],
                     IF ret = CONTROL_SUCCESS THEN p.payload_len ELSE 0)
          /\ UNCHANGED last_status
  BY DEF UploadRead
<1>2. PICK ifn \in Search(p.resid), ret \in AppRet :
        \E d \in Replies(p) \cup (IF ret = CONTROL_SUCCESS THEN {} ELSE {Received(p).data}) :
          /\ IS_CONTROL_CMD_READ(p.cmd)
          /\ p.resid # CONTROL_SPECIAL_RESID
          /\ calls' = Append(calls, ReadCall(ifn, p.resid, p.cmd, Prefix(d, p.payload_len), ret))
          /\ Respond([Received(p) EXCEPT !.ret = ret, !.data = d],
                     IF ret = CONTROL_SUCCESS THEN p.payload_len ELSE 0)
          /\ UNCHANGED last_status
  BY <1>1
<1>3. PICK d \in Replies(p) \cup (IF ret = CONTROL_SUCCESS THEN {} ELSE {Received(p).data}) :
          /\ IS_CONTROL_CMD_READ(p.cmd)
          /\ p.resid # CONTROL_SPECIAL_RESID
          /\ calls' = Append(calls, ReadCall(ifn, p.resid, p.cmd, Prefix(d, p.payload_len), ret))
          /\ Respond([Received(p) EXCEPT !.ret = ret, !.data = d],
                     IF ret = CONTROL_SUCCESS THEN p.payload_len ELSE 0)
          /\ UNCHANGED last_status
  BY <1>2
<1> DEFINE buf == [Received(p) EXCEPT !.ret = ret, !.data = d]
           n == IF ret = CONTROL_SUCCESS THEN p.payload_len ELSE 0
           pl == Prefix(d, p.payload_len)
           c == ReadCall(ifn, p.resid, p.cmd, pl, ret)
<1>4. Received(p) \in Buffer
  BY InHand, ReceivedFacts DEF IInv, Buffer
<1>5. d \in [Index -> Byte]
  BY <1>4, RepliesType DEF Buffer
<1>6. ret \in ControlRet
  BY XscopeAssumption
<1>7. buf \in Buffer /\ buf.ret = ret /\ buf.data = d
  BY <1>4, <1>5, <1>6, ByteFacts DEF Buffer
<1>8. n \in 0 .. XSCOPE_DATA_MAX_BYTES /\ (ret = CONTROL_SUCCESS => n = p.payload_len)
  BY InHand, SizeFacts
<1>9. pl \in Seq(Byte) /\ Len(pl) = request.len
  BY <1>5, InHand, PrefixFacts
<1> HIDE DEF buf, n, pl
<1>10. ifn \in IfNum /\ ifn = resource_table[p.resid] /\ p.resid \in Byte /\ p.cmd \in Byte
  BY <1>3, InHand, SearchFacts DEF Packet
<1>11. request.op = "read"
  BY <1>3, InHand DEF IInv, WellAsked
<1>12. c \in Call /\ c.ret = ret /\ c.payload = pl /\ Serves(c)
  <2>1. c \in Call
    BY <1>6, <1>9, <1>10, CallType
  <2>2. c.op = "read" /\ c.resid = p.resid /\ c.cmd = p.cmd /\ c.ifnum = ifn /\ c.payload = pl
        /\ c.ret = ret
    BY DEF ReadCall
  <2> HIDE DEF c
  <2> QED BY <1>9, <1>10, <1>11, <2>1, <2>2, InHand DEF Serves
<1> HIDE DEF c
<1>13. calls' \in Seq(Call) /\ Len(calls') = 1 /\ calls'[1] = c
  BY <1>3, <1>12, FirstCall, InHand DEF c, pl
<1>14. Respond(buf, n) /\ last_status' \in ControlRet
  BY <1>3 DEF buf, n, IInv, TypeOK
<1>15. ret = CONTROL_SUCCESS => Prefix(buf.data, n) = pl
  BY <1>7, <1>8 DEF pl
<1> QED BY <1>6, <1>7, <1>8, <1>12, <1>13, <1>14, <1>15, RespondStep

-----------------------------------------------------------------------------
LEMMA StutterStep == ASSUME IInv, UNCHANGED vars PROVE IInv'
<1>1. UNCHANGED <<host, request, b, probe_id, probe_id_set, record_count, last_response,
                  recording, result, uplink, probe, noise, buffer, last_status, calls>>
  BY DEF vars, ids, wire, device
<1>2. TypeOK'
  BY <1>1 DEF IInv, TypeOK
<1>3. ProbeKnown' /\ OneAtATime' /\ NothingInFlight'
  BY <1>1 DEF IInv, ProbeKnown, OneAtATime, NothingInFlight
<1>4. WellAsked' /\ PacketOfRequest' /\ NotCalledYet' /\ NotConnected' /\ ResultOfThisCommand'
  BY <1>1 DEF IInv, WellAsked, PacketOfRequest, NotCalledYet, NotConnected, ResultOfThisCommand
<1>5. AnswersAreTrue'
  <2>1. ASSUME NEW r PROVE IsAnswer(r)' <=> IsAnswer(r)
    BY <1>1 DEF IsAnswer, Known, Serves, Search
  <2> QED BY <1>1, <2>1 DEF IInv, AnswersAreTrue
<1> QED BY <1>2, <1>3, <1>4, <1>5 DEF IInv

LEMMA Inductive == ASSUME IInv, [Next]_vars PROVE IInv'
<1>1. CASE control_write_command \/ control_read_command
  <2>1. host = "idle" /\ \E r \in Asked : Begin(r)
    BY <1>1, WriteAsks, ReadAsks
  <2> QED BY <2>1, BeginStep
<1>2. CASE Command
  BY <1>2, SendStep, ReturnStep DEF Command
<1>3. CASE Callback \/ RecordIgnored \/ OtherProbe
  BY <1>3, RecordStep, CountStep, NoiseStep DEF Callback
<1>4. CASE Device
  BY <1>4, UnknownStep, WriteStep, ReadSpecialStep, ReadStep DEF Device
<1> QED BY <1>1, <1>2, <1>3, <1>4, ConnectStep, StutterStep DEF Next

(* The invariant of a command on its way, from which the rest follows. *)
THEOREM Invariance == Spec => []IInv
<1> QED BY Initially, Inductive, PTL DEF Spec

(* Every variable of host, link and device keeps its type: no more than    *)
(* one response is ever counted, and what the user gets is a result code   *)
(* or a byte that was never set.                                           *)
THEOREM Typing == Spec => []TypeOK
<1>1. IInv => TypeOK
  BY DEF IInv
<1> QED BY <1>1, Invariance, PTL

(* record_callback and the thread of the command share record_count and    *)
(* last_response without a lock, and never use them at the same time.      *)
THEOREM NoRace == Spec => []NothingInFlight
<1>1. IInv => NothingInFlight
  BY DEF IInv
<1> QED BY <1>1, Invariance, PTL

(* What control_write_command and control_read_command return is the       *)
(* result, and the data, of the one call this command made.                *)
THEOREM OwnResult == Spec => []ResultOfThisCommand
<1>1. IInv => ResultOfThisCommand
  BY DEF IInv
<1> QED BY <1>1, Invariance, PTL

-----------------------------------------------------------------------------
(* No answer is lost: each step of its way hands it to the next place.     *)
LEMMA HandedToTheHost ==
  ASSUME IInv, AnswerUnderWay, host = "waiting", b # None,
         RecordCopies \/ RecordCounts \/ RecordIgnored \/ OtherProbe
  PROVE  AnswerUnderWay'
<1>1. CASE RecordCopies
  <2>1. PICK id \in Probes :
          /\ IsResponse(id) /\ Taken(id)
          /\ last_response' = Records(id) /\ recording' = TRUE
    BY <1>1 DEF RecordCopies
  <2>2. Records(id) # None
    BY <2>1 DEF Taken
  <2> QED BY <2>1, <2>2 DEF AnswerUnderWay
<1>2. CASE RecordCounts
  <2>1. record_count \in Nat /\ record_count' = record_count + 1
    BY <1>2 DEF RecordCounts, IInv, TypeOK
  <2>2. record_count' # 0
    BY <2>1
  <2>3. UNCHANGED <<host, b, probe_id, probe_id_set, last_response, uplink, probe>>
    BY <1>2 DEF RecordCounts, ids, wire
  <2> QED BY <2>2, <2>3 DEF AnswerUnderWay, IsResponse
<1>3. CASE RecordIgnored
  <2>1. PICK id \in Probes : ~IsResponse(id) /\ Taken(id)
    BY <1>3 DEF RecordIgnored
  <2>2. probe' = probe \/ ~IsResponse("control")
    BY <2>1 DEF Taken
  <2>3. UNCHANGED <<host, b, probe_id, probe_id_set, record_count, last_response, recording,
                    uplink>>
    BY <1>3 DEF RecordIgnored, ids
  <2> QED BY <2>2, <2>3 DEF AnswerUnderWay, IsResponse
<1>4. CASE OtherProbe
  BY <1>4 DEF OtherProbe, AnswerUnderWay, IsResponse, ids
<1> QED BY <1>1, <1>2, <1>3, <1>4

LEMMA AnsweredByTheDevice ==
  ASSUME IInv, host = "waiting", Device
  PROVE  AnswerUnderWay'
<1>1. \E buf, n : Respond(buf, n)
  BY DEF Device, UploadUnknown, UploadWrite, ReadSpecial, UploadRead
<1>2. probe' # None /\ UNCHANGED <<host, probe_id, probe_id_set>>
  BY <1>1 DEF Respond, None, ids
<1>3. IsResponse("control")'
  BY <1>2 DEF IInv, ProbeKnown, IsResponse
<1> QED BY <1>2, <1>3 DEF AnswerUnderWay

LEMMA NothingIsLost == ASSUME IInv, AnswerUnderWay, [Next]_vars PROVE AnswerUnderWay'
<1>1. CASE UNCHANGED vars
  BY <1>1 DEF vars, ids, wire, AnswerUnderWay, IsResponse
<1>2. CASE Connect \/ control_write_command \/ control_read_command \/ Reset
           \/ UploadFails \/ Return
  <2>1. host' # "waiting"
    BY <1>2 DEF Connect, control_init_xscope, register_callback, Connected,
                control_write_command, control_read_command, Begin, Reset, UploadFails, Return
  <2> QED BY <2>1 DEF AnswerUnderWay
<1>3. CASE Upload
  BY <1>3 DEF Upload, AnswerUnderWay
<1>4. CASE Callback \/ RecordIgnored \/ Device \/ OtherProbe
  <2>1. UNCHANGED <<host, b>>
    <3>1. CASE Callback \/ RecordIgnored \/ OtherProbe
      BY <3>1 DEF Callback, RecordCopies, RecordCounts, RecordIgnored, OtherProbe
    <3>2. CASE Device
      <4>1. \E buf, n : Respond(buf, n)
        BY <3>2 DEF Device, UploadUnknown, UploadWrite, ReadSpecial, UploadRead
      <4> QED BY <4>1 DEF Respond
    <3> QED BY <1>4, <3>1, <3>2
  <2>2. CASE host = "waiting" /\ b # None
    BY <1>4, <2>2, HandedToTheHost, AnsweredByTheDevice DEF Callback
  <2> QED BY <2>1, <2>2 DEF AnswerUnderWay
<1> QED BY <1>1, <1>2, <1>3, <1>4 DEF Next, Command

(* What the poll of the command waits for is never lost, whatever the      *)
(* threads do: until it is counted it is on the link or in the callback,   *)
(* and the callback takes it for what it is.  With the fairness TLC        *)
(* assumes, this is why the wait ends.                                     *)
THEOREM AnswerNotLost == Spec => []AnswerUnderWay
<1>1. Init => AnswerUnderWay
  BY DEF Init, AnswerUnderWay
<1> QED BY <1>1, NothingIsLost, Invariance, PTL DEF Spec

-----------------------------------------------------------------------------
(* The refinement: the steps of the two functions are those of             *)
(* ControlService, and everything else changes nothing a user sees.        *)
Busy == host \notin {"closed", "connecting", "idle"}

PromisedRequests ==
  {r \in Request : r.resid # CONTROL_SPECIAL_RESID /\ Search(r.resid) # {}}

LEMMA PromisedIsKnown ==
  ASSUME TypeOK PROVE request \in PromisedRequests <=> Known
BY DEF PromisedRequests, Known, TypeOK

LEMMA SameCodes ==
  Service!NoResult = NoResult /\ Service!CONTROL_SUCCESS = CONTROL_SUCCESS
BY DEF Service!NoResult, NoResult, Service!CONTROL_ERROR, CONTROL_ERROR,
       Service!CONTROL_SUCCESS, CONTROL_SUCCESS

LEMMA BeginRefines ==
  ASSUME IInv, host = "idle", NEW r \in Asked, Begin(r) PROVE Service!Begin
<1>1. r \in Request /\ request' = r /\ host' = "built" /\ result' = NoResult /\ calls' = <<>>
  BY DEF Asked, Begin
<1>2. (host' \notin {"closed", "connecting", "idle"}) = TRUE
  BY <1>1
<1> QED BY <1>1, <1>2, SameCodes DEF Service!Begin

LEMMA FinishRefines ==
  ASSUME IInv, Return \/ UploadFails PROVE Service!Finish
<1>1. /\ Busy /\ host' = "idle" /\ UNCHANGED <<request, calls>>
  BY ReturnFacts DEF UploadFails, device, Busy
<1>2. ASSUME request \in PromisedRequests PROVE Service!Honest(result', request, calls)
  <2>1. CASE UploadFails
    <3>1. result'.ret = CONTROL_ERROR
      BY <2>1 DEF UploadFails, NoResult
    <3> QED BY <3>1, RetFacts, SameCodes DEF Service!Honest
  <2>2. CASE Return
    <3>1. PICK r \in last_response, x \in Junk :
            IsAnswer(r) /\ r \in Response /\ result' = Outcome(r, x)
      BY <2>2, ReturnFacts
    <3>2. Known
      BY <1>2, PromisedIsKnown DEF IInv
    <3>3. Len(calls) = 1 /\ calls[1].ret = r.ret
      BY <3>1, <3>2 DEF IsAnswer
    <3>4. calls # <<>>
      BY <3>3
    <3> QED BY <3>1, <3>2, <3>3, <3>4, OutcomeFacts, SameCodes DEF Service!Honest, Serves
  <2> QED BY <2>1, <2>2
<1>3. (host' \notin {"closed", "connecting", "idle"}) = FALSE
  BY <1>1
<1> QED BY <1>1, <1>2, <1>3 DEF Service!Finish, Busy, PromisedRequests

(* A call, and the response to it. *)
LEMMA DeviceRefines ==
  ASSUME IInv, Device
  PROVE  Service!Execute \/ UNCHANGED <<Busy, request, calls, result>>
<1>1. \E q \in uplink : \E buf, n :
        /\ Respond(buf, n)
        /\ calls' # calls => q.resid # CONTROL_SPECIAL_RESID /\ Search(q.resid) # {}
  <2>1. CASE UploadUnknown
    BY <2>1 DEF UploadUnknown
  <2>2. CASE UploadWrite
    BY <2>2 DEF UploadWrite
  <2>3. CASE ReadSpecial
    BY <2>3 DEF ReadSpecial
  <2>4. CASE UploadRead
    BY <2>4 DEF UploadRead
  <2> QED BY <2>1, <2>2, <2>3, <2>4 DEF Device
<1>2. PICK q \in uplink :
        /\ probe' # {} /\ UNCHANGED <<host, request, result>>
        /\ calls' # calls => q.resid # CONTROL_SPECIAL_RESID /\ Search(q.resid) # {}
  BY <1>1 DEF Respond
<1>3. CASE calls' = calls
  BY <1>2, <1>3 DEF Busy
<1>4. CASE calls' # calls
  <2>1. calls = <<>> /\ Busy
    BY InHand DEF Busy
  <2>2. Known
    BY <1>2, <1>4, InHand DEF Known
  <2>3. IInv' /\ Known'
    BY <1>2, <2>2, Inductive DEF Next, Known, Search
  <2>4. PICK r \in probe' : IsAnswer(r)'
    BY <1>2, <2>3 DEF IInv, AnswersAreTrue
  <2>5. Len(calls') = 1 /\ Serves(calls[1])'
    BY <2>3, <2>4 DEF IsAnswer
  <2>6. Service!Serves(calls'[1], request)
    BY <1>2, <2>5 DEF Serves, Service!Serves
  <2>7. SubSeq(calls', 1, 0) = <<>> /\ Len(calls) = 0
    BY <2>1
  <2> QED BY <1>2, <2>1, <2>5, <2>6, <2>7 DEF Service!Execute, Busy
<1> QED BY <1>3, <1>4

LEMMA StepRefines ==
  ASSUME IInv, [Next]_vars
  PROVE  Service!Next \/ UNCHANGED <<Busy, request, calls, result>>
<1>1. CASE control_write_command \/ control_read_command
  <2>1. host = "idle" /\ \E r \in Asked : Begin(r)
    BY <1>1, WriteAsks, ReadAsks
  <2> QED BY <2>1, BeginRefines DEF Service!Next
<1>2. CASE Return \/ UploadFails
  BY <1>2, FinishRefines DEF Service!Next
<1>3. CASE Reset \/ Upload
  BY <1>3 DEF Reset, Upload, Busy, device
<1>4. CASE Connect
  BY <1>4 DEF Connect, control_init_xscope, register_callback, Connected, Busy, device
<1>5. CASE Callback \/ RecordIgnored \/ OtherProbe
  BY <1>5 DEF Callback, RecordCopies, RecordCounts, RecordIgnored, OtherProbe, Busy, device
<1>6. CASE Device
  BY <1>6, DeviceRefines DEF Service!Next
<1>7. CASE UNCHANGED vars
  BY <1>7 DEF vars, Busy, device
<1> QED BY <1>1, <1>2, <1>3, <1>4, <1>5, <1>6, <1>7 DEF Next, Command

LEMMA InitRefines == ASSUME Init PROVE Service!Init
<1>1. request \in Request
  BY Initially DEF IInv, TypeOK
<1>2. (host \notin {"closed", "connecting", "idle"}) = FALSE
  BY DEF Init
<1> QED BY <1>1, <1>2, SameCodes DEF Init, Service!Init

(* The xSCOPE transport, host and device together, keeps the promise of    *)
(* ControlService: the task is called once at most, as asked, and a        *)
(* success is the success of that call.                                    *)
THEOREM Refinement == Spec => ImplementsControlService
<1>1. Init => Service!Init
  BY InitRefines
<1>2. IInv /\ [Next]_vars => [Service!Next]_(Service!vars)
  BY StepRefines DEF Service!vars, Busy
<1> QED BY <1>1, <1>2, Invariance, PTL DEF Spec, Service!Spec, ImplementsControlService
=============================================================================
