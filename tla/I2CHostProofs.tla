--------------------------- MODULE I2CHostProofs ----------------------------
(***************************************************************************)
(* What holds of the I2C hosts for every table, capacity, bus and sequence *)
(* of requests: the device stays within its buffer, a failure may be       *)
(* retried, and the two functions keep the promise of ControlService.      *)
(*                                                                         *)
(* The host is a master of the device, so the invariant of I2CDeviceProofs *)
(* holds of every state.  What is added: the bytes on the bus are those of *)
(* the message of the transfer in hand, the log holds the calls of this    *)
(* request, and a status query goes through.                               *)
(***************************************************************************)
EXTENDS I2CHost, I2CDeviceProofs

(* The message of the transfer in hand. *)
Message ==
  CASE goal = "init"  -> <<0, 0, 0>>
    [] goal = "query" -> control_build_i2c_data(StatusQuery)
    [] OTHER          -> control_build_i2c_data(request)

(* What the user passes to the builder, and which request a goal is of. *)
AskedRight ==
  /\ Len(request.data) \in {0, request.len}
  /\ goal \in {"write", "query"} => request.op = "write"
  /\ goal = "read" => request.op = "read"

(* What has been sent and what is still to be sent make up the message. *)
Progress ==
  /\ Len(sent) + Len(todo) = Len(Message)
  /\ \A k \in 1 .. Len(sent) : sent[k] = Message[k]
  /\ \A k \in 1 .. Len(todo) : todo[k] = Message[Len(sent) + k]

Transfer ==
  /\ pc = "start" => todo = Message
  /\ pc = "sending" => bus = "write" /\ Progress
  /\ pc = "taking" => /\ todo = <<>> /\ Progress
                      /\ goal \in {"read", "query"} /\ bus \in {"read", "nacked"}

(* The calls the device has made in this transfer. *)
CallsOfTransfer ==
  /\ pc = "sending" => \A k \in 1 .. Len(calls) : calls[k].op = "write"
  /\ pc \in {"sending", "taking"} /\ goal \in {"init", "query"} => calls = <<>>
  /\ pc = "taking" /\ goal = "read" /\ request \in Legal =>
       IF bus = "read"
       THEN Len(calls) = 1 /\ calls[1].ret = CONTROL_SUCCESS
       ELSE Len(calls) <= 1 /\ \A k \in 1 .. Len(calls) : calls[k].ret # CONTROL_SUCCESS

(* The call c is the one the user asked for. *)
Serves(c) ==
  /\ c.op = request.op /\ c.resid = request.resid /\ c.cmd = request.cmd
  /\ c.ifnum = resource_table[request.resid]
  /\ Len(c.payload) = request.len
  /\ request.op = "write" => c.payload = request.data

(* The log has the calls of the first transfer of a request; a status is   *)
(* only asked for after a write that was executed.                         *)
LogOfRequest ==
  /\ pc = "start" /\ goal \in {"write", "read"} => log = <<>>
  /\ pc \in {"sending", "taking"} /\ goal \in {"write", "read"} => log = calls
  /\ request \in Legal /\ goal # "init" =>
       /\ Len(log) <= 1
       /\ log # <<>> => Serves(log[1])
  /\ request \in Legal /\ goal = "query" => log # <<>> /\ log[1].ret = CONTROL_SUCCESS

(* The device acknowledges every byte of a status query, and what it       *)
(* answers is the result of the last of them.                              *)
QueryAnswered ==
  goal = "query" =>
    /\ pc = "sending" =>
         /\ state \in {"WRITE_START", "WRITE_RESID", "WRITE_CMD", "WRITE_SIZE"}
         /\ state = "WRITE_SIZE" => last_status = CONTROL_SUCCESS
    /\ pc = "taking" =>
         /\ bus = "read"
         /\ IF got = <<>> THEN state = "READ_START" /\ payload[0] = CONTROL_SUCCESS
                          ELSE got[1] = CONTROL_SUCCESS

HInv ==
  /\ HostTypeOK /\ IInv
  /\ AskedRight /\ Transfer /\ WithinAnnounced
  /\ CallsOfTransfer /\ LogOfRequest /\ QueryAnswered /\ RetryIsSafe

-----------------------------------------------------------------------------
(* The message the builder makes of a request. *)
LEMMA BuildFacts ==
  ASSUME NEW r \in Request, Len(r.data) \in {0, r.len}
  PROVE  LET m == control_build_i2c_data(r)
         IN  /\ m \in Seq(Byte)
             /\ r.len > I2C_DATA_MAX_BYTES => m = <<>>
             /\ r.len <= I2C_DATA_MAX_BYTES =>
                  /\ m[1] = r.resid /\ m[2] = r.cmd /\ m[3] = r.len
                  /\ Len(m) >= 3 /\ Len(m) <= 3 + r.len
                  /\ IS_CONTROL_CMD_READ(r.cmd) => Len(m) = 3
                  /\ ~IS_CONTROL_CMD_READ(r.cmd) =>
                       /\ Len(m) = 3 + Len(r.data)
                       /\ \A k \in 1 .. Len(r.data) : m[3 + k] = r.data[k]
<1> DEFINE m == control_build_i2c_data(r)
           front == <<r.resid, r.cmd, r.len>>
           rest == IF IS_CONTROL_CMD_READ(r.cmd) THEN <<>> ELSE r.data
<1>1. /\ r.resid \in Byte /\ r.cmd \in Byte /\ r.len \in Byte /\ r.data \in Seq(Byte)
      /\ r.len \in Nat
  BY ByteFacts DEF Request
<1>3. rest \in Seq(Byte) /\ Len(rest) \in {0, r.len} /\ Len(rest) \in Nat
  BY <1>1, EmptySeq
<1>4. /\ front \o rest \in Seq(Byte) /\ Len(front \o rest) = 3 + Len(rest)
      /\ (front \o rest)[1] = r.resid /\ (front \o rest)[2] = r.cmd /\ (front \o rest)[3] = r.len
      /\ \A k \in 1 .. Len(rest) : (front \o rest)[3 + k] = rest[k]
  <2> HIDE DEF rest
  <2> QED BY <1>1, <1>3, HeaderThen
<1>5. m = IF r.len > I2C_DATA_MAX_BYTES THEN <<>> ELSE front \o rest
  BY DEF control_build_i2c_data
<1>6. m \in Seq(Byte) /\ (r.len > I2C_DATA_MAX_BYTES => m = <<>>)
  <2> HIDE DEF m, front, rest
  <2> QED BY <1>4, <1>5, EmptySeq
<1>7. ASSUME r.len <= I2C_DATA_MAX_BYTES
      PROVE  /\ m[1] = r.resid /\ m[2] = r.cmd /\ m[3] = r.len
             /\ Len(m) = 3 + Len(rest)
             /\ \A k \in 1 .. Len(rest) : m[3 + k] = rest[k]
  <2>1. m = front \o rest
    <3> HIDE DEF m, front, rest
    <3> QED BY <1>1, <1>5, <1>7, I2CAssumption
  <2> HIDE DEF m, front, rest
  <2> QED BY <2>1, <1>4
<1>8. ASSUME IS_CONTROL_CMD_READ(r.cmd) PROVE Len(rest) = 0
  BY <1>8
<1>9. ASSUME ~IS_CONTROL_CMD_READ(r.cmd) PROVE rest = r.data
  BY <1>9
<1> HIDE DEF m, rest
<1>10. r.len <= I2C_DATA_MAX_BYTES => Len(m) >= 3 /\ Len(m) <= 3 + r.len
  BY <1>1, <1>3, <1>7
<1>11. r.len <= I2C_DATA_MAX_BYTES /\ IS_CONTROL_CMD_READ(r.cmd) => Len(m) = 3
  BY <1>7, <1>8
<1> QED BY <1>6, <1>7, <1>9, <1>10, <1>11 DEF m

LEMMA QueryMessage ==
  LET m == control_build_i2c_data(StatusQuery)
  IN  /\ m \in Seq(Byte) /\ Len(m) = 3
      /\ m[1] = CONTROL_SPECIAL_RESID /\ m[2] = CONTROL_GET_LAST_COMMAND_STATUS /\ m[3] = 1
<1>1. StatusQuery \in Request
  BY SpecialFacts, ControlAssumption, RetFacts DEF StatusQuery, Request, Byte
<1>2. /\ Len(StatusQuery.data) = 1 /\ StatusQuery.len = 1
      /\ StatusQuery.resid = CONTROL_SPECIAL_RESID
      /\ StatusQuery.cmd = CONTROL_GET_LAST_COMMAND_STATUS
  BY DEF StatusQuery
<1>3. 1 <= I2C_DATA_MAX_BYTES
  BY I2CAssumption
<1>4. IS_CONTROL_CMD_READ(CONTROL_GET_LAST_COMMAND_STATUS)
  BY ControlAssumption
     DEF CONTROL_GET_LAST_COMMAND_STATUS, CONTROL_CMD_SET_READ, IS_CONTROL_CMD_READ
<1> HIDE DEF StatusQuery
<1> QED BY <1>1, <1>2, <1>3, <1>4, BuildFacts

(* The message of a transfer: never more than it announces. *)
LEMMA MessageFacts ==
  ASSUME goal \in Goal, request \in Request, AskedRight
  PROVE  /\ Message \in Seq(Byte) /\ Len(Message) \in Nat
         /\ Len(Message) <= I2C_TRANSACTION_MAX_BYTES
         /\ Message # <<>> => /\ Len(Message) >= 3
                              /\ Message[3] \in 0 .. I2C_DATA_MAX_BYTES
                              /\ Len(Message) <= 3 + Message[3]
                              /\ IS_CONTROL_CMD_READ(Message[2]) => Len(Message) = 3
         /\ goal = "init" => /\ Len(Message) = 3
                             /\ Message[1] = CONTROL_SPECIAL_RESID /\ Message[3] = 0
         /\ goal = "query" => /\ Len(Message) = 3
                              /\ Message[1] = CONTROL_SPECIAL_RESID
                              /\ Message[2] = CONTROL_GET_LAST_COMMAND_STATUS
                              /\ Message[3] = 1
         /\ goal \in {"write", "read"} => Message = control_build_i2c_data(request)
<1>1. I2C_DATA_MAX_BYTES \in Nat /\ I2C_DATA_MAX_BYTES >= 1
  BY I2CAssumption
<1>2. CASE goal = "init"
  <2>1. Message = <<0, 0, 0>>
    BY <1>2 DEF Message
  <2>2. 0 \in Byte /\ ~IS_CONTROL_CMD_READ(0)
    BY ControlAssumption DEF Byte, IS_CONTROL_CMD_READ
  <2>3. Message \in Seq(Byte) /\ Len(Message) = 3 /\ Message[1] = 0 /\ Message[2] = 0 /\ Message[3] = 0
    BY <2>1, <2>2
  <2> QED BY <1>1, <1>2, <2>2, <2>3, HostAssumption DEF I2C_TRANSACTION_MAX_BYTES
<1>3. CASE goal = "query"
  <2>1. Message = control_build_i2c_data(StatusQuery)
    BY <1>3 DEF Message
  <2> HIDE DEF Message
  <2>2. /\ Message \in Seq(Byte) /\ Len(Message) = 3
        /\ Message[1] = CONTROL_SPECIAL_RESID
        /\ Message[2] = CONTROL_GET_LAST_COMMAND_STATUS /\ Message[3] = 1
    BY <2>1, QueryMessage
  <2> QED BY <1>1, <1>3, <2>2 DEF I2C_TRANSACTION_MAX_BYTES
<1>4. CASE goal \in {"write", "read"}
  <2>1. Message = control_build_i2c_data(request)
    BY <1>4 DEF Message
  <2> HIDE DEF Message
  <2>2. request.len \in Nat /\ Len(request.data) \in {0, request.len}
    BY ByteFacts DEF Request, AskedRight
  <2>3. CASE request.len > I2C_DATA_MAX_BYTES
    <3>1. Message = <<>> /\ Message \in Seq(Byte) /\ Len(Message) = 0
      BY <2>1, <2>2, <2>3, BuildFacts
    <3> QED BY <1>1, <1>4, <2>1, <3>1 DEF I2C_TRANSACTION_MAX_BYTES
  <2>4. CASE request.len <= I2C_DATA_MAX_BYTES
    <3>1. /\ Message \in Seq(Byte)
          /\ Message[2] = request.cmd /\ Message[3] = request.len
          /\ Len(Message) >= 3 /\ Len(Message) <= 3 + request.len
          /\ IS_CONTROL_CMD_READ(request.cmd) => Len(Message) = 3
      BY <2>1, <2>2, <2>4, BuildFacts
    <3>2. Len(Message) \in Nat
      BY <3>1
    <3> QED BY <1>1, <1>4, <2>1, <2>2, <2>4, <3>1, <3>2 DEF I2C_TRANSACTION_MAX_BYTES
  <2> QED BY <1>1, <2>2, <2>3, <2>4
<1> QED BY <1>2, <1>3, <1>4 DEF Goal

-----------------------------------------------------------------------------
(* What the device does with a byte written, a read start and a byte read, *)
(* as far as the host is concerned.                                        *)
LEMMA WriteCallMade ==
  ASSUME IInv, NEW b \in Byte, NEW data, NEW ret \in ControlRet, data \in Seq(Byte),
         write_command(resid, cmd, ifnum, data, ret), MasterSends(b, ret)
  PROVE  \/ calls' = calls
         \/ \E c \in Call : /\ calls' = Append(calls, c)
                            /\ c.op = "write" /\ c.resid # CONTROL_SPECIAL_RESID
<1>1. CASE resid = CONTROL_SPECIAL_RESID
  BY <1>1 DEF write_command
<1>2. CASE resid # CONTROL_SPECIAL_RESID
  <2> DEFINE c == WriteCall(ifnum, resid, cmd, data, ret)
  <2>1. calls' = Append(calls, c)
    BY <1>2 DEF write_command
  <2>2. c \in Call
    BY CallType DEF IInv, TypeOK
  <2>3. c.op = "write" /\ c.resid = resid
    BY DEF WriteCall
  <2> HIDE DEF c
  <2> QED BY <1>2, <2>1, <2>2, <2>3
<1> QED BY <1>1, <1>2

NewWriteCall ==
  \E c \in Call : /\ calls' = Append(calls, c)
                  /\ c.op = "write" /\ c.resid # CONTROL_SPECIAL_RESID

LEMMA StoreShape ==
  ASSUME IInv, NEW b \in Byte, NEW at \in Index, StoreByte(b, at)
  PROVE  /\ bus = "write" /\ UNCHANGED <<bus, got>> /\ sent' = Append(sent, b)
         /\ state' = "WRITE_DATA"
         /\ calls' = calls \/ NewWriteCall
<1>1. state' = "WRITE_DATA" /\ \E ret \in ControlRet : MasterSends(b, ret)
  BY RetFacts DEF StoreByte
<1>2. bus = "write" /\ UNCHANGED <<bus, got>> /\ sent' = Append(sent, b)
  BY <1>1 DEF MasterSends
<1>3. CASE at + 1 = payload_len_from_header
  <2>1. PICK ret \in ControlRet :
          write_command(resid, cmd, ifnum, Prefix(payload', at + 1), ret) /\ MasterSends(b, ret)
    BY <1>3 DEF StoreByte
  <2>2. payload' \in [Index -> Byte] /\ at + 1 \in 0 .. I2C_DATA_MAX_BYTES
    BY I2CAssumption DEF StoreByte, IInv, TypeOK, Index
  <2>3. Prefix(payload', at + 1) \in Seq(Byte)
    BY <2>2, PrefixFacts
  <2> QED BY <1>1, <1>2, <2>1, <2>3, WriteCallMade DEF NewWriteCall
<1>4. CASE at + 1 # payload_len_from_header
  BY <1>1, <1>2, <1>4 DEF StoreByte, NoCall
<1> QED BY <1>3, <1>4

(* A byte written that does not make the device trap. *)
LEMMA WriteShape ==
  ASSUME IInv, NEW b \in Byte, MasterWrites(b), ~SendByteTraps(b)
  PROVE  /\ bus = "write" /\ UNCHANGED <<bus, got>> /\ sent' = Append(sent, b)
         /\ state' # "TRAP"
         /\ calls' = calls \/ NewWriteCall
         /\ Len(sent) < 2 => calls' = calls
         /\ state' = "WRITE_OVERFLOW" =>
              state = "WRITE_OVERFLOW" \/ (state = "WRITE_DATA" /\ ptx = plen)
<1>1. ASSUME NEW ret \in ControlRet, MasterSends(b, ret)
      PROVE  bus = "write" /\ UNCHANGED <<bus, got>> /\ sent' = Append(sent, b)
  BY <1>1 DEF MasterSends
<1>2. CASE SendResid(b) \/ SendCmd(b)
  BY <1>1, <1>2, RetFacts DEF SendResid, SendCmd, NoCall
<1>3. CASE SendRefused(b)
  BY <1>1, <1>3, RetFacts DEF SendRefused, Refuse, NoCall
<1>4. CASE SendOverrun(b)
  BY <1>1, <1>4, RetFacts DEF SendOverrun, NoCall, ptx, plen
<1>5. CASE SendLength(b)
  <2>1. state = "WRITE_CMD" /\ state' = "WRITE_SIZE" /\ Len(sent) = 2
    BY <1>5 DEF SendLength, IInv, Place
  <2>2. CASE b = 0
    <3>1. PICK ret \in ControlRet :
            write_command(resid, cmd, ifnum, <<>>, ret) /\ MasterSends(b, ret)
      BY <1>5, <2>2 DEF SendLength
    <3>2. calls' = calls \/ NewWriteCall
      BY <3>1, EmptySeq, WriteCallMade DEF NewWriteCall
    <3> QED BY <1>1, <2>1, <3>1, <3>2
  <2>3. CASE b # 0
    BY <1>1, <1>5, <2>1, <2>3, RetFacts DEF SendLength, NoCall
  <2> QED BY <2>2, <2>3
<1>6. CASE SendFirstByte(b) \/ SendByte(b)
  <2>1. PICK at \in Index : StoreByte(b, at)
    BY <1>6, I2CAssumption DEF SendFirstByte, SendByte, Index
  <2>2. Len(sent) >= 3
    <3>1. state = "WRITE_SIZE" => Len(sent) = 3
      BY DEF IInv, Place
    <3>2. state = "WRITE_DATA" => Len(sent) = 3 + ptx /\ ptx \in Nat
      BY ByteFacts, I2CAssumption DEF IInv, Place, TypeOK, ptx
    <3> QED BY <1>6, <3>1, <3>2 DEF SendFirstByte, SendByte
  <2>3. ~(Len(sent) < 2)
    BY <2>2 DEF IInv, TypeOK
  <2> QED BY <2>1, <2>3, StoreShape
<1> QED BY <1>2, <1>3, <1>4, <1>5, <1>6 DEF MasterWrites

(* A read start: of the special resource no task is asked. *)
LEMMA ReadStartShape ==
  ASSUME IInv, ReadStart \/ ReadStartFails \/ ReadStartRefused
  PROVE  /\ UNCHANGED sent /\ got' = <<>> /\ state' \notin {"TRAP", "WRITE_OVERFLOW", "READ_OVERFLOW"}
         /\ bus' \in {"read", "nacked"} /\ (bus' = "read" => state = "WRITE_SIZE")
         /\ \/ calls' = calls /\ (bus' = "read" => resid = CONTROL_SPECIAL_RESID)
            \/ \E c \in Call : /\ calls' = Append(calls, c)
                               /\ c.op = "read" /\ c.resid # CONTROL_SPECIAL_RESID
                               /\ bus' = "read" <=> c.ret = CONTROL_SUCCESS
<1>1. CASE ReadStartRefused
  BY <1>1 DEF ReadStartRefused
<1>2. ASSUME NEW ret \in ControlRet, NEW p \in [Index -> Byte], Reading, read_command(p, ret)
      PROVE  \/ calls' = calls /\ resid = CONTROL_SPECIAL_RESID
             \/ \E c \in Call : /\ calls' = Append(calls, c) /\ c.ret = ret
                                /\ c.op = "read" /\ c.resid # CONTROL_SPECIAL_RESID
  <2>1. CASE resid = CONTROL_SPECIAL_RESID
    BY <1>2, <2>1 DEF read_command
  <2>2. CASE resid # CONTROL_SPECIAL_RESID
    <3> DEFINE c == ReadCall(ifnum, resid, cmd, Prefix(p, payload_len_from_header), ret)
    <3>1. calls' = Append(calls, c)
      BY <1>2, <2>2 DEF read_command
    <3>2. Prefix(p, payload_len_from_header) \in Seq(Byte)
      BY <1>2, PrefixFacts DEF IInv, TypeOK
    <3>3. c \in Call
      BY <1>2, <3>2, CallType DEF IInv, TypeOK
    <3>4. c.op = "read" /\ c.ret = ret /\ c.resid = resid
      BY DEF ReadCall
    <3> HIDE DEF c
    <3> QED BY <2>2, <3>1, <3>3, <3>4
  <2> QED BY <2>1, <2>2
<1>3. TypeOK'
  BY ReadStartsType DEF IInv
<1>4. CASE ReadStart
  BY <1>2, <1>3, <1>4, RetFacts DEF ReadStart, Reading, TypeOK
<1>5. CASE ReadStartFails
  <2>1. /\ Reading /\ state = "WRITE_SIZE" /\ bus' = "nacked" /\ UNCHANGED state
        /\ \E ret \in ControlRet \ {CONTROL_SUCCESS} : read_command(payload', ret)
    BY <1>5 DEF ReadStartFails, Reading
  <2>2. payload' \in [Index -> Byte]
    BY <1>3 DEF TypeOK
  <2> QED BY <1>2, <2>1, <2>2 DEF Reading
<1> QED BY <1>1, <1>4, <1>5

-----------------------------------------------------------------------------
(* The steps of the host are steps of the device under some master. *)
LEMMA DeviceStep ==
  ASSUME IInv, [Next]_vars \/ \E b \in Byte : MasterWrites(b)
  PROVE  IInv'
<1>1. ASSUME NEW b \in Byte, MasterWrites(b) PROVE IInv'
  BY <1>1, SendResidStep, SendCmdStep, SendLengthStep, SendFirstByteStep,
     SendByteStep, TrapsStep, SendRefusedStep, SendOverrunStep DEF MasterWrites
<1> QED BY <1>1, IInvStep

LEMMA Types ==
  ASSUME HInv
  PROVE  /\ IInv /\ TypeOK /\ AskedRight
         /\ goal \in Goal /\ pc \in Pc /\ request \in Request /\ driver \in Drivers
         /\ sent \in Seq(Byte) /\ Len(sent) \in Nat /\ todo \in Seq(Byte) /\ Len(todo) \in Nat
         /\ got \in Seq(Byte) /\ Len(got) \in Nat /\ calls \in Seq(Call) /\ Len(calls) \in Nat
         /\ log \in Seq(Call) /\ Len(log) \in Nat
         /\ result \in [ret : Byte, data : Seq(Byte)] /\ faulty \in BOOLEAN
         /\ Message \in Seq(Byte) /\ Len(Message) \in Nat
         /\ Len(todo) <= I2C_TRANSACTION_MAX_BYTES
         /\ I2C_DATA_MAX_BYTES \in Nat
<1>1. IInv /\ TypeOK /\ HostTypeOK /\ AskedRight
  BY DEF HInv, IInv
<1> QED BY <1>1, MessageFacts, I2CAssumption DEF HostTypeOK, TypeOK

LEMMA ResultTypes ==
  /\ NoResult \in [ret : Byte, data : Seq(Byte)] /\ NoResult.ret # CONTROL_SUCCESS
  /\ \A x \in Junk : [ret |-> x, data |-> <<>>] \in [ret : Byte, data : Seq(Byte)]
<1>1. Junk \subseteq Byte /\ CONTROL_ERROR \in Byte
  BY I2CAssumption, ByteFacts, RetFacts
<1> QED BY <1>1, EmptySeq DEF NoResult, CONTROL_ERROR, CONTROL_SUCCESS

(* The bytes sent are the first bytes of the message. *)
LEMMA Announces ==
  ASSUME HInv, Progress
  PROVE  /\ Len(sent) <= Len(Message)
         /\ Len(sent) >= 3 => /\ Message # <<>> /\ sent[3] = Message[3]
                              /\ sent[3] \in 0 .. I2C_DATA_MAX_BYTES
                              /\ Len(Message) <= 3 + sent[3]
         /\ goal \in {"init", "query"} /\ Len(sent) >= 1 => sent[1] = CONTROL_SPECIAL_RESID
<1>1. Len(sent) + Len(todo) = Len(Message) /\ \A k \in 1 .. Len(sent) : sent[k] = Message[k]
  BY DEF Progress
<1>2. Len(sent) <= Len(Message)
  BY <1>1, Types
<1>3. ASSUME Len(sent) >= 3
      PROVE  /\ Message # <<>> /\ sent[3] = Message[3]
             /\ sent[3] \in 0 .. I2C_DATA_MAX_BYTES
             /\ Len(Message) <= 3 + sent[3]
  <2>1. sent[3] = Message[3]
    BY <1>1, <1>3, Types
  <2>2. Message # <<>>
    BY <1>2, <1>3, Types
  <2> QED BY <2>1, <2>2, Types, MessageFacts
<1>4. ASSUME goal \in {"init", "query"}, Len(sent) >= 1
      PROVE  sent[1] = CONTROL_SPECIAL_RESID
  <2>1. sent[1] = Message[1]
    BY <1>1, <1>4, Types
  <2> QED BY <1>4, <2>1, Types, MessageFacts
<1> QED BY <1>2, <1>3, <1>4

(* What is logged. *)
LEMMA LoggedFacts ==
  ASSUME HInv, Logged
  PROVE  /\ calls' = calls => log' = log
         /\ \A c \in Call : calls' = Append(calls, c) => log' = Append(log, c)
<1>1. log' = log \o SubSeq(calls', Len(calls) + 1, Len(calls'))
  BY DEF Logged
<1>2. calls \in Seq(Call) /\ log \in Seq(Call)
  BY Types
<1>3. ASSUME calls' = calls PROVE log' = log
  <2>1. SubSeq(calls', Len(calls) + 1, Len(calls')) = <<>>
    BY <1>2, <1>3
  <2>2. log \o <<>> = log
    BY <1>2
  <2> QED BY <1>1, <2>1, <2>2
<1>4. ASSUME NEW c \in Call, calls' = Append(calls, c) PROVE log' = Append(log, c)
  <2>1. SubSeq(calls', Len(calls) + 1, Len(calls')) = <<c>>
    BY <1>2, <1>4, LastFacts
  <2>2. log \o <<c>> = Append(log, c)
    BY <1>2, JoinFacts
  <2> QED BY <1>1, <2>1, <2>2
<1> QED BY <1>3, <1>4

-----------------------------------------------------------------------------
(* A call made for a request is the one that was asked for.  (This is said *)
(* of the state after the step that makes it.)                             *)
LEMMA CallServes ==
  ASSUME IInv', todo' \in Seq(Byte), request' \in Legal, AskedRight', Progress',
         goal' = request.op, Message' = control_build_i2c_data(request), request' = request,
         Len(calls') >= 1, calls'[1].op = "read" => goal' = "read"
  PROVE  Serves(calls[1])'
<1>1. /\ request \in Request /\ request.len \in Nat /\ request.len <= I2C_DATA_MAX_BYTES
      /\ request.data \in Seq(Byte)
      /\ (request.op = "read") <=> IS_CONTROL_CMD_READ(request.cmd)
      /\ request.op \in {"read", "write"}
      /\ request.op = "read" => request.len > 0
      /\ request.op = "write" => Len(request.data) = request.len
      /\ Len(request.data) \in {0, request.len}
  BY ByteFacts DEF Legal, Request, AskedRight
<1> DEFINE c == calls'[1]
           m == control_build_i2c_data(request)
<1>2. /\ m \in Seq(Byte) /\ Len(m) \in Nat
      /\ m[1] = request.resid /\ m[2] = request.cmd /\ m[3] = request.len
      /\ IS_CONTROL_CMD_READ(request.cmd) => Len(m) = 3
      /\ ~IS_CONTROL_CMD_READ(request.cmd) =>
           /\ Len(m) = 3 + Len(request.data)
           /\ \A k \in 1 .. Len(request.data) : m[3 + k] = request.data[k]
  <2> HIDE DEF m
  <2>1. m \in Seq(Byte) => Len(m) \in Nat
    OBVIOUS
  <2> QED BY <1>1, <2>1, BuildFacts DEF m
<1>3. /\ sent' \in Seq(Byte) /\ Len(sent') \in Nat
      /\ calls' \in Seq(Call) /\ Len(calls') \in Nat /\ Len(todo') \in Nat
      /\ Len(sent') >= 3
      /\ DispatchedAsSent' /\ KindFromReadBit'
  <2>1. TypeOK' /\ CallsFollow' /\ DispatchedAsSent' /\ KindFromReadBit'
    BY DEF IInv
  <2>2. sent' \in Seq(Byte) /\ calls' \in Seq(Call)
    BY <2>1 DEF TypeOK
  <2>3. calls' # <<>>
    BY <2>2
  <2>4. Len(sent') >= 3
    BY <2>1, <2>3 DEF CallsFollow
  <2> QED BY <2>1, <2>2, <2>4
<1>4. /\ sent'[1] = request.resid /\ sent'[2] = request.cmd /\ sent'[3] = request.len
      /\ Len(sent') <= Len(m) /\ \A k \in 1 .. Len(sent') : sent'[k] = m[k]
  <2>1. Len(sent') + Len(todo') = Len(m) /\ \A k \in 1 .. Len(sent') : sent'[k] = m[k]
    BY DEF Progress
  <2> HIDE DEF m
  <2> QED BY <1>2, <1>3, <2>1
<1>5. /\ c \in Call /\ c.op \in {"write", "read"}
      /\ WriteComplete' \/ c.op = "read"
      /\ c.resid = sent'[1] /\ c.cmd = sent'[2] /\ c.ifnum = resource_table[sent'[1]]
      /\ Len(c.payload) = sent'[3]
      /\ c.op = "write" => c.payload = SubSeq(sent', 4, 3 + sent'[3])
      /\ sent'[3] > 0 => (c.op = "read" <=> IS_CONTROL_CMD_READ(c.cmd))
  <2>1. 1 \in 1 .. Len(calls') /\ c \in Call
    BY <1>3
  <2>2. c.op \in {"write", "read"}
    BY <2>1 DEF Call
  <2> QED BY <1>3, <2>1, <2>2 DEF DispatchedAsSent, KindFromReadBit, Announced
<1> HIDE DEF c, m
<1>6. c.op = request.op
  BY <1>1, <1>4, <1>5 DEF c
<1>7. ASSUME request.op = "write" PROVE c.payload = request.data
  <2>1. /\ Len(m) = 3 + request.len /\ Len(request.data) = request.len
        /\ \A k \in 1 .. request.len : m[3 + k] = request.data[k]
    BY <1>1, <1>2, <1>7
  <2>2. Len(sent') >= 3 + request.len
    BY <1>4, <1>5, <1>6, <1>7 DEF WriteComplete, HeaderSent, Announced
  <2>3. c.payload = SubSeq(sent', 4, 3 + request.len)
    BY <1>4, <1>5, <1>6, <1>7
  <2>4. /\ c.payload \in Seq(Byte) /\ Len(c.payload) = request.len
        /\ \A k \in 1 .. request.len : c.payload[k] = sent'[3 + k]
    BY <1>1, <1>3, <2>2, <2>3, SubSeqFacts
  <2>5. \A k \in 1 .. request.len : sent'[3 + k] = m[3 + k]
    BY <1>1, <1>3, <1>4, <2>2
  <2>6. \A k \in 1 .. request.len : c.payload[k] = request.data[k]
    BY <2>1, <2>4, <2>5
  <2> QED BY <1>1, <2>1, <2>4, <2>6, SameElements
<1> QED BY <1>4, <1>5, <1>6, <1>7 DEF Serves, c

(* A transfer to the special resource makes no call. *)
LEMMA NoCallForSpecial ==
  ASSUME IInv', HInv, NEW c \in Call, calls = <<>>, calls' = Append(calls, c),
         c.resid # CONTROL_SPECIAL_RESID, Len(sent') >= 1
  PROVE  sent'[1] # CONTROL_SPECIAL_RESID
<1>1. Len(calls') = 1 /\ calls'[1] = c
  BY AppendFacts, EmptySeq
<1>2. calls'[1].resid = sent'[1]
  BY <1>1 DEF IInv, DispatchedAsSent
<1> QED BY <1>1, <1>2

LEMMA SameMessage ==
  ASSUME UNCHANGED <<goal, request>> PROVE Message' = Message
BY DEF Message, control_build_i2c_data, StatusQuery

LEMMA SameLegal == Legal' = Legal
BY DEF Legal, Request

-----------------------------------------------------------------------------
(* A function that returns. *)
LEMMA Finishes ==
  ASSUME HInv, IInv', WithinAnnounced', pc' = "idle", todo' = <<>>,
         UNCHANGED <<driver, goal, request, log>>,
         result' \in [ret : Byte, data : Seq(Byte)], faulty' \in BOOLEAN,
         goal # "init" /\ ~faulty' /\ request \in Legal /\ result'.ret # CONTROL_SUCCESS =>
           \A k \in 1 .. Len(log) : log[k].ret # CONTROL_SUCCESS
  PROVE  HInv'
<1>1. HostTypeOK'
  BY Types, EmptySeq DEF HInv, HostTypeOK, IInv, Pc, I2C_TRANSACTION_MAX_BYTES
<1>2. AskedRight' /\ Transfer' /\ CallsOfTransfer' /\ QueryAnswered'
  BY DEF HInv, AskedRight, Transfer, CallsOfTransfer, QueryAnswered
<1>3. LogOfRequest'
  BY SameLegal DEF HInv, LogOfRequest, Serves
<1>4. RetryIsSafe'
  BY SameLegal DEF RetryIsSafe
<1> QED BY <1>1, <1>2, <1>3, <1>4 DEF HInv

LEMMA LetsGoFacts ==
  ASSUME HInv, LetsGo
  PROVE  IInv' /\ WithinAnnounced'
<1>1. IInv'
  BY Types, DeviceStep DEF LetsGo, Next
<1>2. state' \in {state, "IDLE"} /\ UNCHANGED <<sent, got>>
  BY DEF LetsGo, Stop, vars, i2c, history
<1> QED BY <1>1, <1>2 DEF HInv, WithinAnnounced, HeaderSent, Announced

(* What a failure leaves behind. *)
LEMMA FailsFacts ==
  ASSUME HInv, Fails
  PROVE  /\ pc' = "idle" /\ todo' = <<>> /\ UNCHANGED <<driver, goal, request, log>>
         /\ result' \in [ret : Byte, data : Seq(Byte)]
<1>1. UNCHANGED <<driver, goal, request, log>>
  BY DEF Fails
<1>2. CASE goal = "init"
  BY <1>1, <1>2, Types DEF Fails, Returns
<1>3. CASE goal # "init" /\ goal = "query" /\ driver = "xcore"
  BY <1>1, <1>3, ResultTypes DEF Fails, Returns
<1>4. CASE goal # "init" /\ ~(goal = "query" /\ driver = "xcore")
  BY <1>1, <1>4, ResultTypes DEF Fails, Returns
<1> QED BY <1>2, <1>3, <1>4

LEMMA BusFailsStep == ASSUME HInv, BusFails PROVE HInv'
<1>1. LetsGo /\ Fails /\ faulty' = TRUE
  BY DEF BusFails
<1> QED BY <1>1, LetsGoFacts, FailsFacts, Finishes

LEMMA ReadRefusedStep == ASSUME HInv, ReadRefused PROVE HInv'
<1>1. UNCHANGED vars /\ Fails /\ UNCHANGED faulty /\ pc = "start" /\ goal = "read"
  BY DEF ReadRefused, HeaderRefused
<1>2. LetsGo
  BY <1>1 DEF LetsGo
<1>3. log = <<>>
  BY <1>1 DEF HInv, LogOfRequest
<1>4. \A k \in 1 .. Len(log) : log[k].ret # CONTROL_SUCCESS
  BY <1>3
<1> QED BY <1>1, <1>2, <1>4, Types, LetsGoFacts, FailsFacts, Finishes

(* A status query is acknowledged byte for byte. *)
LEMMA QueryNotRefused ==
  ASSUME HInv, goal = "query"
  PROVE  ~(pc = "sending" /\ nacked) /\ ~(pc = "taking" /\ bus = "nacked")
<1>1. ~(pc = "taking" /\ bus = "nacked")
  BY DEF HInv, QueryAnswered
<1>2. ASSUME pc = "sending" PROVE ~nacked
  <2>1. state \in {"WRITE_START", "WRITE_RESID", "WRITE_CMD", "WRITE_SIZE"}
    BY <1>2 DEF HInv, QueryAnswered
  <2>2. CASE state # "WRITE_SIZE"
    BY <2>1, <2>2 DEF HInv, IInv, Pending
  <2>3. CASE state = "WRITE_SIZE"
    <3>1. Len(sent) = 3 /\ plen = sent[3]
      BY <2>3 DEF HInv, IInv, Place, HeaderAsSent, LengthTaken
    <3>2. Progress
      BY <1>2 DEF HInv, Transfer
    <3>3. sent[3] = 1
      BY <3>1, <3>2, Announces, Types, MessageFacts
    <3> QED BY <2>3, <3>1, <3>3 DEF HInv, IInv, Pending
  <2> QED BY <2>2, <2>3
<1> QED BY <1>1, <1>2

(* While the header of a legal read is sent, no call is made. *)
LEMMA NoCallYet ==
  ASSUME HInv, pc = "sending", goal = "read", request \in Legal
  PROVE  calls = <<>>
<1> SUFFICES ASSUME calls # <<>> PROVE FALSE
  OBVIOUS
<1>1. Len(calls) >= 1 /\ 1 \in 1 .. Len(calls)
  BY Types
<1>2. calls[1].op = "write" /\ Len(sent) >= 3
  BY <1>1 DEF HInv, CallsOfTransfer, IInv, CallsFollow
<1>3. Progress
  BY DEF HInv, Transfer
<1>4. Message # <<>> /\ sent[3] = Message[3] /\ sent[2] = Message[2]
  <2>1. Message # <<>> /\ sent[3] = Message[3]
    BY <1>2, <1>3, Announces
  <2>2. 2 \in 1 .. Len(sent)
    BY <1>2, Types
  <2> QED BY <1>3, <2>1, <2>2 DEF Progress
<1>5. request.op = "read" /\ request.len \in Nat /\ request.len > 0
      /\ request.len <= I2C_DATA_MAX_BYTES /\ IS_CONTROL_CMD_READ(request.cmd)
  BY Types, ByteFacts DEF AskedRight, Legal, Request
<1>6. Message[3] = request.len /\ Message[2] = request.cmd
  BY <1>5, Types, MessageFacts, BuildFacts DEF AskedRight
<1>7. calls[1].cmd = sent[2] /\ (sent[3] > 0 => (calls[1].op = "read" <=> IS_CONTROL_CMD_READ(calls[1].cmd)))
  BY <1>1 DEF HInv, IInv, DispatchedAsSent, KindFromReadBit, Announced
<1> QED BY <1>2, <1>4, <1>5, <1>6, <1>7

LEMMA NotAcknowledgedStep == ASSUME HInv, NotAcknowledged PROVE HInv'
<1>1. /\ (pc = "sending" /\ nacked) \/ (pc = "taking" /\ bus = "nacked")
      /\ LetsGo /\ Fails /\ UNCHANGED faulty
  BY DEF NotAcknowledged
<1>2. ASSUME goal # "init", request \in Legal
      PROVE  \A k \in 1 .. Len(log) : log[k].ret # CONTROL_SUCCESS
  <2>1. goal # "query"
    BY <1>1, QueryNotRefused
  <2>2. goal \in {"write", "read"} /\ log = calls
    BY <1>1, <1>2, <2>1, Types DEF Goal, HInv, LogOfRequest
  <2>3. CASE pc = "sending" /\ goal = "read"
    <3>1. calls = <<>>
      BY <1>2, <2>3, NoCallYet
    <3> QED BY <2>2, <3>1
  <2>4. CASE pc = "sending" /\ goal = "write"
    <3>1. nacked /\ Progress
      BY <1>1, <2>4 DEF HInv, Transfer
    <3>2. ~Overlong
      BY <3>1, Announces, Types DEF Overlong, HeaderSent, Announced
    <3>3. Successful("write") = {}
      BY <3>1, <3>2 DEF HInv, IInv, NackedWriteNotExecuted
    <3>4. \A k \in 1 .. Len(calls) : calls[k].op = "write"
      BY <2>4 DEF HInv, CallsOfTransfer
    <3> QED BY <2>2, <3>3, <3>4 DEF Successful
  <2>5. CASE pc = "taking"
    <3>1. goal = "read" /\ bus = "nacked"
      BY <1>1, <2>1, <2>5 DEF HInv, Transfer
    <3> QED BY <1>2, <2>2, <2>5, <3>1 DEF HInv, CallsOfTransfer
  <2> QED BY <1>1, <2>2, <2>3, <2>4, <2>5
<1> QED BY <1>1, <1>2, Types, LetsGoFacts, FailsFacts, Finishes

-----------------------------------------------------------------------------
LEMMA InitStep == ASSUME HInv, control_init_i2c PROVE HInv'
<1>1. /\ pc' \in {"start", "idle"} /\ goal' = "init" /\ UNCHANGED <<vars, driver, user>>
      /\ todo' = IF pc' = "start" THEN <<0, 0, 0>> ELSE <<>>
  BY Types DEF control_init_i2c
<1>2. UNCHANGED <<vars, driver, request, result, log, faulty>>
  BY <1>1 DEF user
<1>3. LetsGo
  BY <1>1 DEF LetsGo
<1>4. IInv' /\ WithinAnnounced'
  BY <1>3, LetsGoFacts
<1>5. <<0, 0, 0>> \in Seq(Byte) /\ Len(<<0, 0, 0>>) = 3 /\ I2C_TRANSACTION_MAX_BYTES >= 3
  BY ControlAssumption, I2CAssumption DEF Byte, I2C_TRANSACTION_MAX_BYTES
<1>6. HostTypeOK'
  <2>1. TypeOK'
    BY <1>4 DEF IInv
  <2>2. todo' \in Seq(Byte) /\ Len(todo') <= I2C_TRANSACTION_MAX_BYTES
    <3>1. I2C_TRANSACTION_MAX_BYTES \in Nat
      BY I2CAssumption DEF I2C_TRANSACTION_MAX_BYTES
    <3>2. CASE todo' = <<0, 0, 0>>
      BY <1>5, <3>1, <3>2
    <3>3. CASE todo' = <<>>
      BY <3>1, <3>3, EmptySeq
    <3> QED BY <1>1, <3>2, <3>3
  <2>3. /\ driver' \in Drivers /\ request' \in Request /\ log' \in Seq(Call)
        /\ result' \in [ret : Byte, data : Seq(Byte)] /\ faulty' \in BOOLEAN
    BY <1>2, Types
  <2>4. pc' \in Pc /\ goal' \in Goal
    BY <1>1 DEF Pc, Goal
  <2> QED BY <2>1, <2>2, <2>3, <2>4 DEF HostTypeOK
<1>7. AskedRight' /\ Transfer' /\ CallsOfTransfer' /\ QueryAnswered' /\ RetryIsSafe'
  BY <1>1, <1>2 DEF HInv, AskedRight, Transfer, CallsOfTransfer, QueryAnswered, RetryIsSafe,
                    Message
<1>8. LogOfRequest'
  BY <1>1 DEF LogOfRequest
<1> QED BY <1>4, <1>6, <1>7, <1>8 DEF HInv

LEMMA BeginStep ==
  ASSUME HInv, NEW r \in Request, Len(r.data) \in {0, r.len}, Begin(r)
  PROVE  HInv'
<1>1. /\ pc' = "start" /\ goal' = r.op /\ request' = r /\ todo' = control_build_i2c_data(r)
      /\ result' = NoResult /\ log' = <<>> /\ faulty' = FALSE /\ UNCHANGED <<vars, driver>>
  BY DEF Begin
<1>2. r.op \in {"write", "read"}
  BY DEF Request
<1>3. LetsGo
  BY <1>1 DEF LetsGo
<1>4. IInv' /\ WithinAnnounced'
  BY <1>3, LetsGoFacts
<1>5. AskedRight'
  BY <1>1, <1>2 DEF AskedRight
<1>6. Message' = control_build_i2c_data(r)
  BY <1>1, <1>2 DEF Message, control_build_i2c_data
<1>7. todo' \in Seq(Byte) /\ Len(todo') <= I2C_TRANSACTION_MAX_BYTES
  <2> DEFINE m == control_build_i2c_data(r)
  <2>1. /\ m \in Seq(Byte) /\ Len(m) \in Nat /\ r.len \in Nat
        /\ r.len > I2C_DATA_MAX_BYTES => m = <<>>
        /\ r.len <= I2C_DATA_MAX_BYTES => Len(m) <= 3 + r.len
    <3>1. m \in Seq(Byte) => Len(m) \in Nat
      <4> HIDE DEF m
      <4> QED OBVIOUS
    <3> QED BY <3>1, BuildFacts, ByteFacts DEF Request
  <2>2. I2C_DATA_MAX_BYTES \in Nat
    BY I2CAssumption
  <2> HIDE DEF m
  <2>3. Len(m) <= I2C_DATA_MAX_BYTES + 3
    BY <2>1, <2>2
  <2> QED BY <1>1, <2>1, <2>3 DEF m, I2C_TRANSACTION_MAX_BYTES
<1>8. HostTypeOK'
  BY <1>1, <1>2, <1>4, <1>7, Types, ResultTypes, EmptySeq DEF HostTypeOK, IInv, Pc, Goal
<1>9. Transfer' /\ CallsOfTransfer' /\ QueryAnswered' /\ RetryIsSafe'
  BY <1>1, <1>2, <1>6 DEF Transfer, CallsOfTransfer, QueryAnswered, RetryIsSafe
<1>10. LogOfRequest'
  BY <1>1, <1>2 DEF LogOfRequest
<1> QED BY <1>4, <1>5, <1>8, <1>9, <1>10 DEF HInv

LEMMA WriteBegins == ASSUME HInv, control_write_command PROVE HInv'
<1>1. PICK res \in ResidBytes, c \in CmdBytes, len \in LenBytes :
        \E data \in [1 .. len -> DataBytes] \cup {<<>>} :
          Begin([op |-> "write", resid |-> res, len |-> len, data |-> data,
                 cmd |-> IF driver = "rpi" THEN c ELSE CONTROL_CMD_SET_WRITE(c)])
  BY DEF control_write_command
<1>2. PICK data \in [1 .. len -> DataBytes] \cup {<<>>} :
        Begin([op |-> "write", resid |-> res, len |-> len, data |-> data,
               cmd |-> IF driver = "rpi" THEN c ELSE CONTROL_CMD_SET_WRITE(c)])
  BY <1>1
<1>3. /\ res \in Byte /\ c \in Byte /\ len \in Byte /\ len \in Nat /\ DataBytes \subseteq Byte
      /\ CONTROL_CMD_SET_WRITE(c) \in Byte
  BY I2CAssumption, ByteFacts, CmdFacts
<1>4. data \in Seq(Byte) /\ Len(data) \in {0, len}
  <2>1. CASE data = <<>>
    BY <2>1, EmptySeq
  <2>2. CASE data \in [1 .. len -> DataBytes]
    <3>1. data \in [1 .. len -> Byte]
      BY <1>3, <2>2
    <3> QED BY <1>3, <3>1
  <2> QED BY <2>1, <2>2
<1> DEFINE r == [op |-> "write", resid |-> res, len |-> len, data |-> data,
                 cmd |-> IF driver = "rpi" THEN c ELSE CONTROL_CMD_SET_WRITE(c)]
<1>5. r \in Request /\ r.data = data /\ r.len = len
  BY <1>3, <1>4 DEF Request
<1>6. Begin(r)
  BY <1>2
<1> HIDE DEF r
<1> QED BY <1>4, <1>5, <1>6, BeginStep

LEMMA ReadBegins == ASSUME HInv, control_read_command PROVE HInv'
<1>1. PICK res \in ResidBytes, c \in CmdBytes, len \in LenBytes :
        Begin([op |-> "read", resid |-> res, len |-> len, data |-> [k \in 1 .. len |-> 0],
               cmd |-> IF driver = "rpi" THEN c ELSE CONTROL_CMD_SET_READ(c)])
  BY DEF control_read_command
<1>2. /\ res \in Byte /\ c \in Byte /\ len \in Byte /\ len \in Nat /\ 0 \in Byte
      /\ CONTROL_CMD_SET_READ(c) \in Byte
  BY I2CAssumption, ControlAssumption, ByteFacts, CmdFacts DEF Byte
<1> DEFINE data == [k \in 1 .. len |-> 0]
<1>3. data \in Seq(Byte) /\ Len(data) = len
  BY <1>2
<1> DEFINE r == [op |-> "read", resid |-> res, len |-> len, data |-> data,
                 cmd |-> IF driver = "rpi" THEN c ELSE CONTROL_CMD_SET_READ(c)]
<1>4. Begin(r)
  BY <1>1
<1> HIDE DEF data
<1>5. r \in Request /\ r.data = data /\ r.len = len
  BY <1>2, <1>3 DEF Request
<1> HIDE DEF r
<1> QED BY <1>3, <1>4, <1>5, BeginStep

LEMMA StartStep == ASSUME HInv, Start PROVE HInv'
<1>1. /\ WriteStart /\ pc = "start" /\ pc' = "sending"
      /\ UNCHANGED <<driver, goal, todo, request, result, log, faulty>>
  BY DEF Start, user
<1>2. /\ sent' = <<>> /\ calls' = <<>> /\ got' = <<>> /\ bus' = "write" /\ state' = "WRITE_START"
  BY <1>1 DEF WriteStart
<1>3. IInv'
  BY <1>1, Types, DeviceStep DEF Next
<1>4. HostTypeOK'
  BY <1>1, <1>3, Types DEF HostTypeOK, IInv, Pc
<1>5. AskedRight' /\ Message' = Message
  BY <1>1, Types, SameMessage DEF AskedRight
<1>6. Transfer'
  <2>1. todo = Message
    BY <1>1 DEF HInv, Transfer
  <2>2. Progress'
    BY <1>1, <1>2, <1>5, <2>1, Types DEF Progress
  <2> QED BY <1>1, <1>2, <2>2 DEF Transfer
<1>7. WithinAnnounced' /\ CallsOfTransfer' /\ QueryAnswered' /\ RetryIsSafe'
  BY <1>1, <1>2 DEF WithinAnnounced, HeaderSent, CallsOfTransfer, QueryAnswered, RetryIsSafe
<1>8. LogOfRequest'
  BY <1>1, <1>2, SameLegal DEF HInv, LogOfRequest, Serves
<1> QED BY <1>3, <1>4, <1>5, <1>6, <1>7, <1>8 DEF HInv

-----------------------------------------------------------------------------
(* The next byte of the message. *)
LEMMA MovesOn ==
  ASSUME HInv, Progress, todo # <<>>, sent' = Append(sent, Head(todo)), todo' = Tail(todo),
         UNCHANGED <<goal, request>>
  PROVE  /\ Head(todo) \in Byte /\ Head(todo) = Message[Len(sent) + 1]
         /\ Len(sent) < Len(Message)
         /\ sent' \in Seq(Byte) /\ Len(sent') = Len(sent) + 1
         /\ todo' \in Seq(Byte) /\ Len(todo') \in Nat /\ Len(todo') <= Len(todo)
         /\ Progress'
         /\ \A k \in 1 .. Len(sent') : sent'[k] = Message[k]
<1>1. /\ todo \in Seq(Byte) /\ Len(todo) \in Nat /\ Len(todo) >= 1
      /\ Head(todo) = todo[1] /\ Head(todo) \in Byte
      /\ Tail(todo) \in Seq(Byte) /\ Len(Tail(todo)) = Len(todo) - 1
      /\ \A k \in 1 .. Len(todo) - 1 : Tail(todo)[k] = todo[k + 1]
  BY Types
<1>2. /\ sent \in Seq(Byte) /\ sent' \in Seq(Byte) /\ Len(sent') = Len(sent) + 1 /\ Len(sent) \in Nat
      /\ \A k \in 1 .. Len(sent) : sent'[k] = sent[k]
      /\ sent'[Len(sent) + 1] = Head(todo)
  BY <1>1, Types, AppendFacts
<1> DEFINE m == Message
<1>3. Message' = m /\ Len(m) \in Nat
  BY SameMessage, Types
<1>4. /\ Len(sent) + Len(todo) = Len(m)
      /\ \A k \in 1 .. Len(sent) : sent[k] = m[k]
      /\ \A k \in 1 .. Len(todo) : todo[k] = m[Len(sent) + k]
  BY DEF Progress
<1> HIDE DEF m
<1>5. Head(todo) = m[Len(sent) + 1] /\ Len(sent) < Len(m)
  BY <1>1, <1>2, <1>3, <1>4
<1>6. Len(sent') + Len(todo') = Len(m)
  BY <1>1, <1>2, <1>3, <1>4
<1>7. ASSUME NEW k \in 1 .. Len(sent') PROVE sent'[k] = m[k]
  <2>1. k \in 1 .. Len(sent) \/ k = Len(sent) + 1
    BY <1>2, <1>7
  <2> QED BY <1>2, <1>4, <1>5, <2>1
<1>8. ASSUME NEW k \in 1 .. Len(todo') PROVE todo'[k] = m[Len(sent') + k]
  <2>1. k \in 1 .. Len(todo) - 1 /\ k + 1 \in 1 .. Len(todo)
    BY <1>1, <1>8
  <2>2. todo'[k] = todo[k + 1] /\ todo[k + 1] = m[Len(sent) + (k + 1)]
    BY <1>1, <1>4, <2>1
  <2>3. Len(sent) + (k + 1) = Len(sent') + k
    BY <1>2, <2>1
  <2> QED BY <2>2, <2>3
<1>9. Progress'
  BY <1>3, <1>6, <1>7, <1>8 DEF Progress
<1>10. Len(todo') \in Nat /\ Len(todo') <= Len(todo)
  BY <1>1
<1> QED BY <1>1, <1>2, <1>5, <1>7, <1>9, <1>10 DEF m

(* The payload is not longer than the header says, so it fits. *)
LEMMA NoTrap == ASSUME HInv, Progress, NEW b PROVE ~SendByteTraps(b)
<1> SUFFICES ASSUME SendByteTraps(b) PROVE FALSE
  OBVIOUS
<1>1. state = "WRITE_DATA" /\ ptx # plen /\ ptx \notin Index
  BY DEF SendByteTraps, ptx, plen
<1>2. /\ ptx \in 0 .. I2C_DATA_MAX_BYTES /\ plen \in 0 .. I2C_DATA_MAX_BYTES
      /\ I2C_DATA_MAX_BYTES \in Nat
  BY Types DEF TypeOK, ptx, plen
<1>3. ptx = I2C_DATA_MAX_BYTES
  BY <1>1, <1>2 DEF Index
<1>4. Len(sent) = 3 + ptx /\ ptx >= 1 /\ plen = sent[3] /\ (plen > 0 => ptx <= plen)
  BY <1>1 DEF HInv, IInv, Place, HeaderAsSent, LengthTaken, DataAsSent
<1>5. Len(sent) <= 3 + sent[3]
  BY <1>2, <1>4, Announces, Types
<1> QED BY <1>1, <1>2, <1>3, <1>4, <1>5

(* The header of a status query is taken, byte for byte. *)
LEMMA QuerySends ==
  ASSUME HInv, goal = "query", pc = "sending", NEW b \in Byte, MasterWrites(b),
         ~SendByteTraps(b), Len(sent) < 3, b = Message[Len(sent) + 1]
  PROVE  /\ state' \in {"WRITE_START", "WRITE_RESID", "WRITE_CMD", "WRITE_SIZE"}
         /\ state' = "WRITE_SIZE" => last_status' = CONTROL_SUCCESS
<1>1. state \in {"WRITE_START", "WRITE_RESID", "WRITE_CMD", "WRITE_SIZE"}
  BY DEF HInv, QueryAnswered
<1>2. /\ state = "WRITE_START" => Len(sent) = 0
      /\ state = "WRITE_CMD" => Len(sent) = 2
      /\ state = "WRITE_SIZE" => Len(sent) = 3
  BY DEF HInv, IInv, Place
<1>3. Message[1] = CONTROL_SPECIAL_RESID /\ Message[3] = 1
  BY Types, MessageFacts
<1>4. state # "WRITE_SIZE"
  BY <1>2
<1>5. CASE state = "WRITE_START"
  <2>1. b = CONTROL_SPECIAL_RESID
    BY <1>2, <1>3, <1>5
  <2>2. Search(b) # {}
    BY <2>1, LookupFacts, I2CAssumption DEF Search
  <2>3. SendResid(b)
    BY <1>5, <2>2 DEF MasterWrites, SendResid, SendCmd, SendLength, SendFirstByte, SendByte,
                      SendRefused, SendOverrun
  <2> QED BY <2>3 DEF SendResid
<1>6. CASE state = "WRITE_RESID"
  <2>1. SendCmd(b)
    BY <1>6 DEF MasterWrites, SendResid, SendCmd, SendLength, SendFirstByte, SendByte,
                SendRefused, SendOverrun
  <2> QED BY <2>1 DEF SendCmd
<1>7. CASE state = "WRITE_CMD"
  <2>1. b = 1 /\ ~(b > I2C_DATA_MAX_BYTES)
    <3>1. b = Message[2 + 1]
      BY <1>2, <1>7
    <3>2. I2C_DATA_MAX_BYTES \in Nat /\ I2C_DATA_MAX_BYTES >= 1
      BY I2CAssumption
    <3>3. b = 1
      BY <1>3, <3>1
    <3> QED BY <3>2, <3>3
  <2>2. SendLength(b)
    BY <1>7, <2>1 DEF MasterWrites, SendResid, SendCmd, SendLength, SendFirstByte, SendByte,
                      SendRefused, SendOverrun
  <2>3. MasterSends(b, CONTROL_SUCCESS) /\ state' = "WRITE_SIZE"
    BY <2>1, <2>2 DEF SendLength
  <2> QED BY <2>3 DEF MasterSends
<1> QED BY <1>1, <1>4, <1>5, <1>6, <1>7


(* One more byte of the message: still no more than was announced. *)
LEMMA SendsWithin ==
  ASSUME HInv, IInv', Progress, NEW b \in Byte, MasterWrites(b), ~SendByteTraps(b),
         sent' \in Seq(Byte), Len(sent') = Len(sent) + 1, Len(sent) < Len(Message),
         \A k \in 1 .. Len(sent') : sent'[k] = Message[k]
  PROVE  /\ WithinAnnounced'
         /\ goal \in {"init", "query"} => sent'[1] = CONTROL_SPECIAL_RESID
<1>1. /\ Len(sent) \in Nat /\ Len(sent') \in Nat /\ Len(Message) \in Nat
      /\ Message \in Seq(Byte) /\ Message # <<>>
  BY Types
<1>2. ASSUME Len(sent') >= 3
      PROVE  sent'[3] \in Nat /\ Len(sent') <= 3 + sent'[3]
  <2>1. sent'[3] = Message[3]
    BY <1>1, <1>2
  <2>2. Message[3] \in 0 .. I2C_DATA_MAX_BYTES /\ Len(Message) <= 3 + Message[3]
    BY <1>1, Types, MessageFacts
  <2>3. Message[3] \in Nat
    BY <2>2, Types
  <2> QED BY <1>1, <2>1, <2>2, <2>3
<1>3. /\ bus = "write" /\ bus' = "write" /\ got' = got /\ state' # "TRAP"
      /\ state' = "WRITE_OVERFLOW" =>
           state = "WRITE_OVERFLOW" \/ (state = "WRITE_DATA" /\ ptx = plen)
  BY Types, WriteShape
<1>4. got' = <<>> /\ state' # "READ_OVERFLOW"
  BY <1>3 DEF IInv, BusState
<1>5. state' # "WRITE_OVERFLOW"
  <2> SUFFICES ASSUME state = "WRITE_DATA", ptx = plen PROVE FALSE
    BY <1>3 DEF HInv, WithinAnnounced
  <2>1. Len(sent) = 3 + plen /\ plen = sent[3] /\ plen \in Nat
    BY Types DEF IInv, Place, HeaderAsSent, LengthTaken, TypeOK, plen
  <2>2. Len(sent) <= 3 + sent[3] /\ Len(sent) >= 3 /\ sent[3] = Message[3] /\ Len(Message) <= 3 + sent[3]
    BY <1>1, <2>1, Announces
  <2> QED BY <1>1, <2>1, <2>2
<1>6. WithinAnnounced'
  BY <1>1, <1>2, <1>3, <1>4, <1>5 DEF WithinAnnounced, HeaderSent, Announced
<1>7. ASSUME goal \in {"init", "query"} PROVE sent'[1] = CONTROL_SPECIAL_RESID
  <2>1. sent'[1] = Message[1]
    BY <1>1
  <2> QED BY <1>7, <2>1, Types, MessageFacts
<1> QED BY <1>6, <1>7

LEMMA SendsStep == ASSUME HInv, Sends PROVE HInv'
<1>1. /\ pc = "sending" /\ todo # <<>> /\ pc' = "sending"
      /\ MasterWrites(Head(todo)) /\ todo' = Tail(todo) /\ Logged
      /\ UNCHANGED <<driver, goal, request, result, faulty>>
  BY DEF Sends
<1> DEFINE b == Head(todo)
<1>2. Progress /\ bus = "write"
  BY <1>1 DEF HInv, Transfer
<1>3. b \in Byte
  BY <1>1, Types
<1>4. ~SendByteTraps(b)
  BY <1>2, NoTrap
<1>5. MasterWrites(b)
  BY <1>1
<1>6. sent' = Append(sent, b)
  BY <1>3, <1>4, <1>5, Types, WriteShape
<1>7. /\ b = Message[Len(sent) + 1] /\ Len(sent) < Len(Message)
      /\ sent' \in Seq(Byte) /\ Len(sent') = Len(sent) + 1
      /\ todo' \in Seq(Byte) /\ Len(todo') \in Nat /\ Len(todo') <= Len(todo)
      /\ Progress' /\ \A k \in 1 .. Len(sent') : sent'[k] = Message[k]
  BY <1>1, <1>2, <1>6, MovesOn
<1> HIDE DEF b
<1>8. IInv'
  BY <1>3, <1>5, Types, DeviceStep
<1>9. /\ WithinAnnounced'
      /\ goal \in {"init", "query"} => sent'[1] = CONTROL_SPECIAL_RESID
  BY <1>2, <1>3, <1>4, <1>5, <1>7, <1>8, SendsWithin
<1>10. bus' = "write" /\ (calls' = calls \/ NewWriteCall)
  BY <1>3, <1>4, <1>5, Types, WriteShape
<1>11. /\ calls' \in Seq(Call) /\ Len(calls') \in Nat
       /\ \A k \in 1 .. Len(calls') : calls'[k].op = "write"
       /\ log' \in Seq(Call)
       /\ log = calls => log' = calls'
  <2>1. /\ \A k \in 1 .. Len(calls) : calls[k].op = "write"
        /\ calls \in Seq(Call) /\ log \in Seq(Call)
    BY <1>1, Types DEF HInv, CallsOfTransfer
  <2>2. CASE calls' = calls
    BY <1>1, <2>1, <2>2, LoggedFacts
  <2>3. ASSUME NEW c \in Call, calls' = Append(calls, c), c.op = "write"
        PROVE  /\ calls' \in Seq(Call) /\ Len(calls') \in Nat
               /\ \A k \in 1 .. Len(calls') : calls'[k].op = "write"
               /\ log' \in Seq(Call)
               /\ log = calls => log' = calls'
    <3>1. log' = Append(log, c)
      BY <1>1, <2>3, LoggedFacts
    <3>2. /\ calls' \in Seq(Call) /\ log' \in Seq(Call)
          /\ Len(calls') = Len(calls) + 1 /\ Len(calls) \in Nat
          /\ \A k \in 1 .. Len(calls) : calls'[k] = calls[k]
          /\ calls'[Len(calls) + 1] = c
      BY <2>1, <2>3, <3>1, AppendFacts
    <3>3. \A k \in 1 .. Len(calls') : calls'[k].op = "write"
      BY <2>1, <2>3, <3>2
    <3> QED BY <2>3, <3>1, <3>2, <3>3
  <2> QED BY <1>10, <2>2, <2>3 DEF NewWriteCall
<1>12. goal \in {"init", "query"} => calls' = <<>> /\ log' = log
  <2> SUFFICES ASSUME goal \in {"init", "query"} PROVE calls' = <<>> /\ log' = log
    OBVIOUS
  <2>1. calls = <<>>
    BY <1>1 DEF HInv, CallsOfTransfer
  <2>2. ~NewWriteCall
    <3> SUFFICES ASSUME NEW c \in Call, calls' = Append(calls, c),
                        c.resid # CONTROL_SPECIAL_RESID
                 PROVE  FALSE
      BY DEF NewWriteCall
    <3>1. Len(sent') >= 1
      BY <1>7, Types
    <3> QED BY <1>8, <1>9, <2>1, <3>1, NoCallForSpecial
  <2> QED BY <1>1, <1>10, <2>1, <2>2, LoggedFacts
<1>13. HostTypeOK'
  <2>1. Len(todo') <= I2C_TRANSACTION_MAX_BYTES
    <3>1. I2C_TRANSACTION_MAX_BYTES \in Nat
      BY I2CAssumption DEF I2C_TRANSACTION_MAX_BYTES
    <3> QED BY <1>7, <3>1, Types
  <2> QED BY <1>1, <1>7, <1>8, <1>11, <2>1, Types DEF HostTypeOK, IInv, Pc
<1>14. AskedRight' /\ Transfer'
  BY <1>1, <1>7, <1>10, Types DEF AskedRight, Transfer
<1>15. CallsOfTransfer'
  BY <1>1, <1>11, <1>12 DEF CallsOfTransfer
<1>16. LogOfRequest'
  <2>1. CASE goal \in {"init", "query"}
    BY <1>1, <1>12, <2>1, SameLegal DEF HInv, LogOfRequest, Serves
  <2>2. CASE goal \in {"write", "read"}
    <3>1. log' = calls'
      BY <1>1, <1>11, <2>2 DEF HInv, LogOfRequest
    <3>2. Len(calls') <= 1
      <4>1. \A k \in 1 .. Len(calls') : k = 1
        BY <1>8, <1>11 DEF IInv, AtMostOnce, Writes
      <4> QED BY <1>11, <4>1
    <3>3. ASSUME request' \in Legal, log' # <<>> PROVE Serves(log[1])'
      <4>1. Len(calls') >= 1 /\ calls'[1].op = "write"
        BY <1>11, <3>1, <3>3
      <4>2. request \in Request /\ goal = request.op
        BY <2>2, Types DEF AskedRight
      <4>3. Message' = control_build_i2c_data(request)
        BY <1>1, <2>2, SameMessage, Types, MessageFacts
      <4>4. request' \in Legal /\ request' = request /\ goal' = request.op
        BY <1>1, <3>3, <4>2
      <4>5. request \in Legal
        BY <4>4
      <4>6. Serves(calls[1])'
        BY <1>7, <1>8, <1>14, <4>1, <4>3, <4>4, <4>5, CallServes
      <4> QED BY <3>1, <4>6 DEF Serves
    <3> QED BY <1>1, <2>2, <3>1, <3>2, <3>3, SameLegal DEF LogOfRequest
  <2> QED BY <2>1, <2>2, Types DEF Goal
<1>17. QueryAnswered'
  <2> SUFFICES ASSUME goal = "query"
               PROVE  /\ state' \in {"WRITE_START", "WRITE_RESID", "WRITE_CMD", "WRITE_SIZE"}
                      /\ state' = "WRITE_SIZE" => last_status' = CONTROL_SUCCESS
    BY <1>1 DEF QueryAnswered
  <2>1. Len(sent) < 3
    BY <1>7, Types, MessageFacts
  <2> QED BY <1>1, <1>3, <1>4, <1>5, <1>7, <2>1, QuerySends
<1>18. RetryIsSafe'
  BY <1>1 DEF RetryIsSafe
<1> QED BY <1>8, <1>9, <1>13, <1>14, <1>15, <1>16, <1>17, <1>18 DEF HInv

-----------------------------------------------------------------------------
(* A legal write whose every byte was acknowledged has been executed. *)
LEMMA ExecutedWhenSent ==
  ASSUME HInv, AllSent, goal = "write", request \in Legal
  PROVE  log # <<>> /\ log[1].ret = CONTROL_SUCCESS
<1>1. pc = "sending" /\ todo = <<>> /\ ~nacked
  BY DEF AllSent
<1>2. Progress /\ log = calls
  BY <1>1 DEF HInv, Transfer, LogOfRequest
<1>3. /\ request.op = "write" /\ request.len \in Nat /\ request.len <= I2C_DATA_MAX_BYTES
      /\ ~IS_CONTROL_CMD_READ(request.cmd) /\ Len(request.data) = request.len
  BY Types, ByteFacts DEF AskedRight, Legal, Request
<1>4. Message = control_build_i2c_data(request)
  BY Types, MessageFacts
<1> DEFINE m == Message
<1>5. Len(m) = 3 + request.len /\ m[3] = request.len
  BY <1>3, <1>4, Types, BuildFacts
<1>6. Len(sent) = Len(m) /\ \A k \in 1 .. Len(sent) : sent[k] = m[k]
  BY <1>1, <1>2, Types DEF Progress
<1> HIDE DEF m
<1>7. Len(sent) = 3 + request.len /\ sent[3] = request.len
  BY <1>3, <1>5, <1>6
<1>8. WriteComplete /\ ~Overlong
  BY <1>3, <1>7 DEF WriteComplete, Overlong, HeaderSent, Announced
<1>9. Successful("write") # {}
  BY <1>1, <1>8 DEF HInv, IInv, AckedWriteExecuted
<1>10. PICK k \in 1 .. Len(calls) : calls[k].ret = CONTROL_SUCCESS
  BY <1>9 DEF Successful
<1>11. Len(log) <= 1
  BY <1>3, Types DEF HInv, LogOfRequest
<1>12. Len(calls) \in Nat /\ Len(calls) <= 1
  BY <1>2, <1>11, Types
<1>13. k = 1 /\ calls # <<>>
  <2>1. Len(calls) = 1 /\ k = 1
    BY <1>10, <1>12
  <2> QED BY <2>1
<1>14. calls[1].ret = CONTROL_SUCCESS
  BY <1>10, <1>13
<1> QED BY <1>2, <1>13, <1>14

LEMMA WriteSentStep == ASSUME HInv, WriteSent PROVE HInv'
<1>1. /\ AllSent /\ goal = "write" /\ Stop /\ pc' = "start" /\ goal' = "query"
      /\ todo' = control_build_i2c_data(StatusQuery)
      /\ UNCHANGED <<driver, request, result, log, faulty>>
  BY DEF WriteSent, user
<1>2. IInv' /\ WithinAnnounced'
  BY <1>1, LetsGoFacts DEF LetsGo
<1>3. todo' \in Seq(Byte) /\ Len(todo') <= I2C_TRANSACTION_MAX_BYTES
  <2>1. I2C_TRANSACTION_MAX_BYTES \in Nat /\ I2C_TRANSACTION_MAX_BYTES >= 3
    BY I2CAssumption DEF I2C_TRANSACTION_MAX_BYTES
  <2>2. todo' \in Seq(Byte) /\ Len(todo') = 3
    BY <1>1, QueryMessage
  <2> QED BY <2>1, <2>2
<1>4. HostTypeOK'
  <2>1. pc' \in Pc /\ goal' \in Goal
    BY <1>1 DEF Pc, Goal
  <2> QED BY <1>1, <1>2, <1>3, <2>1, Types DEF HostTypeOK, IInv
<1>5. AskedRight'
  BY <1>1, Types DEF AskedRight
<1>6. Transfer'
  <2>1. Message' = control_build_i2c_data(StatusQuery)
    BY <1>1 DEF Message, control_build_i2c_data, StatusQuery
  <2> QED BY <1>1, <2>1 DEF Transfer
<1>7. CallsOfTransfer' /\ QueryAnswered' /\ RetryIsSafe'
  BY <1>1 DEF CallsOfTransfer, QueryAnswered, RetryIsSafe
<1>8. LogOfRequest'
  <2>1. request \in Legal => log # <<>> /\ log[1].ret = CONTROL_SUCCESS
    BY <1>1, ExecutedWhenSent
  <2> QED BY <1>1, <2>1, SameLegal DEF HInv, LogOfRequest, Serves
<1> QED BY <1>2, <1>4, <1>5, <1>6, <1>7, <1>8 DEF HInv

(* The whole header of a query or of a legal read has been sent: it is     *)
(* what the device holds.                                                  *)
LEMMA HeaderHeld ==
  ASSUME HInv, AllSent, goal = "query" \/ (goal = "read" /\ request \in Legal)
  PROVE  /\ Progress /\ Len(sent) = 3
         /\ goal = "query" => /\ sent[1] = CONTROL_SPECIAL_RESID
                              /\ sent[2] = CONTROL_GET_LAST_COMMAND_STATUS /\ sent[3] = 1
         /\ goal = "read" => sent[1] = request.resid /\ sent[1] # CONTROL_SPECIAL_RESID
<1>1. pc = "sending" /\ todo = <<>> /\ Progress
  BY DEF AllSent, HInv, Transfer
<1> DEFINE m == Message
<1>2. Len(m) = 3
  <2>1. CASE goal = "query"
    BY <2>1, Types, MessageFacts
  <2>2. CASE goal = "read" /\ request \in Legal
    <3>1. Message = control_build_i2c_data(request)
      BY <2>2, Types, MessageFacts
    <3>2. /\ request.len \in Nat /\ request.len <= I2C_DATA_MAX_BYTES
          /\ IS_CONTROL_CMD_READ(request.cmd)
      BY <2>2, Types, ByteFacts DEF AskedRight, Legal, Request
    <3> QED BY <3>1, <3>2, Types, BuildFacts DEF AskedRight
  <2> QED BY <2>1, <2>2
<1>3. Len(sent) = 3 /\ sent[1] = m[1] /\ sent[2] = m[2] /\ sent[3] = m[3]
  <2>1. Len(sent) = Len(m) /\ \A k \in 1 .. Len(sent) : sent[k] = m[k]
    BY <1>1, Types DEF Progress
  <2> HIDE DEF m
  <2> QED BY <1>2, <2>1
<1>4. ASSUME goal = "query"
      PROVE  m[1] = CONTROL_SPECIAL_RESID /\ m[2] = CONTROL_GET_LAST_COMMAND_STATUS /\ m[3] = 1
  BY <1>4, Types, MessageFacts
<1>5. ASSUME goal = "read" PROVE m[1] = request.resid /\ request.resid # CONTROL_SPECIAL_RESID
  <2>1. Message = control_build_i2c_data(request) /\ request \in Legal
    BY <1>5, Types, MessageFacts
  <2>2. /\ request.len \in Nat /\ request.len <= I2C_DATA_MAX_BYTES
        /\ request.resid # CONTROL_SPECIAL_RESID
    BY <1>5, <2>1, Types, ByteFacts DEF AskedRight, Legal, Request
  <2> QED BY <2>1, <2>2, Types, BuildFacts DEF AskedRight
<1> HIDE DEF m
<1> QED BY <1>1, <1>3, <1>4, <1>5

(* A status query is answered, with the result of its own last byte. *)
LEMMA QueryTurns ==
  ASSUME HInv, AllSent, goal = "query", ReadStart \/ ReadStartFails \/ ReadStartRefused
  PROVE  bus' = "read" /\ got' = <<>> /\ state' = "READ_START" /\ payload'[0] = CONTROL_SUCCESS
<1>1. pc = "sending" /\ Len(sent) = 3 /\ sent[1] = CONTROL_SPECIAL_RESID
      /\ sent[2] = CONTROL_GET_LAST_COMMAND_STATUS /\ sent[3] = 1
  BY HeaderHeld DEF AllSent
<1>2. state = "WRITE_SIZE" /\ last_status = CONTROL_SUCCESS
  BY <1>1 DEF HInv, QueryAnswered, IInv, Place
<1>3. resid = CONTROL_SPECIAL_RESID /\ cmd = CONTROL_GET_LAST_COMMAND_STATUS
      /\ payload_len_from_header = 1
  BY <1>1, <1>2 DEF HInv, IInv, HeaderAsSent, ResidTaken, CmdTaken, LengthTaken, plen
<1>4. /\ IS_CONTROL_CMD_READ(cmd) /\ CONTROL_GET_VERSION # CONTROL_GET_LAST_COMMAND_STATUS
      /\ special_read_ret(cmd, payload_len_from_header) = CONTROL_SUCCESS
      /\ special_read_byte(cmd, last_status) = CONTROL_SUCCESS
  <2>1. /\ IS_CONTROL_CMD_READ(CONTROL_GET_LAST_COMMAND_STATUS)
        /\ CONTROL_GET_VERSION # CONTROL_GET_LAST_COMMAND_STATUS
    BY ControlAssumption
       DEF CONTROL_GET_VERSION, CONTROL_GET_LAST_COMMAND_STATUS, CONTROL_CMD_SET_READ,
           IS_CONTROL_CMD_READ
  <2> QED BY <1>2, <1>3, <2>1 DEF special_read_ret, special_read_byte
<1>5. ~ReadStartRefused
  BY <1>2, <1>4 DEF ReadStartRefused
<1>6. ~ReadStartFails
  BY <1>3, <1>4 DEF ReadStartFails, read_command
<1>7. CASE ReadStart
  <2>1. payload' = [payload EXCEPT ![0] = CONTROL_SUCCESS]
    BY <1>3, <1>4, <1>7 DEF ReadStart, read_command
  <2>2. 0 \in Index /\ payload \in [Index -> Byte]
    BY Types, I2CAssumption DEF TypeOK, Index
  <2> QED BY <1>7, <2>1, <2>2 DEF ReadStart, Reading
<1> QED BY <1>5, <1>6, <1>7

LEMMA TurnsStep == ASSUME HInv, Turns PROVE HInv'
<1>1. /\ AllSent /\ pc = "sending" /\ todo = <<>> /\ goal \in {"read", "query"}
      /\ ReadStart \/ ReadStartFails \/ ReadStartRefused
      /\ pc' = "taking" /\ Logged
      /\ UNCHANGED <<driver, goal, todo, request, result, faulty>>
  BY DEF Turns, AllSent
<1>2. IInv'
  BY <1>1, Types, DeviceStep DEF Next
<1>3. /\ sent' = sent /\ got' = <<>>
      /\ state' \notin {"TRAP", "WRITE_OVERFLOW", "READ_OVERFLOW"}
      /\ bus' \in {"read", "nacked"} /\ (bus' = "read" => state = "WRITE_SIZE")
      /\ \/ calls' = calls /\ (bus' = "read" => resid = CONTROL_SPECIAL_RESID)
         \/ \E c \in Call : /\ calls' = Append(calls, c)
                            /\ c.op = "read" /\ c.resid # CONTROL_SPECIAL_RESID
                            /\ bus' = "read" <=> c.ret = CONTROL_SUCCESS
  BY <1>1, Types, ReadStartShape
<1>4. Progress /\ Progress'
  <2>1. Progress
    BY <1>1 DEF HInv, Transfer
  <2> QED BY <1>1, <1>3, <2>1, SameMessage DEF Progress
<1>5. WithinAnnounced'
  <2>1. ASSUME Len(sent) >= 3 PROVE Len(sent) <= 3 + sent[3] /\ 0 <= sent[3]
    <3>1. sent[3] \in 0 .. I2C_DATA_MAX_BYTES /\ Len(Message) <= 3 + sent[3]
          /\ Len(sent) <= Len(Message)
      BY <1>4, <2>1, Announces
    <3> QED BY <3>1, Types
  <2> QED BY <1>3, <2>1 DEF WithinAnnounced, HeaderSent, Announced
<1>6. /\ calls' \in Seq(Call) /\ log' \in Seq(Call)
      /\ log = calls => log' = calls'
  <2>1. calls \in Seq(Call) /\ log \in Seq(Call)
    BY Types
  <2>2. CASE calls' = calls
    BY <1>1, <2>1, <2>2, LoggedFacts
  <2>3. ASSUME NEW c \in Call, calls' = Append(calls, c)
        PROVE  calls' \in Seq(Call) /\ log' \in Seq(Call) /\ (log = calls => log' = calls')
    BY <1>1, <2>1, <2>3, LoggedFacts, AppendFacts
  <2> QED BY <1>3, <2>2, <2>3
<1>7. goal = "query" => calls' = <<>> /\ log' = log
  <2> SUFFICES ASSUME goal = "query" PROVE calls' = <<>> /\ log' = log
    OBVIOUS
  <2>1. calls = <<>>
    BY <1>1 DEF HInv, CallsOfTransfer
  <2>2. Len(sent') >= 1 /\ sent'[1] = CONTROL_SPECIAL_RESID
    <3>1. Len(sent) = 3 /\ sent[1] = CONTROL_SPECIAL_RESID
      BY <1>1, HeaderHeld
    <3> QED BY <1>3, <3>1
  <2>3. calls' = calls
    <3>1. ASSUME NEW c \in Call, calls' = Append(calls, c), c.resid # CONTROL_SPECIAL_RESID
          PROVE  FALSE
      BY <1>2, <2>1, <2>2, <3>1, NoCallForSpecial
    <3> QED BY <1>3, <3>1
  <2> QED BY <1>1, <2>1, <2>3, LoggedFacts
<1>8. ASSUME goal = "read", request \in Legal
      PROVE  /\ Len(calls') <= 1 /\ \A k \in 1 .. Len(calls') : calls'[k].op = "read"
             /\ IF bus' = "read"
                THEN Len(calls') = 1 /\ calls'[1].ret = CONTROL_SUCCESS
                ELSE \A k \in 1 .. Len(calls') : calls'[k].ret # CONTROL_SUCCESS
  <2>1. calls = <<>>
    BY <1>1, <1>8, NoCallYet
  <2>2. CASE calls' = calls /\ (bus' = "read" => resid = CONTROL_SPECIAL_RESID)
    <3>1. bus' # "read"
      <4> SUFFICES ASSUME bus' = "read" PROVE FALSE
        OBVIOUS
      <4>1. resid = sent[1]
        BY <1>3 DEF HInv, IInv, HeaderAsSent, ResidTaken, CmdTaken, LengthTaken
      <4> QED BY <1>1, <1>8, <2>2, <4>1, HeaderHeld
    <3> QED BY <2>1, <2>2, <3>1
  <2>3. ASSUME NEW c \in Call, calls' = Append(calls, c), c.op = "read",
               bus' = "read" <=> c.ret = CONTROL_SUCCESS
        PROVE  /\ Len(calls') <= 1 /\ \A k \in 1 .. Len(calls') : calls'[k].op = "read"
               /\ IF bus' = "read"
                  THEN Len(calls') = 1 /\ calls'[1].ret = CONTROL_SUCCESS
                  ELSE \A k \in 1 .. Len(calls') : calls'[k].ret # CONTROL_SUCCESS
    <3>1. calls' = <<c>> /\ Len(calls') = 1 /\ calls'[1] = c
      BY <2>1, <2>3
    <3> QED BY <2>3, <3>1
  <2> QED BY <1>3, <2>2, <2>3
<1>9. HostTypeOK'
  BY <1>1, <1>2, <1>6, Types DEF HostTypeOK, IInv, Pc
<1>10. AskedRight' /\ Transfer'
  BY <1>1, <1>3, <1>4, Types DEF AskedRight, Transfer
<1>11. CallsOfTransfer'
  <2>1. request' \in Legal' <=> request \in Legal
    BY <1>1, SameLegal
  <2> QED BY <1>1, <1>7, <1>8, <2>1 DEF CallsOfTransfer
<1>12. LogOfRequest'
  <2>1. CASE goal = "query"
    BY <1>1, <1>7, <2>1, SameLegal DEF HInv, LogOfRequest, Serves
  <2>2. CASE goal = "read"
    <3>1. log' = calls'
      BY <1>1, <1>6, <2>2 DEF HInv, LogOfRequest
    <3>2. ASSUME request' \in Legal, log' # <<>> PROVE Serves(log[1])'
      <4>1. request \in Legal /\ request' = request
        BY <1>1, <3>2
      <4>2. Len(calls') >= 1
        BY <1>6, <3>1, <3>2
      <4>3. Message' = control_build_i2c_data(request)
        BY <1>1, <2>2, SameMessage, Types, MessageFacts
      <4>4. goal' = request.op /\ goal' = "read" /\ todo' \in Seq(Byte)
        BY <1>1, <2>2, Types DEF AskedRight
      <4>5. request' \in Legal
        BY <3>2
      <4>6. Serves(calls[1])'
        BY <1>2, <1>4, <1>10, <4>1, <4>2, <4>3, <4>4, <4>5, CallServes
      <4> QED BY <3>1, <4>6 DEF Serves
    <3> QED BY <1>1, <1>8, <2>2, <3>1, <3>2, SameLegal DEF LogOfRequest
  <2> QED BY <1>1, <2>1, <2>2
<1>13. QueryAnswered'
  <2>1. goal = "query" => bus' = "read" /\ state' = "READ_START" /\ payload'[0] = CONTROL_SUCCESS
    BY <1>1, QueryTurns
  <2> QED BY <1>1, <1>3, <2>1 DEF QueryAnswered
<1>14. RetryIsSafe'
  BY <1>1 DEF RetryIsSafe
<1> QED BY <1>2, <1>5, <1>9, <1>10, <1>11, <1>12, <1>13, <1>14 DEF HInv

-----------------------------------------------------------------------------
(* The host reads on only while the device has something to send. *)
LEMMA ReplyAwaits ==
  ASSUME HInv, pc = "taking", bus = "read"
  PROVE  /\ Len(sent) >= 3 /\ sent[3] = Wanted /\ Wanted \in Nat
         /\ plen = Wanted \/ state = "ERROR"
         /\ state \in InReply \/ (state = "ERROR" /\ Len(got) >= Wanted)
         /\ state = "READ_START" => got = <<>>
         /\ state = "READ_DATA" => Len(got) = ptx /\ ptx >= 1
<1>1. Progress /\ todo = <<>> /\ goal \in {"read", "query"}
  BY DEF HInv, Transfer
<1>2. state \in InReply \cup {"ERROR"}
  BY DEF HInv, IInv, BusState, WithinAnnounced
<1>3. Len(sent) >= 3
  <2>1. /\ state \in InReply => Len(sent) = 3
        /\ state = "ERROR" => Len(sent) >= 3
    BY DEF HInv, IInv, Place, ReplyReady
  <2> QED BY <1>2, <2>1
<1>4. Message # <<>> /\ sent[3] = Message[3]
  BY <1>1, <1>3, Announces
<1>5. /\ sent[3] = Wanted /\ Wanted \in Nat
  <2>1. CASE goal = "query"
    BY <1>4, <2>1, Types, MessageFacts DEF Wanted, StatusQuery
  <2>2. CASE goal = "read"
    <3>1. Message = control_build_i2c_data(request)
      BY <2>2, Types, MessageFacts
    <3>2. request.len \in Nat
      BY Types, ByteFacts DEF Request
    <3>3. request.len <= I2C_DATA_MAX_BYTES
      BY <1>4, <3>1, <3>2, Types, BuildFacts DEF AskedRight
    <3>4. Message[3] = request.len
      BY <3>1, <3>2, <3>3, Types, BuildFacts DEF AskedRight
    <3> QED BY <1>4, <2>2, <3>2, <3>4 DEF Wanted
  <2> QED BY <1>1, <2>1, <2>2
<1>6. /\ state \in InReply => plen = sent[3]
      /\ state = "ERROR" => Len(got) >= sent[3]
      /\ state = "READ_START" => got = <<>>
      /\ state = "READ_DATA" => Len(got) = ptx /\ ptx >= 1
  BY DEF HInv, IInv, HeaderAsSent, LengthTaken, InReply, ReplyReady
<1> QED BY <1>2, <1>3, <1>5, <1>6

LEMMA TakesShape ==
  ASSUME HInv, Takes
  PROVE  /\ bus = "read" /\ Len(got) < Wanted /\ (ReadFirstByte \/ ReadByte)
         /\ got' = Append(got, payload[Len(got)]) /\ payload[Len(got)] \in Byte
         /\ state' = "READ_DATA" /\ (got = <<>> => state = "READ_START")
         /\ UNCHANGED <<bus, sent, calls>>
<1>1. /\ pc = "taking" /\ Len(got) < Wanted
      /\ ReadFirstByte \/ ReadByte \/ ReadByteTraps \/ ReadOverrun
  BY DEF Takes
<1>2. bus = "read"
  BY <1>1 DEF ReadFirstByte, ReadByte, ReadByteTraps, ReadOverrun, MasterReads
<1>3. /\ Wanted \in Nat /\ (plen = Wanted \/ state = "ERROR")
      /\ state \in InReply \/ (state = "ERROR" /\ Len(got) >= Wanted)
      /\ state = "READ_START" => got = <<>>
      /\ state = "READ_DATA" => Len(got) = ptx /\ ptx >= 1
  BY <1>1, <1>2, ReplyAwaits
<1>4. state \in InReply /\ plen = Wanted
  <2>1. state # "ERROR"
    <3>1. Len(got) \in Nat
      BY Types
    <3>2. ~(Len(got) >= Wanted)
      BY <1>1, <1>3, <3>1
    <3> QED BY <1>3, <3>2 DEF InReply
  <2> QED BY <1>3, <2>1
<1>5. /\ ptx \in 0 .. I2C_DATA_MAX_BYTES /\ plen \in 0 .. I2C_DATA_MAX_BYTES
      /\ payload \in [Index -> Byte] /\ I2C_DATA_MAX_BYTES \in Nat /\ 0 \in Index
  BY Types, I2CAssumption DEF TypeOK, ptx, plen, Index
<1>6. CASE state = "READ_START"
  <2>1. ReadFirstByte /\ Len(got) = 0
    BY <1>1, <1>3, <1>6 DEF ReadByte, ReadByteTraps, ReadOverrun
  <2>2. payload[0] \in Byte
    BY <1>5
  <2> QED BY <1>1, <1>2, <1>6, <2>1, <2>2 DEF ReadFirstByte, MasterReads
<1>7. CASE state = "READ_DATA"
  <2>1. ptx < plen /\ ptx \in Index /\ Len(got) = ptx /\ got # <<>>
    <3>1. Len(got) = ptx /\ ptx >= 1
      BY <1>3, <1>7
    <3>2. ptx < plen
      BY <1>1, <1>4, <3>1
    <3>3. ptx \in Index
      BY <1>5, <3>2 DEF Index
    <3>4. got # <<>>
      BY <3>1
    <3> QED BY <3>1, <3>2, <3>3, <3>4
  <2>2. ptx # plen
    BY <1>5, <2>1
  <2>3. ReadByte
    BY <1>1, <1>7, <2>1, <2>2 DEF ReadFirstByte, ReadByteTraps, ReadOverrun, ptx, plen
  <2>4. payload[ptx] \in Byte
    BY <1>5, <2>1
  <2> QED BY <1>1, <1>2, <1>7, <2>1, <2>3, <2>4 DEF ReadByte, MasterReads, ptx
<1> QED BY <1>4, <1>6, <1>7 DEF InReply

LEMMA TakesStep == ASSUME HInv, Takes PROVE HInv'
<1>1. /\ pc = "taking" /\ pc' = "taking"
      /\ UNCHANGED <<driver, goal, todo, request, result, log, faulty>>
  BY DEF Takes, user
<1>2. /\ bus = "read" /\ Len(got) < Wanted /\ (ReadFirstByte \/ ReadByte)
      /\ got' = Append(got, payload[Len(got)]) /\ payload[Len(got)] \in Byte
      /\ state' = "READ_DATA" /\ (got = <<>> => state = "READ_START")
      /\ UNCHANGED <<bus, sent, calls>>
  BY TakesShape
<1>3. IInv'
  BY <1>2, Types, DeviceStep DEF Next
<1>4. /\ Len(sent) >= 3 /\ sent[3] = Wanted /\ Wanted \in Nat
  BY <1>1, <1>2, ReplyAwaits
<1>5. /\ Len(got') = Len(got) + 1 /\ Len(got) \in Nat
      /\ \A k \in 1 .. Len(got) : got'[k] = got[k]
      /\ got'[Len(got) + 1] = payload[Len(got)]
  BY <1>2, Types, AppendFacts
<1>6. Progress'
  BY <1>1, <1>2, SameMessage DEF HInv, Transfer, Progress
<1>7. WithinAnnounced'
  <2>1. Len(sent) <= 3 + sent[3]
    BY <1>1, <1>4 DEF HInv, WithinAnnounced, HeaderSent, Announced
  <2>2. Len(got') <= sent[3]
    BY <1>2, <1>4, <1>5
  <2> QED BY <1>2, <2>1, <2>2 DEF WithinAnnounced, HeaderSent, Announced
<1>8. HostTypeOK'
  BY <1>1, <1>3, Types DEF HostTypeOK, IInv
<1>9. AskedRight' /\ Transfer'
  BY <1>1, <1>2, <1>6, Types DEF HInv, AskedRight, Transfer
<1>10. CallsOfTransfer'
  BY <1>1, <1>2, SameLegal DEF HInv, CallsOfTransfer
<1>11. LogOfRequest'
  BY <1>1, <1>2, SameLegal DEF HInv, LogOfRequest, Serves
<1>12. QueryAnswered'
  <2> SUFFICES ASSUME goal = "query" PROVE got'[1] = CONTROL_SUCCESS
    <3>1. got' # <<>>
      BY <1>5
    <3> QED BY <1>1, <1>2, <3>1 DEF QueryAnswered
  <2>1. CASE got = <<>>
    <3>1. payload[0] = CONTROL_SUCCESS /\ Len(got) = 0
      BY <1>1, <2>1 DEF HInv, QueryAnswered
    <3> QED BY <1>5, <3>1
  <2>2. CASE got # <<>>
    <3>1. got[1] = CONTROL_SUCCESS
      BY <1>1, <2>2 DEF HInv, QueryAnswered
    <3>2. 1 \in 1 .. Len(got)
      BY <2>2, Types
    <3> QED BY <1>5, <3>1, <3>2
  <2> QED BY <2>1, <2>2
<1>13. RetryIsSafe'
  BY <1>1 DEF RetryIsSafe
<1> QED BY <1>3, <1>7, <1>8, <1>9, <1>10, <1>11, <1>12, <1>13 DEF HInv

(* What a function returns at the end of a reply. *)
LEMMA Reply ==
  ASSUME HInv, pc = "taking", bus = "read", Len(got) = Wanted
  PROVE  /\ goal = "query" => got[1] = CONTROL_SUCCESS /\ got[1] \in Byte
         /\ goal # "query" => goal = "read"
<1>1. goal \in {"read", "query"}
  BY DEF HInv, Transfer
<1>2. ASSUME goal = "query" PROVE got[1] = CONTROL_SUCCESS /\ got[1] \in Byte
  <2>1. Len(got) = 1
    BY <1>2 DEF Wanted, StatusQuery
  <2>2. got # <<>> /\ 1 \in 1 .. Len(got)
    BY <2>1
  <2> QED BY <1>2, <2>2, Types DEF HInv, QueryAnswered
<1> QED BY <1>1, <1>2

LEMMA AllTakenStep == ASSUME HInv, AllTaken PROVE HInv'
<1>1. /\ pc = "taking" /\ bus = "read" /\ Len(got) = Wanted /\ Stop
      /\ pc' = "idle" /\ todo' = <<>> /\ UNCHANGED <<driver, goal, request, log, faulty>>
      /\ result' = IF goal = "query" THEN [ret |-> got[1], data |-> <<>>]
                                     ELSE [ret |-> CONTROL_SUCCESS, data |-> got]
  BY DEF AllTaken, Returns
<1>2. IInv' /\ WithinAnnounced'
  BY <1>1, LetsGoFacts DEF LetsGo
<1>3. goal = "query" => got[1] = CONTROL_SUCCESS /\ got[1] \in Byte
  BY <1>1, Reply
<1>4. result'.ret = CONTROL_SUCCESS /\ result' \in [ret : Byte, data : Seq(Byte)]
  <2>1. CASE goal = "query"
    BY <1>1, <1>3, <2>1, EmptySeq
  <2>2. CASE goal # "query"
    <3>1. CONTROL_SUCCESS \in Byte /\ got \in Seq(Byte)
      BY Types, RetFacts, ByteFacts
    <3> QED BY <1>1, <2>2, <3>1
  <2> QED BY <2>1, <2>2
<1>5. faulty' \in BOOLEAN
  BY <1>1, Types
<1> QED BY <1>1, <1>2, <1>4, <1>5, Finishes

LEMMA HStutter == ASSUME HInv, UNCHANGED hostVars PROVE HInv'
<1>1. UNCHANGED <<vars, driver, pc, goal, todo, request, result, log, faulty>>
  BY DEF hostVars, user
<1>2. IInv'
  BY <1>1, Types, DeviceStep
<1>3. UNCHANGED <<state, last_status, bus, sent, calls, got, payload>>
  BY <1>1 DEF vars, i2c, history
<1>4. HostTypeOK' /\ AskedRight' /\ WithinAnnounced'
  BY <1>1, <1>2, <1>3, Types
     DEF HInv, HostTypeOK, IInv, AskedRight, WithinAnnounced, HeaderSent, Announced
<1>5. Transfer'
  BY <1>1, <1>3, SameMessage DEF HInv, Transfer, Progress
<1>6. CallsOfTransfer' /\ QueryAnswered'
  BY <1>1, <1>3, SameLegal DEF HInv, CallsOfTransfer, QueryAnswered
<1>7. LogOfRequest' /\ RetryIsSafe'
  BY <1>1, <1>3, SameLegal DEF HInv, LogOfRequest, Serves, RetryIsSafe
<1> QED BY <1>2, <1>4, <1>5, <1>6, <1>7 DEF HInv

LEMMA HInitially == ASSUME HostInit PROVE HInv
<1>1. /\ Init /\ driver \in Drivers /\ pc = "closed" /\ goal = "init" /\ todo = <<>>
      /\ request = [op |-> "write", resid |-> 0, cmd |-> 0, len |-> 0, data |-> <<>>]
      /\ result = NoResult /\ log = <<>> /\ faulty = FALSE
  BY DEF HostInit
<1>2. IInv
  BY <1>1, IInvInit
<1>3. request \in Request /\ Len(request.data) = 0 /\ request.len = 0
  <2>1. 0 \in Byte /\ <<>> \in Seq(Byte)
    BY ControlAssumption, EmptySeq DEF Byte
  <2> QED BY <1>1, <2>1 DEF Request
<1>4. HostTypeOK
  <2>1. todo \in Seq(Byte) /\ Len(todo) = 0 /\ 0 <= I2C_TRANSACTION_MAX_BYTES
    BY <1>1, I2CAssumption, EmptySeq DEF I2C_TRANSACTION_MAX_BYTES
  <2>2. pc \in Pc /\ goal \in Goal /\ log \in Seq(Call)
    BY <1>1, EmptySeq DEF Pc, Goal
  <2> QED BY <1>1, <1>2, <1>3, <2>1, <2>2, ResultTypes DEF HostTypeOK, IInv
<1>5. AskedRight
  BY <1>1, <1>3 DEF AskedRight
<1>6. Transfer /\ CallsOfTransfer /\ LogOfRequest /\ QueryAnswered /\ RetryIsSafe
  BY <1>1 DEF Transfer, CallsOfTransfer, LogOfRequest, QueryAnswered, RetryIsSafe
<1>7. WithinAnnounced
  <2>1. state = "IDLE" /\ sent = <<>>
    BY <1>1 DEF Init
  <2>2. Len(sent) = 0
    BY <2>1
  <2> QED BY <2>1, <2>2 DEF WithinAnnounced, HeaderSent
<1> QED BY <1>2, <1>4, <1>5, <1>6, <1>7 DEF HInv

LEMMA HInductive == ASSUME HInv, [HostNext]_hostVars PROVE HInv'
BY InitStep, WriteBegins, ReadBegins, ReadRefusedStep, StartStep, SendsStep,
   NotAcknowledgedStep, WriteSentStep, TurnsStep, TakesStep, AllTakenStep, BusFailsStep,
   HStutter DEF HostNext

(* The invariant of a host and its device. *)
THEOREM HostInvariance == HostSpec => []HInv
BY HInitially, HInductive, PTL DEF HostSpec

(* Type correctness, and with it that no message is longer than the buffer *)
(* it is built in.                                                         *)
THEOREM HostTyping == HostSpec => []HostTypeOK
<1>1. HInv => HostTypeOK
  BY DEF HInv
<1> QED BY <1>1, HostInvariance, PTL

(* No host writes or reads on beyond the length it announced, whatever the *)
(* user asks for and wherever the bus fails.                               *)
THEOREM HostsKeepTheirWord == HostSpec => []WithinAnnounced
<1>1. HInv => WithinAnnounced
  BY DEF HInv
<1> QED BY <1>1, HostInvariance, PTL

(* Without a fault of the bus, what was reported as failed was not done.   *)
THEOREM FailureMeansNotDone == HostSpec => []RetryIsSafe
<1>1. HInv => RetryIsSafe
  BY DEF HInv
<1> QED BY <1>1, HostInvariance, PTL

-----------------------------------------------------------------------------
HostBusy == pc \notin {"closed", "idle"} /\ goal # "init"

LEMMA HostCodes ==
  Service!NoResult = NoResult /\ Service!CONTROL_SUCCESS = CONTROL_SUCCESS
BY DEF Service!NoResult, NoResult, Service!CONTROL_ERROR, CONTROL_ERROR,
       Service!CONTROL_SUCCESS, CONTROL_SUCCESS

LEMMA HostBegins ==
  ASSUME HInv, control_write_command \/ control_read_command PROVE Service!Begin
<1>1. HInv'
  BY WriteBegins, ReadBegins
<1>2. request' \in Request'
  BY <1>1 DEF HInv, HostTypeOK
<1>3. request' \in Request
  BY <1>2 DEF Request
<1>4. /\ pc = "idle" /\ pc' = "start" /\ goal' \in {"write", "read"}
      /\ log' = <<>> /\ result' = NoResult
  <2>1. \E r : r.op \in {"write", "read"} /\ Begin(r) /\ pc = "idle"
    <3>1. CASE control_write_command
      <4>1. PICK r : r.op = "write" /\ Begin(r)
        BY <3>1 DEF control_write_command
      <4> QED BY <3>1, <4>1 DEF control_write_command
    <3>2. CASE control_read_command
      <4>1. PICK r : r.op = "read" /\ Begin(r)
        BY <3>2 DEF control_read_command
      <4> QED BY <3>2, <4>1 DEF control_read_command
    <3> QED BY <3>1, <3>2
  <2> QED BY <2>1 DEF Begin
<1>5. (pc \notin {"closed", "idle"} /\ goal # "init") = FALSE
  BY <1>4
<1>6. (pc' \notin {"closed", "idle"} /\ goal' # "init") = TRUE
  BY <1>4
<1> QED BY <1>3, <1>4, <1>5, <1>6, HostCodes DEF Service!Begin

(* A call by the device is the Execute of the service. *)
LEMMA HostExecutes ==
  ASSUME HInv, HInv', pc = "sending", pc' \in {"sending", "taking"}, Logged,
         UNCHANGED <<goal, request, result>>,
         calls' = calls \/ \E c \in Call : calls' = Append(calls, c)
  PROVE  Service!Execute \/ UNCHANGED <<HostBusy, request, log, result>>
<1>1. HostBusy' <=> HostBusy
  BY DEF HostBusy
<1>2. CASE calls' = calls
  BY <1>1, <1>2, LoggedFacts DEF HostBusy
<1>3. ASSUME NEW c \in Call, calls' = Append(calls, c) PROVE Service!Execute
  <2>1. log' = Append(log, c)
    BY <1>3, LoggedFacts
  <2>2. /\ Len(log') = Len(log) + 1 /\ SubSeq(log', 1, Len(log)) = log /\ log' # <<>>
        /\ Len(log') \in Nat /\ Len(log) \in Nat
    <3>1. log \in Seq(Call)
      BY Types
    <3>2. log' \in Seq(Call) /\ Len(log') = Len(log) + 1 /\ Len(log) \in Nat
          /\ \A k \in 1 .. Len(log) : log'[k] = log[k]
      BY <2>1, <3>1, AppendFacts
    <3>3. SubSeq(log', 1, Len(log)) = log /\ log' # <<>>
      BY <2>1, <3>1, FrontFacts
    <3> QED BY <3>2, <3>3
  <2>3. goal # "init"
    <3> SUFFICES ASSUME goal = "init" PROVE FALSE
      OBVIOUS
    <3>1. calls' = <<>>
      BY DEF HInv, CallsOfTransfer
    <3>2. Len(calls') = Len(calls) + 1 /\ Len(calls) \in Nat
      BY <1>3, Types, AppendFacts
    <3> QED BY <3>1, <3>2
  <2>4. ASSUME request \in Legal PROVE Len(log') = 1 /\ Service!Serves(log'[1], request)
    <3>1. request' \in Legal' /\ goal' # "init"
      BY <2>3, <2>4, SameLegal
    <3>2. Len(log') <= 1 /\ Serves(log[1])'
      BY <2>2, <3>1 DEF HInv, LogOfRequest
    <3> QED BY <2>2, <3>2 DEF Serves, Service!Serves
  <2>5. /\ (pc \notin {"closed", "idle"} /\ goal # "init") = TRUE
        /\ (pc' \notin {"closed", "idle"} /\ goal' # "init") = TRUE
    BY <2>3
  <2> QED BY <2>2, <2>4, <2>5 DEF Service!Execute
<1> QED BY <1>2, <1>3

LEMMA HostFinishes ==
  ASSUME HInv, goal # "init", pc \in {"start", "sending", "taking"}, pc' = "idle",
         UNCHANGED <<goal, request, log>>,
         request \in Legal => Service!Honest(result', request, log)
  PROVE  Service!Finish
<1>1. /\ (pc \notin {"closed", "idle"} /\ goal # "init") = TRUE
      /\ (pc' \notin {"closed", "idle"} /\ goal' # "init") = FALSE
  OBVIOUS
<1> QED BY <1>1 DEF Service!Finish

(* A write whose status query failed has been executed all the same. *)
LEMMA QueryOfExecuted ==
  ASSUME HInv, goal = "query", request \in Legal
  PROVE  log # <<>> /\ log[1].ret = CONTROL_SUCCESS /\ request.op = "write"
BY Types DEF HInv, LogOfRequest, AskedRight

LEMMA FailsRefine ==
  ASSUME HInv, Fails, pc \in {"start", "sending", "taking"}
  PROVE  Service!Next \/ UNCHANGED <<HostBusy, request, log, result>>
<1>1. pc' = "idle" /\ UNCHANGED <<goal, request, log>>
  BY FailsFacts
<1>2. CASE goal = "init"
  BY <1>1, <1>2 DEF Fails, Returns, HostBusy
<1>3. CASE goal # "init"
  <2>1. ASSUME request \in Legal PROVE Service!Honest(result', request, log)
    <3>1. CASE goal = "query" /\ driver = "xcore"
      BY <2>1, <3>1, QueryOfExecuted, HostCodes DEF Service!Honest
    <3>2. CASE ~(goal = "query" /\ driver = "xcore")
      <4>1. result' = NoResult
        BY <1>3, <3>2 DEF Fails, Returns
      <4> QED BY <4>1, ResultTypes, HostCodes DEF Service!Honest
    <3> QED BY <3>1, <3>2
  <2> QED BY <1>1, <1>3, <2>1, HostFinishes DEF Service!Next
<1> QED BY <1>2, <1>3

(* What a read hands out is the reply of the one call it made. *)
LEMMA ReplyIsOfTheCall ==
  ASSUME HInv, pc = "taking", bus = "read", Len(got) = Wanted, goal = "read", request \in Legal
  PROVE  log # <<>> /\ log[1].ret = CONTROL_SUCCESS /\ got = log[1].payload
<1>1. log = calls /\ Len(calls) = 1 /\ calls[1].ret = CONTROL_SUCCESS
  BY DEF HInv, LogOfRequest, CallsOfTransfer
<1>2. Serves(log[1]) /\ log # <<>>
  <2>1. log # <<>>
    BY <1>1
  <2> QED BY <2>1 DEF HInv, LogOfRequest
<1>3. log[1] \in Call /\ log[1].payload \in Seq(Byte) /\ got \in Seq(Byte)
  <2>1. log \in Seq(Call) /\ 1 \in 1 .. Len(log)
    BY <1>1, Types
  <2>2. log[1] \in Call
    BY <2>1
  <2> QED BY <2>2, Types DEF Call
<1>4. Len(log[1].payload) = request.len /\ Wanted = request.len
  BY <1>2 DEF Serves, Wanted
<1>5. sent[1] # CONTROL_SPECIAL_RESID /\ Announced = Wanted /\ Wanted \in Nat
  <2>1. 1 \in 1 .. Len(calls) /\ calls[1].resid = request.resid
    BY <1>1, <1>2 DEF Serves
  <2>2. calls[1].resid = sent[1]
    BY <2>1 DEF HInv, IInv, DispatchedAsSent
  <2>3. request.op = "read" /\ request.resid # CONTROL_SPECIAL_RESID
    BY Types DEF AskedRight, Legal
  <2> QED BY <2>1, <2>2, <2>3, ReplyAwaits DEF Announced
<1>6. ASSUME NEW k \in 1 .. Len(got) PROVE got[k] = log[1].payload[k]
  <2>1. k <= Announced
    BY <1>5
  <2>2. \E m \in Successful("read") : got[k] = calls[m].payload[k]
    BY <1>5, <2>1 DEF HInv, IInv, ReadIntegrity
  <2>3. Successful("read") \subseteq {1}
    BY <1>1 DEF Successful
  <2> QED BY <1>1, <2>2, <2>3
<1>7. got = log[1].payload
  BY <1>3, <1>4, <1>6, SameElements
<1> QED BY <1>1, <1>2, <1>7

LEMMA AllTakenRefines == ASSUME HInv, AllTaken PROVE Service!Finish
<1>1. /\ pc = "taking" /\ bus = "read" /\ Len(got) = Wanted
      /\ pc' = "idle" /\ UNCHANGED <<goal, request, log>>
      /\ result' = IF goal = "query" THEN [ret |-> got[1], data |-> <<>>]
                                     ELSE [ret |-> CONTROL_SUCCESS, data |-> got]
  BY DEF AllTaken, Returns
<1>2. goal \in {"query", "read"}
  BY <1>1, Reply
<1>3. ASSUME request \in Legal PROVE Service!Honest(result', request, log)
  <2>1. CASE goal = "query"
    BY <1>3, <2>1, QueryOfExecuted, HostCodes DEF Service!Honest
  <2>2. CASE goal = "read"
    <3>1. log # <<>> /\ log[1].ret = CONTROL_SUCCESS /\ got = log[1].payload
      BY <1>1, <1>3, <2>2, ReplyIsOfTheCall
    <3> QED BY <1>1, <2>2, <3>1, HostCodes DEF Service!Honest
  <2> QED BY <1>2, <2>1, <2>2
<1> QED BY <1>1, <1>2, <1>3, HostFinishes

LEMMA SendsRefines ==
  ASSUME HInv, Sends PROVE Service!Next \/ UNCHANGED <<HostBusy, request, log, result>>
<1>1. /\ pc = "sending" /\ pc' = "sending" /\ todo # <<>> /\ MasterWrites(Head(todo)) /\ Logged
      /\ UNCHANGED <<goal, request, result>>
  BY DEF Sends
<1>2. HInv'
  BY SendsStep
<1>3. Head(todo) \in Byte /\ Progress
  BY <1>1, Types DEF HInv, Transfer
<1>4. calls' = calls \/ \E c \in Call : calls' = Append(calls, c)
  BY <1>1, <1>3, Types, NoTrap, WriteShape DEF NewWriteCall
<1> QED BY <1>1, <1>2, <1>4, HostExecutes DEF Service!Next

LEMMA TurnsRefines ==
  ASSUME HInv, Turns PROVE Service!Next \/ UNCHANGED <<HostBusy, request, log, result>>
<1>1. /\ pc = "sending" /\ pc' = "taking" /\ Logged /\ UNCHANGED <<goal, request, result>>
      /\ ReadStart \/ ReadStartFails \/ ReadStartRefused
  BY DEF Turns, AllSent
<1>2. HInv'
  BY TurnsStep
<1>3. calls' = calls \/ \E c \in Call : calls' = Append(calls, c)
  BY <1>1, Types, ReadStartShape
<1> QED BY <1>1, <1>2, <1>3, HostExecutes DEF Service!Next

LEMMA HostStepRefines ==
  ASSUME HInv, [HostNext]_hostVars
  PROVE  Service!Next \/ UNCHANGED <<HostBusy, request, log, result>>
<1>1. CASE control_init_i2c
  BY <1>1 DEF control_init_i2c, user, HostBusy
<1>2. CASE control_write_command \/ control_read_command
  BY <1>2, HostBegins DEF Service!Next
<1>3. CASE ReadRefused \/ NotAcknowledged \/ BusFails
  <2>1. Fails /\ pc \in {"start", "sending", "taking"}
    BY <1>3 DEF ReadRefused, NotAcknowledged, BusFails
  <2> QED BY <2>1, FailsRefine
<1>4. CASE Start
  BY <1>4 DEF Start, user, HostBusy
<1>5. CASE Sends
  BY <1>5, SendsRefines
<1>6. CASE WriteSent
  BY <1>6 DEF WriteSent, AllSent, user, HostBusy
<1>7. CASE Turns
  BY <1>7, TurnsRefines
<1>8. CASE Takes
  BY <1>8 DEF Takes, user, HostBusy
<1>9. CASE AllTaken
  BY <1>9, AllTakenRefines DEF Service!Next
<1>10. CASE UNCHANGED hostVars
  BY <1>10 DEF hostVars, user, HostBusy
<1> QED BY <1>1, <1>2, <1>3, <1>4, <1>5, <1>6, <1>7, <1>8, <1>9, <1>10 DEF HostNext

LEMMA HostInitRefines == ASSUME HostInit PROVE Service!Init
<1>1. request \in Request
  BY HInitially DEF HInv, HostTypeOK
<1>2. (pc \notin {"closed", "idle"} /\ goal # "init") = FALSE
  BY DEF HostInit
<1> QED BY <1>1, <1>2, HostCodes DEF HostInit, Service!Init

(* Over a bus that may fail at any byte, the hosts keep the promise of     *)
(* ControlService for the requests the documentation allows: the task is   *)
(* called once at most, as asked, and a success is the success of that     *)
(* call.                                                                   *)
THEOREM HostsServe == HostSpec => ImplementsControlService
<1>1. HostInit => Service!Init
  BY HostInitRefines
<1>2. HInv /\ [HostNext]_hostVars => [Service!Next]_(Service!vars)
  BY HostStepRefines DEF Service!vars, HostBusy
<1> QED
  BY <1>1, <1>2, HostInvariance, PTL DEF HostSpec, Service!Spec, ImplementsControlService
=============================================================================
