-------------------------- MODULE I2CDeviceProofs --------------------------
(***************************************************************************)
(* What holds of the I2C device for every table, every capacity and every  *)
(* master: its types and, from one inductive invariant, the properties of  *)
(* the calls, the acknowledgements, the bytes read and the stop bit.       *)
(*                                                                         *)
(* The invariant says how far the command in the struct i2c is the command *)
(* that was sent: which fields are those of this command, and which are    *)
(* left over from an earlier one, is known from the state alone.           *)
(***************************************************************************)
EXTENDS I2CDevice, ControlLemmas

plen == payload_len_from_header
ptx  == payload_len_transmitted

(* The states in which resid, cmd and the length are those of this command *)
(* and those in which a reply is ready to be read. *)
LengthTaken == {"WRITE_SIZE", "WRITE_DATA", "WRITE_OVERFLOW", "READ_START",
                "READ_DATA", "READ_OVERFLOW"}
CmdTaken    == LengthTaken \cup {"WRITE_CMD"}
ResidTaken  == CmdTaken \cup {"WRITE_RESID"}
InReply     == {"READ_START", "READ_DATA"}

(* How many bytes of the command there have been. *)
Place ==
  /\ state = "WRITE_START" => Len(sent) = 0
  /\ state = "WRITE_RESID" => Len(sent) = 1
  /\ state = "WRITE_CMD" => Len(sent) = 2
  /\ state = "WRITE_SIZE" => Len(sent) = 3 /\ ptx = 0
  /\ state = "WRITE_DATA" => Len(sent) = 3 + ptx /\ ptx >= 1
  /\ state = "WRITE_OVERFLOW" => Len(sent) > 3 + plen
  /\ state \in InReply \cup {"READ_OVERFLOW"} => Len(sent) = 3

(* The header in the struct is the header that was sent. *)
HeaderAsSent ==
  /\ state \in ResidTaken => resid = sent[1] /\ ifnum \in Search(resid)
  /\ state \in CmdTaken => cmd = sent[2]
  /\ state \in LengthTaken => plen = sent[3]

(* So is the data, and it stays below the length, unless that is zero. *)
DataAsSent ==
  /\ state \in {"WRITE_DATA", "WRITE_OVERFLOW"} => ~IS_CONTROL_CMD_READ(cmd)
  /\ state = "WRITE_DATA" =>
       /\ plen > 0 => ptx <= plen
       /\ \A k \in 1 .. ptx : payload[k - 1] = sent[3 + k]

(* What the state says about the bus. *)
BusState ==
  /\ bus = "write" => /\ state \in {"WRITE_START", "WRITE_RESID", "WRITE_CMD", "WRITE_SIZE",
                                    "WRITE_DATA", "WRITE_OVERFLOW", "ERROR", "TRAP"}
                      /\ got = <<>>
  /\ bus = "read" => state \in InReply \cup {"READ_OVERFLOW", "ERROR", "TRAP"}
  /\ bus = "write" /\ state = "ERROR" => nacked

(* The calls a command has not made yet, and that it is not refused yet. *)
Pending ==
  /\ state \in {"WRITE_START", "WRITE_RESID", "WRITE_CMD"} => calls = <<>> /\ ~nacked
  /\ state = "WRITE_SIZE" =>
       /\ plen > 0 => ~nacked
       /\ \A k \in 1 .. Len(calls) :
            \/ calls[k].op = "write" /\ k = 1 /\ plen = 0
            \/ calls[k].op = "read" /\ calls[k].ret # CONTROL_SUCCESS
  /\ state = "WRITE_DATA" =>
       /\ ptx < plen => calls = <<>> /\ ~nacked
       /\ \A k \in 1 .. Len(calls) : calls[k].op = "write" /\ k = 1

(* No call without a header, and no read call without the read bit. *)
CallsFollow ==
  /\ calls # <<>> => Len(sent) >= 3
  /\ \A k \in 1 .. Len(calls) :
       calls[k].op = "read" => IS_CONTROL_CMD_READ(calls[k].cmd)

(* The reply in the buffer, and how much of it has been read. *)
ReplyReady ==
  /\ state \in InReply =>
       /\ IS_CONTROL_CMD_READ(cmd)
       /\ IF resid = CONTROL_SPECIAL_RESID
          THEN plen = 1 /\ (cmd = CONTROL_GET_VERSION => payload[0] = CONTROL_VERSION)
          ELSE \E m \in Successful("read") :
                 \A k \in 1 .. plen : calls[m].payload[k] = payload[k - 1]
  /\ state = "READ_START" => got = <<>>
  /\ state = "READ_DATA" => Len(got) = ptx /\ ptx >= 1 /\ (plen > 0 => ptx <= plen)
  /\ state = "READ_OVERFLOW" => IS_CONTROL_CMD_READ(cmd) /\ Len(got) >= plen
  /\ state = "ERROR" /\ bus = "read" => Len(sent) >= 3 /\ Len(got) >= sent[3]
  /\ got # <<>> => Len(sent) >= 3

IInv ==
  /\ TypeOK
  /\ Place /\ HeaderAsSent /\ DataAsSent /\ BusState
  /\ Pending /\ CallsFollow /\ ReplyReady
  /\ DispatchedAsSent /\ KindFromReadBit /\ AtMostOnce
  /\ AckedWriteExecuted /\ NackedWriteNotExecuted
  /\ ReadIntegrity /\ StopDetectsTruncation /\ TrapsOnlyWithoutPayload

-----------------------------------------------------------------------------
LEMMA SearchFacts ==
  ASSUME NEW b \in Byte
  PROVE  /\ Search(b) \subseteq IfNum
         /\ b # CONTROL_SPECIAL_RESID => \A k \in Search(b) : k = resource_table[b]
BY ControlAssumption, I2CAssumption
   DEF Search, resource_table_search, IfNum, IFNUM_NONE

LEMMA PrefixFacts ==
  ASSUME NEW p \in [Index -> Byte], NEW len \in 0 .. I2C_DATA_MAX_BYTES
  PROVE  /\ Prefix(p, len) \in Seq(Byte)
         /\ Len(Prefix(p, len)) = len
         /\ \A k \in 1 .. len : Prefix(p, len)[k] = p[k - 1]
<1>1. \A k \in 1 .. len : k - 1 \in Index /\ p[k - 1] \in Byte
  BY I2CAssumption DEF Index
<1>2. len \in Nat
  BY I2CAssumption
<1>3. Prefix(p, len) \in [1 .. len -> Byte]
  BY <1>1 DEF Prefix
<1> QED BY <1>2, <1>3 DEF Prefix

LEMMA NextByteType == NextByte \subseteq Byte
BY I2CAssumption DEF NextByte

-----------------------------------------------------------------------------
LEMMA TypeInit == Init => TypeOK
<1> SUFFICES ASSUME Init PROVE TypeOK
  OBVIOUS
<1>1. 0 \in Byte /\ 0 \in IfNum /\ 0 \in 0 .. I2C_DATA_MAX_BYTES
  BY ControlAssumption, I2CAssumption DEF Byte, IfNum
<1>2. CONTROL_SUCCESS \in ControlRet
  BY DEF ControlRet, CONTROL_SUCCESS, CONTROL_ERROR
<1>3. state \in State /\ bus \in Bus
  BY DEF Init, State, Bus
<1>4. payload \in [Index -> Byte]
  BY <1>1 DEF Init
<1>5. sent \in Seq(Byte) /\ calls \in Seq(Call) /\ got \in Seq(Byte)
  BY DEF Init
<1> QED BY <1>1, <1>2, <1>3, <1>4, <1>5 DEF Init, TypeOK

(* The parts of the type invariant that a sent byte and a call disturb. *)
LEMMA SendType ==
  ASSUME TypeOK, NEW b \in Byte, NEW ret \in ControlRet, MasterSends(b, ret)
  PROVE  /\ sent' \in Seq(Byte) /\ last_status' \in ControlRet
         /\ nacked' \in BOOLEAN
         /\ UNCHANGED <<bus, got, verdict>>
BY AppendFacts DEF TypeOK, MasterSends

LEMMA WriteType ==
  ASSUME TypeOK, NEW ret \in ControlRet, NEW data \in Seq(Byte),
         write_command(resid, cmd, ifnum, data, ret)
  PROVE  calls' \in Seq(Call)
<1>1. WriteCall(ifnum, resid, cmd, data, ret) \in Call
  BY CallType DEF TypeOK
<1> QED BY <1>1, AppendFacts DEF TypeOK, write_command

LEMMA StoreType ==
  ASSUME TypeOK, NEW b \in Byte, NEW at \in Index, StoreByte(b, at)
  PROVE  TypeOK'
<1>1. payload' \in [Index -> Byte]
  BY DEF StoreByte, TypeOK
<1>2. payload_len_transmitted' = at + 1 /\ at + 1 \in 0 .. I2C_DATA_MAX_BYTES
  BY I2CAssumption DEF StoreByte, Index
<1>3. state' \in State /\ UNCHANGED header
  BY DEF StoreByte, State
<1>4. /\ calls' \in Seq(Call)
      /\ \E ret \in ControlRet : MasterSends(b, ret)
  <2>1. CASE at + 1 = payload_len_from_header
    <3>1. PICK ret \in ControlRet :
            /\ write_command(resid, cmd, ifnum, Prefix(payload', at + 1), ret)
            /\ MasterSends(b, ret)
      BY <2>1 DEF StoreByte
    <3>2. Prefix(payload', at + 1) \in Seq(Byte)
      BY <1>1, <1>2, PrefixFacts
    <3> QED BY <3>1, <3>2, WriteType
  <2>2. CASE at + 1 # payload_len_from_header
    BY <2>2, ByteFacts DEF StoreByte, NoCall, TypeOK, ControlRet, CONTROL_SUCCESS, CONTROL_ERROR
  <2> QED BY <2>1, <2>2
<1> QED BY <1>1, <1>2, <1>3, <1>4, SendType DEF TypeOK, header

LEMMA ReadType ==
  ASSUME TypeOK, NEW ret \in ControlRet, read_command(payload', ret)
  PROVE  payload' \in [Index -> Byte] /\ calls' \in Seq(Call)
<1>1. CASE resid = CONTROL_SPECIAL_RESID
  <2>1. special_read_byte(cmd, last_status) \in Byte
    BY ByteFacts DEF special_read_byte, TypeOK
  <2> QED BY <1>1, <2>1 DEF read_command, TypeOK
<1>2. CASE resid # CONTROL_SPECIAL_RESID
  <2>1. payload' \in [Index -> Byte]
    <3>1. CASE payload' = payload
      BY <3>1 DEF TypeOK
    <3>2. ASSUME NEW reply \in [0 .. (payload_len_from_header - 1) -> AppBytes],
                 payload' = [k \in Index |-> IF k < payload_len_from_header
                                             THEN reply[k] ELSE payload[k]]
          PROVE  payload' \in [Index -> Byte]
      <4>1. ASSUME NEW k \in Index, k < payload_len_from_header PROVE reply[k] \in Byte
        <5>1. k \in 0 .. (payload_len_from_header - 1)
          BY <4>1, I2CAssumption DEF Index, TypeOK
        <5> QED BY <5>1, I2CAssumption
      <4> QED BY <3>2, <4>1 DEF TypeOK
    <3> QED BY <1>2, <3>1, <3>2 DEF read_command
  <2>2. Prefix(payload', payload_len_from_header) \in Seq(Byte)
    BY <2>1, PrefixFacts DEF TypeOK
  <2>3. ReadCall(ifnum, resid, cmd, Prefix(payload', payload_len_from_header), ret) \in Call
    BY <2>2, CallType DEF TypeOK
  <2> QED BY <1>2, <2>1, <2>3, AppendFacts DEF read_command, TypeOK
<1> QED BY <1>1, <1>2

(* The bytes of the header, and those that change no more than the state. *)
LEMMA HeaderType ==
  ASSUME TypeOK, NEW b \in Byte,
         SendResid(b) \/ SendCmd(b) \/ SendLength(b) \/ SendRefused(b) \/ SendOverrun(b)
  PROVE  TypeOK'
<1>1. /\ CONTROL_SUCCESS \in ControlRet /\ CONTROL_BAD_COMMAND \in ControlRet
      /\ CONTROL_ERROR \in ControlRet /\ CONTROL_OTHER_TRANSPORT_ERROR \in ControlRet
      /\ CONTROL_DATA_LENGTH_ERROR \in ControlRet
  BY DEF ControlRet, CONTROL_SUCCESS, CONTROL_BAD_COMMAND, CONTROL_ERROR,
         CONTROL_OTHER_TRANSPORT_ERROR, CONTROL_DATA_LENGTH_ERROR
<1>2. CASE SendResid(b)
  <2>1. ifnum' \in IfNum
    BY <1>2, SearchFacts DEF SendResid
  <2> QED BY <1>1, <1>2, <2>1, SendType DEF SendResid, NoCall, TypeOK, State
<1>3. CASE SendCmd(b)
  BY <1>1, <1>3, SendType DEF SendCmd, NoCall, TypeOK, State
<1>4. CASE SendLength(b)
  <2>1. payload_len_from_header' \in 0 .. I2C_DATA_MAX_BYTES
        /\ payload_len_transmitted' \in 0 .. I2C_DATA_MAX_BYTES
    BY <1>4, ByteFacts, I2CAssumption DEF SendLength
  <2>2. /\ calls' \in Seq(Call)
        /\ \E ret \in ControlRet : MasterSends(b, ret)
    <3>1. CASE b = 0
      <4>1. PICK ret \in ControlRet :
              write_command(resid, cmd, ifnum, <<>>, ret) /\ MasterSends(b, ret)
        BY <1>4, <3>1 DEF SendLength
      <4>2. <<>> \in Seq(Byte)
        OBVIOUS
      <4> QED BY <4>1, <4>2, WriteType
    <3>2. CASE b # 0
      BY <1>1, <1>4, <3>2 DEF SendLength, NoCall, TypeOK
    <3> QED BY <3>1, <3>2
  <2> QED BY <1>4, <2>1, <2>2, SendType DEF SendLength, TypeOK, State
<1>5. CASE SendRefused(b)
  <2>1. PICK ret \in ControlRet : Refuse(b, ret)
    BY <1>1, <1>5 DEF SendRefused
  <2> QED BY <2>1, SendType DEF Refuse, NoCall, TypeOK, State, header
<1>6. CASE SendOverrun(b)
  <2>1. PICK ret \in ControlRet : MasterSends(b, ret)
    BY <1>1, <1>6 DEF SendOverrun
  <2> QED BY <1>6, <2>1, SendType DEF SendOverrun, NoCall, TypeOK, State, header
<1> QED BY <1>2, <1>3, <1>4, <1>5, <1>6

LEMMA WritesType == ASSUME TypeOK, NEW b \in Byte, MasterWrites(b) PROVE TypeOK'
<1>1. CASE SendFirstByte(b)
  <2>1. 0 \in Index
    BY I2CAssumption DEF Index
  <2> QED BY <1>1, <2>1, StoreType DEF SendFirstByte
<1>2. CASE SendByte(b)
  BY <1>2, StoreType DEF SendByte
<1>3. CASE SendByteTraps(b)
  BY <1>3 DEF SendByteTraps, TypeOK, State, header, history
<1> QED BY <1>1, <1>2, <1>3, HeaderType DEF MasterWrites

LEMMA ReadStartsType ==
  ASSUME TypeOK, ReadStartRefused \/ ReadStart \/ ReadStartFails PROVE TypeOK'
<1>1. CASE ReadStartRefused
  BY <1>1 DEF ReadStartRefused, TypeOK, State, Bus, header
<1>2. CASE ReadStart \/ ReadStartFails
  <2>1. \E ret \in ControlRet : read_command(payload', ret)
    BY <1>2 DEF ReadStart, ReadStartFails, ControlRet, CONTROL_SUCCESS, CONTROL_ERROR
  <2>2. payload' \in [Index -> Byte] /\ calls' \in Seq(Call)
    BY <2>1, ReadType
  <2>3. payload_len_transmitted' \in 0 .. I2C_DATA_MAX_BYTES
    BY <1>2, I2CAssumption DEF ReadStart, ReadStartFails, TypeOK
  <2>4. /\ state' \in State /\ bus' \in Bus /\ got' = <<>>
        /\ UNCHANGED <<header, last_status, sent, nacked, verdict>>
    BY <1>2 DEF ReadStart, ReadStartFails, Reading, TypeOK, State, Bus
  <2> QED BY <2>2, <2>3, <2>4, EmptySeq DEF TypeOK, header
<1> QED BY <1>1, <1>2

LEMMA ReadsType ==
  ASSUME TypeOK, ReadFirstByte \/ ReadByte \/ ReadByteTraps \/ ReadOverrun PROVE TypeOK'
<1>1. ASSUME NEW b \in Byte, MasterReads(b), state' \in State,
             payload_len_transmitted' \in 0 .. I2C_DATA_MAX_BYTES
      PROVE  TypeOK'
  BY <1>1, AppendFacts DEF MasterReads, TypeOK, header
<1>2. CASE ReadFirstByte
  <2>1. 0 \in Index /\ 1 \in 0 .. I2C_DATA_MAX_BYTES
    BY I2CAssumption DEF Index
  <2> QED BY <1>1, <1>2, <2>1 DEF ReadFirstByte, TypeOK, State
<1>3. CASE ReadByte
  <2>1. payload_len_transmitted + 1 \in 0 .. I2C_DATA_MAX_BYTES
    BY <1>3, I2CAssumption DEF ReadByte, Index
  <2> QED BY <1>1, <1>3, <2>1 DEF ReadByte, TypeOK, State
<1>4. CASE ReadByteTraps
  BY <1>4 DEF ReadByteTraps, TypeOK, State, header, history
<1>5. CASE ReadOverrun
  <2>1. PICK b \in Byte : MasterReads(b)
    BY <1>5, I2CAssumption DEF ReadOverrun
  <2> QED BY <1>1, <1>5, <2>1 DEF ReadOverrun, TypeOK, State
<1> QED BY <1>2, <1>3, <1>4, <1>5

LEMMA TypeStep == ASSUME TypeOK, [Next]_vars PROVE TypeOK'
<1>1. CASE WriteStart
  BY <1>1, EmptySeq DEF WriteStart, TypeOK, State, Bus, header
<1>2. CASE Stop
  <2>1. stop_ret \in ControlRet
    BY DEF stop_ret, ControlRet, CONTROL_SUCCESS, CONTROL_DATA_LENGTH_ERROR,
           CONTROL_OTHER_TRANSPORT_ERROR, CONTROL_ERROR
  <2> QED BY <1>2, <2>1 DEF Stop, TypeOK, State, Bus, header
<1>3. CASE UNCHANGED vars
  BY <1>3 DEF vars, i2c, header, history, TypeOK
<1>4. ASSUME NEW b \in NextByte, MasterWrites(b) PROVE TypeOK'
  BY <1>4, NextByteType, WritesType
<1> QED BY <1>1, <1>2, <1>3, <1>4, ReadStartsType, ReadsType DEF Next

(* Type correctness of the device. *)
THEOREM Typing == Spec => []TypeOK
BY TypeInit, TypeStep, PTL DEF Spec

-----------------------------------------------------------------------------
CallsRight == DispatchedAsSent /\ KindFromReadBit /\ AtMostOnce /\ CallsFollow
AcksRight  == AckedWriteExecuted /\ NackedWriteNotExecuted
ReadsRight == ReadIntegrity /\ StopDetectsTruncation

LEMMA NoCallsRight ==
  ASSUME calls = <<>>
  PROVE  /\ CallsRight
         /\ \A op : Successful(op) = {}
<1>1. Len(calls) = 0
  OBVIOUS
<1>2. 1 .. Len(calls) = {}
  BY <1>1
<1> QED
  BY <1>2 DEF CallsRight, DispatchedAsSent, KindFromReadBit, AtMostOnce, CallsFollow,
              Successful, Writes

LEMMA SentFacts ==
  ASSUME TypeOK, NEW b \in Byte, sent' = Append(sent, b)
  PROVE  /\ Len(sent') = Len(sent) + 1 /\ Len(sent) \in Nat /\ sent' \in Seq(Byte)
         /\ \A k \in 1 .. Len(sent) : sent'[k] = sent[k]
         /\ sent'[Len(sent) + 1] = b
BY AppendFacts DEF TypeOK

(* A byte without a call: what is said of the calls stays true. *)
LEMMA SentGrows ==
  ASSUME TypeOK, CallsRight, NEW b \in Byte, sent' = Append(sent, b), UNCHANGED calls
  PROVE  CallsRight'
<1>1. CASE calls = <<>>
  <2>1. 1 .. Len(calls') = {} /\ calls' = <<>>
    BY <1>1
  <2> QED
    BY <2>1 DEF CallsRight, DispatchedAsSent, KindFromReadBit, AtMostOnce, CallsFollow,
                Successful, Writes
<1>2. CASE calls # <<>>
  <2>1. /\ Len(sent) >= 3 /\ Len(sent') = Len(sent) + 1 /\ Len(sent) \in Nat
        /\ \A k \in 1 .. Len(sent) : sent'[k] = sent[k]
        /\ sent' \in Seq(Byte)
    BY <1>2, AppendFacts DEF CallsRight, CallsFollow, TypeOK
  <2>2. sent'[1] = sent[1] /\ sent'[2] = sent[2] /\ sent'[3] = sent[3]
        /\ sent[3] \in Nat
    <3>1. 1 \in 1 .. Len(sent) /\ 2 \in 1 .. Len(sent) /\ 3 \in 1 .. Len(sent)
      BY <2>1
    <3>2. sent \in Seq(Byte)
      BY DEF TypeOK
    <3>3. sent[3] \in Byte
      BY <3>1, <3>2
    <3> QED BY <2>1, <3>1, <3>3, ByteFacts
  <2>3. DispatchedAsSent'
    <3> SUFFICES ASSUME NEW k \in 1 .. Len(calls)
                 PROVE  /\ (WriteComplete \/ calls[k].op = "read")'
                        /\ calls[k].resid = sent'[1]
                        /\ calls[k].cmd = sent'[2]
                        /\ calls[k].ifnum = resource_table[sent'[1]]
                        /\ Len(calls[k].payload) = sent'[3]
                        /\ calls[k].op = "write" =>
                             calls[k].payload = SubSeq(sent', 4, 3 + sent'[3])
      BY DEF DispatchedAsSent, Announced
    <3>1. /\ WriteComplete \/ calls[k].op = "read"
          /\ calls[k].resid = sent[1]
          /\ calls[k].cmd = sent[2]
          /\ calls[k].ifnum = resource_table[sent[1]]
          /\ Len(calls[k].payload) = sent[3]
          /\ calls[k].op = "write" => calls[k].payload = SubSeq(sent, 4, 3 + sent[3])
      BY DEF CallsRight, DispatchedAsSent, Announced
    <3>2. WriteComplete => WriteComplete'
      BY <2>1, <2>2 DEF WriteComplete, HeaderSent, Announced
    <3>3. ASSUME WriteComplete
          PROVE  SubSeq(sent', 4, 3 + sent[3]) = SubSeq(sent, 4, 3 + sent[3])
      <4>1. 3 + sent[3] <= Len(sent)
        BY <3>3 DEF WriteComplete, Announced
      <4>2. /\ SubSeq(sent, 4, 3 + sent[3]) \in Seq(Byte)
            /\ Len(SubSeq(sent, 4, 3 + sent[3])) = sent[3]
            /\ \A m \in 1 .. sent[3] : SubSeq(sent, 4, 3 + sent[3])[m] = sent[3 + m]
        BY <4>1, <2>2, SubSeqFacts DEF TypeOK
      <4>3. /\ SubSeq(sent', 4, 3 + sent[3]) \in Seq(Byte)
            /\ Len(SubSeq(sent', 4, 3 + sent[3])) = sent[3]
            /\ \A m \in 1 .. sent[3] : SubSeq(sent', 4, 3 + sent[3])[m] = sent'[3 + m]
        <5>1. 3 + sent[3] <= Len(sent')
          BY <4>1, <2>1, <2>2
        <5> QED BY <5>1, <2>1, <2>2, SubSeqFacts
      <4>4. \A m \in 1 .. sent[3] : sent'[3 + m] = sent[3 + m]
        BY <4>1, <2>1, <2>2
      <4>5. \A m \in 1 .. Len(SubSeq(sent', 4, 3 + sent[3])) :
              SubSeq(sent', 4, 3 + sent[3])[m] = SubSeq(sent, 4, 3 + sent[3])[m]
        BY <4>2, <4>3, <4>4
      <4> QED BY <4>2, <4>3, <4>5, SameElements
    <3> QED BY <3>1, <3>2, <3>3, <2>2
  <2>4. KindFromReadBit'
    BY <2>2 DEF CallsRight, KindFromReadBit, Announced
  <2>5. AtMostOnce' /\ CallsFollow'
    BY <2>1 DEF CallsRight, AtMostOnce, CallsFollow, Writes, Successful
  <2> QED BY <2>3, <2>4, <2>5 DEF CallsRight
<1> QED BY <1>1, <1>2

(* What is said of the acknowledgements stays true as well, if the last    *)
(* byte of a command is not acknowledged without a call and a refusal      *)
(* never follows a success.                                                *)
LEMMA QuietSend ==
  ASSUME TypeOK, CallsRight, AcksRight, NEW b \in Byte, NEW ret \in ControlRet,
         MasterSends(b, ret), UNCHANGED calls,
         Len(sent) >= 2 /\ Len(sent) = 2 + Append(sent, b)[3] => ret # CONTROL_SUCCESS,
         Successful("write") = {} \/ nacked \/ Overlong'
  PROVE  CallsRight' /\ AcksRight'
<1>1. /\ sent' = Append(sent, b)
      /\ nacked' = (nacked \/ ret # CONTROL_SUCCESS)
      /\ calls' = calls
  BY DEF MasterSends
<1>2. CallsRight'
  BY <1>1, SentGrows
<1>3. /\ Len(sent') = Len(sent) + 1 /\ Len(sent) \in Nat
      /\ \A k \in 1 .. Len(sent) : sent'[k] = sent[k]
      /\ \A k \in 1 .. Len(sent') : sent'[k] \in Nat
  <2>1. /\ Len(sent') = Len(sent) + 1 /\ Len(sent) \in Nat /\ sent' \in Seq(Byte)
        /\ \A k \in 1 .. Len(sent) : sent'[k] = sent[k]
    BY <1>1, SentFacts
  <2>2. \A k \in 1 .. Len(sent') : sent'[k] \in Byte
    BY <2>1
  <2> QED BY <2>1, <2>2, ByteFacts
<1>4. Successful("write")' = Successful("write")
  BY <1>1 DEF Successful
<1>5. AckedWriteExecuted'
  <2> SUFFICES ASSUME WriteComplete', ~Overlong', ~nacked' PROVE FALSE
    BY DEF AckedWriteExecuted
  <2>1. Len(sent') >= 3 /\ Len(sent') = 3 + sent'[3]
    BY <1>3 DEF WriteComplete, Overlong, HeaderSent, Announced
  <2>2. ret = CONTROL_SUCCESS
    BY <1>1
  <2>3. Len(sent) >= 2 /\ Len(sent) = 2 + sent'[3]
    BY <2>1, <1>3
  <2>4. sent'[3] = Append(sent, b)[3]
    BY <1>1
  <2> QED BY <2>2, <2>3, <2>4
<1>6. NackedWriteNotExecuted'
  <2> SUFFICES ASSUME nacked, ~Overlong' PROVE Successful("write") = {}
    BY <1>4 DEF NackedWriteNotExecuted
  <2>1. ~Overlong
    BY <1>3 DEF Overlong, HeaderSent, Announced
  <2> QED BY <2>1 DEF AcksRight, NackedWriteNotExecuted
<1> QED BY <1>2, <1>5, <1>6 DEF AcksRight

(* A byte that completes a write command and dispatches it. *)
LEMMA Dispatch ==
  ASSUME TypeOK, NEW b \in Byte, NEW ret \in ControlRet, NEW data \in Seq(Byte),
         calls = <<>>, ~nacked,
         MasterSends(b, ret), write_command(resid, cmd, ifnum, data, ret),
         Len(sent) >= 2, Len(sent) = 2 + sent'[3],
         resid = sent[1], cmd = sent[2], ifnum \in Search(resid),
         sent'[3] > 0 => ~IS_CONTROL_CMD_READ(cmd),
         Len(data) = sent'[3], \A k \in 1 .. sent'[3] : data[k] = sent'[3 + k]
  PROVE  /\ CallsRight' /\ AcksRight'
         /\ \A k \in 1 .. Len(calls') : calls'[k].op = "write" /\ k = 1
<1>1. /\ sent' = Append(sent, b)
      /\ nacked' <=> ret # CONTROL_SUCCESS
  BY DEF MasterSends
<1>2. /\ Len(sent') = Len(sent) + 1 /\ Len(sent) \in Nat /\ sent' \in Seq(Byte)
      /\ sent'[1] = sent[1] /\ sent'[2] = sent[2] /\ sent'[3] \in Nat
  <2>1. /\ Len(sent') = Len(sent) + 1 /\ Len(sent) \in Nat /\ sent' \in Seq(Byte)
        /\ \A k \in 1 .. Len(sent) : sent'[k] = sent[k]
    BY <1>1, SentFacts
  <2>2. 1 \in 1 .. Len(sent) /\ 2 \in 1 .. Len(sent) /\ 3 \in 1 .. Len(sent')
    BY <2>1
  <2>3. sent'[3] \in Byte
    BY <2>1, <2>2
  <2> QED BY <2>1, <2>2, <2>3, ByteFacts
<1>3. CASE resid = CONTROL_SPECIAL_RESID
  <2>1. calls' = <<>> /\ ret = CONTROL_BAD_COMMAND
    BY <1>3 DEF write_command
  <2>2. 1 .. Len(calls') = {} /\ nacked'
    <3>1. 1 .. Len(calls') = {}
      BY <2>1
    <3>2. nacked'
      BY <2>1, <1>1 DEF CONTROL_BAD_COMMAND, CONTROL_SUCCESS
    <3> QED BY <3>1, <3>2
  <2>3. CallsRight'
    BY <2>1, <2>2 DEF CallsRight, DispatchedAsSent, KindFromReadBit, AtMostOnce, CallsFollow,
                      Successful, Writes
  <2>4. AcksRight'
    BY <2>1, <2>2 DEF AcksRight, AckedWriteExecuted, NackedWriteNotExecuted, Successful
  <2> QED BY <2>2, <2>3, <2>4
<1>4. CASE resid # CONTROL_SPECIAL_RESID
  <2> DEFINE c == WriteCall(ifnum, resid, cmd, data, ret)
  <2>1. calls' = <<c>>
    BY <1>4 DEF write_command
  <2>2. Len(calls') = 1 /\ calls'[1] = c /\ 1 .. Len(calls') = {1}
    BY <2>1
  <2>3. /\ c.op = "write" /\ c.resid = sent'[1] /\ c.cmd = sent'[2] /\ c.payload = data
        /\ c.ret = ret /\ c.ifnum = ifnum
    BY <1>2 DEF WriteCall
  <2>4. ifnum = resource_table[sent'[1]]
    BY <1>2, <1>4, SearchFacts DEF TypeOK
  <2>5. data = SubSeq(sent', 4, 3 + sent'[3])
    <3>1. /\ SubSeq(sent', 4, 3 + sent'[3]) \in Seq(Byte)
          /\ Len(SubSeq(sent', 4, 3 + sent'[3])) = sent'[3]
          /\ \A k \in 1 .. sent'[3] : SubSeq(sent', 4, 3 + sent'[3])[k] = sent'[3 + k]
      <4>1. 3 + sent'[3] <= Len(sent')
        BY <1>2
      <4> QED BY <4>1, <1>2, SubSeqFacts
    <3>2. Len(data) = Len(SubSeq(sent', 4, 3 + sent'[3]))
          /\ \A k \in 1 .. Len(data) : data[k] = SubSeq(sent', 4, 3 + sent'[3])[k]
      BY <3>1
    <3> QED BY <3>1, <3>2, SameElements
  <2>6. WriteComplete' /\ ~Overlong'
    BY <1>2 DEF WriteComplete, Overlong, HeaderSent, Announced
  <2> HIDE DEF c
  <2>7. DispatchedAsSent'
    BY <2>2, <2>3, <2>4, <2>5, <2>6 DEF DispatchedAsSent, Announced
  <2>8. KindFromReadBit'
    BY <2>2, <2>3, <1>2 DEF KindFromReadBit, Announced
  <2>9. AtMostOnce' /\ CallsFollow'
    BY <2>2, <2>3, <1>2 DEF AtMostOnce, CallsFollow, Writes, Successful
  <2>10. AcksRight'
    <3>1. Successful("write")' = IF ret = CONTROL_SUCCESS THEN {1} ELSE {}
      BY <2>2, <2>3 DEF Successful
    <3> QED BY <3>1, <1>1, <2>6 DEF AcksRight, AckedWriteExecuted, NackedWriteNotExecuted
  <2> QED BY <2>2, <2>3, <2>7, <2>8, <2>9, <2>10 DEF CallsRight
<1> QED BY <1>3, <1>4

(* What a sent byte leaves alone, whatever else it does. *)
LEMMA SendRest ==
  ASSUME IInv, NEW b \in Byte, NEW ret \in ControlRet, MasterSends(b, ret),
         state' \in {"WRITE_RESID", "WRITE_CMD", "WRITE_SIZE", "WRITE_DATA",
                     "WRITE_OVERFLOW", "ERROR"},
         state' = "ERROR" => ret # CONTROL_SUCCESS
  PROVE  BusState' /\ ReplyReady' /\ ReadsRight' /\ TrapsOnlyWithoutPayload'
<1>1. /\ bus = "write" /\ bus' = "write" /\ got = <<>> /\ got' = <<>>
      /\ nacked' = (nacked \/ ret # CONTROL_SUCCESS)
  BY DEF MasterSends, IInv, BusState
<1>2. BusState'
  BY <1>1 DEF BusState
<1>3. ReplyReady'
  BY <1>1 DEF ReplyReady, InReply
<1>4. ReadsRight'
  <2>1. 1 .. Len(got') = {}
    BY <1>1
  <2> QED BY <1>1, <2>1 DEF ReadsRight, ReadIntegrity, StopDetectsTruncation
<1>5. TrapsOnlyWithoutPayload'
  BY DEF TrapsOnlyWithoutPayload
<1> QED BY <1>2, <1>3, <1>4, <1>5

LinkRight == Place /\ HeaderAsSent /\ DataAsSent /\ Pending

LEMMA Parts ==
  IInv <=> /\ TypeOK /\ LinkRight /\ BusState /\ ReplyReady
           /\ CallsRight /\ AcksRight /\ ReadsRight /\ TrapsOnlyWithoutPayload
BY DEF IInv, LinkRight, CallsRight, AcksRight, ReadsRight

(* The same of the next state. *)
LEMMA PartsNext ==
  ASSUME TypeOK', LinkRight', BusState', ReplyReady',
         CallsRight', AcksRight', ReadsRight', TrapsOnlyWithoutPayload'
  PROVE  IInv'
BY DEF IInv, LinkRight, CallsRight, AcksRight, ReadsRight

-----------------------------------------------------------------------------
(* One step per action: first the bytes of the header. *)
LEMMA SendResidStep == ASSUME IInv, NEW b \in Byte, SendResid(b) PROVE IInv'
<1>1. TypeOK'
  BY HeaderType, Parts
<1>2. /\ state = "WRITE_START" /\ state' = "WRITE_RESID" /\ resid' = b
      /\ ifnum' \in Search(b) /\ MasterSends(b, CONTROL_SUCCESS) /\ UNCHANGED calls
  BY DEF SendResid, NoCall
<1>3. Len(sent) = 0 /\ calls = <<>> /\ ~nacked
  BY <1>2 DEF IInv, Place, Pending
<1>4. sent' = Append(sent, b) /\ ~nacked'
  BY <1>2, <1>3 DEF MasterSends
<1>5. Len(sent') = 1 /\ sent'[1] = b
  BY <1>3, <1>4, SentFacts, Parts
<1>6. CallsRight' /\ AcksRight'
  BY <1>2, <1>3, QuietSend, NoCallsRight, RetFacts, Parts
<1>7. LinkRight'
  BY <1>2, <1>3, <1>4, <1>5
     DEF LinkRight, Place, HeaderAsSent, DataAsSent, Pending, ResidTaken, CmdTaken,
         LengthTaken, InReply
<1>8. BusState' /\ ReplyReady' /\ ReadsRight' /\ TrapsOnlyWithoutPayload'
  BY <1>2, SendRest, RetFacts
<1> QED BY <1>1, <1>6, <1>7, <1>8, PartsNext

LEMMA SendCmdStep == ASSUME IInv, NEW b \in Byte, SendCmd(b) PROVE IInv'
<1>1. TypeOK'
  BY HeaderType, Parts
<1>2. /\ state = "WRITE_RESID" /\ state' = "WRITE_CMD" /\ cmd' = b
      /\ MasterSends(b, CONTROL_SUCCESS) /\ UNCHANGED <<resid, ifnum, calls>>
  BY DEF SendCmd, NoCall
<1>3. /\ Len(sent) = 1 /\ calls = <<>> /\ ~nacked
      /\ resid = sent[1] /\ ifnum \in Search(resid)
  BY <1>2 DEF IInv, Place, Pending, HeaderAsSent, ResidTaken
<1>4. sent' = Append(sent, b) /\ ~nacked'
  BY <1>2, <1>3 DEF MasterSends
<1>5. Len(sent') = 2 /\ sent'[1] = sent[1] /\ sent'[2] = b
  BY <1>3, <1>4, SentFacts, Parts
<1>6. CallsRight' /\ AcksRight'
  BY <1>2, <1>3, QuietSend, NoCallsRight, RetFacts, Parts
<1>7. LinkRight'
  BY <1>2, <1>3, <1>4, <1>5
     DEF LinkRight, Place, HeaderAsSent, DataAsSent, Pending, ResidTaken, CmdTaken,
         LengthTaken, InReply
<1>8. BusState' /\ ReplyReady' /\ ReadsRight' /\ TrapsOnlyWithoutPayload'
  BY <1>2, SendRest, RetFacts
<1> QED BY <1>1, <1>6, <1>7, <1>8, PartsNext

LEMMA SendLengthStep == ASSUME IInv, NEW b \in Byte, SendLength(b) PROVE IInv'
<1>1. TypeOK'
  BY HeaderType, Parts
<1>2. /\ state = "WRITE_CMD" /\ state' = "WRITE_SIZE" /\ plen' = b /\ ptx' = 0
      /\ UNCHANGED <<resid, cmd, ifnum>>
  BY DEF SendLength, plen, ptx
<1>3. /\ Len(sent) = 2 /\ calls = <<>> /\ ~nacked
      /\ resid = sent[1] /\ ifnum \in Search(resid) /\ cmd = sent[2]
  BY <1>2 DEF IInv, Place, Pending, HeaderAsSent, ResidTaken, CmdTaken
<1>4. PICK ret \in ControlRet : MasterSends(b, ret)
  BY RetFacts DEF SendLength
<1>5. sent' = Append(sent, b)
  BY <1>4 DEF MasterSends
<1>6. Len(sent') = 3 /\ sent'[1] = sent[1] /\ sent'[2] = sent[2] /\ sent'[3] = b
  BY <1>3, <1>5, SentFacts, Parts
<1>7. Place' /\ HeaderAsSent' /\ DataAsSent'
  BY <1>2, <1>3, <1>6
     DEF Place, HeaderAsSent, DataAsSent, ResidTaken, CmdTaken, LengthTaken, InReply
<1>8. Pending' /\ CallsRight' /\ AcksRight'
  <2>1. CASE b = 0
    <3>1. PICK r \in ControlRet :
            write_command(resid, cmd, ifnum, <<>>, r) /\ MasterSends(b, r)
      BY <2>1 DEF SendLength
    <3>2. /\ <<>> \in Seq(Byte) /\ Len(<<>>) = sent'[3]
          /\ \A k \in 1 .. sent'[3] : <<>>[k] = sent'[3 + k]
      BY <2>1, <1>6, EmptySeq
    <3>3. /\ CallsRight' /\ AcksRight'
          /\ \A k \in 1 .. Len(calls') : calls'[k].op = "write" /\ k = 1
      <4>1. /\ Len(sent) >= 2 /\ Len(sent) = 2 + sent'[3]
            /\ sent'[3] > 0 => ~IS_CONTROL_CMD_READ(cmd)
        BY <2>1, <1>3, <1>6
      <4>2. TypeOK
        BY Parts
      <4> QED BY <4>1, <4>2, <3>1, <3>2, <1>3, Dispatch
    <3>4. Pending'
      BY <3>3, <2>1, <1>2 DEF Pending
    <3> QED BY <3>3, <3>4
  <2>2. CASE b # 0
    <3>1. MasterSends(b, CONTROL_SUCCESS) /\ UNCHANGED calls
      BY <2>2 DEF SendLength, NoCall
    <3>2. ~(Len(sent) = 2 + Append(sent, b)[3])
      BY <2>2, <1>3, <1>5, <1>6, ByteFacts
    <3>3. CallsRight' /\ AcksRight'
      BY <3>1, <3>2, <1>3, QuietSend, NoCallsRight, RetFacts, Parts
    <3>4. ~nacked'
      BY <3>1, <1>3 DEF MasterSends
    <3>5. 1 .. Len(calls') = {}
      BY <3>1, <1>3
    <3>6. Pending'
      BY <3>4, <3>5, <1>2 DEF Pending
    <3> QED BY <3>3, <3>6
  <2> QED BY <2>1, <2>2
<1>9. BusState' /\ ReplyReady' /\ ReadsRight' /\ TrapsOnlyWithoutPayload'
  BY <1>2, <1>4, SendRest
<1> QED BY <1>1, <1>7, <1>8, <1>9, PartsNext DEF LinkRight

-----------------------------------------------------------------------------
(* Then the bytes of the data. *)
LEMMA StoreStep ==
  ASSUME IInv, NEW b \in Byte, NEW at \in Index, StoreByte(b, at),
         state \in {"WRITE_SIZE", "WRITE_DATA"}, ~IS_CONTROL_CMD_READ(cmd),
         Len(sent) = 3 + at,
         plen > 0 => at < plen,
         at < plen => calls = <<>> /\ ~nacked,
         \A k \in 1 .. Len(calls) : calls[k].op = "write" /\ k = 1,
         \A k \in 1 .. at : payload[k - 1] = sent[3 + k]
  PROVE  IInv'
<1>1. TypeOK' /\ TypeOK
  BY StoreType, Parts
<1>2. /\ state' = "WRITE_DATA" /\ ptx' = at + 1 /\ UNCHANGED <<resid, cmd, ifnum, plen>>
      /\ payload' = [payload EXCEPT ![at] = b]
  BY DEF StoreByte, header, plen, ptx
<1>3. resid = sent[1] /\ ifnum \in Search(resid) /\ cmd = sent[2] /\ plen = sent[3]
  BY DEF IInv, HeaderAsSent, ResidTaken, CmdTaken, LengthTaken
<1>4. at \in Nat /\ plen \in Nat /\ payload \in [Index -> Byte]
  BY <1>1, I2CAssumption DEF Index, TypeOK, plen
<1>5. PICK ret \in ControlRet : MasterSends(b, ret)
  BY RetFacts DEF StoreByte
<1>6. sent' = Append(sent, b)
  BY <1>5 DEF MasterSends
<1>7. /\ Len(sent') = 4 + at /\ sent'[1] = sent[1] /\ sent'[2] = sent[2] /\ sent'[3] = sent[3]
      /\ \A k \in 1 .. at : sent'[3 + k] = sent[3 + k]
      /\ sent'[4 + at] = b
  BY <1>1, <1>4, <1>6, SentFacts
<1>8. \A k \in 1 .. (at + 1) : payload'[k - 1] = sent'[3 + k]
  <2> SUFFICES ASSUME NEW k \in 1 .. (at + 1) PROVE payload'[k - 1] = sent'[3 + k]
    OBVIOUS
  <2>1. k - 1 \in Index
    BY <1>4, I2CAssumption DEF Index
  <2>2. CASE k = at + 1
    BY <2>1, <2>2, <1>2, <1>4, <1>7
  <2>3. CASE k # at + 1
    <3>1. k \in 1 .. at /\ k - 1 # at
      BY <2>3, <1>4
    <3> QED BY <3>1, <2>1, <1>2, <1>4, <1>7
  <2> QED BY <2>2, <2>3
<1>9. Place' /\ HeaderAsSent' /\ DataAsSent'
  <2>1. Place'
    BY <1>2, <1>4, <1>7 DEF Place, InReply
  <2>2. HeaderAsSent'
    BY <1>2, <1>3, <1>7 DEF HeaderAsSent, ResidTaken, CmdTaken, LengthTaken
  <2>3. DataAsSent'
    BY <1>2, <1>4, <1>8 DEF DataAsSent
  <2> QED BY <2>1, <2>2, <2>3
<1>10. Pending' /\ CallsRight' /\ AcksRight'
  <2>1. CASE at + 1 = plen
    <3>1. PICK r \in ControlRet :
            /\ write_command(resid, cmd, ifnum, Prefix(payload', at + 1), r)
            /\ MasterSends(b, r)
      BY <2>1 DEF StoreByte, plen
    <3>2. /\ Prefix(payload', at + 1) \in Seq(Byte)
          /\ Len(Prefix(payload', at + 1)) = sent'[3]
          /\ \A k \in 1 .. sent'[3] : Prefix(payload', at + 1)[k] = sent'[3 + k]
      <4>1. payload' \in [Index -> Byte] /\ at + 1 \in 0 .. I2C_DATA_MAX_BYTES
        BY <1>1, <2>1, <1>4 DEF TypeOK, plen
      <4>2. sent'[3] = at + 1
        BY <1>3, <1>7, <2>1
      <4>3. /\ Prefix(payload', at + 1) \in Seq(Byte)
            /\ Len(Prefix(payload', at + 1)) = at + 1
            /\ \A k \in 1 .. (at + 1) : Prefix(payload', at + 1)[k] = payload'[k - 1]
        BY <4>1, PrefixFacts
      <4> QED BY <4>2, <4>3, <1>8
    <3>3. /\ CallsRight' /\ AcksRight'
          /\ \A k \in 1 .. Len(calls') : calls'[k].op = "write" /\ k = 1
      <4>1. calls = <<>> /\ ~nacked /\ Len(sent) >= 2 /\ Len(sent) = 2 + sent'[3]
        BY <2>1, <1>3, <1>4, <1>7
      <4> QED BY <4>1, <3>1, <3>2, <1>1, <1>3, Dispatch
    <3>4. Pending'
      BY <3>3, <2>1, <1>2, <1>4 DEF Pending
    <3> QED BY <3>3, <3>4
  <2>2. CASE at + 1 # plen
    <3>1. MasterSends(b, CONTROL_SUCCESS) /\ UNCHANGED calls
      BY <2>2 DEF StoreByte, NoCall, plen
    <3>2. ~(Len(sent) = 2 + Append(sent, b)[3])
      BY <2>2, <1>3, <1>4, <1>6, <1>7
    <3>3. Successful("write") = {} \/ Overlong'
      <4>1. CASE plen > 0
        BY <4>1, NoCallsRight
      <4>2. CASE plen = 0
        BY <4>2, <1>3, <1>4, <1>7 DEF Overlong, HeaderSent, Announced
      <4> QED BY <4>1, <4>2, <1>4
    <3>4. CallsRight' /\ AcksRight'
      <4>1. CallsRight /\ AcksRight
        BY Parts
      <4> QED BY <4>1, <3>1, <3>2, <3>3, <1>1, QuietSend, RetFacts
    <3>5. at + 1 < plen => calls' = <<>> /\ ~nacked'
      <4> SUFFICES ASSUME at + 1 < plen PROVE calls' = <<>> /\ ~nacked'
        OBVIOUS
      <4>1. at < plen
        BY <1>4
      <4>2. calls = <<>> /\ ~nacked
        BY <4>1
      <4> QED BY <4>2, <3>1 DEF MasterSends
    <3>6. Pending'
      BY <3>1, <3>5, <1>2 DEF Pending
    <3> QED BY <3>4, <3>6
  <2> QED BY <2>1, <2>2
<1>11. BusState' /\ ReplyReady' /\ ReadsRight' /\ TrapsOnlyWithoutPayload'
  BY <1>2, <1>5, SendRest
<1> QED BY <1>1, <1>9, <1>10, <1>11, PartsNext DEF LinkRight

LEMMA SendFirstByteStep == ASSUME IInv, NEW b \in Byte, SendFirstByte(b) PROVE IInv'
<1>1. state = "WRITE_SIZE" /\ ~IS_CONTROL_CMD_READ(cmd) /\ StoreByte(b, 0)
  BY DEF SendFirstByte
<1>2. 0 \in Index /\ plen \in Nat /\ 1 .. 0 = {}
  BY I2CAssumption DEF Index, IInv, TypeOK, plen
<1>3. Len(sent) = 3 /\ (plen > 0 => ~nacked)
  BY <1>1 DEF IInv, Place, Pending
<1>4. ASSUME NEW k \in 1 .. Len(calls)
      PROVE  calls[k].op = "write" /\ k = 1 /\ plen = 0
  <2>1. CallsFollow /\ DispatchedAsSent /\ cmd = sent[2]
    BY <1>1 DEF IInv, HeaderAsSent, CmdTaken, LengthTaken
  <2>2. ~(calls[k].op = "read")
    BY <2>1, <1>1 DEF CallsFollow, DispatchedAsSent
  <2> QED BY <2>2, <1>1 DEF IInv, Pending
<1>5. plen > 0 => calls = <<>>
  <2>1. calls \in Seq(Call)
    BY DEF IInv, TypeOK
  <2>2. calls # <<>> => 1 \in 1 .. Len(calls)
    BY <2>1
  <2> QED BY <2>2, <1>4
<1> QED BY <1>1, <1>2, <1>3, <1>4, <1>5, StoreStep

LEMMA SendByteStep == ASSUME IInv, NEW b \in Byte, SendByte(b) PROVE IInv'
<1>1. /\ state = "WRITE_DATA" /\ ptx # plen /\ ptx \in Index
      /\ StoreByte(b, ptx)
  BY DEF SendByte, ptx, plen
<1>2. ptx \in Nat /\ plen \in Nat
  BY I2CAssumption DEF IInv, TypeOK, plen, ptx
<1>3. /\ Len(sent) = 3 + ptx /\ ~IS_CONTROL_CMD_READ(cmd)
      /\ plen > 0 => ptx <= plen
      /\ \A k \in 1 .. ptx : payload[k - 1] = sent[3 + k]
      /\ ptx < plen => calls = <<>> /\ ~nacked
      /\ \A k \in 1 .. Len(calls) : calls[k].op = "write" /\ k = 1
  BY <1>1 DEF IInv, Place, DataAsSent, Pending
<1> QED BY <1>1, <1>2, <1>3, StoreStep

(* Data that is refused. *)
LEMMA SendRefusedStep == ASSUME IInv, NEW b \in Byte, SendRefused(b) PROVE IInv'
<1>1. TypeOK' /\ TypeOK
  BY HeaderType, Parts
<1>2. PICK ret \in ControlRet \ {CONTROL_SUCCESS} : Refuse(b, ret)
  BY RetFacts DEF SendRefused
<1>3. state' = "ERROR" /\ MasterSends(b, ret) /\ UNCHANGED calls
  BY <1>2 DEF Refuse, NoCall
<1>4. Successful("write") = {} \/ nacked \/ Overlong'
  <2>1. CASE state \in {"WRITE_START", "WRITE_CMD"}
    <3>1. calls = <<>>
      BY <2>1 DEF IInv, Pending
    <3> QED BY <3>1, NoCallsRight
  <2>2. CASE state = "WRITE_SIZE" /\ plen > 0
    <3>1. \A k \in 1 .. Len(calls) : ~(calls[k].op = "write")
      BY <2>2 DEF IInv, Pending
    <3> QED BY <3>1 DEF Successful
  <2>3. CASE state = "WRITE_SIZE" /\ ~(plen > 0)
    <3>1. Len(sent) = 3 /\ plen = sent[3] /\ plen = 0
      BY <2>3, <1>1, I2CAssumption
         DEF IInv, Place, HeaderAsSent, LengthTaken, TypeOK, plen
    <3>2. sent' = Append(sent, b)
      BY <1>3 DEF MasterSends
    <3>3. Len(sent') = Len(sent) + 1 /\ \A k \in 1 .. Len(sent) : sent'[k] = sent[k]
      BY <3>2, <1>1, SentFacts
    <3>4. Len(sent') = 4 /\ sent'[3] = 0
      <4>1. 3 \in 1 .. Len(sent) /\ Len(sent) = 3 /\ sent[3] = 0
        BY <3>1
      <4> QED BY <4>1, <3>3
    <3>5. Overlong'
      BY <3>4 DEF Overlong, HeaderSent, Announced
    <3> QED BY <3>5
  <2>4. CASE state = "ERROR"
    BY <2>4, <1>3 DEF MasterSends, IInv, BusState
  <2> QED BY <2>1, <2>2, <2>3, <2>4 DEF SendRefused
<1>5. CallsRight' /\ AcksRight'
  <2>1. CallsRight /\ AcksRight
    BY Parts
  <2> QED BY <2>1, <1>1, <1>3, <1>4, QuietSend
<1>6. LinkRight'
  BY <1>3 DEF LinkRight, Place, HeaderAsSent, DataAsSent, Pending, ResidTaken, CmdTaken,
              LengthTaken, InReply
<1>7. BusState' /\ ReplyReady' /\ ReadsRight' /\ TrapsOnlyWithoutPayload'
  BY <1>3, SendRest
<1> QED BY <1>1, <1>5, <1>6, <1>7, PartsNext

(* Data beyond the length. *)
LEMMA SendOverrunStep == ASSUME IInv, NEW b \in Byte, SendOverrun(b) PROVE IInv'
<1>1. TypeOK' /\ TypeOK
  BY HeaderType, Parts
<1>2. PICK ret \in ControlRet : MasterSends(b, ret)
  BY RetFacts DEF SendOverrun
<1>3. /\ state' = "WRITE_OVERFLOW" /\ UNCHANGED <<resid, cmd, ifnum, plen, ptx, payload, calls>>
      /\ state \in {"WRITE_DATA", "WRITE_OVERFLOW"}
      /\ state = "WRITE_DATA" => ptx = plen
  BY DEF SendOverrun, NoCall, header, plen, ptx
<1>4. /\ resid = sent[1] /\ ifnum \in Search(resid) /\ cmd = sent[2] /\ plen = sent[3]
      /\ ~IS_CONTROL_CMD_READ(cmd)
  BY <1>3 DEF IInv, HeaderAsSent, ResidTaken, CmdTaken, LengthTaken, DataAsSent
<1>5. plen \in Nat /\ ptx \in Nat
  BY <1>1, I2CAssumption DEF TypeOK, plen, ptx
<1>6. sent' = Append(sent, b)
  BY <1>2 DEF MasterSends
<1>7. Len(sent) >= 3 + plen /\ Len(sent) \in Nat
  <2>1. Len(sent) \in Nat
    BY <1>1, <1>6, SentFacts
  <2> QED BY <2>1, <1>3, <1>5 DEF IInv, Place
<1>8. /\ Len(sent') > 3 + plen /\ Len(sent') > 3
      /\ sent'[1] = sent[1] /\ sent'[2] = sent[2] /\ sent'[3] = sent[3]
  <2>1. /\ Len(sent') = Len(sent) + 1
        /\ \A k \in 1 .. Len(sent) : sent'[k] = sent[k]
    BY <1>1, <1>6, SentFacts
  <2>2. 1 \in 1 .. Len(sent) /\ 2 \in 1 .. Len(sent) /\ 3 \in 1 .. Len(sent)
    BY <1>5, <1>7
  <2> QED BY <2>1, <2>2, <1>5, <1>7
<1>9. CallsRight' /\ AcksRight'
  <2>1. CallsRight /\ AcksRight
    BY Parts
  <2>2. ~(Len(sent) = 2 + Append(sent, b)[3])
    BY <1>4, <1>5, <1>6, <1>7, <1>8
  <2>3. Overlong'
    BY <1>4, <1>8 DEF Overlong, HeaderSent, Announced
  <2> QED BY <2>1, <2>2, <2>3, <1>1, <1>2, <1>3, QuietSend
<1>10. LinkRight'
  BY <1>3, <1>4, <1>8 DEF LinkRight, Place, HeaderAsSent, DataAsSent, Pending, ResidTaken,
                          CmdTaken, LengthTaken, InReply
<1>11. BusState' /\ ReplyReady' /\ ReadsRight' /\ TrapsOnlyWithoutPayload'
  BY <1>2, <1>3, SendRest
<1> QED BY <1>1, <1>9, <1>10, <1>11, PartsNext

-----------------------------------------------------------------------------
(* Steps that send nothing and call nothing. *)
LEMMA SameHistory ==
  ASSUME IInv, UNCHANGED <<sent, nacked, calls>>
  PROVE  CallsRight' /\ AcksRight'
<1>1. CallsRight'
  BY DEF IInv, CallsRight, DispatchedAsSent, KindFromReadBit, AtMostOnce, CallsFollow,
         WriteComplete, HeaderSent, Announced, Writes, Successful
<1>2. AcksRight'
  BY DEF IInv, AcksRight, AckedWriteExecuted, NackedWriteNotExecuted, WriteComplete,
         Overlong, HeaderSent, Announced, Successful
<1> QED BY <1>1, <1>2

LEMMA TrapsStep ==
  ASSUME IInv, NEW b \in Byte, SendByteTraps(b) \/ ReadByteTraps PROVE IInv'
<1>1. TypeOK' /\ TypeOK
  BY WritesType, ReadsType, Parts DEF MasterWrites
<1>2. /\ state' = "TRAP" /\ UNCHANGED <<sent, nacked, calls, plen, got, bus, verdict>>
      /\ state \in {"WRITE_DATA", "READ_DATA"} /\ ptx # plen /\ ptx \notin Index
  BY DEF SendByteTraps, ReadByteTraps, header, history, plen, ptx
<1>3. plen = 0
  <2>1. plen \in 0 .. I2C_DATA_MAX_BYTES /\ ptx \in 0 .. I2C_DATA_MAX_BYTES
    BY <1>1 DEF TypeOK, plen, ptx
  <2>2. plen > 0 => ptx <= plen
    BY <1>2 DEF IInv, DataAsSent, ReplyReady
  <2> QED BY <2>1, <2>2, <1>2, I2CAssumption DEF Index
<1>4. CallsRight' /\ AcksRight'
  BY <1>2, SameHistory
<1>5. LinkRight' /\ BusState' /\ ReplyReady' /\ TrapsOnlyWithoutPayload'
  <2>1. LinkRight' /\ TrapsOnlyWithoutPayload'
    BY <1>2, <1>3 DEF LinkRight, Place, HeaderAsSent, DataAsSent, Pending, ResidTaken,
       CmdTaken, LengthTaken, InReply, TrapsOnlyWithoutPayload, plen
  <2>2. BusState'
    BY <1>2 DEF IInv, BusState
  <2>3. ReplyReady'
    BY <1>2 DEF IInv, ReplyReady, InReply
  <2> QED BY <2>1, <2>2, <2>3
<1>6. ReadsRight'
  BY <1>2 DEF IInv, ReadsRight, ReadIntegrity, StopDetectsTruncation, HeaderSent, Announced,
              WriteComplete, Successful
<1> QED BY <1>1, <1>4, <1>5, <1>6, PartsNext

LEMMA WriteStartStep == ASSUME IInv, WriteStart PROVE IInv'
<1>1. TypeOK'
  BY TypeStep, Parts DEF Next
<1>2. /\ state' = "WRITE_START" /\ bus' = "write" /\ sent' = <<>> /\ nacked' = FALSE
      /\ calls' = <<>> /\ got' = <<>>
  BY DEF WriteStart
<1>3. /\ 1 .. Len(calls') = {} /\ 1 .. Len(got') = {} /\ Len(sent') = 0 /\ ~HeaderSent'
  BY <1>2 DEF HeaderSent
<1>4. CallsRight'
  BY <1>2, <1>3 DEF CallsRight, DispatchedAsSent, KindFromReadBit, AtMostOnce, CallsFollow,
                    Writes, Successful
<1>5. AcksRight' /\ ReadsRight'
  BY <1>2, <1>3 DEF AcksRight, AckedWriteExecuted, NackedWriteNotExecuted, WriteComplete,
                    ReadsRight, ReadIntegrity, StopDetectsTruncation
<1>6. LinkRight' /\ BusState' /\ ReplyReady' /\ TrapsOnlyWithoutPayload'
  BY <1>2, <1>3 DEF LinkRight, Place, HeaderAsSent, DataAsSent, Pending, ResidTaken,
     CmdTaken, LengthTaken, InReply, TrapsOnlyWithoutPayload, BusState, ReplyReady
<1> QED BY <1>1, <1>4, <1>5, <1>6, PartsNext

LEMMA ReadStartRefusedStep == ASSUME IInv, ReadStartRefused PROVE IInv'
<1>1. TypeOK'
  BY ReadStartsType, Parts
<1>2. /\ state' = "ERROR" /\ bus' = "nacked" /\ got' = <<>>
      /\ UNCHANGED <<sent, nacked, calls>>
  BY DEF ReadStartRefused
<1>3. 1 .. Len(got') = {}
  BY <1>2
<1>4. CallsRight' /\ AcksRight'
  BY <1>2, SameHistory
<1>5. LinkRight' /\ BusState' /\ ReplyReady' /\ TrapsOnlyWithoutPayload' /\ ReadsRight'
  BY <1>2, <1>3 DEF LinkRight, Place, HeaderAsSent, DataAsSent, Pending, ResidTaken,
     CmdTaken, LengthTaken, InReply, TrapsOnlyWithoutPayload, BusState, ReplyReady,
     ReadsRight, ReadIntegrity, StopDetectsTruncation
<1> QED BY <1>1, <1>4, <1>5, PartsNext

-----------------------------------------------------------------------------
(* A read command, successful or not, and what is said of the calls. *)
LEMMA ReadCallRight ==
  ASSUME IInv, Reading, NEW ret \in ControlRet, read_command(payload', ret),
         resid # CONTROL_SPECIAL_RESID
  PROVE  /\ CallsRight' /\ AcksRight'
         /\ Len(calls') = Len(calls) + 1 /\ Len(calls) \in Nat
         /\ \A k \in 1 .. Len(calls) : calls'[k] = calls[k]
         /\ calls'[Len(calls')].op = "read" /\ calls'[Len(calls')].ret = ret
         /\ \A k \in 1 .. plen : calls'[Len(calls')].payload[k] = payload'[k - 1]
<1>1. /\ state = "WRITE_SIZE" /\ IS_CONTROL_CMD_READ(cmd)
      /\ sent' = sent /\ nacked' = nacked
  BY DEF Reading
<1>2. /\ Len(sent) = 3 /\ resid = sent[1] /\ ifnum \in Search(resid) /\ cmd = sent[2]
      /\ plen = sent[3]
  BY <1>1 DEF IInv, Place, HeaderAsSent, ResidTaken, CmdTaken, LengthTaken
<1>3. /\ resid \in Byte /\ cmd \in Byte /\ ifnum \in IfNum /\ plen \in 0 .. I2C_DATA_MAX_BYTES
      /\ calls \in Seq(Call)
  BY DEF IInv, TypeOK, plen
<1>4. payload' \in [Index -> Byte]
  BY ReadType, Parts
<1> DEFINE data == Prefix(payload', plen)
           c == ReadCall(ifnum, resid, cmd, data, ret)
<1>5. /\ data \in Seq(Byte) /\ Len(data) = plen
      /\ \A k \in 1 .. plen : data[k] = payload'[k - 1]
  BY <1>3, <1>4, PrefixFacts
<1>6. calls' = Append(calls, c)
  BY DEF read_command, plen
<1>7. /\ c \in Call /\ c.op = "read" /\ c.ret = ret /\ c.resid = sent[1] /\ c.cmd = sent[2]
      /\ c.ifnum = ifnum /\ c.payload = data
  <2>1. c \in Call
    BY <1>3, <1>5, CallType
  <2> QED BY <2>1, <1>2 DEF ReadCall
<1>8. ifnum = resource_table[sent[1]]
  BY <1>2, <1>3, SearchFacts
<1> HIDE DEF data, c
<1>9. /\ Len(calls') = Len(calls) + 1 /\ Len(calls) \in Nat
      /\ \A k \in 1 .. Len(calls) : calls'[k] = calls[k]
      /\ calls'[Len(calls) + 1] = c
  BY <1>3, <1>6, <1>7, AppendFacts
<1>10. \A k \in 1 .. Len(calls') :
         \/ k \in 1 .. Len(calls) /\ calls'[k] = calls[k]
         \/ k = Len(calls') /\ calls'[k] = c
  BY <1>9
<1>11. \A k \in 1 .. Len(calls) :
         \/ calls[k].op = "write" /\ k = 1
         \/ calls[k].op = "read" /\ calls[k].ret # CONTROL_SUCCESS
  BY <1>1 DEF IInv, Pending
<1>12. DispatchedAsSent'
  <2> SUFFICES ASSUME NEW k \in 1 .. Len(calls')
               PROVE  /\ WriteComplete \/ calls'[k].op = "read"
                      /\ calls'[k].resid = sent[1]
                      /\ calls'[k].cmd = sent[2]
                      /\ calls'[k].ifnum = resource_table[sent[1]]
                      /\ Len(calls'[k].payload) = sent[3]
                      /\ calls'[k].op = "write" =>
                           calls'[k].payload = SubSeq(sent, 4, 3 + sent[3])
    BY <1>1 DEF DispatchedAsSent, Announced, WriteComplete, HeaderSent
  <2>1. CASE k \in 1 .. Len(calls) /\ calls'[k] = calls[k]
    BY <2>1 DEF IInv, DispatchedAsSent, Announced
  <2>2. CASE calls'[k] = c
    BY <2>2, <1>2, <1>5, <1>7, <1>8
  <2> QED BY <2>1, <2>2, <1>10
<1>13. KindFromReadBit' /\ CallsFollow'
  <2>1. \A k \in 1 .. Len(calls) :
          /\ sent[3] > 0 => (calls[k].op = "read" <=> IS_CONTROL_CMD_READ(calls[k].cmd))
          /\ calls[k].op = "read" => IS_CONTROL_CMD_READ(calls[k].cmd)
    BY DEF IInv, KindFromReadBit, CallsFollow, Announced
  <2>2. c.op = "read" /\ IS_CONTROL_CMD_READ(c.cmd)
    BY <1>1, <1>2, <1>7
  <2>3. \A k \in 1 .. Len(calls') :
          /\ sent[3] > 0 => (calls'[k].op = "read" <=> IS_CONTROL_CMD_READ(calls'[k].cmd))
          /\ calls'[k].op = "read" => IS_CONTROL_CMD_READ(calls'[k].cmd)
    BY <2>1, <2>2, <1>10
  <2>4. Len(sent) >= 3
    BY <1>2
  <2> QED BY <2>3, <2>4, <1>1 DEF KindFromReadBit, CallsFollow, Announced
<1>14. AtMostOnce'
  <2>1. \A k \in 1 .. Len(calls') : calls'[k].op = "write" => k = 1
    BY <1>7, <1>10, <1>11
  <2>2. \A k \in 1 .. Len(calls') :
          calls'[k].op = "read" /\ calls'[k].ret = CONTROL_SUCCESS => k = Len(calls')
    BY <1>10, <1>11
  <2> QED BY <2>1, <2>2 DEF AtMostOnce, Writes, Successful
<1>15. AcksRight'
  <2>1. Successful("write")' = Successful("write")
    <3>1. 1 .. Len(calls) \subseteq 1 .. Len(calls')
      BY <1>9
    <3>2. \A k \in 1 .. Len(calls') :
            calls'[k].op = "write" => k \in 1 .. Len(calls) /\ calls'[k] = calls[k]
      BY <1>7, <1>10
    <3> QED BY <3>1, <3>2, <1>9 DEF Successful
  <2> QED BY <2>1, <1>1 DEF IInv, AcksRight, AckedWriteExecuted, NackedWriteNotExecuted,
             WriteComplete, Overlong, HeaderSent, Announced
<1>16. /\ calls'[Len(calls')] = c
       /\ \A k \in 1 .. plen : c.payload[k] = payload'[k - 1]
  BY <1>5, <1>7, <1>9
<1> QED BY <1>7, <1>9, <1>12, <1>13, <1>14, <1>15, <1>16 DEF CallsRight

LEMMA ReadCommandRight ==
  ASSUME IInv, Reading, NEW ret \in ControlRet, read_command(payload', ret)
  PROVE  CallsRight' /\ AcksRight'
<1>1. CASE resid = CONTROL_SPECIAL_RESID
  BY <1>1, SameHistory DEF Reading, read_command
<1>2. CASE resid # CONTROL_SPECIAL_RESID
  BY <1>2, ReadCallRight
<1> QED BY <1>1, <1>2

LEMMA ReadStartStep == ASSUME IInv, ReadStart PROVE IInv'
<1>1. TypeOK'
  BY ReadStartsType, Parts
<1>2. /\ Reading /\ read_command(payload', CONTROL_SUCCESS)
      /\ state' = "READ_START" /\ bus' = "read" /\ got' = <<>>
      /\ state = "WRITE_SIZE" /\ IS_CONTROL_CMD_READ(cmd)
      /\ UNCHANGED <<resid, cmd, ifnum, plen, sent>>
  BY DEF ReadStart, Reading, header, plen
<1>3. /\ Len(sent) = 3 /\ resid = sent[1] /\ ifnum \in Search(resid) /\ cmd = sent[2]
      /\ plen = sent[3]
  BY <1>2 DEF IInv, Place, HeaderAsSent, ResidTaken, CmdTaken, LengthTaken
<1>4. CallsRight' /\ AcksRight'
  BY <1>2, ReadCommandRight, RetFacts
<1>5. LinkRight' /\ BusState' /\ TrapsOnlyWithoutPayload'
  BY <1>2, <1>3 DEF LinkRight, Place, HeaderAsSent, DataAsSent, Pending, ResidTaken,
     CmdTaken, LengthTaken, InReply, TrapsOnlyWithoutPayload, BusState
<1>6. ReplyReady'
  <2>1. IF resid = CONTROL_SPECIAL_RESID
        THEN plen = 1 /\ (cmd = CONTROL_GET_VERSION => payload'[0] = CONTROL_VERSION)
        ELSE \E m \in Successful("read")' :
               \A k \in 1 .. plen : calls'[m].payload[k] = payload'[k - 1]
    <3>1. CASE resid = CONTROL_SPECIAL_RESID
      <4>1. /\ special_read_ret(cmd, plen) = CONTROL_SUCCESS
            /\ payload' = [payload EXCEPT ![0] = special_read_byte(cmd, last_status)]
        BY <3>1, <1>2 DEF read_command, plen
      <4>2. plen = 1
        BY <4>1 DEF special_read_ret, CONTROL_SUCCESS, CONTROL_BAD_COMMAND
      <4>3. payload \in [Index -> Byte] /\ 0 \in Index
        BY I2CAssumption DEF IInv, TypeOK, Index
      <4>4. payload'[0] = special_read_byte(cmd, last_status)
        BY <4>1, <4>3
      <4> QED BY <3>1, <4>2, <4>4 DEF special_read_byte
    <3>2. CASE resid # CONTROL_SPECIAL_RESID
      <4>1. /\ Len(calls') = Len(calls) + 1 /\ Len(calls) \in Nat
            /\ calls'[Len(calls')].op = "read" /\ calls'[Len(calls')].ret = CONTROL_SUCCESS
            /\ \A k \in 1 .. plen : calls'[Len(calls')].payload[k] = payload'[k - 1]
        BY <3>2, <1>2, ReadCallRight, RetFacts
      <4>2. Len(calls') \in 1 .. Len(calls')
        BY <4>1
      <4>3. Len(calls') \in Successful("read")'
        BY <4>1, <4>2 DEF Successful
      <4> QED BY <3>2, <4>1, <4>3
    <3> QED BY <3>1, <3>2
  <2> QED BY <2>1, <1>2 DEF ReplyReady
<1>7. ReadsRight'
  <2>1. 1 .. Len(got') = {}
    BY <1>2
  <2> QED BY <2>1, <1>2 DEF ReadsRight, ReadIntegrity, StopDetectsTruncation
<1> QED BY <1>1, <1>4, <1>5, <1>6, <1>7, PartsNext

LEMMA ReadStartFailsStep == ASSUME IInv, ReadStartFails PROVE IInv'
<1>1. TypeOK'
  BY ReadStartsType, Parts
<1>2. PICK ret \in ControlRet \ {CONTROL_SUCCESS} : read_command(payload', ret)
  BY DEF ReadStartFails
<1>3. /\ Reading /\ state' = state /\ bus' = "nacked" /\ got' = <<>>
      /\ state = "WRITE_SIZE"
      /\ UNCHANGED <<resid, cmd, ifnum, plen, ptx, sent, nacked>>
  BY DEF ReadStartFails, Reading, header, plen, ptx
<1>4. CallsRight' /\ AcksRight'
  BY <1>2, <1>3, ReadCommandRight
<1>5. Place' /\ HeaderAsSent' /\ DataAsSent' /\ BusState' /\ ReplyReady'
      /\ TrapsOnlyWithoutPayload'
  BY <1>3 DEF IInv, Place, HeaderAsSent, DataAsSent, ResidTaken, CmdTaken, LengthTaken,
              InReply, TrapsOnlyWithoutPayload, BusState, ReplyReady
<1>6. Pending'
  <2>1. /\ plen > 0 => ~nacked
        /\ \A k \in 1 .. Len(calls) :
             \/ calls[k].op = "write" /\ k = 1 /\ plen = 0
             \/ calls[k].op = "read" /\ calls[k].ret # CONTROL_SUCCESS
    BY <1>3 DEF IInv, Pending
  <2>2. \A k \in 1 .. Len(calls') :
          \/ calls'[k].op = "write" /\ k = 1 /\ plen = 0
          \/ calls'[k].op = "read" /\ calls'[k].ret # CONTROL_SUCCESS
    <3>1. CASE resid = CONTROL_SPECIAL_RESID
      BY <2>1, <3>1, <1>2 DEF read_command
    <3>2. CASE resid # CONTROL_SPECIAL_RESID
      <4>1. /\ Len(calls') = Len(calls) + 1 /\ Len(calls) \in Nat
            /\ \A k \in 1 .. Len(calls) : calls'[k] = calls[k]
            /\ calls'[Len(calls')].op = "read" /\ calls'[Len(calls')].ret # CONTROL_SUCCESS
        BY <3>2, <1>2, <1>3, ReadCallRight
      <4>2. \A k \in 1 .. Len(calls') : k \in 1 .. Len(calls) \/ k = Len(calls')
        BY <4>1
      <4> QED BY <2>1, <4>1, <4>2
    <3> QED BY <3>1, <3>2
  <2> QED BY <2>1, <2>2, <1>3 DEF Pending
<1>7. ReadsRight'
  <2>1. 1 .. Len(got') = {}
    BY <1>3
  <2> QED BY <2>1, <1>3 DEF ReadsRight, ReadIntegrity, StopDetectsTruncation
<1> QED BY <1>1, <1>4, <1>5, <1>6, <1>7, PartsNext DEF LinkRight

-----------------------------------------------------------------------------
(* What a byte read leaves alone, whatever else it does. *)
LEMMA ReadRest ==
  ASSUME IInv, NEW b \in Byte, MasterReads(b)
  PROVE  /\ CallsRight' /\ AcksRight'
         /\ bus = "read" /\ bus' = "read"
         /\ UNCHANGED <<resid, cmd, ifnum, plen, payload, sent, calls>>
         /\ Len(got') = Len(got) + 1 /\ Len(got) \in Nat
         /\ \A k \in 1 .. Len(got) : got'[k] = got[k]
         /\ got'[Len(got) + 1] = b
         /\ StopDetectsTruncation'
<1>1. /\ bus = "read" /\ bus' = "read" /\ got' = Append(got, b)
      /\ UNCHANGED <<resid, cmd, ifnum, plen, payload, sent, nacked, calls>>
  BY DEF MasterReads, header, plen
<1>2. got \in Seq(Byte)
  BY DEF IInv, TypeOK
<1>3. /\ Len(got') = Len(got) + 1 /\ Len(got) \in Nat
      /\ \A k \in 1 .. Len(got) : got'[k] = got[k]
      /\ got'[Len(got) + 1] = b
  BY <1>1, <1>2, AppendFacts
<1>4. StopDetectsTruncation'
  BY <1>1 DEF StopDetectsTruncation
<1> QED BY <1>1, <1>3, <1>4, SameHistory

(* A byte of the reply. *)
LEMMA ReplyByteStep ==
  ASSUME IInv, TypeOK', NEW i \in Index, state \in InReply, MasterReads(payload[i]),
         Len(got) = i, plen > 0 => i < plen, state' = "READ_DATA", ptx' = i + 1
  PROVE  IInv'
<1>1. payload[i] \in Byte /\ i \in Nat /\ plen \in Nat
  BY I2CAssumption DEF IInv, TypeOK, Index, plen
<1>2. /\ CallsRight' /\ AcksRight'
      /\ bus = "read" /\ bus' = "read"
      /\ UNCHANGED <<resid, cmd, ifnum, plen, payload, sent, calls>>
      /\ Len(got') = i + 1
      /\ \A k \in 1 .. i : got'[k] = got[k]
      /\ got'[i + 1] = payload[i]
      /\ StopDetectsTruncation'
  BY <1>1, ReadRest
<1>3. /\ Len(sent) = 3 /\ resid = sent[1] /\ ifnum \in Search(resid) /\ cmd = sent[2]
      /\ plen = sent[3]
  BY DEF InReply, IInv, Place, HeaderAsSent, ResidTaken, CmdTaken, LengthTaken
<1>4. /\ IS_CONTROL_CMD_READ(cmd)
      /\ IF resid = CONTROL_SPECIAL_RESID
         THEN plen = 1 /\ (cmd = CONTROL_GET_VERSION => payload[0] = CONTROL_VERSION)
         ELSE \E m \in Successful("read") :
                \A k \in 1 .. plen : calls[m].payload[k] = payload[k - 1]
  BY DEF IInv, ReplyReady
<1>5. Successful("read")' = Successful("read")
  BY <1>2 DEF Successful
<1>6. LinkRight' /\ BusState' /\ TrapsOnlyWithoutPayload'
  BY <1>2, <1>3 DEF LinkRight, Place, HeaderAsSent, DataAsSent, Pending, ResidTaken,
     CmdTaken, LengthTaken, InReply, TrapsOnlyWithoutPayload, BusState
<1>7. ReplyReady'
  <2>1. ptx' >= 1 /\ (plen > 0 => ptx' <= plen) /\ Len(got') = ptx' /\ Len(sent) >= 3
    BY <1>1, <1>2, <1>3
  <2>2. \/ resid = CONTROL_SPECIAL_RESID
        \/ \E m \in Successful("read")' :
             \A k \in 1 .. plen' : calls'[m].payload[k] = payload'[k - 1]
    BY <1>2, <1>4, <1>5
  <2> QED BY <2>1, <2>2, <1>2, <1>4 DEF ReplyReady
<1>8. ReadIntegrity'
  <2> SUFFICES ASSUME NEW k \in 1 .. (i + 1), k <= sent[3]
               PROVE  IF sent[1] = CONTROL_SPECIAL_RESID
                      THEN sent[2] = CONTROL_GET_VERSION => got'[k] = CONTROL_VERSION
                      ELSE \E m \in Successful("read") : got'[k] = calls[m].payload[k]
    BY <1>2, <1>5 DEF ReadIntegrity, Announced
  <2>1. CASE k \in 1 .. i
    BY <2>1, <1>2 DEF IInv, ReadIntegrity, Announced
  <2>2. CASE k = i + 1
    <3>1. got'[k] = payload[k - 1]
      BY <2>2, <1>1, <1>2
    <3>2. CASE resid = CONTROL_SPECIAL_RESID
      <4>1. k = 1
        BY <3>2, <1>3, <1>4
      <4> QED BY <4>1, <3>1, <3>2, <1>3, <1>4
    <3>3. CASE resid # CONTROL_SPECIAL_RESID
      <4>1. PICK m \in Successful("read") :
              \A n \in 1 .. plen : calls[m].payload[n] = payload[n - 1]
        BY <3>3, <1>4
      <4>2. k \in 1 .. plen
        BY <1>1, <1>3
      <4> QED BY <4>1, <4>2, <3>1, <3>3, <1>3
    <3> QED BY <3>2, <3>3
  <2>3. k \in 1 .. i \/ k = i + 1
    BY <1>1
  <2> QED BY <2>1, <2>2, <2>3
<1> QED BY <1>2, <1>6, <1>7, <1>8, PartsNext DEF ReadsRight

LEMMA ReadBytesStep == ASSUME IInv, ReadFirstByte \/ ReadByte PROVE IInv'
<1>1. TypeOK'
  BY ReadsType, Parts
<1>2. ptx \in Nat /\ plen \in Nat /\ 0 \in Index
  BY I2CAssumption DEF IInv, TypeOK, plen, ptx, Index
<1>3. CASE ReadFirstByte
  <2>1. /\ state = "READ_START" /\ MasterReads(payload[0]) /\ ptx' = 1
        /\ state' = "READ_DATA"
    BY <1>3 DEF ReadFirstByte, ptx
  <2>2. Len(got) = 0
    BY <2>1 DEF IInv, ReplyReady
  <2>3. ptx' = 0 + 1 /\ (plen > 0 => 0 < plen)
    BY <2>1, <1>2
  <2> QED BY <2>1, <2>2, <2>3, <1>1, <1>2, ReplyByteStep DEF InReply
<1>4. CASE ReadByte
  <2>1. /\ state = "READ_DATA" /\ ptx # plen /\ ptx \in Index /\ MasterReads(payload[ptx])
        /\ ptx' = ptx + 1 /\ state' = "READ_DATA"
    BY <1>4 DEF ReadByte, ptx, plen
  <2>2. Len(got) = ptx /\ (plen > 0 => ptx <= plen)
    BY <2>1 DEF IInv, ReplyReady
  <2>3. plen > 0 => ptx < plen
    BY <2>1, <2>2, <1>2
  <2> QED BY <2>1, <2>2, <2>3, <1>1, ReplyByteStep DEF InReply
<1> QED BY <1>3, <1>4

(* A byte beyond the reply. *)
LEMMA ReadOverrunStep == ASSUME IInv, ReadOverrun PROVE IInv'
<1>1. TypeOK'
  BY ReadsType, Parts
<1>2. PICK b \in Byte : MasterReads(b)
  BY I2CAssumption DEF ReadOverrun
<1>3. /\ CallsRight' /\ AcksRight'
      /\ bus = "read" /\ bus' = "read"
      /\ UNCHANGED <<resid, cmd, ifnum, plen, payload, sent, calls>>
      /\ Len(got') = Len(got) + 1 /\ Len(got) \in Nat
      /\ \A k \in 1 .. Len(got) : got'[k] = got[k]
      /\ StopDetectsTruncation'
  BY <1>2, ReadRest
<1>4. \/ state = "READ_DATA" /\ ptx = plen /\ state' = "READ_OVERFLOW"
      \/ state \in {"READ_OVERFLOW", "ERROR"} /\ state' = "ERROR"
  BY <1>3 DEF ReadOverrun, IInv, BusState, InReply, ptx, plen
<1>5. Len(sent) >= 3 /\ Len(got) >= sent[3] /\ sent[3] \in Nat
  <2>1. sent \in Seq(Byte) /\ plen \in Nat /\ ptx \in Nat
    BY I2CAssumption DEF IInv, TypeOK, plen, ptx
  <2>2. Len(sent) >= 3 /\ Len(got) >= sent[3]
    <3>1. CASE state = "READ_DATA" /\ ptx = plen
      <4>1. Len(sent) = 3 /\ plen = sent[3] /\ Len(got) = ptx
        BY <3>1 DEF IInv, Place, HeaderAsSent, LengthTaken, InReply, ReplyReady
      <4> QED BY <4>1, <3>1, <2>1
    <3>2. CASE state = "READ_OVERFLOW"
      <4>1. Len(sent) = 3 /\ plen = sent[3] /\ Len(got) >= plen
        BY <3>2 DEF IInv, Place, HeaderAsSent, LengthTaken, InReply, ReplyReady
      <4> QED BY <4>1, <2>1
    <3>3. CASE state = "ERROR"
      BY <3>3, <1>3 DEF IInv, ReplyReady
    <3> QED BY <3>1, <3>2, <3>3, <1>4
  <2>3. sent[3] \in Byte
    <3>1. 3 \in 1 .. Len(sent)
      BY <2>1, <2>2
    <3> QED BY <2>1, <3>1
  <2> QED BY <2>2, <2>3, ByteFacts
<1>6. /\ state' = "READ_OVERFLOW" => /\ Len(sent) = 3 /\ resid = sent[1]
                                     /\ ifnum \in Search(resid) /\ cmd = sent[2]
                                     /\ plen = sent[3] /\ IS_CONTROL_CMD_READ(cmd)
      /\ state' \in {"READ_OVERFLOW", "ERROR"}
  BY <1>4 DEF IInv, Place, HeaderAsSent, ResidTaken, CmdTaken, LengthTaken, InReply,
              ReplyReady
<1>7. LinkRight' /\ BusState' /\ TrapsOnlyWithoutPayload'
  BY <1>3, <1>6 DEF LinkRight, Place, HeaderAsSent, DataAsSent, Pending, ResidTaken,
     CmdTaken, LengthTaken, InReply, TrapsOnlyWithoutPayload, BusState
<1>8. ReplyReady'
  <2>1. Len(got') >= sent[3]
    BY <1>3, <1>5
  <2> QED BY <2>1, <1>3, <1>5, <1>6 DEF ReplyReady, InReply
<1>9. ReadIntegrity'
  <2>1. Successful("read")' = Successful("read")
    BY <1>3 DEF Successful
  <2>2. \A k \in 1 .. Len(got') : k <= sent[3] => k \in 1 .. Len(got) /\ got'[k] = got[k]
    BY <1>3, <1>5
  <2> QED BY <2>1, <2>2, <1>3 DEF IInv, ReadIntegrity, Announced
<1> QED BY <1>1, <1>3, <1>7, <1>8, <1>9, PartsNext DEF ReadsRight

LEMMA StopStep == ASSUME IInv, Stop PROVE IInv'
<1>1. TypeOK'
  BY TypeStep, Parts DEF Next
<1>2. /\ verdict' = stop_ret /\ state' = "IDLE" /\ bus' = "idle"
      /\ UNCHANGED <<sent, nacked, calls, got>>
  BY DEF Stop
<1>3. CallsRight' /\ AcksRight'
  BY <1>2, SameHistory
<1>4. LinkRight' /\ BusState' /\ TrapsOnlyWithoutPayload'
  BY <1>2 DEF LinkRight, Place, HeaderAsSent, DataAsSent, Pending, ResidTaken,
     CmdTaken, LengthTaken, InReply, TrapsOnlyWithoutPayload, BusState
<1>5. ReplyReady'
  BY <1>2 DEF IInv, ReplyReady, InReply
<1>6. ReadIntegrity'
  BY <1>2 DEF IInv, ReadIntegrity, Announced, Successful
<1>7. StopDetectsTruncation'
  <2> SUFFICES ASSUME HeaderSent, stop_ret = CONTROL_SUCCESS
               PROVE  IF IS_CONTROL_CMD_READ(sent[2])
                      THEN Len(got) >= sent[3]
                      ELSE WriteComplete
    BY <1>2 DEF StopDetectsTruncation, HeaderSent, Announced, WriteComplete
  <2>1. /\ plen \in Nat /\ ptx \in Nat /\ Len(got) \in Nat /\ Len(sent) \in Nat
    BY I2CAssumption DEF IInv, TypeOK, plen, ptx
  <2>2. \/ state = "WRITE_SIZE" /\ plen = 0
        \/ state \in {"WRITE_DATA", "READ_DATA"} /\ ~(ptx < plen)
        \/ state \in {"WRITE_OVERFLOW", "READ_OVERFLOW"}
    BY DEF stop_ret, plen, ptx, CONTROL_SUCCESS, CONTROL_DATA_LENGTH_ERROR,
           CONTROL_OTHER_TRANSPORT_ERROR
  <2>3. cmd = sent[2] /\ plen = sent[3]
    BY <2>2 DEF IInv, HeaderAsSent, CmdTaken, LengthTaken
  <2>4. CASE state = "WRITE_SIZE" /\ plen = 0
    <3>1. Len(sent) = 3
      BY <2>4 DEF IInv, Place
    <3>2. WriteComplete /\ Len(got) >= sent[3]
      BY <3>1, <2>1, <2>3, <2>4 DEF WriteComplete, HeaderSent, Announced
    <3> QED BY <3>2
  <2>5. CASE state = "WRITE_DATA" /\ ~(ptx < plen)
    <3>1. Len(sent) = 3 + ptx /\ ~IS_CONTROL_CMD_READ(cmd)
      BY <2>5 DEF IInv, Place, DataAsSent
    <3>2. WriteComplete
      BY <3>1, <2>1, <2>3, <2>5 DEF WriteComplete, HeaderSent, Announced
    <3> QED BY <3>1, <3>2, <2>3
  <2>6. CASE state = "WRITE_OVERFLOW"
    <3>1. Len(sent) > 3 + plen /\ ~IS_CONTROL_CMD_READ(cmd)
      BY <2>6 DEF IInv, Place, DataAsSent
    <3>2. WriteComplete
      BY <3>1, <2>1, <2>3 DEF WriteComplete, HeaderSent, Announced
    <3> QED BY <3>1, <3>2, <2>3
  <2>7. CASE state = "READ_DATA" /\ ~(ptx < plen)
    <3>1. Len(got) = ptx /\ IS_CONTROL_CMD_READ(cmd)
      BY <2>7 DEF IInv, ReplyReady, InReply
    <3>2. Len(got) >= sent[3]
      BY <3>1, <2>1, <2>3, <2>7
    <3> QED BY <3>1, <3>2, <2>3
  <2>8. CASE state = "READ_OVERFLOW"
    BY <2>8, <2>3 DEF IInv, ReplyReady
  <2> QED BY <2>2, <2>4, <2>5, <2>6, <2>7, <2>8
<1> QED BY <1>1, <1>3, <1>4, <1>5, <1>6, <1>7, PartsNext DEF ReadsRight

-----------------------------------------------------------------------------
LEMMA IInvInit == Init => IInv
<1> SUFFICES ASSUME Init PROVE IInv
  OBVIOUS
<1>1. TypeOK
  BY TypeInit
<1>2. /\ state = "IDLE" /\ bus = "idle" /\ sent = <<>> /\ ~nacked
      /\ calls = <<>> /\ got = <<>>
  BY DEF Init
<1>3. /\ 1 .. Len(got) = {} /\ ~HeaderSent
  BY <1>2 DEF HeaderSent
<1>4. CallsRight
  BY <1>2, NoCallsRight
<1>5. AcksRight /\ ReadsRight
  BY <1>2, <1>3 DEF AcksRight, AckedWriteExecuted, NackedWriteNotExecuted, WriteComplete,
                    ReadsRight, ReadIntegrity, StopDetectsTruncation
<1>6. LinkRight /\ BusState /\ ReplyReady /\ TrapsOnlyWithoutPayload
  BY <1>2 DEF LinkRight, Place, HeaderAsSent, DataAsSent, Pending, ResidTaken,
     CmdTaken, LengthTaken, InReply, TrapsOnlyWithoutPayload, BusState, ReplyReady
<1> QED BY <1>1, <1>4, <1>5, <1>6, Parts

LEMMA IInvStep == ASSUME IInv, [Next]_vars PROVE IInv'
<1>1. CASE UNCHANGED vars
  <2>1. TypeOK'
    BY TypeStep, Parts
  <2> QED
    BY <1>1, <2>1 DEF vars, i2c, header, history, IInv, Place, HeaderAsSent, DataAsSent,
       BusState, Pending, CallsFollow, ReplyReady, DispatchedAsSent, KindFromReadBit,
       AtMostOnce, AckedWriteExecuted, NackedWriteNotExecuted, ReadIntegrity,
       StopDetectsTruncation, TrapsOnlyWithoutPayload, WriteComplete, Overlong, HeaderSent,
       Announced, Writes, Successful, plen, ptx
<1>2. ASSUME NEW b \in NextByte, MasterWrites(b) PROVE IInv'
  <2>1. b \in Byte
    BY NextByteType
  <2> QED
    BY <1>2, <2>1, SendResidStep, SendCmdStep, SendLengthStep, SendFirstByteStep,
       SendByteStep, TrapsStep, SendRefusedStep, SendOverrunStep DEF MasterWrites
<1>3. ASSUME ReadByteTraps PROVE IInv'
  BY <1>3, TrapsStep, ByteFacts
<1> QED
  BY <1>1, <1>2, <1>3, WriteStartStep, ReadStartRefusedStep, ReadStartStep,
     ReadStartFailsStep, ReadBytesStep, ReadOverrunStep, StopStep DEF Next

(* The inductive invariant: at every moment the fields of the struct i2c   *)
(* that the state says belong to this command are those the master sent.   *)
THEOREM Invariance == Spec => []IInv
BY IInvInit, IInvStep, PTL DEF Spec

(* A task is only ever called with the command that was sent, and with its *)
(* own resource. *)
THEOREM CallsAreWhatWasSent == Spec => []DispatchedAsSent
<1>1. IInv => DispatchedAsSent
  BY DEF IInv
<1> QED BY <1>1, Invariance, PTL

(* A command code with the read bit never becomes a write with payload, nor *)
(* the other way round. *)
THEOREM ReadBitDecides == Spec => []KindFromReadBit
<1>1. IInv => KindFromReadBit
  BY DEF IInv
<1> QED BY <1>1, Invariance, PTL

(* However the master goes on, one command is executed at most once. *)
THEOREM OneCommandOneCall == Spec => []AtMostOnce
<1>1. IInv => AtMostOnce
  BY DEF IInv
<1> QED BY <1>1, Invariance, PTL

(* A write of which every byte was acknowledged has been executed. *)
THEOREM AckMeansExecuted == Spec => []AckedWriteExecuted
<1>1. IInv => AckedWriteExecuted
  BY DEF IInv
<1> QED BY <1>1, Invariance, PTL

(* A write of which a byte was not acknowledged has had no success. *)
THEOREM NackMeansNotExecuted == Spec => []NackedWriteNotExecuted
<1>1. IInv => NackedWriteNotExecuted
  BY DEF IInv
<1> QED BY <1>1, Invariance, PTL

(* The master reads the reply of the task, byte for byte. *)
THEOREM ReplyIsRead == Spec => []ReadIntegrity
<1>1. IInv => ReadIntegrity
  BY DEF IInv
<1> QED BY <1>1, Invariance, PTL

(* A transaction that was cut short does not end in CONTROL_SUCCESS. *)
THEOREM StopTellsTruncation == Spec => []StopDetectsTruncation
<1>1. IInv => StopDetectsTruncation
  BY DEF IInv
<1> QED BY <1>1, Invariance, PTL

(* A command with payload never makes the device index outside its buffer. *)
THEOREM NoTrapWithPayload == Spec => []TrapsOnlyWithoutPayload
<1>1. IInv => TrapsOnlyWithoutPayload
  BY DEF IInv
<1> QED BY <1>1, Invariance, PTL
=============================================================================
