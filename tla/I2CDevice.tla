----------------------------- MODULE I2CDevice -----------------------------
(***************************************************************************)
(* The I2C transport of a device: the callbacks control_process_i2c_*, as  *)
(* i2c_control_client makes them for the events of the bus.  The master    *)
(* writes resource id, command code and payload length, then the payload   *)
(* of a write command or a (repeated) start that reads the reply of a read *)
(* command.                                                                *)
(*                                                                         *)
(* The master may do anything the bus allows: start over in the middle of  *)
(* a command, stop early, read without having written, write or read on    *)
(* beyond the length it announced, and go on after a NACK.                 *)
(***************************************************************************)
EXTENDS Control

CONSTANTS
  resource_table,       \* as control_register_resources left it
  I2C_DATA_MAX_BYTES,   \* capacity of i2c.payload (253)
  ResidBytes,           \* what the master sends as resource id,
  CmdBytes,             \* as command code,
  LenBytes,             \* as payload length,
  DataBytes,            \* and after that
  AppBytes,             \* what the application replies to a read
  AppRet,               \* what the application returns
  Junk,                 \* what an uninitialised byte may turn out to be
  SENT_MAX,             \* bound: bytes written between two write starts
  GOT_MAX,              \* bound: bytes read after a read start
  CALLS_MAX             \* bound: calls between two write starts

ASSUME I2CAssumption ==
  /\ resource_table \in ResTable
  /\ I2C_DATA_MAX_BYTES \in Nat \ {0}
  /\ I2C_DATA_MAX_BYTES < 2 * READ_BIT
  /\ CONTROL_SPECIAL_RESID < RESOURCE_TABLE_MAX
  /\ ResidBytes \cup CmdBytes \cup LenBytes \cup DataBytes \subseteq Byte
  /\ AppBytes \cup Junk \subseteq Byte
  /\ AppRet \subseteq ControlRet
  /\ {SENT_MAX, GOT_MAX, CALLS_MAX} \subseteq Nat

VARIABLES
  state,                     \* the fields of the struct i2c
  resid,
  cmd,
  ifnum,
  payload_len_from_header,
  payload_len_transmitted,
  payload,
  last_status,               \* the result kept for the status command
  bus,                       \* what the bus is doing, see Bus
  sent,                      \* bytes written since the last write start
  nacked,                    \* was one of them not acknowledged?
  calls,                     \* calls made since the last write start
  got,                       \* bytes read since the last read start
  verdict                    \* result of the last control_process_i2c_stop

header  == <<resid, cmd, ifnum, payload_len_from_header>>
i2c     == <<state, header, payload_len_transmitted, payload>>
history == <<sent, nacked, calls, got, verdict>>
vars    == <<i2c, last_status, bus, history>>

(* TRAP: xC found an index outside an array and stopped the tile. *)
State == {"IDLE", "WRITE_START", "WRITE_RESID", "WRITE_CMD", "WRITE_SIZE",
          "WRITE_DATA", "WRITE_OVERFLOW", "READ_START", "READ_DATA",
          "READ_OVERFLOW", "ERROR", "TRAP"}

(* idle: no transaction; write, read: the device is addressed for it;      *)
(* nacked: the device refused to be read.                                  *)
Bus == {"idle", "write", "read", "nacked"}

Index == 0 .. (I2C_DATA_MAX_BYTES - 1)

(* The first len bytes of the buffer p, as the application sees them. *)
Prefix(p, len) == [k \in 1 .. len |-> p[k - 1]]

-----------------------------------------------------------------------------
Init ==
  /\ state = "IDLE"
  /\ resid = 0 /\ cmd = 0 /\ ifnum = 0
  /\ payload_len_from_header = 0 /\ payload_len_transmitted = 0
  /\ payload = [k \in Index |-> 0]
  /\ last_status = CONTROL_SUCCESS
  /\ bus = "idle"
  /\ sent = <<>> /\ nacked = FALSE
  /\ calls = <<>> /\ got = <<>>
  /\ verdict = CONTROL_SUCCESS

(* ack_write_request: "always start a new command". *)
WriteStart ==
  /\ state # "TRAP"
  /\ state' = "WRITE_START"
  /\ bus' = "write"
  /\ sent' = <<>> /\ nacked' = FALSE /\ calls' = <<>> /\ got' = <<>>
  /\ UNCHANGED <<header, payload_len_transmitted, payload, last_status,
                 verdict>>

-----------------------------------------------------------------------------
(* Mutant: the adapter acknowledges every byte. *)
MasterSends_AcksAll(b, ret) ==
  /\ bus = "write"
  /\ state # "TRAP"
  /\ Len(sent) < SENT_MAX
  /\ sent' = Append(sent, b)
  /\ last_status' = ret
  /\ UNCHANGED <<bus, nacked, got, verdict>>

(* master_sent_data: the part common to every branch of                    *)
(* control_process_i2c_write_data.  Its result ends up in last_status and  *)
(* decides the ACK.                                                        *)
MasterSends(b, ret) ==
  /\ bus = "write"
  /\ state # "TRAP"
  /\ Len(sent) < SENT_MAX
  /\ sent' = Append(sent, b)
  /\ last_status' = ret
  /\ nacked' = (nacked \/ ret # CONTROL_SUCCESS)
  /\ UNCHANGED <<bus, got, verdict>>

NoCall == UNCHANGED calls

(* write_command: the special resource refuses, else the task is called. *)
write_command(res, c, ifn, data, ret) ==
  /\ IF res = CONTROL_SPECIAL_RESID
     THEN ret = CONTROL_BAD_COMMAND /\ UNCHANGED calls
     ELSE /\ ret \in AppRet
          /\ calls' = Append(calls, WriteCall(ifn, res, c, data, ret))

Search(b) ==
  resource_table_search(resource_table, {CONTROL_SPECIAL_RESID}, b)

Refuse(b, ret) ==
  /\ state' = "ERROR"
  /\ MasterSends(b, ret)
  /\ NoCall
  /\ UNCHANGED <<header, payload_len_transmitted, payload>>

(* An unknown resource, a length beyond the buffer, data for a read        *)
(* command, and whatever follows an error.                                 *)
SendRefused(b) ==
  \/ state = "WRITE_START" /\ Search(b) = {} /\ Refuse(b, CONTROL_BAD_COMMAND)
  \/ state = "WRITE_CMD" /\ b > I2C_DATA_MAX_BYTES /\ Refuse(b, CONTROL_BAD_COMMAND)
  \/ /\ state = "WRITE_SIZE"
     /\ IS_CONTROL_CMD_READ(cmd)
     /\ Refuse(b, CONTROL_OTHER_TRANSPORT_ERROR)
  \/ state = "ERROR" /\ Refuse(b, CONTROL_ERROR)

(* Mutant: the interface number of the previous command is kept. *)
SendResid_StaleIfnum(b) ==
  /\ state = "WRITE_START"
  /\ Search(b) # {}
  /\ resid' = b
  /\ state' = "WRITE_RESID"
  /\ MasterSends(b, CONTROL_SUCCESS)
  /\ NoCall
  /\ UNCHANGED <<cmd, ifnum, payload_len_from_header,
                 payload_len_transmitted, payload>>

SendResid(b) ==
  /\ state = "WRITE_START"
  /\ \E k \in Search(b) : ifnum' = k
  /\ resid' = b
  /\ state' = "WRITE_RESID"
  /\ MasterSends(b, CONTROL_SUCCESS)
  /\ NoCall
  /\ UNCHANGED <<cmd, payload_len_from_header, payload_len_transmitted, payload>>

SendCmd(b) ==
  /\ state = "WRITE_RESID"
  /\ cmd' = b
  /\ state' = "WRITE_CMD"
  /\ MasterSends(b, CONTROL_SUCCESS)
  /\ NoCall
  /\ UNCHANGED <<resid, ifnum, payload_len_from_header,
                 payload_len_transmitted, payload>>

(* Mutant: the length is not compared with the buffer. *)
SendLength_Unchecked(b) ==
  /\ state = "WRITE_CMD"
  /\ payload_len_from_header' = b
  /\ payload_len_transmitted' = 0
  /\ state' = "WRITE_SIZE"
  /\ b # 0
  /\ NoCall
  /\ MasterSends(b, CONTROL_SUCCESS)
  /\ UNCHANGED <<resid, cmd, ifnum, payload>>

(* A command without payload is dispatched here, whatever its code. *)
SendLength(b) ==
  /\ state = "WRITE_CMD"
  /\ b <= I2C_DATA_MAX_BYTES
  /\ payload_len_from_header' = b
  /\ payload_len_transmitted' = 0
  /\ state' = "WRITE_SIZE"
  /\ IF b = 0
     THEN \E ret \in ControlRet :
            /\ write_command(resid, cmd, ifnum, <<>>, ret)
            /\ MasterSends(b, ret)
     ELSE NoCall /\ MasterSends(b, CONTROL_SUCCESS)
  /\ UNCHANGED <<resid, cmd, ifnum, payload>>

(* Mutant: the byte before the last one dispatches as well. *)
StoreByte_Early(b, at) ==
  /\ payload' = [payload EXCEPT ![at] = b]
  /\ payload_len_transmitted' = at + 1
  /\ state' = "WRITE_DATA"
  /\ IF at + 2 >= payload_len_from_header
     THEN \E ret \in ControlRet :
            /\ write_command(resid, cmd, ifnum, Prefix(payload', at + 1), ret)
            /\ MasterSends(b, ret)
     ELSE NoCall /\ MasterSends(b, CONTROL_SUCCESS)
  /\ UNCHANGED header

(* Store the byte at the position `at'; the last one dispatches. *)
StoreByte(b, at) ==
  /\ payload' = [payload EXCEPT ![at] = b]
  /\ payload_len_transmitted' = at + 1
  /\ state' = "WRITE_DATA"
  /\ IF at + 1 = payload_len_from_header
     THEN \E ret \in ControlRet :
            /\ write_command(resid, cmd, ifnum, Prefix(payload', at + 1), ret)
            /\ MasterSends(b, ret)
     ELSE NoCall /\ MasterSends(b, CONTROL_SUCCESS)
  /\ UNCHANGED header

(* Mutant: the read bit is not looked at. *)
SendFirstByte_AnyCommand(b) ==
  /\ state = "WRITE_SIZE"
  /\ StoreByte(b, 0)

SendFirstByte(b) ==
  /\ state = "WRITE_SIZE"
  /\ ~IS_CONTROL_CMD_READ(cmd)
  /\ StoreByte(b, 0)

SendByte(b) ==
  /\ state = "WRITE_DATA"
  /\ payload_len_transmitted # payload_len_from_header
  /\ payload_len_transmitted \in Index
  /\ StoreByte(b, payload_len_transmitted)

(* The store falls outside the array. *)
SendByteTraps(b) ==
  /\ state = "WRITE_DATA"
  /\ payload_len_transmitted # payload_len_from_header
  /\ payload_len_transmitted \notin Index
  /\ bus = "write"
  /\ state' = "TRAP"
  /\ UNCHANGED <<header, payload_len_transmitted, payload, last_status, bus,
                 history>>

(* The rest is discarded; only its first byte is reported. *)
SendOverrun(b) ==
  /\ \/ /\ state = "WRITE_DATA"
        /\ payload_len_transmitted = payload_len_from_header
        /\ MasterSends(b, CONTROL_DATA_LENGTH_ERROR)
     \/ state = "WRITE_OVERFLOW" /\ MasterSends(b, CONTROL_SUCCESS)
  /\ state' = "WRITE_OVERFLOW"
  /\ NoCall
  /\ UNCHANGED <<header, payload_len_transmitted, payload>>

-----------------------------------------------------------------------------
(* ack_read_request *)
ReadStartRefused ==
  /\ \/ state \notin {"WRITE_SIZE", "TRAP"}
     \/ state = "WRITE_SIZE" /\ ~IS_CONTROL_CMD_READ(cmd)
  /\ state' = "ERROR"
  /\ bus' = "nacked"
  /\ got' = <<>>
  /\ UNCHANGED <<header, payload_len_transmitted, payload, last_status, sent,
                 nacked, calls, verdict>>

(* read_command leaves a reply in the buffer p.  An application that fails *)
(* may or may not have written to it.                                      *)
read_command(p, ret) ==
  IF resid = CONTROL_SPECIAL_RESID
  THEN /\ ret = special_read_ret(cmd, payload_len_from_header)
       /\ p = IF ret = CONTROL_SUCCESS
              THEN [payload EXCEPT ![0] = special_read_byte(cmd, last_status)]
              ELSE payload
       /\ UNCHANGED calls
  ELSE /\ ret \in AppRet
       /\ Len(calls) < CALLS_MAX
       /\ \/ \E reply \in [0 .. (payload_len_from_header - 1) -> AppBytes] :
               p = [k \in Index |-> IF k < payload_len_from_header
                                    THEN reply[k] ELSE payload[k]]
          \/ p = payload /\ ret # CONTROL_SUCCESS
       /\ calls' = Append(calls,
            ReadCall(ifnum, resid, cmd, Prefix(p, payload_len_from_header), ret))

Reading ==
  /\ state = "WRITE_SIZE"
  /\ IS_CONTROL_CMD_READ(cmd)
  /\ got' = <<>>
  /\ UNCHANGED <<header, last_status, sent, nacked, verdict>>

(* Mutant: after a read command the state still awaits one. *)
ReadStart_KeepsState ==
  /\ Reading
  /\ read_command(payload', CONTROL_SUCCESS)
  /\ payload_len_transmitted' = 0
  /\ bus' = "read"
  /\ UNCHANGED state

ReadStart ==
  /\ Reading
  /\ read_command(payload', CONTROL_SUCCESS)
  /\ payload_len_transmitted' = 0
  /\ state' = "READ_START"
  /\ bus' = "read"

(* A failing read is refused but leaves the state where it was. *)
ReadStartFails ==
  /\ Reading
  /\ \E ret \in ControlRet \ {CONTROL_SUCCESS} : read_command(payload', ret)
  /\ bus' = "nacked"
  /\ UNCHANGED <<state, payload_len_transmitted>>

-----------------------------------------------------------------------------
(* master_requires_data: the master is given the byte b. *)
MasterReads(b) ==
  /\ bus = "read"
  /\ Len(got) < GOT_MAX
  /\ got' = Append(got, b)
  /\ UNCHANGED <<header, payload, last_status, bus, sent, nacked, calls,
                 verdict>>

(* Mutant: the first byte is not counted. *)
ReadFirstByte_NotCounted ==
  /\ state = "READ_START"
  /\ MasterReads(payload[0])
  /\ payload_len_transmitted' = 0
  /\ state' = "READ_DATA"

ReadFirstByte ==
  /\ state = "READ_START"
  /\ MasterReads(payload[0])
  /\ payload_len_transmitted' = 1
  /\ state' = "READ_DATA"

ReadByte ==
  /\ state = "READ_DATA"
  /\ payload_len_transmitted # payload_len_from_header
  /\ payload_len_transmitted \in Index
  /\ MasterReads(payload[payload_len_transmitted])
  /\ payload_len_transmitted' = payload_len_transmitted + 1
  /\ UNCHANGED state

(* Mutant: the length is not looked at before the buffer is indexed. *)
ReadByteTraps_NoLengthTest ==
  /\ state = "READ_DATA"
  /\ bus = "read"
  /\ payload_len_transmitted \notin Index
  /\ state' = "TRAP"
  /\ UNCHANGED <<header, payload_len_transmitted, payload, last_status, bus,
                 history>>

ReadByteTraps ==
  /\ state = "READ_DATA"
  /\ bus = "read"
  /\ payload_len_transmitted # payload_len_from_header
  /\ payload_len_transmitted \notin Index
  /\ state' = "TRAP"
  /\ UNCHANGED <<header, payload_len_transmitted, payload, last_status, bus,
                 history>>

(* Beyond the reply `data' is not assigned: the adapter returns whatever   *)
(* its uninitialised result holds.                                         *)
ReadOverrun ==
  /\ \/ /\ state = "READ_DATA"
        /\ payload_len_transmitted = payload_len_from_header
        /\ state' = "READ_OVERFLOW"
     \/ state \notin {"READ_START", "READ_DATA", "TRAP"} /\ state' = "ERROR"
  /\ \E b \in Junk : MasterReads(b)
  /\ UNCHANGED payload_len_transmitted

-----------------------------------------------------------------------------
(* Mutant: a stop in the middle of the data is not noticed. *)
stop_ret_NoLengthTest ==
  CASE state = "WRITE_SIZE" ->
         IF payload_len_from_header # 0 THEN CONTROL_DATA_LENGTH_ERROR
                                        ELSE CONTROL_SUCCESS
    [] state \in {"WRITE_DATA", "READ_DATA", "WRITE_OVERFLOW",
                  "READ_OVERFLOW"} -> CONTROL_SUCCESS
    [] OTHER -> CONTROL_OTHER_TRANSPORT_ERROR

(* stop_bit: the result of control_process_i2c_stop. *)
stop_ret ==
  CASE state = "WRITE_SIZE" ->
         IF payload_len_from_header # 0 THEN CONTROL_DATA_LENGTH_ERROR
                                        ELSE CONTROL_SUCCESS
    [] state \in {"WRITE_DATA", "READ_DATA"} ->
         IF payload_len_transmitted < payload_len_from_header
         THEN CONTROL_DATA_LENGTH_ERROR ELSE CONTROL_SUCCESS
    [] state \in {"WRITE_OVERFLOW", "READ_OVERFLOW"} -> CONTROL_SUCCESS
    [] OTHER -> CONTROL_OTHER_TRANSPORT_ERROR

Stop ==
  /\ bus # "idle"
  /\ state # "TRAP"
  /\ verdict' = stop_ret
  /\ state' = "IDLE"
  /\ bus' = "idle"
  /\ UNCHANGED <<header, payload_len_transmitted, payload, last_status, sent,
                 nacked, calls, got>>

-----------------------------------------------------------------------------
(* The bytes the master goes on with, by their place in the command. *)
NextByte ==
  CASE Len(sent) = 0 -> ResidBytes
    [] Len(sent) = 1 -> CmdBytes
    [] Len(sent) = 2 -> LenBytes
    [] OTHER         -> DataBytes

MasterWrites(b) ==
  \/ SendResid(b) \/ SendCmd(b) \/ SendLength(b)
  \/ SendFirstByte(b) \/ SendByte(b) \/ SendByteTraps(b)
  \/ SendRefused(b) \/ SendOverrun(b)

Next ==
  \/ WriteStart
  \/ \E b \in NextByte : MasterWrites(b)
  \/ ReadStartRefused \/ ReadStart \/ ReadStartFails
  \/ ReadFirstByte \/ ReadByte \/ ReadByteTraps \/ ReadOverrun
  \/ Stop

Spec == Init /\ [][Next]_vars

-----------------------------------------------------------------------------
(* Type invariant of the device and of what is recorded about it. *)
TypeOK ==
  /\ state \in State
  /\ {resid, cmd} \subseteq Byte
  /\ ifnum \in IfNum
  /\ payload_len_from_header \in 0 .. I2C_DATA_MAX_BYTES
  /\ payload_len_transmitted \in 0 .. I2C_DATA_MAX_BYTES
  /\ payload \in [Index -> Byte]
  /\ {last_status, verdict} \subseteq ControlRet
  /\ bus \in Bus
  /\ sent \in Seq(Byte)
  /\ calls \in Seq(Call)
  /\ got \in Seq(Byte)
  /\ nacked \in BOOLEAN

(* What the bytes of the master say. *)
Announced     == sent[3]
HeaderSent    == Len(sent) >= 3
WriteComplete == HeaderSent /\ Len(sent) >= 3 + Announced
Overlong      == HeaderSent /\ Len(sent) > 3 + Announced

(* Every call that reaches an application task carries the resource id,    *)
(* command code, length and payload of this very command, as sent since    *)
(* the last write start, and reaches the task that registered the          *)
(* resource: no field, and no byte of the buffer, is left over from an     *)
(* earlier command that was abandoned or went wrong.                       *)
DispatchedAsSent ==
  \A k \in 1 .. Len(calls) :
    /\ WriteComplete \/ calls[k].op = "read"
    /\ calls[k].resid = sent[1]
    /\ calls[k].cmd = sent[2]
    /\ calls[k].ifnum = resource_table[sent[1]]
    /\ Len(calls[k].payload) = Announced
    /\ calls[k].op = "write" => calls[k].payload = SubSeq(sent, 4, 3 + Announced)

(* Every call is of the kind its command code says, once there is payload: *)
(* a code with the read bit never reaches write_command, nor the other way *)
(* round.                                                                  *)
KindFromReadBit ==
  \A k \in 1 .. Len(calls) :
    Announced > 0 => (calls[k].op = "read" <=> IS_CONTROL_CMD_READ(calls[k].cmd))

Successful(op) ==
  {k \in 1 .. Len(calls) : calls[k].op = op /\ calls[k].ret = CONTROL_SUCCESS}
Writes == {k \in 1 .. Len(calls) : calls[k].op = "write"}

(* One command is executed at most once: however many bytes and starts     *)
(* follow it, there is one write call at most and, after a read that       *)
(* succeeded, no further call.                                             *)
AtMostOnce ==
  /\ \A k \in Writes : k = 1
  /\ \A k \in Successful("read") : k = Len(calls)

(* The ACKs tell the truth about a write command: when the whole of it was *)
(* acknowledged, the task has executed it successfully.                    *)
AckedWriteExecuted ==
  WriteComplete /\ ~Overlong /\ ~nacked => Successful("write") # {}

(* And so does a NACK before the end: the write command had no success. *)
NackedWriteNotExecuted ==
  nacked /\ ~Overlong => Successful("write") = {}

(* The master that reads gets, byte for byte and up to the length it asked *)
(* for, the reply of the one read call that succeeded, or the version of   *)
(* the protocol.                                                           *)
ReadIntegrity ==
  \A k \in 1 .. Len(got) :
    k <= Announced =>
      IF sent[1] = CONTROL_SPECIAL_RESID
      THEN sent[2] = CONTROL_GET_VERSION => got[k] = CONTROL_VERSION
      ELSE \E m \in Successful("read") : got[k] = calls[m].payload[k]

(* control_process_i2c_stop reports success only for a transaction that    *)
(* carried all the data announced, in the direction announced.             *)
StopDetectsTruncation ==
  bus = "idle" /\ HeaderSent /\ verdict = CONTROL_SUCCESS =>
    IF IS_CONTROL_CMD_READ(sent[2])
    THEN Len(got) >= Announced
    ELSE WriteComplete

(* What the message in control_process_i2c_write_data says: data beyond    *)
(* the length of the header is discarded, not stored.                      *)
OverrunDiscarded ==
  state = "WRITE_DATA" => payload_len_transmitted <= payload_len_from_header

(* A command that announces a payload never indexes outside the buffer,    *)
(* however many bytes the master goes on to write or read.                 *)
TrapsOnlyWithoutPayload ==
  state = "TRAP" => payload_len_from_header = 0
=============================================================================
