----------------------------- MODULE SPIDevice -----------------------------
(***************************************************************************)
(* The SPI transport of a device: the callbacks control_process_spi_*, as  *)
(* spi_control_client makes them for the SPI slave (and drops what they    *)
(* return).  A write command is one transaction: resource id, command      *)
(* code, length and payload.  A read command is two: the header, padded    *)
(* with zeros, and one in which the reply is shifted out.                  *)
(*                                                                         *)
(* SPI is full duplex: during a transaction the slave both takes bytes     *)
(* (master_supplied_data) and asks for bytes (master_requires_data), in an *)
(* order the library does not rely on.  The master may end a transaction   *)
(* anywhere.                                                               *)
(***************************************************************************)
EXTENDS Control

CONSTANTS
  resource_table,       \* as control_register_resources left it
  SPI_DATA_MAX_BYTES,   \* capacity of spi.payload (253)
  ResidBytes,           \* what the master sends as resource id,
  CmdBytes,             \* as command code,
  LenBytes,             \* as payload length,
  DataBytes,            \* and after that
  AppBytes,             \* what the application replies to a read
  AppRet,               \* what the application returns
  FRAME_MAX,            \* bound: bytes taken in a transaction
  OUT_MAX               \* bound: bytes given in a transaction

ASSUME SPIAssumption ==
  /\ resource_table \in ResTable
  /\ SPI_DATA_MAX_BYTES \in Nat \ {0}
  /\ CONTROL_SPECIAL_RESID < RESOURCE_TABLE_MAX
  /\ ResidBytes \cup CmdBytes \cup LenBytes \cup DataBytes \subseteq Byte
  /\ AppBytes \subseteq Byte
  /\ AppRet \subseteq ControlRet
  /\ {FRAME_MAX, OUT_MAX} \subseteq Nat

VARIABLES
  state,                     \* the fields of the struct spi
  resid,
  cmd,
  ifnum,
  payload_len_from_header,
  payload_len_transmitted,
  payload,
  last_status,               \* the result kept for the status command
  active,                    \* is the device selected?
  frame,                     \* bytes of the command in this transaction
  calls,                     \* calls made for it
  asked,                     \* reply of the read command it made, if any
  owed,                      \* the reply to be shifted out, if any
  out,                       \* bytes given in this transaction
  write_ret                  \* result of the last write_command

header  == <<resid, cmd, ifnum, payload_len_from_header>>
spi     == <<state, header, payload_len_transmitted, payload>>
history == <<active, frame, calls, asked, owed, out, write_ret>>
vars    == <<spi, last_status, history>>

(* TRAP: xC found an index outside an array and stopped the tile. *)
State == {"IDLE", "RES_RECVD", "WRITE_CMD_RECVD", "WRITE_DATA",
          "READ_CMD_RECVD", "READ_DATA_START", "READ_DATA_WAIT", "READ_DATA",
          "ERROR", "PAYLOAD_ERROR", "TRAP"}

Index == 0 .. (SPI_DATA_MAX_BYTES - 1)

(* The first len bytes of the buffer p; what lies behind p is not followed. *)
Prefix(p, len) == [k \in 1 .. len |-> IF k - 1 \in Index THEN p[k - 1] ELSE 0]

(* A reply, or none. *)
NoReply     == [some |-> FALSE, data |-> <<>>]
Reply(data) == [some |-> TRUE, data |-> data]

-----------------------------------------------------------------------------
Zeroed == [k \in Index |-> 0]

Init ==
  /\ state = "IDLE"
  /\ resid = 0 /\ cmd = 0 /\ ifnum = 0
  /\ payload_len_from_header = 0 /\ payload_len_transmitted = 0
  /\ payload = Zeroed
  /\ last_status = CONTROL_SUCCESS
  /\ active = FALSE
  /\ frame = <<>> /\ calls = <<>> /\ out = <<>>
  /\ asked = NoReply /\ owed = NoReply
  /\ write_ret = CONTROL_SUCCESS

(* Mutant: the counter survives. *)
memset_KeepsCount ==
  /\ state' = "IDLE"
  /\ resid' = 0 /\ cmd' = 0 /\ ifnum' = 0
  /\ payload_len_from_header' = 0 /\ UNCHANGED payload_len_transmitted
  /\ payload' = Zeroed

(* memset(&spi, 0, sizeof(spi)) *)
memset ==
  /\ state' = "IDLE"
  /\ resid' = 0 /\ cmd' = 0 /\ ifnum' = 0
  /\ payload_len_from_header' = 0 /\ payload_len_transmitted' = 0
  /\ payload' = Zeroed

-----------------------------------------------------------------------------
(* master_supplied_data, for valid_bits = 8 (anything else is ignored).    *)
(* While a reply is awaited, a byte other than the zero padding begins a   *)
(* new command.                                                            *)
Restarts(b) == state = "READ_DATA_WAIT" /\ b # 0

Supplied(b) ==
  /\ state # "TRAP"
  /\ active => Len(frame) < FRAME_MAX
  /\ active' = TRUE
  /\ IF active
     THEN UNCHANGED <<owed, out>>
     ELSE owed' = asked /\ out' = <<>>
  /\ IF active /\ ~Restarts(b)
     THEN frame' = Append(frame, b) /\ UNCHANGED <<calls, asked>>
     ELSE frame' = <<b>> /\ calls' = <<>> /\ asked' = NoReply
  /\ UNCHANGED <<last_status, write_ret>>

Search(b) ==
  resource_table_search(resource_table, {CONTROL_SPECIAL_RESID}, b)

(* The fields other than state, resid and ifnum when a command begins. *)
Begin(b) ==
  IF Restarts(b)
  THEN /\ cmd' = 0 /\ payload_len_from_header' = 0
       /\ payload_len_transmitted' = 0 /\ payload' = Zeroed
  ELSE UNCHANGED <<cmd, payload_len_from_header, payload_len_transmitted, payload>>

SupplyResid(b) ==
  /\ state = "IDLE" \/ Restarts(b)
  /\ \E k \in Search(b) : ifnum' = k
  /\ resid' = b
  /\ state' = "RES_RECVD"
  /\ Begin(b)
  /\ Supplied(b)

SupplyUnknownResid(b) ==
  /\ state = "IDLE" \/ Restarts(b)
  /\ Search(b) = {}
  /\ IF Restarts(b) THEN resid' = 0 /\ ifnum' = 0 ELSE UNCHANGED <<resid, ifnum>>
  /\ state' = "ERROR"
  /\ Begin(b)
  /\ Supplied(b)

SupplyCmd(b) ==
  /\ state = "RES_RECVD"
  /\ cmd' = b
  /\ state' = IF IS_CONTROL_CMD_READ(b) THEN "READ_CMD_RECVD" ELSE "WRITE_CMD_RECVD"
  /\ Supplied(b)
  /\ UNCHANGED <<resid, ifnum, payload_len_from_header,
                 payload_len_transmitted, payload>>

SupplyLength(b) ==
  /\ \/ state = "READ_CMD_RECVD"  /\ state' = "READ_DATA_START"
     \/ state = "WRITE_CMD_RECVD" /\ state' = "WRITE_DATA"
  /\ payload_len_from_header' = b
  /\ Supplied(b)
  /\ UNCHANGED <<resid, cmd, ifnum, payload_len_transmitted, payload>>

(* Mutant: only the length of the header is looked at. *)
Room_NoCapacityTest == payload_len_transmitted < payload_len_from_header

Room == payload_len_transmitted < payload_len_from_header
        /\ payload_len_transmitted < SPI_DATA_MAX_BYTES

SupplyData(b) ==
  /\ state = "WRITE_DATA"
  /\ IF Room
     THEN payload' = [payload EXCEPT ![payload_len_transmitted] = b]
          /\ UNCHANGED state
     ELSE state' = "PAYLOAD_ERROR" /\ UNCHANGED payload
  /\ payload_len_transmitted' = payload_len_transmitted + 1
  /\ Supplied(b)
  /\ UNCHANGED header

SupplyExcess(b) ==
  /\ state = "PAYLOAD_ERROR"
  /\ payload_len_transmitted' = payload_len_transmitted + 1
  /\ Supplied(b)
  /\ UNCHANGED <<state, header, payload>>

(* Padding, and whatever the master says in the transaction of a reply. *)
SupplyIgnored(b) ==
  /\ state \in {"READ_DATA_START", "READ_DATA_WAIT", "READ_DATA", "ERROR"}
  /\ ~Restarts(b)
  /\ Supplied(b)
  /\ UNCHANGED spi

-----------------------------------------------------------------------------
(* master_requires_data: the master is given the byte b. *)
Requires(b) ==
  /\ active => Len(out) < OUT_MAX
  /\ active' = TRUE
  /\ IF active
     THEN out' = Append(out, b) /\ UNCHANGED <<frame, owed>>
     ELSE out' = <<b>> /\ frame' = <<>> /\ owed' = asked
  /\ UNCHANGED <<header, last_status, write_ret>>

NoCall ==
  IF active THEN UNCHANGED <<calls, asked>> ELSE calls' = <<>> /\ asked' = NoReply

(* read_command leaves a reply in the buffer p.  An application that fails *)
(* may or may not have written to it.                                      *)
read_command(p, ret) ==
  IF resid = CONTROL_SPECIAL_RESID
  THEN /\ ret = special_read_ret(cmd, payload_len_from_header)
       /\ p = IF ret = CONTROL_SUCCESS
              THEN [payload EXCEPT ![0] = special_read_byte(cmd, last_status)]
              ELSE payload
       /\ UNCHANGED calls
  ELSE /\ ret \in AppRet
       /\ \/ \E reply \in [Index -> AppBytes] :
               p = [k \in Index |-> IF k < payload_len_from_header
                                    THEN reply[k] ELSE payload[k]]
          \/ p = payload /\ ret # CONTROL_SUCCESS
       /\ calls' = Append(calls, ReadCall(ifnum, resid, cmd,
                     Prefix(p, payload_len_from_header), ret))

(* Mutant: the reply is fetched again for every byte of padding. *)
RequireReply_EveryTime ==
  /\ state = "READ_DATA_START"
  /\ \E ret \in ControlRet : read_command(payload', ret)
  /\ UNCHANGED state
  /\ asked' = Reply(Prefix(payload', payload_len_from_header))
  /\ Requires(0)
  /\ UNCHANGED payload_len_transmitted

(* The reply is fetched by the first request after the header.  Nothing    *)
(* compares the length with the buffer: when it is longer, the call of the *)
(* application task may trap.                                              *)
RequireReply ==
  /\ state = "READ_DATA_START"
  /\ \E ret \in ControlRet : read_command(payload', ret)
  /\ \/ state' = "READ_DATA_WAIT"
     \/ /\ payload_len_from_header > SPI_DATA_MAX_BYTES
        /\ resid # CONTROL_SPECIAL_RESID
        /\ state' = "TRAP"
  /\ asked' = Reply(Prefix(payload', payload_len_from_header))
  /\ Requires(0)
  /\ UNCHANGED payload_len_transmitted

(* Mutant: the bytes shifted out are not counted. *)
RequireReplyByte_NotCounted ==
  /\ state = "READ_DATA"
  /\ Room
  /\ Requires(payload[payload_len_transmitted])
  /\ NoCall
  /\ UNCHANGED <<state, payload_len_transmitted, payload>>

RequireReplyByte ==
  /\ state = "READ_DATA"
  /\ Room
  /\ Requires(payload[payload_len_transmitted])
  /\ payload_len_transmitted' = payload_len_transmitted + 1
  /\ NoCall
  /\ UNCHANGED <<state, payload>>

RequireNothing ==
  /\ \/ state \notin {"READ_DATA_START", "READ_DATA", "TRAP"}
     \/ state = "READ_DATA" /\ ~Room
  /\ Requires(0)
  /\ NoCall
  /\ UNCHANGED <<state, payload_len_transmitted, payload>>

-----------------------------------------------------------------------------
(* master_ends_transaction *)
IsWrite(f) == Len(f) >= 3 /\ ~IS_CONTROL_CMD_READ(f[2])

Ends ==
  /\ active
  /\ active' = FALSE
  /\ UNCHANGED <<frame, asked, owed, out>>

(* Mutants: a write cut short is executed; a write to the special resource *)
(* leaves the status alone.                                                *)
EndOfWrite_NoLengthTest ==
  /\ state = "WRITE_DATA"
  /\ resid # CONTROL_SPECIAL_RESID
  /\ \E ret \in AppRet :
       /\ last_status' = ret
       /\ calls' = Append(calls, WriteCall(ifnum, resid, cmd,
                     Prefix(payload, payload_len_transmitted), ret))
  /\ write_ret' = last_status'
  /\ memset
  /\ Ends

EndOfWrite_SpecialForgotten ==
  /\ state = "WRITE_DATA"
  /\ payload_len_transmitted >= payload_len_from_header
  /\ resid = CONTROL_SPECIAL_RESID
  /\ write_ret' = CONTROL_BAD_COMMAND
  /\ memset
  /\ Ends
  /\ UNCHANGED <<last_status, calls>>

EndOfWrite ==
  /\ state = "WRITE_DATA"
  /\ payload_len_transmitted >= payload_len_from_header
  /\ IF resid = CONTROL_SPECIAL_RESID
     THEN last_status' = CONTROL_BAD_COMMAND /\ UNCHANGED calls
     ELSE \E ret \in AppRet :
            /\ last_status' = ret
            /\ calls' = Append(calls, WriteCall(ifnum, resid, cmd,
                          Prefix(payload, payload_len_transmitted), ret))
  /\ write_ret' = last_status'
  /\ memset
  /\ Ends

(* The reply is ready: it is shifted out in the next transaction. *)
EndOfReadHeader ==
  /\ state = "READ_DATA_WAIT"
  /\ state' = "READ_DATA"
  /\ Ends
  /\ UNCHANGED <<header, payload_len_transmitted, payload, last_status, calls,
                 write_ret>>

(* Mutant: only the state goes back. *)
EndOfAnythingElse_StateOnly ==
  /\ state \notin {"READ_DATA_WAIT", "TRAP"}
  /\ ~(state = "WRITE_DATA" /\ payload_len_transmitted >= payload_len_from_header)
  /\ state' = "IDLE"
  /\ Ends
  /\ UNCHANGED <<header, payload_len_transmitted, payload, last_status, calls,
                 write_ret>>

(* Everything else is forgotten, a write command cut short or too long     *)
(* included.                                                               *)
EndOfAnythingElse ==
  /\ state \notin {"READ_DATA_WAIT", "TRAP"}
  /\ ~(state = "WRITE_DATA" /\ payload_len_transmitted >= payload_len_from_header)
  /\ memset
  /\ Ends
  /\ UNCHANGED <<last_status, calls, write_ret>>

-----------------------------------------------------------------------------
(* The bytes the master goes on with, by their place in the command. *)
NextByte ==
  CASE ~active \/ frame = <<>> -> ResidBytes
    [] active /\ Len(frame) = 1 -> CmdBytes
    [] active /\ Len(frame) = 2 -> LenBytes
    [] OTHER                    -> DataBytes

MasterSupplies(b) ==
  \/ SupplyResid(b) \/ SupplyUnknownResid(b) \/ SupplyCmd(b)
  \/ SupplyLength(b) \/ SupplyData(b) \/ SupplyExcess(b) \/ SupplyIgnored(b)

Next ==
  \/ \E b \in NextByte : MasterSupplies(b)
  \/ RequireReply \/ RequireReplyByte \/ RequireNothing
  \/ EndOfWrite \/ EndOfReadHeader \/ EndOfAnythingElse

Spec == Init /\ [][Next]_vars

-----------------------------------------------------------------------------
(* Type invariant of the device and of what is recorded about it. *)
TypeOK ==
  /\ state \in State
  /\ {resid, cmd, payload_len_from_header} \subseteq Byte
  /\ ifnum \in IfNum
  /\ payload_len_transmitted \in Nat
  /\ state \in {"WRITE_DATA", "READ_DATA"} =>
       payload_len_transmitted <= SPI_DATA_MAX_BYTES
  /\ payload \in [Index -> Byte]
  /\ {last_status, write_ret} \subseteq ControlRet
  /\ active \in BOOLEAN
  /\ frame \in Seq(Byte)
  /\ calls \in Seq(Call)
  /\ out \in Seq(Byte)
  /\ {asked, owed} \subseteq [some : BOOLEAN, data : Seq(Byte)]

(* Every call that reaches an application task carries the resource id,    *)
(* command code, length and payload of the command in hand, is of the kind *)
(* its read bit says, and reaches the task that registered the resource;   *)
(* a write is exactly as long as its transaction.                          *)
DispatchedAsSent ==
  \A k \in 1 .. Len(calls) :
    /\ Len(frame) >= 3
    /\ calls[k].resid = frame[1]
    /\ calls[k].cmd = frame[2]
    /\ calls[k].ifnum = resource_table[frame[1]]
    /\ calls[k].op = "read" <=> IS_CONTROL_CMD_READ(frame[2])
    /\ Len(calls[k].payload) = frame[3]
    /\ calls[k].op = "write" => calls[k].payload = SubSeq(frame, 4, Len(frame))

(* A command makes one call at most, however the requests for data are     *)
(* interleaved with its bytes.                                             *)
OneCallPerCommand == Len(calls) <= 1

Known(res) == res # CONTROL_SPECIAL_RESID /\ Search(res) # {}

(* A write transaction is executed if and only if it carries all the data  *)
(* its header announces and no more, fits the buffer, and does not take    *)
(* the place of the transaction in which a reply is shifted out.           *)
ExecutedIffComplete ==
  ~active /\ IsWrite(frame) /\ Known(frame[1]) =>
    (calls # <<>> <=> /\ ~owed.some
                      /\ Len(frame) = 3 + frame[3]
                      /\ frame[3] <= SPI_DATA_MAX_BYTES)

(* The transaction after the header of a read command gives the master the *)
(* reply of that command and then zeros; all others give zeros only.       *)
ReplyThenZeros ==
  \A k \in 1 .. Len(out) :
    out[k] = IF k <= Len(owed.data) THEN owed.data[k] ELSE 0

(* Between transactions the device is idle, with nothing left over from    *)
(* the last one, unless that was the header of a read command whose reply  *)
(* is due: whatever the master does, two transactions later the device     *)
(* takes commands again.                                                   *)
BetweenTransactions ==
  ~active /\ state # "TRAP" =>
    IF asked.some
    THEN state = "READ_DATA" /\ payload_len_transmitted = 0
    ELSE /\ state = "IDLE"
         /\ payload_len_from_header = 0 /\ payload_len_transmitted = 0
         /\ payload = Zeroed

StatusQuery ==
  /\ Len(frame) >= 3
  /\ frame[1] = CONTROL_SPECIAL_RESID
  /\ frame[2] = CONTROL_GET_LAST_COMMAND_STATUS
  /\ frame[3] = 1
  /\ asked.some

(* The reply to the status command is the result of the last write_command *)
(* that was executed or refused by the special resource.                   *)
StatusOfLastExecuted == StatusQuery => asked.data = <<write_ret>>
=============================================================================
