------------------------------ MODULE SPIHost -------------------------------
(***************************************************************************)
(* The SPI host, a Raspberry Pi, as the master of SPIDevice.  A read is    *)
(* two transactions, the header and the reply; a write is one, and the     *)
(* read of the status after it.  Nothing on the bus tells the host what    *)
(* the device made of it.                                                  *)
(*                                                                         *)
(* The SPI slave and the bus driver are not part of the repository.  Of    *)
(* them: in a transaction of n bytes the device is asked n times for a     *)
(* byte, each time before it is given the byte shifted in at the same      *)
(* time, and at most AHEAD bytes earlier.                                  *)
(***************************************************************************)
EXTENDS SPIDevice

CONSTANT AHEAD      \* how early the slave asks

SPI_TRANSACTION_MAX_BYTES == SPI_DATA_MAX_BYTES + 3
HEADER_BYTES == 8   \* of a read: the header proper and five zeros

ASSUME HostAssumption ==
  /\ AHEAD \in 0 .. (HEADER_BYTES - 4)
  /\ SPI_TRANSACTION_MAX_BYTES >= HEADER_BYTES

VARIABLES
  pc,               \* idle, or in the first or second transaction
  goal,             \* of a command of this kind
  todo,             \* the bytes to be shifted in,
  slots,            \* and the number of those to be shifted out, still
  request,          \* what the user asked for
  result,           \* what the user was told
  log               \* the calls made since the user asked

user     == <<request, result, log>>
hostVars == <<vars, pc, goal, todo, slots, user>>

(* `null': was the payload a null pointer? *)
Request == [op : {"write", "read"}, resid : Byte, cmd : Byte, len : Byte,
            data : Seq(Byte), null : BOOLEAN]

NoResult == [ret |-> CONTROL_ERROR, data |-> <<>>]

HostInit ==
  /\ Init
  /\ pc = "idle" /\ goal = "read" /\ todo = <<>> /\ slots = 0
  /\ request = [op |-> "read", resid |-> 0, cmd |-> 0, len |-> 0, data |-> <<>>,
                null |-> FALSE]
  /\ result = NoResult /\ log = <<>>

Zeros(n) == [k \in 1 .. n |-> 0]

-----------------------------------------------------------------------------
(* Mutants: the length is not compared with the limit; a write is padded   *)
(* like a read.                                                            *)
control_build_spi_data_Unlimited(r) ==
  <<r.resid, r.cmd, r.len>> \o
    (IF IS_CONTROL_CMD_READ(r.cmd) \/ r.null THEN Zeros(5) ELSE r.data)

control_build_spi_data_Padded(r) ==
  IF r.len > SPI_TRANSACTION_MAX_BYTES THEN <<>>
  ELSE <<r.resid, r.cmd, r.len>> \o
         (IF IS_CONTROL_CMD_READ(r.cmd) \/ r.null THEN Zeros(5)
          ELSE r.data \o Zeros(5 - r.len))

control_build_spi_data(r) ==
  IF r.len > SPI_TRANSACTION_MAX_BYTES
  THEN <<>>
  ELSE <<r.resid, r.cmd, r.len>> \o
         (IF IS_CONTROL_CMD_READ(r.cmd) \/ r.null THEN Zeros(5) ELSE r.data)

StatusRequest ==
  [op |-> "read", resid |-> CONTROL_SPECIAL_RESID,
   cmd |-> CONTROL_GET_LAST_COMMAND_STATUS, len |-> 1, data |-> <<0>>, null |-> FALSE]

(* bcm2835_spi_transfern.  One of no bytes may still select the device. *)
Transfer(bytes) ==
  /\ todo' = bytes
  /\ slots' \in IF bytes = <<>> THEN {0, 1} ELSE {Len(bytes)}

Asks(r) ==
  /\ pc' = "first"
  /\ goal' = r.op
  /\ request' = r
  /\ Transfer(control_build_spi_data(r))
  /\ result' = NoResult /\ log' = <<>>
  /\ UNCHANGED vars

(* The code is sent as it is.  A payload of SPI_DATA_MAX_BYTES + 1 bytes   *)
(* up to SPI_TRANSACTION_MAX_BYTES would overflow the buffer of the host;  *)
(* of a longer one no byte is looked at.                                   *)
control_write_command ==
  /\ pc = "idle"
  /\ \E res \in ResidBytes, c \in CmdBytes, len \in LenBytes, null \in BOOLEAN :
       \E data \in IF len > SPI_TRANSACTION_MAX_BYTES
                  THEN {Zeros(len)} ELSE [1 .. len -> DataBytes] :
         /\ len <= SPI_DATA_MAX_BYTES \/ len > SPI_TRANSACTION_MAX_BYTES
         /\ Asks([op |-> "write", resid |-> res, cmd |-> c, len |-> len, data |-> data,
                   null |-> null])

(* The buffer of the user goes through the builder as well. *)
control_read_command ==
  /\ pc = "idle"
  /\ \E res \in ResidBytes, c \in CmdBytes, len \in LenBytes :
       /\ len <= SPI_DATA_MAX_BYTES
       /\ Asks([op |-> "read", resid |-> res, cmd |-> c, len |-> len, data |-> Zeros(len),
                 null |-> FALSE])

-----------------------------------------------------------------------------
(* The calls of the device's step are added to those of the request. *)
Logged == log' = log \o SubSeq(calls', Len(calls) + 1, Len(calls'))

ShiftsIn ==
  /\ todo # <<>> /\ slots < Len(todo)
  /\ MasterSupplies(Head(todo))
  /\ todo' = Tail(todo)
  /\ Logged
  /\ UNCHANGED <<pc, goal, slots, request, result>>

ShiftsOut ==
  /\ slots > 0 /\ Len(todo) - slots <= AHEAD
  /\ RequireReply \/ RequireReplyByte \/ RequireNothing
  /\ slots' = slots - 1
  /\ Logged
  /\ UNCHANGED <<pc, goal, todo, request, result>>

(* The transaction ends; a device that was never selected does not notice. *)
Deselects ==
  /\ pc # "idle" /\ todo = <<>> /\ slots = 0
  /\ IF active
     THEN EndOfWrite \/ EndOfReadHeader \/ EndOfAnythingElse
     ELSE UNCHANGED vars
  /\ Logged

WriteSent ==
  /\ Deselects
  /\ pc = "first" /\ goal = "write"
  /\ goal' = "query"
  /\ Transfer(control_build_spi_data(StatusRequest))
  /\ UNCHANGED <<pc, request, result>>

Wanted == IF goal = "query" THEN StatusRequest.len ELSE request.len

(* Mutant: the reply is expected in the transaction of the header. *)
HeaderSent_NoReply ==
  /\ Deselects
  /\ pc = "first" /\ goal \in {"read", "query"}
  /\ pc' = "idle"
  /\ result' = [ret |-> CONTROL_SUCCESS, data |-> SubSeq(out, 1, Wanted)]
  /\ UNCHANGED <<goal, todo, slots, request>>

HeaderSent ==
  /\ Deselects
  /\ pc = "first" /\ goal \in {"read", "query"}
  /\ pc' = "second"
  /\ Transfer(Zeros(IF Wanted < HEADER_BYTES THEN HEADER_BYTES ELSE Wanted))
  /\ UNCHANGED <<goal, request, result>>

(* Mutant: the reply is looked for one byte too late. *)
ReplyTaken_OffByOne ==
  /\ Deselects
  /\ pc = "second" /\ pc' = "idle"
  /\ result' = IF goal = "query"
               THEN [ret |-> out[1], data |-> <<>>]
               ELSE [ret |-> CONTROL_SUCCESS, data |-> SubSeq(out, 2, Wanted + 1)]
  /\ UNCHANGED <<goal, todo, slots, request>>

ReplyTaken ==
  /\ Deselects
  /\ pc = "second" /\ pc' = "idle"
  /\ result' = IF goal = "query"
               THEN [ret |-> out[1], data |-> <<>>]
               ELSE [ret |-> CONTROL_SUCCESS, data |-> SubSeq(out, 1, Wanted)]
  /\ UNCHANGED <<goal, todo, slots, request>>

HostNext ==
  \/ control_write_command \/ control_read_command
  \/ ShiftsIn \/ ShiftsOut \/ WriteSent \/ HeaderSent \/ ReplyTaken

HostSpec == HostInit /\ [][HostNext]_hostVars

-----------------------------------------------------------------------------
(* Type invariant of the host and of the device it drives.  A message fits *)
(* the buffer it is built in.                                              *)
HostTypeOK ==
  /\ TypeOK
  /\ pc \in {"idle", "first", "second"}
  /\ goal \in {"write", "read", "query"}
  /\ todo \in Seq(Byte) /\ Len(todo) <= SPI_TRANSACTION_MAX_BYTES
  /\ slots \in 0 .. SPI_TRANSACTION_MAX_BYTES
  /\ request \in Request
  /\ result \in [ret : Byte, data : Seq(Byte)]
  /\ log \in Seq(Call)

(* The requests for a registered resource, with a payload that fits and a  *)
(* code of the kind of the function.                                       *)
Legal ==
  {r \in Request :
     /\ Known(r.resid)
     /\ r.op = "read" <=> IS_CONTROL_CMD_READ(r.cmd)
     /\ r.len <= SPI_DATA_MAX_BYTES
     /\ ~r.null}

Service == INSTANCE ControlService WITH
  busy <- pc # "idle",
  Promised <- {r \in Legal : r.op = "write"}

(* What the two functions promise for such a write: one call, the one      *)
(* asked for, and no success without it.  The status of an earlier command *)
(* is never taken for this one's.  (A read tells success in any case.)     *)
ImplementsControlService == Service!Spec

(* Every legal command is executed, once, as asked, however the bytes in   *)
(* and out interleave and whatever the user did before: codes of the wrong *)
(* kind, unknown resources, payloads too long.  The status returned is the *)
(* result of that call, the data are its reply, also when it failed.       *)
ResultOfThisCommand ==
  pc = "idle" /\ request \in Legal =>
    /\ Len(log) = 1
    /\ Service!Serves(log[1], request)
    /\ request.op = "write" => result.ret = log[1].ret
    /\ request.op = "read"  => result.data = log[1].payload

(* Host and device stay in step: the transaction that swallows what is     *)
(* shifted in is always the second one of a read, so between two commands  *)
(* the device waits for a header.                                          *)
InStep == pc = "idle" => state = "IDLE" /\ ~active

(* What the documentation says: the host is told whether the device has    *)
(* received the command, so a success is a write that was executed.        *)
SuccessMeansExecuted ==
  /\ pc = "idle" /\ goal = "query"
  /\ result.ret = CONTROL_SUCCESS
  => log # <<>>
=============================================================================
