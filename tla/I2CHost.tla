------------------------------ MODULE I2CHost -------------------------------
(***************************************************************************)
(* The I2C hosts, a Raspberry Pi ("rpi") and an xCORE ("xcore"), as the    *)
(* master of I2CDevice.  A write is one transfer, followed by a read of    *)
(* the status; a read is a header, a repeated start and the reply.         *)
(*                                                                         *)
(* The drivers of the bus are not part of the repository.  Of them: a byte *)
(* that is not acknowledged fails the transfer, and a transfer may fail by *)
(* itself at any time, with a stop on the bus or without one.              *)
(***************************************************************************)
EXTENDS I2CDevice

CONSTANT Drivers    \* the hosts in question

I2C_TRANSACTION_MAX_BYTES == I2C_DATA_MAX_BYTES + 3

ASSUME HostAssumption ==
  /\ Drivers \subseteq {"rpi", "xcore"}
  /\ CONTROL_SPECIAL_RESID = 0        \* which control_init_i2c writes out as a number

VARIABLES
  driver,           \* which of the hosts this is
  pc,               \* how far it is with a transfer
  goal,             \* what the transfer is for
  todo,             \* the bytes it has still to write
  request,          \* what the user asked for, with the code that is sent
  result,           \* what the user was told
  log,              \* the calls made since the user asked
  faulty            \* did the bus fail meanwhile?

user     == <<request, result, log, faulty>>
hostVars == <<vars, driver, pc, goal, todo, user>>

Pc   == {"closed", "idle", "start", "sending", "taking"}
Goal == {"init", "write", "query", "read"}

Request == [op : {"write", "read"}, resid : Byte, cmd : Byte, len : Byte,
            data : Seq(Byte)]

NoResult == [ret |-> CONTROL_ERROR, data |-> <<>>]

HostInit ==
  /\ Init
  /\ driver \in Drivers
  /\ pc = "closed" /\ goal = "init" /\ todo = <<>>
  /\ request = [op |-> "write", resid |-> 0, cmd |-> 0, len |-> 0, data |-> <<>>]
  /\ result = NoResult /\ log = <<>> /\ faulty = FALSE

-----------------------------------------------------------------------------
(* Mutants: the length is not compared with the limit; the copy of the     *)
(* payload goes one byte too far.                                          *)
control_build_i2c_data_Unlimited(r) ==
  <<r.resid, r.cmd, r.len>> \o (IF IS_CONTROL_CMD_READ(r.cmd) THEN <<>> ELSE r.data)

control_build_i2c_data_OneMore(r) ==
  IF r.len > I2C_DATA_MAX_BYTES
  THEN <<>>
  ELSE <<r.resid, r.cmd, r.len>>
         \o (IF IS_CONTROL_CMD_READ(r.cmd) \/ r.data = <<>> THEN <<>>
             ELSE r.data \o <<0>>)

(* A payload that is NULL is an empty one here, whatever its length. *)
control_build_i2c_data(r) ==
  IF r.len > I2C_DATA_MAX_BYTES
  THEN <<>>
  ELSE <<r.resid, r.cmd, r.len>>
         \o (IF IS_CONTROL_CMD_READ(r.cmd) THEN <<>> ELSE r.data)

StatusQuery ==
  [op |-> "read", resid |-> CONTROL_SPECIAL_RESID,
   cmd |-> CONTROL_GET_LAST_COMMAND_STATUS, len |-> 1, data |-> <<0>>]

(* Only the Raspberry Pi writes something: the version, which can only be  *)
(* read, so the device refuses the last byte.                              *)
control_init_i2c ==
  /\ pc \in {"closed", "idle"}
  /\ goal' = "init"
  /\ IF driver = "rpi"
     THEN pc' = "start" /\ todo' = <<0, 0, 0>>
     ELSE pc' = "idle" /\ todo' = <<>>
  /\ UNCHANGED <<vars, driver, user>>

Begin(r) ==
  /\ pc' = "start"
  /\ goal' = r.op
  /\ request' = r
  /\ todo' = control_build_i2c_data(r)
  /\ result' = NoResult /\ log' = <<>> /\ faulty' = FALSE
  /\ UNCHANGED <<vars, driver>>

(* Only the xCORE sets or clears the read bit; the Raspberry Pi sends the  *)
(* code as it is.                                                          *)
control_write_command ==
  /\ pc = "idle"
  /\ \E res \in ResidBytes, c \in CmdBytes, len \in LenBytes :
       \E data \in [1 .. len -> DataBytes] \cup {<<>>} :
         Begin([op |-> "write", resid |-> res, len |-> len, data |-> data,
                cmd |-> IF driver = "rpi" THEN c ELSE CONTROL_CMD_SET_WRITE(c)])

(* The buffer of the user goes through the builder as well. *)
control_read_command ==
  /\ pc = "idle"
  /\ \E res \in ResidBytes, c \in CmdBytes, len \in LenBytes :
       Begin([op |-> "read", resid |-> res, len |-> len, data |-> [k \in 1 .. len |-> 0],
              cmd |-> IF driver = "rpi" THEN c ELSE CONTROL_CMD_SET_READ(c)])

-----------------------------------------------------------------------------
Returns(res) == pc' = "idle" /\ result' = res /\ todo' = <<>>

(* Mutant: the result of a transfer that failed is not looked at. *)
Fails_Ignored ==
  /\ Returns(IF goal = "init" THEN result ELSE [ret |-> CONTROL_SUCCESS, data |-> got])
  /\ UNCHANGED <<driver, goal, request, log>>

(* The transfer failed.  control_init_i2c does not look at that, and the   *)
(* xCORE does not either when it reads the status, which is then unset.    *)
Fails ==
  /\ CASE goal = "init" -> Returns(result)
       [] goal = "query" /\ driver = "xcore" ->
            \E x \in Junk : Returns([ret |-> x, data |-> <<>>])
       [] OTHER -> Returns(NoResult)
  /\ UNCHANGED <<driver, goal, request, log>>

(* The calls of the device's step are added to those of the request. *)
Logged == log' = log \o SubSeq(calls', Len(calls) + 1, Len(calls'))

(* A header of a length other than three is not transferred by the         *)
(* Raspberry Pi, nor is anything beyond the limit.                         *)
HeaderRefused == driver = "rpi" /\ goal = "read" /\ Len(todo) # 3

ReadRefused ==
  /\ pc = "start" /\ HeaderRefused
  /\ Fails
  /\ UNCHANGED <<vars, faulty>>

Start ==
  /\ pc = "start" /\ ~HeaderRefused
  /\ WriteStart
  /\ pc' = "sending"
  /\ UNCHANGED <<driver, goal, todo, user>>

Sends ==
  /\ pc = "sending" /\ todo # <<>> /\ ~nacked
  /\ MasterWrites(Head(todo))
  /\ todo' = Tail(todo)
  /\ Logged
  /\ UNCHANGED <<driver, pc, goal, request, result, faulty>>

LetsGo == Stop \/ UNCHANGED vars

NotAcknowledged ==
  /\ \/ pc = "sending" /\ nacked
     \/ pc = "taking" /\ bus = "nacked"
  /\ LetsGo
  /\ Fails
  /\ UNCHANGED faulty

AllSent == pc = "sending" /\ todo = <<>> /\ ~nacked

WriteSent ==
  /\ AllSent /\ goal = "write"
  /\ Stop
  /\ pc' = "start" /\ goal' = "query"
  /\ todo' = control_build_i2c_data(StatusQuery)
  /\ UNCHANGED <<driver, user>>

(* The repeated start. *)
Turns ==
  /\ AllSent /\ goal \in {"read", "query"}
  /\ ReadStart \/ ReadStartFails \/ ReadStartRefused
  /\ pc' = "taking"
  /\ Logged
  /\ UNCHANGED <<driver, goal, todo, request, result, faulty>>

Wanted == IF goal = "query" THEN StatusQuery.len ELSE request.len

Takes ==
  /\ pc = "taking" /\ Len(got) < Wanted
  /\ ReadFirstByte \/ ReadByte \/ ReadByteTraps \/ ReadOverrun
  /\ UNCHANGED <<driver, pc, goal, todo, user>>

AllTaken ==
  /\ pc = "taking" /\ bus = "read" /\ Len(got) = Wanted
  /\ Stop
  /\ Returns(IF goal = "query" THEN [ret |-> got[1], data |-> <<>>]
                               ELSE [ret |-> CONTROL_SUCCESS, data |-> got])
  /\ UNCHANGED <<driver, goal, request, log, faulty>>

(* Arbitration lost, a clock held for too long, a host that gives up. *)
BusFails ==
  /\ pc \in {"start", "sending", "taking"}
  /\ LetsGo
  /\ Fails
  /\ faulty' = TRUE

HostNext ==
  \/ control_init_i2c \/ control_write_command \/ control_read_command
  \/ ReadRefused \/ Start \/ Sends \/ NotAcknowledged
  \/ WriteSent \/ Turns \/ Takes \/ AllTaken \/ BusFails

HostSpec == HostInit /\ [][HostNext]_hostVars

-----------------------------------------------------------------------------
(* Type invariant of the host and of the device it drives.  A message fits *)
(* the buffer it is built in.                                              *)
HostTypeOK ==
  /\ TypeOK
  /\ driver \in Drivers /\ pc \in Pc /\ goal \in Goal
  /\ todo \in Seq(Byte) /\ Len(todo) <= I2C_TRANSACTION_MAX_BYTES
  /\ request \in Request
  /\ result \in [ret : Byte, data : Seq(Byte)]
  /\ log \in Seq(Call)
  /\ faulty \in BOOLEAN

(* The requests the documentation allows: the payload is there and fits,   *)
(* the code is of the kind of the function, a read reads something.        *)
Legal ==
  {r \in Request :
     /\ r.len <= I2C_DATA_MAX_BYTES
     /\ r.op = "read" <=> IS_CONTROL_CMD_READ(r.cmd)
     /\ r.op = "read" => r.len > 0 /\ r.resid # CONTROL_SPECIAL_RESID
     /\ r.op = "write" => Len(r.data) = r.len}

(* What the two functions promise for those, over a bus that may fail at   *)
(* any byte: no call twice, none other than the one asked for, no success  *)
(* without one, though the status may be a byte that was never set.  The   *)
(* header control_init_i2c writes makes no call at all.                    *)
Service == INSTANCE ControlService WITH
  busy <- pc \notin {"closed", "idle"} /\ goal # "init",
  Promised <- Legal

ImplementsControlService == Service!Spec

(* A host that is told of a failure may try again without doing anything   *)
(* twice, unless the bus itself failed: the task has refused the command   *)
(* or never got it.                                                        *)
RetryIsSafe ==
  pc = "idle" /\ goal # "init" /\ ~faulty /\ request \in Legal /\ result.ret # CONTROL_SUCCESS =>
    \A k \in 1 .. Len(log) : log[k].ret # CONTROL_SUCCESS

(* The hosts never write or read beyond the length they announced, so the  *)
(* device never leaves its buffer, whatever the user asks for and wherever *)
(* an earlier transfer was cut off.                                        *)
WithinAnnounced ==
  /\ state \notin {"WRITE_OVERFLOW", "READ_OVERFLOW", "TRAP"}
  /\ HeaderSent => Len(sent) <= 3 + Announced /\ Len(got) <= Announced

(* What the documentation says: the result tells whether the write to the  *)
(* device was successful, so when it is a success, and the bus worked, a   *)
(* task has been called.                                                   *)
SuccessMeansExecuted ==
  /\ pc = "idle" /\ goal = "query" /\ ~faulty
  /\ Len(request.data) = request.len
  /\ result.ret = CONTROL_SUCCESS
  => log # <<>>
=============================================================================
