--------------------------- MODULE SPIHostProofs ----------------------------
(***************************************************************************)
(* What holds of the SPI host for every table, capacity, application and   *)
(* sequence of requests, legal or not: host and device stay in step, every *)
(* legal command is executed as asked and its result is the one returned,  *)
(* and writes keep the promise of ControlService.                          *)
(*                                                                         *)
(* The host is a master of the device, so the invariant of SPIDeviceProofs *)
(* holds of every state.  What is added: what the bytes shifted in and out *)
(* so far have to do with the message of the transaction in hand, how far  *)
(* the two may be apart, and what the log says of a legal request.         *)
(***************************************************************************)
EXTENDS SPIHost, SPIDeviceProofs

(* The message of the transaction in hand. *)
Message ==
  CASE pc = "first" /\ goal = "query" -> control_build_spi_data(StatusRequest)
    [] pc = "first" /\ goal # "query" -> control_build_spi_data(request)
    [] OTHER -> Zeros(IF Wanted < HEADER_BYTES THEN HEADER_BYTES ELSE Wanted)

(* What the user passes to the builder, and which request a goal is of. *)
AskedRight ==
  /\ Len(request.data) = request.len
  /\ request.len <= SPI_DATA_MAX_BYTES \/ request.len > SPI_TRANSACTION_MAX_BYTES
  /\ request.op = "read" => request.len <= SPI_DATA_MAX_BYTES
  /\ goal \in {"write", "query"} => request.op = "write"
  /\ goal = "read" => request.op = "read"
  /\ pc = "second" => goal # "write"

(* The bytes of the command and those still to be shifted in make up the   *)
(* message; a byte is shifted out for each of them, earlier, but not much. *)
Exchange ==
  IF pc = "idle"
  THEN todo = <<>> /\ slots = 0
  ELSE /\ IF active
          THEN /\ Len(frame) + Len(todo) = Len(Message)
               /\ \A k \in 1 .. Len(frame) : frame[k] = Message[k]
               /\ \A k \in 1 .. Len(todo) : todo[k] = Message[Len(frame) + k]
               /\ Message # <<>> => Len(out) + slots = Len(Message)
          ELSE /\ todo = Message
               /\ Message # <<>> => slots = Len(Message)
       /\ Message # <<>> =>
            /\ slots <= Len(todo)
            /\ Len(todo) <= slots + AHEAD + 1

(* The header of a read command is complete before the last byte has been  *)
(* asked for, so its reply is fetched in the transaction of the header.    *)
InTime ==
  /\ pc # "idle" /\ state = "READ_DATA_START" => slots >= 1
  /\ state # "TRAP"

(* A request, not the query after it, finds the device waiting. *)
OwnTransaction ==
  pc = "first" /\ goal # "query" =>
    IF active THEN owed = NoReply ELSE state = "IDLE"

(* The log has the calls of this request. *)
LogOfRequest ==
  pc = "first" /\ goal # "query" => log = IF active THEN calls ELSE <<>>

(* The one call of a legal request has been made. *)
Done ==
  /\ Len(log) = 1
  /\ Service!Serves(log[1], request)

(* What the device has to give, or will have in the next transaction. *)
Promise == IF active THEN owed ELSE asked

(* What is known, step by step, of the result of a legal request. *)
ResultUnderWay ==
  request \in Legal =>
    /\ pc = "first" /\ goal = "read" /\ active /\ state = "READ_DATA_WAIT" =>
         Done /\ asked = Reply(log[1].payload)
    /\ pc = "first" /\ goal = "query" =>
         /\ Done /\ write_ret = log[1].ret
         /\ IF active THEN owed = NoReply ELSE state = "IDLE"
    /\ pc = "second" =>
         /\ Done
         /\ Promise = Reply(IF goal = "query" THEN <<log[1].ret>> ELSE log[1].payload)

HInv ==
  /\ HostTypeOK /\ IInv
  /\ AskedRight /\ Exchange /\ InTime /\ OwnTransaction /\ LogOfRequest
  /\ ResultUnderWay /\ InStep /\ ResultOfThisCommand

-----------------------------------------------------------------------------
LEMMA HostSizes ==
  /\ SPI_DATA_MAX_BYTES \in Nat /\ SPI_DATA_MAX_BYTES >= 5
  /\ SPI_TRANSACTION_MAX_BYTES = SPI_DATA_MAX_BYTES + 3
  /\ SPI_TRANSACTION_MAX_BYTES \in Nat
  /\ HEADER_BYTES = 8 /\ AHEAD \in Nat /\ AHEAD <= 4
BY HostAssumption, SPIAssumption DEF SPI_TRANSACTION_MAX_BYTES, HEADER_BYTES

LEMMA ZerosFacts ==
  ASSUME NEW n \in Nat
  PROVE  /\ Zeros(n) \in Seq(Byte) /\ Len(Zeros(n)) = n
         /\ \A k \in 1 .. n : Zeros(n)[k] = 0
BY SizeFacts DEF Zeros

LEMMA ZeroIsNoRead == ~IS_CONTROL_CMD_READ(0)
BY ControlAssumption DEF IS_CONTROL_CMD_READ

(* Is the message of a request its header and padding? *)
Padded(r) == IS_CONTROL_CMD_READ(r.cmd) \/ r.null

(* The message the builder makes of a request. *)
LEMMA BuildFacts ==
  ASSUME NEW r \in Request, Len(r.data) = r.len
  PROVE  LET m == control_build_spi_data(r)
         IN  /\ m \in Seq(Byte)
             /\ r.len > SPI_TRANSACTION_MAX_BYTES => m = <<>>
             /\ r.len <= SPI_DATA_MAX_BYTES =>
                  /\ m[1] = r.resid /\ m[2] = r.cmd /\ m[3] = r.len
                  /\ Len(m) >= 3 /\ Len(m) <= SPI_TRANSACTION_MAX_BYTES
                  /\ Padded(r) => Len(m) = 8 /\ \A k \in 4 .. 8 : m[k] = 0
                  /\ ~Padded(r) =>
                       /\ Len(m) = 3 + r.len
                       /\ \A k \in 1 .. r.len : m[3 + k] = r.data[k]
<1> DEFINE m == control_build_spi_data(r)
           front == <<r.resid, r.cmd, r.len>>
           rest == IF Padded(r) THEN Zeros(5) ELSE r.data
<1>1. /\ r.resid \in Byte /\ r.cmd \in Byte /\ r.len \in Byte /\ r.data \in Seq(Byte)
      /\ r.len \in Nat
  BY ByteFacts DEF Request
<1>2. /\ Zeros(5) \in Seq(Byte) /\ Len(Zeros(5)) = 5 /\ \A k \in 1 .. 5 : Zeros(5)[k] = 0
  BY ZerosFacts
<1>3. /\ rest \in Seq(Byte)
      /\ Padded(r) => Len(rest) = 5 /\ \A k \in 1 .. 5 : rest[k] = 0
      /\ ~Padded(r) => Len(rest) = r.len /\ \A k \in 1 .. r.len : rest[k] = r.data[k]
  <2>1. CASE Padded(r)
    <3>1. rest = Zeros(5)
      BY <2>1
    <3> HIDE DEF rest
    <3> QED BY <1>2, <2>1, <3>1
  <2>2. CASE ~Padded(r)
    <3>1. rest = r.data
      BY <2>2
    <3> HIDE DEF rest
    <3> QED BY <1>1, <2>2, <3>1
  <2> QED BY <2>1, <2>2
<1>4. /\ front \o rest \in Seq(Byte) /\ Len(front \o rest) = 3 + Len(rest)
      /\ (front \o rest)[1] = r.resid /\ (front \o rest)[2] = r.cmd /\ (front \o rest)[3] = r.len
      /\ \A k \in 1 .. Len(rest) : (front \o rest)[3 + k] = rest[k]
  <2> HIDE DEF rest
  <2> QED BY <1>1, <1>3, HeaderThen
<1>5. m = IF r.len > SPI_TRANSACTION_MAX_BYTES THEN <<>> ELSE front \o rest
  BY DEF control_build_spi_data, Padded
<1> HIDE DEF m, front, rest
<1>6. m \in Seq(Byte) /\ (r.len > SPI_TRANSACTION_MAX_BYTES => m = <<>>)
  BY <1>4, <1>5, EmptySeq
<1>7. ASSUME r.len <= SPI_DATA_MAX_BYTES
      PROVE  /\ m[1] = r.resid /\ m[2] = r.cmd /\ m[3] = r.len
             /\ Len(m) = 3 + Len(rest)
             /\ \A k \in 1 .. Len(rest) : m[3 + k] = rest[k]
  <2>1. m = front \o rest
    BY <1>1, <1>5, <1>7, HostSizes
  <2> QED BY <1>4, <2>1
<1>8. ASSUME r.len <= SPI_DATA_MAX_BYTES, Padded(r)
      PROVE  Len(m) = 8 /\ \A k \in 4 .. 8 : m[k] = 0
  <2>1. Len(rest) = 5 /\ \A k \in 1 .. 5 : rest[k] = 0
    BY <1>3, <1>8
  <2>2. Len(m) = 3 + 5 /\ \A k \in 1 .. 5 : m[3 + k] = rest[k]
    BY <1>7, <1>8, <2>1
  <2>3. ASSUME NEW k \in 4 .. 8 PROVE m[k] = 0
    <3>1. k - 3 \in 1 .. 5 /\ 3 + (k - 3) = k
      OBVIOUS
    <3> QED BY <2>1, <2>2, <3>1
  <2> QED BY <2>2, <2>3
<1>9. ASSUME r.len <= SPI_DATA_MAX_BYTES, ~Padded(r)
      PROVE  Len(m) = 3 + r.len /\ \A k \in 1 .. r.len : m[3 + k] = r.data[k]
  BY <1>3, <1>7, <1>9
<1>10. ASSUME r.len <= SPI_DATA_MAX_BYTES
       PROVE  Len(m) >= 3 /\ Len(m) <= SPI_TRANSACTION_MAX_BYTES
  <2>1. CASE Padded(r)
    <3>1. Len(m) = 8
      BY <1>8, <1>10, <2>1
    <3> QED BY <3>1, HostSizes
  <2>2. CASE ~Padded(r)
    <3>1. Len(m) = 3 + r.len
      BY <1>9, <1>10, <2>2
    <3>2. 3 + r.len >= 3 /\ 3 + r.len <= SPI_TRANSACTION_MAX_BYTES
      BY <1>1, <1>10, HostSizes
    <3> QED BY <3>1, <3>2
  <2> QED BY <2>1, <2>2
<1> QED BY <1>6, <1>7, <1>8, <1>9, <1>10 DEF m

LEMMA QueryMessage ==
  LET m == control_build_spi_data(StatusRequest)
  IN  /\ m \in Seq(Byte) /\ Len(m) = 8
      /\ m[1] = CONTROL_SPECIAL_RESID /\ m[2] = CONTROL_GET_LAST_COMMAND_STATUS /\ m[3] = 1
      /\ \A k \in 4 .. 8 : m[k] = 0
<1>1. StatusRequest \in Request
  BY SpecialFacts, ControlAssumption, RetFacts DEF StatusRequest, Request, Byte
<1>2. /\ Len(StatusRequest.data) = 1 /\ StatusRequest.len = 1
      /\ StatusRequest.resid = CONTROL_SPECIAL_RESID
      /\ StatusRequest.cmd = CONTROL_GET_LAST_COMMAND_STATUS
  BY DEF StatusRequest
<1>3. IS_CONTROL_CMD_READ(CONTROL_GET_LAST_COMMAND_STATUS)
  BY ControlAssumption
     DEF CONTROL_GET_LAST_COMMAND_STATUS, CONTROL_CMD_SET_READ, IS_CONTROL_CMD_READ
<1>4. 1 <= SPI_DATA_MAX_BYTES
  BY HostSizes
<1> HIDE DEF StatusRequest
<1>5. Padded(StatusRequest)
  BY <1>2, <1>3 DEF Padded
<1> QED BY <1>1, <1>2, <1>4, <1>5, BuildFacts

HostTypes ==
  /\ pc \in {"idle", "first", "second"}
  /\ goal \in {"write", "read", "query"}
  /\ request \in Request

LEMMA WantedFacts ==
  ASSUME HostTypes, AskedRight, pc = "second"
  PROVE  Wanted \in Nat /\ Wanted <= SPI_DATA_MAX_BYTES
<1>1. request.len \in Nat
  BY ByteFacts DEF HostTypes, Request
<1>2. CASE goal = "query"
  BY <1>2, HostSizes DEF Wanted, StatusRequest
<1>3. CASE goal = "read"
  BY <1>1, <1>3 DEF Wanted, AskedRight
<1> QED BY <1>2, <1>3 DEF HostTypes, AskedRight

(* The message of a transaction.  A read code in it means a header of eight*)
(* bytes, and the transaction is the first of its command.                 *)
LEMMA MessageFacts ==
  ASSUME HostTypes, AskedRight, pc # "idle"
  PROVE  /\ Message \in Seq(Byte) /\ Len(Message) \in Nat
         /\ Len(Message) <= SPI_TRANSACTION_MAX_BYTES
         /\ Message # <<>> => Len(Message) >= 3 /\ Message[3] <= SPI_DATA_MAX_BYTES
         /\ Message # <<>> /\ IS_CONTROL_CMD_READ(Message[2]) =>
              pc = "first" /\ Len(Message) = 8 /\ \A k \in 4 .. 8 : Message[k] = 0
         /\ pc = "first" /\ goal = "query" =>
              /\ Len(Message) = 8
              /\ Message[1] = CONTROL_SPECIAL_RESID
              /\ Message[2] = CONTROL_GET_LAST_COMMAND_STATUS
              /\ Message[3] = 1
         /\ pc = "first" /\ goal # "query" /\ request.len <= SPI_DATA_MAX_BYTES =>
              /\ Message # <<>>
              /\ Message[1] = request.resid /\ Message[2] = request.cmd
              /\ Message[3] = request.len
              /\ ~Padded(request) =>
                   /\ Len(Message) = 3 + request.len
                   /\ \A k \in 1 .. request.len : Message[3 + k] = request.data[k]
         /\ pc = "second" =>
              /\ Len(Message) >= 8 /\ Len(Message) >= Wanted
              /\ \A k \in 1 .. Len(Message) : Message[k] = 0
<1>1. request \in Request /\ request.len \in Nat /\ Len(request.data) = request.len
  BY ByteFacts DEF HostTypes, Request, AskedRight
<1>2. CASE pc = "first" /\ goal = "query"
  <2>1. Message = control_build_spi_data(StatusRequest)
    BY <1>2 DEF Message
  <2>2. /\ Message \in Seq(Byte) /\ Len(Message) = 8
        /\ Message[1] = CONTROL_SPECIAL_RESID
        /\ Message[2] = CONTROL_GET_LAST_COMMAND_STATUS /\ Message[3] = 1
        /\ \A k \in 4 .. 8 : Message[k] = 0
    BY <2>1, QueryMessage
  <2> QED BY <1>2, <2>2, HostSizes
<1>3. CASE pc = "first" /\ goal # "query"
  <2>1. Message = control_build_spi_data(request)
    BY <1>3 DEF Message
  <2>2. CASE request.len > SPI_TRANSACTION_MAX_BYTES
    <3>1. Message = <<>> /\ Message \in Seq(Byte) /\ Len(Message) = 0
      BY <1>1, <2>1, <2>2, BuildFacts, EmptySeq
    <3>2. ~(request.len <= SPI_DATA_MAX_BYTES)
      BY <1>1, <2>2, HostSizes
    <3> QED BY <1>3, <3>1, <3>2, HostSizes
  <2>3. CASE request.len <= SPI_DATA_MAX_BYTES
    <3>1. /\ Message \in Seq(Byte)
          /\ Message[1] = request.resid /\ Message[2] = request.cmd /\ Message[3] = request.len
          /\ Len(Message) >= 3 /\ Len(Message) <= SPI_TRANSACTION_MAX_BYTES
          /\ Padded(request) => Len(Message) = 8 /\ \A k \in 4 .. 8 : Message[k] = 0
          /\ ~Padded(request) =>
               /\ Len(Message) = 3 + request.len
               /\ \A k \in 1 .. request.len : Message[3 + k] = request.data[k]
      BY <1>1, <2>1, <2>3, BuildFacts
    <3>2. Message # <<>> /\ Len(Message) \in Nat
      BY <3>1
    <3>3. IS_CONTROL_CMD_READ(Message[2]) => Padded(request)
      BY <3>1 DEF Padded
    <3> QED BY <1>1, <1>3, <2>3, <3>1, <3>2, <3>3, HostSizes
  <2> QED BY <1>1, <2>2, <2>3 DEF AskedRight
<1>4. CASE pc = "second"
  <2> DEFINE n == IF Wanted < HEADER_BYTES THEN HEADER_BYTES ELSE Wanted
  <2>1. Wanted \in Nat /\ Wanted <= SPI_DATA_MAX_BYTES
    BY <1>4, WantedFacts
  <2>2. n \in Nat /\ n >= 8 /\ n >= Wanted /\ n <= SPI_TRANSACTION_MAX_BYTES
    BY <2>1, HostSizes
  <2>3. Message = Zeros(n)
    BY <1>4 DEF Message
  <2> HIDE DEF n
  <2>4. Message \in Seq(Byte) /\ Len(Message) = n /\ \A k \in 1 .. n : Message[k] = 0
    BY <2>2, <2>3, ZerosFacts
  <2>5. Message[2] = 0 /\ Message[3] = 0
    BY <2>2, <2>4
  <2> QED BY <1>4, <2>2, <2>4, <2>5, ZeroIsNoRead, HostSizes
<1> QED BY <1>2, <1>3, <1>4 DEF HostTypes

-----------------------------------------------------------------------------
(* The types, as they are used. *)
LEMMA HTypes ==
  ASSUME HInv
  PROVE  /\ IInv /\ TypeOK /\ HostTypes /\ AskedRight /\ Exchange /\ InTime
         /\ frame \in Seq(Byte) /\ Len(frame) \in Nat /\ out \in Seq(Byte) /\ Len(out) \in Nat
         /\ calls \in Seq(Call) /\ Len(calls) \in Nat
         /\ todo \in Seq(Byte) /\ Len(todo) \in Nat /\ slots \in Nat
         /\ request \in Request /\ log \in Seq(Call) /\ Len(log) \in Nat
         /\ Len(todo) <= SPI_TRANSACTION_MAX_BYTES /\ slots <= SPI_TRANSACTION_MAX_BYTES
         /\ result \in [ret : Byte, data : Seq(Byte)]
<1>1. IInv /\ TypeOK /\ HostTypeOK /\ AskedRight /\ Exchange /\ InTime
  BY DEF HInv, HostTypeOK
<1>2. frame \in Seq(Byte) /\ out \in Seq(Byte) /\ calls \in Seq(Call)
  BY <1>1, Types
<1>3. todo \in Seq(Byte) /\ log \in Seq(Call) /\ HostTypes /\ request \in Request
      /\ Len(todo) <= SPI_TRANSACTION_MAX_BYTES /\ slots \in 0 .. SPI_TRANSACTION_MAX_BYTES
      /\ result \in [ret : Byte, data : Seq(Byte)]
  BY <1>1 DEF HostTypeOK, HostTypes
<1>4. slots \in Nat /\ slots <= SPI_TRANSACTION_MAX_BYTES
  BY <1>3, HostSizes
<1> QED BY <1>1, <1>2, <1>3, <1>4

(* The steps of the host are steps of the device under some master. *)
LEMMA DeviceStep ==
  ASSUME IInv, [Next]_vars \/ \E b \in Byte : MasterSupplies(b)
  PROVE  IInv'
<1>1. ASSUME NEW b \in Byte, MasterSupplies(b) PROVE IInv'
  BY <1>1, ResidStep, CmdStep, LengthStep, DataStep, IgnoredStep DEF MasterSupplies
<1> QED BY <1>1, Inductive

(* What is logged. *)
LEMMA LoggedFacts ==
  ASSUME HInv, Logged
  PROVE  /\ calls' = calls \/ calls' = <<>> => log' = log
         /\ \A c \in Call : calls' = Append(calls, c) => log' = Append(log, c)
<1>1. log' = log \o SubSeq(calls', Len(calls) + 1, Len(calls'))
  BY DEF Logged
<1>2. calls \in Seq(Call) /\ log \in Seq(Call) /\ Len(calls) \in Nat
  BY HTypes
<1>3. ASSUME calls' = calls \/ calls' = <<>> PROVE log' = log
  <2>1. SubSeq(calls', Len(calls) + 1, Len(calls')) = <<>>
    <3>1. CASE calls' = calls
      BY <1>2, <3>1
    <3>2. CASE calls' = <<>>
      <4>1. SubSeq(<<>>, Len(calls) + 1, 0) = <<>>
        BY <1>2
      <4> QED BY <3>2, <4>1
    <3> QED BY <1>3, <3>1, <3>2
  <2>2. log \o <<>> = log
    BY <1>2
  <2> QED BY <1>1, <2>1, <2>2
<1>4. ASSUME NEW c \in Call, calls' = Append(calls, c) PROVE log' = Append(log, c)
  <2>1. SubSeq(calls', Len(calls) + 1, Len(calls')) = <<c>>
    BY <1>2, <1>4, LastFacts
  <2>2. log \o <<c>> = Append(log, c)
    BY <1>2, JoinFacts
  <2> QED BY <1>1, <2>1, <2>2
<1> QED BY <1>3, <1>4

LEMMA SameMessage ==
  ASSUME UNCHANGED <<pc, goal, request>> PROVE Message' = Message
BY DEF Message, control_build_spi_data, StatusRequest, Wanted

LEMMA SameLegal == Legal' = Legal
BY DEF Legal, Request, Known, Search

(* A step within a transaction.                                            *)
LEMMA WithinTransaction ==
  ASSUME HInv, pc # "idle", IInv', UNCHANGED <<pc, goal, request, result>>,
         todo' \in Seq(Byte), Len(todo') <= SPI_TRANSACTION_MAX_BYTES,
         slots' \in 0 .. SPI_TRANSACTION_MAX_BYTES, log' \in Seq(Call),
         Exchange', InTime', OwnTransaction', LogOfRequest', ResultUnderWay'
  PROVE  HInv'
<1>1. HostTypeOK'
  BY HTypes DEF HInv, HostTypeOK, IInv, Request
<1>2. AskedRight'
  BY HTypes DEF AskedRight
<1>3. InStep' /\ ResultOfThisCommand'
  BY DEF InStep, ResultOfThisCommand
<1> QED BY <1>1, <1>2, <1>3 DEF HInv

-----------------------------------------------------------------------------
(* A byte that is shifted in.                                              *)

LEMMA SupplyShape ==
  ASSUME NEW b, MasterSupplies(b)
  PROVE  /\ Supplied(b) /\ state' # "TRAP"
         /\ state' = "READ_DATA_START" => state \in {"READ_DATA_START", "READ_CMD_RECVD"}
         /\ state' = "READ_DATA_WAIT" => state = "READ_DATA_WAIT"
<1>1. CASE SupplyResid(b) \/ SupplyUnknownResid(b)
  BY <1>1 DEF SupplyResid, SupplyUnknownResid
<1>2. CASE SupplyCmd(b)
  BY <1>2 DEF SupplyCmd
<1>3. CASE SupplyLength(b)
  BY <1>3 DEF SupplyLength
<1>4. CASE SupplyData(b)
  BY <1>4 DEF SupplyData
<1>5. CASE SupplyExcess(b) \/ SupplyIgnored(b)
  BY <1>5 DEF SupplyExcess, SupplyIgnored, spi
<1> QED BY <1>1, <1>2, <1>3, <1>4, <1>5 DEF MasterSupplies

(* The device has a header of the message in hand. *)
LEMMA HeaderHeld ==
  ASSUME HInv, pc # "idle", active, Len(frame) >= 2
  PROVE  /\ Message # <<>> /\ frame[1] = Message[1] /\ frame[2] = Message[2]
         /\ Len(frame) >= 3 => frame[3] = Message[3] /\ frame[3] <= SPI_DATA_MAX_BYTES
         /\ IS_CONTROL_CMD_READ(frame[2]) =>
              pc = "first" /\ Len(Message) = 8 /\ \A k \in 4 .. 8 : Message[k] = 0
<1>1. /\ Len(frame) + Len(todo) = Len(Message)
      /\ \A k \in 1 .. Len(frame) : frame[k] = Message[k]
  BY DEF HInv, Exchange
<1>2. Message \in Seq(Byte) /\ Len(frame) \in Nat /\ Len(todo) \in Nat
  BY HTypes, MessageFacts
<1>3. Message # <<>> /\ frame[1] = Message[1] /\ frame[2] = Message[2]
  BY <1>1, <1>2
<1>4. Len(frame) >= 3 => frame[3] = Message[3]
  BY <1>1, <1>2
<1> QED BY <1>3, <1>4, HTypes, MessageFacts

(* The padding of a header is zeros, which begin no new command. *)
LEMMA NoRestart ==
  ASSUME HInv, pc # "idle", active, todo # <<>> PROVE ~Restarts(Head(todo))
<1> SUFFICES ASSUME state = "READ_DATA_WAIT" PROVE Head(todo) = 0
  BY DEF Restarts
<1>1. Len(frame) >= 3 /\ IS_CONTROL_CMD_READ(frame[2])
  BY HTypes, ReadPosition
<1>2. Len(Message) = 8 /\ \A k \in 4 .. 8 : Message[k] = 0
  BY <1>1, HeaderHeld, HTypes
<1>3. /\ Len(frame) + Len(todo) = Len(Message)
      /\ \A k \in 1 .. Len(todo) : todo[k] = Message[Len(frame) + k]
  BY DEF HInv, Exchange
<1>4. /\ todo \in Seq(Byte) /\ Len(todo) \in Nat /\ Len(frame) \in Nat
      /\ Len(todo) >= 1 /\ Head(todo) = todo[1]
  BY HTypes
<1>5. todo[1] = Message[Len(frame) + 1] /\ Len(frame) + 1 \in 4 .. 8
  BY <1>1, <1>2, <1>3, <1>4
<1> QED BY <1>2, <1>4, <1>5

LEMMA ShiftsInFacts ==
  ASSUME HInv, ShiftsIn
  PROVE  /\ pc # "idle" /\ active /\ Message # <<>>
         /\ Head(todo) \in Byte /\ Supplied(Head(todo))
         /\ active' = TRUE
         /\ UNCHANGED <<owed, out, calls, asked, last_status, write_ret, log>>
         /\ frame' = Append(frame, Head(todo))
         /\ frame' \in Seq(Byte) /\ Len(frame') = Len(frame) + 1
         /\ \A k \in 1 .. Len(frame) : frame'[k] = frame[k]
         /\ frame'[Len(frame) + 1] = Head(todo)
<1>1. /\ todo # <<>> /\ slots < Len(todo) /\ MasterSupplies(Head(todo)) /\ Logged
  BY DEF ShiftsIn
<1>2. todo \in Seq(Byte) /\ Len(todo) \in Nat /\ slots \in Nat /\ Head(todo) \in Byte
      /\ Len(todo) >= 1
  BY <1>1, HTypes
<1>3. pc # "idle"
  BY <1>1 DEF HInv, Exchange
<1>4. Message \in Seq(Byte) /\ Len(Message) \in Nat
  BY <1>3, HTypes, MessageFacts
<1>5. active
  <2> SUFFICES ASSUME ~active PROVE FALSE
    OBVIOUS
  <2>1. todo = Message /\ (Message # <<>> => slots = Len(Message))
    BY <1>3, HTypes DEF Exchange
  <2> QED BY <1>1, <1>2, <2>1
<1>6. Message # <<>>
  <2>1. Len(frame) + Len(todo) = Len(Message) /\ Len(frame) \in Nat
    BY <1>3, <1>5, HTypes DEF Exchange
  <2> QED BY <1>2, <1>4, <2>1
<1>7. Supplied(Head(todo)) /\ ~Restarts(Head(todo))
  BY <1>1, <1>3, <1>5, SupplyShape, NoRestart
<1>8. /\ active' = TRUE /\ UNCHANGED <<owed, out, calls, asked, last_status, write_ret>>
      /\ frame' = Append(frame, Head(todo))
      /\ frame' \in Seq(Byte) /\ Len(frame') = Len(frame) + 1
      /\ \A k \in 1 .. Len(frame) : frame'[k] = frame[k]
      /\ frame'[Len(frame) + 1] = Head(todo)
  BY <1>2, <1>5, <1>7, HTypes, GoesOn
<1>9. log' = log
  BY <1>1, <1>8, LoggedFacts
<1> QED BY <1>2, <1>3, <1>5, <1>6, <1>7, <1>8, <1>9

LEMMA ShiftsInStep == ASSUME HInv, ShiftsIn PROVE HInv'
<1>1. /\ todo # <<>> /\ slots < Len(todo) /\ MasterSupplies(Head(todo))
      /\ todo' = Tail(todo) /\ UNCHANGED <<pc, goal, slots, request, result>>
  BY DEF ShiftsIn
<1>2. /\ pc # "idle" /\ active /\ Message # <<>>
      /\ Head(todo) \in Byte /\ active' = TRUE
      /\ UNCHANGED <<owed, out, calls, asked, last_status, write_ret, log>>
      /\ frame' \in Seq(Byte) /\ Len(frame') = Len(frame) + 1
      /\ \A k \in 1 .. Len(frame) : frame'[k] = frame[k]
      /\ frame'[Len(frame) + 1] = Head(todo)
  BY ShiftsInFacts
<1>3. /\ Len(frame) \in Nat /\ Len(todo) \in Nat /\ slots \in Nat
      /\ Message \in Seq(Byte) /\ Len(Message) \in Nat /\ todo \in Seq(Byte)
  BY <1>2, HTypes, MessageFacts
<1>4. /\ Head(todo) = todo[1] /\ todo' \in Seq(Byte) /\ Len(todo') = Len(todo) - 1
      /\ Len(todo) >= 1 /\ \A k \in 1 .. Len(todo') : todo'[k] = todo[k + 1]
  BY <1>1, <1>3
<1>5. /\ Len(frame) + Len(todo) = Len(Message)
      /\ \A k \in 1 .. Len(frame) : frame[k] = Message[k]
      /\ \A k \in 1 .. Len(todo) : todo[k] = Message[Len(frame) + k]
      /\ Len(out) + slots = Len(Message)
      /\ slots <= Len(todo) /\ Len(todo) <= slots + AHEAD + 1
  BY <1>2, HTypes DEF Exchange
<1>6. IInv'
  BY <1>1, <1>2, HTypes, DeviceStep
<1>7. Message' = Message
  BY <1>1, SameMessage
<1>8. Exchange'
  <2>1. \A k \in 1 .. Len(frame') : frame'[k] = Message[k]
    <3>1. 1 \in 1 .. Len(todo) /\ Head(todo) = Message[Len(frame) + 1]
      BY <1>3, <1>4, <1>5
    <3> SUFFICES ASSUME NEW k \in 1 .. Len(frame') PROVE frame'[k] = Message[k]
      OBVIOUS
    <3>2. k \in 1 .. Len(frame) \/ k = Len(frame) + 1
      BY <1>2, <1>3
    <3> QED BY <1>2, <1>5, <3>1, <3>2
  <2>2. \A k \in 1 .. Len(todo') : todo'[k] = Message[Len(frame') + k]
    <3> SUFFICES ASSUME NEW k \in 1 .. Len(todo')
                 PROVE  todo'[k] = Message[Len(frame') + k]
      OBVIOUS
    <3>1. k + 1 \in 1 .. Len(todo) /\ Len(frame) + (k + 1) = Len(frame') + k
      BY <1>2, <1>3, <1>4
    <3> QED BY <1>4, <1>5, <3>1
  <2>3. Len(frame') + Len(todo') = Len(Message) /\ slots' <= Len(todo')
        /\ Len(todo') <= slots' + AHEAD + 1
    BY <1>1, <1>2, <1>3, <1>4, <1>5, HostSizes
  <2> QED BY <1>1, <1>2, <1>5, <1>7, <2>1, <2>2, <2>3 DEF Exchange
<1>9. InTime'
  <2>1. ASSUME state' = "READ_DATA_START" PROVE slots >= 1
    <3>1. CASE state = "READ_DATA_START"
      BY <1>2, <3>1, HTypes DEF InTime
    <3>2. CASE state = "READ_CMD_RECVD"
      <4>1. Len(frame) = 2 /\ IS_CONTROL_CMD_READ(frame[2])
        BY <1>2, <3>2, Ordinary, HTypes DEF IInv, Position, Reading
      <4>2. Len(Message) = 8
        BY <1>2, <4>1, HeaderHeld
      <4> QED BY <1>3, <1>5, <4>1, <4>2, HostSizes
    <3> QED BY <1>1, <2>1, <3>1, <3>2, SupplyShape
  <2>2. state' # "TRAP"
    BY <1>1, SupplyShape
  <2> QED BY <1>1, <2>1, <2>2 DEF InTime
<1>10. OwnTransaction' /\ LogOfRequest'
  BY <1>1, <1>2 DEF HInv, OwnTransaction, LogOfRequest
<1>11. ResultUnderWay'
  <2>1. state' = "READ_DATA_WAIT" => state = "READ_DATA_WAIT"
    BY <1>1, SupplyShape
  <2>2. Done' <=> Done
    BY <1>1, <1>2 DEF Done, Service!Serves
  <2>3. Promise' = Promise
    BY <1>2 DEF Promise
  <2> QED BY <1>1, <1>2, <2>1, <2>2, <2>3, SameLegal DEF HInv, ResultUnderWay
<1>12. Len(todo') <= SPI_TRANSACTION_MAX_BYTES
  BY <1>3, <1>4, HTypes, HostSizes
<1>13. log' \in Seq(Call) /\ slots' \in 0 .. SPI_TRANSACTION_MAX_BYTES
  BY <1>1, <1>2, HTypes DEF HInv, HostTypeOK
<1> QED BY <1>1, <1>2, <1>4, <1>6, <1>8, <1>9, <1>10, <1>11, <1>12, <1>13, WithinTransaction

-----------------------------------------------------------------------------
(* A byte that is shifted out.                                             *)

LEMMA RequiresShape ==
  ASSUME HInv, NEW b \in Byte, Requires(b)
  PROVE  /\ active' = TRUE /\ UNCHANGED <<header, last_status, write_ret>>
         /\ IF active
            THEN UNCHANGED <<frame, owed>> /\ Len(out') = Len(out) + 1
            ELSE frame' = <<>> /\ owed' = asked /\ Len(out') = 1
BY HTypes, AppendFacts DEF Requires

LEMMA NoCallShape ==
  ASSUME HInv, NoCall, Logged
  PROVE  /\ log' = log
         /\ IF active THEN UNCHANGED <<calls, asked>> ELSE calls' = <<>> /\ asked' = NoReply
<1>1. IF active THEN UNCHANGED <<calls, asked>> ELSE calls' = <<>> /\ asked' = NoReply
  BY DEF NoCall
<1> QED BY <1>1, LoggedFacts

(* A message that is not a request for the reply of a read makes no call.  *)
LEMMA QuietOut ==
  ASSUME HInv, ShiftsOut, state # "READ_DATA_START"
  PROVE  /\ UNCHANGED <<log, write_ret, state>> /\ active' = TRUE
         /\ IF active
            THEN UNCHANGED <<frame, owed, calls, asked>> /\ Len(out') = Len(out) + 1
            ELSE /\ frame' = <<>> /\ owed' = asked /\ Len(out') = 1
                 /\ calls' = <<>> /\ asked' = NoReply
<1>1. Logged /\ (RequireReplyByte \/ RequireNothing)
  BY DEF ShiftsOut, RequireReply
<1>2. NoCall /\ UNCHANGED state /\ \E b \in Byte : Requires(b)
  <2>1. CASE RequireNothing
    BY <2>1, SizeFacts DEF RequireNothing
  <2>2. CASE RequireReplyByte
    <3>1. payload[payload_len_transmitted] \in Byte
      BY <2>2, HTypes, Types, SizeFacts DEF RequireReplyByte, Room, Index
    <3> QED BY <2>2, <3>1 DEF RequireReplyByte
  <2> QED BY <1>1, <2>1, <2>2
<1>3. /\ active' = TRUE /\ UNCHANGED write_ret
      /\ IF active
         THEN UNCHANGED <<frame, owed>> /\ Len(out') = Len(out) + 1
         ELSE frame' = <<>> /\ owed' = asked /\ Len(out') = 1
  BY <1>2, RequiresShape
<1> QED BY <1>1, <1>2, <1>3, NoCallShape

(* The reply is fetched: of the special resource, no task is asked.        *)
LEMMA FetchFacts ==
  ASSUME HInv, ShiftsOut, state = "READ_DATA_START", pc # "idle"
  PROVE  /\ active /\ owed = NoReply /\ pc = "first" /\ calls = <<>> /\ Len(frame) >= 3
         /\ frame[1] = Message[1] /\ frame[2] = Message[2] /\ frame[3] = Message[3]
         /\ state' = "READ_DATA_WAIT" /\ active' = TRUE
         /\ UNCHANGED <<frame, owed, write_ret>> /\ Len(out') = Len(out) + 1
         /\ resid = frame[1]
         /\ resid = CONTROL_SPECIAL_RESID => calls' = <<>> /\ log' = log
         /\ resid # CONTROL_SPECIAL_RESID =>
              \E c \in Call : /\ calls' = <<c>> /\ log' = Append(log, c)
                              /\ c.op = "read" /\ c.resid = frame[1] /\ c.cmd = frame[2]
                              /\ c.ifnum = resource_table[frame[1]]
                              /\ Len(c.payload) = frame[3]
                              /\ asked' = Reply(c.payload)
<1>1. /\ active /\ owed = NoReply /\ Len(frame) >= 3
      /\ resid = frame[1] /\ ifnum \in Search(resid) /\ cmd = frame[2]
      /\ IS_CONTROL_CMD_READ(cmd) /\ payload_len_from_header = frame[3]
  BY HTypes, ReadPosition
<1>2. /\ frame[1] = Message[1] /\ frame[2] = Message[2] /\ frame[3] = Message[3]
      /\ frame[3] <= SPI_DATA_MAX_BYTES /\ pc = "first"
  BY <1>1, HeaderHeld, HTypes
<1>3. RequireReply /\ Logged
  BY DEF ShiftsOut, RequireReplyByte, RequireNothing
<1>4. /\ Requires(0) /\ asked' = Reply(Prefix(payload', payload_len_from_header))
      /\ state' = "READ_DATA_WAIT"
  <2>1. ~(payload_len_from_header > SPI_DATA_MAX_BYTES)
    BY <1>1, <1>2, HTypes, Types, HostSizes
  <2> QED BY <1>3, <2>1 DEF RequireReply
<1>5. active' = TRUE /\ UNCHANGED <<frame, owed, write_ret>> /\ Len(out') = Len(out) + 1
  BY <1>1, <1>4, RequiresShape, SizeFacts
<1>6. PICK ret \in ControlRet : read_command(payload', ret)
  BY <1>3 DEF RequireReply
<1>7. calls = <<>>
  BY <1>1, HTypes DEF IInv, CallsSoFar
<1>8. /\ payload' \in [Index -> Byte]
      /\ resid = CONTROL_SPECIAL_RESID => calls' = <<>>
      /\ resid # CONTROL_SPECIAL_RESID =>
           LET c == ReadCall(ifnum, resid, cmd, Prefix(payload', payload_len_from_header), ret)
           IN  calls' = <<c>> /\ c \in Call
  BY <1>6, HTypes, ReadCommandFacts
<1>9. resid = CONTROL_SPECIAL_RESID => calls' = <<>> /\ log' = log
  BY <1>3, <1>8, LoggedFacts
<1>10. ASSUME resid # CONTROL_SPECIAL_RESID
       PROVE  \E c \in Call : /\ calls' = <<c>> /\ log' = Append(log, c)
                              /\ c.op = "read" /\ c.resid = frame[1] /\ c.cmd = frame[2]
                              /\ c.ifnum = resource_table[frame[1]]
                              /\ Len(c.payload) = frame[3]
                              /\ asked' = Reply(c.payload)
  <2> DEFINE pl == Prefix(payload', payload_len_from_header)
             c == ReadCall(ifnum, resid, cmd, pl, ret)
  <2>1. calls' = <<c>> /\ c \in Call
    BY <1>8, <1>10
  <2>2. /\ c.op = "read" /\ c.resid = resid /\ c.cmd = cmd /\ c.ifnum = ifnum /\ c.payload = pl
    BY DEF ReadCall
  <2>3. Len(pl) = payload_len_from_header
    <3> DEFINE p == payload'
    <3>1. p \in [Index -> Byte] /\ payload_len_from_header \in Nat
      BY <1>8, HTypes, Types
    <3> HIDE DEF p
    <3>2. Len(Prefix(p, payload_len_from_header)) = payload_len_from_header
      BY <3>1, PrefixFacts
    <3> QED BY <3>2 DEF p
  <2>4. asked' = Reply(pl)
    BY <1>4
  <2> HIDE DEF c, pl
  <2>5. calls' = Append(calls, c)
    <3>1. Append(<<>>, c) = <<c>>
      OBVIOUS
    <3> QED BY <1>7, <2>1, <3>1
  <2>6. log' = Append(log, c)
    BY <1>3, <2>1, <2>5, LoggedFacts
  <2>7. ifnum = resource_table[frame[1]]
    BY <1>1, <1>10, HTypes, Types, SearchFacts
  <2> QED BY <1>1, <2>1, <2>2, <2>3, <2>4, <2>6, <2>7
<1> QED BY <1>1, <1>2, <1>4, <1>5, <1>7, <1>9, <1>10

(* What is known of a legal request. *)
LEMMA LegalFacts ==
  ASSUME HInv, request \in Legal
  PROVE  /\ Known(request.resid) /\ request.resid # CONTROL_SPECIAL_RESID
         /\ request.len \in Nat /\ request.len <= SPI_DATA_MAX_BYTES
         /\ request.data \in Seq(Byte) /\ Len(request.data) = request.len
         /\ request.op = "read" <=> IS_CONTROL_CMD_READ(request.cmd)
         /\ request.op = "write" => ~Padded(request)
         /\ request.op \in {"write", "read"}
BY HTypes, ByteFacts DEF AskedRight, Legal, Request, Known, Padded

LEMMA OutExchange ==
  ASSUME HInv, pc # "idle", slots > 0, Len(todo) - slots <= AHEAD, slots' = slots - 1,
         UNCHANGED <<pc, goal, request, todo>>, active' = TRUE,
         IF active THEN UNCHANGED frame /\ Len(out') = Len(out) + 1
                   ELSE frame' = <<>> /\ Len(out') = 1
  PROVE  Exchange'
<1>1. Message' = Message
  BY SameMessage
<1>2. /\ Len(frame) \in Nat /\ Len(todo) \in Nat /\ slots \in Nat /\ Len(out) \in Nat
      /\ Message \in Seq(Byte) /\ Len(Message) \in Nat /\ todo \in Seq(Byte)
  BY HTypes, MessageFacts
<1>3. Message # <<>> => slots' <= Len(todo) /\ Len(todo) <= slots' + AHEAD + 1
  BY <1>2, HTypes, HostSizes DEF Exchange
<1>4. CASE active
  <2>1. /\ Len(frame) + Len(todo) = Len(Message)
        /\ \A k \in 1 .. Len(frame) : frame[k] = Message[k]
        /\ \A k \in 1 .. Len(todo) : todo[k] = Message[Len(frame) + k]
        /\ Message # <<>> => Len(out) + slots = Len(Message)
    BY <1>4, HTypes DEF Exchange
  <2>2. frame' = frame /\ Len(out') = Len(out) + 1 /\ slots' = slots - 1 /\ todo' = todo
    BY <1>4
  <2>3. Len(out') + slots' = Len(out) + slots
    BY <1>2, <2>2
  <2> QED BY <1>1, <1>3, <1>4, <2>1, <2>2, <2>3 DEF Exchange
<1>5. CASE ~active
  <2>1. todo = Message /\ (Message # <<>> => slots = Len(Message))
    BY <1>5, HTypes DEF Exchange
  <2>2. /\ Len(frame') = 0 /\ Len(frame') + Len(todo') = Len(Message)
        /\ Len(out') = 1 /\ slots' = slots - 1 /\ todo' = Message
    <3>1. frame' = <<>> /\ Len(out') = 1 /\ slots' = slots - 1 /\ todo' = Message
      BY <1>5, <2>1
    <3>2. Len(frame') = 0
      BY <3>1
    <3> QED BY <1>2, <3>1, <3>2
  <2>3. \A k \in 1 .. Len(todo') : todo'[k] = Message[Len(frame') + k]
    BY <1>2, <2>2
  <2>4. Message # <<>> => Len(out') + slots' = Len(Message)
    <3>1. ASSUME Message # <<>> PROVE Len(out') + slots' = Len(Message)
      <4>1. slots = Len(Message)
        BY <2>1, <3>1
      <4> QED BY <1>2, <2>2, <4>1
    <3> QED BY <3>1
  <2>5. \A k \in 1 .. Len(frame') : frame'[k] = Message[k]
    BY <2>2
  <2> QED BY <1>1, <1>3, <2>2, <2>3, <2>4, <2>5 DEF Exchange
<1> QED BY <1>4, <1>5

LEMMA ShiftsOutStep == ASSUME HInv, ShiftsOut PROVE HInv'
<1>1. /\ slots > 0 /\ Len(todo) - slots <= AHEAD /\ slots' = slots - 1 /\ Logged
      /\ RequireReply \/ RequireReplyByte \/ RequireNothing
      /\ UNCHANGED <<pc, goal, todo, request, result>>
  BY DEF ShiftsOut
<1>2. pc # "idle"
  BY <1>1, HTypes DEF Exchange
<1>3. IInv'
  BY <1>1, HTypes, DeviceStep DEF Next
<1>4. /\ todo' \in Seq(Byte) /\ Len(todo') <= SPI_TRANSACTION_MAX_BYTES
      /\ slots' \in 0 .. SPI_TRANSACTION_MAX_BYTES
  BY <1>1, HTypes, HostSizes
<1>5. CASE state = "READ_DATA_START"
  <2>1. /\ active /\ owed = NoReply /\ pc = "first" /\ calls = <<>> /\ Len(frame) >= 3
        /\ frame[1] = Message[1] /\ frame[2] = Message[2] /\ frame[3] = Message[3]
        /\ state' = "READ_DATA_WAIT" /\ active' = TRUE
        /\ UNCHANGED <<frame, owed, write_ret>> /\ Len(out') = Len(out) + 1
        /\ resid = frame[1]
        /\ resid = CONTROL_SPECIAL_RESID => calls' = <<>> /\ log' = log
    BY <1>2, <1>5, FetchFacts
  <2>2. resid # CONTROL_SPECIAL_RESID =>
          \E c \in Call : /\ calls' = <<c>> /\ log' = Append(log, c)
                          /\ c.op = "read" /\ c.resid = frame[1] /\ c.cmd = frame[2]
                          /\ c.ifnum = resource_table[frame[1]]
                          /\ Len(c.payload) = frame[3]
                          /\ asked' = Reply(c.payload)
    BY <1>2, <1>5, FetchFacts
  <2>3. Exchange'
    BY <1>1, <1>2, <2>1, OutExchange
  <2>4. InTime' /\ OwnTransaction'
    BY <2>1 DEF InTime, OwnTransaction
  <2>5. log' \in Seq(Call)
    <3>1. log' = log \/ \E c \in Call : log' = Append(log, c)
      BY <2>1, <2>2
    <3> QED BY <3>1, HTypes, AppendFacts
  <2>6. goal # "query" => log = <<>>
    BY <2>1 DEF HInv, LogOfRequest
  <2>7. LogOfRequest'
    <3> SUFFICES ASSUME goal # "query" PROVE log' = calls'
      BY <1>1, <2>1 DEF LogOfRequest
    <3>1. CASE resid = CONTROL_SPECIAL_RESID
      BY <2>1, <2>6, <3>1
    <3>2. CASE resid # CONTROL_SPECIAL_RESID
      <4>1. PICK c \in Call : calls' = <<c>> /\ log' = Append(log, c)
        BY <2>2, <3>2
      <4>2. Append(<<>>, c) = <<c>>
        OBVIOUS
      <4> QED BY <2>6, <4>1, <4>2
    <3> QED BY <3>1, <3>2
  <2>8. ASSUME request \in Legal, goal = "read"
        PROVE  Done' /\ (asked = Reply(log[1].payload))'
    <3>1. /\ request.resid # CONTROL_SPECIAL_RESID /\ request.op = "read"
          /\ request.len <= SPI_DATA_MAX_BYTES
      BY <2>8, HTypes, LegalFacts DEF AskedRight
    <3>2. frame[1] = request.resid /\ frame[2] = request.cmd /\ frame[3] = request.len
      BY <1>2, <2>1, <2>8, <3>1, HTypes, MessageFacts
    <3>3. PICK c \in Call :
            /\ calls' = <<c>> /\ log' = Append(log, c)
            /\ c.op = "read" /\ c.resid = frame[1] /\ c.cmd = frame[2]
            /\ c.ifnum = resource_table[frame[1]]
            /\ Len(c.payload) = frame[3]
            /\ asked' = Reply(c.payload)
      BY <2>1, <2>2, <3>1, <3>2
    <3>4. log' = Append(<<>>, c)
      BY <2>6, <2>8, <3>3
    <3>5. Len(log') = 1 /\ log'[1] = c
      BY <3>4
    <3> QED BY <1>1, <3>1, <3>2, <3>3, <3>5 DEF Done, Service!Serves
  <2>9. ASSUME request \in Legal, goal = "query"
        PROVE  Done' /\ (write_ret = log[1].ret)' /\ owed' = NoReply
    <3>1. resid = CONTROL_SPECIAL_RESID
      BY <1>2, <2>1, <2>9, HTypes, MessageFacts
    <3> QED BY <1>1, <2>1, <2>9, <3>1 DEF HInv, ResultUnderWay, Done, Service!Serves
  <2>10. ResultUnderWay'
    BY <1>1, <2>1, <2>8, <2>9, SameLegal DEF ResultUnderWay
  <2> QED BY <1>1, <1>2, <1>3, <1>4, <2>3, <2>4, <2>5, <2>7, <2>10, WithinTransaction
<1>6. CASE state # "READ_DATA_START"
  <2>1. /\ UNCHANGED <<log, write_ret, state>> /\ active' = TRUE
        /\ IF active
           THEN UNCHANGED <<frame, owed, calls, asked>> /\ Len(out') = Len(out) + 1
           ELSE /\ frame' = <<>> /\ owed' = asked /\ Len(out') = 1
                /\ calls' = <<>> /\ asked' = NoReply
    BY <1>6, QuietOut
  <2>2. Exchange'
    BY <1>1, <1>2, <2>1, OutExchange
  <2>3. InTime'
    BY <1>6, <2>1, HTypes DEF InTime
  <2>4. ~active /\ state = "IDLE" => asked = NoReply
    BY HTypes, Idle
  <2>5. OwnTransaction'
    BY <1>1, <2>1, <2>4 DEF HInv, OwnTransaction
  <2>6. LogOfRequest'
    BY <1>1, <2>1 DEF HInv, LogOfRequest
  <2>7. log' \in Seq(Call)
    BY <2>1, HTypes
  <2>8. Done' <=> Done
    BY <1>1, <2>1 DEF Done, Service!Serves
  <2>9. Promise' = Promise
    BY <2>1 DEF Promise
  <2>10. state = "READ_DATA_WAIT" => active
    BY HTypes, Ordinary
  <2>11. ResultUnderWay'
    BY <1>1, <2>1, <2>4, <2>8, <2>9, <2>10, SameLegal DEF HInv, ResultUnderWay
  <2> QED BY <1>1, <1>2, <1>3, <1>4, <2>2, <2>3, <2>5, <2>6, <2>7, <2>11, WithinTransaction
<1> QED BY <1>5, <1>6

-----------------------------------------------------------------------------
(* The end of a transaction.                                               *)

(* Between transactions the device is idle, or has a reply to give. *)
LEMMA BetweenFacts ==
  ASSUME IInv', ~active'
  PROVE  \/ state' = "IDLE" /\ asked' = NoReply
         \/ state' = "READ_DATA" /\ asked' # NoReply
<1>1. state' # "TRAP"
  BY DEF IInv, Settled
<1>2. CASE asked'.some
  BY <1>1, <1>2, ReplyFacts DEF IInv, BetweenTransactions
<1>3. CASE ~asked'.some
  <2>1. asked' = NoReply
    BY <1>3, ReplyFacts DEF IInv, Fetched
  <2> QED BY <1>1, <1>3, <2>1 DEF IInv, BetweenTransactions
<1> QED BY <1>2, <1>3

(* A transaction of some bytes has taken and given as many. *)
LEMMA Complete ==
  ASSUME HInv, Deselects, Message # <<>>
  PROVE  /\ active /\ Len(frame) = Len(Message) /\ Len(out) = Len(Message)
         /\ \A k \in 1 .. Len(Message) : frame[k] = Message[k]
<1>1. pc # "idle" /\ todo = <<>> /\ slots = 0
  BY DEF Deselects
<1>2. Message \in Seq(Byte) /\ Len(Message) \in Nat /\ Len(Message) # 0
  BY <1>1, HTypes, MessageFacts
<1>3. active
  BY <1>1, <1>2, HTypes DEF Exchange
<1>4. Len(frame) + Len(todo) = Len(Message) /\ Len(out) + slots = Len(Message)
      /\ \A k \in 1 .. Len(frame) : frame[k] = Message[k]
  BY <1>1, <1>3, HTypes DEF Exchange
<1>5. Len(todo) = 0
  BY <1>1
<1>6. Len(frame) = Len(Message) /\ Len(out) = Len(Message)
  BY <1>1, <1>4, <1>5, HTypes
<1> QED BY <1>3, <1>4, <1>6

LEMMA DeselectsFacts ==
  ASSUME HInv, Deselects
  PROVE  /\ pc # "idle" /\ todo = <<>> /\ slots = 0
         /\ IInv' /\ active' = FALSE /\ UNCHANGED <<frame, asked, owed, out>>
         /\ \/ state' = "IDLE" /\ asked = NoReply
            \/ state' = "READ_DATA" /\ asked # NoReply
         /\ \/ UNCHANGED <<calls, log>>
            \/ \E c \in Call : calls' = Append(calls, c) /\ log' = Append(log, c)
         /\ state # "WRITE_DATA" => UNCHANGED <<calls, log, write_ret>>
         /\ log' \in Seq(Call)
<1>1. /\ pc # "idle" /\ todo = <<>> /\ slots = 0 /\ Logged
      /\ IF active
         THEN EndOfWrite \/ EndOfReadHeader \/ EndOfAnythingElse
         ELSE UNCHANGED vars
  BY DEF Deselects
<1>2. IInv'
  BY <1>1, HTypes, DeviceStep DEF Next
<1>3. active' = FALSE /\ UNCHANGED <<frame, asked, owed, out>>
  <2>1. CASE active
    BY <1>1, <2>1 DEF EndOfWrite, EndOfReadHeader, EndOfAnythingElse, Ends
  <2>2. CASE ~active
    BY <1>1, <2>2, HTypes DEF vars, history, TypeOK
  <2> QED BY <2>1, <2>2
<1>4. \/ state' = "IDLE" /\ asked = NoReply
      \/ state' = "READ_DATA" /\ asked # NoReply
  BY <1>2, <1>3, BetweenFacts
<1>5. calls' = calls \/ \E c : calls' = Append(calls, c)
  <2>1. CASE active
    BY <1>1, <2>1 DEF EndOfWrite, EndOfReadHeader, EndOfAnythingElse
  <2>2. CASE ~active
    BY <1>1, <2>2 DEF vars, history
  <2> QED BY <2>1, <2>2
<1>6. calls \in Seq(Call) /\ Len(calls) \in Nat /\ log \in Seq(Call)
  BY HTypes
<1>7. \/ UNCHANGED <<calls, log>>
      \/ \E c \in Call : calls' = Append(calls, c) /\ log' = Append(log, c)
  <2>1. CASE calls' = calls
    BY <1>1, <2>1, LoggedFacts
  <2>2. ASSUME NEW c, calls' = Append(calls, c) PROVE c \in Call
    <3>1. calls' \in Seq(Call)
      BY <1>2 DEF IInv, TypeOK
    <3>2. Len(Append(calls, c)) = Len(calls) + 1 /\ Append(calls, c)[Len(calls) + 1] = c
      BY <1>6
    <3>3. Len(calls) + 1 \in 1 .. Len(calls')
      BY <1>6, <2>2, <3>2
    <3> QED BY <2>2, <3>1, <3>2, <3>3
  <2> QED BY <1>1, <1>5, <2>1, <2>2, LoggedFacts
<1>8. state # "WRITE_DATA" => UNCHANGED <<calls, log, write_ret>>
  <2>1. state # "WRITE_DATA" => UNCHANGED <<calls, write_ret>>
    <3>1. CASE active
      BY <1>1, <3>1 DEF EndOfWrite, EndOfReadHeader, EndOfAnythingElse
    <3>2. CASE ~active
      BY <1>1, <3>2 DEF vars, history
    <3> QED BY <3>1, <3>2
  <2> QED BY <1>1, <2>1, LoggedFacts
<1>9. log' \in Seq(Call)
  BY <1>6, <1>7, AppendFacts
<1> QED BY <1>1, <1>2, <1>3, <1>4, <1>7, <1>8, <1>9

(* A transaction that is to come. *)
LEMMA NextTransaction ==
  ASSUME NEW m \in Seq(Byte), Len(m) <= SPI_TRANSACTION_MAX_BYTES, Transfer(m),
         Message' = m, pc' # "idle", active' = FALSE
  PROVE  /\ Exchange' /\ todo' \in Seq(Byte) /\ Len(todo') <= SPI_TRANSACTION_MAX_BYTES
         /\ slots' \in 0 .. SPI_TRANSACTION_MAX_BYTES
<1>1. todo' = m /\ slots' \in (IF m = <<>> THEN {0, 1} ELSE {Len(m)}) /\ Len(m) \in Nat
  BY DEF Transfer
<1>2. slots' \in 0 .. SPI_TRANSACTION_MAX_BYTES
  BY <1>1, HostSizes
<1>3. m # <<>> => slots' = Len(m) /\ slots' <= Len(todo') /\ Len(todo') <= slots' + AHEAD + 1
  BY <1>1, HostSizes
<1> QED BY <1>1, <1>2, <1>3 DEF Exchange

(* The transaction of a legal write ends with the call it asks for. *)
LEMMA WriteExecuted ==
  ASSUME HInv, Deselects, pc = "first", goal = "write", request \in Legal
  PROVE  Len(log') = 1 /\ Service!Serves(log'[1], request) /\ write_ret' = log'[1].ret
<1>1. request.op = "write"
  BY HTypes DEF AskedRight
<1>2. /\ Known(request.resid) /\ request.resid # CONTROL_SPECIAL_RESID
      /\ request.len \in Nat /\ request.len <= SPI_DATA_MAX_BYTES
      /\ request.data \in Seq(Byte) /\ Len(request.data) = request.len
      /\ ~IS_CONTROL_CMD_READ(request.cmd) /\ ~Padded(request)
  BY <1>1, LegalFacts DEF Padded
<1>3. /\ Message # <<>> /\ Message[1] = request.resid /\ Message[2] = request.cmd
      /\ Message[3] = request.len /\ Len(Message) = 3 + request.len
      /\ \A k \in 1 .. request.len : Message[3 + k] = request.data[k]
  BY <1>2, HTypes, MessageFacts
<1>4. /\ active /\ Len(frame) = Len(Message)
      /\ \A k \in 1 .. Len(Message) : frame[k] = Message[k]
  BY <1>3, Complete
<1>5. /\ frame[1] = request.resid /\ frame[2] = request.cmd /\ frame[3] = request.len
      /\ \A k \in 1 .. request.len : frame[3 + k] = request.data[k]
  <2>1. /\ 1 \in 1 .. Len(Message) /\ 2 \in 1 .. Len(Message) /\ 3 \in 1 .. Len(Message)
        /\ \A k \in 1 .. request.len : 3 + k \in 1 .. Len(Message)
    BY <1>2, <1>3
  <2> QED BY <1>3, <1>4, <2>1
<1>6. owed = NoReply /\ log = calls
  BY <1>4 DEF HInv, OwnTransaction, LogOfRequest
<1>7. IInv' /\ active' = FALSE /\ UNCHANGED <<frame, owed>>
  BY DeselectsFacts
<1>8. calls = <<>>
  BY <1>2, <1>4, <1>5, HTypes DEF IInv, CallsSoFar
<1>9. calls' # <<>>
  <2>1. IsWrite(frame')
    BY <1>2, <1>3, <1>4, <1>5, <1>7 DEF IsWrite
  <2>2. Known(frame[1])'
    BY <1>2, <1>5, <1>7 DEF Known, Search
  <2>3. ~owed'.some /\ Len(frame') = 3 + frame'[3] /\ frame'[3] <= SPI_DATA_MAX_BYTES
    BY <1>2, <1>3, <1>4, <1>5, <1>6, <1>7, ReplyFacts
  <2> QED BY <1>7, <2>1, <2>2, <2>3 DEF IInv, ExecutedIffComplete
<1>10. EndOfWrite
  BY <1>4, <1>8, <1>9 DEF Deselects, EndOfReadHeader, EndOfAnythingElse
<1>11. PICK ret \in AppRet :
         /\ write_ret' = ret
         /\ calls' = Append(calls, WriteCall(ifnum, resid, cmd,
                       Prefix(payload, payload_len_transmitted), ret))
  BY <1>8, <1>9, <1>10 DEF EndOfWrite
<1> DEFINE c == WriteCall(ifnum, resid, cmd, Prefix(payload, payload_len_transmitted), ret)
<1>12. c.op = "write" /\ c.ret = ret
  BY DEF WriteCall
<1>13. calls' = Append(calls, c)
  BY <1>11
<1> HIDE DEF c
<1>14. calls' = <<c>> /\ Len(calls') = 1 /\ calls'[1] = c
  BY <1>8, <1>13
<1>15. c \in Call
  <2>1. calls' \in Seq(Call)
    BY <1>7 DEF IInv, TypeOK
  <2> QED BY <1>14, <2>1
<1>16. log' = <<c>>
  <2>1. log' = Append(<<>>, c)
    BY <1>6, <1>8, <1>13, <1>15, LoggedFacts DEF Deselects
  <2> QED BY <2>1
<1>17. /\ c.resid = frame[1] /\ c.cmd = frame[2] /\ c.ifnum = resource_table[frame[1]]
       /\ Len(c.payload) = frame[3] /\ c.payload = SubSeq(frame, 4, Len(frame))
  <2>1. 1 \in 1 .. Len(calls')
    BY <1>14
  <2> QED BY <1>7, <1>12, <1>14, <2>1 DEF IInv, DispatchedAsSent
<1>18. c.payload = request.data
  <2>1. c.payload \in Seq(Byte)
    BY <1>15 DEF Call
  <2>2. \A k \in 1 .. request.len : SubSeq(frame, 4, Len(frame))[k] = frame[3 + k]
    <3>1. Len(frame) = 3 + request.len
      BY <1>3, <1>4
    <3>2. frame \in Seq(Byte) /\ request.len \in Nat /\ 3 + request.len <= Len(frame)
      BY <1>2, <3>1, HTypes
    <3>3. \A k \in 1 .. request.len : SubSeq(frame, 4, 3 + request.len)[k] = frame[3 + k]
      BY <3>2, SubSeqFacts
    <3> QED BY <3>1, <3>3
  <2> QED BY <1>2, <1>5, <1>17, <2>1, <2>2, SameElements
<1>19. Service!Serves(c, request)
  <2>1. c.op = request.op /\ c.resid = request.resid /\ c.cmd = request.cmd
    BY <1>1, <1>5, <1>12, <1>17
  <2>2. c.ifnum = resource_table[request.resid] /\ Len(c.payload) = request.len
    BY <1>5, <1>17
  <2> QED BY <2>1, <2>2, <1>18 DEF Service!Serves
<1>20. Len(log') = 1 /\ log'[1] = c
  BY <1>16
<1>21. write_ret' = c.ret
  BY <1>11, <1>12
<1> QED BY <1>19, <1>20, <1>21

(* A complete header of a read command has been answered when it ends. *)
LEMMA HeaderAwaits ==
  ASSUME HInv, Deselects, Message # <<>>, Search(Message[1]) # {},
         IS_CONTROL_CMD_READ(Message[2]), owed = NoReply
  PROVE  /\ state = "READ_DATA_WAIT" /\ asked # NoReply /\ asked = Reply(asked.data)
         /\ UNCHANGED <<calls, log, write_ret>>
<1>1. pc # "idle" /\ slots = 0
  BY DEF Deselects
<1>2. /\ active /\ Len(frame) = Len(Message)
      /\ \A k \in 1 .. Len(Message) : frame[k] = Message[k]
  BY Complete
<1>3. Len(Message) = 8
  BY <1>1, HTypes, MessageFacts
<1>4. Len(frame) = 8 /\ frame[1] = Message[1] /\ frame[2] = Message[2]
  BY <1>2, <1>3
<1>5. Position
  BY HTypes DEF IInv
<1>6. state \notin {"READ_DATA", "IDLE", "ERROR", "RES_RECVD", "WRITE_CMD_RECVD",
                    "READ_CMD_RECVD"}
  <2>1. frame # <<>>
    <3>1. frame = <<>> => Len(frame) = 0
      OBVIOUS
    <3> QED BY <1>4, <3>1
  <2>2. state # "ERROR"
    <3>1. state = "ERROR" => Search(frame[1]) = {}
      BY <1>2, <1>5 DEF Position
    <3>2. Search(frame[1]) = Search(Message[1])
      BY <1>4
    <3> QED BY <3>1, <3>2
  <2>3. state \notin {"READ_DATA", "IDLE"}
    BY <1>2, <1>5, <2>1 DEF Position
  <2>4. state \notin {"RES_RECVD", "WRITE_CMD_RECVD", "READ_CMD_RECVD"}
    BY <1>2, <1>4, <1>5 DEF Position
  <2> QED BY <2>2, <2>3, <2>4
<1>7. state \notin Writing
  BY <1>2, <1>4, <1>5 DEF Position
<1>8. state \notin {"READ_DATA_START", "TRAP"}
  BY <1>1, HTypes DEF InTime
<1>9. state = "READ_DATA_WAIT"
  BY <1>6, <1>7, <1>8, HTypes DEF TypeOK, State, Writing
<1>10. asked # NoReply /\ asked = Reply(asked.data)
  BY <1>9, HTypes DEF IInv, Fetched
<1>11. UNCHANGED <<calls, log, write_ret>>
  BY <1>9, DeselectsFacts
<1> QED BY <1>9, <1>10, <1>11

(* The second transaction is of zeros only.  It makes no call, and leaves  *)
(* no reply behind.                                                        *)
LEMMA SecondIsQuiet ==
  ASSUME HInv, Deselects, pc = "second"
  PROVE  /\ Len(out) >= 8 /\ Len(out) >= Wanted /\ active
         /\ asked = NoReply /\ state # "WRITE_DATA"
<1>1. /\ Message \in Seq(Byte) /\ Len(Message) \in Nat
      /\ Len(Message) >= 8 /\ Len(Message) >= Wanted
      /\ \A k \in 1 .. Len(Message) : Message[k] = 0
  BY HTypes, MessageFacts
<1>2. Message # <<>>
  BY <1>1
<1>3. /\ active /\ Len(frame) = Len(Message) /\ Len(out) = Len(Message)
      /\ \A k \in 1 .. Len(Message) : frame[k] = Message[k]
  BY <1>2, Complete
<1>4. frame[2] = 0 /\ frame[3] = 0 /\ Len(frame) >= 8
  BY <1>1, <1>3
<1>5. asked = NoReply
  BY <1>4, HTypes, ZeroIsNoRead DEF IInv, Fetched
<1>6. ASSUME state = "WRITE_DATA" PROVE FALSE
  <2>1. Len(frame) = 3 + payload_len_transmitted /\ payload_len_from_header = frame[3]
        /\ active /\ owed = NoReply
    BY <1>6, HTypes, WritePosition
  <2>2. payload_len_transmitted <= payload_len_from_header
    BY <1>6, <2>1, HTypes DEF IInv, Gathered
  <2>3. payload_len_transmitted \in Nat
    BY HTypes, Types
  <2> QED BY <1>4, <2>1, <2>2, <2>3
<1> QED BY <1>1, <1>3, <1>5, <1>6

LEMMA WriteSentStep == ASSUME HInv, WriteSent PROVE HInv'
<1>1. /\ Deselects /\ pc = "first" /\ goal = "write" /\ goal' = "query" /\ pc' = "first"
      /\ Transfer(control_build_spi_data(StatusRequest))
      /\ UNCHANGED <<request, result>>
  BY DEF WriteSent
<1>2. /\ IInv' /\ active' = FALSE /\ log' \in Seq(Call) /\ state' \in {"IDLE", "READ_DATA"}
  BY <1>1, DeselectsFacts
<1>3. /\ Exchange' /\ todo' \in Seq(Byte) /\ Len(todo') <= SPI_TRANSACTION_MAX_BYTES
      /\ slots' \in 0 .. SPI_TRANSACTION_MAX_BYTES
  <2>1. control_build_spi_data(StatusRequest) \in Seq(Byte)
        /\ Len(control_build_spi_data(StatusRequest)) <= SPI_TRANSACTION_MAX_BYTES
    BY QueryMessage, HostSizes
  <2>2. Message' = control_build_spi_data(StatusRequest)
    BY <1>1 DEF Message, control_build_spi_data, StatusRequest
  <2> QED BY <1>1, <1>2, <2>1, <2>2, NextTransaction
<1>4. HostTypeOK'
  BY <1>1, <1>2, <1>3, HTypes DEF HostTypeOK, IInv, Request
<1>5. AskedRight'
  BY <1>1, HTypes DEF AskedRight
<1>6. InTime'
  BY <1>2 DEF InTime
<1>7. OwnTransaction' /\ LogOfRequest' /\ InStep' /\ ResultOfThisCommand'
  BY <1>1 DEF OwnTransaction, LogOfRequest, InStep, ResultOfThisCommand
<1>8. ResultUnderWay'
  <2> SUFFICES ASSUME request' \in Legal'
               PROVE  Done' /\ (write_ret = log[1].ret)' /\ state' = "IDLE"
    BY <1>1, <1>2 DEF ResultUnderWay
  <2>1. request \in Legal
    BY <1>1, SameLegal
  <2>2. Len(log') = 1 /\ Service!Serves(log'[1], request) /\ write_ret' = log'[1].ret
    BY <1>1, <2>1, WriteExecuted
  <2>3. Done'
    BY <1>1, <2>2 DEF Done, Service!Serves
  <2>4. state' = "IDLE"
    <3>1. owed = NoReply /\ active
      <4>1. active
        BY <1>1, <2>1, LegalFacts, HTypes, MessageFacts, Complete
      <4> QED BY <1>1, <4>1 DEF HInv, OwnTransaction
    <3>2. request.op = "write" /\ ~IS_CONTROL_CMD_READ(request.cmd)
      BY <1>1, <2>1, HTypes, LegalFacts DEF AskedRight
    <3>3. Len(frame) >= 3 /\ frame[2] = request.cmd
      BY <1>1, <2>1, LegalFacts, HTypes, MessageFacts, Complete
    <3>4. asked = NoReply
      BY <3>2, <3>3, HTypes DEF IInv, Fetched
    <3> QED BY <1>1, <3>4, DeselectsFacts
  <2> QED BY <2>2, <2>3, <2>4
<1> QED BY <1>2, <1>3, <1>4, <1>5, <1>6, <1>7, <1>8 DEF HInv

LEMMA HeaderSentStep == ASSUME HInv, HeaderSent PROVE HInv'
<1> DEFINE n == IF Wanted < HEADER_BYTES THEN HEADER_BYTES ELSE Wanted
<1>1. /\ Deselects /\ pc = "first" /\ goal \in {"read", "query"} /\ pc' = "second"
      /\ Transfer(Zeros(n)) /\ UNCHANGED <<goal, request, result>>
  BY DEF HeaderSent
<1>2. /\ IInv' /\ active' = FALSE /\ UNCHANGED <<frame, asked>>
      /\ log' \in Seq(Call) /\ state' \in {"IDLE", "READ_DATA"}
  BY <1>1, DeselectsFacts
<1>3. /\ Exchange' /\ todo' \in Seq(Byte) /\ Len(todo') <= SPI_TRANSACTION_MAX_BYTES
      /\ slots' \in 0 .. SPI_TRANSACTION_MAX_BYTES
  <2>1. n \in Nat /\ n <= SPI_TRANSACTION_MAX_BYTES
    <3>1. request.len \in Nat
      BY HTypes, ByteFacts DEF Request
    <3>2. Wanted \in Nat /\ Wanted <= SPI_DATA_MAX_BYTES
      BY <1>1, <3>1, HTypes, HostSizes DEF Wanted, StatusRequest, AskedRight
    <3> QED BY <3>2, HostSizes
  <2>2. Message' = Zeros(n)
    BY <1>1 DEF Message, Wanted, StatusRequest
  <2> HIDE DEF n
  <2>3. Zeros(n) \in Seq(Byte) /\ Len(Zeros(n)) <= SPI_TRANSACTION_MAX_BYTES
    BY <2>1, ZerosFacts
  <2> QED BY <1>1, <1>2, <2>2, <2>3, NextTransaction
<1>4. HostTypeOK'
  BY <1>1, <1>2, <1>3, HTypes DEF HostTypeOK, IInv, Request
<1>5. AskedRight'
  BY <1>1, HTypes DEF AskedRight
<1>6. InTime'
  BY <1>2 DEF InTime
<1>7. OwnTransaction' /\ LogOfRequest' /\ InStep' /\ ResultOfThisCommand'
  BY <1>1 DEF OwnTransaction, LogOfRequest, InStep, ResultOfThisCommand
<1>8. ResultUnderWay'
  <2> SUFFICES ASSUME request \in Legal
               PROVE  Done' /\ (asked = Reply(IF goal = "query" THEN <<log[1].ret>>
                                               ELSE log[1].payload))'
    BY <1>1, <1>2, SameLegal DEF ResultUnderWay, Promise
  <2>1. CASE goal = "read"
    <3>1. IS_CONTROL_CMD_READ(request.cmd) /\ Search(request.resid) # {}
      BY <2>1, HTypes, LegalFacts DEF AskedRight, Known
    <3>2. Message # <<>> /\ Message[1] = request.resid /\ Message[2] = request.cmd
      BY <1>1, <2>1, HTypes, LegalFacts, MessageFacts
    <3>3. active
      BY <1>1, <3>2, Complete
    <3>4. owed = NoReply
      BY <1>1, <2>1, <3>3 DEF HInv, OwnTransaction
    <3>5. state = "READ_DATA_WAIT" /\ UNCHANGED <<calls, log, write_ret>>
      BY <1>1, <3>1, <3>2, <3>4, HeaderAwaits
    <3>6. Done /\ asked = Reply(log[1].payload)
      BY <1>1, <2>1, <3>3, <3>5 DEF HInv, ResultUnderWay
    <3> QED BY <1>1, <1>2, <2>1, <3>5, <3>6 DEF Done, Service!Serves
  <2>2. CASE goal = "query"
    <3>1. /\ Message # <<>> /\ Len(Message) = 8
          /\ Message[1] = CONTROL_SPECIAL_RESID
          /\ Message[2] = CONTROL_GET_LAST_COMMAND_STATUS
          /\ Message[3] = 1
      <4>1. /\ Len(Message) = 8
            /\ Message[1] = CONTROL_SPECIAL_RESID
            /\ Message[2] = CONTROL_GET_LAST_COMMAND_STATUS
            /\ Message[3] = 1
        BY <1>1, <2>2, HTypes, MessageFacts
      <4>2. Message = <<>> => Len(Message) = 0
        OBVIOUS
      <4> QED BY <4>1, <4>2
    <3>2. /\ active /\ Len(frame) = 8 /\ frame[1] = Message[1] /\ frame[2] = Message[2]
          /\ frame[3] = Message[3]
      BY <1>1, <3>1, Complete
    <3>3. Search(Message[1]) # {} /\ IS_CONTROL_CMD_READ(Message[2])
      BY <3>1, SearchFacts, SpecialFacts, ControlAssumption, RetFacts DEF Byte
    <3>4. Done /\ write_ret = log[1].ret /\ owed = NoReply
      BY <1>1, <2>2, <3>2 DEF HInv, ResultUnderWay
    <3>5. asked # NoReply /\ asked = Reply(asked.data) /\ UNCHANGED <<calls, log, write_ret>>
      BY <1>1, <3>1, <3>3, <3>4, HeaderAwaits
    <3>6. asked.data = <<write_ret>>
      <4>1. StatusQuery
        BY <3>1, <3>2, <3>5, ReplyFacts DEF StatusQuery
      <4> QED BY <4>1, HTypes DEF IInv, StatusOfLastExecuted
    <3>7. asked' = Reply(<<log'[1].ret>>)
      BY <1>2, <3>4, <3>5, <3>6
    <3> QED BY <1>1, <2>2, <3>4, <3>5, <3>7 DEF Done, Service!Serves
  <2> QED BY <1>1, <2>1, <2>2
<1> QED BY <1>2, <1>3, <1>4, <1>5, <1>6, <1>7, <1>8 DEF HInv

(* The reply of the read command is what has been shifted out. *)
LEMMA ReplyFits ==
  ASSUME HInv, Deselects, pc = "second", request \in Legal
  PROVE  /\ goal = "query" => out[1] = log[1].ret
         /\ goal = "read" => SubSeq(out, 1, Wanted) = log[1].payload
<1>1. /\ Len(out) >= 8 /\ Len(out) >= Wanted /\ active
  BY SecondIsQuiet
<1>2. /\ Done
      /\ owed = Reply(IF goal = "query" THEN <<log[1].ret>> ELSE log[1].payload)
  BY <1>1 DEF HInv, ResultUnderWay, Promise
<1>3. /\ owed.data = IF goal = "query" THEN <<log[1].ret>> ELSE log[1].payload
      /\ \A k \in 1 .. Len(out) : out[k] = IF k <= Len(owed.data) THEN owed.data[k] ELSE 0
  BY <1>2, HTypes, ReplyFacts DEF IInv, ReplyThenZeros
<1>4. CASE goal = "query"
  <2>1. owed.data = <<log[1].ret>>
    BY <1>3, <1>4
  <2>2. Len(owed.data) = 1 /\ owed.data[1] = log[1].ret
    BY <2>1
  <2>3. 1 \in 1 .. Len(out)
    BY <1>1, HTypes
  <2> QED BY <1>3, <1>4, <2>2, <2>3
<1>5. CASE goal = "read"
  <2>1. owed.data = log[1].payload /\ owed.data \in Seq(Byte)
    BY <1>3, <1>5, HTypes, Types
  <2>2. Wanted = request.len /\ Len(log[1].payload) = request.len /\ Wanted \in Nat
    BY <1>2, <1>5, LegalFacts DEF Wanted, Done, Service!Serves
  <2>3. /\ SubSeq(out, 1, Wanted) \in Seq(Byte) /\ Len(SubSeq(out, 1, Wanted)) = Wanted
        /\ \A k \in 1 .. Wanted : SubSeq(out, 1, Wanted)[k] = out[k]
    BY <1>1, <2>2, HTypes, UpToFacts
  <2>4. \A k \in 1 .. Wanted : out[k] = owed.data[k]
    <3> TAKE k \in 1 .. Wanted
    <3>1. k \in 1 .. Len(out) /\ k <= Len(owed.data)
      BY <1>1, <2>1, <2>2, HTypes
    <3> QED BY <1>3, <3>1
  <2>5. SubSeq(out, 1, Wanted) = log[1].payload
    BY <2>1, <2>2, <2>3, <2>4, SameElements
  <2> QED BY <1>5, <2>5
<1>6. goal \in {"query", "read"}
  BY HTypes DEF HostTypes, AskedRight
<1> QED BY <1>4, <1>5, <1>6

LEMMA ReplyTakenStep == ASSUME HInv, ReplyTaken PROVE HInv'
<1>1. /\ Deselects /\ pc = "second" /\ pc' = "idle"
      /\ result' = IF goal = "query"
                   THEN [ret |-> out[1], data |-> <<>>]
                   ELSE [ret |-> CONTROL_SUCCESS, data |-> SubSeq(out, 1, Wanted)]
      /\ UNCHANGED <<goal, todo, slots, request>>
  BY DEF ReplyTaken
<1>2. Len(out) >= 8 /\ Len(out) >= Wanted /\ asked = NoReply /\ state # "WRITE_DATA"
  BY <1>1, SecondIsQuiet
<1>3. /\ todo = <<>> /\ slots = 0
      /\ IInv' /\ active' = FALSE /\ state' = "IDLE"
      /\ UNCHANGED <<calls, log>> /\ log' \in Seq(Call)
  BY <1>1, <1>2, DeselectsFacts
<1>4. result' \in [ret : Byte, data : Seq(Byte)]
  <2>1. CASE goal = "query"
    <3>1. out[1] \in Byte
      <4>1. 1 \in 1 .. Len(out)
        BY <1>2, HTypes
      <4> QED BY <4>1, HTypes
    <3> QED BY <1>1, <2>1, <3>1, EmptySeq
  <2>2. CASE goal # "query"
    <3>1. Wanted \in Nat
      BY <1>1, HTypes, WantedFacts
    <3>2. SubSeq(out, 1, Wanted) \in Seq(Byte)
      BY <1>2, <3>1, HTypes, UpToFacts
    <3> QED BY <1>1, <2>2, <3>2, RetFacts, ByteFacts
  <2> QED BY <2>1, <2>2
<1>5. HostTypeOK'
  BY <1>1, <1>3, <1>4, HTypes, HostSizes DEF HInv, HostTypeOK, IInv, Request
<1>6. AskedRight' /\ Exchange' /\ InTime' /\ InStep'
  BY <1>1, <1>3, HTypes DEF AskedRight, Exchange, InTime, InStep
<1>7. OwnTransaction' /\ LogOfRequest' /\ ResultUnderWay'
  BY <1>1 DEF OwnTransaction, LogOfRequest, ResultUnderWay
<1>8. ResultOfThisCommand'
  <2> SUFFICES ASSUME request \in Legal
               PROVE  /\ Done
                      /\ request.op = "write" => result'.ret = log[1].ret
                      /\ request.op = "read"  => result'.data = log[1].payload
    BY <1>1, <1>3, SameLegal DEF ResultOfThisCommand, Done, Service!Serves
  <2>1. Done
    BY <1>1 DEF HInv, ResultUnderWay
  <2>2. /\ goal = "query" => out[1] = log[1].ret
        /\ goal = "read" => SubSeq(out, 1, Wanted) = log[1].payload
    BY <1>1, ReplyFits
  <2>3. /\ request.op = "write" => goal = "query"
        /\ request.op = "read" => goal = "read"
    BY <1>1, HTypes DEF HostTypes, AskedRight
  <2>4. request.op = "write" => result'.ret = log[1].ret
    BY <1>1, <2>2, <2>3
  <2>5. request.op = "read"  => result'.data = log[1].payload
    BY <1>1, <2>2, <2>3
  <2> QED BY <2>1, <2>4, <2>5
<1> QED BY <1>3, <1>5, <1>6, <1>7, <1>8 DEF HInv

-----------------------------------------------------------------------------
(* The two functions begin. *)

LEMMA AsksStep ==
  ASSUME HInv, pc = "idle", NEW r \in Request, Asks(r), Len(r.data) = r.len,
         r.len <= SPI_DATA_MAX_BYTES \/ r.len > SPI_TRANSACTION_MAX_BYTES,
         r.op = "read" => r.len <= SPI_DATA_MAX_BYTES
  PROVE  HInv'
<1> DEFINE m == control_build_spi_data(r)
<1>1. /\ pc' = "first" /\ goal' = r.op /\ request' = r /\ Transfer(m)
      /\ result' = NoResult /\ log' = <<>> /\ UNCHANGED vars
  BY DEF Asks
<1>2. state = "IDLE" /\ ~active
  BY DEF HInv, InStep
<1>3. IInv' /\ state' = "IDLE" /\ active' = FALSE
  <2>1. IInv'
    BY <1>1, HTypes, StutterStep
  <2>2. state' = state /\ active' = active
    BY <1>1 DEF vars, spi, history
  <2> QED BY <1>2, <2>1, <2>2, HTypes DEF TypeOK
<1>4. r.op \in {"write", "read"} /\ r.len \in Nat
  BY ByteFacts DEF Request
<1>5. m \in Seq(Byte) /\ Len(m) <= SPI_TRANSACTION_MAX_BYTES
  <2> HIDE DEF m
  <2>1. CASE r.len <= SPI_DATA_MAX_BYTES
    BY <2>1, BuildFacts DEF m
  <2>2. CASE r.len > SPI_TRANSACTION_MAX_BYTES
    <3>1. m \in Seq(Byte) /\ m = <<>>
      BY <2>2, BuildFacts DEF m
    <3>2. Len(<<>>) = 0
      OBVIOUS
    <3> QED BY <3>1, <3>2, HostSizes
  <2> QED BY <2>1, <2>2
<1>6. Message' = m
  BY <1>1, <1>4 DEF Message, control_build_spi_data
<1> HIDE DEF m
<1>7. /\ Exchange' /\ todo' \in Seq(Byte) /\ Len(todo') <= SPI_TRANSACTION_MAX_BYTES
      /\ slots' \in 0 .. SPI_TRANSACTION_MAX_BYTES
  BY <1>1, <1>3, <1>5, <1>6, NextTransaction
<1>8. result' \in [ret : Byte, data : Seq(Byte)] /\ log' \in Seq(Call)
  BY <1>1, RetFacts, ByteFacts, EmptySeq DEF NoResult
<1>9. HostTypeOK'
  BY <1>1, <1>3, <1>4, <1>7, <1>8 DEF HostTypeOK, IInv, Request
<1>10. AskedRight'
  BY <1>1, <1>4 DEF AskedRight
<1>11. InTime' /\ OwnTransaction' /\ InStep' /\ ResultOfThisCommand'
  BY <1>1, <1>3 DEF InTime, OwnTransaction, InStep, ResultOfThisCommand
<1>12. LogOfRequest' /\ ResultUnderWay'
  BY <1>1, <1>3, <1>4 DEF LogOfRequest, ResultUnderWay
<1> QED BY <1>3, <1>7, <1>9, <1>10, <1>11, <1>12 DEF HInv

(* What the user may ask for. *)
LEMMA AskedFacts ==
  ASSUME HInv, control_write_command \/ control_read_command
  PROVE  /\ pc = "idle"
         /\ \E r \in Request :
              /\ Asks(r) /\ Len(r.data) = r.len
              /\ r.len <= SPI_DATA_MAX_BYTES \/ r.len > SPI_TRANSACTION_MAX_BYTES
              /\ r.op = "read" => r.len <= SPI_DATA_MAX_BYTES
<1>1. ResidBytes \subseteq Byte /\ CmdBytes \subseteq Byte /\ LenBytes \subseteq Byte
      /\ DataBytes \subseteq Byte
  BY SPIAssumption
<1>2. CASE control_write_command
  <2>1. PICK res \in ResidBytes, c \in CmdBytes, len \in LenBytes, null \in BOOLEAN :
          \E data \in IF len > SPI_TRANSACTION_MAX_BYTES
                      THEN {Zeros(len)} ELSE [1 .. len -> DataBytes] :
            /\ len <= SPI_DATA_MAX_BYTES \/ len > SPI_TRANSACTION_MAX_BYTES
            /\ Asks([op |-> "write", resid |-> res, cmd |-> c, len |-> len,
                      data |-> data, null |-> null])
    BY <1>2 DEF control_write_command
  <2>2. PICK data \in IF len > SPI_TRANSACTION_MAX_BYTES
                      THEN {Zeros(len)} ELSE [1 .. len -> DataBytes] :
            /\ len <= SPI_DATA_MAX_BYTES \/ len > SPI_TRANSACTION_MAX_BYTES
            /\ Asks([op |-> "write", resid |-> res, cmd |-> c, len |-> len,
                      data |-> data, null |-> null])
    BY <2>1
  <2>3. res \in Byte /\ c \in Byte /\ len \in Byte /\ len \in Nat
    BY <1>1, ByteFacts
  <2>4. data \in Seq(Byte) /\ Len(data) = len
    <3>1. CASE data = Zeros(len)
      BY <2>3, <3>1, ZerosFacts
    <3>2. CASE data \in [1 .. len -> DataBytes]
      <4>1. data \in [1 .. len -> Byte]
        BY <1>1, <3>2
      <4> QED BY <2>3, <4>1
    <3> QED BY <2>2, <3>1, <3>2
  <2> DEFINE r == [op |-> "write", resid |-> res, cmd |-> c, len |-> len, data |-> data,
                   null |-> null]
  <2>5. r \in Request /\ Len(r.data) = r.len /\ r.len = len /\ r.op = "write"
    BY <2>3, <2>4 DEF Request
  <2>6. Asks(r)
    BY <2>2
  <2>7. pc = "idle"
    BY <1>2 DEF control_write_command
  <2> HIDE DEF r
  <2> QED BY <2>2, <2>5, <2>6, <2>7
<1>3. CASE control_read_command
  <2>1. PICK res \in ResidBytes, c \in CmdBytes, len \in LenBytes :
          /\ len <= SPI_DATA_MAX_BYTES
          /\ Asks([op |-> "read", resid |-> res, cmd |-> c, len |-> len,
                    data |-> Zeros(len), null |-> FALSE])
    BY <1>3 DEF control_read_command
  <2>2. res \in Byte /\ c \in Byte /\ len \in Byte /\ len \in Nat
    BY <1>1, ByteFacts
  <2>3. Zeros(len) \in Seq(Byte) /\ Len(Zeros(len)) = len
    BY <2>2, ZerosFacts
  <2> DEFINE r == [op |-> "read", resid |-> res, cmd |-> c, len |-> len,
                   data |-> Zeros(len), null |-> FALSE]
  <2>4. r \in Request /\ Len(r.data) = r.len /\ r.len = len
    BY <2>2, <2>3 DEF Request
  <2>5. Asks(r)
    BY <2>1
  <2>6. pc = "idle"
    BY <1>3 DEF control_read_command
  <2> HIDE DEF r
  <2> QED BY <2>1, <2>4, <2>5, <2>6
<1> QED BY <1>2, <1>3

LEMMA BeginsStep ==
  ASSUME HInv, control_write_command \/ control_read_command PROVE HInv'
BY AskedFacts, AsksStep

LEMMA HStutter == ASSUME HInv, UNCHANGED hostVars PROVE HInv'
<1>1. UNCHANGED <<vars, pc, goal, todo, slots, request, result, log>>
  BY DEF hostVars, user
<1>2. IInv'
  BY <1>1, HTypes, StutterStep
<1>3. UNCHANGED <<state, active, frame, calls, asked, owed, out, write_ret>>
  BY <1>1 DEF vars, spi, history
<1>4. HostTypeOK' /\ AskedRight' /\ InTime' /\ OwnTransaction' /\ LogOfRequest' /\ InStep'
  BY <1>1, <1>2, <1>3
     DEF HInv, HostTypeOK, IInv, Request, AskedRight, InTime, OwnTransaction, LogOfRequest,
         InStep
<1>5. Exchange'
  BY <1>1, <1>3, SameMessage DEF HInv, Exchange
<1>6. ResultUnderWay'
  BY <1>1, <1>3, SameLegal DEF HInv, ResultUnderWay, Done, Promise, Service!Serves
<1>7. ResultOfThisCommand'
  BY <1>1, <1>3, SameLegal DEF HInv, ResultOfThisCommand, Service!Serves
<1> QED BY <1>2, <1>4, <1>5, <1>6, <1>7 DEF HInv

LEMMA HInitially == ASSUME HostInit PROVE HInv
<1>1. /\ Init /\ pc = "idle" /\ goal = "read" /\ todo = <<>> /\ slots = 0
      /\ request = [op |-> "read", resid |-> 0, cmd |-> 0, len |-> 0, data |-> <<>>,
                    null |-> FALSE]
      /\ result = NoResult /\ log = <<>>
  BY DEF HostInit
<1>2. IInv
  BY <1>1, Initially
<1>3. /\ request \in Request /\ request.len = 0 /\ Len(request.data) = 0
      /\ request.op = "read" /\ request.cmd = 0
  BY <1>1, SizeFacts, EmptySeq DEF Request
<1>4. HostTypeOK
  <2>1. todo \in Seq(Byte) /\ Len(todo) = 0 /\ log \in Seq(Call)
    BY <1>1, EmptySeq
  <2>2. result \in [ret : Byte, data : Seq(Byte)]
    BY <1>1, RetFacts, ByteFacts, EmptySeq DEF NoResult
  <2> QED BY <1>1, <1>2, <1>3, <2>1, <2>2, HostSizes DEF HostTypeOK, IInv
<1>5. state = "IDLE" /\ active = FALSE
  BY <1>1 DEF Init
<1>6. AskedRight /\ Exchange /\ InTime /\ InStep
  BY <1>1, <1>3, <1>5, HostSizes DEF AskedRight, Exchange, InTime, InStep
<1>7. request \notin Legal
  BY <1>3, ZeroIsNoRead DEF Legal
<1>8. OwnTransaction /\ LogOfRequest /\ ResultUnderWay /\ ResultOfThisCommand
  BY <1>1, <1>7 DEF OwnTransaction, LogOfRequest, ResultUnderWay, ResultOfThisCommand
<1> QED BY <1>2, <1>4, <1>6, <1>8 DEF HInv

LEMMA HInductive == ASSUME HInv, [HostNext]_hostVars PROVE HInv'
BY BeginsStep, ShiftsInStep, ShiftsOutStep, WriteSentStep, HeaderSentStep, ReplyTakenStep,
   HStutter DEF HostNext

(* The invariant of the host and its device. *)
THEOREM HostInvariance == HostSpec => []HInv
BY HInitially, HInductive, PTL DEF HostSpec

(* Type correctness, and with it that no message is longer than the buffer *)
(* control_build_spi_data fills.                                           *)
THEOREM HostTyping == HostSpec => []HostTypeOK
<1>1. HInv => HostTypeOK
  BY DEF HInv
<1> QED BY <1>1, HostInvariance, PTL

(* Every legal command is executed as asked, once, and what the functions  *)
(* return is the status or the data of that call.                          *)
THEOREM CommandsServed == HostSpec => []ResultOfThisCommand
<1>1. HInv => ResultOfThisCommand
  BY DEF HInv
<1> QED BY <1>1, HostInvariance, PTL

(* Whatever the user asks for, between two commands the device waits for a *)
(* header, never for the transaction of a reply.                           *)
THEOREM StayInStep == HostSpec => []InStep
<1>1. HInv => InStep
  BY DEF HInv
<1> QED BY <1>1, HostInvariance, PTL

-----------------------------------------------------------------------------
(* The refinement of ControlService.                                       *)

LEMMA HostCodes ==
  Service!NoResult = NoResult /\ Service!CONTROL_SUCCESS = CONTROL_SUCCESS
BY DEF Service!NoResult, NoResult, Service!CONTROL_ERROR, CONTROL_ERROR,
       Service!CONTROL_SUCCESS, CONTROL_SUCCESS

LEMMA HostBegins ==
  ASSUME HInv, control_write_command \/ control_read_command PROVE Service!Begin
<1>1. PICK r \in Request : Asks(r) /\ pc = "idle"
  BY AskedFacts
<1>2. pc' = "first" /\ request' = r /\ log' = <<>> /\ result' = NoResult
  BY <1>1 DEF Asks
<1>3. (pc # "idle") = FALSE /\ (pc' # "idle") = TRUE
  BY <1>1, <1>2
<1> QED BY <1>2, <1>3, HostCodes DEF Service!Begin

(* A call in a transaction is the Execute of the service. *)
LEMMA HostExecutes ==
  ASSUME HInv, pc # "idle", pc' # "idle", UNCHANGED <<request, result>>,
         log' = log \/ \E c \in Call : log' = Append(log, c),
         request \in Legal /\ request.op = "write" =>
           \/ log' = log
           \/ Len(log') = 1 /\ Service!Serves(log'[1], request)
  PROVE  Service!Execute \/ UNCHANGED <<pc # "idle", request, log, result>>
<1>1. (pc # "idle") = TRUE /\ (pc' # "idle") = TRUE
  OBVIOUS
<1>2. CASE log' = log
  BY <1>1, <1>2
<1>3. ASSUME NEW c \in Call, log' = Append(log, c) PROVE Service!Execute
  <2>1. log \in Seq(Call) /\ Len(log) \in Nat
    BY HTypes
  <2>2. Len(log') = Len(log) + 1 /\ SubSeq(log', 1, Len(log)) = log
    BY <1>3, <2>1, AppendFacts, FrontFacts
  <2>3. log' # log
    BY <2>1, <2>2
  <2> QED BY <1>1, <2>2, <2>3 DEF Service!Execute
<1> QED BY <1>2, <1>3

(* A byte shifted out makes no call for a legal write: its own message is  *)
(* no read, and the query after it is answered by the device itself.       *)
LEMMA ShiftsOutRefines ==
  ASSUME HInv, ShiftsOut
  PROVE  Service!Execute \/ UNCHANGED <<pc # "idle", request, log, result>>
<1>1. /\ slots > 0 /\ UNCHANGED <<pc, request, result>>
  BY DEF ShiftsOut
<1>2. pc # "idle"
  BY <1>1, HTypes DEF Exchange
<1>3. CASE state # "READ_DATA_START"
  <2>1. log' = log
    BY <1>3, QuietOut
  <2> QED BY <1>1, <1>2, <2>1
<1>4. CASE state = "READ_DATA_START"
  <2>1. /\ pc = "first" /\ resid = frame[1] /\ frame[1] = Message[1] /\ frame[2] = Message[2]
        /\ resid = CONTROL_SPECIAL_RESID => log' = log
    BY <1>2, <1>4, FetchFacts
  <2>2. resid # CONTROL_SPECIAL_RESID => \E c \in Call : log' = Append(log, c)
    BY <1>2, <1>4, FetchFacts
  <2>3. ASSUME request \in Legal, request.op = "write" PROVE log' = log
    <3>1. goal \in {"write", "query"}
      BY <2>3, HTypes DEF HostTypes, AskedRight
    <3>2. IS_CONTROL_CMD_READ(Message[2])
      BY <1>4, <2>1, HTypes, ReadPosition
    <3>3. goal = "query"
      <4>1. goal # "query" => Message[2] = request.cmd
        BY <1>2, <2>1, <2>3, HTypes, LegalFacts, MessageFacts
      <4>2. ~IS_CONTROL_CMD_READ(request.cmd)
        BY <2>3, LegalFacts
      <4> QED BY <3>2, <4>1, <4>2
    <3>4. Message[1] = CONTROL_SPECIAL_RESID
      BY <1>2, <2>1, <3>3, HTypes, MessageFacts
    <3> QED BY <2>1, <3>4
  <2>4. log' = log \/ \E c \in Call : log' = Append(log, c)
    BY <2>1, <2>2
  <2>5. pc # "idle" /\ pc' # "idle" /\ UNCHANGED <<request, result>>
    BY <1>1, <1>2
  <2> QED BY <2>3, <2>4, <2>5, HostExecutes
<1> QED BY <1>3, <1>4

LEMMA WriteSentRefines ==
  ASSUME HInv, WriteSent
  PROVE  Service!Execute \/ UNCHANGED <<pc # "idle", request, log, result>>
<1>1. Deselects /\ pc = "first" /\ goal = "write" /\ UNCHANGED <<pc, request, result>>
  BY DEF WriteSent
<1>2. UNCHANGED log \/ \E c \in Call : log' = Append(log, c)
  BY <1>1, DeselectsFacts
<1>3. request \in Legal => Len(log') = 1 /\ Service!Serves(log'[1], request)
  BY <1>1, WriteExecuted
<1>4. pc # "idle" /\ pc' # "idle" /\ UNCHANGED <<request, result>>
  BY <1>1
<1> QED BY <1>2, <1>3, <1>4, HostExecutes

(* The end of the header of the query makes no call. *)
LEMMA HeaderSentRefines ==
  ASSUME HInv, HeaderSent
  PROVE  Service!Execute \/ UNCHANGED <<pc # "idle", request, log, result>>
<1>1. /\ Deselects /\ pc = "first" /\ goal \in {"read", "query"} /\ pc' = "second"
      /\ UNCHANGED <<request, result>>
  BY DEF HeaderSent
<1>2. UNCHANGED log \/ \E c \in Call : log' = Append(log, c)
  BY <1>1, DeselectsFacts
<1>3. ASSUME request \in Legal, request.op = "write" PROVE log' = log
  <2>1. goal = "query"
    BY <1>1, <1>3, HTypes DEF AskedRight
  <2>2. Len(Message) = 8 /\ IS_CONTROL_CMD_READ(Message[2])
    BY <1>1, <2>1, HTypes, MessageFacts, SpecialFacts, ControlAssumption, RetFacts DEF Byte
  <2>3. Message # <<>>
    <3>1. Message = <<>> => Len(Message) = 0
      OBVIOUS
    <3> QED BY <2>2, <3>1
  <2>4. frame[2] = Message[2]
    BY <1>1, <2>2, <2>3, Complete
  <2>5. state # "WRITE_DATA"
    BY <2>2, <2>4, HTypes, WritePosition
  <2> QED BY <1>1, <2>5, DeselectsFacts
<1>4. pc # "idle" /\ pc' # "idle" /\ UNCHANGED <<request, result>>
  BY <1>1
<1> QED BY <1>2, <1>3, <1>4, HostExecutes

LEMMA ReplyTakenRefines == ASSUME HInv, ReplyTaken PROVE Service!Finish
<1>1. Deselects /\ pc = "second" /\ pc' = "idle" /\ UNCHANGED request
  BY DEF ReplyTaken
<1>2. log' = log
  BY <1>1, SecondIsQuiet, DeselectsFacts
<1>3. HInv'
  BY ReplyTakenStep
<1>4. ASSUME request \in Legal, request.op = "write"
      PROVE  Service!Honest(result', request, log)
  <2>1. Len(log') = 1 /\ result'.ret = log'[1].ret
    BY <1>1, <1>3, <1>4, SameLegal DEF HInv, ResultOfThisCommand
  <2>2. Len(log) = 1 /\ result'.ret = log[1].ret
    BY <1>2, <2>1
  <2>3. log # <<>>
    <3>1. log = <<>> => Len(log) = 0
      OBVIOUS
    <3> QED BY <2>2, <3>1
  <2> QED BY <1>4, <2>2, <2>3, HostCodes DEF Service!Honest
<1>5. (pc # "idle") = TRUE /\ (pc' # "idle") = FALSE
  BY <1>1
<1> QED BY <1>1, <1>2, <1>4, <1>5 DEF Service!Finish

LEMMA HostStepRefines ==
  ASSUME HInv, [HostNext]_hostVars
  PROVE  Service!Next \/ UNCHANGED <<pc # "idle", request, log, result>>
<1>1. CASE control_write_command \/ control_read_command
  BY <1>1, HostBegins DEF Service!Next
<1>2. CASE ShiftsIn
  <2>1. UNCHANGED <<pc, request, result, log>>
    BY <1>2, ShiftsInFacts DEF ShiftsIn
  <2> QED BY <2>1
<1>3. CASE ShiftsOut
  BY <1>3, ShiftsOutRefines DEF Service!Next
<1>4. CASE WriteSent
  BY <1>4, WriteSentRefines DEF Service!Next
<1>5. CASE HeaderSent
  BY <1>5, HeaderSentRefines DEF Service!Next
<1>6. CASE ReplyTaken
  BY <1>6, ReplyTakenRefines DEF Service!Next
<1>7. CASE UNCHANGED hostVars
  BY <1>7 DEF hostVars, user
<1> QED BY <1>1, <1>2, <1>3, <1>4, <1>5, <1>6, <1>7 DEF HostNext

LEMMA HostInitRefines == ASSUME HostInit PROVE Service!Init
<1>1. request \in Request
  BY HInitially DEF HInv, HostTypeOK
<1>2. (pc # "idle") = FALSE
  BY DEF HostInit
<1> QED BY <1>1, <1>2, HostCodes DEF HostInit, Service!Init

(* Without an answer on the bus, the host still keeps the promise of       *)
(* ControlService for legal writes: the task is called once, as asked, and *)
(* a success is the success of that call.                                  *)
THEOREM HostServes == HostSpec => ImplementsControlService
<1>1. HostInit => Service!Init
  BY HostInitRefines
<1>2. HInv /\ [HostNext]_hostVars => [Service!Next]_(Service!vars)
  BY HostStepRefines DEF Service!vars
<1> QED
  BY <1>1, <1>2, HostInvariance, PTL DEF HostSpec, Service!Spec, ImplementsControlService

=============================================================================
