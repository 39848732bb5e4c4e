--------------------------- MODULE SPIDeviceProofs ---------------------------
(***************************************************************************)
(* Proofs about the SPI transport of the device.  The inductive invariant  *)
(* ties the struct spi to the bytes of the command: in an ordinary         *)
(* transaction the state says how many of them there are, and in the one   *)
(* after the header of a read command only the reply is shifted out.       *)
(***************************************************************************)
EXTENDS SPIDevice, ControlLemmas

Writing == {"WRITE_CMD_RECVD", "WRITE_DATA", "PAYLOAD_ERROR"}
Reading == {"READ_CMD_RECVD", "READ_DATA_START", "READ_DATA_WAIT", "TRAP"}
Headed  == {"WRITE_DATA", "PAYLOAD_ERROR", "READ_DATA_START", "READ_DATA_WAIT", "TRAP"}

(* Nothing of an earlier command is left in the struct. *)
Fresh ==
  /\ state \notin {"WRITE_DATA", "PAYLOAD_ERROR", "READ_DATA", "ERROR", "TRAP"} =>
       payload_len_transmitted = 0
  /\ state = "IDLE" => payload_len_from_header = 0 /\ payload = Zeroed

(* In an ordinary transaction the struct follows the bytes of the command. *)
Position ==
  active /\ owed = NoReply =>
    /\ state # "READ_DATA"
    /\ state = "IDLE" => frame = <<>>
    /\ state # "IDLE" => Len(frame) >= 1
    /\ state = "ERROR" => Search(frame[1]) = {}
    /\ state \notin {"IDLE", "ERROR"} => resid = frame[1] /\ ifnum \in Search(resid)
    /\ state = "RES_RECVD" => Len(frame) = 1
    /\ state \in {"WRITE_CMD_RECVD", "READ_CMD_RECVD"} => Len(frame) = 2
    /\ state \in Writing \cup Reading => Len(frame) >= 2 /\ cmd = frame[2]
    /\ state \in Writing => ~IS_CONTROL_CMD_READ(cmd)
    /\ state \in Reading => IS_CONTROL_CMD_READ(cmd)
    /\ state \in Headed => Len(frame) >= 3 /\ payload_len_from_header = frame[3]

(* The bytes of a write command lie in the buffer in their order. *)
Gathered ==
  active /\ owed = NoReply =>
    /\ state \in {"WRITE_DATA", "PAYLOAD_ERROR"} =>
         Len(frame) = 3 + payload_len_transmitted
    /\ state = "WRITE_DATA" =>
         /\ payload_len_transmitted <= payload_len_from_header
         /\ \A k \in 1 .. payload_len_transmitted : payload[k - 1] = frame[k + 3]
    /\ state = "PAYLOAD_ERROR" =>
         \/ payload_len_transmitted > payload_len_from_header
         \/ payload_len_transmitted > SPI_DATA_MAX_BYTES

(* In the transaction of a reply nothing else happens, and the count says  *)
(* how much of it is out, until there is no more.                          *)
Replying ==
  active /\ owed # NoReply =>
    /\ state = "READ_DATA" /\ calls = <<>>
    /\ owed.data = Prefix(payload, payload_len_from_header)
    /\ Room => payload_len_transmitted = Len(out)
    /\ payload_len_transmitted <= Len(out)

(* A reply lies in the buffer from the request that fetched it to the      *)
(* transaction it is for.                                                  *)
Fetched ==
  /\ asked # NoReply =>
       /\ \/ active /\ owed = NoReply /\ state \in {"READ_DATA_WAIT", "TRAP"}
          \/ ~active /\ state = "READ_DATA"
       /\ asked.data = Prefix(payload, payload_len_from_header)
       /\ Len(frame) >= 3 /\ IS_CONTROL_CMD_READ(frame[2])
  /\ state = "READ_DATA_WAIT" \/ (~active /\ state = "READ_DATA") => asked # NoReply
  /\ asked = NoReply \/ asked = Reply(asked.data)
  /\ owed = NoReply \/ owed = Reply(owed.data)

(* A call that was made during a transaction was a read. *)
CallsSoFar ==
  /\ active /\ calls # <<>> =>
       state \in {"READ_DATA_WAIT", "TRAP"} /\ IS_CONTROL_CMD_READ(frame[2])
  /\ OneCallPerCommand

Settled ==
  /\ state = "TRAP" => active
  /\ last_status = write_ret

IInv ==
  /\ TypeOK
  /\ Fresh /\ Position /\ Gathered /\ Replying /\ Fetched /\ CallsSoFar /\ Settled
  /\ DispatchedAsSent /\ ExecutedIffComplete /\ ReplyThenZeros
  /\ BetweenTransactions /\ StatusOfLastExecuted

-----------------------------------------------------------------------------
LEMMA SizeFacts ==
  /\ SPI_DATA_MAX_BYTES \in Nat /\ SPI_DATA_MAX_BYTES >= 1
  /\ 0 \in Index /\ 0 \in Byte
BY SPIAssumption, ControlAssumption DEF Index, Byte

LEMMA SearchFacts ==
  ASSUME NEW x \in Byte
  PROVE  /\ Search(x) \subseteq IfNum
         /\ x # CONTROL_SPECIAL_RESID => \A k \in Search(x) : k = resource_table[x]
         /\ x = CONTROL_SPECIAL_RESID => Search(x) # {}
BY SPIAssumption, LookupFacts DEF Search

LEMMA ReplyFacts ==
  /\ NoReply.some = FALSE /\ NoReply.data = <<>>
  /\ \A d : Reply(d).some = TRUE /\ Reply(d).data = d /\ Reply(d) # NoReply
BY DEF NoReply, Reply

(* The first len bytes of the buffer. *)
LEMMA PrefixFacts ==
  ASSUME NEW p \in [Index -> Byte], NEW len \in Nat
  PROVE  /\ Prefix(p, len) \in Seq(Byte)
         /\ Len(Prefix(p, len)) = len
         /\ \A k \in 1 .. len : Prefix(p, len)[k] = IF k - 1 \in Index THEN p[k - 1] ELSE 0
<1>1. \A k \in 1 .. len : (IF k - 1 \in Index THEN p[k - 1] ELSE 0) \in Byte
  BY SizeFacts
<1> QED BY <1>1 DEF Prefix

(* The types, as they are used. *)
LEMMA Types ==
  ASSUME TypeOK
  PROVE  /\ resid \in Byte /\ cmd \in Byte /\ payload_len_from_header \in Nat
         /\ payload_len_from_header \in Byte /\ payload_len_transmitted \in Nat
         /\ Len(frame) \in Nat /\ Len(out) \in Nat /\ Len(calls) \in Nat
         /\ frame \in Seq(Byte) /\ calls \in Seq(Call) /\ out \in Seq(Byte)
         /\ asked.data \in Seq(Byte) /\ owed.data \in Seq(Byte)
         /\ payload \in [Index -> Byte] /\ last_status \in ControlRet
<1>1. {resid, cmd, payload_len_from_header} \subseteq Byte
      /\ {asked, owed} \subseteq [some : BOOLEAN, data : Seq(Byte)]
      /\ {last_status, write_ret} \subseteq ControlRet
  BY DEF TypeOK
<1>2. asked.data \in Seq(Byte) /\ owed.data \in Seq(Byte)
  BY <1>1
<1>3. frame \in Seq(Byte) /\ calls \in Seq(Call) /\ out \in Seq(Byte)
      /\ payload \in [Index -> Byte] /\ payload_len_transmitted \in Nat
  BY DEF TypeOK
<1>4. resid \in Byte /\ cmd \in Byte /\ payload_len_from_header \in Byte
      /\ payload_len_from_header \in Nat /\ last_status \in ControlRet
  BY <1>1, ByteFacts
<1> QED BY <1>2, <1>3, <1>4

(* The states a transaction may begin in. *)
LEMMA Idle ==
  ASSUME IInv, ~active
  PROVE  \/ state = "IDLE" /\ asked = NoReply
         \/ state = "READ_DATA" /\ asked # NoReply /\ payload_len_transmitted = 0
<1>1. state # "TRAP"
  BY DEF IInv, Settled
<1>2. CASE asked.some
  BY <1>1, <1>2, ReplyFacts DEF IInv, BetweenTransactions
<1>3. CASE ~asked.some
  <2>1. asked = NoReply
    BY <1>3, ReplyFacts DEF IInv, Fetched
  <2> QED BY <1>1, <1>3, <2>1 DEF IInv, BetweenTransactions
<1> QED BY <1>2, <1>3

(* Within a command, the transaction is an ordinary one. *)
LEMMA Ordinary ==
  ASSUME IInv, state \notin {"IDLE", "READ_DATA"}
  PROVE  active /\ owed = NoReply
<1>1. active
  BY Idle
<1>2. owed = NoReply
  BY <1>1 DEF IInv, Replying
<1> QED BY <1>1, <1>2

LEMMA Initially == Init => IInv
<1> SUFFICES ASSUME Init PROVE IInv
  OBVIOUS
<1>1. 0 \in Byte /\ 0 \in IfNum /\ CONTROL_SUCCESS \in ControlRet
  BY SizeFacts, RetFacts, ControlAssumption DEF IfNum
<1>2. NoReply \in [some : BOOLEAN, data : Seq(Byte)]
  BY EmptySeq DEF NoReply
<1>3. Zeroed \in [Index -> Byte]
  BY <1>1 DEF Zeroed
<1>4. TypeOK
  BY <1>1, <1>2, <1>3, EmptySeq DEF Init, TypeOK, State
<1>5. ~NoReply.some
  BY ReplyFacts
<1> QED BY <1>4, <1>5
  DEF Init, IInv, Fresh, Position, Gathered, Replying, Fetched, CallsSoFar, Settled,
      DispatchedAsSent, OneCallPerCommand, ExecutedIffComplete, ReplyThenZeros,
      BetweenTransactions, StatusOfLastExecuted, StatusQuery, IsWrite

-----------------------------------------------------------------------------
(* The bytes the master supplies.                                          *)

(* A byte that goes on with a transaction. *)
LEMMA GoesOn ==
  ASSUME IInv, NEW x \in Byte, Supplied(x), active, ~Restarts(x)
  PROVE  /\ active' = TRUE /\ UNCHANGED <<owed, out, calls, asked, last_status, write_ret>>
         /\ frame' = Append(frame, x)
         /\ frame' \in Seq(Byte) /\ Len(frame') = Len(frame) + 1
         /\ \A k \in 1 .. Len(frame) : frame'[k] = frame[k]
         /\ frame'[Len(frame) + 1] = x
<1>1. /\ active' = TRUE /\ UNCHANGED <<owed, out, calls, asked, last_status, write_ret>>
      /\ frame' = Append(frame, x)
  BY DEF Supplied
<1>2. frame \in Seq(Byte)
  BY Types DEF IInv
<1> QED BY <1>1, <1>2, AppendFacts

(* The first byte of a command, in a new transaction, after requests for   *)
(* bytes, or in place of the padding of a read command.                    *)
LEMMA BeginsCommand ==
  ASSUME IInv, NEW x \in Byte, state = "IDLE" \/ Restarts(x), Supplied(x), Begin(x)
  PROVE  /\ active' = TRUE /\ frame' = <<x>> /\ calls' = <<>>
         /\ asked' = NoReply /\ owed' = NoReply
         /\ payload_len_transmitted' = 0
         /\ cmd' \in Byte /\ payload_len_from_header' \in Byte /\ payload' \in [Index -> Byte]
         /\ out' \in Seq(Byte) /\ ReplyThenZeros'
         /\ UNCHANGED <<last_status, write_ret>>
<1>1. CASE Restarts(x)
  <2>1. active /\ owed = NoReply
    BY <1>1, Ordinary DEF Restarts
  <2>2. /\ active' = TRUE /\ UNCHANGED <<owed, out, last_status, write_ret>>
        /\ frame' = <<x>> /\ calls' = <<>> /\ asked' = NoReply
        /\ cmd' = 0 /\ payload_len_from_header' = 0
        /\ payload_len_transmitted' = 0 /\ payload' = Zeroed
    BY <1>1, <2>1 DEF Supplied, Begin
  <2>3. ReplyThenZeros' /\ out' \in Seq(Byte)
    BY <2>2, Types DEF IInv, ReplyThenZeros
  <2> QED BY <2>1, <2>2, <2>3, SizeFacts DEF Zeroed
<1>2. CASE ~Restarts(x)
  <2>1. state = "IDLE" /\ payload_len_transmitted = 0 /\ asked = NoReply
    BY <1>2 DEF IInv, Fresh, Fetched
  <2>2. /\ UNCHANGED <<cmd, payload_len_from_header, payload_len_transmitted, payload>>
        /\ active' = TRUE /\ UNCHANGED <<last_status, write_ret>>
    BY <1>2 DEF Begin, Supplied
  <2>3. CASE active
    <3>1. owed = NoReply /\ frame = <<>> /\ calls = <<>>
      BY <2>1, <2>3 DEF IInv, Replying, Position, CallsSoFar
    <3>2. frame' = Append(<<>>, x) /\ UNCHANGED <<owed, out, calls, asked>>
      BY <1>2, <2>3, <3>1 DEF Supplied
    <3>3. Append(<<>>, x) = <<x>>
      OBVIOUS
    <3>4. ReplyThenZeros' /\ out' \in Seq(Byte)
      BY <3>2, Types DEF IInv, ReplyThenZeros
    <3> QED BY <2>1, <2>2, <3>1, <3>2, <3>3, <3>4, Types DEF IInv
  <2>4. CASE ~active
    <3>1. owed' = asked /\ out' = <<>> /\ frame' = <<x>> /\ calls' = <<>> /\ asked' = NoReply
      BY <2>4 DEF Supplied
    <3>2. ReplyThenZeros' /\ out' \in Seq(Byte)
      BY <3>1, EmptySeq DEF ReplyThenZeros
    <3> QED BY <2>1, <2>2, <3>1, <3>2, Types DEF IInv
  <2> QED BY <2>3, <2>4
<1> QED BY <1>1, <1>2

LEMMA NoReplyType == NoReply \in [some : BOOLEAN, data : Seq(Byte)]
BY EmptySeq DEF NoReply

(* What is claimed of a transaction that has begun a command. *)
LEMMA CommandBegun ==
  ASSUME IInv, NEW x \in Byte, frame' = <<x>>, active' = TRUE, calls' = <<>>,
         asked' = NoReply, owed' = NoReply, ReplyThenZeros',
         UNCHANGED <<last_status, write_ret>>,
         state' \in {"RES_RECVD", "ERROR"}, payload_len_transmitted' = 0,
         state' = "RES_RECVD" => resid' = x /\ ifnum' \in Search(x),
         state' = "ERROR" => Search(x) = {}
  PROVE  /\ Fresh' /\ Position' /\ Gathered' /\ Replying' /\ Fetched' /\ CallsSoFar' /\ Settled'
         /\ DispatchedAsSent' /\ ExecutedIffComplete' /\ BetweenTransactions'
         /\ StatusOfLastExecuted'
<1>1. frame' \in Seq(Byte) /\ Len(frame') = 1 /\ frame'[1] = x
  OBVIOUS
<1>2. state' \notin Writing \cup Reading \cup Headed
  BY DEF Writing, Reading, Headed
<1>3. Position'
  <2>1. CASE state' = "ERROR"
    <3>1. Search(frame'[1]) = {}
      BY <1>1, <2>1
    <3>2. (Search(frame[1]) = {})'
      BY <3>1 DEF Search
    <3> QED BY <1>1, <1>2, <2>1, <3>2 DEF Position, Writing, Reading, Headed
  <2>2. CASE state' = "RES_RECVD"
    <3>1. resid' = frame'[1] /\ ifnum' \in Search(resid')
      BY <1>1, <2>2
    <3> QED BY <1>1, <1>2, <2>2, <3>1 DEF Position, Writing, Reading, Headed, Search
  <2> QED BY <2>1, <2>2
<1>4. Fresh' /\ Gathered' /\ Replying' /\ Fetched' /\ Settled'
  <2>1. Fresh' /\ Gathered'
    BY DEF Fresh, Gathered
  <2>2. Replying' /\ Fetched'
    BY DEF Replying, Fetched
  <2>3. Settled'
    BY DEF Settled, IInv
  <2> QED BY <2>1, <2>2, <2>3
<1>5. CallsSoFar' /\ DispatchedAsSent' /\ ExecutedIffComplete' /\ BetweenTransactions'
  BY DEF CallsSoFar, OneCallPerCommand, DispatchedAsSent, ExecutedIffComplete,
         BetweenTransactions
<1>6. StatusOfLastExecuted'
  BY <1>1 DEF StatusOfLastExecuted, StatusQuery
<1> QED BY <1>3, <1>4, <1>5, <1>6

LEMMA ResidStep ==
  ASSUME IInv, NEW x \in Byte, SupplyResid(x) \/ SupplyUnknownResid(x)
  PROVE  IInv'
<1>1. (state = "IDLE" \/ Restarts(x)) /\ Supplied(x) /\ Begin(x)
  BY DEF SupplyResid, SupplyUnknownResid
<1>2. /\ active' = TRUE /\ frame' = <<x>> /\ calls' = <<>>
      /\ asked' = NoReply /\ owed' = NoReply
      /\ payload_len_transmitted' = 0
      /\ cmd' \in Byte /\ payload_len_from_header' \in Byte /\ payload' \in [Index -> Byte]
      /\ out' \in Seq(Byte) /\ ReplyThenZeros'
      /\ UNCHANGED <<last_status, write_ret>>
  BY <1>1, BeginsCommand
<1>3. /\ state' \in {"RES_RECVD", "ERROR"}
      /\ state' = "RES_RECVD" => resid' = x /\ ifnum' \in Search(x)
      /\ state' = "ERROR" => Search(x) = {}
  BY DEF SupplyResid, SupplyUnknownResid
<1>4. resid' \in Byte /\ ifnum' \in IfNum
  <2>1. CASE SupplyResid(x)
    BY <2>1, SearchFacts DEF SupplyResid
  <2>2. CASE SupplyUnknownResid(x)
    BY <2>2, SizeFacts, Types, ControlAssumption DEF SupplyUnknownResid, IfNum, IInv, TypeOK
  <2> QED BY <2>1, <2>2
<1>5. frame' \in Seq(Byte) /\ calls' \in Seq(Call)
  BY <1>2, EmptySeq
<1>6. TypeOK'
  BY <1>2, <1>3, <1>4, <1>5, NoReplyType, SizeFacts DEF IInv, TypeOK, State
<1> QED BY <1>2, <1>3, <1>6, CommandBegun DEF IInv

(* A byte that goes on with an ordinary command, from a state in which no  *)
(* call has been made. *)
LEMMA CommandGoesOn ==
  ASSUME IInv, NEW x \in Byte, Supplied(x), state \notin {"IDLE", "READ_DATA", "READ_DATA_WAIT"},
         state # "TRAP", state' \notin {"IDLE", "READ_DATA", "READ_DATA_WAIT", "TRAP"}
  PROVE  /\ active' = TRUE /\ owed' = NoReply /\ asked' = NoReply /\ calls' = <<>>
         /\ frame' \in Seq(Byte) /\ Len(frame') = Len(frame) + 1
         /\ \A k \in 1 .. Len(frame) : frame'[k] = frame[k]
         /\ frame'[Len(frame) + 1] = x
         /\ UNCHANGED <<out, last_status, write_ret>>
         /\ Replying' /\ Fetched' /\ CallsSoFar' /\ Settled'
         /\ DispatchedAsSent' /\ ExecutedIffComplete' /\ ReplyThenZeros' /\ BetweenTransactions'
         /\ StatusOfLastExecuted'
<1>1. active /\ owed = NoReply /\ ~Restarts(x)
  BY Ordinary DEF Restarts
<1>2. asked = NoReply
  BY <1>1 DEF IInv, Fetched
<1>3. calls = <<>>
  BY <1>1 DEF IInv, CallsSoFar
<1>4. /\ active' = TRUE /\ UNCHANGED <<owed, out, calls, asked, last_status, write_ret>>
      /\ frame' \in Seq(Byte) /\ Len(frame') = Len(frame) + 1
      /\ \A k \in 1 .. Len(frame) : frame'[k] = frame[k]
      /\ frame'[Len(frame) + 1] = x
  BY <1>1, GoesOn
<1>5. Replying' /\ Fetched' /\ Settled' /\ BetweenTransactions' /\ ExecutedIffComplete'
  BY <1>1, <1>2, <1>4 DEF Replying, Fetched, Settled, BetweenTransactions,
                          ExecutedIffComplete, IInv
<1>6. CallsSoFar' /\ DispatchedAsSent'
  BY <1>3, <1>4 DEF CallsSoFar, OneCallPerCommand, DispatchedAsSent
<1>7. StatusOfLastExecuted'
  BY <1>2, <1>4, ReplyFacts DEF StatusOfLastExecuted, StatusQuery
<1>8. ReplyThenZeros'
  BY <1>4 DEF IInv, ReplyThenZeros
<1> QED BY <1>1, <1>2, <1>3, <1>4, <1>5, <1>6, <1>7, <1>8

LEMMA CmdStep == ASSUME IInv, NEW x \in Byte, SupplyCmd(x) PROVE IInv'
<1>1. /\ state = "RES_RECVD" /\ cmd' = x /\ Supplied(x)
      /\ state' = IF IS_CONTROL_CMD_READ(x) THEN "READ_CMD_RECVD" ELSE "WRITE_CMD_RECVD"
      /\ UNCHANGED <<resid, ifnum, payload_len_from_header, payload_len_transmitted, payload>>
  BY DEF SupplyCmd
<1>2. state' \in {"READ_CMD_RECVD", "WRITE_CMD_RECVD"}
  BY <1>1
<1>3. /\ active' = TRUE /\ owed' = NoReply /\ asked' = NoReply /\ calls' = <<>>
      /\ frame' \in Seq(Byte) /\ Len(frame') = Len(frame) + 1
      /\ \A k \in 1 .. Len(frame) : frame'[k] = frame[k]
      /\ frame'[Len(frame) + 1] = x
      /\ UNCHANGED <<out, last_status, write_ret>>
      /\ Replying' /\ Fetched' /\ CallsSoFar' /\ Settled'
      /\ DispatchedAsSent' /\ ExecutedIffComplete' /\ ReplyThenZeros' /\ BetweenTransactions'
      /\ StatusOfLastExecuted'
  BY <1>1, <1>2, CommandGoesOn
<1>4. active /\ owed = NoReply
  BY <1>1, Ordinary
<1>5. Len(frame) = 1 /\ resid = frame[1] /\ ifnum \in Search(resid)
      /\ payload_len_transmitted = 0
  BY <1>1, <1>4 DEF IInv, Position, Fresh
<1>6. Len(frame') = 2 /\ frame'[1] = frame[1] /\ frame'[2] = x
  BY <1>3, <1>5
<1>7. Position'
  BY <1>1, <1>2, <1>3, <1>5, <1>6 DEF Position, Writing, Reading, Headed, Search,
     IS_CONTROL_CMD_READ
<1>8. Fresh' /\ Gathered'
  BY <1>1, <1>2, <1>5 DEF Fresh, Gathered
<1>9. TypeOK'
  BY <1>1, <1>2, <1>3, NoReplyType, EmptySeq DEF IInv, TypeOK, State
<1> QED BY <1>3, <1>7, <1>8, <1>9 DEF IInv

LEMMA LengthStep == ASSUME IInv, NEW x \in Byte, SupplyLength(x) PROVE IInv'
<1>1. /\ \/ state = "READ_CMD_RECVD"  /\ state' = "READ_DATA_START"
         \/ state = "WRITE_CMD_RECVD" /\ state' = "WRITE_DATA"
      /\ payload_len_from_header' = x /\ Supplied(x)
      /\ UNCHANGED <<resid, cmd, ifnum, payload_len_transmitted, payload>>
  BY DEF SupplyLength
<1>2. /\ active' = TRUE /\ owed' = NoReply /\ asked' = NoReply /\ calls' = <<>>
      /\ frame' \in Seq(Byte) /\ Len(frame') = Len(frame) + 1
      /\ \A k \in 1 .. Len(frame) : frame'[k] = frame[k]
      /\ frame'[Len(frame) + 1] = x
      /\ UNCHANGED <<out, last_status, write_ret>>
      /\ Replying' /\ Fetched' /\ CallsSoFar' /\ Settled'
      /\ DispatchedAsSent' /\ ExecutedIffComplete' /\ ReplyThenZeros' /\ BetweenTransactions'
      /\ StatusOfLastExecuted'
  BY <1>1, CommandGoesOn
<1>3. active /\ owed = NoReply
  BY <1>1, Ordinary
<1>4. /\ Len(frame) = 2 /\ resid = frame[1] /\ ifnum \in Search(resid) /\ cmd = frame[2]
      /\ payload_len_transmitted = 0
      /\ state = "WRITE_CMD_RECVD" => ~IS_CONTROL_CMD_READ(cmd)
      /\ state = "READ_CMD_RECVD" => IS_CONTROL_CMD_READ(cmd)
  BY <1>1, <1>3 DEF IInv, Position, Fresh, Writing, Reading
<1>5. Len(frame') = 3 /\ frame'[1] = frame[1] /\ frame'[2] = frame[2] /\ frame'[3] = x
  BY <1>2, <1>4
<1>6. Position'
  BY <1>1, <1>2, <1>4, <1>5 DEF Position, Writing, Reading, Headed, Search, IS_CONTROL_CMD_READ
<1>7. x \in Nat
  BY ByteFacts
<1>8. Fresh' /\ Gathered'
  BY <1>1, <1>4, <1>5, <1>7 DEF Fresh, Gathered
<1>9. TypeOK'
  BY <1>1, <1>2, <1>4, NoReplyType, EmptySeq, SizeFacts DEF IInv, TypeOK, State
<1> QED BY <1>2, <1>6, <1>8, <1>9 DEF IInv

(* Where a write command stands, in terms of the bytes that were taken. *)
LEMMA WritePosition ==
  ASSUME IInv, state \in {"WRITE_DATA", "PAYLOAD_ERROR"}
  PROVE  /\ active /\ owed = NoReply
         /\ Len(frame) = 3 + payload_len_transmitted
         /\ resid = frame[1] /\ ifnum \in Search(resid) /\ cmd = frame[2]
         /\ ~IS_CONTROL_CMD_READ(cmd) /\ payload_len_from_header = frame[3]
<1>1. active /\ owed = NoReply
  BY Ordinary
<1> QED BY <1>1 DEF IInv, Position, Gathered, Writing, Reading, Headed

LEMMA DataStep ==
  ASSUME IInv, NEW x \in Byte, SupplyData(x) \/ SupplyExcess(x) PROVE IInv'
<1>1. /\ state \in {"WRITE_DATA", "PAYLOAD_ERROR"} /\ state' \in {"WRITE_DATA", "PAYLOAD_ERROR"}
      /\ payload_len_transmitted' = payload_len_transmitted + 1
      /\ Supplied(x)
      /\ UNCHANGED <<resid, cmd, ifnum, payload_len_from_header>>
      /\ state = "PAYLOAD_ERROR" => state' = "PAYLOAD_ERROR"
      /\ state' = "PAYLOAD_ERROR" => payload' = payload
      /\ state = "WRITE_DATA" /\ state' = "PAYLOAD_ERROR" => ~Room
      /\ state' = "WRITE_DATA" =>
           Room /\ payload' = [payload EXCEPT ![payload_len_transmitted] = x]
  <2>1. CASE SupplyExcess(x)
    BY <2>1 DEF SupplyExcess, header
  <2>2. CASE SupplyData(x) /\ Room
    BY <2>2 DEF SupplyData, header
  <2>3. CASE SupplyData(x) /\ ~Room
    BY <2>3 DEF SupplyData, header
  <2> QED BY <2>1, <2>2, <2>3
<1>2. /\ active' = TRUE /\ owed' = NoReply /\ asked' = NoReply /\ calls' = <<>>
      /\ frame' \in Seq(Byte) /\ Len(frame') = Len(frame) + 1
      /\ \A k \in 1 .. Len(frame) : frame'[k] = frame[k]
      /\ frame'[Len(frame) + 1] = x
      /\ UNCHANGED <<out, last_status, write_ret>>
      /\ Replying' /\ Fetched' /\ CallsSoFar' /\ Settled'
      /\ DispatchedAsSent' /\ ExecutedIffComplete' /\ ReplyThenZeros' /\ BetweenTransactions'
      /\ StatusOfLastExecuted'
  BY <1>1, CommandGoesOn
<1>3. /\ active /\ owed = NoReply
      /\ Len(frame) = 3 + payload_len_transmitted
      /\ resid = frame[1] /\ ifnum \in Search(resid) /\ cmd = frame[2]
      /\ ~IS_CONTROL_CMD_READ(cmd) /\ payload_len_from_header = frame[3]
  BY <1>1, WritePosition
<1>4. /\ payload_len_transmitted \in Nat /\ payload_len_from_header \in Nat
      /\ SPI_DATA_MAX_BYTES \in Nat /\ payload \in [Index -> Byte]
  BY Types, SizeFacts DEF IInv
<1>5. Len(frame') >= 3 /\ frame'[1] = frame[1] /\ frame'[2] = frame[2] /\ frame'[3] = frame[3]
  BY <1>2, <1>3, <1>4
<1>6. Position'
  BY <1>1, <1>2, <1>3, <1>5 DEF Position, Writing, Reading, Headed, Search, IS_CONTROL_CMD_READ
<1>7. Fresh'
  BY <1>1 DEF Fresh
<1>8. state' = "WRITE_DATA" =>
        /\ payload_len_transmitted' <= payload_len_from_header
        /\ payload_len_transmitted' <= SPI_DATA_MAX_BYTES
        /\ payload_len_transmitted \in Index
  BY <1>1, <1>4 DEF Room, Index
<1>9. payload' \in [Index -> Byte]
  BY <1>1, <1>4
<1>10. Gathered'
  <2>1. Len(frame') = 3 + payload_len_transmitted'
    BY <1>1, <1>2, <1>3, <1>4
  <2>2. ASSUME state' = "WRITE_DATA", NEW k \in 1 .. payload_len_transmitted'
        PROVE  payload'[k - 1] = frame'[k + 3]
    <3>1. k \in Nat /\ k <= payload_len_transmitted + 1 /\ state = "WRITE_DATA"
      BY <1>1, <1>4, <2>2
    <3>2. CASE k = payload_len_transmitted + 1
      BY <1>1, <1>2, <1>3, <1>4, <1>8, <2>2, <3>2
    <3>3. CASE k # payload_len_transmitted + 1
      <4>1. k \in 1 .. payload_len_transmitted /\ k - 1 # payload_len_transmitted
            /\ k - 1 \in Index
        BY <1>4, <1>8, <2>2, <3>1, <3>3 DEF Index
      <4>2. payload'[k - 1] = payload[k - 1] /\ payload[k - 1] = frame[k + 3]
        BY <1>1, <1>3, <1>4, <2>2, <3>1, <4>1 DEF IInv, Gathered
      <4> QED BY <1>2, <1>3, <1>4, <4>1, <4>2
    <3> QED BY <3>2, <3>3
  <2>3. ASSUME state' = "PAYLOAD_ERROR"
        PROVE  \/ payload_len_transmitted' > payload_len_from_header'
               \/ payload_len_transmitted' > SPI_DATA_MAX_BYTES
    <3>1. CASE state = "WRITE_DATA"
      BY <1>1, <1>4, <2>3, <3>1 DEF Room
    <3>2. CASE state = "PAYLOAD_ERROR"
      BY <1>1, <1>3, <1>4, <3>2 DEF IInv, Gathered
    <3> QED BY <1>1, <3>1, <3>2
  <2> QED BY <1>1, <1>8, <2>1, <2>2, <2>3 DEF Gathered
<1>11. TypeOK'
  BY <1>1, <1>2, <1>4, <1>8, <1>9, NoReplyType, EmptySeq DEF IInv, TypeOK, State
<1> QED BY <1>2, <1>6, <1>7, <1>10, <1>11 DEF IInv

(* In the transaction of a reply nothing but the count and the bytes given *)
(* change. *)
LEMMA InReply ==
  ASSUME IInv, active' = TRUE, state = "READ_DATA", asked' = NoReply, calls' = <<>>,
         NEW d \in Seq(Byte), owed' = Reply(d), d = Prefix(payload, payload_len_from_header),
         UNCHANGED <<state, resid, cmd, ifnum, payload_len_from_header, payload,
                     last_status, write_ret>>,
         frame' \in Seq(Byte), out' \in Seq(Byte), payload_len_transmitted' \in Nat,
         payload_len_transmitted' <= SPI_DATA_MAX_BYTES,
         (Room => payload_len_transmitted = Len(out))',
         payload_len_transmitted' <= Len(out'), ReplyThenZeros'
  PROVE  IInv'
<1>1. Reply(d) # NoReply /\ Reply(d).data = d /\ Reply(d) \in [some : BOOLEAN, data : Seq(Byte)]
  BY ReplyFacts DEF Reply
<1>2. TypeOK'
  BY <1>1, NoReplyType, EmptySeq DEF IInv, TypeOK
<1>3. Prefix(payload, payload_len_from_header)' = Prefix(payload, payload_len_from_header)
  BY DEF Prefix
<1>4. Replying'
  BY <1>1, <1>3 DEF Replying
<1>5. Fresh' /\ Position' /\ Gathered' /\ BetweenTransactions' /\ ExecutedIffComplete'
  BY <1>1 DEF Fresh, Position, Gathered, BetweenTransactions, ExecutedIffComplete
<1>6. Fetched'
  BY <1>1 DEF Fetched
<1>7. CallsSoFar' /\ DispatchedAsSent'
  BY DEF CallsSoFar, OneCallPerCommand, DispatchedAsSent
<1>8. Settled'
  BY DEF IInv, Settled
<1>9. StatusOfLastExecuted'
  BY ReplyFacts DEF StatusOfLastExecuted, StatusQuery
<1> QED BY <1>2, <1>4, <1>5, <1>6, <1>7, <1>8, <1>9 DEF IInv

(* The reply that is due when the state is READ_DATA. *)
Due == IF active THEN owed.data ELSE asked.data

LEMMA DueFacts ==
  ASSUME IInv, state = "READ_DATA"
  PROVE  /\ Due \in Seq(Byte) /\ Due = Prefix(payload, payload_len_from_header)
         /\ Len(Due) = payload_len_from_header
         /\ \A k \in 1 .. payload_len_from_header :
              Due[k] = IF k - 1 \in Index THEN payload[k - 1] ELSE 0
         /\ payload_len_transmitted \in Nat /\ payload_len_transmitted <= SPI_DATA_MAX_BYTES
         /\ active => /\ owed = Reply(Due) /\ calls = <<>> /\ asked = NoReply
                      /\ Room => payload_len_transmitted = Len(out)
                      /\ payload_len_transmitted <= Len(out)
         /\ ~active => asked = Reply(Due) /\ payload_len_transmitted = 0
<1>1. payload_len_transmitted \in Nat /\ payload_len_transmitted <= SPI_DATA_MAX_BYTES
      /\ payload \in [Index -> Byte] /\ payload_len_from_header \in Nat
  BY Types DEF IInv, TypeOK
<1>2. CASE active
  <2>1. owed # NoReply
    BY <1>2 DEF IInv, Position
  <2>2. /\ owed.data = Prefix(payload, payload_len_from_header) /\ calls = <<>>
        /\ Room => payload_len_transmitted = Len(out)
        /\ payload_len_transmitted <= Len(out)
    BY <1>2, <2>1 DEF IInv, Replying
  <2>3. asked = NoReply /\ owed = Reply(owed.data)
    BY <1>2, <2>1 DEF IInv, Fetched
  <2> QED BY <1>1, <1>2, <2>2, <2>3, PrefixFacts DEF Due
<1>3. CASE ~active
  <2>1. asked # NoReply /\ payload_len_transmitted = 0
    BY <1>3, Idle
  <2>2. asked = Reply(asked.data) /\ asked.data = Prefix(payload, payload_len_from_header)
    BY <2>1 DEF IInv, Fetched
  <2> QED BY <1>1, <1>3, <2>1, <2>2, PrefixFacts DEF Due
<1> QED BY <1>2, <1>3

(* What the master says while it is given a reply, or pads with. *)
LEMMA IgnoredReplyStep ==
  ASSUME IInv, NEW x \in Byte, SupplyIgnored(x), state = "READ_DATA" PROVE IInv'
<1>1. /\ Supplied(x) /\ ~Restarts(x)
      /\ UNCHANGED <<state, resid, cmd, ifnum, payload_len_from_header,
                     payload_len_transmitted, payload>>
  BY DEF SupplyIgnored, spi, header
<1>2. UNCHANGED <<last_status, write_ret>> /\ active' = TRUE
  BY <1>1 DEF Supplied
<1>3. CASE active
  <2>1. /\ UNCHANGED <<owed, out, calls, asked>> /\ frame' \in Seq(Byte)
    BY <1>1, <1>3, GoesOn
  <2>2. ReplyThenZeros' /\ out' \in Seq(Byte)
    BY <2>1, Types DEF IInv, ReplyThenZeros
  <2>3. (Room => payload_len_transmitted = Len(out))' /\ payload_len_transmitted' <= Len(out')
    BY <1>1, <1>3, <2>1, DueFacts DEF Room
  <2> QED BY <1>1, <1>2, <1>3, <2>1, <2>2, <2>3, DueFacts, InReply
<1>4. CASE ~active
  <2>1. /\ owed' = asked /\ out' = <<>> /\ frame' = <<x>> /\ calls' = <<>> /\ asked' = NoReply
    BY <1>1, <1>4 DEF Supplied
  <2>2. ReplyThenZeros' /\ out' \in Seq(Byte) /\ Len(out') = 0 /\ frame' \in Seq(Byte)
    BY <2>1 DEF ReplyThenZeros
  <2>3. payload_len_transmitted' = 0
    BY <1>1, <1>4, DueFacts
  <2> QED BY <1>1, <1>2, <1>4, <2>1, <2>2, <2>3, DueFacts, InReply, SizeFacts
<1> QED BY <1>3, <1>4

(* Where a read command stands whose header is complete. *)
LEMMA ReadPosition ==
  ASSUME IInv, state \in {"READ_DATA_START", "READ_DATA_WAIT"}
  PROVE  /\ active /\ owed = NoReply /\ Len(frame) >= 3
         /\ resid = frame[1] /\ ifnum \in Search(resid) /\ cmd = frame[2]
         /\ IS_CONTROL_CMD_READ(cmd) /\ payload_len_from_header = frame[3]
         /\ payload_len_transmitted = 0
<1>1. active /\ owed = NoReply
  BY Ordinary
<1> QED BY <1>1 DEF IInv, Position, Fresh, Writing, Reading, Headed

LEMMA IgnoredStep == ASSUME IInv, NEW x \in Byte, SupplyIgnored(x) PROVE IInv'
<1>1. /\ Supplied(x) /\ ~Restarts(x)
      /\ state \in {"READ_DATA_START", "READ_DATA_WAIT", "READ_DATA", "ERROR"}
      /\ UNCHANGED <<state, resid, cmd, ifnum, payload_len_from_header,
                     payload_len_transmitted, payload>>
  BY DEF SupplyIgnored, spi, header
<1>2. CASE state = "READ_DATA"
  BY <1>2, IgnoredReplyStep
<1>3. CASE state \in {"READ_DATA_START", "ERROR"}
  <2>1. /\ active' = TRUE /\ owed' = NoReply /\ asked' = NoReply /\ calls' = <<>>
        /\ frame' \in Seq(Byte) /\ Len(frame') = Len(frame) + 1
        /\ \A k \in 1 .. Len(frame) : frame'[k] = frame[k]
        /\ UNCHANGED <<out, last_status, write_ret>>
        /\ Replying' /\ Fetched' /\ CallsSoFar' /\ Settled'
        /\ DispatchedAsSent' /\ ExecutedIffComplete' /\ ReplyThenZeros' /\ BetweenTransactions'
        /\ StatusOfLastExecuted'
    BY <1>1, <1>3, CommandGoesOn
  <2>2. active /\ owed = NoReply /\ Len(frame) \in Nat
    BY <1>3, Ordinary, Types DEF IInv
  <2>3. Position'
    <3>1. CASE state = "READ_DATA_START"
      <4>1. Len(frame') >= 3 /\ frame'[1] = frame[1] /\ frame'[2] = frame[2] /\ frame'[3] = frame[3]
        BY <2>1, <3>1, ReadPosition
      <4> QED BY <1>1, <2>1, <3>1, <4>1, ReadPosition
          DEF Position, Writing, Reading, Headed, Search, IS_CONTROL_CMD_READ
    <3>2. CASE state = "ERROR"
      <4>1. Len(frame) >= 1 /\ Search(frame[1]) = {}
        BY <2>2, <3>2 DEF IInv, Position
      <4>2. frame'[1] = frame[1] /\ Len(frame') >= 1
        BY <2>1, <2>2, <4>1
      <4>3. (Search(frame[1]) = {})'
        BY <4>1, <4>2 DEF Search
      <4> QED BY <1>1, <3>2, <4>2, <4>3 DEF Position, Writing, Reading, Headed
    <3> QED BY <1>3, <3>1, <3>2
  <2>4. Fresh' /\ Gathered'
    BY <1>1, <1>3 DEF IInv, Fresh, Gathered
  <2>5. TypeOK'
    BY <1>1, <2>1, NoReplyType, EmptySeq DEF IInv, TypeOK
  <2> QED BY <2>1, <2>3, <2>4, <2>5 DEF IInv
<1>4. CASE state = "READ_DATA_WAIT"
  <2>1. /\ active /\ owed = NoReply /\ Len(frame) >= 3
        /\ resid = frame[1] /\ ifnum \in Search(resid) /\ cmd = frame[2]
        /\ IS_CONTROL_CMD_READ(cmd) /\ payload_len_from_header = frame[3]
    BY <1>4, ReadPosition
  <2>2. /\ active' = TRUE /\ UNCHANGED <<owed, out, calls, asked, last_status, write_ret>>
        /\ frame' \in Seq(Byte) /\ Len(frame') = Len(frame) + 1
        /\ \A k \in 1 .. Len(frame) : frame'[k] = frame[k]
    BY <1>1, <2>1, GoesOn
  <2>3. Len(frame') >= 3 /\ frame'[1] = frame[1] /\ frame'[2] = frame[2] /\ frame'[3] = frame[3]
    BY <2>1, <2>2
  <2>4. Position'
    BY <1>1, <1>4, <2>1, <2>2, <2>3
       DEF Position, Writing, Reading, Headed, Search, IS_CONTROL_CMD_READ
  <2>5. Fresh' /\ Gathered' /\ Replying' /\ BetweenTransactions' /\ ExecutedIffComplete'
        /\ ReplyThenZeros' /\ Settled'
    BY <1>1, <1>4, <2>1, <2>2 DEF IInv, Fresh, Gathered, Replying, BetweenTransactions,
       ExecutedIffComplete, ReplyThenZeros, Settled
  <2>6. Prefix(payload, payload_len_from_header)' = Prefix(payload, payload_len_from_header)
    BY <1>1 DEF Prefix
  <2>7. Fetched'
    BY <1>1, <1>4, <2>1, <2>2, <2>3, <2>6 DEF IInv, Fetched, IS_CONTROL_CMD_READ
  <2>8. CallsSoFar'
    BY <1>1, <1>4, <2>1, <2>2, <2>3 DEF IInv, CallsSoFar, OneCallPerCommand, IS_CONTROL_CMD_READ
  <2>9. DispatchedAsSent'
    <3>1. \A k \in 1 .. Len(calls) : calls[k].op = "read"
      BY <2>1 DEF IInv, DispatchedAsSent
    <3> QED BY <2>2, <2>3, <3>1 DEF IInv, DispatchedAsSent
  <2>10. StatusOfLastExecuted'
    BY <2>1, <2>2, <2>3 DEF IInv, StatusOfLastExecuted, StatusQuery
  <2>11. TypeOK'
    BY <1>1, <2>2 DEF IInv, TypeOK
  <2> QED BY <2>4, <2>5, <2>7, <2>8, <2>9, <2>10, <2>11, <1>1, <2>2 DEF IInv
<1> QED BY <1>1, <1>2, <1>3, <1>4

-----------------------------------------------------------------------------
(* The bytes the master requires.                                          *)

(* In an ordinary transaction they are zeros. *)
LEMMA ZeroGiven ==
  ASSUME IInv, active, owed = NoReply, Requires(0)
  PROVE  /\ active' = TRUE /\ UNCHANGED <<frame, owed, resid, cmd, ifnum,
                                          payload_len_from_header, last_status, write_ret>>
         /\ out' \in Seq(Byte) /\ ReplyThenZeros'
<1>1. /\ active' = TRUE /\ out' = Append(out, 0)
      /\ UNCHANGED <<frame, owed, resid, cmd, ifnum, payload_len_from_header, last_status,
                     write_ret>>
  BY DEF Requires, header
<1>2. out \in Seq(Byte) /\ 0 \in Byte
  BY Types, SizeFacts DEF IInv
<1>3. /\ out' \in Seq(Byte) /\ Len(out') = Len(out) + 1 /\ Len(out) \in Nat
      /\ \A k \in 1 .. Len(out) : out'[k] = out[k]
      /\ out'[Len(out) + 1] = 0
  BY <1>1, <1>2, AppendFacts
<1>4. Len(owed.data) = 0
  BY ReplyFacts
<1>5. \A k \in 1 .. Len(out) : out[k] = 0
  BY <1>4 DEF IInv, ReplyThenZeros
<1>6. \A k \in 1 .. Len(out') : out'[k] = 0
  BY <1>3, <1>5
<1>7. ReplyThenZeros'
  BY <1>1, <1>4, <1>6 DEF ReplyThenZeros
<1> QED BY <1>1, <1>3, <1>7

(* What read_command leaves in the buffer, and what it calls. *)
LEMMA ReadCommandFacts ==
  ASSUME IInv, state = "READ_DATA_START", NEW ret \in ControlRet, read_command(payload', ret)
  PROVE  /\ payload' \in [Index -> Byte]
         /\ resid = CONTROL_SPECIAL_RESID =>
              /\ calls' = <<>>
              /\ cmd = CONTROL_GET_LAST_COMMAND_STATUS /\ payload_len_from_header = 1 =>
                   Prefix(payload', 1) = <<last_status>>
         /\ resid # CONTROL_SPECIAL_RESID =>
              LET c == ReadCall(ifnum, resid, cmd, Prefix(payload', payload_len_from_header), ret)
              IN  calls' = <<c>> /\ c \in Call
<1>1. /\ resid \in Byte /\ cmd \in Byte /\ payload_len_from_header \in Nat
      /\ payload \in [Index -> Byte] /\ last_status \in ControlRet
  BY Types DEF IInv
<1>2. calls = <<>>
  BY ReadPosition DEF IInv, CallsSoFar
<1>3. CASE resid = CONTROL_SPECIAL_RESID
  <2> DEFINE v == special_read_byte(cmd, last_status)
  <2>1. v \in Byte
    BY <1>1, SpecialFacts
  <2>2. /\ ret = special_read_ret(cmd, payload_len_from_header)
        /\ payload' = IF ret = CONTROL_SUCCESS THEN [payload EXCEPT ![0] = v] ELSE payload
        /\ calls' = <<>>
    BY <1>2, <1>3 DEF read_command
  <2>3. payload' \in [Index -> Byte]
    BY <1>1, <2>1, <2>2
  <2>4. ASSUME cmd = CONTROL_GET_LAST_COMMAND_STATUS, payload_len_from_header = 1
        PROVE  Prefix(payload', 1) = <<last_status>>
    <3>1. v = last_status
      BY <1>1, <2>4, SpecialFacts DEF special_read_byte
    <3>2. ret = CONTROL_SUCCESS
      BY <2>2, <2>4 DEF special_read_ret
    <3> HIDE DEF v
    <3>3. payload'[0] = last_status
      BY <1>1, <2>2, <3>1, <3>2, SizeFacts
    <3>4. /\ Prefix(payload', 1) \in Seq(Byte) /\ Len(Prefix(payload', 1)) = 1
          /\ Prefix(payload', 1)[1] = payload'[0]
      <4>1. /\ Prefix(payload', 1) \in Seq(Byte) /\ Len(Prefix(payload', 1)) = 1
            /\ Prefix(payload', 1)[1] = IF 1 - 1 \in Index THEN payload'[1 - 1] ELSE 0
        <5> DEFINE q == payload'
        <5> HIDE DEF q
        <5>1. q \in [Index -> Byte] /\ 1 \in Nat /\ 1 \in 1 .. 1
          BY <2>3 DEF q
        <5>2. /\ Prefix(q, 1) \in Seq(Byte) /\ Len(Prefix(q, 1)) = 1
              /\ Prefix(q, 1)[1] = IF 1 - 1 \in Index THEN q[1 - 1] ELSE 0
          BY <5>1, PrefixFacts
        <5> QED BY <5>2 DEF q
      <4> QED BY <4>1, SizeFacts
    <3>5. <<last_status>> \in Seq(Byte) /\ Len(<<last_status>>) = 1
          /\ <<last_status>>[1] = last_status
      BY <1>1, ByteFacts
    <3> QED BY <3>3, <3>4, <3>5, SameElements
  <2> QED BY <1>3, <2>2, <2>3, <2>4
<1>4. CASE resid # CONTROL_SPECIAL_RESID
  <2>1. /\ ret \in AppRet
        /\ \/ \E reply \in [Index -> AppBytes] :
                payload' = [k \in Index |-> IF k < payload_len_from_header
                                            THEN reply[k] ELSE payload[k]]
           \/ payload' = payload /\ ret # CONTROL_SUCCESS
        /\ calls' = Append(calls, ReadCall(ifnum, resid, cmd,
                      Prefix(payload', payload_len_from_header), ret))
    BY <1>4 DEF read_command
  <2>2. payload' \in [Index -> Byte]
    <3>1. ASSUME NEW reply \in [Index -> AppBytes],
                 payload' = [k \in Index |-> IF k < payload_len_from_header
                                             THEN reply[k] ELSE payload[k]]
          PROVE  payload' \in [Index -> Byte]
      <4>1. \A k \in Index :
              (IF k < payload_len_from_header THEN reply[k] ELSE payload[k]) \in Byte
        BY <1>1, SPIAssumption
      <4> QED BY <3>1, <4>1
    <3> QED BY <1>1, <2>1, <3>1
  <2> DEFINE pl == Prefix(payload', payload_len_from_header)
             c  == ReadCall(ifnum, resid, cmd, pl, ret)
  <2>3. pl \in Seq(Byte)
    BY <1>1, <2>2, PrefixFacts
  <2> HIDE DEF pl
  <2>4. c \in Call
    BY <1>1, <2>3, CallType DEF IInv, TypeOK
  <2> HIDE DEF c
  <2>5. calls' = Append(<<>>, c) /\ Append(<<>>, c) = <<c>>
    BY <1>2, <2>1 DEF c, pl
  <2> QED BY <1>4, <2>2, <2>4, <2>5 DEF c, pl
<1> QED BY <1>3, <1>4

LEMMA RequireReplyStep == ASSUME IInv, RequireReply PROVE IInv'
<1>1. PICK ret \in ControlRet : read_command(payload', ret)
  BY DEF RequireReply
<1>2. /\ state = "READ_DATA_START" /\ state' \in {"READ_DATA_WAIT", "TRAP"}
      /\ asked' = Reply(Prefix(payload', payload_len_from_header))
      /\ Requires(0) /\ UNCHANGED payload_len_transmitted
  BY DEF RequireReply
<1>3. /\ active /\ owed = NoReply /\ Len(frame) >= 3
      /\ resid = frame[1] /\ ifnum \in Search(resid) /\ cmd = frame[2]
      /\ IS_CONTROL_CMD_READ(cmd) /\ payload_len_from_header = frame[3]
      /\ payload_len_transmitted = 0
  BY <1>2, ReadPosition
<1>4. /\ active' = TRUE /\ UNCHANGED <<frame, owed, resid, cmd, ifnum,
                                       payload_len_from_header, last_status, write_ret>>
      /\ out' \in Seq(Byte) /\ ReplyThenZeros'
  BY <1>2, <1>3, ZeroGiven
<1>5. payload' \in [Index -> Byte] /\ payload_len_from_header \in Nat
  BY <1>1, <1>2, ReadCommandFacts, Types DEF IInv
<1> DEFINE pl == Prefix(payload', payload_len_from_header)
<1>6. pl \in Seq(Byte) /\ Len(pl) = payload_len_from_header
  BY <1>5, PrefixFacts
<1>7. Prefix(payload, payload_len_from_header)' = pl
  BY <1>4 DEF Prefix
<1> HIDE DEF pl
<1>8. asked' = Reply(pl) /\ Reply(pl) # NoReply /\ Reply(pl).data = pl
      /\ Reply(pl) \in [some : BOOLEAN, data : Seq(Byte)]
  BY <1>2, <1>6, ReplyFacts DEF Reply, pl
<1>9. \/ calls' = <<>>
      \/ \E c \in Call :
           /\ calls' = <<c>> /\ c.op = "read" /\ c.resid = frame[1] /\ c.cmd = frame[2]
           /\ c.ifnum = resource_table[frame[1]] /\ c.payload = pl
  <2>1. CASE resid = CONTROL_SPECIAL_RESID
    BY <1>1, <1>2, <2>1, ReadCommandFacts
  <2>2. CASE resid # CONTROL_SPECIAL_RESID
    <3> DEFINE c == ReadCall(ifnum, resid, cmd, pl, ret)
    <3>1. calls' = <<c>> /\ c \in Call
      BY <1>1, <1>2, <2>2, ReadCommandFacts DEF pl
    <3>2. ifnum = resource_table[resid]
      BY <1>3, <2>2, SearchFacts, Types DEF IInv
    <3>3. /\ c.op = "read" /\ c.resid = resid /\ c.cmd = cmd /\ c.ifnum = ifnum
          /\ c.payload = pl
      BY DEF ReadCall
    <3> HIDE DEF c
    <3> QED BY <1>3, <3>1, <3>2, <3>3
  <2> QED BY <2>1, <2>2
<1>10. calls' \in Seq(Call) /\ OneCallPerCommand'
  <2>1. CASE calls' = <<>>
    BY <2>1, EmptySeq DEF OneCallPerCommand
  <2>2. ASSUME NEW c \in Call, calls' = <<c>> PROVE calls' \in Seq(Call) /\ OneCallPerCommand'
    BY <2>2 DEF OneCallPerCommand
  <2> QED BY <1>9, <2>1, <2>2
<1>11. DispatchedAsSent'
  <2>1. CASE calls' = <<>>
    BY <2>1 DEF DispatchedAsSent
  <2>2. ASSUME NEW c \in Call, calls' = <<c>>, c.op = "read", c.resid = frame[1],
               c.cmd = frame[2], c.ifnum = resource_table[frame[1]], c.payload = pl
        PROVE  DispatchedAsSent'
    <3>1. \A k \in 1 .. Len(calls') : calls'[k] = c
      BY <2>2
    <3> QED BY <1>3, <1>4, <1>6, <2>2, <3>1 DEF DispatchedAsSent, IS_CONTROL_CMD_READ
  <2> QED BY <1>9, <2>1, <2>2
<1>12. TypeOK'
  BY <1>2, <1>3, <1>4, <1>5, <1>8, <1>10, SizeFacts DEF IInv, TypeOK, State
<1>13. Position'
  BY <1>2, <1>3, <1>4 DEF Position, Writing, Reading, Headed, Search, IS_CONTROL_CMD_READ
<1>14. Fresh' /\ Gathered' /\ Replying' /\ BetweenTransactions' /\ ExecutedIffComplete'
  BY <1>2, <1>3, <1>4 DEF Fresh, Gathered, Replying, BetweenTransactions, ExecutedIffComplete
<1>15. Fetched'
  BY <1>2, <1>3, <1>4, <1>7, <1>8 DEF IInv, Fetched, IS_CONTROL_CMD_READ
<1>16. CallsSoFar' /\ Settled'
  BY <1>2, <1>3, <1>4, <1>10 DEF IInv, CallsSoFar, Settled, IS_CONTROL_CMD_READ
<1>17. StatusOfLastExecuted'
  <2> SUFFICES ASSUME StatusQuery' PROVE asked'.data = <<write_ret'>>
    BY DEF StatusOfLastExecuted
  <2>1. resid = CONTROL_SPECIAL_RESID /\ cmd = CONTROL_GET_LAST_COMMAND_STATUS
        /\ payload_len_from_header = 1
    BY <1>3, <1>4 DEF StatusQuery, CONTROL_GET_LAST_COMMAND_STATUS, CONTROL_CMD_SET_READ
  <2>2. pl = <<last_status>>
    BY <1>1, <1>2, <2>1, ReadCommandFacts DEF pl
  <2>3. last_status = write_ret
    BY DEF IInv, Settled
  <2> QED BY <1>4, <1>8, <2>2, <2>3
<1> QED BY <1>4, <1>11, <1>10, <1>12, <1>13, <1>14, <1>15, <1>16, <1>17 DEF IInv

(* The next byte of the reply, or a zero when there is no more. *)
LEMMA ReplyByteStep ==
  ASSUME IInv, state = "READ_DATA", RequireReplyByte \/ RequireNothing PROVE IInv'
<1> DEFINE n == payload_len_transmitted
           z == IF Room THEN payload[n] ELSE 0
<1>1. /\ Requires(z) /\ NoCall /\ UNCHANGED <<state, payload>>
      /\ payload_len_transmitted' = IF Room THEN n + 1 ELSE n
  BY DEF RequireReplyByte, RequireNothing
<1>2. /\ active' = TRUE /\ UNCHANGED <<resid, cmd, ifnum, payload_len_from_header,
                                       last_status, write_ret>>
  BY <1>1 DEF Requires, header
<1>3. /\ n \in Nat /\ n <= SPI_DATA_MAX_BYTES /\ payload_len_from_header \in Nat
      /\ payload \in [Index -> Byte] /\ SPI_DATA_MAX_BYTES \in Nat
      /\ Len(Due) = payload_len_from_header
      /\ \A k \in 1 .. payload_len_from_header :
           Due[k] = IF k - 1 \in Index THEN payload[k - 1] ELSE 0
  BY DueFacts, Types, SizeFacts DEF IInv
<1>4. z \in Byte
  BY <1>3, SizeFacts DEF Room, Index
(* The byte given is the one after those given so far. *)
<1>5. ASSUME NEW g \in Nat, n <= g, Room => n = g
      PROVE  /\ z = IF g + 1 <= Len(Due) THEN Due[g + 1] ELSE 0
             /\ Room' => payload_len_transmitted' = g + 1
             /\ payload_len_transmitted' <= g + 1
             /\ payload_len_transmitted' \in Nat /\ payload_len_transmitted' <= SPI_DATA_MAX_BYTES
  <2>1. CASE Room
    BY <1>1, <1>2, <1>3, <1>5, <2>1 DEF Room, Index
  <2>2. CASE ~Room
    <3>1. ~Room'
      BY <1>1, <1>2, <2>2 DEF Room
    <3>2. g + 1 <= Len(Due) => g \notin Index
      BY <1>3, <1>5, <2>2 DEF Room, Index
    <3>3. g + 1 <= Len(Due) => Due[g + 1] = 0
      <4>1. g + 1 <= Len(Due) => g + 1 \in 1 .. payload_len_from_header /\ (g + 1) - 1 = g
        BY <1>3, <1>5
      <4> QED BY <1>3, <3>2, <4>1
    <3> QED BY <1>1, <1>3, <1>5, <2>2, <3>1, <3>3
  <2> QED BY <2>1, <2>2
<1> HIDE DEF z, n
<1>6. CASE active
  <2>1. /\ UNCHANGED <<frame, owed, calls, asked>> /\ out' = Append(out, z)
        /\ owed = Reply(Due) /\ calls = <<>> /\ asked = NoReply
        /\ Room => n = Len(out)
        /\ n <= Len(out)
    BY <1>1, <1>6, DueFacts DEF Requires, NoCall, n
  <2>2. Len(out) \in Nat /\ out \in Seq(Byte) /\ frame \in Seq(Byte)
    BY Types DEF IInv
  <2>3. /\ out' \in Seq(Byte) /\ Len(out') = Len(out) + 1
        /\ \A k \in 1 .. Len(out) : out'[k] = out[k]
        /\ out'[Len(out) + 1] = z
    BY <1>4, <2>1, <2>2, AppendFacts
  <2>4. ReplyThenZeros'
    <3>1. owed.data = Due
      BY <2>1, ReplyFacts
    <3>2. \A k \in 1 .. Len(out) : out[k] = IF k <= Len(Due) THEN Due[k] ELSE 0
      BY <3>1 DEF IInv, ReplyThenZeros
    <3>3. z = IF Len(out) + 1 <= Len(Due) THEN Due[Len(out) + 1] ELSE 0
      BY <1>5, <2>1, <2>2
    <3>4. \A k \in 1 .. Len(out') : out'[k] = IF k <= Len(Due) THEN Due[k] ELSE 0
      BY <2>2, <2>3, <3>2, <3>3
    <3> QED BY <2>1, <3>1, <3>4 DEF ReplyThenZeros
  <2>5. /\ Room' => payload_len_transmitted' = Len(out')
        /\ payload_len_transmitted' <= Len(out')
        /\ payload_len_transmitted' \in Nat /\ payload_len_transmitted' <= SPI_DATA_MAX_BYTES
    BY <1>5, <2>1, <2>2, <2>3
  <2> QED BY <1>1, <1>2, <1>6, <2>1, <2>2, <2>3, <2>4, <2>5, DueFacts, InReply
<1>7. CASE ~active
  <2>1. /\ owed' = asked /\ out' = <<z>> /\ frame' = <<>> /\ calls' = <<>> /\ asked' = NoReply
        /\ asked = Reply(Due) /\ n = 0
    BY <1>1, <1>7, DueFacts DEF Requires, NoCall, n
  <2>2. out' \in Seq(Byte) /\ Len(out') = 1 /\ out'[1] = z /\ frame' \in Seq(Byte)
    BY <1>4, <2>1
  <2>3. /\ z = IF 1 <= Len(Due) THEN Due[1] ELSE 0
        /\ Room' => payload_len_transmitted' = 1
        /\ payload_len_transmitted' <= 1
        /\ payload_len_transmitted' \in Nat /\ payload_len_transmitted' <= SPI_DATA_MAX_BYTES
    BY <1>5, <2>1
  <2>4. ReplyThenZeros'
    BY <2>1, <2>2, <2>3, ReplyFacts DEF ReplyThenZeros
  <2> QED BY <1>1, <1>2, <1>7, <2>1, <2>2, <2>3, <2>4, DueFacts, InReply
<1> QED BY <1>6, <1>7

LEMMA NothingStep == ASSUME IInv, state # "READ_DATA", RequireNothing PROVE IInv'
<1>1. /\ Requires(0) /\ NoCall
      /\ UNCHANGED <<state, payload_len_transmitted, payload>>
      /\ state \notin {"READ_DATA_START", "TRAP"}
  BY DEF RequireNothing
<1>2. Prefix(payload, payload_len_from_header)' = Prefix(payload, payload_len_from_header')
  BY <1>1 DEF Prefix
<1>3. CASE active
  <2>1. owed = NoReply
    BY <1>3 DEF IInv, Replying
  <2>2. /\ active' = TRUE /\ UNCHANGED <<frame, owed, resid, cmd, ifnum,
                                         payload_len_from_header, last_status, write_ret>>
        /\ out' \in Seq(Byte) /\ ReplyThenZeros'
    BY <1>1, <1>3, <2>1, ZeroGiven
  <2>3. UNCHANGED <<calls, asked>>
    BY <1>1, <1>3 DEF NoCall
  <2>4. TypeOK'
    BY <1>1, <2>2, <2>3 DEF IInv, TypeOK
  <2>5. Position'
    BY <1>1, <1>3, <2>1, <2>2
       DEF IInv, Position, Writing, Reading, Headed, Search, IS_CONTROL_CMD_READ
  <2>6. Fresh' /\ Gathered' /\ Replying' /\ BetweenTransactions' /\ ExecutedIffComplete'
        /\ Settled'
    BY <1>1, <1>3, <2>1, <2>2 DEF IInv, Fresh, Gathered, Replying, BetweenTransactions,
       ExecutedIffComplete, Settled
  <2>7. Fetched'
    BY <1>1, <1>2, <1>3, <2>1, <2>2, <2>3 DEF IInv, Fetched, IS_CONTROL_CMD_READ
  <2>8. CallsSoFar' /\ DispatchedAsSent' /\ StatusOfLastExecuted'
    BY <1>1, <1>3, <2>2, <2>3 DEF IInv, CallsSoFar, OneCallPerCommand, DispatchedAsSent,
       StatusOfLastExecuted, StatusQuery, IS_CONTROL_CMD_READ
  <2> QED BY <2>2, <2>4, <2>5, <2>6, <2>7, <2>8 DEF IInv
<1>4. CASE ~active
  <2>1. state = "IDLE" /\ asked = NoReply
    BY <1>4, Idle
  <2>2. /\ active' = TRUE /\ out' = <<0>> /\ frame' = <<>> /\ owed' = NoReply
        /\ calls' = <<>> /\ asked' = NoReply
        /\ UNCHANGED <<resid, cmd, ifnum, payload_len_from_header, last_status, write_ret>>
    BY <1>1, <1>4, <2>1 DEF Requires, NoCall, header
  <2>3. /\ out' \in Seq(Byte) /\ Len(out') = 1 /\ out'[1] = 0 /\ Len(NoReply.data) = 0
    BY <2>2, SizeFacts, ReplyFacts
  <2>4. TypeOK'
    BY <1>1, <2>2, <2>3, NoReplyType, EmptySeq DEF IInv, TypeOK
  <2>5. Position' /\ Gathered' /\ Fresh'
    BY <1>1, <2>1, <2>2 DEF IInv, Position, Gathered, Fresh, Writing, Reading, Headed
  <2>6. Replying' /\ Fetched' /\ BetweenTransactions' /\ ExecutedIffComplete'
    BY <1>1, <2>1, <2>2 DEF Replying, Fetched, BetweenTransactions, ExecutedIffComplete
  <2>7. Settled'
    BY <1>1, <2>1, <2>2 DEF IInv, Settled
  <2>8. CallsSoFar' /\ DispatchedAsSent'
    BY <2>2 DEF CallsSoFar, OneCallPerCommand, DispatchedAsSent
  <2>9. StatusOfLastExecuted'
    BY <2>2, ReplyFacts DEF StatusOfLastExecuted, StatusQuery
  <2>10. ReplyThenZeros'
    BY <2>2, <2>3 DEF ReplyThenZeros
  <2> QED BY <2>4, <2>5, <2>6, <2>7, <2>8, <2>9, <2>10 DEF IInv
<1> QED BY <1>3, <1>4

-----------------------------------------------------------------------------
(* The end of a transaction.                                               *)

(* The device is as it was at the start. *)
LEMMA Forgotten ==
  ASSUME IInv, memset, Ends, asked = NoReply, last_status' = write_ret',
         last_status' \in ControlRet, calls' \in Seq(Call),
         DispatchedAsSent', OneCallPerCommand', ExecutedIffComplete'
  PROVE  IInv'
<1>1. /\ state' = "IDLE" /\ resid' = 0 /\ cmd' = 0 /\ ifnum' = 0
      /\ payload_len_from_header' = 0 /\ payload_len_transmitted' = 0 /\ payload' = Zeroed
      /\ active' = FALSE /\ UNCHANGED <<frame, asked, owed, out>>
  BY DEF memset, Ends
<1>2. 0 \in Byte /\ 0 \in IfNum /\ Zeroed \in [Index -> Byte]
  BY SizeFacts, ControlAssumption DEF IfNum, Zeroed
<1>3. TypeOK'
  BY <1>1, <1>2, SizeFacts DEF IInv, TypeOK, State
<1>4. /\ Fresh' /\ Position' /\ Gathered' /\ Replying' /\ Settled' /\ CallsSoFar'
  BY <1>1 DEF Fresh, Position, Gathered, Replying, Settled, CallsSoFar
<1>5. Fetched' /\ BetweenTransactions'
  BY <1>1, ReplyFacts DEF IInv, Fetched, BetweenTransactions
<1>6. StatusOfLastExecuted' /\ ReplyThenZeros'
  BY <1>1, ReplyFacts DEF IInv, StatusOfLastExecuted, StatusQuery, ReplyThenZeros
<1> QED BY <1>3, <1>4, <1>5, <1>6 DEF IInv

LEMMA EndOfWriteStep == ASSUME IInv, EndOfWrite PROVE IInv'
<1>1. /\ state = "WRITE_DATA" /\ payload_len_transmitted >= payload_len_from_header
      /\ memset /\ Ends /\ last_status' = write_ret'
      /\ active' = FALSE /\ UNCHANGED <<frame, owed, asked, out>>
  BY DEF EndOfWrite, Ends
<1>2. /\ active /\ owed = NoReply
      /\ Len(frame) = 3 + payload_len_transmitted
      /\ resid = frame[1] /\ ifnum \in Search(resid) /\ cmd = frame[2]
      /\ ~IS_CONTROL_CMD_READ(cmd) /\ payload_len_from_header = frame[3]
  BY <1>1, WritePosition
<1>3. asked = NoReply /\ calls = <<>>
  BY <1>1, <1>2 DEF IInv, Fetched, CallsSoFar
<1>4. /\ payload_len_transmitted \in Nat /\ payload_len_from_header \in Nat
      /\ resid \in Byte /\ cmd \in Byte /\ frame \in Seq(Byte) /\ payload \in [Index -> Byte]
  BY Types DEF IInv
<1>5. /\ payload_len_transmitted = payload_len_from_header
      /\ payload_len_transmitted <= SPI_DATA_MAX_BYTES
      /\ \A k \in 1 .. payload_len_transmitted : payload[k - 1] = frame[k + 3]
  BY <1>1, <1>2, <1>4 DEF IInv, Gathered, TypeOK
<1>6. Len(frame) = 3 + frame[3] /\ frame[3] <= SPI_DATA_MAX_BYTES /\ Len(frame) >= 3
  BY <1>2, <1>4, <1>5
<1>7. ~NoReply.some
  BY ReplyFacts
<1>8. CASE resid = CONTROL_SPECIAL_RESID
  <2>1. last_status' = CONTROL_BAD_COMMAND /\ calls' = <<>>
    BY <1>3, <1>8 DEF EndOfWrite
  <2>2. DispatchedAsSent' /\ OneCallPerCommand'
    BY <2>1 DEF DispatchedAsSent, OneCallPerCommand
  <2>3. ExecutedIffComplete'
    BY <1>1, <1>2, <1>8 DEF ExecutedIffComplete, Known
  <2> QED BY <1>1, <1>3, <2>1, <2>2, <2>3, RetFacts, EmptySeq, Forgotten
<1>9. CASE resid # CONTROL_SPECIAL_RESID
  <2> DEFINE pl == Prefix(payload, payload_len_transmitted)
  <2>1. PICK r \in AppRet :
          /\ last_status' = r
          /\ calls' = Append(calls, WriteCall(ifnum, resid, cmd, pl, r))
    BY <1>9 DEF EndOfWrite
  <2>2. /\ pl \in Seq(Byte) /\ Len(pl) = payload_len_transmitted
        /\ \A k \in 1 .. payload_len_transmitted :
             pl[k] = IF k - 1 \in Index THEN payload[k - 1] ELSE 0
    BY <1>4, PrefixFacts
  <2>3. pl = SubSeq(frame, 4, Len(frame))
    <3> DEFINE t == SubSeq(frame, 4, Len(frame))
    <3>1. /\ t \in Seq(Byte) /\ Len(t) = payload_len_transmitted
          /\ \A k \in 1 .. payload_len_transmitted : t[k] = frame[k + 3]
      BY <1>2, <1>4
    <3>2. \A k \in 1 .. payload_len_transmitted : k - 1 \in Index
      BY <1>4, <1>5, SizeFacts DEF Index
    <3> HIDE DEF pl, t
    <3>3. \A k \in 1 .. Len(pl) : pl[k] = t[k]
      BY <1>5, <2>2, <3>1, <3>2
    <3>4. pl = t
      BY <2>2, <3>1, <3>3, SameElements
    <3> QED BY <3>4 DEF t
  <2> HIDE DEF pl
  <2> DEFINE c == WriteCall(ifnum, resid, cmd, pl, r)
  <2>4. c \in Call
    BY <1>4, <2>2, CallType, SPIAssumption DEF IInv, TypeOK
  <2>5. /\ c.op = "write" /\ c.resid = resid /\ c.cmd = cmd /\ c.ifnum = ifnum /\ c.payload = pl
    BY DEF WriteCall
  <2>6. ifnum = resource_table[resid]
    BY <1>2, <1>4, <1>9, SearchFacts
  <2> HIDE DEF c
  <2>7. calls' = <<c>>
    <3>1. calls' = Append(<<>>, c)
      BY <1>3, <2>1 DEF c
    <3> QED BY <3>1
  <2>8. calls' \in Seq(Call) /\ OneCallPerCommand' /\ calls' # <<>>
        /\ \A k \in 1 .. Len(calls') : calls'[k] = c
    BY <2>4, <2>7 DEF OneCallPerCommand
  <2>9. DispatchedAsSent'
    <3>1. ~IS_CONTROL_CMD_READ(frame[2]) /\ Len(pl) = frame[3]
      BY <1>2, <1>5, <2>2
    <3> QED BY <1>1, <1>2, <1>6, <2>3, <2>5, <2>6, <2>8, <3>1
        DEF DispatchedAsSent, IS_CONTROL_CMD_READ
  <2>10. ExecutedIffComplete'
    BY <1>1, <1>2, <1>6, <1>7, <2>8 DEF ExecutedIffComplete
  <2>11. last_status' \in ControlRet
    BY <2>1, SPIAssumption
  <2> QED BY <1>1, <1>3, <2>8, <2>9, <2>10, <2>11, Forgotten
<1> QED BY <1>8, <1>9

LEMMA EndOfReadHeaderStep == ASSUME IInv, EndOfReadHeader PROVE IInv'
<1>1. /\ state = "READ_DATA_WAIT" /\ state' = "READ_DATA"
      /\ active' = FALSE /\ UNCHANGED <<frame, asked, owed, out>>
      /\ UNCHANGED <<resid, cmd, ifnum, payload_len_from_header, payload_len_transmitted,
                     payload, last_status, calls, write_ret>>
  BY DEF EndOfReadHeader, Ends, header
<1>2. /\ active /\ owed = NoReply /\ Len(frame) >= 3
      /\ cmd = frame[2] /\ IS_CONTROL_CMD_READ(cmd) /\ payload_len_transmitted = 0
  BY <1>1, ReadPosition
<1>3. asked # NoReply /\ asked.some
  BY <1>1, ReplyFacts DEF IInv, Fetched
<1>4. TypeOK'
  <2>1. state' \in State /\ active' \in BOOLEAN
    BY <1>1 DEF State
  <2>2. payload_len_transmitted' \in Nat /\ payload_len_transmitted' <= SPI_DATA_MAX_BYTES
    BY <1>1, <1>2, SizeFacts
  <2> QED BY <1>1, <2>1, <2>2 DEF IInv, TypeOK
<1>5. Prefix(payload, payload_len_from_header)' = Prefix(payload, payload_len_from_header)
  BY <1>1 DEF Prefix
<1>6. Fetched'
  BY <1>1, <1>2, <1>3, <1>5 DEF IInv, Fetched, IS_CONTROL_CMD_READ
<1>7. Fresh' /\ Position' /\ Gathered' /\ Replying' /\ BetweenTransactions'
  BY <1>1, <1>2, <1>3 DEF Fresh, Position, Gathered, Replying, BetweenTransactions
<1>8. Settled' /\ CallsSoFar' /\ DispatchedAsSent' /\ ReplyThenZeros' /\ StatusOfLastExecuted'
  BY <1>1 DEF IInv, Settled, CallsSoFar, OneCallPerCommand, DispatchedAsSent, ReplyThenZeros,
     StatusOfLastExecuted, StatusQuery
<1>9. ExecutedIffComplete'
  BY <1>1, <1>2 DEF ExecutedIffComplete, IsWrite, IS_CONTROL_CMD_READ
<1> QED BY <1>4, <1>6, <1>7, <1>8, <1>9 DEF IInv

LEMMA EndOfAnythingElseStep == ASSUME IInv, EndOfAnythingElse PROVE IInv'
<1>1. /\ state \notin {"READ_DATA_WAIT", "TRAP"} /\ active
      /\ ~(state = "WRITE_DATA" /\ payload_len_transmitted >= payload_len_from_header)
      /\ memset /\ Ends /\ UNCHANGED <<last_status, calls, write_ret>>
      /\ active' = FALSE /\ UNCHANGED <<frame, owed, asked, out>>
  BY DEF EndOfAnythingElse, Ends
<1>2. asked = NoReply /\ calls = <<>>
  BY <1>1 DEF IInv, Fetched, CallsSoFar
<1>3. /\ payload_len_transmitted \in Nat /\ payload_len_from_header \in Nat
      /\ Len(frame) \in Nat /\ frame \in Seq(Byte)
  BY Types DEF IInv
<1>4. ASSUME IsWrite(frame), Known(frame[1]), ~owed.some,
             Len(frame) = 3 + frame[3], frame[3] <= SPI_DATA_MAX_BYTES
      PROVE  FALSE
  <2>1. owed = NoReply
    BY <1>4, ReplyFacts DEF IInv, Fetched
  <2>2. /\ Len(frame) >= 3 /\ ~IS_CONTROL_CMD_READ(frame[2])
    BY <1>4 DEF IsWrite
  <2>3. state \notin {"IDLE", "READ_DATA"}
    BY <1>1, <2>1, <2>2, EmptySeq DEF IInv, Position
  <2>4. state # "ERROR"
    BY <1>1, <1>4, <2>1 DEF IInv, Position, Known
  <2>5. state \notin {"RES_RECVD", "WRITE_CMD_RECVD", "READ_CMD_RECVD"}
    <3>1. Len(frame) # 1 /\ Len(frame) # 2
      <4>1. Len(frame) >= 3
        BY <2>2
      <4>2. Len(frame) \in Nat
        BY <1>3
      <4>3. \A n \in Nat : n >= 3 => n # 1 /\ n # 2
        OBVIOUS
      <4> QED BY <4>1, <4>2, <4>3
    <3>2. state = "RES_RECVD" => Len(frame) = 1
      BY <1>1, <2>1 DEF IInv, Position
    <3>3. state \in {"WRITE_CMD_RECVD", "READ_CMD_RECVD"} => Len(frame) = 2
      BY <1>1, <2>1 DEF IInv, Position
    <3> QED BY <3>1, <3>2, <3>3
  <2>6. state \notin Reading
    BY <1>1, <2>1, <2>2 DEF IInv, Position
  <2>7. state \in {"WRITE_DATA", "PAYLOAD_ERROR"}
    BY <1>1, <2>3, <2>4, <2>5, <2>6 DEF IInv, TypeOK, State, Reading
  <2>8. Len(frame) = 3 + payload_len_transmitted /\ payload_len_from_header = frame[3]
    BY <2>7, WritePosition
  <2>9. /\ payload_len_transmitted = payload_len_from_header
        /\ payload_len_transmitted <= SPI_DATA_MAX_BYTES
    BY <1>3, <1>4, <2>8
  <2>10. state = "PAYLOAD_ERROR"
    BY <1>1, <1>3, <2>7, <2>9
  <2> QED BY <1>1, <1>3, <2>1, <2>9, <2>10, SizeFacts DEF IInv, Gathered
<1>5. ExecutedIffComplete'
  <2>1. calls' = <<>> /\ frame' = frame /\ owed' = owed
    BY <1>1, <1>2
  <2>2. Known(frame[1])' <=> Known(frame'[1])
    BY DEF Known, Search
  <2> QED BY <1>4, <2>1, <2>2, Zenon DEF ExecutedIffComplete
<1>6. DispatchedAsSent' /\ OneCallPerCommand'
  BY <1>1, <1>2 DEF DispatchedAsSent, OneCallPerCommand
<1>7. last_status' = write_ret' /\ last_status' \in ControlRet /\ calls' \in Seq(Call)
  BY <1>1 DEF IInv, Settled, TypeOK
<1> QED BY <1>1, <1>2, <1>5, <1>6, <1>7, Forgotten

-----------------------------------------------------------------------------
LEMMA StutterStep == ASSUME IInv, UNCHANGED vars PROVE IInv'
<1>1. UNCHANGED <<state, resid, cmd, ifnum, payload_len_from_header, payload_len_transmitted,
                  payload, last_status, active, frame, calls, asked, owed, out, write_ret>>
  BY DEF vars, spi, header, history
<1>2. TypeOK'
  BY <1>1 DEF IInv, TypeOK
<1>3. Prefix(payload, payload_len_from_header)' = Prefix(payload, payload_len_from_header)
  BY <1>1 DEF Prefix
<1>4. Fresh' /\ Position' /\ Gathered'
  BY <1>1 DEF IInv, Fresh, Position, Gathered, Search, IS_CONTROL_CMD_READ, Headed, Reading,
     Writing
<1>5. Replying' /\ Fetched' /\ CallsSoFar' /\ Settled'
  BY <1>1, <1>3 DEF IInv, Replying, Fetched, CallsSoFar, Settled, Room, OneCallPerCommand,
     IS_CONTROL_CMD_READ
<1>6. DispatchedAsSent' /\ ReplyThenZeros' /\ BetweenTransactions' /\ StatusOfLastExecuted'
  BY <1>1 DEF IInv, DispatchedAsSent, ReplyThenZeros, BetweenTransactions,
     StatusOfLastExecuted, StatusQuery, IS_CONTROL_CMD_READ
<1>7. ExecutedIffComplete'
  BY <1>1 DEF IInv, ExecutedIffComplete, IsWrite, Known, Search, IS_CONTROL_CMD_READ
<1> QED BY <1>2, <1>4, <1>5, <1>6, <1>7 DEF IInv

LEMMA NextByteType == NextByte \subseteq Byte
BY SPIAssumption DEF NextByte

LEMMA Inductive == ASSUME IInv, [Next]_vars PROVE IInv'
<1>1. ASSUME NEW x \in NextByte, MasterSupplies(x) PROVE IInv'
  <2>1. x \in Byte
    BY NextByteType
  <2> QED BY <1>1, <2>1, ResidStep, CmdStep, LengthStep, DataStep, IgnoredStep
      DEF MasterSupplies
<1>2. CASE RequireReply
  BY <1>2, RequireReplyStep
<1>3. CASE RequireReplyByte \/ RequireNothing
  <2>1. CASE state = "READ_DATA"
    BY <1>3, <2>1, ReplyByteStep
  <2>2. CASE state # "READ_DATA"
    BY <1>3, <2>2, NothingStep DEF RequireReplyByte
  <2> QED BY <2>1, <2>2
<1>4. CASE EndOfWrite \/ EndOfReadHeader \/ EndOfAnythingElse
  BY <1>4, EndOfWriteStep, EndOfReadHeaderStep, EndOfAnythingElseStep
<1> QED BY <1>1, <1>2, <1>3, <1>4, StutterStep DEF Next

(* The invariant of the struct spi and the bytes, from which the rest      *)
(* follows. *)
THEOREM Invariance == Spec => []IInv
<1> QED BY Initially, Inductive, PTL DEF Spec

(* Every field keeps its type: control_process_spi_master_supplied_data    *)
(* never stores a byte behind the buffer. *)
THEOREM Typing == Spec => []TypeOK
<1>1. IInv => TypeOK
  BY DEF IInv
<1> QED BY <1>1, Invariance, PTL

(* A call carries the resource, the command code, the length and the       *)
(* payload of the transaction it is made for. *)
THEOREM Dispatch == Spec => []DispatchedAsSent
<1>1. IInv => DispatchedAsSent
  BY DEF IInv
<1> QED BY <1>1, Invariance, PTL

(* However the callbacks are interleaved, a command makes one call. *)
THEOREM OneCall == Spec => []OneCallPerCommand
<1>1. IInv => OneCallPerCommand
  BY DEF IInv, CallsSoFar
<1> QED BY <1>1, Invariance, PTL

(* control_process_spi_master_ends_transaction executes exactly the writes *)
(* that are complete, fit the buffer and have a transaction of their own.  *)
THEOREM Execution == Spec => []ExecutedIffComplete
<1>1. IInv => ExecutedIffComplete
  BY DEF IInv
<1> QED BY <1>1, Invariance, PTL

(* control_process_spi_master_requires_data gives the reply of the read    *)
(* command before this transaction, then zeros, and nothing else. *)
THEOREM Replies == Spec => []ReplyThenZeros
<1>1. IInv => ReplyThenZeros
  BY DEF IInv
<1> QED BY <1>1, Invariance, PTL

(* Two transactions after anything, the device takes commands again. *)
THEOREM Recovery == Spec => []BetweenTransactions
<1>1. IInv => BetweenTransactions
  BY DEF IInv
<1> QED BY <1>1, Invariance, PTL

(* CONTROL_GET_LAST_COMMAND_STATUS is answered with the result of the last *)
(* write_command. *)
THEOREM Status == Spec => []StatusOfLastExecuted
<1>1. IInv => StatusOfLastExecuted
  BY DEF IInv
<1> QED BY <1>1, Invariance, PTL
==============================================================================
