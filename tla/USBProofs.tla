----------------------------- MODULE USBProofs ------------------------------
(***************************************************************************)
(* What holds of the USB transport for every table, every size of the      *)
(* buffers and every moment a transfer is given up: its types and, from    *)
(* one inductive invariant, what the host may conclude from an answer.     *)
(*                                                                         *)
(* The invariant follows the one transfer the host has open.  Whatever is  *)
(* left of a transfer given up cannot answer, and nothing is left of one   *)
(* that was answered, so what the device does after a write was            *)
(* acknowledged is the status query and nothing else.                      *)
(***************************************************************************)
EXTENDS USB, ControlLemmas

(* The transfer the host has open, when it has one. *)
Current == IF host = "query" THEN StatusQuery ELSE request

(* A transfer the host still has open is the current one, unanswered, and  *)
(* in one place only.                                                      *)
OpenTransfer ==
  /\ \A p \in setup \cup ep0 : p.live => host # "idle" /\ answer = None /\ p = Current
  /\ \A p \in ep0 : p.live => setup = None
  /\ \A p, q \in setup : p = q
  /\ \A p, q \in ep0 : p = q
  /\ host = "idle" => answer = None
  /\ request.live

(* When the transfer is answered nothing is left of it, or of one before.  *)
Answered == (\E a \in answer : a.ok) => setup \cup ep0 = None

IsStatusQuery(p) ==
  p.dir = "GET" /\ p.resid = CONTROL_SPECIAL_RESID /\ p.len = 1
  /\ p.cmd = CONTROL_GET_LAST_COMMAND_STATUS

(* After a write was acknowledged, and after a success, the device is not  *)
(* at anything but the status query.                                       *)
Quiet ==
  host = "query" \/ (host = "idle" /\ result.ret = CONTROL_SUCCESS) =>
    \A p \in setup \cup ep0 : IsStatusQuery(p)

(* The lengths of what is on its way. *)
Lengthy ==
  /\ \A p \in setup \cup ep0 : p.dir = "SET" => Len(p.data) = p.len
  /\ ep0 = None => stage = "setup"
  /\ \A p \in ep0 : /\ stage = "received" => p.dir = "SET"
                    /\ stage # "setup" => Fits(p)

(* The last call is a success of the one asked for by r, with payload d. *)
CallMade(r, d) ==
  /\ calls # <<>>
  /\ LET c == calls[Len(calls)] IN
     /\ c.op = (IF r.dir = "SET" THEN "write" ELSE "read")
     /\ c.resid = r.resid /\ c.cmd = r.cmd
     /\ c.ifnum = resource_table[r.resid]
     /\ c.payload = (IF r.dir = "SET" THEN r.data ELSE d)
     /\ c.ret = CONTROL_SUCCESS

(* An answer d to the current transfer is an answer to what was executed. *)
Truth(d) ==
  /\ host = "transfer" /\ request.dir = "SET" =>
       CallMade(request, d) /\ last_status = CONTROL_SUCCESS
  /\ host = "transfer" /\ request.dir = "GET" =>
       request.resid = CONTROL_SPECIAL_RESID \/ CallMade(request, d)
  /\ host = "query" => d = <<CONTROL_SUCCESS>>

Executed ==
  /\ \A p \in ep0 : stage = "executed" /\ p.live /\ ret = CONTROL_SUCCESS => Truth(reply)
  /\ \A a \in answer : a.ok => Truth(a.data)
  /\ host = "query" => /\ request.dir = "SET"
                       /\ CallMade(request, <<>>) /\ last_status = CONTROL_SUCCESS

IInv ==
  /\ TypeOK
  /\ OpenTransfer /\ Answered /\ Quiet /\ Lengthy /\ Executed
  /\ SuccessMeansExecuted /\ ReplyOfThisRead /\ StatusOfThisWrite

-----------------------------------------------------------------------------
LEMMA SearchFacts ==
  ASSUME NEW x \in Byte
  PROVE  /\ Search(x) \subseteq IfNum
         /\ x # CONTROL_SPECIAL_RESID => \A k \in Search(x) : k = resource_table[x]
         /\ x = CONTROL_SPECIAL_RESID => Search(x) # {}
BY USBAssumption, LookupFacts DEF Search

LEMMA QueryType ==
  /\ StatusQuery \in Setup /\ IsStatusQuery(StatusQuery) /\ StatusQuery.live
  /\ StatusQuery.dir = "GET"
BY ControlAssumption, SpecialFacts, ByteFacts, RetFacts, EmptySeq
   DEF StatusQuery, control_usb_fill_header, Setup, Dir, IsStatusQuery, Byte

(* What the user asks for. *)
Asked ==
  {r \in Setup : r.live /\ (r.dir = "SET" => Len(r.data) = r.len)}

LEMMA WriteAsks ==
  ASSUME control_write_command PROVE host = "idle" /\ \E r \in Asked : Begin(r)
<1>1. PICK res \in Resids, c \in Cmds, len \in Lengths : \E data \in [1 .. len -> DataBytes] :
        Begin(control_usb_fill_header("SET", res, CONTROL_CMD_SET_WRITE(c), len, data))
  BY DEF control_write_command
<1>2. PICK data \in [1 .. len -> DataBytes] :
        Begin(control_usb_fill_header("SET", res, CONTROL_CMD_SET_WRITE(c), len, data))
  BY <1>1
<1>3. res \in Byte /\ CONTROL_CMD_SET_WRITE(c) \in Byte /\ len \in Nat
  BY USBAssumption, CmdFacts
<1>4. data \in Seq(Byte) /\ Len(data) = len
  BY <1>3, USBAssumption
<1> QED BY <1>2, <1>3, <1>4 DEF control_write_command, control_usb_fill_header, Setup, Dir, Asked

LEMMA ReadAsks ==
  ASSUME control_read_command PROVE host = "idle" /\ \E r \in Asked : Begin(r)
<1>1. PICK res \in Resids, c \in Cmds, len \in Lengths :
        Begin(control_usb_fill_header("GET", res, CONTROL_CMD_SET_READ(c), len, <<>>))
  BY DEF control_read_command
<1>2. res \in Byte /\ CONTROL_CMD_SET_READ(c) \in Byte /\ len \in Nat
  BY USBAssumption, CmdFacts
<1> QED BY <1>1, <1>2, EmptySeq
  DEF control_read_command, control_usb_fill_header, Setup, Dir, Asked

LEMMA GivenUpFacts ==
  ASSUME NEW s, s \subseteq Setup
  PROVE  /\ GivenUp(s) \subseteq Setup
         /\ \A q \in GivenUp(s) : ~q.live /\ \E p \in s :
              /\ q.dir = p.dir /\ q.resid = p.resid /\ q.cmd = p.cmd
              /\ q.len = p.len /\ q.data = p.data /\ q = [p EXCEPT !.live = FALSE]
         /\ GivenUp(s) = None <=> s = None
BY DEF GivenUp, Setup, None

-----------------------------------------------------------------------------
LEMMA Initially == Init => IInv
<1> SUFFICES ASSUME Init PROVE IInv
  OBVIOUS
<1>1. TypeOK
  BY QueryType, RetFacts, EmptySeq DEF Init, TypeOK, NoResult, None
<1>2. CONTROL_ERROR # CONTROL_SUCCESS
  BY RetFacts
<1> QED BY <1>1, <1>2, QueryType
  DEF Init, IInv, OpenTransfer, Answered, Quiet, Lengthy, Executed, None, NoResult,
      SuccessMeansExecuted, ReplyOfThisRead, StatusOfThisWrite

-----------------------------------------------------------------------------
(* The types, action by action. *)
LEMMA ResultType ==
  ASSUME NEW r \in ControlRet \cup Junk, NEW d \in Seq(Byte), NEW read \in BOOLEAN
  PROVE  [ret |-> r, data |-> d, read |-> read]
           \in [ret : ControlRet \cup Junk, data : Seq(Byte), read : BOOLEAN]
OBVIOUS

LEMMA BeginType ==
  ASSUME TypeOK, NEW r \in Asked, Begin(r) PROVE TypeOK'
<1>1. r \in Setup /\ calls' = <<>> /\ request' = r
  BY DEF Asked, Begin
<1>2. /\ host' \in {"idle", "transfer"} /\ setup' \in {setup, {r}}
      /\ \E x \in {CONTROL_ERROR, CONTROL_DATA_LENGTH_ERROR} :
           result' = [ret |-> x, data |-> <<>>, read |-> FALSE]
      /\ UNCHANGED <<answer, ep0, stage, ret, reply, last_status>>
  <2>1. CASE r.len > USB_TRANSACTION_MAX_BYTES
    BY <2>1 DEF Begin, Finish
  <2>2. CASE ~(r.len > USB_TRANSACTION_MAX_BYTES)
    BY <2>2 DEF Begin, NoResult
  <2> QED BY <2>1, <2>2
<1>3. result' \in [ret : ControlRet \cup Junk, data : Seq(Byte), read : BOOLEAN]
  BY <1>2, RetFacts, EmptySeq, ResultType
<1>4. calls' \in Seq(Call) /\ Len(calls') = 0
  BY <1>1, EmptySeq
<1> QED BY <1>1, <1>2, <1>3, <1>4 DEF TypeOK

LEMMA HostType ==
  ASSUME IInv, TransferFails \/ ReadReturns \/ WriteQueries \/ WriteReturns \/ Timeout
  PROVE  TypeOK'
<1>1. TypeOK
  BY DEF IInv
<1>2. CASE TransferFails
  BY <1>1, <1>2, RetFacts, EmptySeq DEF TransferFails, Finish, TypeOK, device, None
<1>3. CASE ReadReturns
  BY <1>1, <1>3, RetFacts DEF ReadReturns, Finish, TypeOK, device, None, Answer
<1>4. CASE WriteQueries
  BY <1>1, <1>4, QueryType DEF WriteQueries, TypeOK, device, None
<1>5. CASE WriteReturns
  <2>1. \A a \in answer : a.ok => a.data = <<CONTROL_SUCCESS>>
    BY <1>5 DEF WriteReturns, IInv, Executed, Truth
  <2>2. <<CONTROL_SUCCESS>>[1] = CONTROL_SUCCESS
    OBVIOUS
  <2>3. PICK x \in ControlRet \cup Junk, read \in BOOLEAN : Finish(x, <<>>, read)
    BY <1>5, <2>1, <2>2, RetFacts DEF WriteReturns
  <2>4. result' \in [ret : ControlRet \cup Junk, data : Seq(Byte), read : BOOLEAN]
    BY <2>3, EmptySeq, ResultType DEF Finish
  <2> QED BY <1>1, <1>5, <2>3, <2>4 DEF WriteReturns, Finish, TypeOK, device, None
<1>6. CASE Timeout
  <2>1. ep0' \subseteq Setup /\ setup' \subseteq Setup
    BY <1>1, <1>6, GivenUpFacts DEF Timeout, TypeOK, None
  <2>2. answer' \subseteq Answer
    BY <1>6, EmptySeq DEF Timeout, Answer
  <2> QED BY <1>1, <1>6, <2>1, <2>2 DEF Timeout, TypeOK
<1> QED BY <1>2, <1>3, <1>4, <1>5, <1>6

LEMMA AnswersType ==
  ASSUME TypeOK, NEW p, NEW ok \in BOOLEAN, NEW d \in Seq(Byte),
         Answers(p, [ok |-> ok, data |-> d])
  PROVE  TypeOK'
BY RetFacts, EmptySeq DEF Answers, EndOfRequest, TypeOK, Answer, None

(* What a call adds to the record of calls. *)
LEMMA CallsType ==
  ASSUME TypeOK, NEW c \in Call, Len(c.payload) <= EP0_MAX_REQUEST_SIZE
  PROVE  /\ calls \o <<c>> \in Seq(Call)
         /\ Len(calls \o <<c>>) = Len(calls) + 1
         /\ (calls \o <<c>>)[Len(calls) + 1] = c
         /\ \A k \in 1 .. Len(calls \o <<c>>) :
              Len((calls \o <<c>>)[k].payload) <= EP0_MAX_REQUEST_SIZE
         /\ calls \o <<c>> # <<>>
<1>1. /\ calls \o <<c>> \in Seq(Call)
      /\ Len(calls \o <<c>>) = Len(calls) + 1
      /\ \A k \in 1 .. Len(calls) : (calls \o <<c>>)[k] = calls[k]
      /\ (calls \o <<c>>)[Len(calls) + 1] = c
  BY DEF TypeOK
<1>2. Len(calls) \in Nat
  BY DEF TypeOK
<1> QED BY <1>1, <1>2 DEF TypeOK

LEMMA NoCallType == ASSUME TypeOK PROVE calls \o <<>> = calls
BY DEF TypeOK

(* The call a SET or a GET request ends in. *)
LEMMA SetCall ==
  ASSUME IInv, NEW p \in ep0, NEW ifn \in Search(p.resid), NEW r \in AppRet,
         stage = "received"
  PROVE  LET c == WriteCall(ifn, p.resid, p.cmd, p.data, r)
         IN  c \in Call /\ Len(c.payload) <= EP0_MAX_REQUEST_SIZE
<1>1. p \in Setup /\ p.dir = "SET" /\ Fits(p) /\ Len(p.data) = p.len
  BY DEF IInv, TypeOK, Lengthy
<1>2. ifn \in IfNum /\ r \in ControlRet
  BY <1>1, SearchFacts, USBAssumption DEF Setup
<1>3. p.resid \in Byte /\ p.cmd \in Byte /\ p.data \in Seq(Byte)
  BY <1>1 DEF Setup
<1> QED BY <1>1, <1>2, <1>3, CallType DEF WriteCall, Fits

LEMMA GetCall ==
  ASSUME TypeOK, NEW p \in ep0, NEW ifn \in Search(p.resid), NEW r \in AppRet,
         NEW d \in [1 .. p.len -> AppBytes], Fits(p)
  PROVE  LET c == ReadCall(ifn, p.resid, p.cmd, d, r)
         IN  c \in Call /\ d \in Seq(Byte) /\ Len(c.payload) <= EP0_MAX_REQUEST_SIZE
<1>1. p \in Setup
  BY DEF TypeOK
<1>2. ifn \in IfNum /\ r \in ControlRet
  BY <1>1, SearchFacts, USBAssumption DEF Setup
<1>3. p.resid \in Byte /\ p.cmd \in Byte /\ p.len \in Nat
  BY <1>1 DEF Setup
<1>4. d \in Seq(Byte) /\ Len(d) = p.len
  BY <1>3, USBAssumption
<1> QED BY <1>2, <1>3, <1>4, CallType DEF ReadCall, Fits

LEMMA DeviceType == ASSUME IInv, Device PROVE TypeOK'
<1>1. TypeOK
  BY DEF IInv
<1>2. CASE TakeSetup
  BY <1>1, <1>2 DEF TakeSetup, TypeOK, None
<1>3. CASE TooLong \/ ReceiveFails \/ GetStalled
  <2>1. PICK p \in ep0 : Stall(p)
    BY <1>3 DEF TooLong, ReceiveFails, GetStalled
  <2> QED BY <1>1, <2>1, AnswersType, EmptySeq DEF Stall
<1>4. CASE Receive
  BY <1>1, <1>4 DEF Receive, TypeOK, bus
<1>5. CASE SetRefused \/ SetSpecial
  BY <1>1, <1>5, NoCallType, RetFacts DEF SetRefused, SetSpecial, SetRequest, TypeOK, bus
<1>6. CASE SetDispatched
  <2>1. PICK p \in ep0 : \E ifn \in Search(p.resid), r \in AppRet :
          SetRequest(r, <<WriteCall(ifn, p.resid, p.cmd, p.data, r)>>)
    BY <1>6 DEF SetDispatched
  <2>2. PICK ifn \in Search(p.resid), r \in AppRet :
          SetRequest(r, <<WriteCall(ifn, p.resid, p.cmd, p.data, r)>>)
    BY <2>1
  <2> DEFINE c == WriteCall(ifn, p.resid, p.cmd, p.data, r)
  <2>3. c \in Call /\ Len(c.payload) <= EP0_MAX_REQUEST_SIZE
    BY <2>2, SetCall DEF SetRequest
  <2>4. r \in ControlRet
    BY USBAssumption
  <2> HIDE DEF c
  <2>5. SetRequest(r, <<c>>)
    BY <2>2 DEF c
  <2> QED BY <1>1, <2>3, <2>4, <2>5, CallsType DEF SetRequest, TypeOK, bus
<1>7. CASE SetAcknowledged
  BY <1>1, <1>7, AnswersType, EmptySeq DEF SetAcknowledged
<1>8. CASE SetNotAnswered
  BY <1>1, <1>8, RetFacts, EmptySeq DEF SetNotAnswered, EndOfRequest, TypeOK, bus, None
<1>9. CASE GetRefused
  BY <1>1, <1>9, NoCallType, RetFacts, EmptySeq DEF GetRefused, GetRequest, TypeOK, bus
<1>10. CASE GetDispatched
  <2>1. PICK p \in ep0 : \E ifn \in Search(p.resid), r \in AppRet, d \in [1 .. p.len -> AppBytes] :
          GetRequest(p, r, d, <<ReadCall(ifn, p.resid, p.cmd, d, r)>>)
    BY <1>10 DEF GetDispatched
  <2>2. PICK ifn \in Search(p.resid), r \in AppRet, d \in [1 .. p.len -> AppBytes] :
          GetRequest(p, r, d, <<ReadCall(ifn, p.resid, p.cmd, d, r)>>)
    BY <2>1
  <2> DEFINE c == ReadCall(ifn, p.resid, p.cmd, d, r)
  <2>3. c \in Call /\ Len(c.payload) <= EP0_MAX_REQUEST_SIZE /\ d \in Seq(Byte)
    BY <1>1, <2>2, GetCall DEF GetRequest
  <2>4. r \in ControlRet
    BY USBAssumption
  <2> HIDE DEF c
  <2>5. GetRequest(p, r, d, <<c>>)
    BY <2>2 DEF c
  <2> QED BY <1>1, <2>3, <2>4, <2>5, CallsType DEF GetRequest, TypeOK, bus
<1>11. CASE GetSpecial
  <2>1. PICK p \in ep0 : LET r == special_read_ret(p.cmd, p.len)
           IN GetRequest(p, r, IF r = CONTROL_SUCCESS
                               THEN <<special_read_byte(p.cmd, last_status)>> ELSE <<>>, <<>>)
    BY <1>11 DEF GetSpecial
  <2>2. p.cmd \in Byte /\ last_status \in ControlRet
    BY <1>1 DEF TypeOK, Setup
  <2>3. special_read_ret(p.cmd, p.len) \in ControlRet /\ special_read_byte(p.cmd, last_status) \in Byte
    BY <2>2, SpecialFacts
  <2>4. reply' \in Seq(Byte) /\ ret' \in ControlRet
    BY <2>1, <2>3, EmptySeq DEF GetRequest
  <2> QED BY <1>1, <2>1, <2>4, NoCallType DEF GetRequest, TypeOK, bus
<1>12. CASE GetAnswered
  <2>1. reply \in Seq(Byte)
    BY <1>1 DEF TypeOK
  <2> QED BY <1>1, <1>12, <2>1, AnswersType DEF GetAnswered
<1> QED BY <1>2, <1>3, <1>4, <1>5, <1>6, <1>7, <1>8, <1>9, <1>10, <1>11, <1>12 DEF Device

-----------------------------------------------------------------------------
(* The parts of the invariant beyond the types. *)
Rest ==
  /\ OpenTransfer /\ Answered /\ Quiet /\ Lengthy /\ Executed
  /\ SuccessMeansExecuted /\ ReplyOfThisRead /\ StatusOfThisWrite

(* Where the host is idle and was told of no success, nothing is claimed.  *)
LEMMA NothingClaimed ==
  ASSUME host' = "idle", result'.ret # CONTROL_SUCCESS, ~result'.read
  PROVE  (Quiet /\ SuccessMeansExecuted /\ ReplyOfThisRead /\ StatusOfThisWrite)'
BY DEF Quiet, SuccessMeansExecuted, ReplyOfThisRead, StatusOfThisWrite

LEMMA NotIdle ==
  ASSUME host' # "idle"
  PROVE  (SuccessMeansExecuted /\ ReplyOfThisRead /\ StatusOfThisWrite)'
BY DEF SuccessMeansExecuted, ReplyOfThisRead, StatusOfThisWrite

LEMMA BeginStep ==
  ASSUME IInv, host = "idle", NEW r \in Asked, Begin(r) PROVE Rest'
<1>1. /\ host = "idle" /\ answer = None /\ answer' = None
      /\ request' = r /\ r.live /\ (r.dir = "SET" => Len(r.data) = r.len)
      /\ UNCHANGED <<ep0, stage, ret, reply, last_status>>
      /\ \A p \in setup \cup ep0 : ~p.live
  BY DEF Begin, Asked, IInv, OpenTransfer
<1>2. CASE r.len > USB_TRANSACTION_MAX_BYTES
  <2>1. /\ host' = "idle" /\ UNCHANGED setup
        /\ result' = [ret |-> CONTROL_DATA_LENGTH_ERROR, data |-> <<>>, read |-> FALSE]
    BY <1>2 DEF Begin, Finish
  <2>2. result'.ret # CONTROL_SUCCESS /\ ~result'.read
    BY <2>1, RetFacts
  <2>3. OpenTransfer' /\ Answered'
    BY <1>1, <2>1 DEF IInv, OpenTransfer, Answered, None
  <2>4. Lengthy' /\ Executed'
    BY <1>1, <2>1 DEF IInv, Lengthy, Executed, None, Fits
  <2> QED BY <2>1, <2>2, <2>3, <2>4, NothingClaimed DEF Rest
<1>3. CASE ~(r.len > USB_TRANSACTION_MAX_BYTES)
  <2>1. host' = "transfer" /\ setup' = {r}
    BY <1>3 DEF Begin
  <2>2. OpenTransfer' /\ Answered' /\ Quiet'
    BY <1>1, <2>1 DEF IInv, OpenTransfer, Answered, None, Current, Quiet
  <2>3. Lengthy' /\ Executed'
    BY <1>1, <2>1 DEF IInv, Lengthy, Executed, None, Fits
  <2> QED BY <2>1, <2>2, <2>3, NotIdle DEF Rest
<1> QED BY <1>2, <1>3

(* libusb_control_transfer returns. *)
LEMMA TransferFailsStep == ASSUME IInv, TransferFails PROVE Rest'
<1>1. /\ host = "transfer" /\ host' = "idle" /\ answer # None /\ answer' = None
      /\ result' = [ret |-> CONTROL_ERROR, data |-> <<>>, read |-> FALSE]
      /\ UNCHANGED <<request, setup, ep0, stage, ret, reply, last_status, calls>>
  BY DEF TransferFails, Finish, device, None
<1>2. \A p \in setup \cup ep0 : ~p.live
  BY <1>1 DEF IInv, OpenTransfer
<1>3. result'.ret # CONTROL_SUCCESS /\ ~result'.read
  BY <1>1, RetFacts
<1>4. OpenTransfer' /\ Answered'
  BY <1>1, <1>2 DEF IInv, OpenTransfer, Answered, None
<1>5. Lengthy' /\ Executed'
  BY <1>1, <1>2 DEF IInv, Lengthy, Executed, None, Fits
<1> QED BY <1>1, <1>3, <1>4, <1>5, NothingClaimed DEF Rest

LEMMA ReadReturnsStep == ASSUME IInv, ReadReturns PROVE Rest'
<1>1. PICK a \in answer : a.ok /\ Finish(CONTROL_SUCCESS, a.data, FALSE)
  BY DEF ReadReturns
<1>2. /\ host = "transfer" /\ host' = "idle" /\ request.dir = "GET" /\ answer' = None
      /\ result' = [ret |-> CONTROL_SUCCESS, data |-> a.data, read |-> FALSE]
      /\ UNCHANGED <<request, setup, ep0, stage, ret, reply, last_status, calls>>
  BY <1>1 DEF ReadReturns, Finish, device
<1>3. setup \cup ep0 = {}
  BY <1>1 DEF IInv, Answered, None
<1>4. OpenTransfer' /\ Answered' /\ Quiet' /\ Lengthy' /\ Executed'
  BY <1>2, <1>3 DEF IInv, OpenTransfer, Answered, Quiet, Lengthy, Executed, None
<1>5. request.resid = CONTROL_SPECIAL_RESID \/ CallMade(request, a.data)
  BY <1>1, <1>2 DEF IInv, Executed, Truth
<1>6. (SuccessMeansExecuted /\ ReplyOfThisRead /\ StatusOfThisWrite)'
  BY <1>2, <1>5 DEF SuccessMeansExecuted, ReplyOfThisRead, StatusOfThisWrite,
                    LastCallIsThis, CallMade
<1> QED BY <1>4, <1>6 DEF Rest

LEMMA WriteQueriesStep == ASSUME IInv, WriteQueries PROVE Rest'
<1>1. PICK a \in answer : a.ok
  BY DEF WriteQueries
<1>2. /\ host = "transfer" /\ host' = "query" /\ request.dir = "SET" /\ answer' = None
      /\ setup' = {StatusQuery}
      /\ UNCHANGED <<request, result, ep0, stage, ret, reply, last_status, calls>>
  BY DEF WriteQueries, device
<1>3. ep0 = {}
  BY <1>1 DEF IInv, Answered, None
<1>4. OpenTransfer' /\ Answered' /\ Quiet' /\ Lengthy'
  BY <1>2, <1>3, QueryType DEF IInv, OpenTransfer, Answered, Quiet, Lengthy, None, Current
<1>5. CallMade(request, a.data) /\ last_status = CONTROL_SUCCESS
  BY <1>1, <1>2 DEF IInv, Executed, Truth
<1>6. Executed'
  BY <1>2, <1>3, <1>5 DEF Executed, None, CallMade
<1> QED BY <1>2, <1>4, <1>6, NotIdle DEF Rest

LEMMA WriteReturnsStep == ASSUME IInv, WriteReturns PROVE Rest'
<1>1. /\ host = "query" /\ host' = "idle" /\ answer # None /\ answer' = None
      /\ result'.read => result'.ret = CONTROL_SUCCESS
      /\ UNCHANGED <<request, setup, ep0, stage, ret, reply, last_status, calls>>
  <2>1. \A a \in answer : a.ok => a.data = <<CONTROL_SUCCESS>>
    BY DEF WriteReturns, IInv, Executed, Truth
  <2>2. <<CONTROL_SUCCESS>>[1] = CONTROL_SUCCESS
    OBVIOUS
  <2> QED BY <2>1, <2>2 DEF WriteReturns, Finish, device, None
<1>2. \A p \in setup \cup ep0 : ~p.live /\ IsStatusQuery(p)
  BY <1>1 DEF IInv, OpenTransfer, Quiet
<1>3. OpenTransfer' /\ Answered' /\ Quiet' /\ Lengthy' /\ Executed'
  BY <1>1, <1>2 DEF IInv, OpenTransfer, Answered, Quiet, Lengthy, Executed, None, Fits,
                    IsStatusQuery
<1>4. request.dir = "SET" /\ CallMade(request, <<>>)
  BY <1>1 DEF IInv, Executed
<1>5. (SuccessMeansExecuted /\ ReplyOfThisRead /\ StatusOfThisWrite)'
  BY <1>1, <1>4 DEF SuccessMeansExecuted, ReplyOfThisRead, StatusOfThisWrite,
                    LastCallIsThis, CallMade
<1> QED BY <1>3, <1>5 DEF Rest

(* What is given up stays what it was, but is not open any more. *)
LEMMA TimeoutStep == ASSUME IInv, Timeout PROVE Rest'
<1>1. /\ host # "idle" /\ answer' = {[ok |-> FALSE, data |-> <<>>]}
      /\ ep0' = GivenUp(ep0) /\ setup' \in {None, GivenUp(setup)}
      /\ UNCHANGED <<host, request, result, stage, ret, reply, last_status, calls>>
  BY DEF Timeout
<1>2. setup \subseteq Setup /\ ep0 \subseteq Setup
  BY DEF IInv, TypeOK
<1>3. \A a \in answer' : ~a.ok
  BY <1>1
<1>4. \A q \in setup' \cup ep0' : ~q.live /\ \E p \in setup \cup ep0 :
        q.dir = p.dir /\ q.resid = p.resid /\ q.cmd = p.cmd /\ q.len = p.len /\ q.data = p.data
  BY <1>1, <1>2, GivenUpFacts DEF None
<1>5. /\ \A q \in ep0' : \E p \in ep0 : q.dir = p.dir /\ q.len = p.len
      /\ ep0' = None => ep0 = None
      /\ \A q1, q2 \in ep0' : q1 = q2
      /\ \A q1, q2 \in setup' : q1 = q2
  <2>1. (\A p1, p2 \in ep0 : p1 = p2) /\ (\A p1, p2 \in setup : p1 = p2)
    BY DEF IInv, OpenTransfer
  <2>2. ASSUME NEW s, \A p1, p2 \in s : p1 = p2
        PROVE  \A q1, q2 \in GivenUp(s) : q1 = q2
    BY <2>2 DEF GivenUp
  <2>3. (\A q1, q2 \in ep0' : q1 = q2) /\ (\A q1, q2 \in setup' : q1 = q2)
    BY <1>1, <2>1, <2>2 DEF None
  <2> QED BY <1>1, <1>2, <2>3, GivenUpFacts DEF None
<1>6. OpenTransfer' /\ Answered'
  BY <1>1, <1>3, <1>4, <1>5 DEF IInv, OpenTransfer, Answered
<1>7. Quiet'
  BY <1>1, <1>4 DEF IInv, Quiet, IsStatusQuery
<1>8. Lengthy'
  BY <1>1, <1>4, <1>5 DEF IInv, Lengthy, Fits
<1>9. Executed'
  BY <1>1, <1>3, <1>4 DEF IInv, Executed, CallMade
<1> QED BY <1>1, <1>6, <1>7, <1>8, <1>9, NotIdle DEF Rest

-----------------------------------------------------------------------------
(* Where nothing the host sees changes, what it was told stays as true as  *)
(* the calls and the status it was about.                                  *)
LEMMA ToldStays ==
  ASSUME Rest, UNCHANGED <<host, request, result, calls>>
  PROVE  (SuccessMeansExecuted /\ ReplyOfThisRead /\ StatusOfThisWrite)'
BY DEF Rest, SuccessMeansExecuted, ReplyOfThisRead, StatusOfThisWrite, LastCallIsThis

LEMMA RestOf == ASSUME IInv PROVE TypeOK /\ Rest
BY DEF IInv, Rest

LEMMA TakeSetupStep == ASSUME IInv, TakeSetup PROVE Rest'
<1>1. /\ ep0 = {} /\ setup # {} /\ ep0' = setup /\ setup' = {}
      /\ UNCHANGED <<host, request, result, answer, stage, ret, reply, last_status, calls>>
  BY DEF TakeSetup, None
<1>2. stage = "setup"
  BY <1>1 DEF IInv, Lengthy, None
<1>3. OpenTransfer' /\ Answered' /\ Quiet' /\ Lengthy'
  BY <1>1, <1>2 DEF IInv, OpenTransfer, Answered, Quiet, Lengthy, None, Current
<1>4. Executed'
  BY <1>1, <1>2 DEF IInv, Executed, Truth, CallMade
<1> QED BY <1>1, <1>3, <1>4, ToldStays, RestOf DEF Rest

(* The request ends without an answer, with a stall, or with an answer     *)
(* that is true.                                                           *)
LEMMA EndStep ==
  ASSUME IInv, NEW p \in ep0, EndOfRequest,
         answer' = answer \/ \E a \in Answer : answer' = {a} /\ p.live /\ (a.ok => Truth(a.data)),
         UNCHANGED <<host, request, result, setup, last_status, calls>>
  PROVE  Rest'
<1>1. ep0' = {} /\ stage' = "setup"
  BY DEF EndOfRequest, None
<1>2. CASE answer' = answer
  <2>1. \A a \in answer : ~a.ok
    BY DEF IInv, Answered, None
  <2>2. OpenTransfer' /\ Answered' /\ Quiet' /\ Lengthy'
    BY <1>1, <1>2, <2>1 DEF IInv, OpenTransfer, Answered, Quiet, Lengthy, None, Current
  <2>3. Executed'
    BY <1>1, <1>2, <2>1 DEF IInv, Executed, CallMade
  <2> QED BY <2>2, <2>3, ToldStays, RestOf DEF Rest
<1>3. ASSUME NEW a \in Answer, answer' = {a}, p.live, a.ok => Truth(a.data)
      PROVE  Rest'
  <2>1. host # "idle" /\ setup = {}
    BY <1>3 DEF IInv, OpenTransfer, None
  <2>2. OpenTransfer' /\ Answered' /\ Quiet' /\ Lengthy'
    BY <1>1, <1>3, <2>1 DEF IInv, OpenTransfer, Answered, Quiet, Lengthy, None
  <2>3. Executed'
    BY <1>1, <1>3 DEF IInv, Executed, CallMade, Truth
  <2> QED BY <2>2, <2>3, ToldStays, RestOf DEF Rest
<1> QED BY <1>2, <1>3

LEMMA EndsStep ==
  ASSUME IInv, TooLong \/ ReceiveFails \/ SetAcknowledged \/ SetNotAnswered
                       \/ GetAnswered \/ GetStalled
  PROVE  Rest'
<1>1. ASSUME NEW p \in ep0, Stall(p) PROVE Rest'
  <2>1. [ok |-> FALSE, data |-> <<>>] \in Answer
    BY EmptySeq DEF Answer
  <2> QED BY <1>1, <2>1, EndStep DEF Stall, Answers
<1>2. ASSUME NEW p \in ep0, NEW d \in Seq(Byte), Answers(p, [ok |-> TRUE, data |-> d]),
             p.live => Truth(d)
      PROVE  Rest'
  <2>1. [ok |-> TRUE, data |-> d] \in Answer
    BY DEF Answer
  <2> QED BY <1>2, <2>1, EndStep DEF Answers
<1>3. CASE TooLong \/ ReceiveFails \/ GetStalled
  BY <1>1, <1>3 DEF TooLong, ReceiveFails, GetStalled
<1>4. CASE SetAcknowledged
  <2>1. PICK p \in ep0 : /\ stage = "executed" /\ p.dir = "SET" /\ ret = CONTROL_SUCCESS
                         /\ Answers(p, [ok |-> TRUE, data |-> <<>>])
    BY <1>4 DEF SetAcknowledged
  <2>2. ASSUME p.live PROVE Truth(<<>>)
    <3>1. Truth(reply) /\ host # "idle" /\ p = Current
      BY <2>1, <2>2 DEF IInv, Executed, OpenTransfer
    <3>2. host # "query" /\ request.dir = "SET"
      BY <2>1, <3>1, QueryType DEF Current
    <3> QED BY <3>1, <3>2 DEF Truth, CallMade
  <2> QED BY <1>2, <2>1, <2>2, EmptySeq
<1>5. CASE SetNotAnswered
  BY <1>5, EndStep DEF SetNotAnswered, bus
<1>6. CASE GetAnswered
  BY <1>2, <1>6 DEF GetAnswered, IInv, TypeOK, Executed
<1> QED BY <1>3, <1>4, <1>5, <1>6

LEMMA ReceiveStep == ASSUME IInv, Receive PROVE Rest'
<1>1. PICK p \in ep0 : p.dir = "SET" /\ Fits(p)
  BY DEF Receive
<1>2. /\ stage' = "received"
      /\ UNCHANGED <<host, request, result, setup, answer, ep0, ret, reply, last_status, calls>>
  BY DEF Receive, bus
<1>3. OpenTransfer' /\ Answered' /\ Quiet'
  BY <1>2 DEF IInv, OpenTransfer, Answered, Quiet, Current
<1>4. \A q \in ep0 : q.dir = "SET" /\ Fits(q)
  BY <1>1 DEF IInv, OpenTransfer
<1>5. Lengthy'
  BY <1>1, <1>2, <1>4 DEF IInv, Lengthy, None, Fits
<1>6. Executed'
  BY <1>2 DEF IInv, Executed, Truth, CallMade
<1> QED BY <1>2, <1>3, <1>5, <1>6, ToldStays, RestOf DEF Rest

(* The device is at a request other than the status query only while the   *)
(* host knows of no success. *)
LEMMA Unsettled ==
  ASSUME IInv, NEW p \in ep0, ~IsStatusQuery(p)
  PROVE  /\ host # "query" /\ \A a \in answer : ~a.ok
         /\ host = "idle" => result.ret # CONTROL_SUCCESS /\ ~result.read
BY DEF IInv, Answered, Quiet, None, StatusOfThisWrite

(* The steps that end the processing of such a request. *)
LEMMA ProcessedStep ==
  ASSUME IInv, NEW p \in ep0, ~IsStatusQuery(p), stage' = "executed", Fits(p),
         UNCHANGED <<host, request, result, setup, answer, ep0>>,
         p.live /\ host = "transfer" /\ ret' = CONTROL_SUCCESS => Truth(reply)'
  PROVE  Rest'
<1>1. /\ host # "query" /\ \A a \in answer : ~a.ok
      /\ host = "idle" => result.ret # CONTROL_SUCCESS /\ ~result.read
  BY Unsettled
<1>2. OpenTransfer' /\ Answered'
  BY DEF IInv, OpenTransfer, Answered, Current
<1>3. \A q \in ep0 : q = p
  BY DEF IInv, OpenTransfer
<1>4. Lengthy'
  BY <1>3 DEF IInv, Lengthy, None, Fits
<1>5. \A q \in ep0 : q.live => host = "transfer"
  <2>1. host \in {"idle", "transfer", "query"}
    BY DEF IInv, TypeOK
  <2> QED BY <1>1, <2>1 DEF IInv, OpenTransfer
<1>6. Executed'
  BY <1>1, <1>3, <1>5 DEF Executed
<1> QED BY <1>1, <1>2, <1>4, <1>6
    DEF Rest, Quiet, SuccessMeansExecuted, ReplyOfThisRead, StatusOfThisWrite

LEMMA SetStep == ASSUME IInv, SetRefused \/ SetDispatched \/ SetSpecial PROVE Rest'
<1>1. ASSUME NEW p \in ep0, NEW r, NEW cs, SetRequest(r, cs),
             p.live /\ host = "transfer" /\ r = CONTROL_SUCCESS => Truth(reply)'
      PROVE  Rest'
  <2>1. p.dir = "SET" /\ Fits(p)
    BY <1>1 DEF SetRequest, IInv, Lengthy
  <2>2. ~IsStatusQuery(p)
    BY <2>1 DEF IsStatusQuery
  <2> QED BY <1>1, <2>1, <2>2, ProcessedStep DEF SetRequest, bus
<1>2. CASE SetRefused \/ SetSpecial
  <2>1. PICK p \in ep0 : SetRequest(CONTROL_BAD_COMMAND, <<>>)
    BY <1>2 DEF SetRefused, SetSpecial
  <2> QED BY <1>1, <2>1, RetFacts
<1>3. CASE SetDispatched
  <2>1. PICK p \in ep0 : p.resid # CONTROL_SPECIAL_RESID /\
          \E ifn \in Search(p.resid), r \in AppRet :
            SetRequest(r, <<WriteCall(ifn, p.resid, p.cmd, p.data, r)>>)
    BY <1>3 DEF SetDispatched
  <2>2. PICK ifn \in Search(p.resid), r \in AppRet :
          SetRequest(r, <<WriteCall(ifn, p.resid, p.cmd, p.data, r)>>)
    BY <2>1
  <2> DEFINE c == WriteCall(ifn, p.resid, p.cmd, p.data, r)
  <2>3. c \in Call /\ Len(c.payload) <= EP0_MAX_REQUEST_SIZE
    BY <2>2, SetCall DEF SetRequest
  <2>4. /\ c.op = "write" /\ c.resid = p.resid /\ c.cmd = p.cmd
        /\ c.payload = p.data /\ c.ret = r /\ c.ifnum = ifn
    BY DEF WriteCall
  <2>5. ifn = resource_table[p.resid]
    BY <2>1, SearchFacts DEF IInv, TypeOK, Setup
  <2> HIDE DEF c
  <2>6. SetRequest(r, <<c>>)
    BY <2>2 DEF c
  <2>7. ASSUME p.live, host = "transfer", r = CONTROL_SUCCESS PROVE Truth(reply)'
    <3>1. p = request /\ p.dir = "SET"
      BY <2>6, <2>7 DEF IInv, OpenTransfer, Current, SetRequest, Lengthy
    <3>2. /\ calls' # <<>> /\ calls'[Len(calls')] = c
          /\ last_status' = CONTROL_SUCCESS /\ UNCHANGED <<host, request>>
      BY <2>3, <2>6, <2>7, CallsType DEF SetRequest, IInv
    <3> QED BY <2>4, <2>5, <2>7, <3>1, <3>2 DEF Truth, CallMade
  <2> QED BY <1>1, <2>6, <2>7
<1> QED BY <1>2, <1>3

LEMMA GetStep == ASSUME IInv, GetRefused \/ GetDispatched PROVE Rest'
<1>1. ASSUME NEW p \in ep0, NEW r, NEW d, NEW cs, GetRequest(p, r, d, cs), ~IsStatusQuery(p),
             p.live /\ host = "transfer" /\ r = CONTROL_SUCCESS => Truth(reply)'
      PROVE  Rest'
  BY <1>1, ProcessedStep DEF GetRequest, bus
<1>2. CASE GetRefused
  <2>1. PICK p \in ep0 : /\ Search(p.resid) = {} \/ ~IS_CONTROL_CMD_READ(p.cmd)
                         /\ GetRequest(p, CONTROL_BAD_COMMAND, <<>>, <<>>)
    BY <1>2 DEF GetRefused
  <2>2. p.resid \in Byte /\ p.cmd \in Byte
    BY DEF IInv, TypeOK, Setup
  <2>3. ~IsStatusQuery(p)
    BY <2>1, <2>2, SearchFacts, SpecialFacts, RetFacts DEF IsStatusQuery
  <2> QED BY <1>1, <2>1, <2>3, RetFacts
<1>3. CASE GetDispatched
  <2>1. PICK p \in ep0 : p.resid # CONTROL_SPECIAL_RESID /\
          \E ifn \in Search(p.resid), r \in AppRet, d \in [1 .. p.len -> AppBytes] :
            GetRequest(p, r, d, <<ReadCall(ifn, p.resid, p.cmd, d, r)>>)
    BY <1>3 DEF GetDispatched
  <2>2. PICK ifn \in Search(p.resid), r \in AppRet, d \in [1 .. p.len -> AppBytes] :
          GetRequest(p, r, d, <<ReadCall(ifn, p.resid, p.cmd, d, r)>>)
    BY <2>1
  <2> DEFINE c == ReadCall(ifn, p.resid, p.cmd, d, r)
  <2>3. c \in Call /\ Len(c.payload) <= EP0_MAX_REQUEST_SIZE
    BY <2>2, GetCall DEF GetRequest, IInv
  <2>4. /\ c.op = "read" /\ c.resid = p.resid /\ c.cmd = p.cmd
        /\ c.payload = d /\ c.ret = r /\ c.ifnum = ifn
    BY DEF ReadCall
  <2>5. ifn = resource_table[p.resid]
    BY <2>1, SearchFacts DEF IInv, TypeOK, Setup
  <2> HIDE DEF c
  <2>6. GetRequest(p, r, d, <<c>>)
    BY <2>2 DEF c
  <2>7. ASSUME p.live, host = "transfer", r = CONTROL_SUCCESS PROVE Truth(reply)'
    <3>1. p = request /\ p.dir = "GET"
      BY <2>6, <2>7 DEF IInv, OpenTransfer, Current, GetRequest
    <3>2. /\ calls' # <<>> /\ calls'[Len(calls')] = c
          /\ reply' = d /\ UNCHANGED <<host, request>>
      BY <2>3, <2>6, CallsType DEF GetRequest, IInv
    <3> QED BY <2>4, <2>5, <2>7, <3>1, <3>2 DEF Truth, CallMade
  <2>8. ~IsStatusQuery(p)
    BY <2>1 DEF IsStatusQuery
  <2> QED BY <1>1, <2>6, <2>7, <2>8
<1> QED BY <1>2, <1>3

(* The status query of a write that was acknowledged is answered with the  *)
(* status of that write.                                                   *)
LEMMA GetSpecialStep == ASSUME IInv, GetSpecial PROVE Rest'
<1>1. PICK p \in ep0 :
        /\ p.resid = CONTROL_SPECIAL_RESID
        /\ LET r == special_read_ret(p.cmd, p.len)
           IN GetRequest(p, r, IF r = CONTROL_SUCCESS
                               THEN <<special_read_byte(p.cmd, last_status)>> ELSE <<>>, <<>>)
  BY DEF GetSpecial
<1>2. /\ p.dir = "GET" /\ Fits(p) /\ stage' = "executed" /\ calls' = calls
      /\ reply' = IF special_read_ret(p.cmd, p.len) = CONTROL_SUCCESS
                  THEN <<special_read_byte(p.cmd, last_status)>> ELSE <<>>
      /\ UNCHANGED <<host, request, result, setup, answer, ep0, last_status>>
  BY <1>1, NoCallType DEF GetRequest, bus, IInv
<1>3. \A q \in ep0 : q = p
  BY DEF IInv, OpenTransfer
<1>4. OpenTransfer' /\ Answered' /\ Quiet'
  BY <1>2 DEF IInv, OpenTransfer, Answered, Quiet, Current
<1>5. Lengthy'
  BY <1>2, <1>3 DEF IInv, Lengthy, None, Fits
<1>6. ASSUME p.live PROVE Truth(reply)'
  <2>1. CASE host = "query"
    <3>1. IsStatusQuery(p) /\ last_status = CONTROL_SUCCESS
      BY <2>1 DEF IInv, Quiet, Executed
    <3>2. reply' = <<CONTROL_SUCCESS>>
      BY <1>2, <3>1, SpecialFacts, ByteFacts, RetFacts
         DEF IsStatusQuery, special_read_ret, special_read_byte
    <3> QED BY <1>2, <2>1, <3>2 DEF Truth
  <2>2. CASE host # "query"
    <3>1. p = request
      BY <1>6, <2>2 DEF IInv, OpenTransfer, Current
    <3> QED BY <1>1, <1>2, <2>2, <3>1 DEF Truth
  <2> QED BY <2>1, <2>2
<1>7. \A a \in answer : ~a.ok
  BY DEF IInv, Answered, None
<1>8. host = "query" =>
        request.dir = "SET" /\ CallMade(request, <<>>) /\ last_status = CONTROL_SUCCESS
  BY DEF IInv, Executed
<1>9. Executed'
  BY <1>2, <1>3, <1>6, <1>7, <1>8 DEF Executed, CallMade
<1> QED BY <1>2, <1>4, <1>5, <1>9, ToldStays, RestOf DEF Rest

-----------------------------------------------------------------------------
LEMMA StutterStep == ASSUME IInv, UNCHANGED vars PROVE IInv'
<1>1. UNCHANGED <<host, request, result, answer, setup, ep0, stage, ret, reply, last_status, calls>>
  BY DEF vars, bus, device
<1> QED BY <1>1 DEF IInv, TypeOK, OpenTransfer, Answered, Quiet, Lengthy, Executed, Truth,
      CallMade, Fits, Current, SuccessMeansExecuted, ReplyOfThisRead, StatusOfThisWrite,
      LastCallIsThis

LEMMA Inductive == ASSUME IInv, [Next]_vars PROVE IInv'
<1>1. ASSUME TypeOK', Rest' PROVE IInv'
  BY <1>1 DEF IInv, Rest
<1>2. CASE control_write_command \/ control_read_command
  <2>1. host = "idle" /\ \E r \in Asked : Begin(r)
    BY <1>2, WriteAsks, ReadAsks
  <2>2. PICK r \in Asked : Begin(r)
    BY <2>1
  <2> QED BY <1>1, <2>1, <2>2, BeginType, BeginStep, RestOf
<1>3. CASE TransferFails \/ ReadReturns \/ WriteQueries \/ WriteReturns \/ Timeout
  BY <1>1, <1>3, HostType, TransferFailsStep, ReadReturnsStep, WriteQueriesStep,
     WriteReturnsStep, TimeoutStep
<1>4. CASE Device
  BY <1>1, <1>4, DeviceType, TakeSetupStep, EndsStep, ReceiveStep, SetStep, GetStep,
     GetSpecialStep DEF Device
<1> QED BY <1>2, <1>3, <1>4, StutterStep DEF Next, Host

(* The invariant of the transfers, from which the rest follows. *)
THEOREM Invariance == Spec => []IInv
<1> QED BY Initially, Inductive, PTL DEF Spec

(* Every variable keeps its type, and every payload handed to a task lies  *)
(* within request_data: the test of its size in USB_H2D_VendorRequest and  *)
(* USB_D2H_VendorRequest comes before anything is received or answered.    *)
THEOREM Typing == Spec => []TypeOK
<1>1. IInv => TypeOK
  BY DEF IInv
<1> QED BY <1>1, Invariance, PTL

(* A write for which control_write_command returns CONTROL_SUCCESS was     *)
(* executed with success, whatever was still on the device, and although   *)
(* the status may be a byte that was never set.                            *)
THEOREM SuccessIsExecution == Spec => []SuccessMeansExecuted
<1>1. IInv => SuccessMeansExecuted
  BY DEF IInv
<1> QED BY <1>1, Invariance, PTL

(* The data of a successful control_read_command are the reply of the call *)
(* it made, never that of a transfer given up.                             *)
THEOREM ReadsOwnReply == Spec => []ReplyOfThisRead
<1>1. IInv => ReplyOfThisRead
  BY DEF IInv
<1> QED BY <1>1, Invariance, PTL

(* A status query that is answered is answered for the write it follows.   *)
THEOREM StatusIsOwn == Spec => []StatusOfThisWrite
<1>1. IInv => StatusOfThisWrite
  BY DEF IInv
<1> QED BY <1>1, Invariance, PTL
=============================================================================
