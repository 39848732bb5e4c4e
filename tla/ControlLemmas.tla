--------------------------- MODULE ControlLemmas ----------------------------
(* What the proofs about every transport need to know of sequences, of     *)
(* bytes and result codes, of calls and of the lookup of a resource.       *)
EXTENDS Control, TLAPS

(* What Append does to a sequence. *)
LEMMA AppendFacts ==
  ASSUME NEW S, NEW s \in Seq(S), NEW e \in S
  PROVE  /\ Append(s, e) \in Seq(S)
         /\ Len(Append(s, e)) = Len(s) + 1
         /\ Len(s) \in Nat
         /\ \A k \in 1 .. Len(s) : Append(s, e)[k] = s[k]
         /\ Append(s, e)[Len(s) + 1] = e
OBVIOUS

LEMMA EmptySeq == \A S : <<>> \in Seq(S)
OBVIOUS

(* Two sequences of the same length and the same elements are the same.    *)
LEMMA SameElements ==
  ASSUME NEW S, NEW s \in Seq(S), NEW t \in Seq(S), Len(s) = Len(t),
         \A k \in 1 .. Len(s) : s[k] = t[k]
  PROVE  s = t
OBVIOUS

(* The first n elements of a sequence. *)
LEMMA UpToFacts ==
  ASSUME NEW S, NEW s \in Seq(S), NEW n \in Nat, n <= Len(s)
  PROVE  /\ SubSeq(s, 1, n) \in Seq(S)
         /\ Len(SubSeq(s, 1, n)) = n
         /\ \A k \in 1 .. n : SubSeq(s, 1, n)[k] = s[k]
OBVIOUS

(* What was appended to is the front of the longer sequence. *)
LEMMA FrontFacts ==
  ASSUME NEW S, NEW s \in Seq(S), NEW e \in S
  PROVE  SubSeq(Append(s, e), 1, Len(s)) = s /\ Append(s, e) # <<>>
<1> DEFINE long == Append(s, e)
<1>1. /\ long \in Seq(S) /\ Len(long) = Len(s) + 1 /\ Len(s) \in Nat
      /\ \A k \in 1 .. Len(s) : long[k] = s[k]
  BY AppendFacts
<1> HIDE DEF long
<1>2. /\ SubSeq(long, 1, Len(s)) \in Seq(S) /\ Len(SubSeq(long, 1, Len(s))) = Len(s)
      /\ \A k \in 1 .. Len(s) : SubSeq(long, 1, Len(s))[k] = long[k]
  BY <1>1, UpToFacts
<1>3. \A k \in 1 .. Len(s) : SubSeq(long, 1, Len(s))[k] = s[k]
  BY <1>1, <1>2
<1>4. SubSeq(long, 1, Len(s)) = s
  BY <1>2, <1>3, SameElements
<1>5. long # <<>>
  BY <1>1
<1> QED BY <1>4, <1>5 DEF long

(* What follows a header. *)
LEMMA HeaderThen ==
  ASSUME NEW x \in Byte, NEW y \in Byte, NEW z \in Byte, NEW t \in Seq(Byte)
  PROVE  /\ <<x, y, z>> \o t \in Seq(Byte)
         /\ Len(<<x, y, z>> \o t) = 3 + Len(t)
         /\ (<<x, y, z>> \o t)[1] = x
         /\ (<<x, y, z>> \o t)[2] = y
         /\ (<<x, y, z>> \o t)[3] = z
         /\ \A k \in 1 .. Len(t) : (<<x, y, z>> \o t)[3 + k] = t[k]
OBVIOUS

(* What is left of it after the header. *)
LEMMA SubSeqFacts ==
  ASSUME NEW S, NEW s \in Seq(S), NEW len \in Nat, 3 + len <= Len(s)
  PROVE  /\ SubSeq(s, 4, 3 + len) \in Seq(S)
         /\ Len(SubSeq(s, 4, 3 + len)) = len
         /\ \A k \in 1 .. len : SubSeq(s, 4, 3 + len)[k] = s[3 + k]
OBVIOUS

(* The end of a sequence, and what putting it to another one does. *)
LEMMA LastFacts ==
  ASSUME NEW S, NEW s \in Seq(S), NEW e \in S
  PROVE  /\ SubSeq(s, Len(s) + 1, Len(s)) = <<>>
         /\ SubSeq(Append(s, e), Len(s) + 1, Len(Append(s, e))) = <<e>>
<1>1. SubSeq(s, Len(s) + 1, Len(s)) = <<>>
  OBVIOUS
<1>2. SubSeq(Append(s, e), Len(s) + 1, Len(Append(s, e))) = <<e>>
  <2> DEFINE q == SubSeq(Append(s, e), Len(s) + 1, Len(Append(s, e)))
  <2>1. Len(Append(s, e)) = Len(s) + 1 /\ Append(s, e)[Len(s) + 1] = e /\ Len(s) \in Nat
    BY AppendFacts
  <2>2. q = [k \in 1 .. 1 |-> Append(s, e)[Len(s) + k]]
    BY <2>1
  <2>3. \A k \in 1 .. 1 : Append(s, e)[Len(s) + k] = e
    BY <2>1
  <2>4. q = [k \in 1 .. 1 |-> e]
    BY <2>2, <2>3
  <2>5. <<e>> = [k \in 1 .. 1 |-> e]
    OBVIOUS
  <2> QED BY <2>4, <2>5
<1> QED BY <1>1, <1>2

LEMMA JoinFacts ==
  ASSUME NEW S, NEW s \in Seq(S), NEW e \in S
  PROVE  s \o <<>> = s /\ s \o <<e>> = Append(s, e)
OBVIOUS

LEMMA ByteFacts ==
  /\ Byte \subseteq Nat
  /\ ControlRet \subseteq Byte
  /\ CONTROL_VERSION \in Byte
  /\ 1 .. 0 = {}
BY ControlAssumption DEF Byte, ControlRet, CONTROL_SUCCESS, CONTROL_ERROR

LEMMA RetFacts ==
  /\ CONTROL_SUCCESS \in ControlRet /\ CONTROL_BAD_COMMAND \in ControlRet
  /\ CONTROL_ERROR \in ControlRet /\ CONTROL_OTHER_TRANSPORT_ERROR \in ControlRet
  /\ CONTROL_DATA_LENGTH_ERROR \in ControlRet
  /\ CONTROL_SUCCESS \notin {CONTROL_BAD_COMMAND, CONTROL_ERROR, CONTROL_DATA_LENGTH_ERROR,
                             CONTROL_OTHER_TRANSPORT_ERROR}
BY DEF ControlRet, CONTROL_SUCCESS, CONTROL_BAD_COMMAND, CONTROL_ERROR,
       CONTROL_OTHER_TRANSPORT_ERROR, CONTROL_DATA_LENGTH_ERROR

LEMMA CallType ==
  ASSUME NEW ifn \in IfNum, NEW res \in Byte, NEW c \in Byte,
         NEW data \in Seq(Byte), NEW ret \in ControlRet
  PROVE  /\ WriteCall(ifn, res, c, data, ret) \in Call
         /\ ReadCall(ifn, res, c, data, ret) \in Call
BY DEF WriteCall, ReadCall, Call

(* A lookup finds the interface in the table, and the special resource     *)
(* always.                                                                 *)
LEMMA LookupFacts ==
  ASSUME NEW table \in ResTable, NEW b \in Byte,
         CONTROL_SPECIAL_RESID < RESOURCE_TABLE_MAX
  PROVE  LET found == resource_table_search(table, {CONTROL_SPECIAL_RESID}, b)
         IN  /\ found \subseteq IfNum
             /\ b # CONTROL_SPECIAL_RESID => \A k \in found : k = table[b]
             /\ b = CONTROL_SPECIAL_RESID => found # {}
BY ControlAssumption DEF resource_table_search, IfNum, IFNUM_NONE

(* The command codes of the library itself, and the two answers.           *)
LEMMA SpecialFacts ==
  ASSUME NEW c \in Byte, NEW status \in ControlRet, NEW len
  PROVE  /\ CONTROL_GET_VERSION \in Byte /\ IS_CONTROL_CMD_READ(CONTROL_GET_VERSION)
         /\ CONTROL_GET_LAST_COMMAND_STATUS \in Byte
         /\ IS_CONTROL_CMD_READ(CONTROL_GET_LAST_COMMAND_STATUS)
         /\ CONTROL_GET_VERSION # CONTROL_GET_LAST_COMMAND_STATUS
         /\ special_read_ret(c, len) \in ControlRet
         /\ special_read_byte(c, status) \in Byte
BY ControlAssumption, ByteFacts, RetFacts
   DEF CONTROL_GET_VERSION, CONTROL_GET_LAST_COMMAND_STATUS, CONTROL_CMD_SET_READ,
       IS_CONTROL_CMD_READ, special_read_ret, special_read_byte, Byte

(* Setting and clearing the read bit. *)
LEMMA CmdFacts ==
  ASSUME NEW c \in Byte
  PROVE  /\ CONTROL_CMD_SET_READ(c) \in Byte /\ IS_CONTROL_CMD_READ(CONTROL_CMD_SET_READ(c))
         /\ CONTROL_CMD_SET_WRITE(c) \in Byte /\ ~IS_CONTROL_CMD_READ(CONTROL_CMD_SET_WRITE(c))
BY ControlAssumption
   DEF CONTROL_CMD_SET_READ, CONTROL_CMD_SET_WRITE, IS_CONTROL_CMD_READ, Byte
=============================================================================
