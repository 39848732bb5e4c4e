------------------------ MODULE ResourceTableProofs ------------------------
(***************************************************************************)
(* What holds of the start-up for every number of interfaces, every table  *)
(* size and every answer of the tasks: its types, that it implements the   *)
(* registry, and, from one inductive invariant, where lookups lead, what   *)
(* the result of control_register_resources means and what it guarantees.  *)
(***************************************************************************)
EXTENDS ResourceTable, TLAPS

-----------------------------------------------------------------------------
(* The unsigned char of an interface number does not wrap. *)
LEMMA ModSmall == ASSUME NEW a \in Nat, NEW b \in Nat, a < b PROVE a % b = a
BY SMT

LEMMA EmptyList == <<>> \in Lists
<1>1. <<>> \in [1 .. 0 -> Resids]
  OBVIOUS
<1> QED BY <1>1, ResourceTableAssumption DEF Lists

(* The answers of the tasks are sequences of resource ids. *)
LEMMA ListFacts ==
  ASSUME NEW l \in Lists
  PROVE  /\ l \in Seq(Resids)
         /\ Len(l) \in 0 .. MAX_RESOURCES_PER_INTERFACE
         /\ \A m \in 1 .. Len(l) : l[m] \in Resids
<1>1. PICK m \in 0 .. MAX_RESOURCES_PER_INTERFACE : l \in [1 .. m -> Resids]
  BY DEF Lists
<1>2. l \in Seq(Resids) /\ Len(l) = m
  BY <1>1, ResourceTableAssumption
<1> QED BY <1>1, <1>2

LEMMA ResidsAreNumbers == Resids \subseteq Nat
BY ControlAssumption, ResourceTableAssumption DEF Byte

LEMMA IfnumIsLoopIndex ==
  ASSUME TypeOK, phase = "adding" PROVE ifnum = j /\ j \in IfNum /\ j \in Interface
<1>1. j \in Nat /\ j < IFNUM_RESERVED + 1 /\ IFNUM_RESERVED \in Nat
  BY ControlAssumption, ResourceTableAssumption DEF TypeOK
<1>2. j % (IFNUM_RESERVED + 1) = j
  BY <1>1, ModSmall
<1> QED BY <1>1, <1>2, ResourceTableAssumption DEF ifnum, IfNum, Interface, TypeOK

LEMMA SearchType ==
  ASSUME NEW table \in ResTable, NEW res, NEW x
  PROVE  resource_table_search(table, res, x) \in SUBSET IfNum
BY ControlAssumption DEF resource_table_search, IfNum, IFNUM_NONE

-----------------------------------------------------------------------------
LEMMA TypeInit == Init => TypeOK
BY EmptyList, ControlAssumption, ResourceTableAssumption
   DEF Init, TypeOK, ResTable, Resource, IfNum, Phase, NoRoute

LEMMA TypeStep == ASSUME TypeOK, [Next]_vars PROVE TypeOK'
<1> USE ControlAssumption, ResourceTableAssumption
<1>1. CASE control_init
  BY <1>1, EmptyList
     DEF control_init, TypeOK, ResTable, Resource, IfNum, IFNUM_NONE, Phase, NoRoute
<1>2. ASSUME NEW len \in 0 .. MAX_INTERFACES, control_register_resources(len)
      PROVE  TypeOK'
  BY <1>2 DEF control_register_resources, TypeOK, Phase
<1>3. ASSUME NEW list \in Lists, register_resources(list) PROVE TypeOK'
  <2>1. listed' \in [Interface -> Lists]
    BY <1>3 DEF register_resources, TypeOK
  <2>2. Len(listed'[j]) \in Nat
    <3>1. j \in Interface
      BY <1>3 DEF register_resources, TypeOK, Interface
    <3> QED BY <3>1, <2>1, ListFacts
  <2> QED BY <1>3, <2>1, <2>2 DEF register_resources, TypeOK, Phase
<1>4. CASE AddEntry
  <2>1. resource_table' \in ResTable
    BY <1>4, IfnumIsLoopIndex DEF AddEntry, TypeOK, ResTable
  <2>2. Len(listed[j]) \in 0 .. MAX_RESOURCES_PER_INTERFACE
    BY <1>4, IfnumIsLoopIndex, ListFacts DEF AddEntry, TypeOK
  <2> QED BY <1>4, <2>1, <2>2 DEF AddEntry, TypeOK
<1>5. CASE AddFails
  BY <1>5 DEF AddFails, TypeOK, Phase
<1>6. CASE AddReturns
  BY <1>6 DEF AddReturns, TypeOK, Phase
<1>7. CASE RegisterReturns
  BY <1>7 DEF RegisterReturns, TypeOK, Phase
<1>8. ASSUME NEW x \in Byte, Search(x) PROVE TypeOK'
  BY <1>8, SearchType DEF Search, TypeOK
<1>9. CASE UNCHANGED vars
  BY <1>9 DEF vars, TypeOK
<1> QED
  BY <1>1, <1>2, <1>3, <1>4, <1>5, <1>6, <1>7, <1>8, <1>9
     DEF Next, Registration

(* The start-up is well typed: in particular no index of a loop leaves its *)
(* array.                                                                  *)
THEOREM Typing == Spec => []TypeOK
BY TypeInit, TypeStep, PTL DEF Spec

-----------------------------------------------------------------------------
(* The inductive invariant.  An entry of an answer has been dealt with when *)
(* its task's turn is over, or when the loop of resource_table_add is past  *)
(* it.                                                                      *)
InLoop        == phase \in {"calling", "adding", "serving"}
Entered(k, m) == k < j \/ (phase = "adding" /\ k = j /\ m <= i)

(* Whatever the table holds was listed by the task it names. *)
Claimed(x) ==
  /\ InLoop
  /\ resource_table[x] \in Interface
  /\ resource_table[x] < n
  /\ \E m \in 1 .. Len(listed[resource_table[x]]) :
       listed[resource_table[x]][m] = x /\ Entered(resource_table[x], m)

TableClaimed ==
  phase # "boot" =>
    \A x \in Resource : resource_table[x] # IFNUM_NONE => Claimed(x)

(* The tasks whose turn has not come have not answered. *)
Unasked ==
  \A k \in Interface :
    ~InLoop \/ k > j \/ (k = j /\ phase # "adding") => listed[k] = <<>>

(* As long as nothing was rejected, what was dealt with is in the table,   *)
(* and no answer names a resource twice.                                   *)
Kept(k, m) ==
  /\ listed[k][m] # CONTROL_SPECIAL_RESID
  /\ listed[k][m] < RESOURCE_TABLE_MAX
  /\ resource_table[listed[k][m]] = k
  /\ \A m2 \in 1 .. Len(listed[k]) :
       Entered(k, m2) /\ listed[k][m2] = listed[k][m] => m2 = m

AllKept ==
  InLoop /\ ret = CONTROL_SUCCESS =>
    /\ j <= IFNUM_RESERVED
    /\ \A k \in Interface : \A m \in 1 .. Len(listed[k]) :
         Entered(k, m) => Kept(k, m)

(* Once something was rejected, the answers cannot be clean any more. *)
RejectedUnclean == InLoop /\ ret # CONTROL_SUCCESS => ~Clean

LoopDone == phase = "serving" => j = n

(* The last lookup was made in the table that is in force. *)
RouteCurrent ==
  \/ route = NoRoute
  \/ /\ phase = "serving"
     /\ \E x \in Byte :
          route = [resid |-> {x},
                   ifnum |-> resource_table_search(resource_table, reserved, x)]

IInv ==
  /\ TypeOK
  /\ TableClaimed
  /\ Unasked
  /\ AllKept
  /\ RejectedUnclean
  /\ LoopDone
  /\ RouteCurrent

-----------------------------------------------------------------------------
LEMMA IInvInit == Init => IInv
BY TypeInit DEF Init, IInv, TableClaimed, Unasked, AllKept, RejectedUnclean,
                LoopDone, RouteCurrent, InLoop

(* Nothing but control_init happens to the table outside resource_table_add. *)
LEMMA InitCallStep == ASSUME IInv, control_init PROVE IInv'
<1>1. TypeOK'
  BY TypeStep DEF IInv, Next
<1>2. resource_table' = [x \in Resource |-> IFNUM_NONE] /\ phase' = "ready"
      /\ listed' = [k \in Interface |-> <<>>] /\ route' = NoRoute
  BY DEF control_init
<1> QED BY <1>1, <1>2 DEF IInv, TableClaimed, Unasked, AllKept, RejectedUnclean,
                          LoopDone, RouteCurrent, InLoop

LEMMA RegisterCallStep ==
  ASSUME IInv, NEW len \in 0 .. MAX_INTERFACES, control_register_resources(len)
  PROVE  IInv'
<1>1. TypeOK'
  BY TypeStep DEF IInv, Next
<1>2. phase = "ready" /\ phase' = "calling" /\ j' = 0 /\ ret' = CONTROL_SUCCESS
      /\ UNCHANGED <<resource_table, reserved, listed, route>>
  BY DEF control_register_resources
<1>3. \A k \in Interface : listed[k] = <<>>
  BY <1>2 DEF IInv, Unasked, InLoop
<1>4. \A x \in Resource : resource_table[x] = IFNUM_NONE
  BY <1>2 DEF IInv, TableClaimed, Claimed, InLoop
<1>5. AllKept'
  BY <1>2, <1>3, ControlAssumption DEF AllKept
<1> QED BY <1>1, <1>2, <1>3, <1>4, <1>5
        DEF IInv, TableClaimed, Unasked, RejectedUnclean, LoopDone, RouteCurrent,
            CONTROL_SUCCESS

(* The answer of task j is new; what was dealt with before is not touched. *)
LEMMA AskStep ==
  ASSUME IInv, NEW list \in Lists, register_resources(list)
  PROVE  IInv'
<1>1. TypeOK'
  BY TypeStep DEF IInv, Next, Registration
<1>2. /\ phase = "calling" /\ phase' = "adding" /\ j < n /\ i' = 0
      /\ listed' = [listed EXCEPT ![j] = list]
      /\ UNCHANGED <<resource_table, reserved, n, j, ret, route>>
  BY DEF register_resources
<1>3. /\ j \in Interface /\ listed[j] = <<>>
      /\ listed \in [Interface -> Lists] /\ listed'[j] = list
      /\ \A k \in Interface : k # j => listed'[k] = listed[k]
  <2>1. j \in Interface
    BY <1>2, ResourceTableAssumption DEF IInv, TypeOK, Interface
  <2> QED BY <1>2, <2>1 DEF IInv, TypeOK, Unasked, InLoop
<1>4. \A k, m : m \in Nat \ {0} /\ k \in Interface => (Entered(k, m)' <=> Entered(k, m))
  BY <1>2 DEF Entered
<1>5. TableClaimed'
  <2> SUFFICES ASSUME NEW x \in Resource, resource_table[x] # IFNUM_NONE
               PROVE  Claimed(x)'
    BY <1>2 DEF TableClaimed
  <2>1. Claimed(x)
    BY <1>2 DEF IInv, TableClaimed
  <2>2. PICK m \in 1 .. Len(listed[resource_table[x]]) :
          /\ listed[resource_table[x]][m] = x
          /\ Entered(resource_table[x], m)
    BY <2>1 DEF Claimed
  <2>3. resource_table[x] # j /\ resource_table[x] \in Interface
    BY <2>1, <2>2, <1>2 DEF Claimed, Entered, Interface
  <2>4. Entered(resource_table[x], m)'
    BY <2>2, <2>3, <1>2 DEF Entered
  <2> QED BY <1>2, <1>3, <2>1, <2>2, <2>3, <2>4 DEF Claimed, InLoop
<1>6. Unasked'
  BY <1>2, <1>3 DEF IInv, Unasked, InLoop, Interface
<1>7. AllKept'
  <2> SUFFICES ASSUME ret = CONTROL_SUCCESS
               PROVE  /\ j <= IFNUM_RESERVED
                      /\ \A k \in Interface : \A m \in 1 .. Len(listed'[k]) :
                           Entered(k, m)' => Kept(k, m)'
    BY <1>2 DEF AllKept
  <2>1. j <= IFNUM_RESERVED /\ \A k \in Interface : \A m \in 1 .. Len(listed[k]) :
                                  Entered(k, m) => Kept(k, m)
    BY <1>2 DEF IInv, AllKept, InLoop
  <2>2. ASSUME NEW k \in Interface, NEW m \in 1 .. Len(listed'[k]), Entered(k, m)'
        PROVE  Kept(k, m)'
    <3>1. k # j /\ k < j
      BY <2>2, <1>2 DEF Entered, Interface
    <3>2. Kept(k, m)
      BY <2>1, <2>2, <3>1, <1>3 DEF Entered
    <3> QED BY <3>1, <3>2, <1>2, <1>3 DEF Kept, Entered
  <2> QED BY <2>1, <2>2
<1>8. RejectedUnclean'
  <2> SUFFICES ASSUME ret # CONTROL_SUCCESS, Clean' PROVE FALSE
    BY <1>2 DEF RejectedUnclean
  <2>1. \A p \in Positions : p \in Positions' /\ At(p)' = At(p)
    <3> SUFFICES ASSUME NEW p \in Positions PROVE p \in Positions' /\ At(p)' = At(p)
      OBVIOUS
    <3>1. p[1] \in Interface /\ p[1] # j
      BY <1>3 DEF Positions
    <3> QED BY <3>1, <1>3 DEF Positions, At
  <2>2. Clean
    BY <2>1, <1>2 DEF Clean
  <2> QED BY <2>2, <1>2 DEF IInv, RejectedUnclean, InLoop
<1> QED BY <1>1, <1>2, <1>5, <1>6, <1>7, <1>8 DEF IInv, LoopDone, RouteCurrent

(* Every entry of the answer at hand that is accepted lands at its task. *)
LEMMA AddEntryStep == ASSUME IInv, AddEntry PROVE IInv'
<1>1. TypeOK'
  BY TypeStep DEF IInv, Next, Registration
<1>2. /\ phase = "adding" /\ i < Len(listed[j]) /\ i' = i + 1
      /\ Acceptable(resid) /\ j # IFNUM_NONE
      /\ resource_table' = [resource_table EXCEPT ![resid] = j]
      /\ UNCHANGED <<reserved, phase, n, j, ret, listed, route>>
  BY IfnumIsLoopIndex DEF AddEntry, IInv
<1>3. /\ j \in Interface /\ j \in IfNum /\ j < n /\ i \in Nat
      /\ Len(listed[j]) \in Nat /\ i + 1 \in 1 .. Len(listed[j])
      /\ listed[j][i + 1] \in Resids
      /\ reserved = {CONTROL_SPECIAL_RESID}
      /\ resource_table \in ResTable
  BY <1>2, IfnumIsLoopIndex, ListFacts DEF IInv, TypeOK
<1>4. /\ resid \in Resource /\ resid # CONTROL_SPECIAL_RESID
      /\ resource_table[resid] = IFNUM_NONE
      /\ resource_table'[resid] = j
      /\ \A x \in Resource : x # resid => resource_table'[x] = resource_table[x]
  <2>1. resid \in Nat
    BY <1>3, ResidsAreNumbers DEF resid
  <2>2. resid \in Resource /\ resid # CONTROL_SPECIAL_RESID
        /\ resource_table[resid] = IFNUM_NONE
    BY <2>1, <1>2, <1>3, ControlAssumption DEF Acceptable, Resource
  <2>3. resource_table \in [Resource -> IfNum]
    BY <1>3 DEF ResTable, Resource
  <2> QED BY <2>2, <2>3, <1>2
<1>5. \A k : \A m \in Nat : Entered(k, m) => Entered(k, m)'
  BY <1>2, <1>3 DEF Entered
<1>6. TableClaimed'
  <2> SUFFICES ASSUME NEW x \in Resource, resource_table'[x] # IFNUM_NONE
               PROVE  Claimed(x)'
    BY <1>2 DEF TableClaimed
  <2>1. CASE x = resid
    BY <2>1, <1>2, <1>3, <1>4 DEF Claimed, InLoop, Entered, resid
  <2>2. CASE x # resid
    <3>1. Claimed(x) /\ resource_table'[x] = resource_table[x]
      BY <2>2, <1>2, <1>4 DEF IInv, TableClaimed
    <3> QED BY <3>1, <1>2, <1>5 DEF Claimed, InLoop
  <2> QED BY <2>1, <2>2
<1>7. Unasked'
  BY <1>2 DEF IInv, Unasked, InLoop
<1>8. AllKept'
  <2> SUFFICES ASSUME ret = CONTROL_SUCCESS,
                      NEW k \in Interface, NEW m \in 1 .. Len(listed[k]), Entered(k, m)'
               PROVE  j <= IFNUM_RESERVED /\ Kept(k, m)'
    <3>1. ret = CONTROL_SUCCESS => j <= IFNUM_RESERVED
      BY <1>2 DEF IInv, AllKept, InLoop
    <3> QED BY <1>2, <3>1 DEF AllKept
  <2>1. /\ j <= IFNUM_RESERVED
        /\ \A k2 \in Interface : \A m2 \in 1 .. Len(listed[k2]) :
             Entered(k2, m2) => Kept(k2, m2)
    BY <1>2 DEF IInv, AllKept, InLoop
  <2>2. ASSUME NEW k2 \in Interface, NEW m2 \in 1 .. Len(listed[k2]), Entered(k2, m2)
        PROVE  listed[k2][m2] # resid /\ listed[k2][m2] \in Resource
    <3>1. Kept(k2, m2)
      BY <2>1, <2>2
    <3>2. listed[k2][m2] \in Nat
      BY ListFacts, ResidsAreNumbers DEF IInv, TypeOK
    <3>3. listed[k2][m2] \in Resource
      BY <3>1, <3>2, ControlAssumption DEF Kept, Resource
    <3>4. k2 # IFNUM_NONE
      BY <2>2, <2>1, <1>2, <1>3 DEF Entered, Interface, IFNUM_NONE
    <3> QED BY <3>1, <3>3, <3>4, <1>4 DEF Kept
  <2>3. CASE k = j /\ m = i + 1
    <3>1. listed[k][m] = resid
      BY <2>3 DEF resid
    <3>2. ASSUME NEW m2 \in 1 .. Len(listed[k]), Entered(k, m2)', listed[k][m2] = resid
          PROVE  m2 = m
      <4>1. ~Entered(k, m2)
        BY <2>2, <3>2
      <4> QED BY <4>1, <3>2, <2>3, <1>2, <1>3 DEF Entered
    <3>3. listed[k][m] < RESOURCE_TABLE_MAX /\ listed[k][m] # CONTROL_SPECIAL_RESID
      BY <3>1, <1>4, ControlAssumption DEF Resource
    <3> QED BY <3>1, <3>2, <3>3, <2>1, <2>3, <1>2, <1>4 DEF Kept
  <2>4. CASE ~(k = j /\ m = i + 1)
    <3>1. Entered(k, m)
      BY <2>4, <1>2, <1>3 DEF Entered
    <3>2. Kept(k, m) /\ listed[k][m] # resid /\ listed[k][m] \in Resource
      BY <2>1, <2>2, <3>1
    <3>3. ASSUME NEW m2 \in 1 .. Len(listed[k]), Entered(k, m2)', listed[k][m2] = listed[k][m]
          PROVE  m2 = m
      <4>1. Entered(k, m2) \/ (k = j /\ m2 = i + 1)
        BY <3>3, <1>2, <1>3 DEF Entered
      <4>2. ~(k = j /\ m2 = i + 1)
        BY <3>2, <3>3 DEF resid
      <4> QED BY <4>1, <4>2, <3>2, <3>3 DEF Kept
    <3>4. resource_table'[listed[k][m]] = resource_table[listed[k][m]]
      BY <3>2, <1>4
    <3> QED BY <3>2, <3>3, <3>4, <2>1, <1>2 DEF Kept
  <2> QED BY <2>1, <2>3, <2>4
<1>9. RejectedUnclean'
  BY <1>2 DEF IInv, RejectedUnclean, InLoop, Clean, Positions, At
<1> QED BY <1>1, <1>2, <1>6, <1>7, <1>8, <1>9 DEF IInv, LoopDone, RouteCurrent

LEMMA AddFailsStep == ASSUME IInv, AddFails PROVE IInv'
<1>1. TypeOK'
  BY TypeStep DEF IInv, Next, Registration
<1>2. /\ phase = "adding" /\ phase' = "calling" /\ j' = j + 1
      /\ ret' = CONTROL_REGISTRATION_FAILED
      /\ UNCHANGED <<resource_table, reserved, n, i, listed, route>>
      /\ \/ j = IFNUM_NONE
         \/ i < Len(listed[j]) /\ ~Acceptable(resid)
  BY IfnumIsLoopIndex DEF AddFails, IInv
<1>3. /\ j \in Interface /\ j < n /\ i \in Nat /\ n \in Nat
      /\ Len(listed[j]) \in 0 .. MAX_RESOURCES_PER_INTERFACE
      /\ i < Len(listed[j]) => listed[j][i + 1] \in Resids
      /\ reserved = {CONTROL_SPECIAL_RESID}
      /\ resource_table \in ResTable
  BY <1>2, IfnumIsLoopIndex, ListFacts DEF IInv, TypeOK
<1>4. \A k \in Interface, m \in Nat : Entered(k, m) => Entered(k, m)'
  BY <1>2, <1>3 DEF Entered, Interface
<1>5. TableClaimed'
  BY <1>2, <1>4 DEF IInv, TableClaimed, Claimed, InLoop
<1>6. Unasked'
  BY <1>2, <1>3 DEF IInv, Unasked, InLoop, Interface
<1>7. AllKept'
  BY <1>2 DEF AllKept, CONTROL_SUCCESS, CONTROL_REGISTRATION_FAILED
<1>8. RejectedUnclean'
  <2> SUFFICES ASSUME Clean PROVE FALSE
    BY <1>2 DEF RejectedUnclean, Clean, Positions, At
  <2>1. CASE j = IFNUM_NONE
    BY <2>1, <1>3, ControlAssumption DEF Clean, IFNUM_NONE
  <2>2. CASE i < Len(listed[j]) /\ ~Acceptable(resid)
    <3> DEFINE p == <<j, i + 1>>
    <3>1. p \in Positions /\ At(p) = resid
      <4>1. i + 1 \in 1 .. MAX_RESOURCES_PER_INTERFACE /\ i + 1 <= Len(listed[j])
        BY <2>2, <1>3, ResourceTableAssumption
      <4> QED BY <4>1, <1>3 DEF Positions, At, resid
    <3>2. resid \in Resource /\ resid \notin reserved
      <4>1. resid \in Nat
        BY <2>2, <1>3, ResidsAreNumbers DEF resid
      <4>2. resid # CONTROL_SPECIAL_RESID /\ resid < RESOURCE_TABLE_MAX
        BY <3>1 DEF Clean
      <4> QED BY <4>1, <4>2, <1>3, ControlAssumption DEF Resource
    <3>3. resource_table[resid] # IFNUM_NONE
      <4>1. resid < RESOURCE_TABLE_MAX
        BY <3>1 DEF Clean
      <4> QED BY <4>1, <3>2, <2>2 DEF Acceptable
    <3>4. Claimed(resid)
      BY <3>2, <3>3, <1>2 DEF IInv, TableClaimed
    <3>5. PICK m \in 1 .. Len(listed[resource_table[resid]]) :
            /\ listed[resource_table[resid]][m] = resid
            /\ Entered(resource_table[resid], m)
      BY <3>4 DEF Claimed
    <3> DEFINE q == <<resource_table[resid], m>>
    <3>6. q \in Positions /\ At(q) = resid
      <4>1. resource_table[resid] \in Interface
        BY <3>4 DEF Claimed
      <4>2. Len(listed[resource_table[resid]]) \in 0 .. MAX_RESOURCES_PER_INTERFACE
        BY <4>1, ListFacts DEF IInv, TypeOK
      <4>3. m \in 1 .. MAX_RESOURCES_PER_INTERFACE
            /\ m <= Len(listed[resource_table[resid]])
        BY <4>2, <3>5, ResourceTableAssumption
      <4> QED BY <4>1, <4>3, <3>5 DEF Positions, At
    <3>7. p # q
      BY <3>5, <1>3 DEF Entered, Interface
    <3> QED BY <3>1, <3>6, <3>7 DEF Clean
  <2> QED BY <1>2, <2>1, <2>2
<1> QED BY <1>1, <1>2, <1>5, <1>6, <1>7, <1>8 DEF IInv, LoopDone, RouteCurrent

LEMMA AddReturnsStep == ASSUME IInv, AddReturns PROVE IInv'
<1>1. TypeOK'
  BY TypeStep DEF IInv, Next, Registration
<1>2. /\ phase = "adding" /\ phase' = "calling" /\ j' = j + 1
      /\ j # IFNUM_NONE /\ i = Len(listed[j])
      /\ UNCHANGED <<resource_table, reserved, n, i, ret, listed, route>>
  BY IfnumIsLoopIndex DEF AddReturns, IInv
<1>3. j \in Interface /\ j \in IfNum /\ i \in Nat
  BY <1>2, IfnumIsLoopIndex DEF IInv, TypeOK
<1>4. \A k \in Interface : \A m \in 1 .. Len(listed[k]) : Entered(k, m) <=> Entered(k, m)'
  BY <1>2, <1>3 DEF Entered, Interface
<1>5. TableClaimed'
  BY <1>2, <1>4 DEF IInv, TableClaimed, Claimed, InLoop
<1>6. Unasked'
  BY <1>2, <1>3 DEF IInv, Unasked, InLoop, Interface
<1>7. AllKept'
  <2>1. j + 1 <= IFNUM_RESERVED
    BY <1>2, <1>3, ControlAssumption DEF IfNum, IFNUM_NONE
  <2> QED BY <1>2, <1>4, <2>1 DEF IInv, AllKept, Kept, InLoop
<1>8. RejectedUnclean'
  BY <1>2 DEF IInv, RejectedUnclean, InLoop, Clean, Positions, At
<1> QED BY <1>1, <1>2, <1>5, <1>6, <1>7, <1>8 DEF IInv, LoopDone, RouteCurrent

LEMMA RegisterReturnsStep == ASSUME IInv, RegisterReturns PROVE IInv'
<1>1. TypeOK'
  BY TypeStep DEF IInv, Next, Registration
<1>2. /\ phase = "calling" /\ phase' = "serving" /\ j = n
      /\ UNCHANGED <<resource_table, reserved, n, j, i, ret, listed, route>>
  BY DEF RegisterReturns
<1>3. \A k, m : Entered(k, m) <=> Entered(k, m)'
  BY <1>2 DEF Entered
<1>4. TableClaimed'
  BY <1>2, <1>3 DEF IInv, TableClaimed, Claimed, InLoop
<1>5. AllKept'
  BY <1>2, <1>3 DEF IInv, AllKept, Kept, InLoop
<1>6. Unasked'
  BY <1>2 DEF IInv, Unasked, InLoop
<1>7. RejectedUnclean'
  BY <1>2 DEF IInv, RejectedUnclean, InLoop, Clean, Positions, At
<1>8. RouteCurrent'
  BY <1>2 DEF IInv, RouteCurrent, NoRoute
<1> QED BY <1>1, <1>2, <1>4, <1>5, <1>6, <1>7, <1>8 DEF IInv, LoopDone

LEMMA SameButRoute ==
  ASSUME IInv, TypeOK', RouteCurrent',
         UNCHANGED <<resource_table, reserved, phase, n, j, i, ret, listed>>
  PROVE  IInv'
BY DEF IInv, TableClaimed, Claimed, Unasked, AllKept, Kept, RejectedUnclean, Clean,
       Positions, At, LoopDone, InLoop, Entered

LEMMA IInvStep == ASSUME IInv, [Next]_vars PROVE IInv'
<1>1. TypeOK'
  BY TypeStep DEF IInv
<1>2. ASSUME NEW x \in Byte, Search(x) PROVE IInv'
  <2>1. RouteCurrent'
    BY <1>2 DEF Search, RouteCurrent
  <2> QED BY <1>1, <1>2, <2>1, SameButRoute DEF Search
<1>3. CASE UNCHANGED vars
  <2>1. RouteCurrent'
    BY <1>3 DEF vars, IInv, RouteCurrent, NoRoute
  <2> QED BY <1>1, <1>3, <2>1, SameButRoute DEF vars
<1> QED
  BY <1>2, <1>3, InitCallStep, RegisterCallStep, AskStep, AddEntryStep, AddFailsStep,
     AddReturnsStep, RegisterReturnsStep
     DEF Next, Registration

THEOREM Invariance == Spec => []IInv
BY IInvInit, IInvStep, PTL DEF Spec

-----------------------------------------------------------------------------
(* Every lookup leads to the task that listed the resource. *)
THEOREM RoutesAreClaimed == Spec => []RoutesToClaimant
<1>1. IInv => RoutesToClaimant
  <2> SUFFICES ASSUME IInv, NEW x \in route.resid, NEW k \in route.ifnum,
                      k = IFNUM_RESERVED => x # CONTROL_SPECIAL_RESID
               PROVE  k # IFNUM_RESERVED /\ k < n
                      /\ \E m \in 1 .. Len(listed[k]) : listed[k][m] = x
    BY DEF RoutesToClaimant
  <2>1. phase = "serving" /\ x \in Byte
        /\ k \in resource_table_search(resource_table, reserved, x)
    BY DEF IInv, RouteCurrent, NoRoute
  <2>2. reserved = {CONTROL_SPECIAL_RESID}
    BY <2>1 DEF IInv, TypeOK
  <2>3. x \in Resource /\ resource_table[x] = k /\ k # IFNUM_NONE
    BY <2>1, <2>2, ControlAssumption
       DEF resource_table_search, IFNUM_NONE, Resource, Byte
  <2>4. Claimed(x)
    BY <2>1, <2>3 DEF IInv, TableClaimed
  <2> QED BY <2>3, <2>4 DEF Claimed, IFNUM_NONE
<1> QED BY <1>1, Invariance, PTL

(* After a success all answers have been dealt with and kept. *)
LEMMA ServedKept ==
  ASSUME IInv, phase = "serving", ret = CONTROL_SUCCESS
  PROVE  /\ n <= IFNUM_RESERVED
         /\ \A k \in Interface : \A m \in 1 .. Len(listed[k]) :
              k < n /\ Entered(k, m) /\ Kept(k, m)
<1>1. ASSUME NEW k \in Interface, NEW m \in 1 .. Len(listed[k])
      PROVE  k < n /\ Entered(k, m)
  <2>1. listed[k] # <<>>
    BY ListFacts DEF IInv, TypeOK
  <2>2. ~(k > j \/ k = j)
    BY <2>1 DEF IInv, Unasked
  <2> QED BY <2>2 DEF IInv, TypeOK, LoopDone, Entered, Interface
<1>2. \A k \in Interface : \A m \in 1 .. Len(listed[k]) : Kept(k, m)
  BY <1>1 DEF IInv, AllKept, InLoop
<1>3. n <= IFNUM_RESERVED
  BY DEF IInv, AllKept, InLoop, LoopDone
<1> QED BY <1>1, <1>2, <1>3

(* Success is reported for clean registrations, and for no other. *)
THEOREM VerdictIsExact == Spec => []VerdictExact
<1>1. IInv => VerdictExact
  <2> SUFFICES ASSUME IInv, phase = "serving" PROVE ret = CONTROL_SUCCESS <=> Clean
    BY DEF VerdictExact
  <2>1. ASSUME ret # CONTROL_SUCCESS PROVE ~Clean
    BY <2>1 DEF IInv, RejectedUnclean, InLoop
  <2>2. ASSUME ret = CONTROL_SUCCESS PROVE Clean
    <3>1. n <= IFNUM_RESERVED
      BY <2>2, ServedKept
    <3>2. \A k \in Interface : \A m \in 1 .. Len(listed[k]) : Entered(k, m) /\ Kept(k, m)
      BY <2>2, ServedKept
    <3>3. \A p \in Positions : p[1] \in Interface /\ p[2] \in 1 .. Len(listed[p[1]])
                               /\ p = <<p[1], p[2]>>
      BY ListFacts DEF Positions, IInv, TypeOK
    <3>4. \A p \in Positions : At(p) # CONTROL_SPECIAL_RESID /\ At(p) < RESOURCE_TABLE_MAX
      BY <3>2, <3>3 DEF Kept, At
    <3>5. ASSUME NEW p \in Positions, NEW q \in Positions, At(p) = At(q)
          PROVE  p = q
      <4>1. Kept(p[1], p[2]) /\ Kept(q[1], q[2])
        BY <3>2, <3>3
      <4>2. p[1] = q[1]
        BY <4>1, <3>5 DEF Kept, At
      <4>3. p[2] = q[2]
        BY <4>1, <4>2, <3>2, <3>3, <3>5 DEF Kept, At
      <4> QED BY <4>2, <4>3, <3>3
    <3> QED BY <3>1, <3>4, <3>5 DEF Clean
  <2> QED BY <2>1, <2>2
<1> QED BY <1>1, Invariance, PTL

(* After a success every listed resource is found, at its task. *)
THEOREM SuccessRoutes == Spec => []SuccessRoutesAll
<1>1. IInv => SuccessRoutesAll
  <2> SUFFICES ASSUME IInv, phase = "serving", ret = CONTROL_SUCCESS,
                      NEW k \in Interface, NEW m \in 1 .. Len(listed[k])
               PROVE  resource_table_search(resource_table, reserved, listed[k][m]) = {k}
    BY DEF SuccessRoutesAll
  <2>1. Kept(k, m) /\ k \in 0 .. (IFNUM_NONE - 1)
    BY ServedKept, ControlAssumption DEF Interface, IFNUM_NONE, IInv, TypeOK
  <2>2. listed[k][m] \notin reserved
    BY <2>1 DEF Kept, IInv, TypeOK
  <2> QED BY <2>1, <2>2 DEF Kept, resource_table_search
<1> QED BY <1>1, Invariance, PTL

-----------------------------------------------------------------------------
(* Each step of the start-up is a step of the registry, or none. *)
LEMMA RegistryInit == Init => Reg!Init
BY ControlAssumption DEF Init, Reg!Init, Resource, IFNUM_NONE

LEMMA RegistryStep ==
  ASSUME TypeOK, [Next]_vars PROVE [Reg!Next]_(Reg!vars)
<1> USE DEF Reg!Next, Reg!vars
<1>1. CASE control_init
  BY <1>1 DEF control_init, Reg!Open
<1>2. ASSUME NEW len \in 0 .. MAX_INTERFACES, control_register_resources(len)
      PROVE  UNCHANGED Reg!vars
  BY <1>2 DEF control_register_resources
<1>3. ASSUME NEW list \in Lists, register_resources(list) PROVE UNCHANGED Reg!vars
  BY <1>3 DEF register_resources
<1>4. CASE AddEntry
  <2>1. ifnum = j /\ j \in 0 .. (IFNUM_RESERVED - 1)
    BY <1>4, IfnumIsLoopIndex, ControlAssumption DEF AddEntry, IfNum, IFNUM_NONE
  <2>2. resid \in Nat /\ resid < RESOURCE_TABLE_MAX
    <3>1. resid \in Resids
      BY <1>4, IfnumIsLoopIndex, ListFacts DEF AddEntry, TypeOK, resid
    <3> QED BY <1>4, <3>1, ResidsAreNumbers DEF AddEntry, Acceptable
  <2>3. resid \in Resource
    BY <2>2, ControlAssumption DEF Resource
  <2>4. resid \notin {CONTROL_SPECIAL_RESID}
    BY <1>4 DEF AddEntry, Acceptable, TypeOK
  <2>5. Reg!Take(resid)
    BY <1>4, <2>1, <2>3, <2>4 DEF AddEntry, Acceptable, Reg!Take
  <2> QED BY <2>3, <2>5
<1>5. CASE AddFails
  BY <1>5 DEF AddFails, Reg!Pass
<1>6. CASE AddReturns
  BY <1>6 DEF AddReturns, Reg!Pass
<1>7. CASE RegisterReturns
  BY <1>7 DEF RegisterReturns, Reg!Close
<1>8. ASSUME NEW x \in Byte, Search(x) PROVE UNCHANGED Reg!vars
  BY <1>8 DEF Search
<1>9. CASE UNCHANGED vars
  BY <1>9 DEF vars
<1> QED
  BY <1>1, <1>2, <1>3, <1>4, <1>5, <1>6, <1>7, <1>8, <1>9 DEF Next, Registration

(* The start-up implements the registry. *)
THEOREM Refinement == Spec => ImplementsRegistry
BY RegistryInit, RegistryStep, Typing, PTL DEF Spec, Reg!Spec, ImplementsRegistry
=============================================================================
