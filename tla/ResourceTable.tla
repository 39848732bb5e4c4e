---------------------------- MODULE ResourceTable ----------------------------
(***************************************************************************)
(* Start-up of a device: control_init clears the resource table, then      *)
(* control_register_resources asks the application tasks behind the        *)
(* interfaces 0 .. n-1, one after the other, for the resources they serve  *)
(* and enters them with resource_table_add.  Afterwards the transport      *)
(* looks resources up with resource_table_search.  The loops are modelled  *)
(* one iteration per step.                                                 *)
(***************************************************************************)
EXTENDS Control, FiniteSets

CONSTANTS
  MAX_INTERFACES,               \* the longest interface array
  MAX_RESOURCES_PER_INTERFACE,  \* capacity of the array r[] (64)
  Resids                        \* the resource ids that tasks list

(* The interfaces of an array are bounded by a tile's 32 channel ends, far *)
(* below the 256 at which the unsigned char ifnum would wrap.              *)
ASSUME ResourceTableAssumption ==
  /\ MAX_INTERFACES \in Nat
  /\ MAX_INTERFACES <= IFNUM_RESERVED + 1
  /\ MAX_RESOURCES_PER_INTERFACE \in Nat
  /\ Resids \subseteq Byte
  /\ CONTROL_SPECIAL_RESID < RESOURCE_TABLE_MAX

Interface == 0 .. (MAX_INTERFACES - 1)
Resource  == 0 .. (RESOURCE_TABLE_MAX - 1)
Lists     == UNION {[1 .. m -> Resids] : m \in 0 .. MAX_RESOURCES_PER_INTERFACE}

VARIABLES
  resource_table,   \* entry per resource id: interface number or IFNUM_NONE
  reserved,         \* {g_reserved_id} once reserved_id_specified, else {}
  phase,            \* where the transport task is, see Phase
  n,                \* the length of the interface array
  j,                \* the loop over the interfaces
  i,                \* the loop of resource_table_add over the array r[]
  ret,              \* the result of control_register_resources
  listed,           \* listed[k]: what task k answered; r[] is listed[j]
  route             \* the last lookup and its answer

vars == <<resource_table, reserved, phase, n, j, i, ret, listed, route>>

(* boot: before control_init; ready: after it; calling: at the top of the  *)
(* loop over the interfaces; adding: in resource_table_add; serving: after *)
(* control_register_resources has returned.                                *)
Phase == {"boot", "ready", "calling", "adding", "serving"}

NoRoute == [resid |-> {}, ifnum |-> {}]

-----------------------------------------------------------------------------

(* Static storage is zero: every entry names interface 0. *)
Init ==
  /\ resource_table = [x \in Resource |-> 0]
  /\ reserved = {}
  /\ phase = "boot"
  /\ n = 0 /\ j = 0 /\ i = 0
  /\ ret = CONTROL_SUCCESS
  /\ listed = [k \in Interface |-> <<>>]
  /\ route = NoRoute

(* Mutant: the static zeros are taken for an empty table. *)
control_init_NoClear ==
  /\ phase \in {"boot", "serving"}
  /\ reserved' = {CONTROL_SPECIAL_RESID}
  /\ phase' = "ready"
  /\ listed' = [k \in Interface |-> <<>>]
  /\ route' = NoRoute
  /\ UNCHANGED <<resource_table, n, j, i, ret>>

control_init ==
  /\ phase \in {"boot", "serving"}
  /\ resource_table' = [x \in Resource |-> IFNUM_NONE]
  /\ reserved' = {CONTROL_SPECIAL_RESID}
  /\ phase' = "ready"
  /\ listed' = [k \in Interface |-> <<>>]
  /\ route' = NoRoute
  /\ UNCHANGED <<n, j, i, ret>>

control_register_resources(len) ==
  /\ phase = "ready"
  /\ phase' = "calling"
  /\ n' = len
  /\ j' = 0
  /\ ret' = CONTROL_SUCCESS
  /\ UNCHANGED <<resource_table, reserved, i, listed, route>>

(* Mutant: the loop runs once too often. *)
register_resources_OffByOne(list) ==
  /\ phase = "calling"
  /\ j <= n
  /\ listed' = [listed EXCEPT ![j] = list]
  /\ i' = 0
  /\ phase' = "adding"
  /\ UNCHANGED <<resource_table, reserved, n, j, ret, route>>

(* i[j].register_resources(r, n0): task j fills in its list. *)
register_resources(list) ==
  /\ phase = "calling"
  /\ j < n
  /\ listed' = [listed EXCEPT ![j] = list]
  /\ i' = 0
  /\ phase' = "adding"
  /\ UNCHANGED <<resource_table, reserved, n, j, ret, route>>

ifnum == j % (IFNUM_RESERVED + 1)

(* The entry at hand, and the three tests it must pass. *)
resid == listed[j][i + 1]

(* Mutant: a resource that is taken can be taken over. *)
Acceptable_NoClashTest(x) ==
  /\ x < RESOURCE_TABLE_MAX
  /\ x \notin reserved

Acceptable(x) ==
  /\ x < RESOURCE_TABLE_MAX
  /\ x \notin reserved
  /\ resource_table[x] = IFNUM_NONE

AddEntry ==
  /\ phase = "adding"
  /\ ifnum # IFNUM_NONE
  /\ i < Len(listed[j])
  /\ Acceptable(resid)
  /\ resource_table' = [resource_table EXCEPT ![resid] = ifnum]
  /\ i' = i + 1
  /\ UNCHANGED <<reserved, phase, n, j, ret, listed, route>>

(* Mutants: a rejected answer is asked for again; a rejected answer is     *)
(* rolled back by freeing what it names.                                   *)
AddFails_AsksAgain ==
  /\ phase = "adding"
  /\ \/ ifnum = IFNUM_NONE
     \/ i < Len(listed[j]) /\ ~Acceptable(resid)
  /\ ret' = CONTROL_REGISTRATION_FAILED
  /\ phase' = "calling"
  /\ UNCHANGED <<resource_table, reserved, n, j, i, listed, route>>

AddFails_RollsBack ==
  /\ phase = "adding"
  /\ i < Len(listed[j])
  /\ ~Acceptable(resid)
  /\ resource_table' = [x \in Resource |-> IF \E m \in 1 .. (i + 1) : listed[j][m] = x
                                          THEN IFNUM_NONE ELSE resource_table[x]]
  /\ ret' = CONTROL_REGISTRATION_FAILED
  /\ j' = j + 1
  /\ phase' = "calling"
  /\ UNCHANGED <<reserved, n, i, listed, route>>

(* resource_table_add gives up; what it entered before stays entered. *)
AddFails ==
  /\ phase = "adding"
  /\ \/ ifnum = IFNUM_NONE
     \/ i < Len(listed[j]) /\ ~Acceptable(resid)
  /\ ret' = CONTROL_REGISTRATION_FAILED
  /\ j' = j + 1
  /\ phase' = "calling"
  /\ UNCHANGED <<resource_table, reserved, n, i, listed, route>>

(* Mutant: the result of control_register_resources is the last one. *)
AddReturns_LastWins ==
  /\ phase = "adding"
  /\ ifnum # IFNUM_NONE
  /\ i = Len(listed[j])
  /\ ret' = CONTROL_SUCCESS
  /\ j' = j + 1
  /\ phase' = "calling"
  /\ UNCHANGED <<resource_table, reserved, n, i, listed, route>>

AddReturns ==
  /\ phase = "adding"
  /\ ifnum # IFNUM_NONE
  /\ i = Len(listed[j])
  /\ j' = j + 1
  /\ phase' = "calling"
  /\ UNCHANGED <<resource_table, reserved, n, i, ret, listed, route>>

RegisterReturns ==
  /\ phase = "calling"
  /\ j = n
  /\ phase' = "serving"
  /\ UNCHANGED <<resource_table, reserved, n, j, i, ret, listed, route>>

(* A transport looks up the resource id of a command. *)
Search(x) ==
  /\ phase = "serving"
  /\ route' = [resid |-> {x},
               ifnum |-> resource_table_search(resource_table, reserved, x)]
  /\ UNCHANGED <<resource_table, reserved, phase, n, j, i, ret, listed>>

-----------------------------------------------------------------------------

Registration ==
  \/ \E list \in Lists : register_resources(list)
  \/ AddEntry \/ AddFails \/ AddReturns
  \/ RegisterReturns

Next ==
  \/ control_init
  \/ \E len \in 0 .. MAX_INTERFACES : control_register_resources(len)
  \/ Registration
  \/ \E x \in Byte : Search(x)

Spec == Init /\ [][Next]_vars

(* The transport task runs on, and every application task gets to its      *)
(* select, so the call of register_resources is answered.                  *)
FairSpec == Spec /\ WF_vars(Registration)

-----------------------------------------------------------------------------
(* Type invariant of the start-up. *)
TypeOK ==
  /\ resource_table \in ResTable
  /\ reserved \in {{}, {CONTROL_SPECIAL_RESID}}
  /\ phase \in Phase
  /\ n \in 0 .. MAX_INTERFACES
  /\ j \in 0 .. n
  /\ i \in 0 .. MAX_RESOURCES_PER_INTERFACE
  /\ ret \in {CONTROL_SUCCESS, CONTROL_REGISTRATION_FAILED}
  /\ listed \in [Interface -> Lists]
  /\ route \in [resid : SUBSET Byte, ifnum : SUBSET IfNum]
  /\ phase = "adding" => j < n /\ i <= Len(listed[j])
  /\ phase # "boot" => reserved = {CONTROL_SPECIAL_RESID}

(* Positions in the answers of the tasks, and the order they are entered.  *)
Positions == {p \in Interface \X (1 .. MAX_RESOURCES_PER_INTERFACE) :
                p[2] <= Len(listed[p[1]])}
At(p)     == listed[p[1]][p[2]]

(* No two answers, nor two entries of one answer, name the same resource,  *)
(* and none names a resource or comes over an interface that cannot be     *)
(* used: the registrations a correct application makes.                    *)
Clean ==
  /\ \A p \in Positions : /\ At(p) # CONTROL_SPECIAL_RESID
                          /\ At(p) < RESOURCE_TABLE_MAX
  /\ \A p, q \in Positions : At(p) = At(q) => p = q
  /\ n <= IFNUM_RESERVED

(* A lookup is answered with an interface only if the task behind that     *)
(* very interface listed the resource, and the special resource is the     *)
(* only one answered with the reserved number: no command reaches a task   *)
(* that did not ask for it, also after a failed registration left a part   *)
(* of the answers in the table, and after a second control_init.           *)
RoutesToClaimant ==
  \A x \in route.resid : \A k \in route.ifnum :
    IF k = IFNUM_RESERVED
    THEN x = CONTROL_SPECIAL_RESID
    ELSE k < n /\ \E m \in 1 .. Len(listed[k]) : listed[k][m] = x

(* control_register_resources reports success for the registrations a      *)
(* correct application makes and for no other: a clash between any two     *)
(* tasks, however far apart their calls, is not lost on the way to the     *)
(* result.                                                                 *)
VerdictExact ==
  phase = "serving" => (ret = CONTROL_SUCCESS <=> Clean)

(* After a success every resource any task listed is found, at its task. *)
SuccessRoutesAll ==
  phase = "serving" /\ ret = CONTROL_SUCCESS =>
    \A k \in Interface : \A m \in 1 .. Len(listed[k]) :
      resource_table_search(resource_table, reserved, listed[k][m]) = {k}

(* The call of control_register_resources returns, whatever was rejected. *)
RegistrationReturns == phase = "calling" ~> phase = "serving"

(* The table is a registry: first come first served, in the order of the   *)
(* interface array, and nobody loses what it holds before control_init.    *)
Reg == INSTANCE Registry WITH
  Barred <- {CONTROL_SPECIAL_RESID},
  Owners <- 0 .. (IFNUM_RESERVED - 1),
  None   <- IFNUM_NONE,
  owner  <- resource_table,
  turn   <- IF phase = "ready" THEN 0 ELSE j,
  open   <- phase \in {"ready", "calling", "adding"}

ImplementsRegistry == Reg!Spec
=============================================================================
