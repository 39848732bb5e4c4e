------------------------------ MODULE Control ------------------------------
(***************************************************************************)
(* Vocabulary shared by every transport of lib_device_control: the result  *)
(* codes, the command codes and their read bit, the special resource, the  *)
(* lookup in the resource table and the calls that are dispatched over the *)
(* `control' interface.  Nothing here has state of its own.                *)
(*                                                                         *)
(* A byte is a number below 2 * READ_BIT, so the code's READ_BIT is 0x80;  *)
(* a model checks the same code over narrower bytes.                       *)
(***************************************************************************)
EXTENDS Integers, Sequences

CONSTANTS
  READ_BIT,               \* weight of the top bit of a byte (0x80)
  CONTROL_VERSION,        \* protocol version a device answers with (0x10)
  RESOURCE_TABLE_MAX,     \* number of entries of the resource table (256)
  IFNUM_RESERVED,         \* interface number that means "none" (255)
  CONTROL_SPECIAL_RESID   \* the resource owned by the library itself (0)

ASSUME ControlAssumption ==
  /\ READ_BIT \in Nat /\ READ_BIT >= 4
  /\ CONTROL_VERSION \in 0 .. (2 * READ_BIT - 1)
  /\ RESOURCE_TABLE_MAX \in Nat
  /\ IFNUM_RESERVED \in Nat
  /\ CONTROL_SPECIAL_RESID \in 0 .. (2 * READ_BIT - 1)

Byte == 0 .. (2 * READ_BIT - 1)

-----------------------------------------------------------------------------
(* enum control_ret_values *)

CONTROL_SUCCESS               == 0
CONTROL_REGISTRATION_FAILED   == 1
CONTROL_BAD_COMMAND           == 2
CONTROL_DATA_LENGTH_ERROR     == 3
CONTROL_OTHER_TRANSPORT_ERROR == 4
CONTROL_ERROR                 == 5

ControlRet == CONTROL_SUCCESS .. CONTROL_ERROR

-----------------------------------------------------------------------------
(* Command codes: c & 0x80 of a byte is set exactly when c >= 0x80. *)

IS_CONTROL_CMD_READ(c)   == c >= READ_BIT
CONTROL_CMD_SET_READ(c)  == IF c >= READ_BIT THEN c ELSE c + READ_BIT
CONTROL_CMD_SET_WRITE(c) == IF c >= READ_BIT THEN c - READ_BIT ELSE c

CONTROL_GET_VERSION             == CONTROL_CMD_SET_READ(0)
CONTROL_GET_LAST_COMMAND_STATUS == CONTROL_CMD_SET_READ(1)

-----------------------------------------------------------------------------
(* The resource table: entry resid is the number of the interface that     *)
(* registered resid, or IFNUM_NONE.                                        *)

IFNUM_NONE == IFNUM_RESERVED
IfNum      == 0 .. IFNUM_RESERVED
ResTable   == [0 .. (RESOURCE_TABLE_MAX - 1) -> IfNum]

(* The interface numbers a lookup can return: one, or none when the        *)
(* resource is unknown.  `reserved' is the set of reserved resource ids in *)
(* force: empty before control_init, the special resource after it.        *)
resource_table_search(table, reserved, resid) ==
  IF resid \in reserved
  THEN {IFNUM_RESERVED}
  ELSE {k \in 0 .. (IFNUM_NONE - 1) : resid < RESOURCE_TABLE_MAX /\ table[resid] = k}

-----------------------------------------------------------------------------
(* A call on the control interface, as the application task receives it,   *)
(* together with the result the task returns.                              *)

WriteCall(ifn, res, c, data, ret) ==
  [op |-> "write", ifnum |-> ifn, resid |-> res, cmd |-> c,
   payload |-> data, ret |-> ret]

ReadCall(ifn, res, c, data, ret) ==
  [op |-> "read", ifnum |-> ifn, resid |-> res, cmd |-> c,
   payload |-> data, ret |-> ret]

Call == [op : {"write", "read"}, ifnum : IfNum, resid : Byte, cmd : Byte,
         payload : Seq(Byte), ret : ControlRet]

(* special_read_command: the result, and the byte stored in payload[0]     *)
(* when the result is CONTROL_SUCCESS.  Both answers are one byte long.    *)
special_read_ret(c, len) ==
  IF c \in {CONTROL_GET_VERSION, CONTROL_GET_LAST_COMMAND_STATUS} /\ len = 1
  THEN CONTROL_SUCCESS
  ELSE CONTROL_BAD_COMMAND

special_read_byte(c, status) ==
  IF c = CONTROL_GET_VERSION THEN CONTROL_VERSION ELSE status
=============================================================================
