SPECIFICATION Spec
CONSTANTS
  READ_BIT = 8
  CONTROL_VERSION = 3
  RESOURCE_TABLE_MAX = 3
  IFNUM_RESERVED = 2
  CONTROL_SPECIAL_RESID = 0
  resource_table <- Table
  USB_TRANSACTION_MAX_BYTES = 2
  EP0_MAX_REQUEST_SIZE = 1
  Resids = {0, 1, 2}
  Cmds = {0, 9}
  Lengths = {0, 1, 2, 3}
  DataBytes = {5}
  AppBytes = {7}
  AppRet = {0, 5}
  Junk = {0, 7}
INVARIANTS
  TypeOK
  SuccessMeansExecuted
  ReplyOfThisRead
  StatusOfThisWrite
