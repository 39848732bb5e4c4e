SPECIFICATION Spec
CONSTANTS
  READ_BIT = 8
  CONTROL_VERSION = 3
  RESOURCE_TABLE_MAX = 4
  IFNUM_RESERVED = 2
  CONTROL_SPECIAL_RESID = 0
  resource_table <- Table
  SPI_DATA_MAX_BYTES = 2
  ResidBytes = {0, 1, 2, 3}
  CmdBytes = {1, 8, 9}
  LenBytes = {0, 1, 2, 3}
  DataBytes = {0, 1, 5}
  AppBytes = {5, 7}
  AppRet = {0, 5}
  FRAME_MAX = 6
  OUT_MAX = 3
INVARIANTS
  TypeOK
  DispatchedAsSent
  OneCallPerCommand
  ExecutedIffComplete
  ReplyThenZeros
  BetweenTransactions
  StatusOfLastExecuted
CHECK_DEADLOCK FALSE
