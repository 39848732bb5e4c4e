SPECIFICATION HostSpec
CONSTANTS
  READ_BIT = 8
  CONTROL_VERSION = 3
  RESOURCE_TABLE_MAX = 4
  IFNUM_RESERVED = 2
  CONTROL_SPECIAL_RESID = 0
  resource_table <- Table
  SPI_DATA_MAX_BYTES = 5
  ResidBytes = {0, 1, 2}
  CmdBytes = {1, 9}
  LenBytes = {0, 1, 5, 9}
  DataBytes = {0, 5}
  AppBytes = {7}
  AppRet = {0, 5}
  FRAME_MAX = 8
  OUT_MAX = 8
  AHEAD = 4
INVARIANTS
  HostTypeOK
  ResultOfThisCommand
  InStep
PROPERTIES
  ImplementsControlService
CHECK_DEADLOCK FALSE
