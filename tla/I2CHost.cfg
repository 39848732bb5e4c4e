SPECIFICATION HostSpec
CONSTANTS
  READ_BIT = 8
  CONTROL_VERSION = 3
  RESOURCE_TABLE_MAX = 4
  IFNUM_RESERVED = 2
  CONTROL_SPECIAL_RESID = 0
  resource_table <- Table
  I2C_DATA_MAX_BYTES = 2
  ResidBytes = {0, 1, 2}
  CmdBytes = {1, 9}
  LenBytes = {0, 2, 3}
  DataBytes = {5}
  AppBytes = {7}
  AppRet = {0, 5}
  Junk = {0, 7}
  SENT_MAX = 6
  GOT_MAX = 4
  CALLS_MAX = 2
  Drivers = {"rpi", "xcore"}
INVARIANTS
  HostTypeOK
  RetryIsSafe
  WithinAnnounced
PROPERTIES
  ImplementsControlService
CHECK_DEADLOCK FALSE
VIEW HostView
