SPECIFICATION FairSpec
CONSTANTS
  READ_BIT = 8
  CONTROL_VERSION = 3
  RESOURCE_TABLE_MAX = 4
  IFNUM_RESERVED = 2
  CONTROL_SPECIAL_RESID = 0
  resource_table <- Table
  XSCOPE_UPLOAD_MAX_WORDS = 2
  Resids = {0, 1, 2}
  Cmds = {0, 9}
  Lengths = {0, 1, 3}
  DataBytes = {5}
  AppBytes = {7}
  AppRet = {0, 5}
  Junk = {0, 7}
INVARIANTS
  TypeOK
  NothingInFlight
  AnswerUnderWay
  ResultOfThisCommand
PROPERTIES
  HostReturns
  ImplementsControlService
CHECK_DEADLOCK FALSE
