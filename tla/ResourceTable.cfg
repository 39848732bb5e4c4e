SPECIFICATION FairSpec
CONSTANTS
  READ_BIT = 4
  CONTROL_VERSION = 3
  RESOURCE_TABLE_MAX = 4
  IFNUM_RESERVED = 2
  CONTROL_SPECIAL_RESID = 0
  MAX_INTERFACES = 3
  MAX_RESOURCES_PER_INTERFACE = 2
  Resids = {0, 1, 2, 3, 5}
INVARIANTS
  TypeOK
  RoutesToClaimant
  VerdictExact
  SuccessRoutesAll
PROPERTIES
  RegistrationReturns
  ImplementsRegistry
