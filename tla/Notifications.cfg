SPECIFICATION FairSpec
CONSTANTS
  MaxActs = 3
  Providers = {p1, p2}
  Customer = customer
  Tokens = {k1}
  None = none
INVARIANTS
  HoldersAreTold
  OnlyHoldersAreTold
PROPERTIES
  RecordedWithoutPush
CHECK_DEADLOCK FALSE
