SPECIFICATION FairBrowserSpec
CONSTANTS
  Requests = {r1, r2}
  Users = {u1}
  Tokens = {k1, k2}
  Clients = {b1}
  None = none
  Calls = {c1}
  MaxReloads = 1
INVARIANTS
  OneLiveTokenPerFamily
  SingleFlight
PROPERTIES
  EndedFamiliesStayEnded
  AccountIsDecided
  RestoreEnds
\* Once the rows run out, nobody has to do anything.
CHECK_DEADLOCK FALSE
