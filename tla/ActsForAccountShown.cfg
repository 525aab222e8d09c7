SPECIFICATION BrowserSpec
CONSTANTS
  Requests = {r1, r2}
  Users = {u1, u2}
  Tokens = {k1, k2, k3}
  Clients = {b1}
  None = none
  Calls = {}
  MaxReloads = 1
INVARIANT ActsForAccountShown
SYMMETRY Sym
CHECK_DEADLOCK FALSE
