SPECIFICATION Spec
CONSTANTS
  Requests = {r1, r2}
  Customer = customer
  Providers = {p1, p2}
  BookingRow = booking
  Assignments = {a1, a2}
  Schedules = {s1, s2, s3}
  None = none
PROPERTIES
  ProviderConsents
SYMMETRY Sym
CHECK_DEADLOCK FALSE
