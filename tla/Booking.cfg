SPECIFICATION Spec
CONSTANTS
  Customer = customer
  Staff = staff
  Providers = {p1, p2}
  None = none
  Assignments = {a1, a2}
  Schedules = {s1, s2, s3, s4}
  Dates = {d1, d2}
  Quantities = {1, 2}
  Prices = {1, 2}
  MaxInt = 3
  MaxTrail = 7
INVARIANTS
  BilledAsDelivered
PROPERTIES
  ScheduledWithADate
  ClosedIsFrozen
  ImplementsLifecycle
SYMMETRY Sym
CHECK_DEADLOCK FALSE
