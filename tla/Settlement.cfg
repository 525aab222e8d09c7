SPECIFICATION SettlementSpec
CONSTANTS
  Requests = {r1, r2}
  Recorders = {c1, c2}
  Customer = customer
  Providers = {p1, p2}
  BookingRow = booking
  Assignments = {a1, a2}
  Schedules = {s1, s2, s3}
  None = none
INVARIANTS
  ConfirmedByTheOtherSide
  DateNamesConfirmedSchedule
  SettlesCompletedWork
PROPERTIES
  ImplementsLifecycle
  DecisionsAreFresh
  OnlyDatesChangeAfterTerminal
SYMMETRY Sym
\* A closed and settled booking takes no further request.
CHECK_DEADLOCK FALSE
