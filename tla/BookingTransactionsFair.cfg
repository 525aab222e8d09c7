\* assign and proposeSchedule one at a time, whatever else overlaps with them.
SPECIFICATION FairInTurnSpec
CONSTANTS
  Requests = {r1, r2}
  Customer = customer
  Providers = {p1}
  BookingRow = booking
  Assignments = {a1}
  Schedules = {s1, s2}
  None = none
INVARIANTS
  OneOpenSchedule
  DateMirrorsConfirmedSchedule
PROPERTIES
  EveryRequestEnds
\* A closed booking takes no further request.
CHECK_DEADLOCK FALSE
