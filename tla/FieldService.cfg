SPECIFICATION HistorySpec
CONSTANTS
  ProviderRequests = {p1, p2}
  StaffRequests = {s1, s2}
  Engineers = {e1}
  Tickets = {t1, t2}
  Documents = {d1}
  None = none
  MaxEvents = 2
INVARIANTS
  SecondTicketNeedsOverlap
  GroundedWhileOpenAlone
PROPERTIES
  TicketFollowsMachine
  LastCloseReturnsDroneUnlessPassed
SYMMETRY Sym
\* Every ticket may have been closed.
CHECK_DEADLOCK FALSE
