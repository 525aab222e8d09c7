SPECIFICATION SiteSpec
CONSTANTS
  Pins = {"field", "yard"}
  States = {"N", "S"}
  Districts = {"north", "south"}
  StateOf <- MCStateOf
  DistrictAt <- MCDistrictAt
  Saved = "field"
  Services = {"spray", "survey"}
  FirstService = "survey"
  BookingService = "spray"
  None = none
  MaxMoves = 3
  Spots = {x1, x2}
  Texts = {t1, t2}
  Untitled = untitled
  Nowhere = nowhere
  MaxGestures = 4
  Engineers = {e1, e2}
  Nobody = nobody
  PageSize = 1
  MaxTickets = 2
  Minimums = {1, 2}
  MaxVersions = 2
  MaxDesks = 2
  Names = {"a", "b"}
  FirstName = "a"
  FieldPins = {"field", "yard"}
  AreaOf <- MCAreaOf
  Unset = "unset"
  MaxEdits = 3
INVARIANTS
  GivenIsDrawn
  ButtonsAreGranted
  SomebodyMovesOn
  ShownIsSavedUnlessCrossed
PROPERTIES
  FillsForTheLatestMove
  KeepsTheBookingsService
  BusyEnds
  SuggestionsForTheText
CHECK_DEADLOCK FALSE
