SPECIFICATION PagesSpec
CONSTANTS
  Customer = customer
  Staff = staff
  Providers = {p1}
  None = none
  Assignments = {a1}
  Schedules = {s1, s2}
  Dates = {d1}
  Quantities = {1}
  Prices = {1}
  MaxInt = 9
  MaxTrail = 5
  Pinned = TRUE
  MaxTabs = 2
  MaxSeeks = 1

  
  
PROPERTIES
  SettledAsShown
SYMMETRY Sym
CHECK_DEADLOCK FALSE
