SPECIFICATION HistorySpec
CONSTANTS
  Applicants = {a1}
  Reviewers = {v1, v2}
  Documents = {d1}
  None = none
  Editors = {e1, e2}
  Rows = {o1}
  Areas = {n1}
  Minimums = {1, 2}
  MaxVersions = 2
  Quantity = 1
  JobArea = n1
  Reached = TRUE
  MaxInFlight = 2
INVARIANTS
  ReviewedOnDocuments
  OneCurrentVersion

  
  
SYMMETRY Sym
CHECK_DEADLOCK FALSE
