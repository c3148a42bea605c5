SPECIFICATION Spec
CONSTANTS
  k1 = k1
  k2 = k2
  Keys = {k1, k2}
  Pages = 1
  MaxEdits = 1
  MaxFailures = 0
  WithPause = TRUE
  WithRefresh = TRUE
SYMMETRY Symmetry
INVARIANTS
  ReturnLeavesNothing
PROPERTY
  RoundCovers
CHECK_DEADLOCK FALSE
