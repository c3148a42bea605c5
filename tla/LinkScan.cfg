SPECIFICATION FairSpec
CONSTANTS
  k1 = k1
  k2 = k2
  Keys = {k1}
  Pages = 2
  MaxEdits = 1
  MaxFailures = 1
  WithPause = TRUE
  WithRefresh = FALSE
INVARIANT
  StaleSaves
PROPERTIES
  EditReachesScan
  RoundEnds
  StopReturns
CHECK_DEADLOCK FALSE
