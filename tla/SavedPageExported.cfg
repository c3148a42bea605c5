SPECIFICATION FairSpec
CONSTANTS
  k1 = k1
  k2 = k2
  Keys = {k1}
  Pages = 1
  MaxEdits = 0
  MaxFailures = 0
  WithPause = TRUE
  WithRefresh = FALSE
PROPERTY
  SavedPageExported
CHECK_DEADLOCK FALSE
