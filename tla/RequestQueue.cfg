SPECIFICATION FairSpec
CONSTANTS
  Links = {l1, l2}
  Refreshers = {r}
  Round = round
  Nobody = nobody
  MinDelay <- MCMinDelay
  MaxDelay <- MCMaxDelay
  MaxTickets <- MCMaxTickets
INVARIANTS TypeOK SlotExclusive OneLateRefresh
PROPERTIES ImplementsSlot LinkReturns StopDrains
CHECK_DEADLOCK FALSE
