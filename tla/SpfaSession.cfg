SPECIFICATION FairSpec
CONSTANTS
  Photos = {p1, p2}
  Client = client
  Nobody = nobody
  MaxRetries <- MCMaxRetries
  BlockThreshold <- MCBlockThreshold
  Window <- MCWindow
  Interval <- MCInterval
  Cooldown <- MCCooldown
  MaxStatusHistory <- MCMaxStatusHistory
  RotationAttempts <- MCRotationAttempts
INVARIANTS TypeOK AvitoQuiet WorkerConfined FreshSession SendBudget
PROPERTIES WindowNotExtended ImplementsAccess CallReturns
CHECK_DEADLOCK FALSE
