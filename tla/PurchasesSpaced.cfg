SPECIFICATION Spec
CONSTANTS
  Photos = {p1}
  Client = client
  Nobody = nobody
  MaxRetries <- MCMaxRetries
  BlockThreshold <- MCBlockThreshold
  Window <- MCWindow
  Interval <- MCInterval
  Cooldown <- MCCooldown
  MaxStatusHistory <- MCMaxStatusHistory
  RotationAttempts <- MCRotationAttempts
PROPERTY PurchasesSpaced
CHECK_DEADLOCK FALSE
