\* Two commands, no follower, one kill, no script for the network; two ads of one link at
\* one price, two rows; one ad of two links at two prices, three rows.
SPECIFICATION Spec
CONSTANTS
  Workers = {w1, w2}
  Followers = {}
  NoFollower = NoFollower
  FixScript = FALSE
  MaxKills = 1
  Ads = {a1, a2}
  Links = {l1, l2}
  Prices = {100, 200}
  MaxRowid = 3
  CardLinks = {l1}
  CardPrices = {100}
  MaxCardRowid = 2
  SharedAds = {a1}
  Unassigned = Unassigned
  NoAd = NoAd
INVARIANTS
  EveryAdScheduled
PROPERTIES
  SubscriptionsKept
  AirplaneEnds
  RefreshReaches
CHECK_DEADLOCK FALSE
