SPECIFICATION FairSpec
CONSTANTS
  Ads = {a1}
  Links = {l1}
  Prices = {p1}
  Recipients = {u1}
  Senders = {s1, s2}
  MaxAttempts <- MCMaxAttempts
  Lease <- MCLease
  Retry <- MCRetry
  MaxJobs <- MCMaxJobs
PROPERTY RowsSettle
