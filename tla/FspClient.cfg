SPECIFICATION FairSpec
CONSTANTS
  c1 = c1  c2 = c2  c3 = c3
  Calls = {c1, c2, c3}
  Poller = c1
  Capacity = 3
  PerToken = 2
  Threshold = 2
  ResetTicks = 2
  MaxRetries = 1
INVARIANTS BlockedAdmitsNobody LoneWaiterGetsToken
PROPERTIES LazyRefillIsExact EveryCallAnswered Recovers
