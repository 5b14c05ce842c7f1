SPECIFICATION Spec
CONSTANTS
  s1 = s1  s2 = s2  s3 = s3  g1 = g1  k1 = k1  k2 = k2
  a1 = a1  a2 = a2  a3 = a3
  NoGroup = NoGroup
  Sugg = {s1}
  Discovery = {}
  GroupOf <- NoGroups
  SlotOf <- OneSlot
  Approvals = {a1}
  Declines = {}
  Bookings = {}
  Batches = {}
  Enrichments = {}
  Faults = {"db"}
CHECK_DEADLOCK FALSE
INVARIANT PendingIsUnbooked
