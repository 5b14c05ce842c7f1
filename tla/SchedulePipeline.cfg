SPECIFICATION FairSpec
CONSTANTS
  j1 = j1  j2 = j2  x1 = x1  x2 = x2  g1 = g1  g2 = g2  a1 = a1  a2 = a2
  v1 = v1  v2 = v2  Versions = {v1, v2}  Version0 = v1
  NoHash = NoHash  MaxChanges = 2
  ChangeJobs = {j1, j2}
  Cancels = {x1, x2}
  Gaps = {g1}
  Candidates = {a1}
  MaxFaults = 2
CHECK_DEADLOCK FALSE
INVARIANTS NoChangeForgotten OfferedOnce FreedIsOffered
PROPERTIES ScheduleIsServed OpeningIsServed
