SPECIFICATION FairSpec
CONSTANTS
  e1 = e1  s1 = s1  o1 = o1
  Students = {s1}  Enrollments = {e1}  StudentOf <- OneEnrollment
  Outreach = {o1}  NoOne = NoOne
  MaxLessons = 2  Slots = {t1, t2}  MaxFaults = 2
INVARIANTS RepeatsAreRetries
PROPERTY NeedIsDetected
