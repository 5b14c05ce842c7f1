SPECIFICATION Spec
CONSTANTS
  Off = Off
  s1 = s1  s2 = s2  i1 = i1  q1 = q1  q2 = q2  o1 = o1  o2 = o2  o3 = o3
  Logins = {l1, l2}
  Seeders = {m1}
  Editors = {e1}
  DefaultFlags = {"auto_approve", "ai_rationale"}
  EnabledFlags = {"auto_approve"}
  AutoApproveFlag = "auto_approve"
  PolicyFields = {"ttl"}
  Scans = {c1, c2}
  Locations = {k1}
  Checked = {a1}
  Watched = {i1}
  Weathers = {"IFR"}
  HoursLeft = {15}
  FlightCounts <- MCFlightCounts
  MaxChanges = 1
  MaxAlerts = 1
  HourRefreshes = {r1}
  Starts = {x1, x2}
  Events = {v1, v2}
  Students = {s1, s2}
  FlightHours = {2}
  Stops = 1
  NoStudent = NoStudent
  Order <- MCOrder
  PageSize = 1
  BulkLimit = 1
  Gets = {g1, g2}
  Posts = {p1, p2}
  MaxEvents = 3
  PolicyTabs = {p1, p2}
  Fields = {"ttl", "email"}
  Values = {"default", "other"}
  Default = "default"
  Unset = "unset"
  TemplateTabs = {t1, t2}
  Texts = {"old", "new"}
  Prospects = {q1, q2}
  OptionsFor <- MCOptionsFor
  Bookings = {b1, b2}
  Flyers = {s1}
  Teachers = {i1}
  Histories <- MCHistories
  Enrollment <- MCEnrollment
  Refreshes = {r1, r2}
  FirstDay = 22
  LastDay = 23
  MaxFlights = 4
SYMMETRY MCSymmetry
CHECK_DEADLOCK FALSE
INVARIANTS
  TokenMeansProvisioned
  DuplicatesNeedOverlap
  TimersCanBeStopped
  HoursAddUp
  SelectionWasMeant
  RowsMatchFilter
  NotDecidedTwice
  CleanMeansStored
  CardTellsTheBooking
  RowsDescribeFlights
PROPERTIES
  SaveKeepsUnedited
