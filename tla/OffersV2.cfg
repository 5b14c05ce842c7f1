SPECIFICATION Spec
CONSTANTS
  Off = Off
  i1 = i1  i2 = i2  s1 = s1  s2 = s2  a1 = a1  a2 = a2  g1 = g1  j1 = j1  st1 = st1  st2 = st2
  UtcAhead = 480
  NoOne = NoOne
  NoActivity = NoActivity
  NoStudent = NoStudent
  NOW = 480
  Instructors = {i1, i2}
  Students = {s1, s2}
  Aircraft <- MCAircraft
  UserCalendars <- MCUserCalendars
  Calendars <- MCCalendars
  ServerAheads = {0, 480}
  KnownEvents <- MCKnownEvents
  NewEvents <- MCNewEvents
  Jobs = {}
  TopCandidates = 1
  Twilight <- MCTwilight
  Requests = {r1}
  Asks <- MCAsks
  Staff <- MCStaff
  Fleet <- MCFleet
  StaffCalendars <- MCStaffCalendars
  Booked <- MCBooked
  Bookable <- MCBookable
  Horizon = 2
  MaxSlots = 3
  MaxResults = 3
  Clocks = {0, 480}
  Dawn = 400
  Dusk = 1080
  Sugg = {s1, s2}
  Proposal <- MCProposal
  GroupOf <- MCGroupOf
  WorkerJobs = {j1}
  JobFor <- MCJobFor
  Sweeps = {w1}
  Toggles = {t1}
  DayReservations = {}
  PolicyRows <- MCPolicyRows
  MaxAttempts = 2
  MaxEdits = 1
CHECK_DEADLOCK FALSE
INVARIANT OptionsShownAsStored
