------------------------------- MODULE MCOffers -------------------------------
(***************************************************************************)
(* How suggestions come about and what is done about them, for TLC: the    *)
(* slot search and ranking of the generation job (SlotSearch), a discovery *)
(* request or search for a time (DiscoveryRequest), enrichment and         *)
(* automatic approval (AutoApproval) and the messages (Notifications).     *)
(* A behaviour is about one of them: each module has the steps of others   *)
(* that write what it reads, and keeps its variables to itself.            *)
(***************************************************************************)
EXTENDS Constraints, Ranking, Sequences, TLC

CONSTANTS
  Off,                  \* the value of what a behaviour is not about
  \* SlotSearch
  Jobs, Instructors, Students, Aircraft, Calendars, UserCalendars, ServerAheads,
  KnownEvents, NewEvents, TopCandidates, Twilight,
  \* DiscoveryRequest
  Requests, Asks, Staff, Fleet, StaffCalendars, Booked, Bookable, Horizon, MaxSlots, Clocks,
  NOW, Dawn, Dusk, MaxResults, NoStudent,
  \* AutoApproval
  Sugg, Proposal, GroupOf, WorkerJobs, JobFor, Sweeps, Toggles, DayReservations, PolicyRows,
  \* Notifications
  MaxAttempts, MaxEdits,
  i1, i2, s1, s2, a1, a2, g1, j1, st1, st2

\* A job enriches one suggestion, for which it is added when that is created; no
\* process is two.
ASSUME EnrichmentAssumption ==
  /\ JobFor \in [WorkerJobs -> Sugg]
  /\ \A j, k \in WorkerJobs : JobFor[j] = JobFor[k] => j = k
  /\ WorkerJobs \cap Sweeps = {} /\ Toggles \cap (WorkerJobs \cup Sweeps) = {}

\* What a job is made of: durations and days are positive.
GenerationJobFields ==
  {"kind", "student", "instructor", "aircraft", "instructors", "original", "duration",
   "activity", "initialDays", "incrementDays", "maxDays", "maxSlots", "progress",
   "schedulable", "opening", "candidates"}

\* A time of availability is within a day.
IsWindow(w) == w.from \in Nat /\ w.to \in 0 .. DayLength

\* A calendar of weekly windows and overrides.
IsCalendar(c) ==
  /\ \A w \in c.weekly : IsWindow(w)
  /\ \A d \in DOMAIN c.overrides : \A w \in c.overrides[d] : IsWindow(w)

\* A list of waitlist candidates, one entry for each student.
IsWaitlist(c) ==
  /\ c \in Seq([student : Students, since : Nat, until : Nat \cup {NoFlight}, hours : Nat])
  /\ \A i, j \in DOMAIN c : c[i].student = c[j].student => i = j

\* A generation job: it knows its limits, and each student waits once.
IsJob(j) ==
  /\ DOMAIN j = GenerationJobFields
  /\ j.kind \in {"next_lesson", "reschedule", "waitlist", "scan"}
  /\ j.instructors \subseteq Instructors
  /\ j.duration \in Nat \ {0}
  /\ j.initialDays \in Nat /\ j.incrementDays \in Nat \ {0} /\ j.maxSlots \in Nat
  /\ \A e \in j.schedulable : e.duration \in Nat \ {0}
  /\ IsWaitlist(j.candidates)

\* Calendars have windows within a day; everybody searched for has one.
ASSUME SearchAssumption ==
  /\ \A j \in Jobs : IsJob(j)
  /\ \A c \in Calendars : IsCalendar(c)
  /\ \A users \in UserCalendars :
       Instructors \subseteq DOMAIN users /\ \A u \in DOMAIN users : IsCalendar(users[u])
  /\ IsFiniteSet(Instructors) /\ TopCandidates \in Nat
  /\ Aircraft \in Seq(Range(Aircraft))

\* What a visitor may ask for: for a time of dates, or a discovery flight.
IsAsk(a) ==
  /\ a.kind \in {"discovery", "find_time"}
  /\ a.duration \in Nat \ {0}
  /\ a.dates \subseteq Int /\ IsFiniteSet(a.dates)
  /\ a.kind = "find_time" => a.range \in Int \X Int

\* A calendar with its weekly windows in FSP's order.
IsStaffCalendar(c) ==
  /\ c.weekly \in Seq(Range(c.weekly)) /\ \A w \in Range(c.weekly) : IsWindow(w)
  /\ \A d \in DOMAIN c.overrides :
       IsFiniteSet(c.overrides[d]) /\ \A w \in c.overrides[d] : IsWindow(w)

\* Instructors are listed once, and bookings have times.
ASSUME DiscoveryAssumption ==
  /\ \A a \in Asks : IsAsk(a)
  /\ Staff \in Seq(Range(Staff)) /\ Fleet \in Seq(Range(Fleet))
  /\ \A m, n \in DOMAIN Staff : m < n => Staff[m] # Staff[n]
  /\ \A c \in StaffCalendars : \A i \in DOMAIN c : IsStaffCalendar(c[i])
  /\ \A x \in (UNION Booked) \cup Bookable : x.start \in Int /\ x.end \in Int
  /\ NOW \in Nat /\ Clocks \subseteq Nat /\ Horizon \in Nat
  /\ MaxSlots \in Nat /\ MaxResults \in Nat

VARIABLES
  scene,  \* the component this behaviour is about
  job, ahead, events, calendars, edited, pc, searchDays, foundSlots, unclear, queue,
  answers, offered, rejected,
  ask, clock, reservationHistory, staffCalendars, prospects, requestAt, ranges, civil,
  known, last, slots, searched, expanded, alternative, options, response, changed,
  status, rationale, flag, reservations, stage, todo, sweepAt, risk, setting, verdict,
  startedOver, approvedBy, contended,
  kind, who, reach, apiAt, mail, jobs, jobStage, message, live, handler, prefs, template,
  edits, sent, rows, emailSent, excused

Search == INSTANCE SlotSearch
Discovery == INSTANCE DiscoveryRequest WITH
  calendars <- staffCalendars, at <- requestAt, answer <- response
Enrichment == INSTANCE AutoApproval WITH pc <- stage, at <- sweepAt, answer <- risk
Notification == INSTANCE Notifications WITH at <- apiAt, stage <- jobStage

searchVars ==
  <<job, ahead, events, calendars, edited, pc, searchDays, foundSlots, unclear, queue,
    answers, offered, rejected>>
discoveryVars ==
  <<ask, clock, reservationHistory, staffCalendars, prospects, requestAt, ranges, civil,
    known, last, slots, searched, expanded, alternative, options, response, changed>>
enrichmentVars ==
  <<status, rationale, flag, reservations, stage, todo, sweepAt, risk, setting,
    verdict, startedOver, approvedBy, contended>>
notificationVars ==
  <<kind, who, reach, apiAt, mail, jobs, jobStage, message, live, handler, prefs, template,
    edits, sent, rows, emailSent, excused>>

(* SlotSearch. *)

MCAircraft == <<a1, a2>>
Window(from, to) == [from |-> from, to |-> to]
Weekly(day, from, to) == [day |-> day, from |-> from, to |-> to]

MCCalendars ==
  {[weekly |-> {Weekly(1, 600, 690)}, overrides |-> <<>>],
   [weekly |-> {Weekly(1, 600, 690), Weekly(2, 480, 600)},
    overrides |-> (1 :> {Window(660, 750)})],
   [weekly |-> {Weekly(0, 900, 960), Weekly(2, 930, 1020)}, overrides |-> (1 :> {})]}

\* The students share a calendar with one instructor and not with the other.
MCUserCalendars ==
  {c \in [{i1, i2, s1, s2} -> MCCalendars] :
     c[s1] = c[i1] /\ c[s2] = c[i1] /\ c[i1] # c[i2]}

Event(i, a, from, to) == [instructor |-> i, aircraft |-> a, start |-> from, end |-> to]
MCKnownEvents ==
  {{},
   {Event(i1, a2, 2040, 2100)},
   {Event(NoOne, a1, 1800, 4320), Event(i2, a2, 1740, 1770), Event(i2, a2, 1560, 1620)}}
MCNewEvents == {Event(i2, a1, 2070, 2130)}

Student(s, since, until, hours) ==
  [student |-> s, since |-> since, until |-> until, hours |-> hours]

Opening == [kind |-> "waitlist", student |-> s1, instructor |-> NoOne, aircraft |-> NoOne,
        instructors |-> {i1, i2}, original |-> 600, duration |-> 60, activity |-> "dual",
        initialDays |-> 1, incrementDays |-> 1, maxDays |-> 2, maxSlots |-> 3,
        progress |-> [completed |-> 0, total |-> 0, lessons |-> {}], schedulable |-> {},
        opening |-> [start |-> 2040, end |-> 2100, activity |-> "dual", located |-> TRUE],
        candidates |-> <<Student(s1, 999, NoFlight, 5), Student(s2, 48, 24, 5)>>]

Lesson(l, order, done) == [lesson |-> l, order |-> order, done |-> done]
Schedulable(l, S) == [lesson |-> l, activity |-> "dual", instructors |-> S, duration |-> 60]
Next1 == [Opening EXCEPT !.kind = "next_lesson", !.maxSlots = 3,
          !.progress = [completed |-> 1, total |-> 3,
                        lessons |-> {Lesson(1, 1, TRUE), Lesson(2, 3, FALSE), Lesson(3, 2, FALSE)}],
          !.schedulable = {Schedulable(3, {}), Schedulable(2, {i2})}]
MCJobs ==
  {Opening,
   [Opening EXCEPT !.opening = [@ EXCEPT !.activity = NoActivity, !.located = FALSE]],
   [Opening EXCEPT !.candidates = <<Student(s1, 48, 24, 60), Student(s2, 48, 24, 5)>>],
   [Opening EXCEPT !.kind = "scan"],
   [Opening EXCEPT !.kind = "reschedule", !.maxSlots = 2],
   [Opening EXCEPT !.kind = "reschedule", !.initialDays = 2, !.maxDays = 3, !.maxSlots = 5],
   Next1,
   [Next1 EXCEPT !.schedulable = {Schedulable(3, {i2})}],
   [Next1 EXCEPT !.progress.completed = 3]}

MCTwilight == [dawn |-> 400, dusk |-> 1080]

--------------------------------------------------------------------------------
(* DiscoveryRequest. *)

MCStaff == <<i1, i2>>
MCFleet == <<a1, a2>>
MCCal == {[weekly |-> <<Weekly(1, 570, 660), Weekly(1, 720, 780)>>, overrides |-> <<>>],
          [weekly |-> <<Weekly(1, 1020, 1110), Weekly(1, 540, 600), Weekly(2, 600, 660)>>,
           overrides |-> (3 :> {})],
          [weekly |-> <<Weekly(1, 540, 600)>>, overrides |-> (2 :> {Window(720, 840)})]}
MCStaffCalendars == [{i1, i2} -> MCCal] \cup {(i1 :> c) : c \in MCCal}
Reservation(s, i, a, from, to) ==
  [student |-> s, instructor |-> i, aircraft |-> a, start |-> from, end |-> to,
   completed |-> to <= NOW]
MCBookable == {Reservation(s1, i1, a1, 2010, 2070)}
MCBooked ==
  {{},
   MCBookable,
   {Reservation(NoOne, NoOne, a1, 1440, 4320), Reservation(s1, i2, a2, 3480, 3540),
    Reservation(s1, i1, a1, 360, 420)}}
Ask == [kind |-> "discovery", student |-> NoStudent, instructor |-> NoOne, aircraft |-> NoOne,
        dates |-> {}, timeOfDay |-> "anytime", duration |-> 60]
MCAsks ==
  {Ask,
   [Ask EXCEPT !.dates = {1}],
   [Ask EXCEPT !.dates = {1, 2}, !.timeOfDay = "afternoon"],
   [Ask EXCEPT !.dates = {0, 3}, !.timeOfDay = "evening"],
   [Ask EXCEPT !.dates = {2}, !.timeOfDay = "morning"],
   [kind |-> "find_time", student |-> s1, instructor |-> i2, aircraft |-> a2, dates |-> {},
    timeOfDay |-> "anytime", duration |-> 60, range |-> <<1, 2>>]}

--------------------------------------------------------------------------------
(* AutoApproval. *)

MCProposal ==
  [s \in Sugg |-> [start |-> 2400, end |-> 2460, student |-> IF s = s1 THEN st1 ELSE st2,
                   instructor |-> i1, aircraft |-> a1, activity |-> "solo"]]
MCGroupOf == [s \in Sugg |-> g1]
MCPolicyRows == {[buffer |-> 30, notice |-> 24, instructorFlights |-> 4, studentFlights |-> 1,
                  duty |-> 6, continuity |-> 5, block |-> "morning"]}
MCJobFor == [j \in WorkerJobs |-> IF j = j1 THEN s1 ELSE s2]

--------------------------------------------------------------------------------
(* A component that the behaviour is not about has no state and takes no step. *)

NoSearch ==
  /\ job = Off /\ ahead = Off /\ events = Off /\ calendars = Off /\ edited = Off /\ pc = Off
  /\ searchDays = Off /\ foundSlots = Off /\ unclear = Off /\ queue = Off /\ answers = Off
  /\ offered = Off /\ rejected = Off

NoDiscovery ==
  /\ ask = Off /\ clock = Off /\ reservationHistory = Off /\ staffCalendars = Off
  /\ prospects = Off /\ requestAt = Off /\ ranges = Off /\ civil = Off /\ known = Off
  /\ last = Off /\ slots = Off /\ searched = Off /\ expanded = Off /\ alternative = Off
  /\ options = Off /\ response = Off /\ changed = Off

NoEnrichment ==
  /\ status = Off /\ rationale = Off /\ flag = Off /\ reservations = Off
  /\ stage = Off /\ todo = Off /\ sweepAt = Off /\ risk = Off /\ setting = Off
  /\ verdict = Off /\ startedOver = Off /\ approvedBy = Off /\ contended = Off

NoNotification ==
  /\ kind = Off /\ who = Off /\ reach = Off /\ apiAt = Off /\ mail = Off /\ jobs = Off
  /\ jobStage = Off /\ message = Off /\ live = Off /\ handler = Off /\ prefs = Off
  /\ template = Off /\ edits = Off /\ sent = Off /\ rows = Off /\ emailSent = Off
  /\ excused = Off

Init ==
  \/ /\ scene = "search" /\ Search!Init /\ NoDiscovery /\ NoEnrichment /\ NoNotification
  \/ /\ scene = "discovery" /\ Discovery!Init /\ NoSearch /\ NoEnrichment /\ NoNotification
  \/ /\ scene = "enrichment" /\ Enrichment!Init /\ NoSearch /\ NoDiscovery /\ NoNotification
  \/ /\ scene = "notification" /\ Notification!Init /\ NoSearch /\ NoDiscovery
     /\ NoEnrichment

SearchStep ==
  /\ scene = "search" /\ Search!Next
  /\ UNCHANGED <<scene, discoveryVars, enrichmentVars, notificationVars>>

DiscoveryStep ==
  /\ scene = "discovery" /\ Discovery!Next
  /\ UNCHANGED <<scene, searchVars, enrichmentVars, notificationVars>>

EnrichmentStep ==
  /\ scene = "enrichment" /\ Enrichment!Next
  /\ UNCHANGED <<scene, searchVars, discoveryVars, notificationVars>>

NotificationStep ==
  /\ scene = "notification" /\ Notification!Next
  /\ UNCHANGED <<scene, searchVars, discoveryVars, enrichmentVars>>

Next ==
  \/ SearchStep
  \/ DiscoveryStep
  \/ EnrichmentStep
  \/ NotificationStep

vars == <<scene, searchVars, discoveryVars, enrichmentVars, notificationVars>>

Spec == Init /\ [][Next]_vars

--------------------------------------------------------------------------------
(* Properties.  What each promises is said in the component's module. *)

\* The windows of the progressive search leave out no free start.
SearchIsExhaustive == scene = "search" => Search!SearchIsExhaustive

\* The constraint evaluator does not reject, as unavailable, an instructor whom
\* the slot finder took from the same calendar.
FinderAndEvaluatorAgree == scene = "search" => Search!FinderAndEvaluatorAgree

\* The waitlist ranking passes no student over for one it ranks below.
NobodyPassedOver == scene = "search" => Search!NobodyPassedOver

\* findTime leaves out no free slot of a calendar whose windows are in order.
NothingFreeIsSkipped == scene = "discovery" => Discovery!NothingFreeIsSkipped

\* A discovery request offers nothing that overlaps a reservation which was
\* there all along.
OptionsWereFree == scene = "discovery" => Discovery!OptionsWereFree

\* The options of the response carry the names that belong to them.
OptionsShownAsStored == scene = "discovery" => Discovery!OptionsShownAsStored

\* The risk level that is stored with an automatic approval is the one it was
\* approved at, unless two enrichments met or the worker died after approving.
ApprovedAtShownRisk == scene = "enrichment" => Enrichment!ApprovedAtShownRisk

\* An automatic approval has passed the four layers of constraints.
AutoApprovedIsVerified == scene = "enrichment" => Enrichment!AutoApprovedIsVerified

\* The notification job sends a text message once, unless its audit of a
\* failure or its worker is lost.
TextedOnce == scene = "notification" => Notification!TextedOnce

\* A notification record that says sent stands for a message that was sent.
SentRowsWereSent == scene = "notification" => Notification!SentRowsWereSent
================================================================================
