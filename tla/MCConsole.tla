------------------------------ MODULE MCConsole ------------------------------
(***************************************************************************)
(* What users do at the console and what runs beside it, for TLC: login    *)
(* and provisioning (Onboarding), the detection of disruptions             *)
(* (Disruptions), the simulation of a school's day (Simulation), the       *)
(* refresh of the insights (Insights), the approval queue (QueuePage), the *)
(* discovery page (DiscoveryPage) and the forms (PolicyForm, TemplateForm).*)
(* A behaviour is about one of them: each module has the steps of others   *)
(* that write what it reads, and keeps its variables to itself.            *)
(***************************************************************************)
EXTENDS Integers, Sequences, FiniteSets, TLC

CONSTANTS
  Off,              \* the value of what a behaviour is not about
  \* Onboarding
  Logins, Seeders, Editors, DefaultFlags, EnabledFlags, AutoApproveFlag, PolicyFields,
  \* Disruptions
  Scans, Locations, Checked, Watched, Weathers, HoursLeft, FlightCounts, MaxChanges, MaxAlerts,
  \* Simulation
  HourRefreshes, Starts, Events, Students, FlightHours, Stops, NoStudent,
  \* QueuePage
  Order, PageSize, BulkLimit, Gets, Posts, MaxEvents,
  \* PolicyForm and TemplateForm
  PolicyTabs, Fields, Values, Default, Unset, TemplateTabs, Texts,
  \* DiscoveryPage and Insights
  Prospects, OptionsFor, Bookings,
  Flyers, Teachers, Histories, Enrollment, Refreshes, FirstDay, LastDay, MaxFlights,
  s1, s2, i1, q1, q2, o1, o2, o3

\* A suggestion of a discovery flight is for one prospect.
ASSUME OptionsAssumption ==
  \A p, q \in Prospects : p # q => OptionsFor[p] \cap OptionsFor[q] = {}

\* The queue page fetches; the timer is none of its POSTs.
ASSUME QueueAssumption == Gets # {} /\ "timer" \notin Posts

\* Hours are whole numbers of their smallest unit.
ASSUME SimulationAssumption == FlightHours \subseteq Nat

\* A flight has a day, and the bound on time is one.
ASSUME InsightAssumption ==
  FirstDay \in Nat /\ Histories \subseteq Seq([day : Nat, by : Teachers])

VARIABLES
  scene,  \* the component this behaviour is about
  rowsOf, flags, policy, step, toSeed, switch, edited,
  weather, hoursLeft, flights, changes, disruptions, phase, toCheck, detected, existing,
  together, alerts,
  state, timers, start, raced, stopped, kind, about, hours, steps, read, counted,
  flightHours, insights, refreshAt, selected, flown, landed, overlapped,
  status, filters, currentPage, totalCount, suggestions, loading, selectedIds,
  actionLoadingId, bulkLoading, simRunning, get, post, events, picked, slipped, shown,
  astray, decided, repeatable, repeats,
  policyRow, form, formAt, carried, touched, basis,
  template, editState, editAt, message, outdated,
  complete, submitting, error, searching, result, confirmingId, confirmedSuggestion, booking,
  optionStatus, moved, overwritten,
  day, flightsOf, upcoming, landing, rows, at, queries, gathered, alone, unseen, doubtful, missed

Login == INSTANCE Onboarding
Disruption == INSTANCE Disruptions WITH Aircraft <- Checked, Instructors <- Watched
Simulated == INSTANCE Simulation WITH Refreshes <- HourRefreshes
Queue == INSTANCE QueuePage
Policies == INSTANCE PolicyForm WITH policy <- policyRow
Templates == INSTANCE TemplateForm
Discovery == INSTANCE DiscoveryPage
Insight == INSTANCE Insights WITH Students <- Flyers, Instructors <- Teachers,
                                  flights <- flightsOf, insights <- gathered

onboardingVars ==
  <<rowsOf, flags, policy, step, toSeed, switch, edited>>
disruptionsVars ==
  <<weather, hoursLeft, flights, changes, disruptions, phase, toCheck, detected, existing,
    together, alerts>>
simulationVars ==
  <<state, timers, start, raced, stopped, kind, about, hours, steps, read, counted,
    flightHours, insights, refreshAt, selected, flown, landed, overlapped>>
queueVars ==
  <<status, filters, currentPage, totalCount, suggestions, loading, selectedIds,
    actionLoadingId, bulkLoading, simRunning, get, post, events, picked, slipped, shown,
    astray, decided, repeatable, repeats>>
policiesVars ==
  <<policyRow, form, formAt, carried, touched, basis>>
templatesVars ==
  <<template, editState, editAt, message, outdated>>
discoveryVars ==
  <<complete, submitting, error, searching, result, confirmingId, confirmedSuggestion, booking,
    optionStatus, moved, overwritten>>
insightVars ==
  <<day, flightsOf, upcoming, landing, rows, at, queries, gathered, alone, unseen, doubtful,
    missed>>

\* An instructor's flights today and this week: at the limits and below them.
MCFlightCounts == {[today |-> 7, week |-> 30], [today |-> 8, week |-> 31]}

\* Events and starts of the simulation are alike.
MCSymmetry == Permutations(Events) \cup Permutations(Starts)

\* Two suggestions, on pages of one.
MCOrder == <<s1, s2>>

\* A search with two options and one with one.
MCOptionsFor == [p \in {q1, q2} |-> IF p = q1 THEN {o1, o2} ELSE {o3}]

\* A student without flights, and one with three whose gaps grow.
MCHistories == {<<>>, [n \in 1 .. 3 |-> [day |-> 2 * n * n - 4 * n + 3, by |-> i1]]}

MCEnrollment == [s \in {s1} |-> [completed |-> 38, total |-> 40]]

--------------------------------------------------------------------------------
(* A component that the behaviour is not about has no state and takes no step. *)

NoLogin ==
  /\ rowsOf = Off /\ flags = Off /\ policy = Off /\ step = Off /\ toSeed = Off
  /\ switch = Off /\ edited = Off

NoDisruption ==
  /\ weather = Off /\ hoursLeft = Off /\ flights = Off /\ changes = Off /\ disruptions = Off
  /\ phase = Off /\ toCheck = Off /\ detected = Off /\ existing = Off /\ together = Off
  /\ alerts = Off

NoSimulation ==
  /\ state = Off /\ timers = Off /\ start = Off /\ raced = Off /\ stopped = Off
  /\ kind = Off /\ about = Off /\ hours = Off /\ steps = Off /\ read = Off /\ counted = Off
  /\ flightHours = Off /\ insights = Off /\ refreshAt = Off /\ selected = Off
  /\ flown = Off /\ landed = Off /\ overlapped = Off

NoQueue ==
  /\ status = Off /\ filters = Off /\ currentPage = Off /\ totalCount = Off
  /\ suggestions = Off /\ loading = Off /\ selectedIds = Off /\ actionLoadingId = Off
  /\ bulkLoading = Off /\ simRunning = Off /\ get = Off /\ post = Off /\ events = Off
  /\ picked = Off /\ slipped = Off /\ shown = Off /\ astray = Off /\ decided = Off
  /\ repeatable = Off /\ repeats = Off

NoPolicies ==
  /\ policyRow = Off /\ form = Off /\ formAt = Off /\ carried = Off /\ touched = Off
  /\ basis = Off

NoTemplates ==
  /\ template = Off /\ editState = Off /\ editAt = Off /\ message = Off /\ outdated = Off

NoDiscovery ==
  /\ complete = Off /\ submitting = Off /\ error = Off /\ searching = Off /\ result = Off
  /\ confirmingId = Off /\ confirmedSuggestion = Off /\ booking = Off /\ optionStatus = Off
  /\ moved = Off /\ overwritten = Off

NoInsight ==
  /\ day = Off /\ flightsOf = Off /\ upcoming = Off /\ landing = Off /\ rows = Off /\ at = Off
  /\ queries = Off /\ gathered = Off /\ alone = Off /\ unseen = Off /\ doubtful = Off
  /\ missed = Off

Init ==
  \/ /\ scene = "onboarding" /\ Login!Init
     /\ NoDisruption /\ NoSimulation /\ NoQueue /\ NoPolicies
     /\ NoTemplates /\ NoDiscovery /\ NoInsight
  \/ /\ scene = "disruptions" /\ Disruption!Init
     /\ NoLogin /\ NoSimulation /\ NoQueue /\ NoPolicies
     /\ NoTemplates /\ NoDiscovery /\ NoInsight
  \/ /\ scene = "simulation" /\ Simulated!Init
     /\ NoLogin /\ NoDisruption /\ NoQueue /\ NoPolicies
     /\ NoTemplates /\ NoDiscovery /\ NoInsight
  \/ /\ scene = "queue" /\ Queue!Init
     /\ NoLogin /\ NoDisruption /\ NoSimulation /\ NoPolicies
     /\ NoTemplates /\ NoDiscovery /\ NoInsight
  \/ /\ scene = "policies" /\ Policies!Init
     /\ NoLogin /\ NoDisruption /\ NoSimulation /\ NoQueue
     /\ NoTemplates /\ NoDiscovery /\ NoInsight
  \/ /\ scene = "templates" /\ Templates!Init
     /\ NoLogin /\ NoDisruption /\ NoSimulation /\ NoQueue
     /\ NoPolicies /\ NoDiscovery /\ NoInsight
  \/ /\ scene = "discovery" /\ Discovery!Init
     /\ NoLogin /\ NoDisruption /\ NoSimulation /\ NoQueue
     /\ NoPolicies /\ NoTemplates /\ NoInsight
  \/ /\ scene = "insights" /\ Insight!Init
     /\ NoLogin /\ NoDisruption /\ NoSimulation /\ NoQueue
     /\ NoPolicies /\ NoTemplates /\ NoDiscovery

LoginStep ==
  /\ scene = "onboarding" /\ Login!Next
  /\ UNCHANGED <<scene, disruptionsVars, simulationVars, queueVars, policiesVars, templatesVars,
                  discoveryVars, insightVars>>

DisruptionStep ==
  /\ scene = "disruptions" /\ Disruption!Next
  /\ UNCHANGED <<scene, onboardingVars, simulationVars, queueVars, policiesVars, templatesVars,
                  discoveryVars, insightVars>>

SimulatedStep ==
  /\ scene = "simulation" /\ Simulated!Next
  /\ UNCHANGED <<scene, onboardingVars, disruptionsVars, queueVars, policiesVars, templatesVars,
                  discoveryVars, insightVars>>

QueueStep ==
  /\ scene = "queue" /\ Queue!Next
  /\ UNCHANGED <<scene, onboardingVars, disruptionsVars, simulationVars, policiesVars,
                  templatesVars, discoveryVars, insightVars>>

PoliciesStep ==
  /\ scene = "policies" /\ Policies!Next
  /\ UNCHANGED <<scene, onboardingVars, disruptionsVars, simulationVars, queueVars,
                  templatesVars, discoveryVars, insightVars>>

TemplatesStep ==
  /\ scene = "templates" /\ Templates!Next
  /\ UNCHANGED <<scene, onboardingVars, disruptionsVars, simulationVars, queueVars,
                  policiesVars, discoveryVars, insightVars>>

DiscoveryStep ==
  /\ scene = "discovery" /\ Discovery!Next
  /\ UNCHANGED <<scene, onboardingVars, disruptionsVars, simulationVars, queueVars,
                  policiesVars, templatesVars, insightVars>>

InsightStep ==
  /\ scene = "insights" /\ Insight!Next
  /\ UNCHANGED <<scene, onboardingVars, disruptionsVars, simulationVars, queueVars,
                  policiesVars, templatesVars, discoveryVars>>

Next ==
  \/ LoginStep
  \/ DisruptionStep
  \/ SimulatedStep
  \/ QueueStep
  \/ PoliciesStep
  \/ TemplatesStep
  \/ DiscoveryStep
  \/ InsightStep

vars ==
  <<scene, onboardingVars, disruptionsVars, simulationVars, queueVars, policiesVars,
    templatesVars, discoveryVars, insightVars>>

Spec == Init /\ [][Next]_vars

--------------------------------------------------------------------------------
(* Properties.  What each promises is said in the component's module. *)

\* A token is for an operator that has all its rows and flags, unless its
\* provisioning failed or still runs.
TokenMeansProvisioned == scene = "onboarding" => Login!TokenMeansProvisioned

\* Duplicate disruptions come from scans that overlapped.
DuplicatesNeedOverlap == scene = "disruptions" => Disruption!DuplicatesNeedOverlap

\* A simulation's timer can be stopped, unless two starts overlapped.
TimersCanBeStopped == scene = "simulation" => Simulated!TimersCanBeStopped

\* Flight hours and insights count every completed flight, unless completions
\* of the student overlapped or failed, or one passed a refresh by.
HoursAddUp == scene = "simulation" => Simulated!HoursAddUp

\* A bulk action sends what the user selected and can still see selected.
SelectionWasMeant == scene = "queue" => Queue!SelectionWasMeant

\* At rest the queue shows rows of the filter in use.
RowsMatchFilter == scene = "queue" => Queue!RowsMatchFilter

\* A suggestion the page has decided is not sent again.
NotDecidedTwice == scene = "queue" => Queue!NotDecidedTwice

\* Saving the policy changes no field the user left alone.
SaveKeepsUnedited ==
  [][scene = "policies" => \A t \in PolicyTabs : Policies!KeepsUnedited(t)]_<<scene, policiesVars>>

\* A template that is shown as saved is the stored one.
CleanMeansStored == scene = "templates" => Templates!CleanMeansStored

\* The card of a confirmed option is about an option that is booked, unless
\* another writer came after the booking, for the prospect it names, unless a
\* search was sent since.
CardTellsTheBooking == scene = "discovery" => Discovery!CardTellsTheBooking

\* The cached insights are one row for each student, inactive without a late
\* flight, unless refreshes overlapped, failed halfway or raced with a flight.
RowsDescribeFlights == scene = "insights" => Insight!RowsDescribeFlights
================================================================================
