------------------------------ MODULE Simulation -------------------------------
(***************************************************************************)
(* The flight school simulation (simulation.service.ts) and the mock       *)
(* trigger (mock-trigger.service.ts) of one operator.  The API keeps one   *)
(* map entry per operator with the handle of its timer; every tick of the  *)
(* timer is an event that runs by itself, a statement at a time, and ticks *)
(* do not wait for each other.  fireEvent swallows what an event throws.   *)
(* POST /insights/refresh writes the flight hours of the same insights     *)
(* anew; what else it writes into them is in Insights.                     *)
(***************************************************************************)
EXTENDS Integers, Sequences

CONSTANTS
  Starts,        \* calls of POST /simulation/start
  Events,        \* events there can be: bound on ticks and calls of the mock trigger
  Students,      \* active ones
  FlightHours,   \* hours of a simulated flight
  Stops,         \* bound on calls of POST /simulation/stop
  Refreshes,     \* calls of POST /insights/refresh
  NoStudent

VARIABLES
  state,         \* simulations.get(operator): {} or one record
  timers,        \* the intervals that tick, named by the start that set them
  start,         \* where a start is
  raced,         \* starts that overlapped
  stopped,       \* calls of stop so far
  kind, about, hours,  \* an event: its type, student and flight hours
  steps,         \* what an event has still to do
  read,          \* students.totalFlightHours as an event has read it
  counted,       \* the timer whose state an event will count in
  flightHours,   \* students.totalFlightHours
  insights,      \* student_insights: rows with their hours
  refreshAt,     \* where a refresh is
  selected,      \* students.totalFlightHours as a refresh has read it
  flown,         \* history: hours of the completions that were written
  landed,        \* history: students whose hours were written since
                 \* a refresh has read them
  overlapped     \* history: students with two completions at a time, or one
                 \* that failed

tables == <<flightHours, insights, flown, landed>>
refresh == <<refreshAt, selected>>
event == <<kind, about, hours, steps, read, counted, overlapped>>
vars == <<state, timers, start, raced, stopped, event, refresh, tables>>

Kinds == {"cancellation", "weather", "completion", "no_show", "maintenance", "instructor_out"}

\* Rows of student_insights, a student's each, and whose (late, history) hours
\* were out of date when they were inserted.
Rows(by, of, late) ==
  {[by |-> by, student |-> s, hours |-> of[s], late |-> s \in late] : s \in Students}

Init ==
  /\ state = {}
  /\ timers = {}
  /\ start = [s \in Starts |-> "idle"]
  /\ raced = {}
  /\ stopped = 0
  /\ kind = [e \in Events |-> "none"]
  /\ about = [e \in Events |-> NoStudent]
  /\ hours = [e \in Events |-> 0]
  /\ steps = [e \in Events |-> <<>>]
  /\ read = [e \in Events |-> 0]
  /\ counted = [e \in Events |-> {}]
  /\ flightHours = [s \in Students |-> 0]
  /\ insights \in {{}, Rows("earlier", [s \in Students |-> 0], {})}
  /\ refreshAt = [r \in Refreshes |-> "idle"]
  /\ selected = [r \in Refreshes |-> [s \in Students |-> 0]]
  /\ flown = [s \in Students |-> 0]
  /\ landed = [r \in Refreshes |-> {}]
  /\ overlapped = {}

--------------------------------------------------------------------------------
(* Events. *)

\* The statements of an event once it has loaded the operator's data: those of
\* a completion one by one, of the others a step for what a function inserts
\* and enqueues.  No event reads these rows: where a function throws halfway
\* it is here as if it had thrown before them.
Program(type) ==
  CASE type = "completion" -> <<"reservation", "hours", "insights", "audit">>
    [] type \in {"cancellation", "no_show"} -> <<type, "waitlist">>
    [] OTHER -> <<type>>

Running(e) == steps[e] # <<>>
Fresh(e) == kind[e] = "none"
CompletionsOf(s) == {e \in Events : kind[e] = "completion" /\ about[e] = s /\ Running(e)}

\* An event picks its type and loads the operator's data.  The student it
\* picks matters when the event writes flight hours.
Fire(e, type, timer) ==
  /\ Fresh(e)
  /\ IF type # "completion" THEN UNCHANGED <<about, hours, read, overlapped>>
     ELSE \E s \in Students, h \in FlightHours :
            /\ about' = [about EXCEPT ![e] = s]
            /\ hours' = [hours EXCEPT ![e] = h]
            /\ read' = [read EXCEPT ![e] = flightHours[s]]
            /\ overlapped' = overlapped \cup (IF CompletionsOf(s) # {} THEN {s} ELSE {})
  /\ steps' = [steps EXCEPT ![e] = Program(type)]
  /\ kind' = [kind EXCEPT ![e] = type]
  /\ counted' = [counted EXCEPT ![e] = timer]

Tick(e) ==
  /\ timers # {}
  /\ \E type \in Kinds : Fire(e, type, {s.timer : s \in state})
  /\ UNCHANGED <<state, timers, start, raced, stopped, refresh, tables>>

MockTrigger(e) ==
  /\ Fire(e, "trigger", {})
  /\ UNCHANGED <<state, timers, start, raced, stopped, refresh, tables>>

\* What an event knew is gone when it ends.
Leave(e, ends) ==
  /\ kind' = [kind EXCEPT ![e] = IF ends THEN "done" ELSE @]
  /\ about' = [about EXCEPT ![e] = IF ends THEN NoStudent ELSE @]
  /\ hours' = [hours EXCEPT ![e] = IF ends THEN 0 ELSE @]
  /\ read' = [read EXCEPT ![e] = IF ends THEN 0 ELSE @]
  /\ counted' = [counted EXCEPT ![e] = IF ends THEN {} ELSE @]

\* One statement of an event.  The last one of a tick counts it, in the state
\* the operator had when the event began.
Step(e, statement) ==
  /\ Running(e) /\ Head(steps[e]) = statement
  /\ steps' = [steps EXCEPT ![e] = Tail(@)]
  /\ Leave(e, Len(steps[e]) = 1)
  /\ state' = {IF Len(steps[e]) = 1 /\ s.timer \in counted[e]
                THEN [s EXCEPT !.count = @ + 1] ELSE s : s \in state}
  /\ UNCHANGED <<timers, start, raced, stopped, overlapped, refresh>>

Inserts(e, statement) == Step(e, statement) /\ UNCHANGED tables

Reserve(e)          == Inserts(e, "reservation")
Cancel(e)           == Inserts(e, "cancellation")
OfferSlot(e)        == Inserts(e, "waitlist")
DisruptByWeather(e) == Inserts(e, "weather")
MissFlight(e)       == Inserts(e, "no_show")
GroundAircraft(e)   == Inserts(e, "maintenance")
InstructorOut(e)    == Inserts(e, "instructor_out")
OfferTomorrow(e)    == Inserts(e, "trigger")
Audit(e)            == Inserts(e, "audit")

InsertRows(e) ==
  \/ Reserve(e) \/ Cancel(e) \/ OfferSlot(e) \/ DisruptByWeather(e) \/ MissFlight(e)
  \/ GroundAircraft(e) \/ InstructorOut(e) \/ OfferTomorrow(e) \/ Audit(e)

\* The hours read at the beginning plus those of the flight.
UpdateHours(e) ==
  /\ Step(e, "hours")
  /\ flightHours' = [flightHours EXCEPT ![about[e]] = read[e] + hours[e]]
  /\ flown' = [flown EXCEPT ![about[e]] = @ + hours[e]]
  /\ landed' = [r \in Refreshes |-> IF refreshAt[r] = "insert" THEN landed[r] \cup {about[e]}
                                    ELSE landed[r]]
  /\ UNCHANGED insights

\* The rows of the student, if there are any, get these hours.
SetHours(s, h) ==
  insights' = {IF row.student = s THEN [row EXCEPT !.hours = h, !.late = FALSE] ELSE row :
                 row \in insights}

\* A bug: the insights keep the hours from before the flight.
UpdateInsightsBefore(e) ==
  /\ Step(e, "insights")
  /\ SetHours(about[e], read[e])
  /\ UNCHANGED <<flightHours, flown, landed>>

UpdateInsights(e) ==
  /\ Step(e, "insights")
  /\ SetHours(about[e], read[e] + hours[e])
  /\ UNCHANGED <<flightHours, flown, landed>>

\* A statement throws: what is written stays, the rest is not done or counted.
FailEvent(e) ==
  /\ Running(e)
  /\ steps' = [steps EXCEPT ![e] = <<>>]
  /\ overlapped' = overlapped \cup (IF kind[e] = "completion" THEN {about[e]} ELSE {})
  /\ Leave(e, TRUE)
  /\ UNCHANGED <<state, timers, start, raced, stopped, refresh, tables>>

--------------------------------------------------------------------------------
(* Start and stop. *)

\* The check for a running simulation, before the query for students.
StartSimulation(s) ==
  /\ start[s] = "idle"
  /\ start' = [start EXCEPT ![s] = IF state # {} THEN "already running" ELSE "validate"]
  /\ raced' = raced \cup (IF state = {} /\ \E o \in Starts : start[o] = "validate"
                          THEN {s} \cup {o \in Starts : start[o] = "validate"} ELSE {})
  /\ UNCHANGED <<state, timers, stopped, event, refresh, tables>>

\* A bug: the timer is set before the operator's data is validated.
ValidateLate(s) ==
  /\ start[s] = "validate"
  /\ timers' = timers \cup {s}
  /\ \/ start' = [start EXCEPT ![s] = "failed"] /\ UNCHANGED state
     \/ /\ state' = {[timer |-> s, count |-> 0]}
        /\ start' = [start EXCEPT ![s] = "started"]
  /\ UNCHANGED <<raced, stopped, event, refresh, tables>>

\* No students, or the query fails: nothing is set.  Otherwise a timer and,
\* in place of what is there, the state with its handle.
Validate(s) ==
  /\ start[s] = "validate"
  /\ \/ start' = [start EXCEPT ![s] = "failed"] /\ UNCHANGED <<state, timers>>
     \/ /\ timers' = timers \cup {s}
        /\ state' = {[timer |-> s, count |-> 0]}
        /\ start' = [start EXCEPT ![s] = "started"]
  /\ UNCHANGED <<raced, stopped, event, refresh, tables>>

\* The first event does not wait for the timer; it counts in the state that the
\* start has just set, and the start waits for it.
FirstEvent(s, e) ==
  /\ start[s] = "started"
  /\ \E type \in Kinds : Fire(e, type, {s})
  /\ start' = [start EXCEPT ![s] = "answered"]
  /\ UNCHANGED <<state, timers, raced, stopped, refresh, tables>>

Stop ==
  /\ stopped < Stops
  /\ stopped' = stopped + 1
  /\ timers' = timers \ {s.timer : s \in state}
  /\ state' = {}
  /\ UNCHANGED <<start, raced, event, refresh, tables>>

--------------------------------------------------------------------------------
(* refreshInsights, from the first statement that concerns the hours. *)

DeleteInsights(r) ==
  /\ refreshAt[r] = "idle"
  /\ refreshAt' = [refreshAt EXCEPT ![r] = "select"]
  /\ insights' = {}
  /\ UNCHANGED <<state, timers, start, raced, stopped, event, selected, flightHours, flown,
                 landed>>

SelectStudents(r) ==
  /\ refreshAt[r] = "select"
  /\ refreshAt' = [refreshAt EXCEPT ![r] = "insert"]
  /\ selected' = [selected EXCEPT ![r] = flightHours]
  /\ UNCHANGED <<state, timers, start, raced, stopped, event, tables>>

\* A completion has written the hours of s and is yet to update the insights.
Updating(s) == \E e \in CompletionsOf(s) : Head(steps[e]) = "insights"

\* What a refresh has read is gone when it ends.
EndRefresh(r, end) ==
  /\ refreshAt' = [refreshAt EXCEPT ![r] = end]
  /\ selected' = [selected EXCEPT ![r] = [s \in Students |-> 0]]
  /\ landed' = [landed EXCEPT ![r] = {}]
  /\ UNCHANGED <<state, timers, start, raced, stopped, event, flightHours, flown>>

InsertInsights(r) ==
  /\ refreshAt[r] = "insert"
  /\ insights' = insights \cup Rows(r, selected[r], {s \in landed[r] : ~Updating(s)})
  /\ EndRefresh(r, "done")

\* A statement throws: the rows are gone.
FailRefresh(r) ==
  /\ refreshAt[r] \in {"select", "insert"}
  /\ EndRefresh(r, "failed")
  /\ UNCHANGED insights

Next ==
  \/ \E e \in Events :
       \/ Tick(e) \/ MockTrigger(e) \/ InsertRows(e) \/ UpdateHours(e) \/ UpdateInsights(e)
       \/ FailEvent(e)
       \/ \E s \in Starts : FirstEvent(s, e)
  \/ \E s \in Starts : StartSimulation(s) \/ Validate(s)
  \/ Stop
  \/ \E r \in Refreshes :
       DeleteInsights(r) \/ SelectStudents(r) \/ InsertInsights(r) \/ FailRefresh(r)

Spec == Init /\ [][Next]_vars

--------------------------------------------------------------------------------
\* A timer that ticks is the one that stop would clear, unless it was set by
\* one of two starts that overlapped (both pass the check before either sets
\* the map entry, and the first timer's handle is lost).
TimersCanBeStopped ==
  \A t \in timers : t \in raced \/ t \in {s.timer : s \in state}

\* A student's hours are the hours of all completed flights, unless two
\* completions of the student overlapped (both add to the hours they read first)
\* or one failed.  Once no completion is under way the rows of the insights say
\* the same, but for those a refresh inserted with hours it had read before a
\* completion came that was through with them by then.
HoursAddUp ==
  \A s \in Students \ overlapped :
    /\ flightHours[s] = flown[s]
    /\ CompletionsOf(s) = {} =>
         \A row \in insights : row.student = s => row.late \/ row.hours = flown[s]
================================================================================
