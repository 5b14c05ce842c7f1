-------------------------------- MODULE Insights -------------------------------
(***************************************************************************)
(* The student insights of one operator (student-insights.service.ts):     *)
(* what POST /insights/refresh reads from the flights and caches in        *)
(* student_insights, while the simulation completes flights and updates    *)
(* the same rows.  A step is one query; nothing is in a transaction and no *)
(* key keeps a student from having two rows.                               *)
(***************************************************************************)
EXTENDS Integers, Sequences, FiniteSets

CONSTANTS
  Students, Instructors,
  Histories,     \* completed flights a student may have: sequences of [day, by]
  Enrollment,    \* MOCK_ENROLLMENT_DATA: lessons of students that are in it
  Refreshes,     \* calls of POST /insights/refresh
  FirstDay, LastDay,  \* bound on time; day 0 is a Monday
  MaxFlights     \* bound on a student's flights

VARIABLES
  day,
  flights,       \* completed reservations, in order of their end
  upcoming,      \* students with a reservation that lies ahead, past LastDay
  landing,       \* students whose completion has yet to update the insights
  rows,          \* student_insights
  at,            \* where a refresh is
  queries,       \* what it has still to read
  insights,      \* what it has read
  alone,         \* no other refresh has run with it
  unseen,        \* students with a completion since it began
  doubtful,      \* the last refresh to touch the rows was not alone, or failed halfway
  missed         \* students with a completion while the rows were computed

school == <<day, flights, upcoming, landing>>
refresh == <<at, queries, insights, alone, unseen>>
vars == <<school, rows, refresh, doubtful, missed>>

INACTIVE_THRESHOLD_DAYS == 14
CHECKRIDE_READY_THRESHOLD_PCT == 90
MIN_FLIGHTS_FOR_GAP_DETECTION == 3

Nothing == [inactive |-> {}, atRisk |-> {}, workload |-> {}]
Running(r) == at[r] \in {"reading", "deleted"}

Init ==
  /\ day = FirstDay
  /\ flights \in [Students -> Histories]
  /\ upcoming = {} /\ landing = {}
  /\ rows = {}
  /\ at = [r \in Refreshes |-> "idle"]
  /\ queries = [r \in Refreshes |-> {}]
  /\ insights = [r \in Refreshes |-> Nothing]
  /\ alone = [r \in Refreshes |-> TRUE]
  /\ unseen = [r \in Refreshes |-> {}]
  /\ doubtful = FALSE
  /\ missed = {}

--------------------------------------------------------------------------------
(* What the insights say of the flights. *)

FlownLately(s) == \E n \in DOMAIN flights[s] : flights[s][n].day > day - INACTIVE_THRESHOLD_DAYS

IsInactive(s) == ~FlownLately(s) /\ s \notin upcoming

IsCheckrideReady(s) ==
  /\ s \in DOMAIN Enrollment
  /\ Enrollment[s].completed * 100 >= CHECKRIDE_READY_THRESHOLD_PCT * Enrollment[s].total

Gap(s, n) == flights[s][n + 1].day - flights[s][n].day

\* Every gap between two flights is longer than the gap before.
IsAtRisk(s) ==
  /\ Len(flights[s]) >= MIN_FLIGHTS_FOR_GAP_DETECTION
  /\ \A n \in 2 .. Len(flights[s]) - 1 : Gap(s, n) > Gap(s, n - 1)

Monday == day - (day % 7)

FlightsOf(i, from) ==
  {e \in Students \X (1 .. MaxFlights) :
     /\ e[2] \in DOMAIN flights[e[1]] /\ flights[e[1]][e[2]].by = i
     /\ flights[e[1]][e[2]].day \in from .. day}

getInstructorWorkload ==
  {[instructor |-> i, flightsToday |-> Cardinality(FlightsOf(i, day)),
    flightsThisWeek |-> Cardinality(FlightsOf(i, Monday))] : i \in Instructors}

--------------------------------------------------------------------------------
(* A refresh. *)

\* getAllInsights asks for four lists at a time; two of them ask for one
\* student after the other.  The checkride list reads only the mock data.
StartRefresh(r) ==
  /\ at[r] = "idle"
  /\ at' = [at EXCEPT ![r] = "reading"]
  /\ queries' = [queries EXCEPT ![r] = ({"inactive", "at risk"} \X Students)
                                         \cup ({"workload"} \X Instructors)]
  /\ alone' = [q \in Refreshes |-> IF q = r THEN \A o \in Refreshes : ~Running(o)
                                   ELSE alone[q] /\ ~Running(q)]
  /\ UNCHANGED <<school, rows, insights, unseen, doubtful, missed>>

ReadStudent(r) ==
  \E s \in Students :
    \/ /\ <<"inactive", s>> \in queries[r]
       /\ queries' = [queries EXCEPT ![r] = @ \ {<<"inactive", s>>}]
       /\ insights' = [insights EXCEPT ![r].inactive = IF IsInactive(s) THEN @ \cup {s} ELSE @]
       /\ UNCHANGED <<school, rows, at, alone, unseen, doubtful, missed>>
    \/ /\ <<"at risk", s>> \in queries[r]
       /\ queries' = [queries EXCEPT ![r] = @ \ {<<"at risk", s>>}]
       /\ insights' = [insights EXCEPT ![r].atRisk = IF IsAtRisk(s) THEN @ \cup {s} ELSE @]
       /\ UNCHANGED <<school, rows, at, alone, unseen, doubtful, missed>>

ReadInstructor(r) ==
  \E i \in Instructors :
    /\ <<"workload", i>> \in queries[r]
    /\ queries' = [queries EXCEPT ![r] = @ \ {<<"workload", i>>}]
    /\ insights' = [insights EXCEPT ![r].workload = @ \cup
                      {w \in getInstructorWorkload : w.instructor = i}]
    /\ UNCHANGED <<school, rows, at, alone, unseen, doubtful, missed>>

Deleted(r) ==
  /\ at[r] = "reading" /\ queries[r] = {}
  /\ at' = [at EXCEPT ![r] = "deleted"]
  /\ UNCHANGED <<school, queries, insights, alone, unseen, doubtful, missed>>

\* A bug: the old rows stay.
AppendRows(r) == Deleted(r) /\ UNCHANGED rows

DeleteRows(r) == Deleted(r) /\ rows' = {}

Leave(r, end) ==
  /\ at' = [at EXCEPT ![r] = end]
  /\ queries' = [queries EXCEPT ![r] = {}]
  /\ insights' = [insights EXCEPT ![r] = Nothing]
  /\ unseen' = [unseen EXCEPT ![r] = {}]
  /\ alone' = [alone EXCEPT ![r] = TRUE]
  /\ UNCHANGED school

InsertRows(r) ==
  /\ at[r] = "deleted"
  /\ rows' = rows \cup {[by |-> r, student |-> s,
                         isInactive |-> s \in insights[r].inactive,
                         isCheckrideReady |-> IsCheckrideReady(s),
                         isAtRisk |-> s \in insights[r].atRisk] : s \in Students}
  /\ doubtful' = ~alone[r]
  /\ missed' = unseen[r]
  /\ Leave(r, "done")

\* A query throws.
FailRefresh(r) ==
  /\ Running(r)
  /\ doubtful' = (doubtful \/ at[r] = "deleted" \/ ~alone[r])
  /\ Leave(r, "failed")
  /\ UNCHANGED <<rows, missed>>

--------------------------------------------------------------------------------
(* What happens meanwhile: flights, bookings and the simulation's writes. *)

Unseen(s) == unseen' = [r \in Refreshes |-> IF Running(r) THEN unseen[r] \cup {s} ELSE unseen[r]]

CompleteFlight(s, i) ==
  /\ s \notin landing /\ Len(flights[s]) < MaxFlights
  /\ flights' = [flights EXCEPT ![s] = Append(@, [day |-> day, by |-> i])]
  /\ landing' = landing \cup {s}
  /\ Unseen(s)
  /\ UNCHANGED <<day, upcoming, rows, at, queries, insights, alone, doubtful, missed>>

UpdateInsights(s) ==
  /\ s \in landing
  /\ landing' = landing \ {s}
  /\ rows' = {IF row.student = s THEN [row EXCEPT !.isInactive = FALSE] ELSE row : row \in rows}
  /\ Unseen(s)
  /\ UNCHANGED <<day, flights, upcoming, at, queries, insights, alone, doubtful, missed>>

MarkAtRisk(s) ==
  /\ rows' = {IF row.student = s THEN [row EXCEPT !.isAtRisk = TRUE] ELSE row : row \in rows}
  /\ UNCHANGED <<school, refresh, doubtful, missed>>

BookFlight(s) ==
  /\ upcoming' = upcoming \cup {s}
  /\ UNCHANGED <<day, flights, landing, rows, refresh, doubtful, missed>>

NextDay ==
  /\ day < LastDay
  /\ day' = day + 1
  /\ UNCHANGED <<flights, upcoming, landing, rows, refresh, doubtful, missed>>

Next ==
  \/ \E r \in Refreshes :
       \/ StartRefresh(r) \/ ReadStudent(r) \/ ReadInstructor(r) \/ DeleteRows(r)
       \/ InsertRows(r) \/ FailRefresh(r)
  \/ \E s \in Students :
       \/ UpdateInsights(s) \/ MarkAtRisk(s) \/ BookFlight(s)
       \/ \E i \in Instructors : CompleteFlight(s, i)
  \/ NextDay

Spec == Init /\ [][Next]_vars

--------------------------------------------------------------------------------
\* When no refresh runs, the rows that refreshes left have one row for each
\* student, and it calls inactive only students without a flight in the last
\* two weeks, unless the last refresh was not alone or failed after the delete,
\* or the student completed a flight while it ran.
RowsDescribeFlights ==
  (~doubtful /\ \A r \in Refreshes : ~Running(r)) =>
    \/ rows = {} /\ \A r \in Refreshes : at[r] # "done"
    \/ \A s \in Students :
         /\ Cardinality({row \in rows : row.student = s}) = 1
         /\ \A row \in rows : (row.student = s /\ row.isInactive) =>
              (s \in missed \cup landing \/ ~FlownLately(s))
================================================================================
