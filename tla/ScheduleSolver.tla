---------------------------- MODULE ScheduleSolver ----------------------------
(***************************************************************************)
(* findTime of the schedule solver (api/modules/solver/                    *)
(* schedule-solver.service.ts) as operators.  A solver's calendar has its  *)
(* weekly windows in the order FSP lists them, because the solver keeps,   *)
(* for each instructor, the end of the last slot it accepted and skips     *)
(* every candidate before it.  Times are minutes as in Constraints.        *)
(***************************************************************************)
EXTENDS Constraints, Ranking

CONSTANTS
  MaxResults,    \* DEFAULT_MAX_RESULTS
  NoStudent      \* the empty student id of a discovery flight

SLOT_INTERVAL_MINUTES == 30
DefaultWindow == [from |-> 420, to |-> 1080]

\* An override replaces the windows of its date, an instructor without a
\* record works from seven to six.
DayWindows(i, date, calendars) ==
  IF i \notin DOMAIN calendars THEN <<DefaultWindow>>
  ELSE IF date \in DOMAIN calendars[i].overrides THEN SetToSeq(calendars[i].overrides[date])
  ELSE LET weekly == calendars[i].weekly
       IN Kept(weekly, {w \in Range(weekly) : w.day = date % 7})

WindowStarts(date, window, duration) ==
  [k \in 1 .. (IF window.to - window.from < duration THEN 0
               ELSE 1 + (window.to - window.from - duration) \div SLOT_INTERVAL_MINUTES)
     |-> date * DayLength + window.from + (k - 1) * SLOT_INTERVAL_MINUTES]

\* generateDayCandidates: starts of slots that are still to come.
DayCandidates(i, date, duration, calendars, now) ==
  LET windows == DayWindows(i, date, calendars)
      starts  == FlattenSeq([n \in DOMAIN windows |-> WindowStarts(date, windows[n], duration)])
  IN Kept(starts, {t \in Range(starts) : t > now})

IsDaylight(slot) ==
  /\ ClockOf(slot.start) >= EARLIEST_FLIGHT_START_MINUTES
  /\ ClockOf(slot.end) <= LATEST_FLIGHT_END_MINUTES

HasResourceConflict(slot, field, resource, reservations) ==
  \E r \in reservations : Overlap(slot, r) /\ r[field] = resource

\* The preferred one first, then the last one, then the rest as they are.
Prioritized(s, preferred, last) ==
  LET first  == Range(s) \cap {preferred}
      second == (Range(s) \cap {last}) \ first
  IN FlattenSeq(<<Kept(s, first), Kept(s, second), Kept(s, Range(s) \ (first \cup second))>>)

\* getStudentLastInstructor: of the student's completed flight that ends last.
LastInstructor(student, reservations) ==
  LET own == {r \in reservations : r.student = student /\ r.completed}
  IN IF own = {} THEN {NoOne}
     ELSE {r.instructor : r \in {q \in own : \A o \in own : o.end <= q.end}}

\* scoreSlot reads the hour on the server's clock.
SlotScore(slot, query, last, ahead) ==
  50 + (IF slot.instructor # NoOne /\ slot.instructor \in {query.instructor, last} THEN 30 ELSE 0)
     + (IF query.aircraft # NoOne /\ slot.aircraft = query.aircraft THEN 10 ELSE 0)
     + (IF ClockOf(slot.start + ahead) \div 60 \in 8 .. 10 THEN 10 ELSE 0)

\* What a search is about, and what it knows.
Scope(query, instructors, aircraft, reservations, calendars, last, now, ahead) ==
  [query |-> query, reservations |-> reservations, calendars |-> calendars, last |-> last,
   now |-> now, ahead |-> ahead,
   staff |-> Prioritized(instructors, query.instructor, last),
   fleet |-> Prioritized(aircraft, query.aircraft, query.aircraft)]

\* A bug: an accepted slot keeps its instructor busy for another interval.
AcceptWithPause(state, x, scope) ==
  LET slot == [start |-> x.start, end |-> x.start + scope.query.duration, score |-> 50,
               instructor |-> x.instructor, aircraft |-> scope.fleet[1]]
  IN IF \/ x.start < state.busy[x.instructor]
        \/ HasResourceConflict(slot, "aircraft", slot.aircraft, scope.reservations)
     THEN state
     ELSE [busy  |-> [state.busy EXCEPT ![x.instructor] = slot.end + SLOT_INTERVAL_MINUTES],
           found |-> Append(state.found, slot)]

\* One candidate of one instructor: accepted with the first free aircraft
\* unless it overlaps the instructor's last slot or a known reservation.
Accept(state, x, scope) ==
  LET time == [start |-> x.start, end |-> x.start + scope.query.duration]
      free == {n \in DOMAIN scope.fleet :
                 ~HasResourceConflict(time, "aircraft", scope.fleet[n], scope.reservations)}
      craft == scope.fleet[Min(free)]
      score == SlotScore([start |-> x.start, instructor |-> x.instructor, aircraft |-> craft],
                         scope.query, scope.last, scope.ahead)
  IN IF \/ x.start < state.busy[x.instructor]
        \/ ~IsDaylight(time)
        \/ HasResourceConflict(time, "instructor", x.instructor, scope.reservations)
        \/ HasResourceConflict(time, "student", scope.query.student, scope.reservations)
        \/ free = {}
     THEN state
     ELSE [busy  |-> [state.busy EXCEPT ![x.instructor] = time.end],
           found |-> Append(state.found, [start |-> x.start, end |-> time.end, score |-> score,
                                          instructor |-> x.instructor, aircraft |-> craft])]

\* The candidates of one day: each instructor's, one instructor after the other.
DayList(date, scope) ==
  FlattenSeq([n \in DOMAIN scope.staff |->
    LET i == scope.staff[n]
        starts == DayCandidates(i, date, scope.query.duration, scope.calendars, scope.now)
    IN [k \in DOMAIN starts |-> [instructor |-> i, start |-> starts[k]]]])

\* No day is begun with three times the maximum.
SearchDay(state, date, scope) ==
  IF Len(state.found) >= 3 * MaxResults THEN state
  ELSE FoldLeft(LAMBDA s, x : Accept(s, x, scope), state, DayList(date, scope))

BetterFound(a, b) == a.score > b.score \/ (a.score = b.score /\ a.start < b.start)

\* The dates from query.from to query.to, the best MaxResults slots.
FindTime(query, instructors, aircraft, reservations, calendars, last, now, ahead) ==
  LET scope == Scope(query, instructors, aircraft, reservations, calendars, last, now, ahead)
      none  == [busy |-> [i \in Range(instructors) |-> 0], found |-> <<>>]
      dates == [n \in 1 .. (query.to - query.from + 1) |-> query.from + n - 1]
      all   == FoldLeft(LAMBDA s, d : SearchDay(s, d, scope), none, dates)
  IN UpTo(Sorted(all.found, BetterFound), MaxResults)
================================================================================
