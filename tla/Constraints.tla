------------------------------ MODULE Constraints ------------------------------
(***************************************************************************)
(* The four-layer constraint evaluator (core/scheduling/constraint-        *)
(* evaluator.ts) and the fixed limits of system-policies.ts, as operators. *)
(* An instant is a number of minutes on the operator's local clock, day 0  *)
(* beginning at 0; a user's calendar has weekly windows and, for some      *)
(* dates, an override: a set of one window, or of none (unavailable).      *)
(* "ahead" is how far the clock of the server process is ahead of the      *)
(* operator's: the evaluator reads hours with getHours(), in the server's  *)
(* zone, but the date of an override in UTC.                               *)
(***************************************************************************)
EXTENDS Integers, FiniteSets, FiniteSetsExt

CONSTANTS
  UtcAhead,     \* minutes UTC is ahead of the operator's clock
  NoOne,        \* no instructor, aircraft or preference
  NoActivity    \* an activity type that is missing or could not be resolved

ASSUME UtcAheadAssumption == UtcAhead \in Nat

MAX_INSTRUCTOR_DUTY_HOURS_PER_DAY == 8
MAX_STUDENT_FLIGHT_HOURS_PER_DAY == 6
MAX_STUDENT_FLIGHTS_PER_DAY == 3
MAX_INSTRUCTOR_FLIGHTS_PER_DAY == 8
EARLIEST_FLIGHT_START_MINUTES == 360
LATEST_FLIGHT_END_MINUTES == 1110
MIN_AIRCRAFT_TURNAROUND_MINUTES == 30
MIN_STUDENT_REST_BETWEEN_FLIGHTS_MINUTES == 30
MIN_INSTRUCTOR_REST_BETWEEN_FLIGHTS_MINUTES == 15
MIN_BOOKING_NOTICE_HOURS == 2
MAX_SINGLE_FLIGHT_DURATION_MINUTES == 240
MIN_SINGLE_FLIGHT_DURATION_MINUTES == 30

\* The policy of an operator that has configured none.
DEFAULT_OPERATOR_POLICY ==
  [buffer |-> 15, notice |-> 24, instructorFlights |-> 6, studentFlights |-> 3,
   duty |-> 8, continuity |-> 30, block |-> "all_day"]

DayLength == 1440
DateOf(t) == t \div DayLength
ClockOf(t) == t % DayLength
Smaller(a, b) == IF a < b THEN a ELSE b
Larger(a, b) == IF a < b THEN b ELSE a

--------------------------------------------------------------------------------
\* A proposal and a reservation are records with start, end, student,
\* instructor and aircraft; reservations also have an id.
DurationOf(x) == x.end - x.start
Overlap(a, b) == a.start < b.end /\ a.end > b.start

\* getResourceReservationsOnDay: by the day a reservation starts on.
OnDay(p, field, reservations) ==
  {r \in reservations : r[field] = p[field] /\ DateOf(r.start) = DateOf(p.start)}

MinutesOf(reservations) == MapThenSumSet(DurationOf, reservations)

\* The gap between p and r, whichever comes first, is there but too short.
TooClose(p, r, gap) ==
  \/ p.start - r.end \in 0 .. (gap - 1)
  \/ r.start - p.end \in 0 .. (gap - 1)

Rested(p, field, gap, reservations) ==
  \A r \in OnDay(p, field, reservations) : ~TooClose(p, r, gap) /\ ~Overlap(p, r)

--------------------------------------------------------------------------------
Fits(from, to, window) == from >= window.from /\ to <= window.to

\* A bug: overrides are forgotten.
IsUserAvailableWeekly(user, p, availability, ahead) ==
  /\ user \in DOMAIN availability
  /\ \E w \in availability[user].weekly :
       /\ w.day = DateOf(p.start + ahead) % 7
       /\ Fits(ClockOf(p.start + ahead), ClockOf(p.end + ahead), w)

\* isUserAvailable: a user without a record is not available, an override of
\* the (UTC) date replaces the weekly windows of the (server's) weekday.
IsUserAvailable(user, p, availability, ahead) ==
  LET calendar == availability[user]
      date == DateOf(p.start + UtcAhead)
      from == ClockOf(p.start + ahead)
      to   == ClockOf(p.end + ahead)
  IN /\ user \in DOMAIN availability
     /\ IF date \in DOMAIN calendar.overrides
        THEN \E w \in calendar.overrides[date] : Fits(from, to, w)
        ELSE \E w \in calendar.weekly :
               w.day = DateOf(p.start + ahead) % 7 /\ Fits(from, to, w)

\* Layer 1: fixed by the regulator.
Regulatory(p, reservations) ==
  LET own     == OnDay(p, "instructor", reservations)
      student == OnDay(p, "student", reservations)
  IN /\ DurationOf(p) <= MAX_SINGLE_FLIGHT_DURATION_MINUTES
     /\ DurationOf(p) >= MIN_SINGLE_FLIGHT_DURATION_MINUTES
     /\ ClockOf(p.start) >= EARLIEST_FLIGHT_START_MINUTES
     /\ ClockOf(p.end) <= LATEST_FLIGHT_END_MINUTES
     /\ p.instructor # NoOne =>
          /\ MinutesOf(own) + DurationOf(p) <= MAX_INSTRUCTOR_DUTY_HOURS_PER_DAY * 60
          /\ Cardinality(own) + 1 <= MAX_INSTRUCTOR_FLIGHTS_PER_DAY
     /\ MinutesOf(student) + DurationOf(p) <= MAX_STUDENT_FLIGHT_HOURS_PER_DAY * 60
     /\ Cardinality(student) + 1 <= MAX_STUDENT_FLIGHTS_PER_DAY

\* Layer 2: fixed by the system.
Safety(p, reservations, now) ==
  /\ p.start - now >= MIN_BOOKING_NOTICE_HOURS * 60
  /\ p.aircraft # NoOne =>
       Rested(p, "aircraft", MIN_AIRCRAFT_TURNAROUND_MINUTES, reservations)
  /\ Rested(p, "student", MIN_STUDENT_REST_BETWEEN_FLIGHTS_MINUTES, reservations)
  /\ p.instructor # NoOne =>
       Rested(p, "instructor", MIN_INSTRUCTOR_REST_BETWEEN_FLIGHTS_MINUTES, reservations)

\* The part of layer 3 that no policy changes: calendars, and an activity type.
WithinAvailability(p, availability, ahead) ==
  /\ IsUserAvailable(p.student, p, availability, ahead)
  /\ p.instructor # NoOne => IsUserAvailable(p.instructor, p, availability, ahead)
  /\ p.activity # NoActivity

\* Layer 3: the operator's policy, never looser than the system's limits.
OperatorRules(p, reservations, availability, policy, now, ahead) ==
  LET own == OnDay(p, "instructor", reservations)
  IN /\ p.start - now >= Larger(policy.notice, MIN_BOOKING_NOTICE_HOURS) * 60
     /\ p.instructor # NoOne =>
          /\ Cardinality(own) + 1
               <= Smaller(policy.instructorFlights, MAX_INSTRUCTOR_FLIGHTS_PER_DAY)
          /\ MinutesOf(own) + DurationOf(p)
               <= Smaller(policy.duty, MAX_INSTRUCTOR_DUTY_HOURS_PER_DAY) * 60
     /\ Cardinality(OnDay(p, "student", reservations)) + 1
          <= Smaller(policy.studentFlights, MAX_STUDENT_FLIGHTS_PER_DAY)
     /\ p.aircraft # NoOne =>
          \A r \in OnDay(p, "aircraft", reservations) :
            ~TooClose(p, r, Larger(policy.buffer, MIN_AIRCRAFT_TURNAROUND_MINUTES))
     /\ WithinAvailability(p, availability, ahead)

\* Layer 4: a score, never a rejection.
PreferenceScore(p, policy, preferredInstructor, preferredAircraft) ==
  LET hour == ClockOf(p.start) \div 60
      continuity == IF preferredInstructor # NoOne /\ p.instructor = preferredInstructor
                    THEN policy.continuity ELSE 0
      aircraft == IF preferredAircraft # NoOne /\ p.aircraft = preferredAircraft THEN 10 ELSE 0
      time == CASE policy.block = "morning"   /\ hour \in 7 .. 11  -> 10
                [] policy.block = "afternoon" /\ hour \in 12 .. 17 -> 10
                [] policy.block = "all_day"   /\ hour \in 8 .. 10  -> 5
                [] OTHER -> 0
  IN Smaller(50 + continuity + aircraft + time, 100)

EvaluateAllConstraints(p, reservations, availability, policy, now, ahead) ==
  LET summary == [regulatory |-> Regulatory(p, reservations),
                  safety     |-> Safety(p, reservations, now),
                  operator   |-> OperatorRules(p, reservations, availability, policy, now, ahead),
                  preferenceScore |-> PreferenceScore(p, policy, NoOne, NoOne)]
  IN [feasible |-> summary.regulatory /\ summary.safety /\ summary.operator,
      summary  |-> summary]

\* filterDaylightSlots, and the civil twilight check of the legacy evaluator.
InDaylight(p, twilight) ==
  ClockOf(p.start) >= twilight.dawn /\ ClockOf(p.end) <= twilight.dusk

\* evaluateConstraints: what the generation job asks.  It knows no
\* reservations, uses the default policy, and checks twilight if it has it.
EvaluateConstraints(p, availability, twilights, now, ahead) ==
  /\ EvaluateAllConstraints(p, {}, availability, DEFAULT_OPERATOR_POLICY, now, ahead).feasible
  /\ \A t \in twilights : InDaylight(p, t)
================================================================================
