------------------------------ MODULE Disruptions ------------------------------
(***************************************************************************)
(* Disruption detection (disruption-detector.service.ts) and flight alerts *)
(* (flight-alerts.service.ts).  A scan (POST /disruptions/scan) looks at   *)
(* the weather of every location, the hours left of every aircraft and the *)
(* day and week of every instructor; then it reads the active disruptions  *)
(* and inserts the new ones.  Scans overlap, users resolve disruptions and *)
(* alerts, the world changes, and a running simulation                     *)
(* (simulation.service.ts) inserts disruptions and alerts of its own.      *)
(***************************************************************************)
EXTENDS Integers, FiniteSets

CONSTANTS
  Scans,
  Locations, Aircraft, Instructors,
  Weathers, HoursLeft, FlightCounts,  \* what they may be
  MaxChanges,                         \* bound: changes of the world
  MaxAlerts                           \* bound: alerts the simulation raises

VARIABLES
  weather, hoursLeft, flights,  \* the world: flights today and this week
  changes,                      \* how often it has changed
  disruptions,   \* disruption_events
  phase,         \* where a scan is
  toCheck,       \* what it has still to look at
  detected,      \* what it has detected
  existing,      \* the keys of the active disruptions it has read
  together,      \* pairs of scans that ran at the same time
  alerts         \* flight_alerts: the open ones, the resolved ones

world == <<weather, hoursLeft, flights, changes>>
scan == <<phase, toCheck, detected, existing, together>>
vars == <<world, disruptions, scan, alerts>>

MAINTENANCE_WARNING_HOURS == 50
MAINTENANCE_CRITICAL_HOURS == 20
MAX_INSTRUCTOR_DAILY_FLIGHTS == 6
MAX_WEEKLY_SLOTS_PER_INSTRUCTOR == 40

Things == ({"weather"} \X Locations) \cup ({"maintenance"} \X Aircraft)
          \cup ({"instructor day", "instructor week"} \X Instructors)

Init ==
  /\ weather \in [Locations -> Weathers]
  /\ hoursLeft \in [Aircraft -> HoursLeft]
  /\ flights \in [Instructors -> FlightCounts]
  /\ changes = 0
  /\ disruptions = {}
  /\ phase = [s \in Scans |-> "idle"]
  /\ toCheck = [s \in Scans |-> {}]
  /\ detected = [s \in Scans |-> {}]
  /\ existing = [s \in Scans |-> {}]
  /\ together = {}
  /\ alerts = [open |-> 0, resolved |-> 0]

--------------------------------------------------------------------------------
(* Detection. *)

Disruption(type, about, severity, title) ==
  [type |-> type, about |-> about, severity |-> severity, title |-> title]

Weather(l) ==
  IF weather[l] \in {"IFR", "LIFR"}
  THEN {Disruption("weather", l, IF weather[l] = "LIFR" THEN "grounded" ELSE "critical",
                    <<weather[l], 0>>)}
  ELSE {}

Maintenance(a) ==
  IF hoursLeft[a] < MAINTENANCE_WARNING_HOURS
  THEN {Disruption("maintenance", a,
          IF hoursLeft[a] < MAINTENANCE_CRITICAL_HOURS THEN "critical" ELSE "warning",
          <<"hours", 0>>)}
  ELSE {}

\* The title of an instructor's disruption has the number of flights in it.
BusyDay(i) ==
  IF flights[i].today > MAX_INSTRUCTOR_DAILY_FLIGHTS
  THEN {Disruption("instructor", i, "warning", <<"today", flights[i].today>>)}
  ELSE {}

BusyWeek(i) ==
  IF 4 * flights[i].week > 3 * MAX_WEEKLY_SLOTS_PER_INSTRUCTOR
  THEN {Disruption("instructor", i, "warning", <<"week", flights[i].week>>)}
  ELSE {}

StartScan(s) ==
  /\ phase[s] = "idle"
  /\ phase' = [phase EXCEPT ![s] = "detect"]
  /\ toCheck' = [toCheck EXCEPT ![s] = Things]
  /\ together' = together \cup {{s, o} : o \in {x \in Scans : phase[x] \in {"detect", "insert"}}}
  /\ UNCHANGED <<world, disruptions, detected, existing, alerts>>

Detect(s, found) ==
  /\ detected' = [detected EXCEPT ![s] = @ \cup found]
  /\ UNCHANGED <<world, disruptions, phase, existing, together, alerts>>

\* The detectors run next to each other but share nothing: one order stands
\* for all.  A location or an aircraft for which a call fails is passed over.
Left(s, kind) == {t \in toCheck[s] : t[1] = kind}

Check(s, kind, about, found) ==
  /\ phase[s] = "detect" /\ <<kind, about>> \in toCheck[s]
  /\ kind = "maintenance" => Left(s, "weather") = {}
  /\ toCheck' = [toCheck EXCEPT ![s] = @ \ {<<kind, about>>}]
  /\ Detect(s, found)

CheckLocation(s, l) == Check(s, "weather", l, Weather(l)) \/ Check(s, "weather", l, {})
CheckAircraft(s, a) == Check(s, "maintenance", a, Maintenance(a)) \/ Check(s, "maintenance", a, {})

\* One query for the day of everybody, then one for the week.
CheckToday(s) ==
  LET day == {"instructor day"} \X Instructors IN
  /\ phase[s] = "detect" /\ day \subseteq toCheck[s] /\ Left(s, "maintenance") = {}
  /\ toCheck' = [toCheck EXCEPT ![s] = @ \ day]
  /\ Detect(s, UNION {BusyDay(i) : i \in Instructors})

CheckWeek(s) ==
  LET day  == {"instructor day"} \X Instructors
      week == {"instructor week"} \X Instructors IN
  /\ phase[s] = "detect" /\ week \subseteq toCheck[s]
  /\ day \cap toCheck[s] = {} /\ Left(s, "maintenance") = {}
  /\ toCheck' = [toCheck EXCEPT ![s] = @ \ week]
  /\ Detect(s, UNION {BusyWeek(i) : i \in Instructors})

--------------------------------------------------------------------------------
(* Deduplication and insert. *)

\* A bug: disruptions are told apart by their titles.
KeyByTitle(d) == <<d.type, d.about, d.title>>

\* Type and location, first aircraft, or instructor in the metadata.
Key(d) == <<d.type, d.about>>

ActiveKeys == {Key(d.is) : d \in disruptions}

ReadActive(s) ==
  /\ phase[s] = "detect" /\ toCheck[s] = {}
  /\ existing' = [existing EXCEPT ![s] = ActiveKeys]
  /\ phase' = [phase EXCEPT ![s] = "insert"]
  /\ UNCHANGED <<world, disruptions, toCheck, detected, together, alerts>>

EndScan(s, outcome) ==
  /\ phase' = [phase EXCEPT ![s] = outcome]
  /\ toCheck' = [toCheck EXCEPT ![s] = {}]
  /\ detected' = [detected EXCEPT ![s] = {}]
  /\ existing' = [existing EXCEPT ![s] = {}]

InsertNew(s) ==
  /\ phase[s] = "insert"
  /\ disruptions' = disruptions \cup
       {[is |-> d, by |-> s] : d \in {x \in detected[s] : Key(x) \notin existing[s]}}
  /\ EndScan(s, "done")
  /\ UNCHANGED <<world, together, alerts>>

\* A query of the scan throws and the request fails.
FailScan(s) ==
  /\ phase[s] \in {"detect", "insert"}
  /\ EndScan(s, "failed")
  /\ UNCHANGED <<world, disruptions, together, alerts>>

--------------------------------------------------------------------------------
(* The others. *)

\* resolveDisruption: only an active one.
Resolve(d) ==
  /\ d \in disruptions
  /\ disruptions' = disruptions \ {d}
  /\ UNCHANGED <<world, scan, alerts>>

\* The simulation inserts without looking; its weather is at one location, and
\* it raises an alert for maintenance.
Simulate ==
  /\ alerts.open + alerts.resolved < MaxAlerts
  /\ \E d \in {Disruption("weather", l, "warning", <<"MVFR", 0>>) : l \in Locations}
            \cup {Disruption("maintenance", a, "critical", <<"issue", 0>>) : a \in Aircraft}
            \cup {Disruption("instructor", i, "warning", <<"out", 0>>) : i \in Instructors} :
       /\ disruptions' = disruptions \cup {[is |-> d, by |-> "simulation"]}
  /\ alerts' = [alerts EXCEPT !.open = @ + 1]
  /\ UNCHANGED <<world, scan>>

\* resolveAlert: also an alert that is resolved already.
ResolveAlert ==
  /\ alerts.open > 0
  /\ alerts' = [open |-> alerts.open - 1, resolved |-> alerts.resolved + 1]
  /\ UNCHANGED <<world, disruptions, scan>>

ChangeWorld ==
  /\ changes < MaxChanges
  /\ changes' = changes + 1
  /\ \/ /\ \E l \in Locations, w \in Weathers : weather' = [weather EXCEPT ![l] = w]
        /\ UNCHANGED <<hoursLeft, flights>>
     \/ /\ \E a \in Aircraft, h \in HoursLeft : hoursLeft' = [hoursLeft EXCEPT ![a] = h]
        /\ UNCHANGED <<weather, flights>>
     \/ /\ \E i \in Instructors, n \in FlightCounts : flights' = [flights EXCEPT ![i] = n]
        /\ UNCHANGED <<weather, hoursLeft>>
  /\ UNCHANGED <<disruptions, scan, alerts>>

Next ==
  \/ \E s \in Scans :
       \/ StartScan(s) \/ CheckToday(s) \/ CheckWeek(s)
        \/ ReadActive(s) \/ InsertNew(s) \/ FailScan(s)
       \/ \E l \in Locations : CheckLocation(s, l)
       \/ \E a \in Aircraft : CheckAircraft(s, a)
  \/ \E d \in disruptions : Resolve(d)
  \/ Simulate \/ ResolveAlert \/ ChangeWorld

Spec == Init /\ [][Next]_vars

--------------------------------------------------------------------------------
\* Two active disruptions about the same thing were inserted by scans that ran
\* at the same time, or by one scan for a busy day and a busy week of an
\* instructor; only the simulation adds to what is there without looking.
DuplicatesNeedOverlap ==
  \A d, e \in {x \in disruptions : x.by # "simulation"} :
    d.is.type = e.is.type /\ d.is.about = e.is.about /\ d # e =>
      \/ {d.by, e.by} \in together
      \/ d.by = e.by /\ d.is.type = "instructor"
================================================================================
