--------------------------- MODULE DiscoveryRequest ---------------------------
(***************************************************************************)
(* POST /discovery (createDiscoveryRequest of discovery.service.ts) and    *)
(* POST /solver/find-time, which both search with the schedule solver,     *)
(* while reservations are booked and cancelled.  A request is a process: a *)
(* step is one statement or one call of FSP, and what it read is old by    *)
(* the time it is used.  Booking an option is in SuggestionApproval.       *)
(***************************************************************************)
EXTENDS ScheduleSolver

CONSTANTS
  Requests, Asks,\* requests, and what each may ask for
  Staff, Fleet,  \* active instructors and aircraft, as the database lists them
  StaffCalendars,\* what FSP may know of their availability
  Booked,        \* sets of reservations there may be at the start
  Bookable,      \* reservations that may be made or cancelled meanwhile
  Horizon,       \* searchWindowMaxDays of the operator's policy
  MaxSlots,      \* rescheduleAlternativesCount of the operator's policy
  Clocks,        \* how far the server's clock may be ahead of the operator's
  NOW,
  Dawn, Dusk     \* civil twilight

VARIABLES
  ask,
  clock,         \* how far it is ahead
  reservationHistory,
  calendars,     \* FSP's availability, per instructor
  prospects,     \* requests that have created a prospect
  at,            \* where a request is
  ranges,        \* the date ranges it has still to search
  civil,         \* the twilight it knows: a set of at most one
  known, last,   \* the reservations and the last instructor it has read
  slots,         \* what it has found
  searched,      \* its last search: range, what was known, result
  expanded,      \* it has searched the whole window for want of a match
  alternative,   \* isAlternative
  options,       \* the suggestions it has inserted
  answer,        \* the options as the response shows them
  changed        \* reservations made or cancelled since they started

request == <<ranges, civil, known, last, slots, searched, expanded, alternative,
             options, answer>>
vars == <<ask, clock, reservationHistory, calendars, prospects, at, request, changed>>

DISCOVERY_FLIGHT_DURATION == 60

IsDiscovery(r) == ask[r].kind = "discovery"
ServerDate(t) == DateOf(t + clock)
PreferredDates(r) == {d \in ask[r].dates : d >= ServerDate(NOW)}
WholeWindow == <<ServerDate(NOW), ServerDate(NOW) + Horizon>>

\* Several preferred dates are searched one by one, one with the week after
\* it, and without any the whole window is.
SearchRanges(r) ==
  LET preferred == Ascending(PreferredDates(r))
  IN IF ~IsDiscovery(r) THEN <<ask[r].range>>
     ELSE IF preferred = <<>> THEN <<WholeWindow>>
     ELSE IF Len(preferred) = 1 THEN <<<<preferred[1], preferred[1] + 7>>>>
     ELSE [n \in DOMAIN preferred |-> <<preferred[n], preferred[n]>>]

Query(r, range) ==
  [student |-> ask[r].student, instructor |-> ask[r].instructor,
   aircraft |-> ask[r].aircraft, duration |-> ask[r].duration,
   from |-> range[1], to |-> range[2]]

Init ==
  /\ ask \in [Requests -> Asks]
  /\ clock \in Clocks
  /\ reservationHistory \in Booked
  /\ calendars \in StaffCalendars
  /\ prospects = {}
  /\ at = [r \in Requests |-> "idle"]
  /\ ranges = [r \in Requests |-> <<>>]
  /\ civil = [r \in Requests |-> {}]
  /\ known = [r \in Requests |-> {}]
  /\ last = [r \in Requests |-> NoOne]
  /\ slots = [r \in Requests |-> <<>>]
  /\ searched = [r \in Requests |-> {}]
  /\ expanded = [r \in Requests |-> FALSE]
  /\ alternative = [r \in Requests |-> FALSE]
  /\ options = [r \in Requests |-> <<>>]
  /\ answer = [r \in Requests |-> <<>>]
  /\ changed = {}

--------------------------------------------------------------------------------
(* One request. *)

\* A discovery request begins with the prospect and its audit event.
Submit(r) ==
  /\ at[r] = "idle"
  /\ IF IsDiscovery(r)
     THEN /\ prospects' = prospects \cup {r}
          /\ at' = [at EXCEPT ![r] = "resources"]
          /\ UNCHANGED ranges
     ELSE /\ ranges' = [ranges EXCEPT ![r] = SearchRanges(r)]
          /\ at' = [at EXCEPT ![r] = "load"]
          /\ UNCHANGED prospects
  /\ UNCHANGED <<ask, clock, reservationHistory, calendars, civil, known, last, slots,
                 searched, expanded, alternative, options, answer, changed>>

\* Without an active location the answer has no options; twilight is optional.
ReadResources(r) ==
  /\ at[r] = "resources"
  /\ \/ /\ at' = [at EXCEPT ![r] = "done"]
        /\ UNCHANGED <<ranges, civil>>
     \/ /\ \E t \in {{}, {[dawn |-> Dawn, dusk |-> Dusk]}} : civil' = [civil EXCEPT ![r] = t]
        /\ ranges' = [ranges EXCEPT ![r] = SearchRanges(r)]
        /\ at' = [at EXCEPT ![r] = "load"]
  /\ UNCHANGED <<ask, clock, reservationHistory, calendars, prospects, known, last, slots,
                 searched, expanded, alternative, options, answer, changed>>

\* A bug: only reservations that begin in the range.
InRangeByStart(x, range) == DateOf(x.start) \in range[1] .. range[2]

InRange(x, range) == x.start <= range[2] * DayLength + 1439 /\ x.end >= range[1] * DayLength

\* The statements of findTime before it asks FSP: the active instructors and
\* aircraft, the reservations of the range and the student's last instructor.
LoadReservations(r) ==
  /\ at[r] = "load"
  /\ known' = [known EXCEPT ![r] = {x \in reservationHistory : InRange(x, Head(ranges[r]))}]
  /\ \E i \in LastInstructor(ask[r].student, reservationHistory) : last' = [last EXCEPT ![r] = i]
  /\ at' = [at EXCEPT ![r] = "search"]
  /\ UNCHANGED <<ask, clock, reservationHistory, calendars, prospects, ranges, civil, slots,
                 searched, expanded, alternative, options, answer, changed>>

\* The rest of findTime; when FSP fails everybody has the default windows.
Search(r) ==
  /\ at[r] = "search"
  /\ \E availability \in {calendars, <<>>} :
       LET result == FindTime(Query(r, Head(ranges[r])), Staff, Fleet, known[r], availability,
                              last[r], NOW, clock)
       IN /\ slots' = [slots EXCEPT ![r] = @ \o result]
          /\ searched' = [searched EXCEPT ![r] =
               {[range |-> Head(ranges[r]), known |-> known[r], seen |-> availability,
                 result |-> result]}]
  /\ ranges' = [ranges EXCEPT ![r] = Tail(@)]
  /\ at' = [at EXCEPT ![r] = IF ranges'[r] # <<>> THEN "load"
                             ELSE IF IsDiscovery(r) THEN "select" ELSE "done"]
  /\ UNCHANGED <<ask, clock, reservationHistory, calendars, prospects, civil, known, last,
                 expanded, alternative, options, answer, changed>>

\* filterByTimeOfDay
AtTimeOfDay(slot, timeOfDay) ==
  LET hour == ClockOf(slot.start) \div 60
  IN CASE timeOfDay = "morning"   -> hour \in 6 .. 11
       [] timeOfDay = "afternoon" -> hour \in 12 .. 16
       [] timeOfDay = "evening"   -> hour \in 17 .. 20
       [] OTHER                   -> TRUE

Suitable(r) ==
  Kept(slots[r], {s \in Range(slots[r]) : /\ \A t \in civil[r] : InDaylight(s, t)
                                          /\ AtTimeOfDay(s, ask[r].timeOfDay)})

\* The first of the slots of one time, which is also the best one.
OnePerTime(found) ==
  LET first == {n \in DOMAIN found : \A m \in 1 .. (n - 1) : found[m].start # found[n].start}
      order == Ascending(first)
  IN [n \in DOMAIN order |-> found[order[n]]]

\* The suitable slots on preferred dates, or all of them as alternatives; for
\* want of any, once more in the whole window.
Select(r) ==
  LET suitable  == Suitable(r)
      preferred == Kept(suitable, {s \in Range(suitable) :
                                     ServerDate(s.start) \in PreferredDates(r)})
      matched   == IF expanded[r] \/ preferred = <<>> THEN suitable ELSE preferred
  IN /\ at[r] = "select"
     /\ IF matched = <<>> /\ PreferredDates(r) # {} /\ ~expanded[r]
        THEN /\ expanded' = [expanded EXCEPT ![r] = TRUE]
             /\ ranges' = [ranges EXCEPT ![r] = <<WholeWindow>>]
             /\ slots' = [slots EXCEPT ![r] = <<>>]
             /\ at' = [at EXCEPT ![r] = "load"]
             /\ UNCHANGED alternative
        ELSE /\ slots' = [slots EXCEPT ![r] = UpTo(matched, MaxSlots)]
             /\ alternative' = [alternative EXCEPT
                  ![r] = /\ matched # <<>>
                         /\ expanded[r] \/ (PreferredDates(r) # {} /\ preferred = <<>>)]
             /\ at' = [at EXCEPT ![r] = IF matched = <<>> THEN "done" ELSE "insert"]
             /\ UNCHANGED <<ranges, expanded>>
  /\ UNCHANGED <<ask, clock, reservationHistory, calendars, prospects, civil, known, last,
                 searched, options, answer, changed>>

InsertOptions(r) ==
  /\ at[r] = "insert"
  /\ options' = [options EXCEPT ![r] = OnePerTime(slots[r])]
  /\ at' = [at EXCEPT ![r] = "answer"]
  /\ UNCHANGED <<ask, clock, reservationHistory, calendars, prospects, ranges, civil, known, last,
                 slots, searched, expanded, alternative, answer, changed>>

\* Each inserted row with the names of the slot at the same position among
\* those found; an audit event and the answer.
Answer(r) ==
  /\ at[r] = "answer"
  /\ answer' = [answer EXCEPT ![r] =
       [n \in DOMAIN options[r] |->
          [instructor |-> options[r][n].instructor, named |-> slots[r][n].instructor]]]
  /\ at' = [at EXCEPT ![r] = "done"]
  /\ UNCHANGED <<ask, clock, reservationHistory, calendars, prospects, ranges, civil, known, last,
                 slots, searched, expanded, alternative, options, changed>>

\* A statement or a call of FSP throws; nothing that is written is undone.
Fail(r) ==
  /\ at[r] \in {"resources", "load", "insert", "answer"}
  /\ at' = [at EXCEPT ![r] = "failed"]
  /\ UNCHANGED <<ask, clock, reservationHistory, calendars, prospects, request, changed>>

--------------------------------------------------------------------------------
(* What others do meanwhile, as far as a request will still read it. *)

Change(x) ==
  /\ x \notin changed
  /\ \E r \in Requests : at[r] \in {"load", "search", "select"}
  /\ reservationHistory' = IF x \in reservationHistory THEN reservationHistory \ {x}
                           ELSE reservationHistory \cup {x}
  /\ changed' = changed \cup {x}
  /\ UNCHANGED <<ask, clock, calendars, prospects, at, request>>

Next ==
  \/ \E r \in Requests :
       \/ Submit(r) \/ ReadResources(r) \/ LoadReservations(r) \/ Search(r) \/ Select(r)
       \/ InsertOptions(r) \/ Answer(r) \/ Fail(r)
  \/ \E x \in Bookable : Change(x)

Spec == Init /\ [][Next]_vars

--------------------------------------------------------------------------------
(* Properties. *)

InOrder(windows) ==
  \A m, n \in DOMAIN windows : m < n => windows[m].to <= windows[n].from

\* A search that returns fewer slots than it may has missed no free one: each
\* candidate start in the calendars, in daylight, for which the instructor, the
\* student and an aircraft are free overlaps a slot it returned for the same
\* instructor, provided that the calendar lists its windows in order.
NothingFreeIsSkipped ==
  \A r \in Requests : \A s \in searched[r] : Len(s.result) < MaxResults =>
    \A i \in Range(Staff), d \in s.range[1] .. s.range[2] :
      InOrder(DayWindows(i, d, s.seen)) =>
        \A t \in Range(DayCandidates(i, d, ask[r].duration, s.seen, NOW)) :
          LET slot == [start |-> t, end |-> t + ask[r].duration]
          IN \/ ~IsDaylight(slot)
             \/ HasResourceConflict(slot, "instructor", i, s.known)
             \/ HasResourceConflict(slot, "student", ask[r].student, s.known)
             \/ \A a \in Range(Fleet) : HasResourceConflict(slot, "aircraft", a, s.known)
             \/ \E f \in Range(s.result) : f.instructor = i /\ Overlap(slot, f)

\* What a request offers was free all along: an option does not overlap a
\* reservation of its instructor or aircraft that was there, unchanged, since
\* before the request started, even one that began days before the search.
OptionsWereFree ==
  \A r \in Requests : \A n \in DOMAIN options[r] : \A x \in reservationHistory \ changed :
    Overlap(options[r][n], x) =>
      /\ x.instructor # options[r][n].instructor
      /\ x.aircraft # options[r][n].aircraft

\* What the comment before the answer says: each option is shown with the
\* names that belong to it.
OptionsShownAsStored ==
  \A r \in Requests : \A n \in DOMAIN answer[r] : answer[r][n].named = answer[r][n].instructor
================================================================================
