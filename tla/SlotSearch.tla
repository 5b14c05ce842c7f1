------------------------------ MODULE SlotSearch -------------------------------
(***************************************************************************)
(* One run of the generation job at the level of its data: the progressive *)
(* slot search (slot-finder.ts), the ranking of waitlist candidates, the   *)
(* next event of an enrollment, and the constraints each proposal must     *)
(* pass (worker/jobs/generate-suggestions.job.ts).  SchedulePipeline and   *)
(* NextLessons have the same job at the level of its queue, its retries    *)
(* and its crashes.                                                        *)
(*                                                                         *)
(* While the job waits for FSP, somebody books (Book) or a user edits a    *)
(* calendar (EditCalendar); every fetch can fail.                          *)
(***************************************************************************)
EXTENDS Constraints, Ranking

CONSTANTS
  Jobs,          \* what the job may be asked to do (see Init)
  Instructors, Students,
  Aircraft,      \* the active aircraft, in the order FSP lists them
  Calendars,     \* the calendars a user may change to
  UserCalendars, \* who has which calendar when the job starts
  ServerAheads,  \* how far the server's clock may be ahead of the operator's
  KnownEvents,   \* sets of events that may be in FSP when the job starts
  NewEvents,     \* events that may be booked while it runs
  TopCandidates, \* DEFAULT_TOP_CANDIDATES
  Twilight       \* civil twilight at a location

VARIABLES
  job, ahead,
  events,        \* FSP's schedule
  calendars,     \* FSP's availability, per user
  edited,        \* some calendar was edited
  pc,
  searchDays, foundSlots,
  unclear,       \* a window was skipped, or searched without its schedule
  queue,         \* the proposals still to be evaluated
  answers,       \* availability and twilight the waitlist pipeline fetched
  offered,       \* the suggestions inserted
  rejected       \* proposals that failed a constraint, with what was known

vars == <<job, ahead, events, calendars, edited, pc, searchDays, foundSlots, unclear,
          queue, answers, offered, rejected>>
environment == <<events, calendars, edited>>
search == <<searchDays, foundSlots, unclear>>

JobNow == 480              \* the job starts at eight on day 0
INTERVAL_MINUTES == 30

--------------------------------------------------------------------------------
(* The slot finder. *)

\* generateCandidateSlots: an override replaces the weekly windows of its date.
WindowsOn(calendar, date) ==
  IF date \in DOMAIN calendar.overrides
  THEN calendar.overrides[date]
  ELSE {w \in calendar.weekly : w.day = date % 7}

StartsIn(window, duration) ==
  {m \in window.from .. (window.to - duration) : (m - window.from) % INTERVAL_MINUTES = 0}

\* Whole days are searched, from the day of windowStart on: the last one
\* beyond windowEnd, which the schedule is fetched up to.
CandidateStarts(calendar, windowStart, windowEnd, duration) ==
  LET first    == DateOf(windowStart)
      last     == first + (windowEnd - windowStart) \div DayLength
      startsOn(d) == UNION {StartsIn(w, duration) : w \in WindowsOn(calendar, d)}
  IN {t \in UNION {{d * DayLength + m : m \in startsOn(d)} : d \in first .. last} :
        t >= windowStart}

\* An event of FSP is local time without a zone: the server reads it in its own.
AsRead(e) == [e EXCEPT !.start = @ - ahead, !.end = @ - ahead]

\* getSchedule for a window that the server formats in its own zone.
Fetched(windowStart, windowEnd) ==
  {e \in events : e.start < windowEnd + ahead /\ e.end > windowStart + ahead}

HasConflict(slot, known) ==
  \E e \in known : /\ Overlap(slot, AsRead(e))
                   /\ e.instructor = slot.instructor \/ e.aircraft = slot.aircraft

MatchScore(slot) ==
  LET far == ClockOf(slot.start) - ClockOf(job.original)
  IN 50 + (IF slot.instructor = job.instructor THEN 30 ELSE 0)
        + (IF slot.aircraft = job.aircraft THEN 10 ELSE 0)
        + (IF job.kind = "reschedule" /\ far \in -120 .. 120 THEN 10 ELSE 0)

Slot(i, craft, t) ==
  [student |-> job.student, instructor |-> i, aircraft |-> craft, activity |-> job.activity,
   start |-> t, end |-> t + job.duration]

\* One slot per instructor and time, with the first aircraft that is free.
AddCandidate(found, candidate, known, until) ==
  LET free == {n \in DOMAIN Aircraft :
                 ~HasConflict(Slot(candidate.instructor, Aircraft[n], candidate.start), known)}
      seen == \E n \in DOMAIN found : /\ found[n].slot.start = candidate.start
                                      /\ found[n].slot.instructor = candidate.instructor
  IN IF Len(found) >= job.maxSlots \/ seen \/ free = {}
     THEN found
     ELSE LET slot == Slot(candidate.instructor, Aircraft[Min(free)], candidate.start)
          IN Append(found, [slot |-> slot, score |-> MatchScore(slot), until |-> until])

\* Each instructor's candidates in the order of time, the instructors in the
\* order of FSP's answer.
CandidatesOf(order, windowStart, windowEnd) ==
  FlattenSeq([n \in DOMAIN order |->
    LET starts == Ascending(CandidateStarts(calendars[order[n]], windowStart, windowEnd,
                                            job.duration))
    IN [k \in DOMAIN starts |-> [instructor |-> order[n], start |-> starts[k]]]])

Searching == /\ pc = "search"
             /\ searchDays <= job.maxDays
             /\ Len(foundSlots) < job.maxSlots

\* A bug: each window begins where the last increment began.
WindowStartLate == JobNow + (searchDays - job.incrementDays) * DayLength

WindowStart == JobNow + (searchDays - job.initialDays) * DayLength
WindowEnd   == JobNow + searchDays * DayLength

\* One turn of the loop: availability, schedule (known = {} when that fetch
\* fails), candidates.
SearchWindow ==
  /\ Searching
  /\ \E order \in SetToSeqs(job.instructors), answered \in BOOLEAN :
       LET known == IF answered THEN Fetched(WindowStart, WindowEnd) ELSE {}
       IN /\ foundSlots' = FoldLeft(LAMBDA found, c : AddCandidate(found, c, known, WindowEnd),
                                    foundSlots, CandidatesOf(order, WindowStart, WindowEnd))
          /\ unclear' = (unclear \/ ~answered)
  /\ searchDays' = searchDays + job.incrementDays
  /\ UNCHANGED <<job, ahead, pc, queue, answers, offered, rejected>>
  /\ UNCHANGED environment

\* The availability fetch fails: on to the next window.
SkipWindow ==
  /\ Searching
  /\ searchDays' = searchDays + job.incrementDays
  /\ unclear' = TRUE
  /\ UNCHANGED <<job, ahead, pc, foundSlots, queue, answers, offered, rejected>>
  /\ UNCHANGED environment

BetterSlot(a, b) == \/ a.score > b.score
                    \/ a.score = b.score /\ a.slot.start < b.slot.start

\* The slots found, best first; a reschedule inserts them all unchecked.
EndSearch ==
  /\ pc = "search" /\ ~Searching
  /\ LET best == UpTo(Sorted(foundSlots, BetterSlot), job.maxSlots)
         slots == [n \in DOMAIN best |-> best[n].slot]
     IN IF job.kind = "reschedule"
        THEN /\ offered' = slots /\ queue' = <<>> /\ pc' = "done"
        ELSE /\ queue' = slots /\ pc' = "evaluate" /\ UNCHANGED offered
  /\ UNCHANGED <<job, ahead, answers, rejected>>
  /\ UNCHANGED <<environment, search>>

--------------------------------------------------------------------------------
(* The pipelines. *)

\* Lessons of an enrollment in order, and FSP's schedulable events.
IsEnrollmentComplete(progress) == progress.completed >= progress.total

\* determineNextEvent: the events of the first lesson that is not completed.
NextEvents(progress, schedulable) ==
  LET open == {l \in progress.lessons : ~l.done}
      first == CHOOSE l \in open : \A k \in open : l.order <= k.order
  IN IF IsEnrollmentComplete(progress) \/ open = {} THEN {}
     ELSE {e \in schedulable : e.lesson = first.lesson}

\* The event's instructors, or all when it names none.  If FSP knows none of
\* them, everybody is searched, without a preference.
Allowed(event) ==
  IF event.instructors = {} THEN Instructors ELSE event.instructors \cap Instructors

Preferred(event) == IF Allowed(event) = {} THEN {NoOne} ELSE Allowed(event)

\* processNextLesson up to the slot search.  Without a next event it ends.
PlanNextLesson ==
  /\ pc = "plan"
  /\ \/ /\ NextEvents(job.progress, job.schedulable) = {}
        /\ pc' = "done" /\ UNCHANGED job
     \/ \E event \in NextEvents(job.progress, job.schedulable) :
          \E first \in Preferred(event) :
              /\ job' = [job EXCEPT
                      !.instructors = IF Allowed(event) = {} THEN Instructors ELSE Allowed(event),
                      !.instructor = first, !.aircraft = Aircraft[1],
                      !.activity = event.activity, !.duration = event.duration]
              /\ pc' = "search"
  /\ UNCHANGED <<ahead, queue, answers, offered, rejected>>
  /\ UNCHANGED <<environment, search>>

\* scanForOpenings, for a job that names no opening: the gaps of an hour or
\* more between an event and the one that starts next.
ScanForOpenings ==
  /\ pc = "scan"
  /\ LET sorted == SetToSortSeq(events, LAMBDA a, b : a.start < b.start)
         gaps == {n \in 1 .. (Len(sorted) - 1) : sorted[n + 1].start - sorted[n].end >= 60}
     IN \/ /\ gaps = {} /\ pc' = "done" /\ UNCHANGED job
        \/ \E n \in gaps :
             /\ job' = [job EXCEPT !.opening =
                          [start |-> sorted[n].end, end |-> sorted[n + 1].start,
                           activity |-> NoActivity, located |-> FALSE]]
             /\ pc' = "rank"
  /\ UNCHANGED <<ahead, queue, answers, offered, rejected>>
  /\ UNCHANGED <<environment, search>>

\* processOpening up to the loop over the candidates: rank, take the top ones,
\* fetch their availability and the twilight of the opening's location.
RankCandidates ==
  /\ pc = "rank"
  /\ LET top == UpTo(RankWaitlistCandidates(job.candidates, DEFAULT_RANKING_WEIGHTS),
                     TopCandidates)
         proposal(n) == [student |-> top[n].student, instructor |-> NoOne, aircraft |-> NoOne,
                         activity |-> job.opening.activity,
                         start |-> job.opening.start - ahead, end |-> job.opening.end - ahead]
     IN /\ queue' = [n \in DOMAIN top |-> proposal(n)]
        /\ \E a \in {<<>>, [s \in {top[n].student : n \in DOMAIN top} |-> calendars[s]]},
              t \in {{}} \cup (IF job.opening.located THEN {{Twilight}} ELSE {}) :
             answers' = [availability |-> a, twilights |-> t]
  /\ pc' = "evaluate"
  /\ UNCHANGED <<job, ahead, offered, rejected>>
  /\ UNCHANGED <<environment, search>>

\* What an evaluation knows of the users' calendars: the waitlist fetched them
\* once, the next-lesson pipeline fetches them for every slot.
KnownAvailability(p) ==
  IF job.kind # "next_lesson" THEN {answers.availability}
  ELSE {<<>>, [u \in {p.student, p.instructor} |-> calendars[u]]}

\* One turn of the loop over the proposals: evaluate, insert or skip.
EvaluateNext ==
  /\ pc = "evaluate" /\ queue # <<>>
  /\ LET p == Head(queue)
         twilights == IF job.kind = "next_lesson" THEN {} ELSE answers.twilights
     IN \E availability \in KnownAvailability(p) :
          IF EvaluateConstraints(p, availability, twilights, JobNow, ahead)
          THEN /\ offered' = Append(offered, p) /\ UNCHANGED rejected
          ELSE /\ rejected' = Append(rejected, [proposal |-> p, availability |-> availability])
               /\ UNCHANGED offered
  /\ queue' = Tail(queue)
  /\ UNCHANGED <<job, ahead, pc, answers>>
  /\ UNCHANGED <<environment, search>>

EndEvaluation ==
  /\ pc = "evaluate" /\ queue = <<>>
  /\ pc' = "done"
  /\ UNCHANGED <<job, ahead, queue, answers, offered, rejected>>
  /\ UNCHANGED <<environment, search>>

--------------------------------------------------------------------------------
(* FSP while the job runs, as far as the job will still read it. *)

Book(e) ==
  /\ pc = "search" /\ e \notin events
  /\ events' = events \cup {e}
  /\ UNCHANGED <<job, ahead, calendars, edited, pc, queue, answers, offered, rejected>>
  /\ UNCHANGED search

EditCalendar(u, calendar) ==
  /\ pc = "search" \/ (pc = "evaluate" /\ queue # <<>> /\ job.kind = "next_lesson")
  /\ calendar # calendars[u] /\ ~edited
  /\ calendars' = [calendars EXCEPT ![u] = calendar]
  /\ edited' = TRUE
  /\ UNCHANGED <<job, ahead, events, pc, queue, answers, offered, rejected>>
  /\ UNCHANGED search

--------------------------------------------------------------------------------
Init ==
  /\ job \in Jobs
  /\ ahead \in ServerAheads
  /\ events \in KnownEvents
  /\ calendars \in UserCalendars
  /\ edited = FALSE
  /\ pc = CASE job.kind = "next_lesson" -> "plan"
            [] job.kind = "reschedule"  -> "search"
            [] job.kind = "waitlist"    -> "rank"
            [] job.kind = "scan"        -> "scan"
  /\ searchDays = job.initialDays
  /\ foundSlots = <<>>
  /\ unclear = FALSE
  /\ queue = <<>>
  /\ answers = [availability |-> <<>>, twilights |-> {}]
  /\ offered = <<>>
  /\ rejected = <<>>

Next ==
  \/ SearchWindow \/ SkipWindow \/ EndSearch
  \/ PlanNextLesson \/ ScanForOpenings \/ RankCandidates \/ EvaluateNext \/ EndEvaluation
  \/ \E e \in NewEvents : Book(e)
  \/ \E u \in job.instructors \cup {job.student}, c \in Calendars : EditCalendar(u, c)

Spec == Init /\ [][Next]_vars

--------------------------------------------------------------------------------
(* Properties. *)

\* The progressive windows miss nothing: a search that ended without its
\* maximum of slots has found every start in the calendars from now to the end
\* of its last window for which some aircraft is still free.
SearchIsExhaustive ==
  /\ pc \in {"evaluate", "done"} /\ job.kind \in {"next_lesson", "reschedule"}
  /\ searchDays > job.initialDays /\ job.incrementDays <= job.initialDays
  /\ ~unclear /\ ~edited /\ Len(foundSlots) < job.maxSlots
  =>
      \A i \in job.instructors :
        \A t \in CandidateStarts(calendars[i], JobNow,
                                 JobNow + (searchDays - job.incrementDays) * DayLength, job.duration) :
          \/ \A n \in DOMAIN Aircraft : HasConflict(Slot(i, Aircraft[n], t), events)
          \/ \E n \in DOMAIN foundSlots : foundSlots[n].slot.start = t
                                           /\ foundSlots[n].slot.instructor = i

\* The evaluator reads calendars as the slot finder does: a slot is not
\* rejected for an instructor the finder found available, unless a calendar
\* was edited, the server's clock is not the operator's, or the slot starts so
\* late that its date in UTC is the next one.
FinderAndEvaluatorAgree ==
  job.kind = "next_lesson" /\ ~edited /\ ahead = 0 =>
    \A n \in DOMAIN rejected :
      LET p == rejected[n].proposal
      IN rejected[n].availability # <<>> /\ DateOf(p.start + UtcAhead) = DateOf(p.start) =>
           IsUserAvailable(p.instructor, p, rejected[n].availability, ahead)

\* A student is never passed over for one who waited no longer, flies no later
\* and has flown no less.
Outranks(c, d) ==
  /\ c.since >= d.since /\ c.hours <= d.hours
  /\ c.until = NoFlight \/ (d.until # NoFlight /\ c.until <= d.until)
  /\ c.since > d.since \/ c.hours < d.hours

NobodyPassedOver ==
  pc \in {"evaluate", "done"} /\ job.kind \in {"waitlist", "scan"} =>
    LET considered == {p.student : p \in Range(offered) \cup Range(queue)}
                      \cup {r.proposal.student : r \in Range(rejected)}
    IN \A c, d \in Range(job.candidates) :
         Outranks(c, d) /\ d.student \in considered => c.student \in considered
================================================================================
