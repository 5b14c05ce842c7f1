----------------------------- MODULE NextLessons ----------------------------
(***************************************************************************)
(* Who gets next-lesson suggestions: the second half of the poll job, which *)
(* looks for students who need a lesson (checkPendingLessonsIfDue) and for  *)
(* inactive ones (checkInactiveStudents), and the pipeline of the           *)
(* generation job that serves them (processNextLesson).                    *)
(*                                                                         *)
(* The check enqueues a job under an id made of the student and the        *)
(* enrollment, so an enrollment is its job's id here.  Outreach jobs have  *)
(* ids of their own and no enrollment.                                     *)
(***************************************************************************)
EXTENDS Integers, FiniteSets

CONSTANTS
  Students,
  Enrollments,  \* the active ones, and the ids of their jobs
  StudentOf,    \* the student of each
  Outreach,     \* ids of outreach jobs: a bound on how many are enqueued
  MaxLessons,   \* lessons of an enrollment
  Slots,        \* what the slot finder can find for a student
  MaxFaults,    \* bound on failures and crashes
  NoOne

ASSUME LessonAssumption ==
  /\ StudentOf \in [Enrollments -> Students]
  /\ Enrollments \cap Outreach = {} /\ NoOne \notin Enrollments \cup Students
  /\ MaxLessons \in Nat /\ MaxFaults \in Nat

VARIABLES
  left,       \* lessons each enrollment has left, in FSP
  booked,     \* students with an upcoming reservation in FSP
  targeted,   \* students with a pending next_lesson suggestion
  due,        \* lastPendingLessonCheck is unset or half an hour old
  pollPc,     \* the statement the poll job executes next
  toCheck,    \* enrollments the check has yet to look at
  found,      \* the one it is about to enqueue
  toReach,    \* inactive students it is about to enqueue
  queue,      \* generate-suggestions
  addressee,  \* the student of each outreach job
  stage,      \* how far the active job has come
  slots,      \* slots it has left to offer
  created,    \* whether it has inserted a row in this attempt
  faults,     \* how many faults have happened
  offered,    \* history: the slots each enrollment has got a row for
  repeated,   \* history: enrollments that have got two rows for a slot
  broken      \* history: those a job of which ended early, after its first row

fsp    == <<left, booked>>
poll   == <<due, pollPc, toCheck, found, toReach>>
rows   == <<offered, repeated>>
worker == <<stage, slots, created, rows, broken>>
vars   == <<fsp, targeted, poll, queue, addressee, worker, faults>>

Jobs     == Enrollments \cup Outreach
Attempts == [j \in Jobs |-> IF j \in Enrollments THEN 3 ELSE 2]
Q        == INSTANCE JobQueue

Recipient(j) == IF j \in Enrollments THEN StudentOf[j] ELSE addressee[j]

Fault == faults < MaxFaults /\ faults' = faults + 1

Init ==
  /\ left = [e \in Enrollments |-> MaxLessons] /\ booked = {}
  /\ targeted = {}
  /\ due = TRUE /\ pollPc = "idle"
  /\ toCheck = {} /\ found = NoOne /\ toReach = {}
  /\ queue = Q!Empty /\ addressee = [o \in Outreach |-> NoOne]
  /\ stage = "none" /\ slots = {} /\ created = FALSE
  /\ faults = 0
  /\ offered = [e \in Enrollments |-> {}] /\ repeated = {} /\ broken = {}

-----------------------------------------------------------------------------
(***************************************************************************)
(* The world.                                                              *)
(***************************************************************************)

\* A reservation for the student, made from a suggestion or in FSP.
Book(s) ==
  /\ s \notin booked /\ booked' = booked \cup {s}
  /\ UNCHANGED <<left, targeted, poll, queue, addressee, worker, faults>>

\* The student flies and has completed a lesson.
Fly(e) ==
  /\ StudentOf[e] \in booked /\ left[e] > 0
  /\ booked' = booked \ {StudentOf[e]}
  /\ left' = [left EXCEPT ![e] = @ - 1]
  /\ UNCHANGED <<targeted, poll, queue, addressee, worker, faults>>

\* The suggestions for the student are decided or expire.
Settle(s) ==
  /\ s \in targeted /\ targeted' = targeted \ {s}
  /\ UNCHANGED <<fsp, poll, queue, addressee, worker, faults>>

HalfHourPasses ==
  /\ ~due /\ due' = TRUE
  /\ UNCHANGED <<fsp, targeted, pollPc, toCheck, found, toReach, queue,
                 addressee, worker, faults>>

-----------------------------------------------------------------------------
(***************************************************************************)
(* The poll job, once pollOperator is over.                                *)
(***************************************************************************)

\* The time of the check is noted before the check.
BeginCheck ==
  /\ pollPc = "idle"
  /\ pollPc' = IF due THEN "students" ELSE "outreach"
  /\ due' = FALSE
  /\ UNCHANGED <<fsp, targeted, toCheck, found, toReach, queue, addressee,
                 worker, faults>>

\* Mutant: a student with any reservation, past or upcoming, is passed over.
ReadBookingsAll ==
  /\ pollPc = "students" /\ pollPc' = "lessons"
  /\ toCheck' = {e \in Enrollments :
                   StudentOf[e] \notin booked /\ left[e] = MaxLessons}
  /\ UNCHANGED <<fsp, targeted, due, found, toReach, queue, addressee, worker,
                 faults>>

\* The students, and who of them has an upcoming reservation.
ReadBookings ==
  /\ pollPc = "students" /\ pollPc' = "lessons"
  /\ toCheck' = {e \in Enrollments : StudentOf[e] \notin booked}
  /\ UNCHANGED <<fsp, targeted, due, found, toReach, queue, addressee, worker,
                 faults>>

\* The policy, the students or the reservations cannot be read.
CheckFails ==
  /\ Fault
  /\ \/ pollPc = "idle" /\ due
     \/ pollPc = "students"
  /\ pollPc' = "outreach"
  /\ UNCHANGED <<fsp, targeted, due, toCheck, found, toReach, queue, addressee,
                 worker>>

ReadProgress(e) ==
  /\ pollPc = "lessons" /\ found = NoOne /\ e \in toCheck
  /\ toCheck' = toCheck \ {e}
  /\ found' = IF left[e] > 0 THEN e ELSE NoOne
  /\ UNCHANGED <<fsp, targeted, due, pollPc, toReach, queue, addressee, worker,
                 faults>>

\* Mutant: the queue forgets a job that has ended (removeOnComplete, removeOnFail).
EnqueueLessonAgain ==
  /\ pollPc = "lessons" /\ found # NoOne
  /\ found' = NoOne
  /\ IF Q!Known(found) /\ ~Q!Ended(found) THEN UNCHANGED queue
     ELSE queue' = [queue EXCEPT ![found] = [Q!Empty[found] EXCEPT !.state = "waiting"]]
  /\ UNCHANGED <<fsp, targeted, due, pollPc, toCheck, toReach, addressee,
                 worker, faults>>

EnqueueLesson ==
  /\ pollPc = "lessons" /\ found # NoOne
  /\ found' = NoOne /\ Q!Add(found)
  /\ UNCHANGED <<fsp, targeted, due, pollPc, toCheck, toReach, addressee,
                 worker, faults>>

\* A call for one enrollment or one student fails: the others are still checked.
SkipEnrollment ==
  /\ Fault
  /\ pollPc = "lessons"
  /\ \/ found # NoOne /\ found' = NoOne /\ UNCHANGED toCheck
     \/ \E e \in toCheck : toCheck' = toCheck \ {e} /\ found = NoOne /\ UNCHANGED found
     \/ \E s \in Students :
          LET all == {e \in Enrollments : StudentOf[e] = s}
          IN  /\ found = NoOne /\ all \subseteq toCheck
              /\ toCheck' = toCheck \ all /\ UNCHANGED found
  /\ UNCHANGED <<fsp, targeted, due, pollPc, toReach, queue, addressee, worker>>

EndCheck ==
  /\ pollPc = "lessons" /\ found = NoOne /\ toCheck = {}
  /\ pollPc' = "outreach"
  /\ UNCHANGED <<fsp, targeted, due, toCheck, found, toReach, queue, addressee,
                 worker, faults>>

\* Inactive students without a pending suggestion.  Who is inactive is read from
\* reservation_history; none is if the flag is off or a statement fails.
FindInactive ==
  /\ pollPc = "outreach" /\ pollPc' = "reach"
  /\ toReach' \in SUBSET (Students \ targeted)
  /\ UNCHANGED <<fsp, targeted, due, toCheck, found, queue, addressee, worker,
                 faults>>

EnqueueOutreach ==
  /\ pollPc = "reach"
  /\ \E o \in Outreach : ~Q!Known(o)
  /\ LET new == CHOOSE o \in Outreach : ~Q!Known(o)
     IN  /\ Q!Add(new)
         /\ \E s \in toReach : /\ toReach' = toReach \ {s}
                               /\ addressee' = [addressee EXCEPT ![new] = s]
  /\ UNCHANGED <<fsp, targeted, due, pollPc, toCheck, found, worker, faults>>

\* All are enqueued, but for those whose enqueue has failed.
EndPoll ==
  /\ pollPc = "reach" /\ pollPc' = "idle" /\ toReach' = {}
  /\ UNCHANGED <<fsp, targeted, due, toCheck, found, queue, addressee, worker,
                 faults>>

PollStep ==
  \/ BeginCheck \/ ReadBookings \/ EnqueueLesson \/ EndCheck
  \/ FindInactive \/ EnqueueOutreach \/ EndPoll
  \/ \E e \in Enrollments : ReadProgress(e)

-----------------------------------------------------------------------------
(***************************************************************************)
(* processNextLesson.                                                      *)
(***************************************************************************)

StartJob(j) ==
  /\ Q!Start(j) /\ stage' = "prepare"
  /\ UNCHANGED <<fsp, targeted, poll, addressee, slots, created, rows, broken, faults>>

\* The progress, the next event and the slots, which the finder keeps apart by start
\* and instructor.  Without lessons, event or slots the job ends.  What FSP answers
\* for an outreach job, which asks for the progress of no enrollment, is open.
Prepare(j) ==
  /\ queue[j].state = "active" /\ stage = "prepare"
  /\ stage' = "insert"
  /\ slots' \in IF j \in Enrollments /\ left[j] = 0 THEN {{}} ELSE SUBSET Slots
  /\ UNCHANGED <<fsp, targeted, poll, queue, addressee, created, rows, broken, faults>>

\* The loop over the slots: a row, or a slot whose constraints do not pass.
InsertRow(j) ==
  /\ queue[j].state = "active" /\ stage = "insert"
  /\ \E t \in slots :
       /\ slots' = slots \ {t}
       /\ offered' = [e \in Enrollments |-> offered[e] \cup {u \in {t} : e = j}]
       /\ repeated' = repeated \cup {e \in Enrollments : e = j /\ t \in offered[e]}
  /\ created' = TRUE
  /\ targeted' = targeted \cup {Recipient(j)}
  /\ UNCHANGED <<fsp, poll, queue, addressee, stage, broken, faults>>

SkipSlot(j) ==
  /\ queue[j].state = "active" /\ stage = "insert"
  /\ \E t \in slots : slots' = slots \ {t}
  /\ UNCHANGED <<fsp, targeted, poll, queue, addressee, stage, created, rows, broken,
                 faults>>

Leave == stage' = "none" /\ slots' = {} /\ created' = FALSE

\* An attempt that does not get to its end.
BreakOff(j) == Leave /\ broken' = broken \cup {e \in Enrollments : e = j /\ created}

\* With the audit insert, if there are rows.
CompleteJob(j) ==
  /\ stage = "insert" /\ slots = {} /\ Q!Complete(j) /\ Leave
  /\ UNCHANGED <<fsp, targeted, poll, addressee, rows, broken, faults>>

\* FSP knows no enrollment without an id: this needs no fault.
OutreachRefused(j) ==
  /\ j \in Outreach
  /\ stage = "prepare" /\ Q!Throw(j) /\ BreakOff(j)
  /\ UNCHANGED <<fsp, targeted, poll, addressee, rows, faults>>

\* Any statement or call before the first row, the insert of a later one, or the
\* audit insert after the last: the job throws, and its rows stay.
JobFails(j) ==
  /\ Fault
  /\ \/ stage = "prepare"
     \/ stage = "insert" /\ (slots # {} \/ created)
  /\ Q!Throw(j) /\ BreakOff(j)
  /\ UNCHANGED <<fsp, targeted, poll, addressee, rows>>

JobStep(j) == Prepare(j) \/ InsertRow(j) \/ SkipSlot(j) \/ CompleteJob(j)

\* The worker dies with the poll and the job it is at, and with the times of the
\* checks: a restarted worker checks at once.
WorkerCrash ==
  /\ Fault
  /\ due' = TRUE /\ pollPc' = "idle"
  /\ toCheck' = {} /\ found' = NoOne /\ toReach' = {}
  /\ \/ Q!In("active") = {} /\ UNCHANGED <<queue, broken>> /\ Leave
     \/ \E j \in Q!In("active") : Q!Stall(j) /\ BreakOff(j)
  /\ UNCHANGED <<fsp, targeted, addressee, rows>>

-----------------------------------------------------------------------------
Next ==
  \/ \E s \in Students : Book(s) \/ Settle(s)
  \/ \E e \in Enrollments : Fly(e)
  \/ HalfHourPasses
  \/ PollStep \/ CheckFails \/ SkipEnrollment
  \/ \E j \in Jobs : StartJob(j) \/ JobStep(j) \/ OutreachRefused(j) \/ JobFails(j)
  \/ WorkerCrash

Spec == Init /\ [][Next]_vars

\* The poll is a repeatable job, the worker takes what waits, and a statement or
\* call that is under way returns or throws.
Fairness ==
  /\ WF_vars(PollStep) /\ WF_vars(HalfHourPasses)
  /\ \A j \in Jobs : WF_vars(StartJob(j)) /\ WF_vars(JobStep(j))

FairSpec == Spec /\ Fairness

-----------------------------------------------------------------------------
(***************************************************************************)
(* Properties.                                                             *)
(***************************************************************************)

\* A slot is offered a second time for an enrollment only by the retry of a job that
\* failed or died after its first row (processNextLesson throws after its rows are in,
\* too).  The check comes back every half hour and does not
\* look for pending suggestions: it is the id of the job, which the queue knows for
\* good, that keeps it from offering the slots again.
RepeatsAreRetries == repeated \subseteq broken

\* The check needs a lesson for this enrollment.
Needs(e) == left[e] > 0 /\ StudentOf[e] \notin booked

\* An enrollment that keeps needing a lesson gets a job, whatever fails meanwhile
\* (detectPendingLessons, with the time of the check noted before the check).
NeedIsDetected == \A e \in Enrollments : Needs(e) ~> (~Needs(e) \/ Q!Known(e))
=============================================================================
