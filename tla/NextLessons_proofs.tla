------------------------- MODULE NextLessons_proofs -------------------------
(***************************************************************************)
(* What NextLessons guarantees for any number of enrollments, outreach     *)
(* jobs, slots and faults, proved with TLAPS.                              *)
(***************************************************************************)
EXTENDS NextLessons, TLAPS

-----------------------------------------------------------------------------
(***************************************************************************)
(* What the operations of the queue do to a job.                           *)
(***************************************************************************)

\* Only job j has moved, and to state s.
Moved(j, s) ==
  /\ Q!TypeOK'
  /\ queue'[j].state = s
  /\ \A k \in Jobs \ {j} : queue'[k] = queue[k]

LEMMA Replaced ==
  ASSUME Q!TypeOK, NEW j \in Jobs, NEW rec \in Q!JobRecord,
         queue' = [queue EXCEPT ![j] = rec]
  PROVE  Moved(j, rec.state)
BY Zenon DEF Q!TypeOK, Moved

LEMMA MoveMoves ==
  ASSUME Q!TypeOK, NEW j \in Jobs, NEW s \in Q!JobStates, NEW t, Q!Move(j, t, s)
  PROVE  Moved(j, s)
<1>1. queue' = [queue EXCEPT ![j] = [queue[j] EXCEPT !.state = s]]
  BY Zenon DEF Q!Move
<1>2. queue[j] \in Q!JobRecord
  BY DEF Q!TypeOK
<1>3. /\ [queue[j] EXCEPT !.state = s] \in Q!JobRecord
      /\ [queue[j] EXCEPT !.state = s].state = s
  BY <1>2, Zenon DEF Q!JobRecord
<1> QED
  BY <1>1, <1>3, Replaced, Zenon

LEMMA ThrowMoves ==
  ASSUME Q!TypeOK, NEW j \in Jobs, Q!Throw(j)
  PROVE  Moved(j, "waiting") \/ Moved(j, "failed")
<1> DEFINE made == queue[j].failures + 1
           s    == IF made < Attempts[j] THEN "waiting" ELSE "failed"
           rec  == [state |-> s, failures |-> made, stalled |-> queue[j].stalled]
<1>1. queue[j] \in Q!JobRecord
  BY DEF Q!TypeOK
<1>2. made \in Nat /\ s \in Q!JobStates
  BY <1>1 DEF Q!JobRecord, Q!JobStates
<1>3. rec \in Q!JobRecord
  BY <1>1, <1>2, Zenon DEF Q!JobRecord
<1>4. queue' = [queue EXCEPT ![j] = rec]
  BY <1>1 DEF Q!Throw, Q!TypeOK, Q!JobRecord
<1>5. Moved(j, s)
  <2> HIDE DEF made, s
  <2> QED BY <1>3, <1>4, Replaced
<1> QED
  BY <1>5

LEMMA StallMoves ==
  ASSUME Q!TypeOK, NEW j \in Jobs, Q!Stall(j)
  PROVE  Moved(j, "waiting") \/ Moved(j, "failed")
<1> DEFINE s   == IF queue[j].stalled THEN "failed" ELSE "waiting"
           rec == [state |-> s, failures |-> queue[j].failures, stalled |-> TRUE]
<1>1. queue[j] \in Q!JobRecord
  BY DEF Q!TypeOK
<1>2. s \in Q!JobStates
  BY DEF Q!JobStates
<1>3. rec \in Q!JobRecord
  BY <1>1, <1>2, Zenon DEF Q!JobRecord
<1>4. queue' = [queue EXCEPT ![j] = rec]
  BY <1>1 DEF Q!Stall, Q!TypeOK, Q!JobRecord
<1>5. Moved(j, s)
  <2> HIDE DEF s
  <2> QED BY <1>3, <1>4, Replaced
<1> QED
  BY <1>5

LEMMA AddMoves ==
  ASSUME Q!TypeOK, NEW j \in Jobs, Q!Add(j)
  PROVE  UNCHANGED queue \/ (queue[j].state = "absent" /\ Moved(j, "waiting"))
<1>1. "waiting" \in Q!JobStates
  BY DEF Q!JobStates
<1> QED
  BY <1>1, MoveMoves, Zenon DEF Q!Add, Q!Move

-----------------------------------------------------------------------------
(***************************************************************************)
(* The inductive invariant.  What keeps a slot from being offered again is *)
(* the id of the job: as long as no attempt of it has ended early, a job   *)
(* that is still to be done has offered nothing, and one at work has not   *)
(* offered what it has yet to offer.  An ended job is not started again.   *)
(***************************************************************************)

\* What has been offered for e, if no job of e has ended early.
FreshUntilDone(e) ==
  /\ queue[e].state \in {"absent", "waiting"} => offered[e] = {}
  /\ queue[e].state = "active" =>
       /\ ~created => offered[e] = {}
       /\ stage = "prepare" => ~created
       /\ stage = "insert" => offered[e] \cap slots = {}

Typed ==
  /\ Q!TypeOK
  /\ created \in BOOLEAN
  /\ found \in Enrollments \cup {NoOne}
  /\ toCheck \subseteq Enrollments

OneActive ==
  \A j, k \in Jobs :
    queue[j].state = "active" /\ queue[k].state = "active" => j = k

CreatedByActive == created => \E j \in Jobs : queue[j].state = "active"

OffersFresh == \A e \in Enrollments : e \in broken \/ FreshUntilDone(e)

BInv ==
  Typed /\ OneActive /\ CreatedByActive /\ OffersFresh /\ RepeatsAreRetries

attempt == <<queue, stage, slots, created, offered, repeated, broken>>

LEMMA EnrollmentIsJob == \A e \in Enrollments : e \in Jobs
BY DEF Jobs

\* A step that touches neither the queue nor the attempt.
LEMMA QuietStep ==
  ASSUME BInv, UNCHANGED attempt, Typed'
  PROVE  BInv'
BY DEF BInv, attempt, OneActive, CreatedByActive, OffersFresh, FreshUntilDone,
   RepeatsAreRetries

\* The active job leaves its state: to be tried again only with an excuse.
LEMMA LeaveStep ==
  ASSUME BInv, Typed', NEW j \in Jobs, NEW s, queue[j].state = "active",
         Moved(j, s), created' = FALSE, UNCHANGED <<offered, repeated>>,
         broken \subseteq broken',
         \/ s \in {"completed", "failed"}
         \/ /\ s = "waiting"
            /\ broken' = broken \cup {e \in Enrollments : e = j /\ created}
  PROVE  BInv'
<1>1. OneActive' /\ CreatedByActive'
  BY DEF BInv, OneActive, CreatedByActive, Moved
<1>2. RepeatsAreRetries'
  BY DEF BInv, RepeatsAreRetries
<1>3. ASSUME NEW e \in Enrollments, e \notin broken'
      PROVE  FreshUntilDone(e)'
  <2>1. e \in Jobs /\ FreshUntilDone(e)
    BY <1>3, EnrollmentIsJob DEF BInv, OffersFresh
  <2>2. CASE e = j
    BY <1>3, <2>1, <2>2 DEF Moved, FreshUntilDone, BInv, Typed
  <2>3. CASE e # j
    <3>1. queue'[e] = queue[e] /\ queue[e].state # "active"
      BY <2>1, <2>3 DEF Moved, BInv, OneActive
    <3> QED
      BY <2>1, <3>1 DEF FreshUntilDone
  <2> QED
    BY <2>2, <2>3
<1> QED
  BY <1>1, <1>2, <1>3 DEF BInv, OffersFresh

LEMMA AddStep ==
  ASSUME BInv, Typed', NEW j \in Jobs, Q!Add(j), UNCHANGED worker
  PROVE  BInv'
<1>1. CASE UNCHANGED queue
  BY <1>1, QuietStep DEF attempt, worker, rows
<1>2. CASE queue[j].state = "absent" /\ Moved(j, "waiting")
  <2>1. OneActive' /\ CreatedByActive' /\ RepeatsAreRetries'
    BY <1>2 DEF BInv, OneActive, CreatedByActive, RepeatsAreRetries, Moved, worker,
       rows
  <2>2. ASSUME NEW e \in Enrollments, e \notin broken'
        PROVE  FreshUntilDone(e)'
    BY <1>2, <2>2, EnrollmentIsJob
    DEF BInv, OffersFresh, FreshUntilDone, Moved, worker, rows
  <2> QED
    BY <2>1, <2>2 DEF BInv, OffersFresh
<1> QED
  BY <1>1, <1>2, AddMoves DEF BInv, Typed

LEMMA StartStep ==
  ASSUME BInv, Typed', NEW j \in Jobs, StartJob(j)
  PROVE  BInv'
<1>1. /\ queue[j].state = "waiting" /\ Moved(j, "active")
      /\ \A k \in Jobs : queue[k].state # "active"
  <2>1. "active" \in Q!JobStates
    BY DEF Q!JobStates
  <2> QED
    BY <2>1, MoveMoves DEF StartJob, Q!Start, Q!Move, Q!In, BInv, Typed
<1>2. ~created /\ stage' = "prepare" /\ UNCHANGED <<created, rows, broken>>
  BY <1>1 DEF BInv, Typed, CreatedByActive, StartJob
<1>3. OneActive' /\ CreatedByActive' /\ RepeatsAreRetries'
  BY <1>1, <1>2 DEF BInv, OneActive, CreatedByActive, RepeatsAreRetries, Moved, rows
<1>4. ASSUME NEW e \in Enrollments, e \notin broken'
      PROVE  FreshUntilDone(e)'
  <2>1. e \in Jobs /\ FreshUntilDone(e)
    BY <1>2, <1>4, EnrollmentIsJob DEF BInv, OffersFresh
  <2>2. CASE e = j
    BY <1>1, <1>2, <2>1, <2>2 DEF FreshUntilDone, Moved, rows
  <2>3. CASE e # j
    BY <1>1, <1>2, <2>1, <2>3 DEF FreshUntilDone, Moved, rows
  <2> QED
    BY <2>2, <2>3
<1> QED
  BY <1>3, <1>4 DEF BInv, OffersFresh

\* The slots are found, or one of them is passed over.
LEMMA SlotsStep ==
  ASSUME BInv, Typed', NEW j \in Jobs, Prepare(j) \/ SkipSlot(j)
  PROVE  BInv'
<1>1. queue[j].state = "active" /\ UNCHANGED <<queue, created, rows, broken>>
  BY DEF Prepare, SkipSlot
<1>2. OneActive' /\ CreatedByActive' /\ RepeatsAreRetries'
  BY <1>1 DEF BInv, OneActive, CreatedByActive, RepeatsAreRetries, rows
<1>3. stage' = "insert" /\ (stage = "prepare" \/ (stage = "insert" /\ slots' \subseteq slots))
  BY DEF Prepare, SkipSlot
<1>4. ASSUME NEW e \in Enrollments, e \notin broken'
      PROVE  FreshUntilDone(e)'
  <2>1. FreshUntilDone(e)
    BY <1>1, <1>4 DEF BInv, OffersFresh
  <2> QED
    BY <1>1, <1>3, <2>1 DEF FreshUntilDone, rows
<1> QED
  BY <1>2, <1>4 DEF BInv, OffersFresh

LEMMA InsertStep ==
  ASSUME BInv, Typed', NEW j \in Jobs, InsertRow(j)
  PROVE  BInv'
<1>1. PICK t \in slots :
        /\ slots' = slots \ {t}
        /\ offered' = [e \in Enrollments |-> offered[e] \cup {u \in {t} : e = j}]
        /\ repeated' = repeated \cup {e \in Enrollments : e = j /\ t \in offered[e]}
  BY DEF InsertRow
<1>2. /\ queue[j].state = "active" /\ UNCHANGED <<queue, stage, broken>>
      /\ created' = TRUE /\ stage = "insert"
  BY DEF InsertRow
<1>3. OneActive' /\ CreatedByActive'
  BY <1>2 DEF BInv, OneActive, CreatedByActive
<1>4. ASSUME NEW e \in Enrollments, e \notin broken'
      PROVE  FreshUntilDone(e)'
  <2>1. e \in Jobs /\ FreshUntilDone(e)
    BY <1>2, <1>4, EnrollmentIsJob DEF BInv, OffersFresh
  <2>2. CASE e = j
    BY <1>1, <1>2, <2>1, <2>2 DEF FreshUntilDone
  <2>3. CASE e # j
    <3>1. queue[e].state # "active"
      BY <1>2, <2>1, <2>3 DEF BInv, OneActive
    <3>2. offered'[e] = offered[e]
      BY <1>1, <2>3
    <3> QED
      BY <1>2, <2>1, <3>1, <3>2 DEF FreshUntilDone
  <2> QED
    BY <2>2, <2>3
<1>5. RepeatsAreRetries'
  <2>1. ASSUME j \in Enrollments, t \in offered[j]
        PROVE  j \in broken
    BY <1>1, <1>2, <2>1 DEF BInv, OffersFresh, FreshUntilDone
  <2> QED
    BY <1>1, <1>2, <2>1 DEF BInv, RepeatsAreRetries
<1> QED
  BY <1>3, <1>4, <1>5 DEF BInv, OffersFresh

-----------------------------------------------------------------------------
(***************************************************************************)
(* The steps of the poll, the jobs and the faults.                         *)
(***************************************************************************)

LEMMA ThrowStep ==
  ASSUME BInv, Typed', NEW j \in Jobs, Q!Throw(j), BreakOff(j),
         UNCHANGED <<offered, repeated>>
  PROVE  BInv'
<1>1. queue[j].state = "active"
  BY DEF Q!Throw
<1>2. Moved(j, "waiting") \/ Moved(j, "failed")
  BY ThrowMoves DEF BInv, Typed
<1> QED
  BY <1>1, <1>2, LeaveStep DEF BreakOff, Leave

LEMMA CompleteStep ==
  ASSUME BInv, Typed', NEW j \in Jobs, CompleteJob(j)
  PROVE  BInv'
<1>1. queue[j].state = "active" /\ Moved(j, "completed")
  <2>1. "completed" \in Q!JobStates
    BY DEF Q!JobStates
  <2> QED
    BY <2>1, MoveMoves DEF CompleteJob, Q!Complete, Q!Move, BInv, Typed
<1> QED
  BY <1>1, LeaveStep DEF CompleteJob, Leave, rows

LEMMA CrashStep ==
  ASSUME BInv, Typed', WorkerCrash
  PROVE  BInv'
<1>1. CASE Q!In("active") = {} /\ UNCHANGED <<queue, broken>> /\ Leave
  <2>1. \A j \in Jobs : queue[j].state # "active"
    BY <1>1 DEF Q!In
  <2>2. created' = FALSE /\ UNCHANGED rows
    BY <1>1 DEF WorkerCrash, Leave
  <2>3. OneActive' /\ CreatedByActive' /\ RepeatsAreRetries'
    BY <1>1, <2>1, <2>2
    DEF BInv, OneActive, CreatedByActive, RepeatsAreRetries, rows
  <2>4. OffersFresh'
    BY <1>1, <2>1, <2>2, EnrollmentIsJob DEF BInv, OffersFresh, FreshUntilDone, rows
  <2> QED
    BY <2>3, <2>4 DEF BInv
<1>2. ASSUME NEW j \in Q!In("active"), Q!Stall(j), BreakOff(j)
      PROVE  BInv'
  <2>1. j \in Jobs /\ queue[j].state = "active"
    BY DEF Q!In
  <2>2. Moved(j, "waiting") \/ Moved(j, "failed")
    BY <1>2, <2>1, StallMoves DEF BInv, Typed
  <2> QED
    BY <1>2, <2>1, <2>2, LeaveStep DEF WorkerCrash, BreakOff, Leave, rows
<1> QED
  BY <1>1, <1>2 DEF WorkerCrash

\* The id of a new outreach job is one of the outreach ids.
LEMMA OutreachId ==
  ASSUME EnqueueOutreach
  PROVE  \E o \in Outreach : Q!Add(o)
<1>1. PICK o \in Outreach : ~Q!Known(o)
  BY DEF EnqueueOutreach
<1>2. (CHOOSE x \in Outreach : ~Q!Known(x)) \in Outreach
  BY <1>1
<1> QED
  BY <1>2, Zenon DEF EnqueueOutreach

\* Every step keeps the types.
LEMMA QueueTyped ==
  ASSUME BInv, [Next]_vars
  PROVE  Q!TypeOK'
<1> Q!TypeOK
  BY DEF BInv, Typed
<1>1. CASE EnqueueLesson
  <2>1. found \in Jobs /\ Q!Add(found)
    BY <1>1 DEF EnqueueLesson, BInv, Typed, Jobs
  <2> QED
    BY <2>1, AddMoves DEF Moved, Q!TypeOK
<1>2. CASE EnqueueOutreach
  BY <1>2, OutreachId, AddMoves DEF Moved, Q!TypeOK, Jobs
<1>3. CASE WorkerCrash
  <2>1. ASSUME NEW j \in Q!In("active"), Q!Stall(j) PROVE Q!TypeOK'
    BY <2>1, StallMoves DEF Moved, Q!In
  <2> QED
    BY <1>3, <2>1 DEF WorkerCrash, Q!TypeOK
<1>4. ASSUME NEW j \in Jobs, StartJob(j) \/ CompleteJob(j)
      PROVE  Q!TypeOK'
  <2>1. "active" \in Q!JobStates /\ "completed" \in Q!JobStates
    BY DEF Q!JobStates
  <2> QED
    BY <1>4, <2>1, MoveMoves DEF StartJob, CompleteJob, Q!Start, Q!Complete, Moved
<1>5. ASSUME NEW j \in Jobs, OutreachRefused(j) \/ JobFails(j)
      PROVE  Q!TypeOK'
  BY <1>5, ThrowMoves DEF OutreachRefused, JobFails, Moved
<1>6. CASE UNCHANGED queue
  BY <1>6 DEF Q!TypeOK
<1>7. CASE \/ \E s \in Students : Book(s) \/ Settle(s)
           \/ \E e \in Enrollments : Fly(e) \/ ReadProgress(e)
           \/ HalfHourPasses \/ BeginCheck \/ ReadBookings \/ EndCheck
           \/ FindInactive \/ EndPoll \/ CheckFails \/ SkipEnrollment
           \/ \E j \in Jobs : Prepare(j) \/ InsertRow(j) \/ SkipSlot(j)
           \/ UNCHANGED vars
  BY <1>6, <1>7 DEF Book, Settle, Fly, ReadProgress, HalfHourPasses, BeginCheck,
     ReadBookings, EndCheck, FindInactive, EndPoll, CheckFails, SkipEnrollment,
     Prepare, InsertRow, SkipSlot, vars
<1> QED
  BY <1>1, <1>2, <1>3, <1>4, <1>5, <1>7 DEF Next, PollStep, JobStep

LEMMA NextTyped ==
  ASSUME BInv, [Next]_vars
  PROVE  Typed'
<1> Typed
  BY DEF BInv
<1>1. created' \in BOOLEAN
  <2>1. ASSUME NEW j \in Jobs, StartJob(j) \/ JobStep(j) \/ OutreachRefused(j) \/ JobFails(j)
        PROVE  created' \in BOOLEAN
    BY <2>1, Zenon DEF StartJob, JobStep, OutreachRefused, JobFails, Prepare,
       InsertRow, SkipSlot, CompleteJob, BreakOff, Leave, Typed
  <2>2. CASE WorkerCrash
    BY <2>2, Zenon DEF WorkerCrash, BreakOff, Leave
  <2>3. CASE \/ \E s \in Students : Book(s) \/ Settle(s)
             \/ \E e \in Enrollments : Fly(e)
             \/ HalfHourPasses \/ PollStep \/ CheckFails \/ SkipEnrollment
             \/ UNCHANGED vars
    BY <2>3 DEF Book, Settle, Fly, HalfHourPasses, BeginCheck, ReadBookings, EndCheck,
       FindInactive, EndPoll, ReadProgress, CheckFails, SkipEnrollment,
       EnqueueLesson, EnqueueOutreach, PollStep, vars, worker, Typed
  <2> QED
    BY <2>1, <2>2, <2>3 DEF Next
<1>2. found' \in Enrollments \cup {NoOne} /\ toCheck' \subseteq Enrollments
  <2>1. ASSUME NEW j \in Jobs, StartJob(j) \/ JobStep(j) \/ OutreachRefused(j) \/ JobFails(j)
        PROVE  UNCHANGED <<found, toCheck>>
    BY <2>1 DEF StartJob, JobStep, OutreachRefused, JobFails, Prepare, InsertRow,
       SkipSlot, CompleteJob, poll
  <2>2. CASE \/ WorkerCrash \/ PollStep \/ CheckFails \/ SkipEnrollment
    BY <2>2 DEF WorkerCrash, PollStep, CheckFails, SkipEnrollment, BeginCheck,
       ReadBookings, EnqueueLesson, EndCheck, FindInactive, EnqueueOutreach,
       EndPoll, ReadProgress, Typed
  <2>3. CASE \/ \E s \in Students : Book(s) \/ Settle(s)
             \/ \E e \in Enrollments : Fly(e)
             \/ HalfHourPasses \/ UNCHANGED vars
    BY <2>3 DEF Book, Settle, Fly, HalfHourPasses, vars, poll, Typed
  <2> QED
    BY <2>1, <2>2, <2>3 DEF Next, Typed
<1> QED
  BY <1>1, <1>2, QueueTyped DEF Typed

LEMMA NextBInv ==
  ASSUME BInv, [Next]_vars
  PROVE  BInv'
<1> Typed'
  BY NextTyped
<1>1. ASSUME NEW j \in Jobs, JobStep(j)
      PROVE  BInv'
  BY <1>1, SlotsStep, InsertStep, CompleteStep DEF JobStep
<1>2. ASSUME NEW j \in Jobs, StartJob(j) \/ OutreachRefused(j) \/ JobFails(j)
      PROVE  BInv'
  BY <1>2, StartStep, ThrowStep DEF OutreachRefused, JobFails, rows
<1>3. CASE EnqueueLesson
  <2>1. found \in Jobs /\ Q!Add(found) /\ UNCHANGED worker
    BY <1>3 DEF EnqueueLesson, BInv, Typed, Jobs
  <2> QED
    BY <2>1, AddStep
<1>4. CASE EnqueueOutreach
  <2>1. UNCHANGED worker
    BY <1>4 DEF EnqueueOutreach
  <2> QED
    BY <1>4, <2>1, OutreachId, AddStep DEF Jobs
<1>5. CASE \/ \E s \in Students : Book(s) \/ Settle(s)
           \/ \E e \in Enrollments : Fly(e) \/ ReadProgress(e)
           \/ HalfHourPasses \/ BeginCheck \/ ReadBookings \/ EndCheck
           \/ FindInactive \/ EndPoll \/ CheckFails \/ SkipEnrollment
           \/ UNCHANGED vars
  <2>1. UNCHANGED attempt
    BY <1>5 DEF Book, Settle, Fly, ReadProgress, HalfHourPasses, BeginCheck,
       ReadBookings, EndCheck, FindInactive, EndPoll, CheckFails, SkipEnrollment,
       vars, worker, rows, attempt
  <2> QED
    BY <2>1, QuietStep
<1> QED
  BY <1>1, <1>2, <1>3, <1>4, <1>5, CrashStep DEF Next, PollStep

LEMMA InitBInv == Init => BInv
<1> SUFFICES ASSUME Init PROVE BInv
  OBVIOUS
<1>1. Q!TypeOK
  BY DEF Init, Q!Empty, Q!TypeOK, Q!JobRecord, Q!JobStates
<1>2. \A j \in Jobs : queue[j].state = "absent"
  BY DEF Init, Q!Empty
<1>3. Typed
  BY <1>1 DEF Init, Typed
<1>4. OneActive /\ CreatedByActive
  BY <1>2, Zenon DEF Init, OneActive, CreatedByActive
<1>5. OffersFresh
  BY <1>2, EnrollmentIsJob DEF Init, OffersFresh, FreshUntilDone
<1>6. RepeatsAreRetries
  BY DEF Init, RepeatsAreRetries
<1> QED
  BY <1>3, <1>4, <1>5, <1>6 DEF BInv

\* The half-hourly check never makes a slot be offered again for an enrollment,
\* whatever else happens: only the retry of an attempt that had inserted rows does.
THEOREM OnlyRetriesRepeat == Spec => []RepeatsAreRetries
<1>1. BInv /\ [Next]_vars => BInv'
  BY NextBInv
<1>2. BInv => RepeatsAreRetries
  BY DEF BInv
<1> QED
  BY InitBInv, <1>1, <1>2, PTL DEF Spec
=============================================================================
