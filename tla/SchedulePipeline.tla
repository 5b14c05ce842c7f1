--------------------------- MODULE SchedulePipeline -------------------------
(***************************************************************************)
(* From a change of the FSP schedule, or a cancelled reservation, to the   *)
(* suggestions that fill the opening, for one operator with an FSP token.  *)
(*                                                                         *)
(* The poll job compares a hash of the schedule with the one in sync_state *)
(* and enqueues a generation job.  It knows that the schedule changed, not *)
(* how: the generation job fetches the schedule again.  cancelReservation  *)
(* enqueues a job that carries its opening.                                *)
(*                                                                         *)
(* A step is a statement, a call of FSP or a queue operation.  A run of    *)
(* reads of what nobody else writes is one step, taken when the last one   *)
(* of them that matters is.                                                *)
(***************************************************************************)
EXTENDS Integers, FiniteSets

CONSTANTS
  Versions,    \* contents of the schedule
  MaxChanges,  \* bound on the changes of the schedule
  Version0,    \* what it is at the beginning
  NoHash,      \* there is no sync_state row, or no hash in it
  ChangeJobs,  \* ids for the jobs of the poll; one for each change is enough
  Cancels,     \* requests to cancel the reservation, and the jobs they enqueue
  Gaps,        \* openings in a schedule
  Candidates,  \* students ranked for an opening
  MaxFaults    \* bound on failures and crashes

ASSUME PipelineAssumption ==
  /\ Version0 \in Versions /\ NoHash \notin Versions
  /\ ChangeJobs \cap Cancels = {}
  /\ MaxChanges \in Nat /\ MaxFaults \in Nat

VARIABLES
  schedule,   \* what FSP has
  changes,    \* how often it has changed
  stored,     \* sync_state.lastScheduleHash
  pollPc,     \* the statement the poll job executes next
  seen,       \* the schedule the poll job has fetched, if it is at work
  queue,      \* generate-suggestions
  stage,      \* how far the active generation job has come
  read,       \* the schedule it has fetched, if any
  todo,       \* the rows it has yet to insert
  inserted,   \* the rows each job has inserted, in all its attempts
  flight,     \* status of the reservation
  cancelPc,   \* the statement each request executes next, or its answer
  faults,     \* how many faults have happened
  served,     \* history: the schedule the last generation worked with
  repeated,   \* history: jobs that inserted a row twice
  excuses     \* history: what may be missed, a "change" or the "opening"

poll   == <<stored, pollPc, seen>>
worker == <<queue, stage, read, todo, inserted, served, repeated>>
api    == <<flight, cancelPc>>
fsp    == <<schedule, changes>>
vars   == <<fsp, poll, worker, api, faults, excuses>>

Jobs     == ChangeJobs \cup Cancels
Attempts == [j \in Jobs |-> IF j \in ChangeJobs THEN 3 ELSE 2]
Q        == INSTANCE JobQueue

\* processReschedule: one statement inserts all alternatives for the student.
Reschedule == <<"reschedule", "all">>

\* A job runs a pipeline per gap of the schedule.  For a cancellation these are
\* the waitlist and the reschedule pipeline.
Rows(j) ==
  IF j \in ChangeJobs THEN Gaps \X Candidates
  ELSE ({"waitlist"} \X Candidates) \cup {Reschedule}
AllRows == UNION {Rows(j) : j \in Jobs}

Fault == faults < MaxFaults /\ faults' = faults + 1

Init ==
  /\ schedule = Version0 /\ changes = 0
  /\ stored = NoHash /\ pollPc = "idle" /\ seen = NoHash
  /\ queue = Q!Empty
  /\ stage = "none" /\ read = NoHash /\ todo = {}
  /\ inserted = [j \in Jobs |-> {}]
  /\ flight = "booked" /\ cancelPc = [r \in Cancels |-> "idle"]
  /\ faults = 0
  /\ served = NoHash /\ repeated = {} /\ excuses = {}

\* Bookings in FSP, or the window of the poll that moves on.  No poll notices a
\* schedule that has become again what the last poll saw, whatever the generator
\* has fetched meanwhile.
FspChange ==
  /\ changes < MaxChanges /\ changes' = changes + 1
  /\ schedule' \in Versions \ {schedule}
  /\ excuses' = excuses \cup {e \in {"change"} : schedule' = stored}
  /\ UNCHANGED <<poll, worker, api, faults>>

-----------------------------------------------------------------------------
(***************************************************************************)
(* pollOperator.  A poll that fails before it stores the hash, or finds no *)
(* change, leaves everything as it was.                                    *)
(***************************************************************************)

EndPoll == pollPc' = "idle" /\ seen' = NoHash

Poll ==
  /\ pollPc = "idle" /\ schedule # stored
  /\ pollPc' = "changed" /\ seen' = schedule
  /\ UNCHANGED <<fsp, stored, worker, api, faults, excuses>>

\* The first hash is the baseline: nothing is generated for it.
StoreBaseline ==
  /\ pollPc = "changed" /\ stored = NoHash
  /\ stored' = seen /\ served' = seen /\ EndPoll
  /\ UNCHANGED <<fsp, queue, stage, read, todo, inserted, repeated,
                 api, faults, excuses>>

StoreHash ==
  /\ pollPc = "changed" /\ stored # NoHash
  /\ stored' = seen /\ pollPc' = "announce"
  /\ UNCHANGED <<fsp, seen, worker, api, faults, excuses>>

\* The statement fails, the poll of the operator ends; the next one repeats it.
StoreFails ==
  /\ Fault
  /\ pollPc = "changed" /\ EndPoll
  /\ UNCHANGED <<fsp, stored, worker, api, excuses>>

\* Mutant: one job id for the operator, as for the next lessons.
AnnounceUnderOneId ==
  /\ pollPc = "announce" /\ EndPoll
  /\ Q!Add(CHOOSE j \in ChangeJobs : TRUE)
  /\ UNCHANGED <<fsp, stored, stage, read, todo, inserted, served,
                 repeated, api, faults, excuses>>

\* The audit insert that follows changes nothing here, whether it fails or not.
Announce ==
  /\ pollPc = "announce" /\ EndPoll
  /\ \E j \in ChangeJobs : ~Q!Known(j)
  /\ Q!Add(CHOOSE j \in ChangeJobs : ~Q!Known(j))
  /\ UNCHANGED <<fsp, stored, stage, read, todo, inserted, served,
                 repeated, api, faults, excuses>>

\* Redis refuses: the poll ends, and the hash is stored already.
AnnounceFails ==
  /\ Fault
  /\ pollPc = "announce" /\ EndPoll
  /\ excuses' = excuses \cup {"change"}
  /\ UNCHANGED <<fsp, stored, worker, api>>

PollStep == Poll \/ StoreBaseline \/ StoreHash \/ Announce

-----------------------------------------------------------------------------
(***************************************************************************)
(* The generation job, standard pipeline.                                  *)
(***************************************************************************)

\* Mutant: a job that has failed is not taken up again.
StartUntried(j) ==
  /\ queue[j].failures = 0 /\ Q!Start(j)
  /\ stage' = "prepare"
  /\ UNCHANGED <<fsp, poll, read, todo, inserted, served, repeated, api,
                 faults, excuses>>

StartJob(j) ==
  /\ Q!Start(j)
  /\ stage' = "prepare"
  /\ UNCHANGED <<fsp, poll, read, todo, inserted, served, repeated, api,
                 faults, excuses>>

\* Everything up to the pipelines.  Without openings or students the job ends.
Prepare(j) ==
  /\ queue[j].state = "active" /\ stage = "prepare"
  /\ stage' = "insert"
  /\ read' = IF j \in ChangeJobs THEN schedule ELSE read
  /\ todo' \in {{}, Rows(j)}
  /\ UNCHANGED <<fsp, poll, queue, inserted, served, repeated, api, faults,
                 excuses>>

\* What may be missed when j is lost, or a pipeline of it.
Subject(j) == IF j \in ChangeJobs THEN "change" ELSE "opening"

\* The end of a job: what is not tried again may be missed.
Leave(j) ==
  /\ stage' = "none" /\ read' = NoHash /\ todo' = {}
  /\ inserted' = [inserted EXCEPT ![j] = IF Q!Ended(j)' THEN {} ELSE @]
  /\ excuses' = excuses \cup {e \in {Subject(j)} : queue'[j].state = "failed"}

PrepareFails(j) ==
  /\ Fault
  /\ stage = "prepare" /\ Q!Throw(j) /\ Leave(j)
  /\ UNCHANGED <<fsp, poll, served, repeated, api>>

\* One pass of the loop of a pipeline: a row and the job that enriches it.
InsertRow(j) ==
  /\ queue[j].state = "active" /\ stage = "insert"
  /\ \E o \in todo :
       /\ todo' = todo \ {o}
       /\ inserted' = [inserted EXCEPT ![j] = @ \cup {o}]
       /\ repeated' = repeated \cup {k \in {j} : o \in inserted[k]}
  /\ UNCHANGED <<fsp, poll, queue, stage, read, served, api, faults, excuses>>

\* The constraints of this candidate do not pass, or there is no other slot.
SkipRow(j) ==
  /\ queue[j].state = "active" /\ stage = "insert"
  /\ \E o \in todo : todo' = todo \ {o}
  /\ UNCHANGED <<fsp, poll, queue, stage, read, inserted, served, repeated,
                 api, faults, excuses>>

\* Mutant: the exception of a pipeline reaches the job.
PipelineThrows(j) ==
  /\ Fault
  /\ stage = "insert" /\ todo # {} /\ Q!Throw(j) /\ Leave(j)
  /\ UNCHANGED <<fsp, poll, served, repeated, api>>

\* A statement or call of a pipeline fails: the pipeline ends, the others go on,
\* and the job will complete.
PipelineFails(j) ==
  /\ Fault
  /\ queue[j].state = "active" /\ stage = "insert"
  /\ \E p \in {o[1] : o \in todo} : todo' = {o \in todo : o[1] # p}
  /\ excuses' = excuses \cup {e \in {"opening"} : j \in Cancels}
  /\ UNCHANGED <<fsp, poll, queue, stage, read, inserted, served, repeated, api>>

\* All pipelines are over.  Here a failed audit insert is only logged.
CompleteJob(j) ==
  /\ stage = "insert" /\ todo = {} /\ Q!Complete(j) /\ Leave(j)
  /\ served' = IF j \in ChangeJobs THEN read ELSE served
  /\ UNCHANGED <<fsp, poll, repeated, api, faults>>

JobStep(j) == Prepare(j) \/ InsertRow(j) \/ SkipRow(j) \/ CompleteJob(j)

-----------------------------------------------------------------------------
(***************************************************************************)
(* cancelReservation.                                                      *)
(***************************************************************************)

CancelTo(r, from, to) ==
  /\ cancelPc[r] = from
  /\ cancelPc' = [cancelPc EXCEPT ![r] = to]

CancelRead(r) ==
  /\ CancelTo(r, "idle", IF flight = "cancelled" THEN "failed" ELSE "checked")
  /\ UNCHANGED <<fsp, poll, worker, flight, faults, excuses>>

\* The update does not look at the status again.
CancelRow(r) ==
  /\ CancelTo(r, "checked", "enqueue") /\ flight' = "cancelled"
  /\ UNCHANGED <<fsp, poll, worker, faults, excuses>>

\* The reason cannot be read or the row not be updated.
CancelFails(r) ==
  /\ Fault
  /\ CancelTo(r, "checked", "failed")
  /\ UNCHANGED <<fsp, poll, worker, flight, excuses>>

\* Mutant: nothing is enqueued while the generator has work.
EnqueueUnlessBusy(r) ==
  /\ CancelTo(r, "enqueue", "done")
  /\ IF Q!In("waiting") \cup Q!In("active") = {} THEN Q!Add(r) ELSE UNCHANGED queue
  /\ UNCHANGED <<fsp, poll, stage, read, todo, inserted, served, repeated,
                 flight, faults, excuses>>

EnqueueOpening(r) ==
  /\ CancelTo(r, "enqueue", "done") /\ Q!Add(r)
  /\ UNCHANGED <<fsp, poll, stage, read, todo, inserted, served, repeated,
                 flight, faults, excuses>>

\* Redis refuses, and the request succeeds all the same.
EnqueueFails(r) ==
  /\ Fault
  /\ CancelTo(r, "enqueue", "done") /\ excuses' = excuses \cup {"opening"}
  /\ UNCHANGED <<fsp, poll, worker, flight>>

-----------------------------------------------------------------------------
(***************************************************************************)
(* Crashes.  Redis and the database keep what they have.                   *)
(***************************************************************************)

\* The worker dies with the poll and the generation it is at.
WorkerCrash ==
  /\ Fault
  /\ EndPoll
  /\ \/ /\ Q!In("active") = {} /\ pollPc # "idle"
        /\ excuses' = excuses \cup {e \in {"change"} : pollPc = "announce"}
        /\ UNCHANGED <<queue, stage, read, todo, inserted>>
     \/ \E j \in Q!In("active") :
          /\ Q!Stall(j)
          /\ stage' = "none" /\ read' = NoHash /\ todo' = {}
          /\ inserted' = [inserted EXCEPT ![j] = IF Q!Ended(j)' THEN {} ELSE @]
          /\ excuses' = excuses \cup {e \in {"change"} : pollPc = "announce"}
                        \cup {e \in {Subject(j)} : queue'[j].state = "failed"}
  /\ UNCHANGED <<fsp, stored, served, repeated, api>>

\* The API dies with the requests it is at.
ApiCrash ==
  /\ Fault
  /\ \E r \in Cancels : cancelPc[r] \in {"checked", "enqueue"}
  /\ cancelPc' = [r \in Cancels |->
       IF cancelPc[r] \in {"checked", "enqueue"} THEN "failed" ELSE cancelPc[r]]
  /\ excuses' = excuses \cup {e \in {"opening"} :
                                \E r \in Cancels : cancelPc[r] = "enqueue"}
  /\ UNCHANGED <<fsp, poll, worker, flight>>

-----------------------------------------------------------------------------
Next ==
  \/ FspChange
  \/ PollStep \/ StoreFails \/ AnnounceFails
  \/ \E j \in Jobs : StartJob(j) \/ JobStep(j) \/ PrepareFails(j) \/ PipelineFails(j)
  \/ \E r \in Cancels : \/ CancelRead(r) \/ CancelRow(r) \/ EnqueueOpening(r)
                        \/ CancelFails(r) \/ EnqueueFails(r)
  \/ WorkerCrash \/ ApiCrash

Spec == Init /\ [][Next]_vars

\* The poll is a repeatable job and the worker takes what waits.  A statement or
\* call that is under way returns or throws.
Fairness ==
  /\ WF_vars(PollStep)
  /\ \A j \in Jobs : WF_vars(StartJob(j)) /\ WF_vars(JobStep(j))
  /\ \A r \in Cancels : WF_vars(CancelRow(r)) /\ WF_vars(EnqueueOpening(r))

FairSpec == Spec /\ Fairness

-----------------------------------------------------------------------------
(***************************************************************************)
(* Properties.                                                             *)
(***************************************************************************)

PollPc   == {"idle", "changed", "announce"}
CancelPc == {"idle", "checked", "enqueue", "done", "failed"}

\* Types, and that the worker is at a stage exactly while it has a job, and then one.
TypeOK ==
  /\ schedule \in Versions /\ changes \in Nat
  /\ {stored, seen, read, served} \subseteq Versions \cup {NoHash}
  /\ pollPc \in PollPc /\ (pollPc = "idle" <=> seen = NoHash)
  /\ Q!TypeOK
  /\ stage \in {"none", "prepare", "insert"}
  /\ stage = "none" <=> Q!In("active") = {}
  /\ \A i, j \in Q!In("active") : i = j
  /\ todo \in SUBSET AllRows
  /\ inserted \in [Jobs -> SUBSET AllRows]
  /\ flight \in {"booked", "cancelled"}
  /\ cancelPc \in [Cancels -> CancelPc]
  /\ faults \in Nat
  /\ repeated \in SUBSET Jobs /\ excuses \in SUBSET {"change", "opening"}

\* A job that can still find out what the schedule is now.
WillSee(j) ==
  \/ queue[j].state = "waiting"
  \/ queue[j].state = "active" /\ (stage = "prepare" \/ read = schedule)

\* Once there is a baseline, suggestions are those of the present schedule or
\* something is on its way that will see it: a poll that finds another hash, a
\* poll about to enqueue, or a job.  Only a change whose job could not be
\* enqueued, or was given up, is missed (pollOperator stores the hash first).
NoChangeForgotten ==
  stored # NoHash /\ served # schedule =>
    \/ schedule # stored \/ pollPc = "announce"
    \/ \E j \in ChangeJobs : WillSee(j)
    \/ "change" \in excuses

\* A job inserts each of its suggestions at most once, however often it is tried
\* again; only a job the worker died with may repeat some (everything that can
\* throw comes before the first insert of process).
OfferedOnce == \A j \in repeated : queue[j].stalled

\* A request that is about to enqueue its job, whose job waits or is at work, or
\* whose job has gone through all candidates.
CaresFor(r) ==
  \/ cancelPc[r] = "enqueue"
  \/ queue[r].state \in {"waiting", "active", "completed"}

\* The slot of a cancelled reservation has been offered or is on its way to be.
\* Only an enqueue that fails or is cut off (cancelReservation swallows that), a job
\* that is given up, or a pipeline that fails in a job that then completes, lose it.
FreedIsOffered ==
  flight = "cancelled" => (\E r \in Cancels : CaresFor(r)) \/ "opening" \in excuses

\* And it is: some job of a cancelled reservation gets to its end, behind whatever
\* else the generator has to do, through failed attempts and crashes.
OpeningIsServed ==
  flight = "cancelled" ~>
    \/ \E r \in Cancels : queue[r].state = "completed"
    \/ "opening" \in excuses

\* The generator catches up with the schedule (the poll job and its queue).
ScheduleIsServed ==
  stored # NoHash ~> (served = schedule \/ "change" \in excuses)
=============================================================================
