----------------------- MODULE SchedulePipeline_proofs ----------------------
(***************************************************************************)
(* What SchedulePipeline guarantees for any schedules, any number of jobs, *)
(* requests, openings and candidates, and any number of faults, proved     *)
(* with TLAPS.                                                             *)
(***************************************************************************)
EXTENDS SchedulePipeline, TLAPS

-----------------------------------------------------------------------------
(***************************************************************************)
(* What the operations of the queue do to the states of the jobs.          *)
(***************************************************************************)

\* Only job j has moved, and to state s.
Moved(j, s) ==
  /\ Q!TypeOK'
  /\ queue'[j].state = s
  /\ \A k \in Jobs \ {j} : queue'[k] = queue[k]
  /\ \A k \in Jobs : queue[k].stalled => queue'[k].stalled

LEMMA AttemptsType == Attempts \in [Jobs -> Nat]
BY DEF Attempts

LEMMA MoveMoves ==
  ASSUME Q!TypeOK, NEW j \in Jobs, NEW s \in Q!JobStates, NEW t, Q!Move(j, t, s)
  PROVE  Moved(j, s) /\ queue'[j].stalled = queue[j].stalled
<1>1. queue' = [queue EXCEPT ![j] = [queue[j] EXCEPT !.state = s]]
  BY Zenon DEF Q!Move
<1>2. queue[j] \in Q!JobRecord
  BY DEF Q!TypeOK
<1>3. /\ [queue[j] EXCEPT !.state = s] \in Q!JobRecord
      /\ [queue[j] EXCEPT !.state = s].state = s
      /\ [queue[j] EXCEPT !.state = s].stalled = queue[j].stalled
  BY <1>2, Zenon DEF Q!JobRecord
<1> QED
  BY <1>1, <1>3, Zenon DEF Q!TypeOK, Moved

\* The record of j is replaced by one that keeps the history of stalls.
LEMMA Replaced ==
  ASSUME Q!TypeOK, NEW j \in Jobs, NEW rec \in Q!JobRecord,
         queue' = [queue EXCEPT ![j] = rec], queue[j].stalled => rec.stalled
  PROVE  Moved(j, rec.state) /\ queue'[j] = rec
BY Zenon DEF Q!TypeOK, Moved

LEMMA ThrowMoves ==
  ASSUME Q!TypeOK, NEW j \in Jobs, Q!Throw(j)
  PROVE  /\ Moved(j, "waiting") \/ Moved(j, "failed")
         /\ queue'[j].stalled = queue[j].stalled
<1> DEFINE made == queue[j].failures + 1
           s    == IF made < Attempts[j] THEN "waiting" ELSE "failed"
           rec  == [state |-> s, failures |-> made, stalled |-> queue[j].stalled]
<1>1. queue[j] \in Q!JobRecord
  BY DEF Q!TypeOK
<1>2. made \in Nat /\ s \in Q!JobStates
  BY <1>1 DEF Q!JobRecord, Q!JobStates
<1>3. rec \in Q!JobRecord
  BY <1>1, <1>2, Zenon DEF Q!JobRecord
<1>4. queue' = [queue EXCEPT ![j] = rec]
  BY <1>1 DEF Q!Throw, Q!TypeOK, Q!JobRecord
<1>5. Moved(j, s) /\ queue'[j] = rec
  <2> HIDE DEF made, s
  <2> QED BY <1>3, <1>4, Replaced
<1> QED
  BY <1>5

LEMMA StallMoves ==
  ASSUME Q!TypeOK, NEW j \in Jobs, Q!Stall(j)
  PROVE  /\ Moved(j, "waiting") \/ Moved(j, "failed")
         /\ queue'[j].stalled
<1> DEFINE s   == IF queue[j].stalled THEN "failed" ELSE "waiting"
           rec == [state |-> s, failures |-> queue[j].failures, stalled |-> TRUE]
<1>1. queue[j] \in Q!JobRecord
  BY DEF Q!TypeOK
<1>2. s \in Q!JobStates
  BY DEF Q!JobStates
<1>3. rec \in Q!JobRecord
  BY <1>1, <1>2, Zenon DEF Q!JobRecord
<1>4. queue' = [queue EXCEPT ![j] = rec]
  BY <1>1 DEF Q!Stall, Q!TypeOK, Q!JobRecord
<1>5. Moved(j, s) /\ queue'[j] = rec
  <2> HIDE DEF s
  <2> QED BY <1>3, <1>4, Replaced
<1> QED
  BY <1>5

LEMMA StartMoves ==
  ASSUME Q!TypeOK, NEW j \in Jobs, Q!Start(j)
  PROVE  /\ Moved(j, "active") /\ queue'[j].stalled = queue[j].stalled
         /\ queue[j].state = "waiting" /\ Q!In("active") = {}
<1>1. "active" \in Q!JobStates
  BY DEF Q!JobStates
<1> QED
  BY <1>1, MoveMoves, Zenon DEF Q!Start, Q!Move

LEMMA CompleteMoves ==
  ASSUME Q!TypeOK, NEW j \in Jobs, Q!Complete(j)
  PROVE  /\ Moved(j, "completed") /\ queue'[j].stalled = queue[j].stalled
         /\ queue[j].state = "active"
<1>1. "completed" \in Q!JobStates
  BY DEF Q!JobStates
<1> QED
  BY <1>1, MoveMoves, Zenon DEF Q!Complete, Q!Move

LEMMA AddMoves ==
  ASSUME Q!TypeOK, NEW j \in Jobs, Q!Add(j)
  PROVE  \/ /\ Moved(j, "waiting") /\ queue'[j].stalled = queue[j].stalled
            /\ queue[j].state = "absent"
         \/ queue[j].state # "absent" /\ queue' = queue
<1>1. "waiting" \in Q!JobStates
  BY DEF Q!JobStates
<1> QED
  BY <1>1, MoveMoves, Zenon DEF Q!Add, Q!Move, Q!Known

\* Which jobs are active after a move.
LEMMA NowIdle ==
  ASSUME TypeOK, NEW j \in Jobs, NEW s, s # "active", Moved(j, s),
         queue[j].state = "active"
  PROVE  Q!In("active")' = {}
BY DEF TypeOK, Moved, Q!In

LEMMA NowActive ==
  ASSUME TypeOK, NEW j \in Jobs, Moved(j, "active"), Q!In("active") = {}
  PROVE  Q!In("active")' = {j}
BY DEF Moved, Q!In

LEMMA AsActive ==
  ASSUME TypeOK, NEW j \in Jobs, NEW s, s # "active", Moved(j, s),
         queue[j].state # "active"
  PROVE  Q!In("active")' = Q!In("active")
BY DEF Moved, Q!In

-----------------------------------------------------------------------------
(***************************************************************************)
(* Typing.                                                                 *)
(***************************************************************************)

LEMMA RowsType == \A j \in Jobs : Rows(j) \in SUBSET AllRows
BY DEF AllRows

\* Announce adds a job of its own.
LEMMA AnnounceAdds ==
  ASSUME Announce
  PROVE  \E j \in ChangeJobs : ~Q!Known(j) /\ Q!Add(j)
<1> DEFINE new == CHOOSE j \in ChangeJobs : ~Q!Known(j)
<1>1. \E j \in ChangeJobs : ~Q!Known(j)
  BY Zenon DEF Announce
<1>2. new \in ChangeJobs /\ ~Q!Known(new)
  BY <1>1, Zenon
<1>3. Q!Add(new)
  BY Zenon DEF Announce
<1> HIDE DEF new
<1> QED
  BY <1>2, <1>3, Zenon

LEMMA PollStepType ==
  ASSUME TypeOK, PollStep \/ StoreFails \/ AnnounceFails \/ FspChange
  PROVE  TypeOK'
<1> USE PipelineAssumption DEF PollPc
<1>1. CASE FspChange
  <2>1. excuses' \subseteq excuses \cup {"change"}
    BY <1>1, Zenon DEF FspChange
  <2>2. /\ schedule' \in Versions /\ changes' \in Nat
        /\ UNCHANGED <<poll, worker, api, faults>>
    BY <1>1 DEF FspChange, TypeOK
  <2> QED
    BY <2>1, <2>2 DEF TypeOK, poll, worker, api, Q!TypeOK, Q!In
<1>2. CASE Poll
  BY <1>2 DEF Poll, TypeOK, fsp, worker, api, Q!TypeOK, Q!In
<1>3. CASE StoreBaseline
  BY <1>3 DEF StoreBaseline, EndPoll, TypeOK, fsp, api, Q!TypeOK, Q!In
<1>4. CASE StoreHash
  BY <1>4 DEF StoreHash, TypeOK, fsp, worker, api, Q!TypeOK, Q!In
<1>5. CASE StoreFails
  BY <1>5 DEF StoreFails, Fault, EndPoll, TypeOK, fsp, worker, api, Q!TypeOK, Q!In
<1>6. CASE AnnounceFails
  BY <1>6 DEF AnnounceFails, Fault, EndPoll, TypeOK, fsp, worker, api, Q!TypeOK, Q!In
<1>7. CASE Announce
  <2>1. PICK j \in ChangeJobs : ~Q!Known(j) /\ Q!Add(j)
    BY <1>7, AnnounceAdds
  <2>2. j \in Jobs
    BY DEF Jobs
  <2>3. Moved(j, "waiting") /\ queue[j].state = "absent"
    BY <2>1, <2>2, AddMoves DEF Q!Known, TypeOK
  <2>4. Q!In("active")' = Q!In("active")
    BY <2>2, <2>3, AsActive
  <2> QED
    BY <1>7, <2>3, <2>4 DEF Announce, EndPoll, TypeOK, fsp, api, Moved
<1> QED
  BY <1>1, <1>2, <1>3, <1>4, <1>5, <1>6, <1>7 DEF PollStep

LEMMA SubjectType ==
  ASSUME NEW j \in Jobs
  PROVE  /\ Subject(j) \in {"change", "opening"}
         /\ j \in ChangeJobs => Subject(j) = "change"
         /\ j \in Cancels => Subject(j) = "opening"
BY PipelineAssumption DEF Subject

\* A job that is given up leaves its excuse, and no excuse is taken back.
LEMMA LeaveExcuses ==
  ASSUME NEW j \in Jobs, Leave(j)
  PROVE  /\ excuses \subseteq excuses'
         /\ excuses' \subseteq excuses \cup {Subject(j)}
         /\ queue'[j].state = "failed" => Subject(j) \in excuses'
BY Zenon DEF Leave

LEMMA CrashExcuses ==
  ASSUME WorkerCrash
  PROVE  /\ excuses \subseteq excuses'
         /\ pollPc = "announce" => "change" \in excuses'
         /\ \/ UNCHANGED <<queue, stage, read, todo, inserted>>
               /\ excuses' \subseteq excuses \cup {"change"}
            \/ \E j \in Q!In("active") :
                 /\ Q!Stall(j)
                 /\ stage' = "none" /\ read' = NoHash /\ todo' = {}
                 /\ inserted' = [inserted EXCEPT ![j] = IF Q!Ended(j)' THEN {} ELSE @]
                 /\ excuses' \subseteq excuses \cup {"change", Subject(j)}
                 /\ queue'[j].state = "failed" => Subject(j) \in excuses'
BY Zenon DEF WorkerCrash

\* What Leave does to the types.
LeftOK ==
  /\ stage' = "none" /\ read' = NoHash /\ todo' = {}
  /\ inserted' \in [Jobs -> SUBSET AllRows]
  /\ excuses' \in SUBSET {"change", "opening"}

LEMMA LeaveType ==
  ASSUME TypeOK, NEW j \in Jobs, Leave(j)
  PROVE  LeftOK
<1>1. inserted' \in [Jobs -> SUBSET AllRows]
  BY DEF Leave, TypeOK
<1>2. excuses' \in SUBSET {"change", "opening"}
  BY LeaveExcuses, SubjectType DEF TypeOK
<1> QED
  BY <1>1, <1>2 DEF LeftOK, Leave

LEMMA JobStepType ==
  ASSUME TypeOK, NEW j \in Jobs,
         StartJob(j) \/ JobStep(j) \/ PrepareFails(j) \/ PipelineFails(j)
  PROVE  TypeOK'
<1>1. CASE StartJob(j)
  <2>1. Moved(j, "active") /\ Q!In("active") = {}
    BY <1>1, StartMoves DEF StartJob, TypeOK
  <2>2. Q!In("active")' = {j}
    BY <2>1, NowActive
  <2> QED
    BY <1>1, <2>1, <2>2 DEF StartJob, TypeOK, Moved, fsp, poll, api
<1>2. CASE Prepare(j)
  <2>1. todo' \in SUBSET AllRows /\ read' \in Versions \cup {NoHash}
    BY <1>2, RowsType DEF Prepare, TypeOK
  <2> QED
    BY <1>2, <2>1 DEF Prepare, TypeOK, fsp, poll, api, Q!TypeOK, Q!In
<1>3. CASE InsertRow(j)
  <2>1. PICK o \in todo : inserted' = [inserted EXCEPT ![j] = @ \cup {o}]
    BY <1>3 DEF InsertRow
  <2>2. /\ inserted' \in [Jobs -> SUBSET AllRows] /\ todo' \in SUBSET AllRows
        /\ repeated' \in SUBSET Jobs
    BY <1>3, <2>1 DEF InsertRow, TypeOK
  <2> QED
    BY <1>3, <2>2 DEF InsertRow, TypeOK, fsp, poll, api, Q!TypeOK, Q!In
<1>4. CASE SkipRow(j)
  BY <1>4 DEF SkipRow, TypeOK, fsp, poll, api, Q!TypeOK, Q!In
<1>5. CASE PipelineFails(j)
  <2>1. excuses' \subseteq excuses \cup {"opening"}
    BY <1>5, Zenon DEF PipelineFails
  <2>2. todo' \in SUBSET AllRows
    BY <1>5 DEF PipelineFails, TypeOK
  <2>3. /\ faults' \in Nat
        /\ UNCHANGED <<fsp, poll, queue, stage, read, inserted, served, repeated, api>>
    BY <1>5 DEF PipelineFails, Fault, TypeOK
  <2> QED
    BY <2>1, <2>2, <2>3 DEF TypeOK, fsp, poll, api, Q!TypeOK, Q!In
<1>6. CASE CompleteJob(j)
  <2>1. Moved(j, "completed") /\ queue[j].state = "active"
    BY <1>6, CompleteMoves DEF CompleteJob, TypeOK
  <2>2. Q!In("active")' = {}
    BY <2>1, NowIdle
  <2>3. LeftOK
    BY <1>6, LeaveType DEF CompleteJob
  <2> QED
    BY <1>6, <2>1, <2>2, <2>3 DEF CompleteJob, LeftOK, TypeOK, Moved, fsp, poll, api
<1>7. CASE PrepareFails(j)
  <2>1. queue[j].state = "active" /\ (Moved(j, "waiting") \/ Moved(j, "failed"))
    BY <1>7, ThrowMoves DEF PrepareFails, TypeOK, Q!Throw
  <2>2. Q!In("active")' = {}
    BY <2>1, NowIdle
  <2>3. LeftOK
    BY <1>7, LeaveType DEF PrepareFails
  <2> QED
    BY <1>7, <2>1, <2>2, <2>3
    DEF PrepareFails, Fault, LeftOK, TypeOK, Moved, fsp, poll, api
<1> QED
  BY <1>1, <1>2, <1>3, <1>4, <1>5, <1>6, <1>7 DEF JobStep

LEMMA CancelStepType ==
  ASSUME TypeOK, NEW r \in Cancels,
         \/ CancelRead(r) \/ CancelRow(r) \/ EnqueueOpening(r)
         \/ CancelFails(r) \/ EnqueueFails(r)
  PROVE  TypeOK'
<1> USE DEF CancelTo, CancelPc
<1>1. CASE CancelRead(r)
  BY <1>1 DEF CancelRead, TypeOK, fsp, poll, worker, Q!TypeOK, Q!In
<1>2. CASE CancelRow(r)
  BY <1>2 DEF CancelRow, TypeOK, fsp, poll, worker, Q!TypeOK, Q!In
<1>3. CASE CancelFails(r)
  BY <1>3 DEF CancelFails, Fault, TypeOK, fsp, poll, worker, Q!TypeOK, Q!In
<1>4. CASE EnqueueFails(r)
  BY <1>4 DEF EnqueueFails, Fault, TypeOK, fsp, poll, worker, Q!TypeOK, Q!In
<1>5. CASE EnqueueOpening(r)
  <2>1. r \in Jobs
    BY DEF Jobs
  <2>2. CASE queue' = queue
    BY <1>5, <2>2 DEF EnqueueOpening, TypeOK, fsp, poll, Q!TypeOK, Q!In
  <2>3. CASE Moved(r, "waiting") /\ queue[r].state = "absent"
    <3>1. Q!In("active")' = Q!In("active")
      BY <2>1, <2>3, AsActive
    <3> QED
      BY <1>5, <2>3, <3>1 DEF EnqueueOpening, TypeOK, fsp, poll, Moved
  <2> QED
    BY <1>5, <2>1, <2>2, <2>3, AddMoves DEF EnqueueOpening, TypeOK
<1> QED
  BY <1>1, <1>2, <1>3, <1>4, <1>5

LEMMA CrashType ==
  ASSUME TypeOK, WorkerCrash \/ ApiCrash
  PROVE  TypeOK'
<1>1. CASE ApiCrash
  <2>1. cancelPc' \in [Cancels -> CancelPc] /\ excuses' \subseteq excuses \cup {"opening"}
    BY <1>1 DEF ApiCrash, TypeOK, CancelPc
  <2>2. faults' \in Nat /\ UNCHANGED <<fsp, poll, worker, flight>>
    BY <1>1 DEF ApiCrash, Fault, TypeOK
  <2> QED
    BY <2>1, <2>2 DEF TypeOK, fsp, poll, worker, Q!TypeOK, Q!In
<1>2. CASE WorkerCrash
  <2>1. excuses' \in SUBSET {"change", "opening"}
    BY <1>2, CrashExcuses, SubjectType DEF TypeOK, Q!In
  <2>2. CASE UNCHANGED <<queue, stage, read, todo, inserted>>
    BY <1>2, <2>1, <2>2
    DEF WorkerCrash, EndPoll, Fault, PollPc, TypeOK, fsp, api, Q!TypeOK, Q!In
  <2>3. ASSUME NEW j \in Q!In("active"), Q!Stall(j),
               stage' = "none" /\ read' = NoHash /\ todo' = {},
               inserted' = [inserted EXCEPT ![j] = IF Q!Ended(j)' THEN {} ELSE @]
        PROVE  TypeOK'
    <3>1. j \in Jobs /\ queue[j].state = "active"
      BY DEF Q!In
    <3>2. Moved(j, "waiting") \/ Moved(j, "failed")
      BY <2>3, <3>1, StallMoves DEF TypeOK
    <3>3. Q!In("active")' = {}
      BY <3>1, <3>2, NowIdle
    <3>4. inserted' \in [Jobs -> SUBSET AllRows]
      BY <2>3, <3>1 DEF TypeOK
    <3> QED
      BY <1>2, <2>1, <2>3, <3>2, <3>3, <3>4
      DEF WorkerCrash, EndPoll, Fault, PollPc, TypeOK, Moved, fsp, api
  <2> QED
    BY <1>2, <2>2, <2>3, CrashExcuses, Zenon
<1> QED
  BY <1>1, <1>2

LEMMA TypeStep == TypeOK /\ [Next]_vars => TypeOK'
<1> SUFFICES ASSUME TypeOK, [Next]_vars PROVE TypeOK'
  OBVIOUS
<1>1. CASE UNCHANGED vars
  BY <1>1 DEF vars, TypeOK, fsp, poll, worker, api, Q!TypeOK, Q!In
<1>2. CASE Next
  BY <1>2, PollStepType, JobStepType, CancelStepType, CrashType DEF Next
<1> QED
  BY <1>1, <1>2

\* Typing, and that the worker has one job at a time and is at a stage exactly
\* while it has one.
THEOREM Typing == Spec => []TypeOK
<1>1. Init => TypeOK
  BY PipelineAssumption
  DEF Init, TypeOK, PollPc, CancelPc, Q!TypeOK, Q!JobRecord, Q!JobStates, Q!Empty, Q!In
<1> QED
  BY <1>1, TypeStep, PTL DEF Spec

-----------------------------------------------------------------------------
(***************************************************************************)
(* FreedIsOffered.  Each step either leaves every request that cares for   *)
(* the opening as it is, or moves one of their jobs, and then not to       *)
(* "failed" without an excuse.                                             *)
(***************************************************************************)

\* Job j has moved to s, and is excused if it was given up.
Excusably(j, s) ==
  Moved(j, s) /\ (s = "failed" => Subject(j) \in excuses')

JobMove == \E j \in Jobs : \E s \in {"waiting", "active", "completed", "failed"} :
             Excusably(j, s)

LEMMA QueueStep ==
  ASSUME TypeOK, Next
  PROVE  queue' = queue \/ JobMove
<1> USE DEF TypeOK
<1>1. CASE FspChange
  BY <1>1 DEF FspChange, worker
<1>2. CASE PollStep \/ StoreFails \/ AnnounceFails
  <2>1. CASE Announce
    <3>1. PICK j \in ChangeJobs : ~Q!Known(j) /\ Q!Add(j)
      BY <2>1, AnnounceAdds
    <3>2. j \in Jobs /\ Moved(j, "waiting")
      BY <3>1, AddMoves DEF Q!Known, Jobs
    <3> QED
      BY <3>2 DEF JobMove, Excusably
  <2> QED
    BY <1>2, <2>1
    DEF PollStep, Poll, StoreBaseline, StoreHash, StoreFails, AnnounceFails, worker
<1>3. ASSUME NEW j \in Jobs,
             StartJob(j) \/ JobStep(j) \/ PrepareFails(j) \/ PipelineFails(j)
      PROVE  queue' = queue \/ JobMove
  <2>1. CASE StartJob(j)
    BY <2>1, StartMoves DEF StartJob, JobMove, Excusably
  <2>2. CASE CompleteJob(j)
    BY <2>2, CompleteMoves DEF CompleteJob, JobMove, Excusably
  <2>3. CASE PrepareFails(j)
    <3>1. Moved(j, "waiting") \/ Moved(j, "failed")
      BY <2>3, ThrowMoves DEF PrepareFails
    <3>2. queue'[j].state = "failed" => Subject(j) \in excuses'
      BY <2>3, LeaveExcuses DEF PrepareFails
    <3> QED
      BY <3>1, <3>2 DEF JobMove, Excusably, Moved
  <2> QED
    BY <1>3, <2>1, <2>2, <2>3
    DEF JobStep, Prepare, InsertRow, SkipRow, PipelineFails
<1>4. ASSUME NEW r \in Cancels,
             \/ CancelRead(r) \/ CancelRow(r) \/ EnqueueOpening(r)
             \/ CancelFails(r) \/ EnqueueFails(r)
      PROVE  queue' = queue \/ JobMove
  <2>1. r \in Jobs
    BY DEF Jobs
  <2>2. queue' = queue \/ Moved(r, "waiting")
    BY <1>4, <2>1, AddMoves
    DEF CancelRead, CancelRow, CancelFails, EnqueueFails, EnqueueOpening, worker
  <2> QED
    BY <2>1, <2>2 DEF JobMove, Excusably
<1>5. CASE WorkerCrash
  <2>1. CASE UNCHANGED queue
    BY <2>1
  <2>2. ASSUME NEW j \in Q!In("active"), Q!Stall(j),
               queue'[j].state = "failed" => Subject(j) \in excuses'
        PROVE  JobMove
    <3>1. j \in Jobs /\ (Moved(j, "waiting") \/ Moved(j, "failed"))
      BY <2>2, StallMoves DEF Q!In
    <3> QED
      BY <2>2, <3>1 DEF JobMove, Excusably, Moved
  <2> QED
    BY <1>5, <2>1, <2>2, CrashExcuses, Zenon
<1>6. CASE ApiCrash
  BY <1>6 DEF ApiCrash, worker
<1> QED
  BY <1>1, <1>2, <1>3, <1>4, <1>5, <1>6, Zenon DEF Next

\* A job is cared for until it is given up.
LEMMA CareStays ==
  ASSUME TypeOK, queue' = queue \/ JobMove, NEW k \in Cancels,
         queue[k].state \in {"waiting", "active", "completed"}
  PROVE  \/ queue'[k].state \in {"waiting", "active", "completed"}
         \/ "opening" \in excuses'
<1>1. k \in Jobs
  BY DEF Jobs
<1>2. ASSUME NEW j \in Jobs,
             NEW s \in {"waiting", "active", "completed", "failed"}, Excusably(j, s)
      PROVE  \/ queue'[k].state \in {"waiting", "active", "completed"}
             \/ "opening" \in excuses'
  <2>1. CASE j = k
    BY <1>2, <2>1, SubjectType DEF Excusably, Moved
  <2>2. CASE j # k
    BY <1>1, <1>2, <2>2 DEF Excusably, Moved
  <2> QED
    BY <2>1, <2>2
<1> QED
  BY <1>2 DEF JobMove

LEMMA ExcusesStay ==
  ASSUME Next
  PROVE  excuses \subseteq excuses'
<1>1. CASE FspChange \/ ApiCrash \/ WorkerCrash
  BY <1>1, CrashExcuses, Zenon DEF FspChange, ApiCrash
<1>2. CASE PollStep \/ StoreFails \/ AnnounceFails
  BY <1>2 DEF PollStep, Poll, StoreBaseline, StoreHash, Announce, StoreFails,
     AnnounceFails
<1>3. ASSUME NEW j \in Jobs,
             StartJob(j) \/ JobStep(j) \/ PrepareFails(j) \/ PipelineFails(j)
      PROVE  excuses \subseteq excuses'
  <2>1. CASE CompleteJob(j) \/ PrepareFails(j)
    BY <2>1, LeaveExcuses DEF CompleteJob, PrepareFails
  <2>2. CASE PipelineFails(j)
    BY <2>2, Zenon DEF PipelineFails
  <2> QED
    BY <1>3, <2>1, <2>2 DEF StartJob, JobStep, Prepare, InsertRow, SkipRow
<1>4. ASSUME NEW r \in Cancels,
             \/ CancelRead(r) \/ CancelRow(r) \/ EnqueueOpening(r)
             \/ CancelFails(r) \/ EnqueueFails(r)
      PROVE  excuses \subseteq excuses'
  BY <1>4 DEF CancelRead, CancelRow, EnqueueOpening, CancelFails, EnqueueFails
<1> QED
  BY <1>1, <1>2, <1>3, <1>4, Zenon DEF Next

\* A job that was given up is excused.
GivenUpExcused == \A r \in Cancels : queue[r].state = "failed" => "opening" \in excuses

\* A request about to enqueue does so, or there is an excuse.
LEMMA EnqueueStays ==
  ASSUME TypeOK, GivenUpExcused, Next, NEW k \in Cancels, cancelPc[k] = "enqueue"
  PROVE  CaresFor(k)' \/ "opening" \in excuses'
<1>1. CASE UNCHANGED cancelPc
  BY <1>1 DEF CaresFor
<1>2. ASSUME NEW r \in Cancels,
             \/ CancelRead(r) \/ CancelRow(r) \/ EnqueueOpening(r)
             \/ CancelFails(r) \/ EnqueueFails(r)
      PROVE  CaresFor(k)' \/ "opening" \in excuses'
  <2>1. CASE EnqueueOpening(k)
    <3>1. k \in Jobs
      BY DEF Jobs
    <3>2. Moved(k, "waiting") \/ (queue[k].state # "absent" /\ queue' = queue)
      BY <2>1, <3>1, AddMoves DEF EnqueueOpening, TypeOK
    <3>3. queue[k].state \in Q!JobStates
      BY <3>1 DEF TypeOK, Q!TypeOK, Q!JobRecord
    <3>4. queue[k].state = "failed" => "opening" \in excuses'
      BY ExcusesStay DEF GivenUpExcused
    <3> QED
      BY <3>2, <3>3, <3>4 DEF CaresFor, Moved, Q!JobStates
  <2>2. CASE EnqueueFails(k)
    BY <2>2 DEF EnqueueFails
  <2>3. CASE cancelPc'[k] = cancelPc[k]
    BY <2>3 DEF CaresFor
  <2>4. r # k => cancelPc'[k] = cancelPc[k]
    BY <1>2 DEF CancelRead, CancelRow, EnqueueOpening, CancelFails, EnqueueFails,
       CancelTo, TypeOK
  <2>5. ~CancelRead(k) /\ ~CancelRow(k) /\ ~CancelFails(k)
    BY DEF CancelRead, CancelRow, CancelFails, CancelTo
  <2> QED
    BY <1>2, <2>1, <2>2, <2>3, <2>4, <2>5
<1>3. CASE ApiCrash
  BY <1>3, Zenon DEF ApiCrash
<1>4. CASE FspChange \/ PollStep \/ StoreFails \/ AnnounceFails \/ WorkerCrash
  BY <1>1, <1>4 DEF FspChange, PollStep, Poll, StoreBaseline, StoreHash, Announce,
     StoreFails, AnnounceFails, WorkerCrash, api
<1>5. ASSUME NEW j \in Jobs,
             StartJob(j) \/ JobStep(j) \/ PrepareFails(j) \/ PipelineFails(j)
      PROVE  UNCHANGED cancelPc
  BY <1>5 DEF StartJob, JobStep, Prepare, InsertRow, SkipRow, CompleteJob,
     PrepareFails, PipelineFails, api
<1> QED
  BY <1>1, <1>2, <1>3, <1>4, <1>5, Zenon DEF Next
LEMMA FreedStep ==
  ASSUME TypeOK, FreedIsOffered, GivenUpExcused, Next
  PROVE  FreedIsOffered'
<1> SUFFICES ASSUME flight' = "cancelled", "opening" \notin excuses'
             PROVE  \E r \in Cancels : CaresFor(r)'
  BY DEF FreedIsOffered
<1>1. CASE flight = "cancelled"
  <2>1. PICK r \in Cancels : CaresFor(r)
    BY <1>1, ExcusesStay DEF FreedIsOffered
  <2>2. CASE cancelPc[r] = "enqueue"
    BY <2>2, EnqueueStays
  <2>3. CASE queue[r].state \in {"waiting", "active", "completed"}
    BY <2>3, QueueStep, CareStays DEF CaresFor
  <2> QED
    BY <2>1, <2>2, <2>3 DEF CaresFor
<1>2. CASE flight # "cancelled"
  <2>1. PICK r \in Cancels : CancelRow(r)
    <3>1. ASSUME NEW r \in Cancels,
                 \/ CancelRead(r) \/ EnqueueOpening(r)
                 \/ CancelFails(r) \/ EnqueueFails(r)
          PROVE  UNCHANGED flight
      BY <3>1 DEF CancelRead, EnqueueOpening, CancelFails, EnqueueFails
    <3>2. ASSUME NEW j \in Jobs,
                 StartJob(j) \/ JobStep(j) \/ PrepareFails(j) \/ PipelineFails(j)
          PROVE  UNCHANGED flight
      BY <3>2 DEF StartJob, JobStep, Prepare, InsertRow, SkipRow, CompleteJob,
         PrepareFails, PipelineFails, api
    <3>3. ASSUME \/ FspChange \/ PollStep \/ StoreFails \/ AnnounceFails
                 \/ WorkerCrash \/ ApiCrash
          PROVE  UNCHANGED flight
      BY <3>3 DEF FspChange, PollStep, Poll, StoreBaseline, StoreHash, Announce,
         StoreFails, AnnounceFails, WorkerCrash, ApiCrash, api
    <3> QED
      BY <1>2, <3>1, <3>2, <3>3, Zenon DEF Next
  <2>2. cancelPc'[r] = "enqueue"
    BY <2>1 DEF CancelRow, CancelTo, TypeOK
  <2> QED
    BY <2>2 DEF CaresFor
<1> QED
  BY <1>1, <1>2

LEMMA GivenUpStep ==
  ASSUME TypeOK, GivenUpExcused, Next
  PROVE  GivenUpExcused'
<1> SUFFICES ASSUME NEW k \in Cancels, queue'[k].state = "failed"
             PROVE  "opening" \in excuses'
  BY DEF GivenUpExcused
<1>1. k \in Jobs
  BY DEF Jobs
<1>2. CASE queue[k].state = "failed"
  BY <1>2, ExcusesStay DEF GivenUpExcused
<1>3. CASE queue[k].state # "failed"
  <2>1. PICK j \in Jobs, s \in {"waiting", "active", "completed", "failed"} :
          Excusably(j, s)
    BY <1>3, QueueStep DEF JobMove
  <2>2. j = k
    BY <1>1, <1>3, <2>1 DEF Excusably, Moved
  <2> QED
    BY <2>1, <2>2, SubjectType DEF Excusably, Moved
<1> QED
  BY <1>2, <1>3

\* The slot of a cancelled reservation is cared for, through retries, crashes and
\* further requests, until a job has gone through its candidates: only an enqueue
\* that is lost, a job given up or a failed pipeline ends that.
THEOREM FreedOffered == Spec => []FreedIsOffered
<1>1. Init => FreedIsOffered /\ GivenUpExcused
  BY DEF Init, FreedIsOffered, GivenUpExcused, Q!Empty, Jobs
<1>2. TypeOK /\ FreedIsOffered /\ GivenUpExcused /\ [Next]_vars
        => FreedIsOffered' /\ GivenUpExcused'
  <2>1. FreedIsOffered /\ GivenUpExcused /\ UNCHANGED vars
          => FreedIsOffered' /\ GivenUpExcused'
    BY DEF vars, api, worker, FreedIsOffered, CaresFor, GivenUpExcused
  <2> QED
    BY <2>1, FreedStep, GivenUpStep
<1> QED
  BY <1>1, <1>2, Typing, PTL DEF Spec

-----------------------------------------------------------------------------
(***************************************************************************)
(* NoChangeForgotten.  It says nothing of the job that is at work with a   *)
(* schedule that is no longer the present one and that will be served when *)
(* it completes: ReadCovered does.                                         *)
(***************************************************************************)

\* Something will see the present schedule.
Covered ==
  \/ schedule # stored \/ pollPc = "announce"
  \/ \E j \in ChangeJobs : WillSee(j)
  \/ "change" \in excuses

\* Nothing is announced before there is a baseline.
Baseline ==
  stored = NoHash => pollPc # "announce" /\ \A j \in ChangeJobs : ~Q!Known(j)

ReadCovered ==
  \A j \in ChangeJobs :
    queue[j].state = "active" /\ stage = "insert" /\ read # schedule => Covered

IInv == TypeOK /\ Baseline /\ NoChangeForgotten /\ ReadCovered

\* What is covered stays so, or the generator has just caught up.
CaughtUp == served' = schedule' /\ stage' = "none"

LEMMA CoveredPoll ==
  ASSUME TypeOK, Covered, stored # NoHash,
         FspChange \/ PollStep \/ StoreFails \/ AnnounceFails
  PROVE  Covered'
<1>1. CASE FspChange
  <2>1. schedule' # stored \/ "change" \in excuses'
    BY <1>1, Zenon DEF FspChange
  <2> QED
    BY <1>1, <2>1 DEF FspChange, poll, Covered
<1>2. CASE Poll
  BY <1>2 DEF Poll, Covered, fsp
<1>3. CASE StoreBaseline
  BY <1>3 DEF StoreBaseline
<1>4. CASE StoreHash
  BY <1>4 DEF StoreHash, Covered
<1>5. CASE StoreFails
  BY <1>5 DEF StoreFails, EndPoll, Covered, WillSee, worker, fsp
<1>6. CASE AnnounceFails
  BY <1>6 DEF AnnounceFails, Covered
<1>7. CASE Announce
  <2>1. PICK j \in ChangeJobs : ~Q!Known(j) /\ Q!Add(j)
    BY <1>7, AnnounceAdds
  <2>2. Moved(j, "waiting")
    BY <2>1, AddMoves DEF Q!Known, Jobs, TypeOK
  <2> QED
    BY <2>2 DEF Covered, WillSee, Moved
<1> QED
  BY <1>1, <1>2, <1>3, <1>4, <1>5, <1>6, <1>7 DEF PollStep

\* Only job j has moved, and it still covers what it covered.
LEMMA CoveredMove ==
  ASSUME TypeOK, Covered, NEW j \in Jobs, NEW s, Moved(j, s),
         UNCHANGED <<fsp, stored>>, excuses \subseteq excuses',
         pollPc = "announce" => pollPc' = "announce" \/ "change" \in excuses',
         queue[j].state = "active" \/ Q!In("active") = {},
         j \in ChangeJobs /\ WillSee(j) => Covered'
  PROVE  Covered'
<1>1. \A k \in ChangeJobs \ {j} : WillSee(k) => WillSee(k)'
  <2> SUFFICES ASSUME NEW k \in ChangeJobs, k # j, WillSee(k)
               PROVE  WillSee(k)'
    OBVIOUS
  <2>1. k \in Jobs /\ queue'[k] = queue[k]
    BY DEF Jobs, Moved
  <2>2. queue[k].state # "active"
    BY <2>1 DEF TypeOK, Q!In
  <2> QED
    BY <2>1, <2>2 DEF WillSee
<1> QED
  BY <1>1 DEF Covered, fsp

LEMMA CoveredJob ==
  ASSUME TypeOK, Covered, NEW j \in Jobs,
         StartJob(j) \/ JobStep(j) \/ PrepareFails(j) \/ PipelineFails(j)
  PROVE  Covered' \/ CaughtUp
<1>1. CASE StartJob(j)
  <2>1. Moved(j, "active") /\ Q!In("active") = {}
    BY <1>1, StartMoves DEF StartJob, TypeOK
  <2>2. j \in ChangeJobs => Covered'
    BY <1>1, <2>1 DEF StartJob, Moved, Covered, WillSee
  <2> QED
    BY <1>1, <2>1, <2>2, CoveredMove DEF StartJob, poll
<1>2. CASE Prepare(j)
  <2>1. \A k \in ChangeJobs : WillSee(k) => WillSee(k)'
    <3> SUFFICES ASSUME NEW k \in ChangeJobs, WillSee(k), queue[k].state = "active"
                 PROVE  WillSee(k)'
      BY <1>2 DEF Prepare, WillSee
    <3>1. k = j
      BY <1>2 DEF Prepare, TypeOK, Q!In, Jobs
    <3> QED
      BY <1>2, <3>1 DEF Prepare, WillSee, fsp
  <2> QED
    BY <1>2, <2>1 DEF Prepare, Covered, fsp, poll
<1>3. CASE InsertRow(j) \/ SkipRow(j) \/ PipelineFails(j)
  <2>1. UNCHANGED <<schedule, stored, pollPc, queue, stage, read>>
    BY <1>3 DEF InsertRow, SkipRow, PipelineFails, fsp, poll
  <2>2. excuses \subseteq excuses'
    <3>1. CASE PipelineFails(j)
      BY <3>1, Zenon DEF PipelineFails
    <3> QED
      BY <1>3, <3>1 DEF InsertRow, SkipRow
  <2> QED
    BY <2>1, <2>2 DEF Covered, WillSee
<1>4. CASE CompleteJob(j)
  <2>1. Moved(j, "completed") /\ queue[j].state = "active"
    BY <1>4, CompleteMoves DEF CompleteJob, TypeOK
  <2>2. /\ UNCHANGED <<fsp, poll>> /\ stage' = "none"
        /\ j \in ChangeJobs => served' = read
    BY <1>4 DEF CompleteJob, Leave
  <2>3. excuses \subseteq excuses'
    BY <1>4, Zenon DEF CompleteJob, Leave
  <2>4. CASE j \in ChangeJobs /\ WillSee(j)
    BY <1>4, <2>1, <2>2, <2>4 DEF CompleteJob, WillSee, CaughtUp, fsp
  <2>5. CASE ~(j \in ChangeJobs /\ WillSee(j))
    BY <2>1, <2>2, <2>3, <2>5, CoveredMove DEF poll
  <2> QED
    BY <2>4, <2>5
<1>5. CASE PrepareFails(j)
  <2>1. queue[j].state = "active" /\ (Moved(j, "waiting") \/ Moved(j, "failed"))
    BY <1>5, ThrowMoves DEF PrepareFails, TypeOK, Q!Throw
  <2>2. /\ UNCHANGED <<fsp, poll>>
        /\ excuses \subseteq excuses'
        /\ j \in ChangeJobs /\ queue'[j].state = "failed" => "change" \in excuses'
    BY <1>5, LeaveExcuses, SubjectType DEF PrepareFails
  <2>3. j \in ChangeJobs => Covered'
    BY <2>1, <2>2 DEF Moved, Covered, WillSee
  <2> QED
    BY <2>1, <2>2, <2>3, CoveredMove DEF poll
<1> QED
  BY <1>1, <1>2, <1>3, <1>4, <1>5 DEF JobStep

LEMMA CoveredCancel ==
  ASSUME TypeOK, Covered, NEW r \in Cancels,
         \/ CancelRead(r) \/ CancelRow(r) \/ EnqueueOpening(r)
         \/ CancelFails(r) \/ EnqueueFails(r)
  PROVE  Covered'
<1>1. /\ UNCHANGED <<schedule, stored, pollPc, stage, read>>
      /\ excuses \subseteq excuses'
  BY DEF CancelRead, CancelRow, EnqueueOpening, CancelFails, EnqueueFails,
         fsp, poll, worker
<1>2. \A k \in ChangeJobs : queue'[k] = queue[k]
  <2>1. CASE EnqueueOpening(r)
    <3>1. r \in Jobs
      BY DEF Jobs
    <3>2. Moved(r, "waiting") \/ queue' = queue
      BY <2>1, <3>1, AddMoves DEF EnqueueOpening, TypeOK
    <3> QED
      BY <3>2, PipelineAssumption DEF Moved, Jobs
  <2> QED
    BY <2>1 DEF CancelRead, CancelRow, CancelFails, EnqueueFails, worker
<1> QED
  BY <1>1, <1>2 DEF Covered, WillSee

LEMMA CoveredCrash ==
  ASSUME TypeOK, Covered, WorkerCrash \/ ApiCrash
  PROVE  Covered'
<1>1. CASE ApiCrash
  <2>1. excuses \subseteq excuses' /\ UNCHANGED <<fsp, poll, worker>>
    BY <1>1, Zenon DEF ApiCrash
  <2> QED
    BY <2>1 DEF Covered, WillSee, fsp, poll, worker
<1>2. CASE WorkerCrash
  <2>1. /\ UNCHANGED <<fsp, stored>> /\ excuses \subseteq excuses'
        /\ pollPc = "announce" => "change" \in excuses'
    BY <1>2, CrashExcuses DEF WorkerCrash
  <2>2. CASE UNCHANGED <<queue, stage, read>>
    BY <2>1, <2>2 DEF Covered, WillSee, fsp
  <2>3. ASSUME NEW j \in Q!In("active"), Q!Stall(j),
               queue'[j].state = "failed" => Subject(j) \in excuses'
        PROVE  Covered'
    <3>1. j \in Jobs /\ queue[j].state = "active"
      BY DEF Q!In
    <3>2. Moved(j, "waiting") \/ Moved(j, "failed")
      BY <2>3, <3>1, StallMoves DEF TypeOK
    <3>3. j \in ChangeJobs => Covered'
      BY <2>3, <3>1, <3>2, SubjectType DEF Moved, Covered, WillSee
    <3> QED
      BY <2>1, <3>1, <3>2, <3>3, CoveredMove
  <2> QED
    BY <1>2, <2>2, <2>3, CrashExcuses, Zenon
<1> QED
  BY <1>1, <1>2

LEMMA CoveredStep ==
  ASSUME TypeOK, Covered, stored # NoHash, Next
  PROVE  Covered' \/ CaughtUp
BY CoveredPoll, CoveredJob, CoveredCancel, CoveredCrash, Zenon DEF Next

\* The history catches up only with the present schedule.
LEMMA ServedStep ==
  ASSUME IInv, Next, stored # NoHash, served' # schedule'
  PROVE  Covered \/ Covered'
<1>1. CASE served # schedule
  BY <1>1 DEF IInv, NoChangeForgotten, Covered
<1>2. CASE FspChange
  <2>1. schedule' # stored \/ "change" \in excuses'
    BY <1>2, Zenon DEF FspChange
  <2> QED
    BY <1>2, <2>1 DEF FspChange, poll, Covered
<1>3. ASSUME NEW j \in Jobs, CompleteJob(j), j \in ChangeJobs
      PROVE  Covered
  <2>1. queue[j].state = "active" /\ stage = "insert"
    BY <1>3 DEF CompleteJob, Q!Complete, Q!Move
  <2>2. read # schedule
    BY <1>3 DEF CompleteJob, fsp
  <2> QED
    BY <1>3, <2>1, <2>2 DEF IInv, ReadCovered
<1>4. CASE StoreBaseline
  BY <1>4 DEF StoreBaseline
<1>5. CASE UNCHANGED <<schedule, served>>
  BY <1>1, <1>5
<1>6. CASE \/ (PollStep /\ ~StoreBaseline)
           \/ StoreFails \/ AnnounceFails \/ WorkerCrash \/ ApiCrash
  <2>1. UNCHANGED <<schedule, served>>
    BY <1>6 DEF PollStep, Poll, StoreHash, Announce, StoreFails, AnnounceFails,
                WorkerCrash, ApiCrash, fsp, worker
  <2> QED
    BY <2>1, <1>5
<1>7. ASSUME NEW j \in Jobs,
             \/ StartJob(j) \/ (JobStep(j) /\ (CompleteJob(j) => j \notin ChangeJobs))
             \/ PrepareFails(j) \/ PipelineFails(j)
      PROVE  UNCHANGED <<schedule, served>>
  BY <1>7 DEF StartJob, JobStep, Prepare, InsertRow, SkipRow, CompleteJob,
              PrepareFails, PipelineFails, fsp
<1>8. ASSUME NEW r \in Cancels,
             \/ CancelRead(r) \/ CancelRow(r) \/ EnqueueOpening(r)
             \/ CancelFails(r) \/ EnqueueFails(r)
      PROVE  UNCHANGED <<schedule, served>>
  BY <1>8 DEF CancelRead, CancelRow, EnqueueOpening, CancelFails, EnqueueFails,
              fsp, worker
<1> QED
  BY <1>2, <1>3, <1>4, <1>5, <1>6, <1>7, <1>8, Zenon DEF Next

\* The baseline: the poll has just seen what it stores.
LEMMA BaselineStep ==
  ASSUME IInv, Next, stored = NoHash
  PROVE  /\ stored' = NoHash \/ served' = stored'
         /\ Baseline'
<1> USE DEF IInv
<1>1. CASE StoreBaseline
  BY <1>1 DEF StoreBaseline, TypeOK, Baseline
<1>2. CASE Poll \/ StoreFails \/ FspChange \/ ApiCrash
  <2>1. /\ stored' = stored /\ queue' = queue
        /\ pollPc' # "announce"
    BY <1>2 DEF Poll, StoreFails, EndPoll, FspChange, ApiCrash, Baseline, worker, poll
  <2> QED
    BY <2>1 DEF Baseline, Q!Known
<1>3. CASE StoreHash \/ Announce \/ AnnounceFails
  BY <1>3 DEF StoreHash, Announce, AnnounceFails, Baseline
<1>4. ASSUME NEW j \in Jobs, NEW s \in {"waiting", "active", "completed", "failed"},
             Moved(j, s), j \notin ChangeJobs,
             stored' = stored, pollPc' # "announce"
      PROVE  Baseline'
  BY <1>4 DEF Baseline, Moved, Q!Known, Jobs
<1>5. ASSUME NEW j \in Jobs,
             StartJob(j) \/ JobStep(j) \/ PrepareFails(j) \/ PipelineFails(j)
      PROVE  stored' = stored /\ Baseline'
  <2>1. stored' = stored /\ pollPc' = pollPc /\ queue[j].state # "absent"
    BY <1>5 DEF StartJob, JobStep, Prepare, InsertRow, SkipRow, CompleteJob,
                PrepareFails, PipelineFails, poll, Q!Start, Q!Complete, Q!Throw, Q!Move
  <2>2. j \notin ChangeJobs
    BY <2>1 DEF Baseline, Q!Known
  <2>3. \/ queue' = queue \/ Moved(j, "active") \/ Moved(j, "completed")
        \/ Moved(j, "waiting") \/ Moved(j, "failed")
    BY <1>5, StartMoves, CompleteMoves, ThrowMoves
    DEF StartJob, JobStep, Prepare, InsertRow, SkipRow, CompleteJob, PrepareFails,
        PipelineFails, TypeOK
  <2> QED
    BY <1>4, <2>1, <2>2, <2>3 DEF Baseline, Q!Known
<1>6. ASSUME NEW r \in Cancels,
             \/ CancelRead(r) \/ CancelRow(r) \/ EnqueueOpening(r)
             \/ CancelFails(r) \/ EnqueueFails(r)
      PROVE  stored' = stored /\ Baseline'
  <2>1. stored' = stored /\ pollPc' = pollPc
    BY <1>6 DEF CancelRead, CancelRow, EnqueueOpening, CancelFails, EnqueueFails, poll
  <2>2. r \in Jobs /\ r \notin ChangeJobs
    BY PipelineAssumption DEF Jobs
  <2>3. queue' = queue \/ Moved(r, "waiting")
    BY <1>6, <2>2, AddMoves
    DEF CancelRead, CancelRow, CancelFails, EnqueueFails, EnqueueOpening, worker, TypeOK
  <2> QED
    BY <1>4, <2>1, <2>2, <2>3 DEF Baseline, Q!Known
<1>7. CASE WorkerCrash
  <2>1. stored' = stored /\ pollPc' # "announce"
    BY <1>7 DEF WorkerCrash, EndPoll
  <2>2. queue' = queue \/ \E j \in Q!In("active") : Q!Stall(j)
    BY <1>7, Zenon DEF WorkerCrash
  <2>3. ASSUME NEW j \in Q!In("active"), Q!Stall(j)
        PROVE  /\ j \in Jobs /\ j \notin ChangeJobs
               /\ Moved(j, "waiting") \/ Moved(j, "failed")
    BY <2>3, StallMoves DEF Q!In, Baseline, Q!Known, TypeOK
  <2> QED
    BY <1>4, <2>1, <2>2, <2>3 DEF Baseline, Q!Known
<1> QED
  BY <1>1, <1>2, <1>3, <1>5, <1>6, <1>7, Zenon DEF Next, PollStep

\* The hash is only ever replaced by what the poll has seen.
LEMMA StoredStep ==
  ASSUME TypeOK, Next, stored # NoHash
  PROVE  stored' # NoHash
<1>1. CASE StoreBaseline \/ StoreHash
  BY <1>1 DEF StoreBaseline, StoreHash, TypeOK
<1>2. CASE FspChange \/ Poll \/ Announce \/ StoreFails \/ AnnounceFails \/ WorkerCrash
           \/ ApiCrash
  BY <1>2 DEF FspChange, Poll, Announce, StoreFails, AnnounceFails, WorkerCrash,
              ApiCrash, poll
<1>3. ASSUME NEW j \in Jobs,
             StartJob(j) \/ JobStep(j) \/ PrepareFails(j) \/ PipelineFails(j)
      PROVE  stored' # NoHash
  BY <1>3 DEF StartJob, JobStep, Prepare, InsertRow, SkipRow, CompleteJob, PrepareFails,
              PipelineFails, poll
<1>4. ASSUME NEW r \in Cancels,
             \/ CancelRead(r) \/ CancelRow(r) \/ EnqueueOpening(r)
             \/ CancelFails(r) \/ EnqueueFails(r)
      PROVE  stored' # NoHash
  BY <1>4 DEF CancelRead, CancelRow, EnqueueOpening, CancelFails, EnqueueFails, poll
<1> QED
  BY <1>1, <1>2, <1>3, <1>4, Zenon DEF Next, PollStep

\* A job that inserts now was at it before, and had then read the same schedule,
\* or has just read the present one.
LEMMA InsertingStep ==
  ASSUME TypeOK, Next, NEW j \in ChangeJobs,
         queue'[j].state = "active", stage' = "insert"
  PROVE  \/ FspChange
         \/ read' = schedule'
         \/ /\ queue[j].state = "active" /\ stage = "insert"
            /\ UNCHANGED <<read, schedule>>
<1> USE DEF TypeOK
<1>1. j \in Jobs /\ j \notin Cancels
  BY PipelineAssumption DEF Jobs
<1>2. CASE PollStep \/ StoreFails \/ AnnounceFails
  <2>1. UNCHANGED <<read, schedule, stage>>
    BY <1>2 DEF PollStep, Poll, StoreBaseline, StoreHash, Announce, StoreFails,
                AnnounceFails, worker, fsp
  <2>2. queue'[j].state # "waiting" => queue'[j] = queue[j]
    <3>1. CASE Announce
      <4>1. PICK k \in ChangeJobs : ~Q!Known(k) /\ Q!Add(k)
        BY <3>1, AnnounceAdds
      <4>2. Moved(k, "waiting")
        BY <4>1, AddMoves DEF Q!Known, Jobs
      <4> QED
        BY <1>1, <4>2 DEF Moved
    <3> QED
      BY <1>2, <3>1 DEF PollStep, Poll, StoreBaseline, StoreHash, StoreFails,
                        AnnounceFails, worker
  <2> QED
    BY <2>1, <2>2
<1>3. ASSUME NEW k \in Jobs,
             StartJob(k) \/ JobStep(k) \/ PrepareFails(k) \/ PipelineFails(k)
      PROVE  \/ read' = schedule'
             \/ /\ queue[j].state = "active" /\ stage = "insert"
                /\ UNCHANGED <<read, schedule>>
  <2>1. CASE StartJob(k) \/ CompleteJob(k) \/ PrepareFails(k)
    BY <2>1 DEF StartJob, CompleteJob, PrepareFails, Leave
  <2>2. CASE InsertRow(k) \/ SkipRow(k) \/ PipelineFails(k)
    BY <2>2 DEF InsertRow, SkipRow, PipelineFails, fsp
  <2>3. CASE Prepare(k)
    <3>1. k = j
      BY <1>1, <2>3 DEF Prepare, Q!In
    <3> QED
      BY <2>3, <3>1 DEF Prepare, fsp
  <2> QED
    BY <1>3, <2>1, <2>2, <2>3 DEF JobStep
<1>4. ASSUME NEW r \in Cancels,
             \/ CancelRead(r) \/ CancelRow(r) \/ EnqueueOpening(r)
             \/ CancelFails(r) \/ EnqueueFails(r)
      PROVE  queue[j].state = "active" /\ UNCHANGED <<read, schedule, stage>>
  <2>1. r \in Jobs /\ r # j
    BY <1>1 DEF Jobs
  <2>2. queue'[j] = queue[j]
    BY <1>1, <1>4, <2>1, AddMoves DEF EnqueueOpening, CancelRead, CancelRow,
       CancelFails, EnqueueFails, worker, Moved
  <2> QED
    BY <1>4, <2>2 DEF EnqueueOpening, CancelRead, CancelRow, CancelFails,
                      EnqueueFails, worker, fsp
<1>5. CASE ApiCrash
  BY <1>5 DEF ApiCrash, worker, fsp
<1>6. CASE WorkerCrash
  <2>1. \/ UNCHANGED <<queue, stage, read>> \/ stage' = "none"
    BY <1>6, Zenon DEF WorkerCrash
  <2>2. UNCHANGED schedule
    BY <1>6 DEF WorkerCrash, fsp
  <2> QED
    BY <2>1, <2>2
<1> QED
  BY <1>2, <1>3, <1>4, <1>5, <1>6, Zenon DEF Next

LEMMA ForgottenStep == IInv /\ [Next]_vars => IInv'
<1> SUFFICES ASSUME IInv, Next PROVE Baseline' /\ NoChangeForgotten' /\ ReadCovered'
  <2>1. IInv /\ UNCHANGED vars => Baseline' /\ NoChangeForgotten' /\ ReadCovered'
    BY DEF IInv, vars, Baseline, NoChangeForgotten, ReadCovered, Covered, WillSee,
           Q!Known, fsp, poll, worker
  <2> QED
    BY <2>1, TypeStep DEF IInv
<1> USE DEF IInv
<1>1. Baseline'
  BY BaselineStep, StoredStep DEF Baseline
<1>2. NoChangeForgotten'
  <2> SUFFICES ASSUME stored' # NoHash, served' # schedule' PROVE Covered'
    BY DEF NoChangeForgotten, Covered
  <2>1. CASE stored = NoHash
    BY <2>1, BaselineStep DEF Covered
  <2>2. CASE stored # NoHash
    BY <2>2, ServedStep, CoveredStep DEF CaughtUp
  <2> QED
    BY <2>1, <2>2
<1>3. ReadCovered'
  <2> SUFFICES ASSUME NEW j \in ChangeJobs, queue'[j].state = "active",
                      stage' = "insert", read' # schedule'
               PROVE  Covered'
    BY DEF ReadCovered
  <2>1. CASE FspChange
    <3>1. schedule' # stored \/ "change" \in excuses'
      BY <2>1, Zenon DEF FspChange
    <3> QED
      BY <2>1, <3>1 DEF FspChange, poll, Covered
  <2>2. CASE queue[j].state = "active" /\ stage = "insert" /\ UNCHANGED <<read, schedule>>
    <3>1. Covered /\ stored # NoHash
      BY <2>2 DEF ReadCovered, Baseline, Q!Known
    <3> QED
      BY <3>1, CoveredStep DEF CaughtUp
  <2> QED
    BY <2>1, <2>2, InsertingStep
<1> QED
  BY <1>1, <1>2, <1>3

\* Once there is a baseline, no change of the schedule is forgotten but one whose
\* job was lost between the hash and the queue, or given up.
THEOREM NothingForgotten == Spec => []NoChangeForgotten
<1>1. Init => IInv
  <2>1. Init => TypeOK
    BY PipelineAssumption
    DEF Init, TypeOK, PollPc, CancelPc, Q!TypeOK, Q!JobRecord, Q!JobStates, Q!Empty, Q!In
  <2> QED
    BY <2>1 DEF Init, IInv, Baseline, NoChangeForgotten, ReadCovered, Q!Known, Q!Empty, Jobs
<1>2. IInv => NoChangeForgotten
  BY DEF IInv
<1> QED
  BY <1>1, <1>2, ForgottenStep, PTL DEF Spec

-----------------------------------------------------------------------------
(***************************************************************************)
(* OfferedOnce.  A job that has inserted rows is at it, and has not to     *)
(* insert them again: it throws before its first row or not at all.        *)
(***************************************************************************)

RowsOnce ==
  \A j \in Jobs :
    \/ queue[j].stalled \/ inserted[j] = {}
    \/ queue[j].state = "active" /\ stage = "insert" /\ inserted[j] \cap todo = {}

\* A job moves without rows, or with the worker's death.
LEMMA RowsMove ==
  ASSUME TypeOK, RowsOnce, OfferedOnce, NEW j \in Jobs, NEW s, Moved(j, s),
         queue[j].state = "active" \/ Q!In("active") = {},
         \A k \in Jobs \ {j} : inserted'[k] = inserted[k],
         \/ inserted'[j] = {} \/ queue'[j].stalled
         \/ inserted'[j] = inserted[j] /\ (queue[j].state # "active" \/ stage # "insert"),
         repeated' = repeated
  PROVE  RowsOnce' /\ OfferedOnce'
<1>1. \A k \in Jobs : queue[k].stalled => queue'[k].stalled
  BY DEF Moved
<1>2. OfferedOnce'
  BY <1>1 DEF OfferedOnce, TypeOK
<1>3. ASSUME NEW k \in Jobs, k # j
      PROVE  queue'[k].stalled \/ inserted'[k] = {}
  <2>1. queue[k].state # "active"
    BY <1>3 DEF TypeOK, Q!In
  <2> QED
    BY <1>1, <1>3, <2>1 DEF RowsOnce
<1>4. queue'[j].stalled \/ inserted'[j] = {}
  BY <1>1 DEF RowsOnce
<1> QED
  BY <1>2, <1>3, <1>4 DEF RowsOnce

\* Nothing moves, and nothing is inserted.
LEMMA RowsStay ==
  ASSUME RowsOnce, OfferedOnce, UNCHANGED <<queue, stage, inserted, repeated>>,
         todo' \subseteq todo
  PROVE  RowsOnce' /\ OfferedOnce'
BY DEF RowsOnce, OfferedOnce

\* A job that was not known is added, and has inserted nothing.
LEMMA RowsAdd ==
  ASSUME TypeOK, RowsOnce, OfferedOnce, NEW j \in Jobs, Q!Add(j),
         UNCHANGED <<stage, todo, inserted, repeated>>
  PROVE  RowsOnce' /\ OfferedOnce'
<1>1. CASE queue' = queue
  BY <1>1, RowsStay
<1>2. CASE Moved(j, "waiting") /\ queue[j].state = "absent"
  <2>1. \A k \in Jobs : queue[k].stalled => queue'[k].stalled
    BY <1>2 DEF Moved
  <2>2. OfferedOnce'
    BY <2>1 DEF OfferedOnce, TypeOK
  <2>3. RowsOnce'
    BY <1>2, <2>1 DEF RowsOnce, Moved
  <2> QED
    BY <2>2, <2>3
<1> QED
  BY <1>1, <1>2, AddMoves DEF TypeOK

LEMMA RowsJob ==
  ASSUME TypeOK, RowsOnce, OfferedOnce, NEW j \in Jobs,
         StartJob(j) \/ JobStep(j) \/ PrepareFails(j) \/ PipelineFails(j)
  PROVE  RowsOnce' /\ OfferedOnce'
<1>1. CASE StartJob(j)
  <2>1. Moved(j, "active") /\ Q!In("active") = {}
    BY <1>1, StartMoves DEF StartJob, TypeOK
  <2>2. queue[j].state # "active" /\ UNCHANGED <<inserted, repeated>>
    BY <1>1, <2>1 DEF StartJob, Q!In
  <2> QED
    BY <2>1, <2>2, RowsMove
<1>2. CASE Prepare(j)
  <2>1. \A k \in Jobs : queue[k].stalled \/ inserted[k] = {}
    BY <1>2 DEF Prepare, RowsOnce
  <2> QED
    BY <1>2, <2>1 DEF Prepare, RowsOnce, OfferedOnce
<1>3. CASE InsertRow(j)
  <2>1. PICK o \in todo :
          /\ todo' = todo \ {o}
          /\ inserted' = [inserted EXCEPT ![j] = @ \cup {o}]
          /\ repeated' = repeated \cup {k \in {j} : o \in inserted[k]}
    BY <1>3, Zenon DEF InsertRow
  <2>2. queue[j].state = "active" /\ UNCHANGED <<queue, stage>> /\ stage = "insert"
    BY <1>3 DEF InsertRow
  <2>3. \A k \in Jobs \ {j} : queue[k].state # "active" /\ inserted'[k] = inserted[k]
    BY <2>1, <2>2 DEF TypeOK, Q!In
  <2>4. queue[j].stalled \/ inserted[j] = {} \/ inserted[j] \cap todo = {}
    BY DEF RowsOnce
  <2>5. inserted'[j] = inserted[j] \cup {o}
    BY <2>1 DEF TypeOK
  <2>6. RowsOnce'
    BY <2>1, <2>2, <2>3, <2>4, <2>5 DEF RowsOnce
  <2>7. \A k \in repeated' : k \in repeated \/ (k = j /\ o \in inserted[j])
    BY <2>1, Zenon
  <2> QED
    BY <2>2, <2>4, <2>6, <2>7 DEF OfferedOnce
<1>4. CASE SkipRow(j) \/ PipelineFails(j)
  <2>1. todo' \subseteq todo /\ UNCHANGED <<queue, stage, inserted, repeated>>
    BY <1>4 DEF SkipRow, PipelineFails
  <2> QED
    BY <2>1, RowsStay
<1>5. CASE CompleteJob(j)
  <2>1. Moved(j, "completed") /\ queue[j].state = "active" /\ repeated' = repeated
    BY <1>5, CompleteMoves DEF CompleteJob, TypeOK
  <2>2. inserted' = [inserted EXCEPT ![j] = {}]
    <3>1. Q!Ended(j)'
      BY <2>1 DEF Moved, Q!Ended
    <3> QED
      BY <1>5, <3>1, Zenon DEF CompleteJob, Leave
  <2> QED
    BY <2>1, <2>2, RowsMove DEF TypeOK
<1>6. CASE PrepareFails(j)
  <2>1. /\ queue[j].state = "active" /\ (Moved(j, "waiting") \/ Moved(j, "failed"))
        /\ repeated' = repeated /\ stage = "prepare"
    BY <1>6, ThrowMoves DEF PrepareFails, TypeOK, Q!Throw
  <2>2. /\ \A k \in Jobs \ {j} : inserted'[k] = inserted[k]
        /\ inserted'[j] = {} \/ inserted'[j] = inserted[j]
    BY <1>6 DEF PrepareFails, Leave, TypeOK
  <2> QED
    BY <2>1, <2>2, RowsMove
<1> QED
  BY <1>1, <1>2, <1>3, <1>4, <1>5, <1>6 DEF JobStep

LEMMA RowsStep ==
  ASSUME TypeOK, RowsOnce, OfferedOnce, Next
  PROVE  RowsOnce' /\ OfferedOnce'
<1>1. CASE Announce
  <2>1. PICK j \in ChangeJobs : ~Q!Known(j) /\ Q!Add(j)
    BY <1>1, AnnounceAdds
  <2> QED
    BY <1>1, <2>1, RowsAdd DEF Announce, Jobs
<1>2. CASE \/ FspChange \/ Poll \/ StoreBaseline \/ StoreHash \/ StoreFails
           \/ AnnounceFails \/ ApiCrash
  <2>1. UNCHANGED <<queue, stage, todo, inserted, repeated>>
    BY <1>2 DEF FspChange, Poll, StoreBaseline, StoreHash, StoreFails, AnnounceFails,
                ApiCrash, worker
  <2> QED
    BY <2>1, RowsStay
<1>3. ASSUME NEW r \in Cancels,
             \/ CancelRead(r) \/ CancelRow(r) \/ EnqueueOpening(r)
             \/ CancelFails(r) \/ EnqueueFails(r)
      PROVE  RowsOnce' /\ OfferedOnce'
  <2>1. CASE EnqueueOpening(r)
    BY <2>1, RowsAdd DEF EnqueueOpening, Jobs
  <2>2. CASE CancelRead(r) \/ CancelRow(r) \/ CancelFails(r) \/ EnqueueFails(r)
    <3>1. UNCHANGED <<queue, stage, todo, inserted, repeated>>
      BY <2>2 DEF CancelRead, CancelRow, CancelFails, EnqueueFails, worker
    <3> QED
      BY <3>1, RowsStay
  <2> QED
    BY <1>3, <2>1, <2>2
<1>4. CASE WorkerCrash
  <2>1. repeated' = repeated
    BY <1>4 DEF WorkerCrash
  <2>2. CASE UNCHANGED <<queue, stage, read, todo, inserted>>
    BY <2>1, <2>2, RowsStay
  <2>3. ASSUME NEW j \in Q!In("active"), Q!Stall(j),
               inserted' = [inserted EXCEPT ![j] = IF Q!Ended(j)' THEN {} ELSE @]
        PROVE  RowsOnce' /\ OfferedOnce'
    <3>1. j \in Jobs /\ queue[j].state = "active"
      BY DEF Q!In
    <3>2. (Moved(j, "waiting") \/ Moved(j, "failed")) /\ queue'[j].stalled
      BY <2>3, <3>1, StallMoves DEF TypeOK
    <3>3. \A k \in Jobs \ {j} : inserted'[k] = inserted[k]
      BY <2>3 DEF TypeOK
    <3> QED
      BY <2>1, <3>1, <3>2, <3>3, RowsMove
  <2> QED
    BY <1>4, <2>2, <2>3, Zenon DEF WorkerCrash
<1> QED
  BY <1>1, <1>2, <1>3, <1>4, RowsJob, Zenon DEF Next, PollStep

\* No job inserts a suggestion twice, however often it is tried again, unless the
\* worker died while it was at work.
THEOREM RowsOfferedOnce == Spec => []OfferedOnce
<1>1. Init => RowsOnce /\ OfferedOnce
  BY DEF Init, RowsOnce, OfferedOnce
<1>2. TypeOK /\ RowsOnce /\ OfferedOnce /\ [Next]_vars => RowsOnce' /\ OfferedOnce'
  <2>1. RowsOnce /\ OfferedOnce /\ UNCHANGED vars => RowsOnce' /\ OfferedOnce'
    BY DEF vars, worker, RowsOnce, OfferedOnce
  <2> QED
    BY <2>1, RowsStep
<1> QED
  BY <1>1, <1>2, Typing, PTL DEF Spec
=============================================================================
