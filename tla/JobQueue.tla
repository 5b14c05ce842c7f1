------------------------------ MODULE JobQueue ------------------------------
(***************************************************************************)
(* A BullMQ queue with one worker of concurrency 1, as far as the code     *)
(* relies on it: a job is known by its id, an id is added once, a job that *)
(* throws is tried again while it has attempts left, and a job whose       *)
(* worker died is started over once.                                       *)
(*                                                                         *)
(* The queue lives in Redis and survives the worker.  A job that waits for *)
(* its back-off is "waiting": the order of the waiting jobs is left open.  *)
(* Nothing is removed, since the jobs of these queues are added without    *)
(* removeOnComplete and removeOnFail.                                      *)
(***************************************************************************)
EXTENDS Naturals

CONSTANTS
  Jobs,      \* the ids
  Attempts   \* attempts of each job

VARIABLE queue

JobStates == {"absent", "waiting", "active", "completed", "failed"}

JobRecord == [state : JobStates, failures : Nat, stalled : BOOLEAN]

Empty ==
  [j \in Jobs |-> [state |-> "absent", failures |-> 0, stalled |-> FALSE]]

In(s)    == {j \in Jobs : queue[j].state = s}
Known(j) == queue[j].state # "absent"
Ended(j) == queue[j].state \in {"completed", "failed"}

Move(j, from, to) ==
  /\ queue[j].state = from
  /\ queue' = [queue EXCEPT ![j].state = to]

\* A job whose id is known, in whatever state, is ignored.
Add(j) == Move(j, "absent", "waiting") \/ (Known(j) /\ UNCHANGED queue)

Start(j) == In("active") = {} /\ Move(j, "waiting", "active")

Complete(j) == Move(j, "active", "completed")

\* The processor throws.
Throw(j) ==
  LET made == queue[j].failures + 1
  IN  /\ queue[j].state = "active"
      /\ queue' = [queue EXCEPT ![j].failures = made,
                     ![j].state = IF made < Attempts[j] THEN "waiting"
                                  ELSE "failed"]

\* The worker of an active job has died: maxStalledCount is 1.
Stall(j) ==
  /\ queue[j].state = "active"
  /\ queue' = [queue EXCEPT ![j].stalled = TRUE,
                 ![j].state = IF queue[j].stalled THEN "failed" ELSE "waiting"]

TypeOK == queue \in [Jobs -> JobRecord]
=============================================================================
