----------------------------- MODULE AutoApproval -----------------------------
(***************************************************************************)
(* AI enrichment and automatic approval of suggestions, by the worker      *)
(* (worker/jobs/ai-enrich-suggestion.job.ts) and by the API                *)
(* (POST /suggestions/ai-enrich with auto-approve.service.ts), under a     *)
(* feature flag that schedulers change (feature-flag.service.ts).          *)
(*                                                                         *)
(* A worker job serves one suggestion; the worker takes one job at a time. *)
(* BullMQ starts a job over whose worker died, once (maxStalledCount).     *)
(* A sweep of the API lists the suggestions without enrichment and serves  *)
(* them one after the other.  A step is one SQL statement or one model     *)
(* call; any statement may throw.  What the other writers of the status    *)
(* column do is SuggestionApproval; here a scheduler just decides.  Audit  *)
(* events are steps that may throw; what they hold is left out.            *)
(***************************************************************************)
EXTENDS Constraints

CONSTANTS
  Sugg, Proposal, GroupOf,   \* suggestions, what each proposes, its groupId
  WorkerJobs, JobFor,        \* ai-enrich-suggestion jobs and their payload
  Sweeps,                    \* calls of POST /suggestions/ai-enrich
  Toggles,                   \* calls of PUT /feature-flags/auto_approve
  DayReservations,           \* reservations that exist at the start
  PolicyRows,                \* what the operator's policy row may hold
  NOW                        \* the minute at which constraints are verified

VARIABLES
  status,        \* suggestions.status
  rationale,     \* suggestions.rationale: the risk level, or NotEnriched
  flag,          \* the auto_approve row: a set of at most one record
  reservations,  \* reservation_history
  pc,
  todo,          \* the suggestions a sweep has listed and not finished
  at,            \* the suggestion a sweep is working on
  answer,        \* the risk level the model gave a process
  setting,       \* the flag row a job or a change of it has read
  verdict,       \* what verifyConstraints returned to a worker job
  startedOver,   \* jobs that were put back when their worker died
  approvedBy,    \* history: the approvals by system-auto
  contended      \* history: suggestions two enrichments worked on at a time

rows  == <<status, rationale, reservations, approvedBy>>
local == <<todo, at, answer, setting, verdict, startedOver>>
vars  == <<rows, flag, pc, local, contended>>

Enrichers == WorkerJobs \cup Sweeps
RiskLevels == {"low", "medium", "high"}
NotEnriched == "none"
Busy(e) == pc[e] \notin {"idle", "done", "ok", "failed"}

SuggestionOf(e) == IF e \in WorkerJobs THEN JobFor[e] ELSE at[e]

\* The risk levels a threshold admits; without one it is 'low'.
AllowedLevels(config) == IF config = "medium" THEN {"low", "medium"} ELSE {"low"}

Init ==
  /\ status = [s \in Sugg |-> "pending"]
  /\ rationale = [s \in Sugg |-> NotEnriched]
  /\ flag \in {{}, {[enabled |-> TRUE, threshold |-> "low"]}}
  /\ reservations = DayReservations
  /\ pc = [e \in Enrichers \cup Toggles |-> "idle"]
  /\ todo = [w \in Sweeps |-> {}]
  /\ at = [w \in Sweeps |-> CHOOSE s \in Sugg : TRUE]
  /\ answer = [e \in Enrichers |-> NotEnriched]
  /\ setting = [p \in WorkerJobs \cup Toggles |-> {}]
  /\ verdict = [j \in WorkerJobs |-> "none"]
  /\ startedOver = {}
  /\ approvedBy = {}
  /\ contended = {}

GoTo(e, step) == pc' = [pc EXCEPT ![e] = step]

\* Suggestions another enrichment has listed or is working on.
Claimed(e) ==
  UNION ({todo[w] \cup (IF Busy(w) THEN {at[w]} ELSE {}) : w \in Sweeps \ {e}}
         \cup {{JobFor[j]} : j \in {k \in WorkerJobs \ {e} : Busy(k)}})

--------------------------------------------------------------------------------
(* Enrichment. *)

\* The worker takes a job and reads the suggestion, in whatever status, and what
\* it refers to.
StartJob(j) ==
  /\ pc[j] = "idle"
  /\ \A k \in WorkerJobs : ~Busy(k)
  /\ GoTo(j, "model")
  /\ contended' = contended \cup ({JobFor[j]} \cap Claimed(j))
  /\ UNCHANGED <<rows, flag, local>>

\* listForAiEnrich: whatever the status.
StartSweep(w) ==
  /\ pc[w] = "idle"
  /\ LET found == {s \in Sugg : rationale[s] = NotEnriched}
     IN /\ todo' = [todo EXCEPT ![w] = found]
        /\ contended' = contended \cup (found \cap Claimed(w))
  /\ GoTo(w, "next")
  /\ UNCHANGED <<rows, flag, at, answer, setting, verdict, startedOver>>

\* What a sweep read for one suggestion is out of scope for the next.
NextOfSweep(w) ==
  /\ pc[w] = "next"
  /\ \/ /\ todo[w] = {}
        /\ GoTo(w, "done")
        /\ UNCHANGED <<todo, at>>
     \/ \E s \in todo[w] : /\ todo' = [todo EXCEPT ![w] = @ \ {s}]
                           /\ at' = [at EXCEPT ![w] = s]
                           /\ GoTo(w, "model")
  /\ answer' = [answer EXCEPT ![w] = NotEnriched]
  /\ UNCHANGED <<rows, flag, setting, verdict, startedOver, contended>>

EndOf(e) == IF e \in WorkerJobs THEN "end" ELSE "next"

\* generateRationale: a risk level, or null when no model gives an answer.
AskModel(e) ==
  /\ pc[e] = "model"
  /\ \/ /\ \E risk \in RiskLevels : answer' = [answer EXCEPT ![e] = risk]
        /\ GoTo(e, "write")
     \/ GoTo(e, EndOf(e)) /\ UNCHANGED answer
  /\ UNCHANGED <<rows, flag, todo, at, setting, verdict, startedOver, contended>>

\* A bug: the old fields are spread over the new ones.
WriteRationaleUnder(e) ==
  /\ pc[e] = "write"
  /\ rationale' = [rationale EXCEPT ![SuggestionOf(e)] = IF @ = NotEnriched THEN answer[e] ELSE @]
  /\ GoTo(e, "flag")
  /\ UNCHANGED <<status, reservations, approvedBy, flag, local, contended>>

\* The rationale read before the model call, with the answer, by id.
WriteRationale(e) ==
  /\ pc[e] = "write"
  /\ rationale' = [rationale EXCEPT ![SuggestionOf(e)] = answer[e]]
  /\ GoTo(e, "flag")
  /\ UNCHANGED <<status, reservations, approvedBy, flag, local, contended>>

\* Any statement of an enrichment throws, and a catch block ends it quietly;
\* but a failed verification or reservation insert is swallowed on the spot.
Throw(e) ==
  /\ pc[e] \in {"model", "write", "flag", "gate", "row", "config", "blocked", "reread",
                "approve", "siblings", "audit"}
  /\ GoTo(e, EndOf(e))
  /\ UNCHANGED <<rows, flag, local, contended>>

\* What a job has read is gone when it is over, or its worker is.
Forget(j) ==
  /\ answer' = [answer EXCEPT ![j] = NotEnriched]
  /\ setting' = [setting EXCEPT ![j] = {}]
  /\ verdict' = [verdict EXCEPT ![j] = "none"]

\* process() has returned, and BullMQ learns that the job is completed.
JobCompletes(j) ==
  /\ pc[j] = "end"
  /\ GoTo(j, "done")
  /\ Forget(j)
  /\ UNCHANGED <<rows, flag, todo, at, startedOver, contended>>

\* The worker dies in a job: BullMQ puts it back, to be done all over again, and
\* gives it up the second time.
WorkerCrash(j) ==
  /\ Busy(j)
  /\ GoTo(j, IF j \in startedOver THEN "done" ELSE "idle")
  /\ Forget(j)
  /\ startedOver' = startedOver \cup {j}
  /\ UNCHANGED <<rows, flag, todo, at, contended>>

--------------------------------------------------------------------------------
(* Automatic approval: tryAutoApprove in the worker. *)

\* A sweep reads whether it is enabled; a job keeps the row.
ReadFlag(e) ==
  /\ pc[e] = "flag"
  /\ setting' = IF e \in WorkerJobs THEN [setting EXCEPT ![e] = flag] ELSE setting
  /\ GoTo(e, IF \E f \in flag : f.enabled
             THEN IF e \in WorkerJobs THEN "gate" ELSE "row"
             ELSE EndOf(e))
  /\ UNCHANGED <<rows, flag, todo, at, answer, verdict, startedOver, contended>>

\* The last that is asked of the row of the flag.
RiskGate(j) ==
  /\ pc[j] = "gate"
  /\ IF \E f \in setting[j] : answer[j] \in AllowedLevels(f.threshold)
     THEN GoTo(j, "verify") ELSE GoTo(j, "blocked")
  /\ setting' = [setting EXCEPT ![j] = {}]
  /\ UNCHANGED <<rows, flag, todo, at, answer, verdict, startedOver, contended>>

\* The policy the evaluator gets: the row if the operator has one, which editors
\* change at any time, or else the default.
Policies == {DEFAULT_OPERATOR_POLICY} \cup PolicyRows

\* The evaluator with the reservations of the day and, as the list of
\* availabilities, [].
Evaluation(s, policy) ==
  EvaluateAllConstraints(Proposal[s],
    {r \in reservations : DateOf(r.start) <= DateOf(Proposal[s].start)
                            /\ DateOf(r.end) >= DateOf(Proposal[s].start)},
    <<>>, policy, NOW, 0)

\* verifyConstraints returns null when a statement throws.
Verify(j) ==
  /\ pc[j] = "verify"
  /\ \E policy \in Policies :
     \E result \in {"null", IF Evaluation(JobFor[j], policy).feasible
                           THEN "feasible" ELSE "infeasible"} :
       verdict' = [verdict EXCEPT ![j] = result]
  /\ GoTo(j, IF verdict'[j] = "infeasible" THEN "blocked" ELSE "reread")
  /\ UNCHANGED <<rows, flag, todo, at, answer, setting, startedOver, contended>>

\* The audit event of a refusal.
Blocked(e) ==
  /\ pc[e] = "blocked"
  /\ GoTo(e, EndOf(e))
  /\ UNCHANGED <<rows, flag, local, contended>>

RereadPending(j) ==
  /\ pc[j] = "reread"
  /\ GoTo(j, IF status[JobFor[j]] = "pending" THEN "approve" ELSE "end")
  /\ UNCHANGED <<rows, flag, local, contended>>

AutoApprove(j) ==
  LET s == JobFor[j] IN
  /\ pc[j] = "approve"
  /\ status' = [status EXCEPT ![s] = "approved"]
  /\ approvedBy' = approvedBy \cup
       {[sugg |-> s, job |-> j, verdict |-> verdict[j], risk |-> answer[j],
         again |-> j \in startedOver]}
  /\ GoTo(j, "record")
  /\ UNCHANGED <<rationale, reservations, flag, local, contended>>

RecordReservation(j) ==
  /\ pc[j] = "record"
  /\ reservations' \in {reservations, reservations \cup {Proposal[JobFor[j]]}}
  /\ GoTo(j, "siblings")
  /\ UNCHANGED <<status, rationale, approvedBy, flag, local, contended>>

\* Every producer of suggestions sets a groupId.
ExpireSiblings(j) ==
  /\ pc[j] = "siblings"
  /\ status' = [t \in Sugg |-> IF GroupOf[t] = GroupOf[JobFor[j]] /\ status[t] = "pending"
                               THEN "expired" ELSE status[t]]
  /\ GoTo(j, "audit")
  /\ UNCHANGED <<rationale, reservations, approvedBy, flag, local, contended>>

AuditApproval(j) ==
  /\ pc[j] = "audit"
  /\ GoTo(j, "end")
  /\ UNCHANGED <<rows, flag, local, contended>>

--------------------------------------------------------------------------------
(* Automatic approval: checkAndAutoApprove in the API, which reads the     *)
(* row back and the flag a second time.  Its evaluation, too, has no       *)
(* availabilities and cannot succeed, so it ends at "blocked".             *)

ReadRow(w) ==
  /\ pc[w] = "row"
  /\ answer' = [answer EXCEPT ![w] = rationale[at[w]]]
  /\ GoTo(w, IF status[at[w]] = "pending" THEN "config" ELSE "next")
  /\ UNCHANGED <<rows, flag, todo, at, setting, verdict, startedOver, contended>>

ReadConfig(w) ==
  LET threshold == IF \E f \in flag : f.threshold = "medium" THEN "medium" ELSE "low" IN
  /\ pc[w] = "config"
  /\ GoTo(w, IF answer[w] \in AllowedLevels(threshold) THEN "verify" ELSE "next")
  /\ UNCHANGED <<rows, flag, local, contended>>

\* verifyConstraints of the API has its own queries and calls the evaluator the
\* same way.
EvaluationInApi(s, policy) == Evaluation(s, policy)

\* What it throws ends the check.
VerifyInApi(w) ==
  /\ pc[w] = "verify"
  /\ \/ \E policy \in Policies : ~EvaluationInApi(at[w], policy).feasible
        /\ GoTo(w, "blocked")
     \/ GoTo(w, "next")
  /\ UNCHANGED <<rows, flag, local, contended>>

--------------------------------------------------------------------------------
(* The flag: setFlag selects, then updates or inserts. *)

SelectFlag(t) ==
  /\ pc[t] = "idle"
  /\ setting' = [setting EXCEPT ![t] = flag]
  /\ GoTo(t, "set")
  /\ UNCHANGED <<rows, flag, todo, at, answer, verdict, startedOver, contended>>

\* Without a config in the request an update keeps the old one, and an insert
\* has none.  The second of two first inserts meets the unique index.
SetFlag(t) ==
  /\ pc[t] = "set"
  /\ \E enabled \in BOOLEAN :
     \E config \in {{}, {"low"}, {"medium"}} :
       IF setting[t] # {}
       THEN /\ flag' = {[enabled |-> enabled, threshold |-> c] :
                          c \in IF config = {} THEN {f.threshold : f \in flag} ELSE config}
            /\ GoTo(t, "ok")
       ELSE IF flag = {}
       THEN /\ flag' = {[enabled |-> enabled, threshold |-> c] :
                          c \in IF config = {} THEN {"low"} ELSE config}
            /\ GoTo(t, "ok")
       ELSE GoTo(t, "failed") /\ UNCHANGED flag
  /\ setting' = [setting EXCEPT ![t] = {}]
  /\ UNCHANGED <<rows, todo, at, answer, verdict, startedOver, contended>>

\* A scheduler declines; an approval by hand is no different here, where all that
\* is asked of a status is whether it is pending.
Decide(s) ==
  /\ status[s] = "pending"
  /\ status' = [status EXCEPT ![s] = "declined"]
  /\ UNCHANGED <<rationale, reservations, approvedBy, flag, pc, local, contended>>

Next ==
  \/ \E j \in WorkerJobs :
       \/ StartJob(j) \/ RiskGate(j) \/ Verify(j) \/ RereadPending(j) \/ AutoApprove(j)
       \/ RecordReservation(j) \/ ExpireSiblings(j) \/ AuditApproval(j) \/ JobCompletes(j)
       \/ WorkerCrash(j)
  \/ \E w \in Sweeps : StartSweep(w) \/ NextOfSweep(w) \/ ReadRow(w)
         \/ ReadConfig(w) \/ VerifyInApi(w)
  \/ \E e \in Enrichers :
       AskModel(e) \/ WriteRationale(e) \/ ReadFlag(e) \/ Blocked(e) \/ Throw(e)
  \/ \E t \in Toggles : SelectFlag(t) \/ SetFlag(t)
  \/ \E s \in Sugg : Decide(s)

Spec == Init /\ [][Next]_vars

--------------------------------------------------------------------------------
\* BullMQ started the job of an approval over after that approval.  It asks the
\* model again and writes what it answers, whatever the status of the row.
RedoneSince(a) == a.job \in startedOver /\ ~a.again

\* The risk level a scheduler sees on an automatically approved suggestion is
\* the one it was approved at, unless two enrichments worked on it at a time
\* (the API's list may be old by the time it gets to a suggestion) or the worker
\* died between the approval and the end of the job.
ApprovedAtShownRisk ==
  \A a \in approvedBy :
    a.sugg \in contended \/ RedoneSince(a) \/ rationale[a.sugg] = a.risk

\* What the comment on tryAutoApprove says: an automatic approval has passed
\* the four layers of constraints.
AutoApprovedIsVerified ==
  \A a \in approvedBy : a.verdict = "feasible"
================================================================================
