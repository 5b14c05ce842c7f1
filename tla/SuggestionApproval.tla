------------------------- MODULE SuggestionApproval -------------------------
(***************************************************************************)
(* The life of scheduling suggestions under everything that writes their   *)
(* status column concurrently:                                             *)
(*                                                                         *)
(*   approvals    POST /suggestions/:id/approve (SuggestionsService)       *)
(*   declines     POST /suggestions/:id/decline (SuggestionsService)       *)
(*   bookings     POST /discovery-flights/:id/book (DiscoveryService)      *)
(*   batches      POST /reservations/batch (ScheduleSolverService)         *)
(*   enrichments  ai-enrich-suggestion jobs with auto-approval (worker)    *)
(*   the expirer  the repeatable expire-suggestions job (worker)           *)
(*                                                                         *)
(* A step of a request is what the code does between two awaits: one SQL   *)
(* statement or one call to FSP.  There is no transaction anywhere, so     *)
(* every interleaving of these steps is possible.                          *)
(*                                                                         *)
(* A request is one HTTP call or one job and is answered once; a retry is  *)
(* another request.  A bulk call is its items one after the other, which   *)
(* is one of the schedules the model already contains.                     *)
(***************************************************************************)
EXTENDS Naturals, FiniteSets

CONSTANTS
  Sugg,         \* rows of the suggestions table
  GroupOf,      \* [Sugg -> group id or NoGroup], the groupId column
  NoGroup,      \* groupId is null
  SlotOf,       \* [Sugg -> slot], suggestions of one slot overlap in time
  Discovery,    \* the suggestions of type 'discovery'
  Approvals, Declines, Bookings, Batches, Enrichments,  \* the requests
  Faults        \* which of AllFaults can happen

(***************************************************************************)
(* "crash": the API or the worker process dies.  "db": a SQL statement     *)
(* fails and throws.  "lostAnswer": FSP performs a create whose answer     *)
(* never arrives.  That FSP refuses, or that a call throws without effect  *)
(* (network error, HTTP error, open circuit), is always possible.          *)
(***************************************************************************)
AllFaults == {"crash", "db", "lostAnswer"}

Requests == Approvals \cup Declines \cup Bookings \cup Batches \cup Enrichments

ASSUME ConstantsAssumption ==
  /\ Discovery \subseteq Sugg
  /\ GroupOf = [s \in Sugg |-> GroupOf[s]]
  /\ SlotOf = [s \in Sugg |-> SlotOf[s]]
  /\ Faults \subseteq AllFaults
  /\ Approvals \cap (Declines \cup Bookings \cup Batches \cup Enrichments) = {}
  /\ Declines \cap (Bookings \cup Batches \cup Enrichments) = {}
  /\ Bookings \cap (Batches \cup Enrichments) = {}
  /\ Batches \cap Enrichments = {}

VARIABLES
  status,     \* suggestions.status
  pc,         \* the statement each request is about to execute, or its answer
  target,     \* the suggestion id in each request; never changes
  fsp,        \* how many reservations FSP holds for each suggestion
  history,    \* how many reservation_history rows each suggestion produced
  prospects,  \* the groups whose prospects row says 'booked'
  confirmed,  \* the suggestions a booking confirmation was mailed for
  lapsed,     \* the suggestions whose expiresAt has passed
  taken,      \* the slots someone booked in FSP, not through this system
  expirer,    \* the statement the expire job is about to execute
  victims,    \* the suggestion ids the expire job has read
  faulted     \* whether "db" and "lostAnswer" have happened so far

records == <<fsp, history, prospects, confirmed>>
job     == <<expirer, victims>>
world   == <<lapsed, taken, faulted>>
vars    == <<status, pc, target, records, job, world>>

Status == {"pending", "processing", "approved", "declined", "expired"}

ApprovePc == {"lock", "validate", "create", "revert", "auditFailure",
              "markApproved", "siblings", "audit", "history", "prospect",
              "mail", "catch", "auditCatch"}
DeclinePc == {"decline", "auditDecline"}
BookingPc == {"bookHistory", "bookApprove", "bookSiblings", "bookProspect",
              "bookMail", "bookAudit"}
BatchPc   == {"batchHistory", "batchApprove", "batchRepeat"}
EnrichPc  == {"verify", "reread", "autoApprove", "autoHistory",
              "autoSiblings", "autoAudit"}
Answers   == {"ok", "conflict", "rejected", "failed", "dead"}
RequestPc == {"idle"} \cup ApprovePc \cup DeclinePc \cup BookingPc
               \cup BatchPc \cup EnrichPc \cup Answers
ExpirerPc == {"ttl", "scan", "fetch", "apply"}

Running(r) == pc[r] \notin {"idle"} \cup Answers

Slots  == {SlotOf[s] : s \in Sugg}
Groups == {GroupOf[s] : s \in Sugg}

\* The rows with the groupId of s.  The code skips the sibling update when
\* there is no group; its WHERE clause does not exclude s itself.
Siblings(s) == IF GroupOf[s] = NoGroup THEN {}
               ELSE {t \in Sugg : GroupOf[t] = GroupOf[s]}

\* A reservation in FSP overlaps the slot of s, whatever its aircraft,
\* instructor or student.
SlotFilled(s) == \/ SlotOf[s] \in taken
                 \/ \E t \in Sugg : SlotOf[t] = SlotOf[s] /\ fsp[t] > 0

Init ==
  /\ status = [s \in Sugg |-> "pending"]
  /\ pc = [r \in Requests |-> "idle"]
  /\ target \in [Requests -> Sugg]
  /\ fsp = [s \in Sugg |-> 0]
  /\ history = [s \in Sugg |-> 0]
  /\ prospects = {}
  /\ confirmed = {}
  /\ lapsed = {}
  /\ taken = {}
  /\ expirer = "ttl"
  /\ victims = {}
  /\ faulted = {}

-----------------------------------------------------------------------------
(***************************************************************************)
(* The statements the handlers are made of.                                *)
(***************************************************************************)

\* Request r moves from one statement to the next, or to its answer.
Goto(r, from, to) == pc[r] = from /\ pc' = [pc EXCEPT ![r] = to]

\* A statement that changes nothing here: a read, an audit event, an answer.
Pass(r, from, to) ==
  /\ Goto(r, from, to)
  /\ UNCHANGED <<status, target, records, job, world>>

\* UPDATE suggestions SET status = new WHERE id = :id
SetStatus(r, from, to, new) ==
  /\ Goto(r, from, to)
  /\ status' = [status EXCEPT ![target[r]] = new]
  /\ UNCHANGED <<target, records, job, world>>

\* UPDATE suggestions SET status = new WHERE id = :id AND status = 'pending';
\* no row returned answers 409.
SetStatusIfPending(r, from, to, new) ==
  \/ status[target[r]] = "pending" /\ SetStatus(r, from, to, new)
  \/ status[target[r]] # "pending" /\ Pass(r, from, "conflict")

\* UPDATE ... SET status = 'expired' WHERE id IN ids AND status = 'pending'
ExpirePending(ids) ==
  status' = [s \in Sugg |->
    IF s \in ids /\ status[s] = "pending" THEN "expired" ELSE status[s]]

\* UPDATE ... SET status = 'expired' WHERE group_id = :g AND status = 'pending'
ExpireGroup(r, from, to) ==
  /\ Goto(r, from, to)
  /\ ExpirePending(Siblings(target[r]))
  /\ UNCHANGED <<target, records, job, world>>

\* INSERT INTO reservation_history
AddHistory(r, from, to) ==
  /\ Goto(r, from, to)
  /\ history' = [history EXCEPT ![target[r]] = @ + 1]
  /\ UNCHANGED <<status, target, fsp, prospects, confirmed, job, world>>

\* UPDATE prospects SET status = 'booked', for a suggestion made for one.
BookProspectRow(r, from, to) ==
  /\ Goto(r, from, to)
  /\ prospects' = prospects \cup
       (IF target[r] \in Discovery THEN {GroupOf[target[r]]} ELSE {})
  /\ UNCHANGED <<status, target, fsp, history, confirmed, job, world>>

\* sendBookingConfirmation, whose failures are only logged.
SendConfirmation(r, from, to) ==
  /\ Goto(r, from, to)
  /\ confirmed' \in {confirmed, confirmed \cup {target[r]}}
  /\ UNCHANGED <<status, target, fsp, history, prospects, job, world>>

\* Read the row; anything but a pending suggestion in ids is refused.
ReadPendingIn(r, from, to, ids) ==
  Pass(r, from, IF status[target[r]] = "pending" /\ target[r] \in ids
                THEN to ELSE "conflict")

-----------------------------------------------------------------------------
(***************************************************************************)
(* SuggestionsService.approve                                              *)
(***************************************************************************)

ReadForApproval(r) == ReadPendingIn(r, "idle", "lock", Sugg)

\* Mutant: the lock does not ask for status = 'pending'.
TakeLockUnguarded(r) == SetStatus(r, "lock", "validate", "processing")

\* Step 2, the optimistic lock.
TakeLock(r) == SetStatusIfPending(r, "lock", "validate", "processing")

\* Mutant: a reservation that validates is taken for created.
ValidateOnly(r) ==
  \E next \in {"markApproved", "revert", "catch"} : Pass(r, "validate", next)

\* Step 4: FSP accepts, reports errors, or the call throws.
ValidateReservation(r) ==
  \E next \in {"create", "revert", "catch"} : Pass(r, "validate", next)

\* Mutant: a created reservation is reported as refused.
CreateMisread(r) ==
  /\ \E next \in {"markApproved", "revert", "catch"} : Goto(r, "create", next)
  /\ fsp' = [fsp EXCEPT ![target[r]] = @ + 1]
  /\ UNCHANGED <<status, target, history, prospects, confirmed, job, world>>

\* Step 5: FSP books, reports errors, or the call throws: without effect, or
\* (lostAnswer) after FSP has booked.
CreateReservation(r) ==
  \/ /\ Goto(r, "create", "markApproved")
     /\ fsp' = [fsp EXCEPT ![target[r]] = @ + 1]
     /\ UNCHANGED <<status, target, history, prospects, confirmed, job, world>>
  \/ \E next \in {"revert", "catch"} : Pass(r, "create", next)
  \/ /\ "lostAnswer" \in Faults
     /\ Goto(r, "create", "catch")
     /\ fsp' = [fsp EXCEPT ![target[r]] = @ + 1]
     /\ faulted' = faulted \cup {"lostAnswer"}
     /\ UNCHANGED <<status, target, history, prospects, confirmed, job,
                    lapsed, taken>>

\* FSP reported errors: back to pending, whatever the status is by now.
RevertToPending(r) == SetStatus(r, "revert", "auditFailure", "pending")

AuditFailure(r) == Pass(r, "auditFailure", "rejected")

\* Step 6: approved, whatever the status is by now.
MarkApproved(r)   == SetStatus(r, "markApproved", "siblings", "approved")
ExpireSiblings(r) == ExpireGroup(r, "siblings", "audit")
AuditApproved(r)  == Pass(r, "audit", "history")
RecordHistory(r)  == AddHistory(r, "history", "prospect")
BookProspect(r)   == BookProspectRow(r, "prospect", "mail")

\* The mail, and the notification job whose enqueue may fail silently.
Notify(r) == SendConfirmation(r, "mail", "ok")

\* Step 7, the catch block: back to pending, whatever the status is by now.
CatchRevert(r) == SetStatus(r, "catch", "auditCatch", "pending")

AuditCatch(r) == Pass(r, "auditCatch", "failed")

ApproveStep(r) ==
  \/ TakeLock(r) \/ ValidateReservation(r) \/ CreateReservation(r)
  \/ RevertToPending(r) \/ AuditFailure(r) \/ MarkApproved(r)
  \/ ExpireSiblings(r) \/ AuditApproved(r) \/ RecordHistory(r)
  \/ BookProspect(r) \/ Notify(r) \/ CatchRevert(r) \/ AuditCatch(r)

-----------------------------------------------------------------------------
(***************************************************************************)
(* SuggestionsService.decline                                              *)
(***************************************************************************)

ReadForDecline(r) == ReadPendingIn(r, "idle", "decline", Sugg)

\* Mutant: the row read by ReadForDecline is trusted.
DeclineUnguarded(r) == SetStatus(r, "decline", "auditDecline", "declined")

DeclinePending(r) ==
  SetStatusIfPending(r, "decline", "auditDecline", "declined")

\* The audit event, and a mail whose failure is only logged.
AuditDecline(r) == Pass(r, "auditDecline", "ok")

DeclineStep(r) == DeclinePending(r) \/ AuditDecline(r)

-----------------------------------------------------------------------------
(***************************************************************************)
(* DiscoveryService.bookSlot.  Its only look at the status is the first    *)
(* read; it never calls FSP.                                               *)
(***************************************************************************)

ReadForBooking(r) == ReadPendingIn(r, "idle", "bookHistory", Discovery)

BookHistory(r)    == AddHistory(r, "bookHistory", "bookApprove")
BookApprove(r)    == SetStatus(r, "bookApprove", "bookSiblings", "approved")
BookSiblings(r)   == ExpireGroup(r, "bookSiblings", "bookProspect")
BookRow(r)        == BookProspectRow(r, "bookProspect", "bookMail")
BookMail(r)       == SendConfirmation(r, "bookMail", "bookAudit")
BookAudit(r)      == Pass(r, "bookAudit", "ok")

BookingStep(r) ==
  \/ BookHistory(r) \/ BookApprove(r) \/ BookSiblings(r)
  \/ BookRow(r) \/ BookMail(r) \/ BookAudit(r)

-----------------------------------------------------------------------------
(***************************************************************************)
(* One item of ScheduleSolverService.batchCreateReservations.  It takes    *)
(* pending and approved suggestions, and trusts what it has read.          *)
(***************************************************************************)

ReadForBatch(r) ==
  Pass(r, "idle", CASE status[target[r]] = "pending"  -> "batchHistory"
                    [] status[target[r]] = "approved" -> "batchRepeat"
                    [] OTHER -> "rejected")

BatchHistory(r) == AddHistory(r, "batchHistory", "batchApprove")
BatchApprove(r) == SetStatus(r, "batchApprove", "ok", "approved")

\* The suggestion was approved already: one more row, no update.
BatchRepeat(r)  == AddHistory(r, "batchRepeat", "ok")

BatchStep(r) == BatchHistory(r) \/ BatchApprove(r) \/ BatchRepeat(r)

-----------------------------------------------------------------------------
(***************************************************************************)
(* AiEnrichSuggestionJob, with the auto_approve flag on.                   *)
(***************************************************************************)

\* The worker runs these jobs one at a time.  A job loads the suggestion in
\* any status, asks the model for a rationale and stores it (rationales are
\* not modelled).  It ends here when the model gives no answer or the risk
\* level is above the threshold.
Enrich(r) ==
  /\ \A e \in Enrichments : ~Running(e)
  /\ \E next \in {"verify", "rejected"} : Pass(r, "idle", next)

\* verifyConstraints: a hard constraint fails and the job ends, or the check
\* could not be made (null) and the job goes on.
VerifyConstraints(r) ==
  \E next \in {"reread", "rejected"} : Pass(r, "verify", next)

RereadPending(r) == ReadPendingIn(r, "reread", "autoApprove", Sugg)

AutoApprove(r)   == SetStatus(r, "autoApprove", "autoHistory", "approved")
AutoHistory(r)   == AddHistory(r, "autoHistory", "autoSiblings")
AutoSiblings(r)  == ExpireGroup(r, "autoSiblings", "autoAudit")
AutoAudit(r)     == Pass(r, "autoAudit", "ok")

EnrichStep(r) ==
  \/ VerifyConstraints(r) \/ RereadPending(r) \/ AutoApprove(r)
  \/ AutoHistory(r) \/ AutoSiblings(r) \/ AutoAudit(r)

-----------------------------------------------------------------------------
(***************************************************************************)
(* ExpireSuggestionsJob, scheduled every ten minutes, one at a time.  One  *)
(* operator is modelled, all of whose slots are within the 48 hours the    *)
(* second phase looks at.                                                  *)
(***************************************************************************)

ExpirerAt(from, to) == expirer = from /\ expirer' = to

\* Mutant: the update compares expiresAt the wrong way round.
ExpireFresh ==
  /\ ExpirerAt("ttl", "scan")
  /\ ExpirePending(Sugg \ lapsed)
  /\ UNCHANGED <<pc, target, records, victims, world>>

\* Phase 1: one UPDATE for all lapsed pending rows, then the audit events.
ExpireByTtl ==
  /\ ExpirerAt("ttl", "scan")
  /\ ExpirePending(lapsed)
  /\ UNCHANGED <<pc, target, records, victims, world>>

\* Phase 2 reads the pending rows ...
ScanPending ==
  /\ victims' = {s \in Sugg : status[s] = "pending"}
  /\ ExpirerAt("scan", IF victims' = {} THEN "ttl" ELSE "fetch")
  /\ UNCHANGED <<status, pc, target, records, world>>

\* ... then asks FSP for reservations and keeps the overlapped rows; no FSP
\* token, or a call that throws, ends the job.
FetchReservations ==
  /\ \E found \in {{}, {s \in victims : SlotFilled(s)}} :
       /\ victims' = found
       /\ ExpirerAt("fetch", IF found = {} THEN "ttl" ELSE "apply")
  /\ UNCHANGED <<status, pc, target, records, world>>

\* Mutant: the row is expired although it is no longer pending.
ExpireVictimUnguarded(s) ==
  /\ s \in victims
  /\ victims' = victims \ {s}
  /\ ExpirerAt("apply", IF victims' = {} THEN "ttl" ELSE "apply")
  /\ status' = [status EXCEPT ![s] = "expired"]
  /\ UNCHANGED <<pc, target, records, world>>

\* ... and expires each of them, if it still is pending.
ExpireVictim(s) ==
  /\ s \in victims
  /\ victims' = victims \ {s}
  /\ ExpirerAt("apply", IF victims' = {} THEN "ttl" ELSE "apply")
  /\ ExpirePending({s})
  /\ UNCHANGED <<pc, target, records, world>>

ExpirerStep ==
  \/ ExpireByTtl \/ ScanPending \/ FetchReservations
  \/ \E s \in Sugg : ExpireVictim(s)

-----------------------------------------------------------------------------
(***************************************************************************)
(* The world around the system, and its faults.                            *)
(***************************************************************************)

Lapse(s) ==
  /\ s \notin lapsed
  /\ lapsed' = lapsed \cup {s}
  /\ UNCHANGED <<status, pc, target, records, job, taken, faulted>>

BookElsewhere(k) ==
  /\ k \notin taken
  /\ taken' = taken \cup {k}
  /\ UNCHANGED <<status, pc, target, records, job, lapsed, faulted>>

\* Where the exception of a failed SQL statement takes the request: statements
\* inside approve's try block go to its catch block, those with a try block of
\* their own go on, all others end the request.
AfterThrow(p) ==
  CASE p \in {"revert", "auditFailure", "markApproved", "siblings", "audit"}
         -> "catch"
    [] p = "history" -> "prospect"
    [] p = "prospect" -> "mail"
    [] p = "autoHistory" -> "autoSiblings"
    [] OTHER -> "failed"

DbThrows(r) ==
  /\ "db" \in Faults
  /\ Running(r)
  /\ pc[r] \notin {"validate", "create", "mail", "bookMail", "verify"}
  /\ pc' = [pc EXCEPT ![r] = AfterThrow(pc[r])]
  /\ faulted' = faulted \cup {"db"}
  /\ UNCHANGED <<status, target, records, job, lapsed, taken>>

\* A failed statement ends the expire job, or skips one row of its last loop.
ExpirerThrows ==
  /\ "db" \in Faults
  /\ \/ /\ expirer \in {"ttl", "scan", "fetch"}
        /\ expirer' = "ttl" /\ victims' = {}
     \/ \E s \in victims :
          /\ victims' = victims \ {s}
          /\ ExpirerAt("apply", IF victims' = {} THEN "ttl" ELSE "apply")
  /\ faulted' = faulted \cup {"db"}
  /\ UNCHANGED <<status, pc, target, records, lapsed, taken>>

\* The API process dies: its requests are lost, nothing repairs their rows.
ApiCrash ==
  /\ "crash" \in Faults
  /\ pc' = [r \in Requests |->
       IF Running(r) /\ r \notin Enrichments THEN "dead" ELSE pc[r]]
  /\ UNCHANGED <<status, target, records, job, world>>

\* The worker process dies: BullMQ starts a stalled job over, or gives it up.
WorkerCrash ==
  /\ "crash" \in Faults
  /\ \E again \in {"idle", "dead"} :
       pc' = [r \in Requests |->
         IF Running(r) /\ r \in Enrichments THEN again ELSE pc[r]]
  /\ expirer' = "ttl" /\ victims' = {}
  /\ UNCHANGED <<status, target, records, world>>

\* A running request makes its next step.
Step(r) ==
  \/ r \in Approvals /\ ApproveStep(r)
  \/ r \in Declines /\ DeclineStep(r)
  \/ r \in Bookings /\ BookingStep(r)
  \/ r \in Batches /\ BatchStep(r)
  \/ r \in Enrichments /\ EnrichStep(r)

Next ==
  \/ \E r \in Approvals : ReadForApproval(r) \/ ApproveStep(r)
  \/ \E r \in Declines : ReadForDecline(r) \/ DeclineStep(r)
  \/ \E r \in Bookings : ReadForBooking(r) \/ BookingStep(r)
  \/ \E r \in Batches : ReadForBatch(r) \/ BatchStep(r)
  \/ \E r \in Enrichments : Enrich(r) \/ EnrichStep(r)
  \/ ExpirerStep
  \/ \E s \in Sugg : Lapse(s)
  \/ \E k \in Slots : BookElsewhere(k)
  \/ \E r \in Requests : DbThrows(r)
  \/ ExpirerThrows \/ ApiCrash \/ WorkerCrash

Spec == Init /\ [][Next]_vars

(***************************************************************************)
(* Every await resolves: a SQL statement returns or throws, and FSP calls  *)
(* do, since fetch gives up by itself and a 429 is retried four times.     *)
(* The expire job is repeatable.  Nobody has to send a request.            *)
(***************************************************************************)
Fairness == /\ \A r \in Requests : WF_vars(Step(r))
            /\ WF_vars(ExpirerStep)

FairSpec == Spec /\ Fairness

-----------------------------------------------------------------------------
(***************************************************************************)
(* Properties.  A safety property that a fault can break says so: it is    *)
(* claimed only while that fault has not happened.                         *)
(***************************************************************************)

\* Every variable holds what its column, program counter or set can hold.
TypeOK ==
  /\ status \in [Sugg -> Status]
  /\ pc \in [Requests -> RequestPc]
  /\ target \in [Requests -> Sugg]
  /\ fsp \in [Sugg -> Nat]
  /\ history \in [Sugg -> Nat]
  /\ prospects \subseteq Groups
  /\ confirmed \subseteq Sugg
  /\ lapsed \subseteq Sugg
  /\ taken \subseteq Slots
  /\ expirer \in ExpirerPc
  /\ victims \subseteq Sugg
  /\ faulted \subseteq {"db", "lostAnswer"}

\* An approval between its lock and the write that gives the lock up.
HoldingPc == {"validate", "create", "revert", "markApproved", "catch"}
Holds(r, s) == target[r] = s /\ pc[r] \in HoldingPc

\* "optimistic lock to prevent double-approve": however approvals, declines,
\* direct bookings, auto-approvals, expiry and crashes interleave, no two
\* approvals talk to FSP for one suggestion.
OneFspCaller ==
  "db" \notin faulted =>
    \A s \in Sugg : \A p, q \in Approvals :
      Holds(p, s) /\ Holds(q, s) => p = q

\* While every FSP answer arrives and every statement runs, a suggestion is
\* booked at most once in FSP, and never while it is offered for approval.
BookedOnce ==
  faulted \cap {"db", "lostAnswer"} = {} =>
    \A s \in Sugg : /\ fsp[s] <= 1
                   /\ status[s] = "pending" => fsp[s] = 0

\* An approval answered with success has its reservation in FSP, and the row
\* says approved for good, whoever else wrote to it.
OkMeansBooked ==
  \A r \in Approvals : pc[r] = "ok" =>
    /\ fsp[target[r]] > 0
    /\ "db" \notin faulted => status[target[r]] = "approved"

\* A decline that was answered with success is never booked in FSP, although
\* approvals that read the row before it are still running.
DeclinedNeverBooked ==
  faulted \cap {"db", "lostAnswer"} = {} =>
    \A r \in Declines : pc[r] = "ok" => fsp[target[r]] = 0

\* A refused approval (conflict, or FSP errors) leaves nothing in FSP: every
\* reservation there belongs to an approval that went beyond the create call
\* and did not answer with a refusal.  Holds under all faults.
RefusedIsUnbooked ==
  \A s \in Sugg : fsp[s] <= Cardinality({r \in Approvals :
    /\ target[r] = s
    /\ pc[r] \notin {"idle", "lock", "validate", "create", "revert",
                      "auditFailure", "conflict", "rejected"}})

\* A mailed booking confirmation is not taken back: the suggestion stays
\* approved.
ConfirmedIsApproved == \A s \in confirmed : status[s] = "approved"

\* A suggestion expires only for a reason: its time is over, its slot has a
\* reservation, or another option of its group was approved.
GroundedExpiry ==
  \A s \in Sugg : status[s] = "expired" =>
    \/ s \in lapsed
    \/ SlotFilled(s)
    \/ \E t \in Siblings(s) : t # s /\ status[t] = "approved"

\* At most one option of a group is approved ("Expire sibling suggestions in
\* the same group (e.g. other discovery options)").
OneApprovedPerGroup ==
  \A s, t \in Sugg :
    /\ GroupOf[s] = GroupOf[t] /\ GroupOf[s] # NoGroup
    /\ status[s] = "approved" /\ status[t] = "approved"
    => s = t

\* A suggestion that FSP has booked is never offered again, whatever fails.
PendingIsUnbooked == \A s \in Sugg : status[s] = "pending" => fsp[s] = 0

\* A decision is final: no step of anyone changes an approved, declined or
\* expired suggestion.
FinalStaysFinal ==
  [][\A s \in Sugg : status[s] \in {"approved", "declined", "expired"} =>
                      status'[s] = status[s]]_vars

\* A suggestion whose time is over leaves the queue for good, even when an
\* approval held it while the expire job ran.
LapsedLeavesQueue ==
  \A s \in Sugg : s \in lapsed ~> [](status[s] # "pending")

\* The abstract life of a suggestion: held approvals and FSP bookings.
Life == INSTANCE SuggestionLifecycle WITH
  state  <- [s \in Sugg |-> status[s]],
  booked <- [s \in Sugg |-> fsp[s] > 0]
Lifecycle == Life!Spec
=============================================================================
