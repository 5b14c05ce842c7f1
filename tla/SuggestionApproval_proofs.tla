----------------------- MODULE SuggestionApproval_proofs --------------------
(***************************************************************************)
(* What SuggestionApproval guarantees for any number of suggestions and    *)
(* requests, proved with TLAPS: under all faults first, and then that the  *)
(* writers that use the lock implement SuggestionLifecycle.                *)
(***************************************************************************)
EXTENDS SuggestionApproval, TLAPS, FiniteSetTheorems

(***************************************************************************)
(* Typing.  Every step but the ones of the environment goes through the    *)
(* statement helpers, so each helper gets a lemma about what it can write. *)
(***************************************************************************)

\* What one call of ExpirePending leaves in the status column.
LEMMA ExpirePendingType ==
  ASSUME status \in [Sugg -> Status], NEW ids, ExpirePending(ids)
  PROVE  status' \in [Sugg -> Status]
BY DEF ExpirePending, Status

LEMMA GotoType ==
  ASSUME pc \in [Requests -> RequestPc], NEW r \in Requests, NEW from,
         NEW to \in RequestPc, Goto(r, from, to)
  PROVE  pc' \in [Requests -> RequestPc]
BY DEF Goto

LEMMA PassType ==
  ASSUME TypeOK, NEW r \in Requests, NEW from, NEW to \in RequestPc,
         Pass(r, from, to)
  PROVE  TypeOK'
<1>1. pc' \in [Requests -> RequestPc]
  BY GotoType DEF TypeOK, Pass
<1> QED
  BY <1>1 DEF TypeOK, Pass, records, job, world

LEMMA SetStatusType ==
  ASSUME TypeOK, NEW r \in Requests, NEW from, NEW to \in RequestPc,
         NEW new \in Status, SetStatus(r, from, to, new)
  PROVE  TypeOK'
<1>1. pc' \in [Requests -> RequestPc]
  BY GotoType DEF TypeOK, SetStatus
<1>2. status' \in [Sugg -> Status]
  BY DEF TypeOK, SetStatus
<1> QED
  BY <1>1, <1>2 DEF TypeOK, SetStatus, records, job, world

LEMMA ExpireGroupType ==
  ASSUME TypeOK, NEW r \in Requests, NEW from, NEW to \in RequestPc,
         ExpireGroup(r, from, to)
  PROVE  TypeOK'
<1>1. pc' \in [Requests -> RequestPc]
  BY GotoType DEF TypeOK, ExpireGroup
<1>2. status' \in [Sugg -> Status]
  BY ExpirePendingType DEF TypeOK, ExpireGroup
<1> QED
  BY <1>1, <1>2 DEF TypeOK, ExpireGroup, records, job, world

LEMMA AddHistoryType ==
  ASSUME TypeOK, NEW r \in Requests, NEW from, NEW to \in RequestPc,
         AddHistory(r, from, to)
  PROVE  TypeOK'
<1>1. pc' \in [Requests -> RequestPc]
  BY GotoType DEF TypeOK, AddHistory
<1>2. history' \in [Sugg -> Nat]
  BY DEF TypeOK, AddHistory
<1> QED
  BY <1>1, <1>2 DEF TypeOK, AddHistory, job, world

LEMMA BookProspectRowType ==
  ASSUME TypeOK, NEW r \in Requests, NEW from, NEW to \in RequestPc,
         BookProspectRow(r, from, to)
  PROVE  TypeOK'
<1>1. pc' \in [Requests -> RequestPc]
  BY GotoType DEF TypeOK, BookProspectRow
<1>2. prospects' \subseteq Groups
  BY DEF TypeOK, BookProspectRow, Groups
<1> QED
  BY <1>1, <1>2 DEF TypeOK, BookProspectRow, job, world

LEMMA SendConfirmationType ==
  ASSUME TypeOK, NEW r \in Requests, NEW from, NEW to \in RequestPc,
         SendConfirmation(r, from, to)
  PROVE  TypeOK'
<1>1. pc' \in [Requests -> RequestPc]
  BY GotoType DEF TypeOK, SendConfirmation
<1>2. confirmed' \subseteq Sugg
  BY DEF TypeOK, SendConfirmation
<1> QED
  BY <1>1, <1>2 DEF TypeOK, SendConfirmation, job, world

LEMMA ReadPendingInType ==
  ASSUME TypeOK, NEW r \in Requests, NEW from, NEW to \in RequestPc, NEW ids,
         ReadPendingIn(r, from, to, ids)
  PROVE  TypeOK'
<1>1. "conflict" \in RequestPc
  BY DEF RequestPc, Answers
<1> QED
  BY <1>1, PassType DEF ReadPendingIn

LEMMA SetStatusIfPendingType ==
  ASSUME TypeOK, NEW r \in Requests, NEW from, NEW to \in RequestPc,
         NEW new \in Status, SetStatusIfPending(r, from, to, new)
  PROVE  TypeOK'
<1>1. "conflict" \in RequestPc
  BY DEF RequestPc, Answers
<1> QED
  BY <1>1, PassType, SetStatusType DEF SetStatusIfPending

\* Every place a request can be at is named in RequestPc.
LEMMA PcNames ==
  /\ ApprovePc \subseteq RequestPc /\ DeclinePc \subseteq RequestPc
  /\ BookingPc \subseteq RequestPc /\ BatchPc \subseteq RequestPc
  /\ EnrichPc \subseteq RequestPc
  /\ Answers \subseteq RequestPc /\ "idle" \in RequestPc
BY DEF RequestPc

LEMMA ApproveStepType ==
  ASSUME TypeOK, NEW r \in Approvals, ReadForApproval(r) \/ ApproveStep(r)
  PROVE  TypeOK'
<1> r \in Requests
  BY DEF Requests
<1> USE PcNames DEF ApprovePc, Answers
<1>1. CASE ReadForApproval(r)
  BY <1>1, ReadPendingInType DEF ReadForApproval
<1>2. CASE TakeLock(r)
  BY <1>2, SetStatusIfPendingType DEF TakeLock, Status
<1>3. CASE ValidateReservation(r)
  BY <1>3, PassType DEF ValidateReservation
<1>4. CASE CreateReservation(r)
  <2>1. CASE \E next \in {"revert", "catch"} : Pass(r, "create", next)
    BY <2>1, PassType
  <2>2. CASE ~ \E next \in {"revert", "catch"} : Pass(r, "create", next)
    <3>1. \E next \in RequestPc : Goto(r, "create", next)
      BY <1>4, <2>2 DEF CreateReservation
    <3>2. pc' \in [Requests -> RequestPc]
      BY <3>1, GotoType DEF TypeOK
    <3>3. fsp' \in [Sugg -> Nat]
      BY <1>4, <2>2 DEF CreateReservation, TypeOK
    <3> QED
      BY <1>4, <2>2, <3>2, <3>3 DEF CreateReservation, TypeOK, job, world
  <2> QED
    BY <2>1, <2>2
<1>5. CASE RevertToPending(r)
  BY <1>5, SetStatusType DEF RevertToPending, Status
<1>6. CASE AuditFailure(r)
  BY <1>6, PassType DEF AuditFailure
<1>7. CASE MarkApproved(r)
  BY <1>7, SetStatusType DEF MarkApproved, Status
<1>8. CASE ExpireSiblings(r)
  BY <1>8, ExpireGroupType DEF ExpireSiblings
<1>9. CASE AuditApproved(r)
  BY <1>9, PassType DEF AuditApproved
<1>10. CASE RecordHistory(r)
  BY <1>10, AddHistoryType DEF RecordHistory
<1>11. CASE BookProspect(r)
  BY <1>11, BookProspectRowType DEF BookProspect
<1>12. CASE Notify(r)
  BY <1>12, SendConfirmationType DEF Notify
<1>13. CASE CatchRevert(r)
  BY <1>13, SetStatusType DEF CatchRevert, Status
<1>14. CASE AuditCatch(r)
  BY <1>14, PassType DEF AuditCatch
<1> QED
  BY <1>1, <1>2, <1>3, <1>4, <1>5, <1>6, <1>7, <1>8, <1>9, <1>10, <1>11,
     <1>12, <1>13, <1>14 DEF ApproveStep

LEMMA DeclineStepType ==
  ASSUME TypeOK, NEW r \in Declines, ReadForDecline(r) \/ DeclineStep(r)
  PROVE  TypeOK'
<1> r \in Requests
  BY DEF Requests
<1> USE PcNames DEF DeclinePc, Answers
<1>1. CASE ReadForDecline(r)
  BY <1>1, ReadPendingInType DEF ReadForDecline
<1>2. CASE DeclinePending(r)
  BY <1>2, SetStatusIfPendingType DEF DeclinePending, Status
<1>3. CASE AuditDecline(r)
  BY <1>3, PassType DEF AuditDecline
<1> QED
  BY <1>1, <1>2, <1>3 DEF DeclineStep

LEMMA BookingStepType ==
  ASSUME TypeOK, NEW r \in Bookings, ReadForBooking(r) \/ BookingStep(r)
  PROVE  TypeOK'
<1> r \in Requests
  BY DEF Requests
<1> USE PcNames DEF BookingPc, Answers
<1>1. CASE ReadForBooking(r)
  BY <1>1, ReadPendingInType DEF ReadForBooking
<1>2. CASE BookHistory(r)
  BY <1>2, AddHistoryType DEF BookHistory
<1>3. CASE BookApprove(r)
  BY <1>3, SetStatusType DEF BookApprove, Status
<1>4. CASE BookSiblings(r)
  BY <1>4, ExpireGroupType DEF BookSiblings
<1>5. CASE BookRow(r)
  BY <1>5, BookProspectRowType DEF BookRow
<1>6. CASE BookMail(r)
  BY <1>6, SendConfirmationType DEF BookMail
<1>7. CASE BookAudit(r)
  BY <1>7, PassType DEF BookAudit
<1> QED
  BY <1>1, <1>2, <1>3, <1>4, <1>5, <1>6, <1>7 DEF BookingStep

LEMMA BatchStepType ==
  ASSUME TypeOK, NEW r \in Batches, ReadForBatch(r) \/ BatchStep(r)
  PROVE  TypeOK'
<1> r \in Requests
  BY DEF Requests
<1> USE PcNames DEF BatchPc, Answers
<1>1. CASE ReadForBatch(r)
  BY <1>1, PassType DEF ReadForBatch
<1>2. CASE BatchHistory(r)
  BY <1>2, AddHistoryType DEF BatchHistory
<1>3. CASE BatchApprove(r)
  BY <1>3, SetStatusType DEF BatchApprove, Status
<1>4. CASE BatchRepeat(r)
  BY <1>4, AddHistoryType DEF BatchRepeat
<1> QED
  BY <1>1, <1>2, <1>3, <1>4 DEF BatchStep

LEMMA EnrichStepType ==
  ASSUME TypeOK, NEW r \in Enrichments, Enrich(r) \/ EnrichStep(r)
  PROVE  TypeOK'
<1> r \in Requests
  BY DEF Requests
<1> USE PcNames DEF EnrichPc, Answers
<1>1. CASE Enrich(r)
  BY <1>1, PassType DEF Enrich
<1>2. CASE VerifyConstraints(r)
  BY <1>2, PassType DEF VerifyConstraints
<1>3. CASE RereadPending(r)
  BY <1>3, ReadPendingInType DEF RereadPending
<1>4. CASE AutoApprove(r)
  BY <1>4, SetStatusType DEF AutoApprove, Status
<1>5. CASE AutoHistory(r)
  BY <1>5, AddHistoryType DEF AutoHistory
<1>6. CASE AutoSiblings(r)
  BY <1>6, ExpireGroupType DEF AutoSiblings
<1>7. CASE AutoAudit(r)
  BY <1>7, PassType DEF AutoAudit
<1> QED
  BY <1>1, <1>2, <1>3, <1>4, <1>5, <1>6, <1>7 DEF EnrichStep

LEMMA ExpirerStepType ==
  ASSUME TypeOK, ExpirerStep
  PROVE  TypeOK'
<1> USE DEF TypeOK, ExpirerAt, ExpirerPc, records, world
<1>1. CASE ExpireByTtl
  BY <1>1, ExpirePendingType DEF ExpireByTtl
<1>2. CASE ScanPending
  BY <1>2 DEF ScanPending
<1>3. CASE FetchReservations
  BY <1>3 DEF FetchReservations
<1>4. ASSUME NEW s \in Sugg, ExpireVictim(s)
      PROVE  TypeOK'
  BY <1>4, ExpirePendingType DEF ExpireVictim
<1> QED
  BY <1>1, <1>2, <1>3, <1>4 DEF ExpirerStep

LEMMA AfterThrowType == ASSUME NEW p PROVE AfterThrow(p) \in RequestPc
BY DEF AfterThrow, RequestPc, ApprovePc, EnrichPc, Answers

LEMMA EnvironmentType ==
  ASSUME TypeOK,
         \/ \E s \in Sugg : Lapse(s)
         \/ \E k \in Slots : BookElsewhere(k)
         \/ \E r \in Requests : DbThrows(r)
         \/ ExpirerThrows \/ ApiCrash \/ WorkerCrash
  PROVE  TypeOK'
<1> USE DEF TypeOK, records, job, world
<1>1. CASE \E s \in Sugg : Lapse(s)
  BY <1>1 DEF Lapse
<1>2. CASE \E k \in Slots : BookElsewhere(k)
  BY <1>2 DEF BookElsewhere
<1>3. CASE \E r \in Requests : DbThrows(r)
  BY <1>3, AfterThrowType DEF DbThrows
<1>4. CASE ExpirerThrows
  BY <1>4 DEF ExpirerThrows, ExpirerAt, ExpirerPc
<1>5. CASE ApiCrash
  BY <1>5 DEF ApiCrash, RequestPc, Answers
<1>6. CASE WorkerCrash
  <2>1. pc' \in [Requests -> RequestPc]
    BY <1>6 DEF WorkerCrash, RequestPc, Answers
  <2> QED
    BY <1>6, <2>1 DEF WorkerCrash, ExpirerPc
<1> QED
  BY <1>1, <1>2, <1>3, <1>4, <1>5, <1>6

LEMMA InitType == Init => TypeOK
BY DEF Init, TypeOK, Status, RequestPc, ExpirerPc

LEMMA NextType == TypeOK /\ [Next]_vars => TypeOK'
<1> SUFFICES ASSUME TypeOK, [Next]_vars PROVE TypeOK'
  OBVIOUS
<1>1. CASE Next
  BY <1>1, ApproveStepType, DeclineStepType, BookingStepType, BatchStepType,
     EnrichStepType, ExpirerStepType, EnvironmentType DEF Next
<1>2. CASE UNCHANGED vars
  BY <1>2 DEF vars, records, job, world, TypeOK
<1> QED
  BY <1>1, <1>2

\* TypeOK holds in every reachable state, for any sets of suggestions and
\* requests and any set of faults.
THEOREM Typing == Spec => []TypeOK
  BY InitType, NextType, PTL DEF Spec

-----------------------------------------------------------------------------
(***************************************************************************)
(* The inductive invariant.  OneFspCaller and BookedOnce are not inductive *)
(* by themselves: they need to know that a held suggestion is never        *)
(* offered, that a decided one is never held again, and what FSP has at    *)
(* each statement of an approval.                                          *)
(***************************************************************************)

\* The statements of an approval whose suggestion FSP has just booked.
ApprovedPc == {"siblings", "audit", "history", "prospect", "mail", "ok"}
DeclinedPc == {"auditDecline", "ok"}
UnbookedPc == HoldingPc \ {"markApproved"}

Unheld(s) == \A p \in Approvals : ~Holds(p, s)

LockInv ==
  "db" \notin faulted =>
    /\ \A s \in Sugg : \A p, q \in Approvals : Holds(p, s) /\ Holds(q, s) => p = q
    /\ \A p \in Approvals : pc[p] \in HoldingPc => status[target[p]] # "pending"
    /\ \A p \in Approvals : pc[p] \in ApprovedPc =>
         status[target[p]] = "approved" /\ Unheld(target[p])
    /\ \A d \in Declines : pc[d] \in DeclinedPc =>
         status[target[d]] # "pending" /\ Unheld(target[d])

AcceptedInv ==
  \A p \in Approvals :
    pc[p] \in ApprovedPc \cup {"markApproved"} => fsp[target[p]] > 0

BookedInv ==
  faulted = {} =>
    /\ \A s \in Sugg : fsp[s] <= 1 /\ (status[s] = "pending" => fsp[s] = 0)
    /\ \A p \in Approvals : pc[p] \in UnbookedPc => fsp[target[p]] = 0
    /\ \A d \in Declines : pc[d] \in DeclinedPc => fsp[target[d]] = 0

IInv == TypeOK /\ LockInv /\ AcceptedInv /\ BookedInv

LEMMA Disjoint ==
  /\ \A r \in Declines : r \notin Approvals
  /\ \A r \in Bookings \cup Batches \cup Enrichments : r \notin Approvals /\ r \notin Declines
BY ConstantsAssumption

LEMMA InitIInv == Init => IInv
<1> SUFFICES ASSUME Init PROVE IInv
  OBVIOUS
<1>1. \A r \in Approvals \cup Declines : pc[r] = "idle"
  BY DEF Init, Requests
<1>2. LockInv
  BY <1>1 DEF LockInv, Holds, HoldingPc, ApprovedPc, DeclinedPc
<1>3. AcceptedInv
  BY <1>1 DEF AcceptedInv, ApprovedPc
<1>4. BookedInv
  BY <1>1 DEF Init, BookedInv, UnbookedPc, HoldingPc, DeclinedPc
<1> QED
  BY <1>2, <1>3, <1>4, InitType DEF IInv

(***************************************************************************)
(* Most steps are ordinary: FSP is not asked, no row becomes pending, and  *)
(* no approval takes or gives back a suggestion.                           *)
(***************************************************************************)
OrdinaryWrite ==
  \A s \in Sugg : \/ status'[s] = status[s]
                  \/ status[s] = "pending" /\ status'[s] # "pending"
                  \/ status'[s] = "approved"

OrdinaryMove(from, to) ==
  to \in HoldingPc \cup ApprovedPc =>
    \/ from = to
    \/ from \in ApprovedPc /\ to \in ApprovedPc
    \/ from \in UnbookedPc /\ to \in UnbookedPc

OrdinaryMoves ==
  /\ \A p \in Approvals : OrdinaryMove(pc[p], pc'[p])
  /\ \A d \in Declines : pc'[d] \in DeclinedPc => pc[d] \in DeclinedPc

LEMMA OrdinaryStep ==
  ASSUME IInv, TypeOK', UNCHANGED <<target, fsp, faulted>>,
         OrdinaryWrite, OrdinaryMoves
  PROVE  IInv'
<1> USE DEF OrdinaryWrite, OrdinaryMoves, OrdinaryMove
<1>1. \A r \in Approvals \cup Declines : target[r] \in Sugg
  BY DEF IInv, TypeOK, Requests
<1>2. \A p \in Approvals : pc'[p] \in HoldingPc => pc[p] \in HoldingPc
  BY DEF UnbookedPc, HoldingPc, ApprovedPc
<1>3. \A s \in Sugg : status'[s] = "pending" => status[s] = "pending"
  OBVIOUS
<1>4. \A p \in Approvals : pc'[p] \in ApprovedPc => pc[p] \in ApprovedPc
  BY DEF UnbookedPc, HoldingPc, ApprovedPc
<1>5. LockInv'
  BY <1>1, <1>2, <1>3, <1>4 DEF IInv, LockInv, Holds, Unheld
<1>6. AcceptedInv'
  BY <1>4 DEF IInv, AcceptedInv, UnbookedPc, HoldingPc, ApprovedPc
<1>7. \A p \in Approvals : pc'[p] \in UnbookedPc => pc[p] \in UnbookedPc
  BY DEF UnbookedPc, HoldingPc, ApprovedPc
<1>8. BookedInv'
  BY <1>3, <1>7 DEF IInv, BookedInv
<1> QED
  BY <1>5, <1>6, <1>8 DEF IInv

\* The same for a step of one request.
LEMMA OrdinaryGoto ==
  ASSUME IInv, TypeOK', UNCHANGED <<target, fsp, faulted>>, OrdinaryWrite,
         NEW r \in Requests, NEW from, NEW to, Goto(r, from, to),
         r \in Approvals => OrdinaryMove(from, to),
         r \in Declines => (to \in DeclinedPc => from \in DeclinedPc)
  PROVE  IInv'
<1>1. \A q \in Requests : pc'[q] = IF q = r THEN to ELSE pc[q]
  BY DEF Goto, IInv, TypeOK
<1>2. pc[r] = from
  BY DEF Goto
<1>3. OrdinaryMoves
  BY <1>1, <1>2 DEF OrdinaryMoves, OrdinaryMove, Requests
<1> QED
  BY <1>3, OrdinaryStep

LEMMA PassOrdinary ==
  ASSUME IInv, TypeOK', NEW r \in Requests, NEW from, NEW to, Pass(r, from, to),
         r \in Approvals => OrdinaryMove(from, to),
         r \in Declines => (to \in DeclinedPc => from \in DeclinedPc)
  PROVE  IInv'
<1>1. OrdinaryWrite
  BY DEF Pass, OrdinaryWrite
<1> QED
  BY <1>1, OrdinaryGoto DEF Pass, records, world

LEMMA ReadPendingInOrdinary ==
  ASSUME IInv, TypeOK', NEW r \in Requests, NEW from, NEW to, NEW ids,
         ReadPendingIn(r, from, to, ids),
         r \in Approvals => OrdinaryMove(from, to),
         r \in Declines => (to \in DeclinedPc => from \in DeclinedPc)
  PROVE  IInv'
<1>1. OrdinaryMove(from, "conflict") /\ "conflict" \notin DeclinedPc
  BY DEF OrdinaryMove, HoldingPc, ApprovedPc, DeclinedPc
<1> QED
  BY <1>1, PassOrdinary DEF ReadPendingIn

LEMMA ExpirePendingOrdinary ==
  ASSUME NEW ids, ExpirePending(ids)
  PROVE  OrdinaryWrite
BY DEF ExpirePending, OrdinaryWrite

LEMMA ExpireGroupOrdinary ==
  ASSUME IInv, TypeOK', NEW r \in Requests, NEW from, NEW to,
         ExpireGroup(r, from, to),
         r \in Approvals => OrdinaryMove(from, to), r \notin Declines
  PROVE  IInv'
BY ExpirePendingOrdinary, OrdinaryGoto DEF ExpireGroup, records, world

LEMMA RecordOrdinary ==
  ASSUME IInv, TypeOK', NEW r \in Requests, NEW from, NEW to,
         \/ AddHistory(r, from, to)
         \/ BookProspectRow(r, from, to)
         \/ SendConfirmation(r, from, to),
         r \in Approvals => OrdinaryMove(from, to), r \notin Declines
  PROVE  IInv'
<1>1. /\ Goto(r, from, to)
      /\ UNCHANGED <<status, target, fsp, faulted>>
  BY DEF AddHistory, BookProspectRow, SendConfirmation, world
<1> QED
  BY <1>1, OrdinaryGoto DEF OrdinaryWrite

LEMMA ApproveDirectlyOrdinary ==
  ASSUME IInv, TypeOK', NEW r \in Requests, NEW from, NEW to,
         SetStatus(r, from, to, "approved"), r \notin Approvals, r \notin Declines
  PROVE  IInv'
<1>1. OrdinaryWrite
  BY DEF SetStatus, OrdinaryWrite, IInv, TypeOK
<1> QED
  BY <1>1, OrdinaryGoto DEF SetStatus, records, world

(***************************************************************************)
(* The steps of an approval that are not ordinary.                         *)
(***************************************************************************)

\* What a step that sends p from one statement to another does to pc.
LEMMA PcAfter ==
  ASSUME TypeOK, NEW p \in Approvals, NEW from, NEW to, Goto(p, from, to)
  PROVE  /\ pc[p] = from /\ pc'[p] = to
         /\ \A q \in Approvals \cup Declines : q # p => pc'[q] = pc[q]
         /\ \A q \in Approvals \cup Declines : target[q] \in Sugg
BY DEF Goto, TypeOK, Requests

LEMMA TakeLockSafe ==
  ASSUME IInv, TypeOK', NEW p \in Approvals,
         status[target[p]] = "pending",
         SetStatus(p, "lock", "validate", "processing")
  PROVE  IInv'
<1> DEFINE s0 == target[p]
<1>1. /\ pc[p] = "lock" /\ pc'[p] = "validate"
      /\ \A q \in Approvals \cup Declines : q # p => pc'[q] = pc[q]
      /\ \A q \in Approvals \cup Declines : target[q] \in Sugg
  BY PcAfter DEF IInv, SetStatus
<1>2. UNCHANGED <<target, fsp, faulted>>
  BY DEF SetStatus, records, world
<1>3. /\ status'[s0] = "processing"
      /\ \A s \in Sugg : s # s0 => status'[s] = status[s]
  BY <1>1 DEF SetStatus, IInv, TypeOK
<1>4. p \notin Declines
  BY Disjoint
<1>5. LockInv'
  <2> SUFFICES ASSUME "db" \notin faulted PROVE LockInv'
    BY <1>2 DEF LockInv
  <2>1. \A q \in Approvals : pc[q] \in HoldingPc => target[q] # s0
    BY DEF IInv, LockInv
  <2>2. \A q \in Approvals : pc[q] \in ApprovedPc => target[q] # s0
    BY DEF IInv, LockInv
  <2>3. \A d \in Declines : pc[d] \in DeclinedPc => target[d] # s0
    BY DEF IInv, LockInv
  <2>4. "validate" \notin ApprovedPc
    BY DEF ApprovedPc
  <2> QED
    BY <1>1, <1>2, <1>3, <1>4, <2>1, <2>2, <2>3, <2>4
       DEF IInv, LockInv, Holds, Unheld
<1>6. AcceptedInv'
  BY <1>1, <1>2 DEF IInv, AcceptedInv, ApprovedPc
<1>7. BookedInv'
  BY <1>1, <1>2, <1>3, <1>4 DEF IInv, BookedInv, UnbookedPc
<1> QED
  BY <1>5, <1>6, <1>7 DEF IInv

\* FSP books for the approval p, which is told so or not.
LEMMA BookSafe ==
  ASSUME IInv, TypeOK', NEW p \in Approvals, NEW to \in {"markApproved", "catch"},
         Goto(p, "create", to),
         fsp' = [fsp EXCEPT ![target[p]] = @ + 1],
         UNCHANGED <<status, target>>,
         IF to = "catch" THEN faulted' = faulted \cup {"lostAnswer"}
                         ELSE faulted' = faulted
  PROVE  IInv'
<1> DEFINE s0 == target[p]
<1>1. /\ pc[p] = "create" /\ pc'[p] = to
      /\ \A q \in Approvals \cup Declines : q # p => pc'[q] = pc[q]
      /\ \A q \in Approvals \cup Declines : target[q] \in Sugg
  BY PcAfter DEF IInv
<1>2. /\ fsp'[s0] = fsp[s0] + 1 /\ fsp[s0] \in Nat
      /\ \A s \in Sugg : s # s0 => fsp'[s] = fsp[s]
      /\ \A s \in Sugg : fsp[s] \in Nat
  BY <1>1 DEF IInv, TypeOK
<1>3. p \notin Declines
  BY Disjoint
<1>4. pc[p] \in HoldingPc /\ pc'[p] \in HoldingPc
      /\ pc'[p] \notin ApprovedPc /\ pc[p] \in UnbookedPc
  BY <1>1 DEF HoldingPc, ApprovedPc, UnbookedPc
<1>5. LockInv'
  BY <1>1, <1>3, <1>4 DEF IInv, LockInv, Holds, Unheld
<1>6. AcceptedInv'
  BY <1>1, <1>2 DEF IInv, AcceptedInv, ApprovedPc
<1>7. BookedInv'
  <2> SUFFICES ASSUME faulted' = {} PROVE BookedInv'
    BY DEF BookedInv
  <2>1. faulted = {} /\ to = "markApproved"
    OBVIOUS
  <2>2. fsp[s0] = 0 /\ status[s0] # "pending"
    BY <1>1, <1>4, <2>1 DEF IInv, LockInv, BookedInv
  <2>3. \A q \in Approvals : q # p /\ pc[q] \in UnbookedPc => target[q] # s0
    BY <1>1, <1>4, <2>1 DEF IInv, LockInv, Holds, UnbookedPc
  <2>4. \A d \in Declines : pc[d] \in DeclinedPc => target[d] # s0
    BY <1>1, <1>4, <2>1 DEF IInv, LockInv, Holds, Unheld
  <2>5. \A s \in Sugg : fsp'[s] <= 1 /\ (status'[s] = "pending" => fsp'[s] = 0)
    BY <1>2, <2>1, <2>2 DEF IInv, BookedInv
  <2>6. \A q \in Approvals : pc'[q] \in UnbookedPc => fsp'[target'[q]] = 0
    BY <1>1, <1>2, <2>1, <2>3 DEF IInv, BookedInv, UnbookedPc, HoldingPc
  <2>7. \A d \in Declines : pc'[d] \in DeclinedPc => fsp'[target'[d]] = 0
    BY <1>1, <1>2, <1>3, <2>1, <2>4 DEF IInv, BookedInv
  <2> QED
    BY <2>5, <2>6, <2>7 DEF BookedInv
<1> QED
  BY <1>5, <1>6, <1>7 DEF IInv

\* An approval gives its suggestion back.
LEMMA RevertSafe ==
  ASSUME IInv, TypeOK', NEW p \in Approvals,
         NEW from \in {"revert", "catch"}, NEW to \in {"auditFailure", "auditCatch"},
         SetStatus(p, from, to, "pending")
  PROVE  IInv'
<1> DEFINE s0 == target[p]
<1>1. /\ pc[p] = from /\ pc'[p] = to
      /\ \A q \in Approvals \cup Declines : q # p => pc'[q] = pc[q]
      /\ \A q \in Approvals \cup Declines : target[q] \in Sugg
  BY PcAfter DEF IInv, SetStatus
<1>2. UNCHANGED <<target, fsp, faulted>>
  BY DEF SetStatus, records, world
<1>3. /\ status'[s0] = "pending"
      /\ \A s \in Sugg : s # s0 => status'[s] = status[s]
  BY <1>1 DEF SetStatus, IInv, TypeOK
<1>4. p \notin Declines
  BY Disjoint
<1>5. /\ pc[p] \in HoldingPc /\ pc[p] \in UnbookedPc
      /\ pc'[p] \notin HoldingPc /\ pc'[p] \notin ApprovedPc
      /\ pc'[p] \notin UnbookedPc /\ pc'[p] # "markApproved"
  BY <1>1 DEF HoldingPc, ApprovedPc, UnbookedPc
<1>6. LockInv'
  <2> SUFFICES ASSUME "db" \notin faulted PROVE LockInv'
    BY <1>2 DEF LockInv
  <2>1. \A q \in Approvals : q # p /\ pc[q] \in HoldingPc => target[q] # s0
    BY <1>1, <1>5 DEF IInv, LockInv, Holds
  <2>2. \A q \in Approvals : pc[q] \in ApprovedPc => target[q] # s0
    BY <1>1, <1>5 DEF IInv, LockInv, Holds, Unheld
  <2>3. \A d \in Declines : pc[d] \in DeclinedPc => target[d] # s0
    BY <1>1, <1>5 DEF IInv, LockInv, Holds, Unheld
  <2> QED
    BY <1>1, <1>2, <1>3, <1>4, <1>5, <2>1, <2>2, <2>3
       DEF IInv, LockInv, Holds, Unheld
<1>7. AcceptedInv'
  BY <1>1, <1>2, <1>5 DEF IInv, AcceptedInv
<1>8. BookedInv'
  BY <1>1, <1>2, <1>3, <1>4, <1>5 DEF IInv, BookedInv
<1> QED
  BY <1>6, <1>7, <1>8 DEF IInv

LEMMA MarkApprovedSafe ==
  ASSUME IInv, TypeOK', NEW p \in Approvals,
         SetStatus(p, "markApproved", "siblings", "approved")
  PROVE  IInv'
<1> DEFINE s0 == target[p]
<1>1. /\ pc[p] = "markApproved" /\ pc'[p] = "siblings"
      /\ \A q \in Approvals \cup Declines : q # p => pc'[q] = pc[q]
      /\ \A q \in Approvals \cup Declines : target[q] \in Sugg
  BY PcAfter DEF IInv, SetStatus
<1>2. UNCHANGED <<target, fsp, faulted>>
  BY DEF SetStatus, records, world
<1>3. /\ status'[s0] = "approved"
      /\ \A s \in Sugg : s # s0 => status'[s] = status[s]
  BY <1>1 DEF SetStatus, IInv, TypeOK
<1>4. p \notin Declines
  BY Disjoint
<1>5. /\ pc[p] \in HoldingPc /\ pc'[p] \notin HoldingPc
      /\ pc'[p] \in ApprovedPc /\ pc'[p] \notin UnbookedPc
  BY <1>1 DEF HoldingPc, ApprovedPc, UnbookedPc
<1>6. LockInv'
  <2> SUFFICES ASSUME "db" \notin faulted PROVE LockInv'
    BY <1>2 DEF LockInv
  <2>1. \A q \in Approvals : q # p /\ pc[q] \in HoldingPc => target[q] # s0
    BY <1>1, <1>5 DEF IInv, LockInv, Holds
  <2> QED
    BY <1>1, <1>2, <1>3, <1>4, <1>5, <2>1 DEF IInv, LockInv, Holds, Unheld
<1>7. AcceptedInv'
  BY <1>1, <1>2 DEF IInv, AcceptedInv
<1>8. BookedInv'
  BY <1>1, <1>2, <1>3, <1>4, <1>5 DEF IInv, BookedInv
<1> QED
  BY <1>6, <1>7, <1>8 DEF IInv

\* A declined suggestion was neither held nor booked, and stays so.
LEMMA DeclineSafe ==
  ASSUME IInv, TypeOK', NEW d \in Declines,
         status[target[d]] = "pending",
         SetStatus(d, "decline", "auditDecline", "declined")
  PROVE  IInv'
<1> DEFINE s0 == target[d]
<1>1. d \in Requests /\ d \notin Approvals
  BY Disjoint DEF Requests
<1>2. /\ pc'[d] = "auditDecline" /\ s0 \in Sugg
      /\ \A q \in Approvals : pc'[q] = pc[q]
      /\ \A q \in Approvals : target[q] \in Sugg
      /\ \A e \in Declines : e # d => pc'[e] = pc[e]
      /\ \A e \in Declines : target[e] \in Sugg
  BY <1>1 DEF SetStatus, Goto, IInv, TypeOK, Requests
<1>3. UNCHANGED <<target, fsp, faulted>>
  BY DEF SetStatus, records, world
<1>4. /\ status'[s0] = "declined"
      /\ \A s \in Sugg : s # s0 => status'[s] = status[s]
  BY <1>2 DEF SetStatus, IInv, TypeOK
<1>5. LockInv'
  <2> SUFFICES ASSUME "db" \notin faulted PROVE LockInv'
    BY <1>3 DEF LockInv
  <2>1. \A q \in Approvals : pc[q] \in HoldingPc => target[q] # s0
    BY DEF IInv, LockInv
  <2>2. \A q \in Approvals : pc[q] \in ApprovedPc => target[q] # s0
    BY DEF IInv, LockInv
  <2> QED
    BY <1>2, <1>3, <1>4, <2>1, <2>2 DEF IInv, LockInv, Holds, Unheld
<1>6. AcceptedInv'
  BY <1>2, <1>3 DEF IInv, AcceptedInv
<1>7. BookedInv'
  BY <1>2, <1>3, <1>4 DEF IInv, BookedInv
<1> QED
  BY <1>5, <1>6, <1>7 DEF IInv

\* A failed statement: what is claimed without "db" is claimed no longer, and
\* nobody gets beyond the FSP call by failing.
LEMMA ThrowSafe ==
  ASSUME IInv, TypeOK', (\E r \in Requests : DbThrows(r)) \/ ExpirerThrows
  PROVE  IInv'
<1>1. "db" \in faulted' /\ UNCHANGED <<target, fsp>>
  BY DEF DbThrows, ExpirerThrows, records
<1>2. LockInv' /\ BookedInv'
  BY <1>1 DEF LockInv, BookedInv
<1>3. \A p \in Approvals : pc'[p] = pc[p] \/ pc'[p] = AfterThrow(pc[p])
  BY DEF DbThrows, ExpirerThrows, IInv, TypeOK, Requests
<1>4. \A x : AfterThrow(x) \in ApprovedPc \cup {"markApproved"} => x \in ApprovedPc
  BY DEF AfterThrow, ApprovedPc
<1>5. AcceptedInv'
  BY <1>1, <1>3, <1>4 DEF IInv, AcceptedInv
<1> QED
  BY <1>2, <1>5 DEF IInv

(***************************************************************************)
(* Every step preserves the invariant.                                     *)
(***************************************************************************)

LEMMA ApproveStepSafe ==
  ASSUME IInv, TypeOK', NEW p \in Approvals, ReadForApproval(p) \/ ApproveStep(p)
  PROVE  IInv'
<1> p \in Requests /\ p \notin Declines
  BY Disjoint DEF Requests
<1> USE DEF OrdinaryMove, HoldingPc, ApprovedPc, UnbookedPc
<1>1. CASE ReadForApproval(p)
  BY <1>1, ReadPendingInOrdinary DEF ReadForApproval
<1>2. CASE TakeLock(p)
  BY <1>2, TakeLockSafe, PassOrdinary DEF TakeLock, SetStatusIfPending
<1>3. CASE ValidateReservation(p)
  BY <1>3, PassOrdinary DEF ValidateReservation
<1>4. CASE CreateReservation(p)
  <2>1. CASE \E next \in {"revert", "catch"} : Pass(p, "create", next)
    BY <2>1, PassOrdinary
  <2>2. CASE ~ \E next \in {"revert", "catch"} : Pass(p, "create", next)
    BY <1>4, <2>2, BookSafe DEF CreateReservation, world
  <2> QED
    BY <2>1, <2>2
<1>5. CASE RevertToPending(p)
  BY <1>5, RevertSafe DEF RevertToPending
<1>6. CASE AuditFailure(p)
  BY <1>6, PassOrdinary DEF AuditFailure
<1>7. CASE MarkApproved(p)
  BY <1>7, MarkApprovedSafe DEF MarkApproved
<1>8. CASE ExpireSiblings(p)
  BY <1>8, ExpireGroupOrdinary DEF ExpireSiblings
<1>9. CASE AuditApproved(p)
  BY <1>9, PassOrdinary DEF AuditApproved
<1>10. CASE RecordHistory(p)
  BY <1>10, RecordOrdinary DEF RecordHistory
<1>11. CASE BookProspect(p)
  BY <1>11, RecordOrdinary DEF BookProspect
<1>12. CASE Notify(p)
  BY <1>12, RecordOrdinary DEF Notify
<1>13. CASE CatchRevert(p)
  BY <1>13, RevertSafe DEF CatchRevert
<1>14. CASE AuditCatch(p)
  BY <1>14, PassOrdinary DEF AuditCatch
<1> QED
  BY <1>1, <1>2, <1>3, <1>4, <1>5, <1>6, <1>7, <1>8, <1>9, <1>10, <1>11,
     <1>12, <1>13, <1>14 DEF ApproveStep

LEMMA DeclineStepSafe ==
  ASSUME IInv, TypeOK', NEW d \in Declines, ReadForDecline(d) \/ DeclineStep(d)
  PROVE  IInv'
<1> d \in Requests /\ d \notin Approvals
  BY Disjoint DEF Requests
<1> USE DEF DeclinedPc
<1>1. CASE ReadForDecline(d)
  BY <1>1, ReadPendingInOrdinary DEF ReadForDecline
<1>2. CASE DeclinePending(d)
  BY <1>2, DeclineSafe, PassOrdinary DEF DeclinePending, SetStatusIfPending
<1>3. CASE AuditDecline(d)
  BY <1>3, PassOrdinary DEF AuditDecline
<1> QED
  BY <1>1, <1>2, <1>3 DEF DeclineStep

LEMMA BookingStepSafe ==
  ASSUME IInv, TypeOK', NEW r \in Bookings, ReadForBooking(r) \/ BookingStep(r)
  PROVE  IInv'
<1> r \in Requests /\ r \notin Approvals /\ r \notin Declines
  BY Disjoint DEF Requests
<1>1. CASE ReadForBooking(r)
  BY <1>1, ReadPendingInOrdinary DEF ReadForBooking
<1>2. CASE BookHistory(r)
  BY <1>2, RecordOrdinary DEF BookHistory
<1>3. CASE BookApprove(r)
  BY <1>3, ApproveDirectlyOrdinary DEF BookApprove
<1>4. CASE BookSiblings(r)
  BY <1>4, ExpireGroupOrdinary DEF BookSiblings
<1>5. CASE BookRow(r)
  BY <1>5, RecordOrdinary DEF BookRow
<1>6. CASE BookMail(r)
  BY <1>6, RecordOrdinary DEF BookMail
<1>7. CASE BookAudit(r)
  BY <1>7, PassOrdinary DEF BookAudit
<1> QED
  BY <1>1, <1>2, <1>3, <1>4, <1>5, <1>6, <1>7 DEF BookingStep

LEMMA BatchStepSafe ==
  ASSUME IInv, TypeOK', NEW r \in Batches, ReadForBatch(r) \/ BatchStep(r)
  PROVE  IInv'
<1> r \in Requests /\ r \notin Approvals /\ r \notin Declines
  BY Disjoint DEF Requests
<1>1. CASE ReadForBatch(r)
  BY <1>1, PassOrdinary DEF ReadForBatch
<1>2. CASE BatchHistory(r)
  BY <1>2, RecordOrdinary DEF BatchHistory
<1>3. CASE BatchApprove(r)
  BY <1>3, ApproveDirectlyOrdinary DEF BatchApprove
<1>4. CASE BatchRepeat(r)
  BY <1>4, RecordOrdinary DEF BatchRepeat
<1> QED
  BY <1>1, <1>2, <1>3, <1>4 DEF BatchStep

LEMMA EnrichStepSafe ==
  ASSUME IInv, TypeOK', NEW r \in Enrichments, Enrich(r) \/ EnrichStep(r)
  PROVE  IInv'
<1> r \in Requests /\ r \notin Approvals /\ r \notin Declines
  BY Disjoint DEF Requests
<1>1. CASE Enrich(r)
  BY <1>1, PassOrdinary DEF Enrich
<1>2. CASE VerifyConstraints(r)
  BY <1>2, PassOrdinary DEF VerifyConstraints
<1>3. CASE RereadPending(r)
  BY <1>3, ReadPendingInOrdinary DEF RereadPending
<1>4. CASE AutoApprove(r)
  BY <1>4, ApproveDirectlyOrdinary DEF AutoApprove
<1>5. CASE AutoHistory(r)
  BY <1>5, RecordOrdinary DEF AutoHistory
<1>6. CASE AutoSiblings(r)
  BY <1>6, ExpireGroupOrdinary DEF AutoSiblings
<1>7. CASE AutoAudit(r)
  BY <1>7, PassOrdinary DEF AutoAudit
<1> QED
  BY <1>1, <1>2, <1>3, <1>4, <1>5, <1>6, <1>7 DEF EnrichStep

LEMMA ExpirerStepSafe ==
  ASSUME IInv, TypeOK', ExpirerStep
  PROVE  IInv'
<1>1. UNCHANGED <<pc, target, fsp, faulted>>
  BY DEF ExpirerStep, ExpireByTtl, ScanPending, FetchReservations,
         ExpireVictim, records, world
<1>2. OrdinaryWrite
  BY ExpirePendingOrdinary
     DEF ExpirerStep, ExpireByTtl, ScanPending, FetchReservations,
         ExpireVictim, OrdinaryWrite
<1>3. OrdinaryMoves
  BY <1>1 DEF OrdinaryMoves, OrdinaryMove
<1> QED
  BY <1>1, <1>2, <1>3, OrdinaryStep

LEMMA EnvironmentSafe ==
  ASSUME IInv, TypeOK',
         \/ \E s \in Sugg : Lapse(s)
         \/ \E k \in Slots : BookElsewhere(k)
         \/ ApiCrash \/ WorkerCrash
         \/ UNCHANGED vars
  PROVE  IInv'
<1>1. UNCHANGED <<status, target, fsp, faulted>>
  BY DEF Lapse, BookElsewhere, ApiCrash, WorkerCrash, vars, records, world
<1>2. \A r \in Approvals \cup Declines : pc'[r] = pc[r] \/ pc'[r] = "dead"
  BY Disjoint DEF Lapse, BookElsewhere, ApiCrash, WorkerCrash, vars, Requests
<1>3. OrdinaryMoves
  BY <1>2 DEF OrdinaryMoves, OrdinaryMove, HoldingPc, ApprovedPc, DeclinedPc
<1> QED
  BY <1>1, <1>3, OrdinaryStep DEF OrdinaryWrite

LEMMA NextIInv == IInv /\ [Next]_vars => IInv'
<1> SUFFICES ASSUME IInv, [Next]_vars PROVE IInv'
  OBVIOUS
<1>1. TypeOK'
  BY NextType DEF IInv
<1> QED
  BY <1>1, ApproveStepSafe, DeclineStepSafe, BookingStepSafe, BatchStepSafe,
     EnrichStepSafe, ExpirerStepSafe, ThrowSafe, EnvironmentSafe DEF Next

\* The inductive invariant holds in every reachable state.
THEOREM Invariance == Spec => []IInv
  BY InitIInv, NextIInv, PTL DEF Spec

\* However many approvals, declines, bookings, auto-approvals and expiries run
\* and whenever the API or the worker dies, the optimistic lock of approve
\* lets one approval at a time talk to FSP for a suggestion (no "db" fault).
THEOREM OneCaller == Spec => []OneFspCaller
<1>1. IInv => OneFspCaller
  BY DEF IInv, LockInv, OneFspCaller
<1> QED
  BY <1>1, Invariance, PTL

\* Without lost answers and failed statements FSP books a suggestion at most
\* once, and a suggestion on offer is not booked.
THEOREM AtMostOneBooking == Spec => []BookedOnce
<1>1. IInv => BookedOnce
  BY DEF IInv, TypeOK, BookedInv, BookedOnce
<1> QED
  BY <1>1, Invariance, PTL

\* A successful answer to an approval means a reservation in FSP, under every
\* fault; and an approved row for good, as long as no statement fails.
THEOREM OkApprovals == Spec => []OkMeansBooked
<1>1. IInv => OkMeansBooked
  BY DEF IInv, LockInv, AcceptedInv, OkMeansBooked, ApprovedPc
<1> QED
  BY <1>1, Invariance, PTL

\* What was declined is never booked in FSP, without lost answers and failed
\* statements.
THEOREM DeclinedUnbooked == Spec => []DeclinedNeverBooked
<1>1. IInv => DeclinedNeverBooked
  BY DEF IInv, TypeOK, BookedInv, DeclinedNeverBooked, DeclinedPc
<1> QED
  BY <1>1, Invariance, PTL

-----------------------------------------------------------------------------
(***************************************************************************)
(* Every reservation in FSP has an approval to answer for.  This needs no  *)
(* IInv: the approvals that may have booked a suggestion become more, one  *)
(* with every reservation.                                                 *)
(***************************************************************************)

\* The statements and answers of an approval that has booked nothing.
InnocentPc == {"idle", "lock", "validate", "create", "revert", "auditFailure",
               "conflict", "rejected"}

Bookers(s) == {r \in Approvals : target[r] = s /\ pc[r] \notin InnocentPc}

\* An approval p moves on, after a create or not.
LEMMA BookersGrow ==
  ASSUME TypeOK, UNCHANGED target,
         \A p \in Approvals : pc[p] \notin InnocentPc => pc'[p] \notin InnocentPc,
         NEW s \in Sugg
  PROVE  Bookers(s) \subseteq Bookers(s)'
BY DEF Bookers

LEMMA MoreBookers ==
  ASSUME IsFiniteSet(Approvals), TypeOK, RefusedIsUnbooked,
         UNCHANGED <<target, fsp>>,
         \A p \in Approvals : pc[p] \notin InnocentPc => pc'[p] \notin InnocentPc
  PROVE  RefusedIsUnbooked'
<1> SUFFICES ASSUME NEW s \in Sugg
             PROVE  fsp[s] <= Cardinality(Bookers(s)')
  BY DEF RefusedIsUnbooked, Bookers, InnocentPc
<1>1. Bookers(s) \subseteq Bookers(s)'
  BY BookersGrow
<1>2. Bookers(s)' \subseteq Approvals
  BY DEF Bookers
<1>3. IsFiniteSet(Bookers(s)') /\ IsFiniteSet(Bookers(s))
  BY <1>1, <1>2, FS_Subset, Zenon
<1>4. Cardinality(Bookers(s)) <= Cardinality(Bookers(s)')
  BY <1>1, <1>3, FS_Subset, Zenon
<1>5. Cardinality(Bookers(s)) \in Nat /\ Cardinality(Bookers(s)') \in Nat
  BY <1>3, FS_CardinalityType, Zenon
<1>6. fsp[s] <= Cardinality(Bookers(s)) /\ fsp[s] \in Nat
  BY DEF RefusedIsUnbooked, Bookers, InnocentPc, TypeOK
<1> QED
  BY <1>4, <1>5, <1>6

LEMMA OneMoreBooker ==
  ASSUME IsFiniteSet(Approvals), TypeOK, RefusedIsUnbooked,
         NEW p \in Approvals, NEW to, Goto(p, "create", to), to \notin InnocentPc,
         fsp' = [fsp EXCEPT ![target[p]] = @ + 1], UNCHANGED target
  PROVE  RefusedIsUnbooked'
<1> p \in Requests /\ target[p] \in Sugg
  BY DEF Requests, TypeOK
<1>1. /\ pc[p] = "create" /\ pc'[p] = to
      /\ \A q \in Approvals : q # p => pc'[q] = pc[q]
  BY DEF Goto, TypeOK, Requests
<1> SUFFICES ASSUME NEW s \in Sugg
             PROVE  fsp'[s] <= Cardinality(Bookers(s)')
  BY DEF RefusedIsUnbooked, Bookers, InnocentPc
<1>2. fsp[s] <= Cardinality(Bookers(s)) /\ fsp[s] \in Nat
  BY DEF RefusedIsUnbooked, Bookers, InnocentPc, TypeOK
<1>3. IsFiniteSet(Bookers(s))
  <2>1. Bookers(s) \subseteq Approvals
    BY DEF Bookers
  <2> QED
    BY <2>1, FS_Subset, Zenon
<1>4. CASE s = target[p]
  <2>1. Bookers(s)' = Bookers(s) \cup {p} /\ p \notin Bookers(s)
    BY <1>1, <1>4 DEF Bookers, InnocentPc
  <2>2. Cardinality(Bookers(s) \cup {p}) = Cardinality(Bookers(s)) + 1
    BY <1>3, <2>1, FS_AddElement, Zenon
  <2>3. Cardinality(Bookers(s)) \in Nat
    BY <1>3, FS_CardinalityType, Zenon
  <2>4. fsp'[s] = fsp[s] + 1
    BY <1>4 DEF TypeOK
  <2> QED
    BY <1>2, <2>1, <2>2, <2>3, <2>4
<1>5. CASE s # target[p]
  <2>1. Bookers(s)' = Bookers(s)
    BY <1>1, <1>5 DEF Bookers
  <2>2. fsp'[s] = fsp[s]
    BY <1>5 DEF TypeOK
  <2> QED
    BY <1>2, <2>1, <2>2
<1> QED
  BY <1>4, <1>5

\* A step of one request that books nothing.
LEMMA GotoBookers ==
  ASSUME IsFiniteSet(Approvals), TypeOK, RefusedIsUnbooked,
         UNCHANGED <<target, fsp>>,
         NEW r \in Requests, NEW from, NEW to, Goto(r, from, to),
         r \in Approvals /\ from \notin InnocentPc => to \notin InnocentPc
  PROVE  RefusedIsUnbooked'
<1>1. pc[r] = from /\ \A q \in Requests : pc'[q] = IF q = r THEN to ELSE pc[q]
  BY DEF Goto, TypeOK
<1>2. \A p \in Approvals : pc[p] \notin InnocentPc => pc'[p] \notin InnocentPc
  BY <1>1 DEF Requests
<1> QED
  BY <1>2, MoreBookers

LEMMA ApproveStepBookers ==
  ASSUME IsFiniteSet(Approvals), TypeOK, RefusedIsUnbooked,
         NEW p \in Approvals, ReadForApproval(p) \/ ApproveStep(p)
  PROVE  RefusedIsUnbooked'
<1> p \in Requests
  BY DEF Requests
<1> USE DEF InnocentPc
<1>1. CASE CreateReservation(p)
  <2>1. CASE \E next \in {"revert", "catch"} : Pass(p, "create", next)
    BY <2>1, GotoBookers DEF Pass, records
  <2>2. CASE ~ \E next \in {"revert", "catch"} : Pass(p, "create", next)
    <3>1. PICK to \in {"markApproved", "catch"} : Goto(p, "create", to)
      BY <1>1, <2>2 DEF CreateReservation
    <3>2. UNCHANGED target /\ fsp' = [fsp EXCEPT ![target[p]] = @ + 1]
      BY <1>1, <2>2 DEF CreateReservation
    <3> QED
      BY <3>1, <3>2, OneMoreBooker
  <2> QED
    BY <2>1, <2>2
<1>2. CASE \/ ReadForApproval(p) \/ TakeLock(p) \/ ValidateReservation(p)
  BY <1>2, GotoBookers DEF ReadForApproval, ReadPendingIn, TakeLock,
     SetStatusIfPending, ValidateReservation, SetStatus, Pass, records
<1>3. CASE \/ RevertToPending(p) \/ AuditFailure(p) \/ MarkApproved(p)
           \/ CatchRevert(p) \/ AuditCatch(p) \/ AuditApproved(p)
  BY <1>3, GotoBookers DEF RevertToPending, AuditFailure, MarkApproved,
     CatchRevert, AuditCatch, AuditApproved, SetStatus, Pass, records
<1>4. CASE ExpireSiblings(p) \/ RecordHistory(p) \/ BookProspect(p) \/ Notify(p)
  BY <1>4, GotoBookers DEF ExpireSiblings, RecordHistory, BookProspect, Notify,
     ExpireGroup, AddHistory, BookProspectRow, SendConfirmation, records
<1> QED
  BY <1>1, <1>2, <1>3, <1>4 DEF ApproveStep

\* The other handlers never call FSP's create.
LEMMA OthersBookNothing ==
  ASSUME TypeOK,
         \/ \E r \in Declines : ReadForDecline(r) \/ DeclineStep(r)
         \/ \E r \in Bookings : ReadForBooking(r) \/ BookingStep(r)
         \/ \E r \in Batches : ReadForBatch(r) \/ BatchStep(r)
         \/ \E r \in Enrichments : Enrich(r) \/ EnrichStep(r)
  PROVE  /\ UNCHANGED <<target, fsp>>
         /\ \E r \in Requests \ Approvals : \E from, to : Goto(r, from, to)
<1>1. ASSUME NEW r \in Declines, ReadForDecline(r) \/ DeclineStep(r)
      PROVE  UNCHANGED <<target, fsp>> /\ \E from, to : Goto(r, from, to)
  BY <1>1 DEF ReadForDecline, DeclineStep, ReadPendingIn, DeclinePending,
     SetStatusIfPending, SetStatus, AuditDecline, Pass, records
<1>2. ASSUME NEW r \in Bookings, ReadForBooking(r) \/ BookingStep(r)
      PROVE  UNCHANGED <<target, fsp>> /\ \E from, to : Goto(r, from, to)
  BY <1>2 DEF ReadForBooking, BookingStep, ReadPendingIn, BookHistory,
     BookApprove, BookSiblings, BookRow, BookMail, BookAudit, AddHistory,
     SetStatus, ExpireGroup, BookProspectRow, SendConfirmation, Pass, records
<1>3. ASSUME NEW r \in Batches, ReadForBatch(r) \/ BatchStep(r)
      PROVE  UNCHANGED <<target, fsp>> /\ \E from, to : Goto(r, from, to)
  BY <1>3 DEF ReadForBatch, BatchStep, BatchHistory, BatchApprove, BatchRepeat,
     AddHistory, SetStatus, Pass, records
<1>4. ASSUME NEW r \in Enrichments, Enrich(r) \/ EnrichStep(r)
      PROVE  UNCHANGED <<target, fsp>> /\ \E from, to : Goto(r, from, to)
  BY <1>4 DEF Enrich, EnrichStep, VerifyConstraints, RereadPending,
     ReadPendingIn, AutoApprove, AutoHistory, AutoSiblings, AutoAudit,
     AddHistory, SetStatus, ExpireGroup, Pass, records
<1>5. Declines \cup Bookings \cup Batches \cup Enrichments
        \subseteq Requests \ Approvals
  BY Disjoint DEF Requests
<1> QED
  BY <1>1, <1>2, <1>3, <1>4, <1>5

LEMMA NextBookers ==
  ASSUME IsFiniteSet(Approvals), TypeOK, RefusedIsUnbooked, [Next]_vars
  PROVE  RefusedIsUnbooked'
<1>1. CASE \E p \in Approvals : ReadForApproval(p) \/ ApproveStep(p)
  BY <1>1, ApproveStepBookers
<1>2. CASE \/ \E r \in Declines : ReadForDecline(r) \/ DeclineStep(r)
           \/ \E r \in Bookings : ReadForBooking(r) \/ BookingStep(r)
           \/ \E r \in Batches : ReadForBatch(r) \/ BatchStep(r)
           \/ \E r \in Enrichments : Enrich(r) \/ EnrichStep(r)
  BY <1>2, OthersBookNothing, GotoBookers
<1>3. CASE \E r \in Requests : DbThrows(r)
  <2> PICK r \in Requests : DbThrows(r)
    BY <1>3
  <2>1. Goto(r, pc[r], AfterThrow(pc[r])) /\ UNCHANGED <<target, fsp>>
    BY DEF DbThrows, Goto, records
  <2>2. AfterThrow(pc[r]) \notin InnocentPc
    BY DEF AfterThrow, InnocentPc
  <2> QED
    BY <2>1, <2>2, GotoBookers
<1>4. CASE ApiCrash \/ WorkerCrash
  <2>1. \A p \in Approvals : pc'[p] = pc[p] \/ pc'[p] = "dead"
    BY <1>4, Disjoint DEF ApiCrash, WorkerCrash, Requests
  <2>2. UNCHANGED <<target, fsp>>
    BY <1>4 DEF ApiCrash, WorkerCrash, records
  <2> QED
    BY <2>1, <2>2, MoreBookers DEF InnocentPc
<1>5. CASE \/ ExpirerStep \/ ExpirerThrows
           \/ \E s \in Sugg : Lapse(s)
           \/ \E k \in Slots : BookElsewhere(k)
           \/ UNCHANGED vars
  <2>1. UNCHANGED <<target, fsp, pc>>
    BY <1>5 DEF ExpirerStep, ExpireByTtl, ScanPending, FetchReservations,
       ExpireVictim, ExpirerThrows, Lapse, BookElsewhere, vars, records
  <2> QED
    BY <2>1, MoreBookers
<1> QED
  BY <1>1, <1>2, <1>3, <1>4, <1>5 DEF Next

\* Whatever fails, FSP holds no more reservations for a suggestion than there
\* are approvals of it that were not refused: a conflict or a rejection never
\* leaves a reservation behind, nor does any handler but approve.
THEOREM RefusalsAreUnbooked ==
  IsFiniteSet(Approvals) => (Spec => []RefusedIsUnbooked)
<1> SUFFICES ASSUME IsFiniteSet(Approvals) PROVE Spec => []RefusedIsUnbooked
  OBVIOUS
<1>1. ASSUME Init PROVE TypeOK /\ RefusedIsUnbooked
  <2>1. \A s \in Sugg : Bookers(s) = {}
    BY <1>1 DEF Init, Bookers, InnocentPc, Requests
  <2>2. \A s \in Sugg : fsp[s] <= Cardinality(Bookers(s))
    BY <1>1, <2>1, FS_EmptySet DEF Init
  <2> QED
    BY <1>1, <2>2, InitType DEF RefusedIsUnbooked, Bookers, InnocentPc
<1>2. TypeOK /\ RefusedIsUnbooked /\ [Next]_vars => (TypeOK /\ RefusedIsUnbooked)'
  BY NextType, NextBookers
<1> QED
  BY <1>1, <1>2, PTL DEF Spec

--------------------------------------------------------------------------------
(***************************************************************************)
(* Without the writers that ignore the lock, and while every statement and *)
(* every FSP answer gets through, the approval workflow implements         *)
(* SuggestionLifecycle, for any number of suggestions, approvals and       *)
(* declines, with crashes of both processes.                               *)
(***************************************************************************)

\* Only approve, decline and the expiry job write; only crashes happen.
LockedWritersOnly ==
  Bookings = {} /\ Batches = {} /\ Enrichments = {} /\ Faults \subseteq {"crash"}

\* The suggestion of an approval that has the lock says so.
HeldInv ==
  \A p \in Approvals : pc[p] \in HoldingPc => status[target[p]] = "processing"

RInv == IInv /\ HeldInv /\ faulted = {}

(***************************************************************************)
(* How the statements look from outside.                                   *)
(***************************************************************************)

LEMMA MoveStep ==
  ASSUME TypeOK, TypeOK', NEW s \in Sugg, NEW from, NEW to,
         status[s] = from, status' = [status EXCEPT ![s] = to], UNCHANGED fsp
  PROVE  Life!Move(s, from, to)
<1>1. [t \in Sugg |-> status'[t]]
        = [[t \in Sugg |-> status[t]] EXCEPT ![s] = to]
  BY DEF TypeOK
<1> QED
  BY <1>1 DEF Life!Move

LEMMA ExpireStep ==
  ASSUME TypeOK, TypeOK', NEW ids, ExpirePending(ids), UNCHANGED fsp
  PROVE  Life!Next
<1> PICK S \in SUBSET Sugg : S = {s \in Sugg : s \in ids /\ status[s] = "pending"}
  OBVIOUS
<1>1. \A s \in S : [t \in Sugg |-> status[t]][s] = "pending"
  OBVIOUS
<1>2. [t \in Sugg |-> status'[t]] =
        [s \in Sugg |-> IF s \in S THEN "expired"
                        ELSE [t \in Sugg |-> status[t]][s]]
  BY DEF ExpirePending
<1>3. Life!Expire(S)
  BY <1>1, <1>2 DEF Life!Expire
<1> QED
  BY <1>3, Zenon DEF Life!Next

LEMMA QuietStep ==
  ASSUME UNCHANGED <<status, fsp>>
  PROVE  UNCHANGED Life!lifeVars
BY DEF Life!lifeVars

LEMMA BookStep ==
  ASSUME TypeOK, TypeOK', NEW s \in Sugg, status[s] = "processing", fsp[s] = 0,
         fsp' = [fsp EXCEPT ![s] = @ + 1], UNCHANGED status
  PROVE  Life!Book(s)
<1>1. fsp'[s] > 0 /\ \A t \in Sugg : t # s => fsp'[t] = fsp[t]
  BY DEF TypeOK
<1>2. [t \in Sugg |-> fsp'[t] > 0]
        = [[t \in Sugg |-> fsp[t] > 0] EXCEPT ![s] = TRUE]
  <2>1. ASSUME NEW t \in Sugg
        PROVE  (fsp'[t] > 0)
                 = IF t = s THEN TRUE ELSE [u \in Sugg |-> fsp[u] > 0][t]
    <3>1. CASE t = s
      <4>1. (fsp'[t] > 0) = TRUE
        BY <1>1, <3>1
      <4> QED
        BY <3>1, <4>1, Zenon
    <3>2. CASE t # s
      <4>1. (fsp'[t] > 0) = (fsp[t] > 0)
        BY <1>1, <3>2
      <4> QED
        BY <3>2, <4>1, Zenon
    <3> QED
      BY <3>1, <3>2
  <2> QED
    BY <2>1, Zenon
<1>3. ~ [t \in Sugg |-> fsp[t] > 0][s]
  <2>1. ~ (fsp[s] > 0)
    OBVIOUS
  <2> QED
    BY <2>1, Zenon
<1>4. [t \in Sugg |-> status[t]][s] = "processing"
  OBVIOUS
<1>5. [t \in Sugg |-> status'[t]] = [t \in Sugg |-> status[t]]
  OBVIOUS
<1> QED
  BY <1>2, <1>3, <1>4, <1>5, Zenon DEF Life!Book

\* How FSP's side of a suggestion looks from outside.
LEMMA BookedIs ==
  ASSUME NEW s \in Sugg
  PROVE  (fsp[s] > 0) <=> [t \in Sugg |-> fsp[t] > 0][s]
BY Zenon

LEMMA ReleaseStep ==
  ASSUME NEW s \in Sugg, fsp[s] = 0, Life!Move(s, "processing", "pending")
  PROVE  Life!Release(s)
<1>1. ~ (fsp[s] > 0)
  OBVIOUS
<1> QED
  BY <1>1, BookedIs, Zenon DEF Life!Release

LEMMA ApproveBooked ==
  ASSUME NEW s \in Sugg, fsp[s] > 0, Life!Move(s, "processing", "approved")
  PROVE  Life!Approve(s)
BY BookedIs, Zenon DEF Life!Approve

\* One step of one suggestion is a step of the lifecycle.
LEMMA LifeNext ==
  ASSUME NEW s \in Sugg,
         \/ Life!Hold(s) \/ Life!Release(s) \/ Life!Book(s)
         \/ Life!Approve(s) \/ Life!Decline(s)
  PROVE  Life!Next
BY Zenon DEF Life!Next

(***************************************************************************)
(* Every step is a step of the lifecycle or changes nothing it shows.      *)
(***************************************************************************)

LEMMA ApproveRefines ==
  ASSUME RInv, TypeOK', NEW p \in Approvals, faulted' = {},
         ReadForApproval(p) \/ ApproveStep(p)
  PROVE  [Life!Next]_(Life!lifeVars)
<1> TypeOK /\ target[p] \in Sugg
  BY DEF RInv, IInv, TypeOK, Requests
<1> PICK s0 \in Sugg : s0 = target[p]
  OBVIOUS
<1>1. pc[p] \in HoldingPc => status[s0] = "processing"
  BY DEF RInv, HeldInv
<1>2. pc[p] \in UnbookedPc => fsp[s0] = 0
  BY DEF RInv, IInv, BookedInv
<1>3. CASE TakeLock(p)
  <2>1. CASE status[s0] = "pending"
    <3>1. Life!Move(s0, "pending", "processing")
      BY <1>3, <2>1, MoveStep
         DEF TakeLock, SetStatusIfPending, SetStatus, Pass, records
    <3> QED
      BY <3>1, LifeNext, Zenon DEF Life!Hold
  <2>2. CASE status[s0] # "pending"
    BY <1>3, <2>2, QuietStep DEF TakeLock, SetStatusIfPending, Pass, records
  <2> QED
    BY <2>1, <2>2
<1>4. CASE RevertToPending(p) \/ CatchRevert(p)
  <2>1. pc[p] \in {"revert", "catch"}
    BY <1>4 DEF RevertToPending, CatchRevert, SetStatus, Goto
  <2>2. status[s0] = "processing" /\ fsp[s0] = 0
    BY <1>1, <1>2, <2>1 DEF HoldingPc, UnbookedPc
  <2>3. Life!Move(s0, "processing", "pending")
    BY <1>4, <2>2, MoveStep DEF RevertToPending, CatchRevert, SetStatus, records
  <2>4. Life!Release(s0)
    BY <2>2, <2>3, ReleaseStep
  <2> QED
    BY <2>4, LifeNext
<1>5. CASE MarkApproved(p)
  <2>1. pc[p] = "markApproved"
    BY <1>5 DEF MarkApproved, SetStatus, Goto
  <2>2. status[s0] = "processing" /\ fsp[s0] > 0
    BY <1>1, <2>1 DEF HoldingPc, RInv, IInv, AcceptedInv
  <2>3. Life!Move(s0, "processing", "approved")
    BY <1>5, <2>2, MoveStep DEF MarkApproved, SetStatus, records
  <2>4. Life!Approve(s0)
    BY <2>2, <2>3, ApproveBooked
  <2> QED
    BY <2>4, LifeNext
<1>6. CASE CreateReservation(p)
  <2>1. CASE \E next \in {"revert", "catch"} : Pass(p, "create", next)
    BY <2>1, QuietStep DEF Pass, records
  <2>2. CASE ~ \E next \in {"revert", "catch"} : Pass(p, "create", next)
    <3>1. /\ pc[p] = "create"
          /\ fsp' = [fsp EXCEPT ![s0] = @ + 1]
          /\ UNCHANGED status
      BY <1>6, <2>2 DEF CreateReservation, Goto
    <3>2. status[s0] = "processing" /\ fsp[s0] = 0
      BY <1>1, <1>2, <3>1 DEF HoldingPc, UnbookedPc
    <3> QED
      BY <3>1, <3>2, BookStep, LifeNext
  <2> QED
    BY <2>1, <2>2
<1>7. CASE ExpireSiblings(p)
  BY <1>7, ExpireStep DEF ExpireSiblings, ExpireGroup, records
<1>8. CASE \/ ReadForApproval(p) \/ ValidateReservation(p) \/ AuditFailure(p)
           \/ AuditApproved(p) \/ AuditCatch(p)
  BY <1>8, QuietStep DEF ReadForApproval, ReadPendingIn, ValidateReservation,
     AuditFailure, AuditApproved, AuditCatch, Pass, records
<1>9. CASE RecordHistory(p) \/ BookProspect(p) \/ Notify(p)
  BY <1>9, QuietStep DEF RecordHistory, BookProspect, Notify, AddHistory,
     BookProspectRow, SendConfirmation
<1> QED
  BY <1>3, <1>4, <1>5, <1>6, <1>7, <1>8, <1>9 DEF ApproveStep

LEMMA DeclineRefines ==
  ASSUME RInv, TypeOK', NEW d \in Declines, ReadForDecline(d) \/ DeclineStep(d)
  PROVE  [Life!Next]_(Life!lifeVars)
<1> TypeOK /\ target[d] \in Sugg
  BY DEF RInv, IInv, TypeOK, Requests
<1> PICK s0 \in Sugg : s0 = target[d]
  OBVIOUS
<1>1. CASE DeclinePending(d)
  <2>1. CASE status[s0] = "pending"
    <3>1. Life!Move(s0, "pending", "declined")
      BY <1>1, <2>1, MoveStep
         DEF DeclinePending, SetStatusIfPending, SetStatus, Pass, records
    <3> QED
      BY <3>1, LifeNext, Zenon DEF Life!Decline
  <2>2. CASE status[s0] # "pending"
    BY <1>1, <2>2, QuietStep
       DEF DeclinePending, SetStatusIfPending, Pass, records
  <2> QED
    BY <2>1, <2>2
<1>2. CASE ReadForDecline(d) \/ AuditDecline(d)
  BY <1>2, QuietStep
     DEF ReadForDecline, ReadPendingIn, AuditDecline, Pass, records
<1> QED
  BY <1>1, <1>2 DEF DeclineStep

LEMMA ExpirerRefines ==
  ASSUME RInv, TypeOK', ExpirerStep
  PROVE  [Life!Next]_(Life!lifeVars)
<1> TypeOK
  BY DEF RInv, IInv
<1>1. CASE ExpireByTtl
  BY <1>1, ExpireStep DEF ExpireByTtl, records
<1>2. CASE ScanPending \/ FetchReservations
  BY <1>2, QuietStep DEF ScanPending, FetchReservations, records
<1>3. CASE \E s \in Sugg : ExpireVictim(s)
  BY <1>3, ExpireStep DEF ExpireVictim, records
<1> QED
  BY <1>1, <1>2, <1>3 DEF ExpirerStep

\* No fault that excuses a property can happen.
LEMMA FaultFree ==
  ASSUME LockedWritersOnly, faulted = {}, [Next]_vars
  PROVE  faulted' = {}
<1> "db" \notin Faults /\ "lostAnswer" \notin Faults
  BY DEF LockedWritersOnly
<1>1. ASSUME NEW p \in Approvals, ReadForApproval(p) \/ ApproveStep(p)
      PROVE  faulted' = faulted
  BY <1>1 DEF ReadForApproval, ApproveStep, ReadPendingIn, TakeLock,
     SetStatusIfPending, ValidateReservation, CreateReservation, RevertToPending,
     AuditFailure, MarkApproved, ExpireSiblings, AuditApproved, RecordHistory,
     BookProspect, Notify, CatchRevert, AuditCatch, Pass, SetStatus,
     ExpireGroup, AddHistory, BookProspectRow, SendConfirmation, world
<1>2. ASSUME NEW d \in Declines, ReadForDecline(d) \/ DeclineStep(d)
      PROVE  faulted' = faulted
  BY <1>2 DEF ReadForDecline, DeclineStep, ReadPendingIn, DeclinePending,
     SetStatusIfPending, AuditDecline, Pass, SetStatus, world
<1>3. CASE ExpirerStep
  BY <1>3 DEF ExpirerStep, ExpireByTtl, ScanPending, FetchReservations,
     ExpireVictim, world
<1>4. CASE \/ \E s \in Sugg : Lapse(s)
           \/ \E k \in Slots : BookElsewhere(k)
           \/ ApiCrash \/ WorkerCrash \/ UNCHANGED vars
  BY <1>4 DEF Lapse, BookElsewhere, ApiCrash, WorkerCrash, vars, world
<1> QED
  BY <1>1, <1>2, <1>3, <1>4 DEF Next, LockedWritersOnly, DbThrows, ExpirerThrows

-----------------------------------------------------------------------------
(***************************************************************************)
(* HeldInv is inductive with IInv.                                         *)
(***************************************************************************)

\* Most steps give nobody the lock and write no row that is held.
LEMMA HeldQuiet ==
  ASSUME RInv, TypeOK', UNCHANGED target,
         \A p \in Approvals : pc'[p] \in HoldingPc => pc[p] \in HoldingPc,
         \A s \in Sugg : status[s] # "processing" \/ status'[s] = status[s]
  PROVE  HeldInv'
BY DEF RInv, HeldInv, IInv, TypeOK, Requests

LEMMA HeldGoto ==
  ASSUME RInv, TypeOK', UNCHANGED target,
         NEW r \in Requests, NEW from, NEW to, Goto(r, from, to),
         to \in HoldingPc => from \in HoldingPc \/ r \notin Approvals,
         \A s \in Sugg : status[s] # "processing" \/ status'[s] = status[s]
  PROVE  HeldInv'
<1>1. pc[r] = from /\ \A q \in Requests : pc'[q] = IF q = r THEN to ELSE pc[q]
  BY DEF Goto, RInv, IInv, TypeOK
<1>2. \A p \in Approvals : pc'[p] \in HoldingPc => pc[p] \in HoldingPc
  BY <1>1 DEF Requests
<1> QED
  BY <1>2, HeldQuiet

\* The approval p takes the lock or gives it up: nobody else has it.
LEMMA HeldWrite ==
  ASSUME RInv, TypeOK', NEW p \in Approvals, NEW from, NEW to, NEW new,
         SetStatus(p, from, to, new),
         \/ from \in HoldingPc /\ to \notin HoldingPc
         \/ status[target[p]] = "pending" /\ new = "processing"
  PROVE  HeldInv'
<1>1. /\ pc[p] = from /\ pc'[p] = to
      /\ \A q \in Approvals \cup Declines : q # p => pc'[q] = pc[q]
      /\ \A q \in Approvals \cup Declines : target[q] \in Sugg
  BY PcAfter DEF RInv, IInv, SetStatus
<1>2. UNCHANGED target
  BY DEF SetStatus
<1>3. /\ status'[target[p]] = new
      /\ \A s \in Sugg : s # target[p] => status'[s] = status[s]
  BY <1>1 DEF SetStatus, RInv, IInv, TypeOK
<1>4. \A q \in Approvals : q # p /\ pc[q] \in HoldingPc => target[q] # target[p]
  BY <1>1 DEF RInv, IInv, LockInv, Holds
<1> QED
  BY <1>1, <1>2, <1>3, <1>4 DEF RInv, HeldInv

LEMMA HeldByApprove ==
  ASSUME RInv, TypeOK', NEW p \in Approvals, faulted' = {},
         ReadForApproval(p) \/ ApproveStep(p)
  PROVE  HeldInv'
<1> p \in Requests
  BY DEF Requests
<1> USE DEF HoldingPc
<1>1. CASE TakeLock(p)
  <2>1. CASE status[target[p]] = "pending"
    BY <1>1, <2>1, HeldWrite DEF TakeLock, SetStatusIfPending
  <2>2. CASE status[target[p]] # "pending"
    BY <1>1, <2>2, HeldGoto DEF TakeLock, SetStatusIfPending, Pass
  <2> QED
    BY <2>1, <2>2
<1>2. CASE RevertToPending(p) \/ MarkApproved(p) \/ CatchRevert(p)
  BY <1>2, HeldWrite DEF RevertToPending, MarkApproved, CatchRevert
<1>3. CASE ValidateReservation(p)
  BY <1>3, HeldGoto DEF ValidateReservation, Pass
<1>4. CASE CreateReservation(p)
  BY <1>4, HeldGoto DEF CreateReservation, Pass
<1>5. CASE ExpireSiblings(p)
  <2>1. \A s \in Sugg : status[s] # "processing" \/ status'[s] = status[s]
    BY <1>5 DEF ExpireSiblings, ExpireGroup, ExpirePending
  <2> QED
    BY <1>5, <2>1, HeldGoto DEF ExpireSiblings, ExpireGroup
<1>6. CASE \/ ReadForApproval(p) \/ AuditFailure(p)
           \/ AuditApproved(p) \/ AuditCatch(p)
  BY <1>6, HeldGoto DEF ReadForApproval, ReadPendingIn, AuditFailure,
     AuditApproved, AuditCatch, Pass
<1>7. CASE RecordHistory(p) \/ BookProspect(p) \/ Notify(p)
  BY <1>7, HeldGoto DEF RecordHistory, BookProspect, Notify, AddHistory,
     BookProspectRow, SendConfirmation
<1> QED
  BY <1>1, <1>2, <1>3, <1>4, <1>5, <1>6, <1>7 DEF ApproveStep

LEMMA HeldByDecline ==
  ASSUME RInv, TypeOK', NEW d \in Declines, ReadForDecline(d) \/ DeclineStep(d)
  PROVE  HeldInv'
<1> d \in Requests /\ d \notin Approvals /\ target[d] \in Sugg
  BY Disjoint DEF Requests, RInv, IInv, TypeOK
<1>1. CASE ReadForDecline(d) \/ AuditDecline(d)
  BY <1>1, HeldGoto DEF ReadForDecline, ReadPendingIn, AuditDecline, Pass
<1>2. CASE DeclinePending(d)
  <2>1. CASE status[target[d]] = "pending"
    <3>1. \A s \in Sugg : status[s] # "processing" \/ status'[s] = status[s]
      BY <1>2, <2>1 DEF DeclinePending, SetStatusIfPending, SetStatus, Pass,
         RInv, IInv, TypeOK
    <3> QED
      BY <1>2, <2>1, <3>1, HeldGoto DEF DeclinePending, SetStatusIfPending, SetStatus
  <2>2. CASE status[target[d]] # "pending"
    BY <1>2, <2>2, HeldGoto DEF DeclinePending, SetStatusIfPending, Pass
  <2> QED
    BY <2>1, <2>2
<1> QED
  BY <1>1, <1>2 DEF DeclineStep

LEMMA HeldByOthers ==
  ASSUME RInv, TypeOK',
         \/ ExpirerStep
         \/ \E s \in Sugg : Lapse(s)
         \/ \E k \in Slots : BookElsewhere(k)
         \/ ApiCrash \/ WorkerCrash \/ UNCHANGED vars
  PROVE  HeldInv'
<1>1. CASE ExpirerStep
  BY <1>1, HeldQuiet DEF ExpirerStep, ExpireByTtl, ScanPending,
     FetchReservations, ExpireVictim, ExpirePending
<1>2. CASE \/ \E s \in Sugg : Lapse(s)
           \/ \E k \in Slots : BookElsewhere(k)
           \/ UNCHANGED vars
  BY <1>2, HeldQuiet DEF Lapse, BookElsewhere, vars
<1>3. CASE ApiCrash \/ WorkerCrash
  <2>1. \A p \in Approvals : pc'[p] \in HoldingPc => pc[p] \in HoldingPc
    BY <1>3 DEF ApiCrash, WorkerCrash, HoldingPc, Requests
  <2> QED
    BY <1>3, <2>1, HeldQuiet DEF ApiCrash, WorkerCrash
<1> QED
  BY <1>1, <1>2, <1>3

LEMMA InitRInv == Init => RInv
<1> SUFFICES ASSUME Init PROVE RInv
  OBVIOUS
<1>1. HeldInv
  BY DEF Init, HeldInv, HoldingPc, Requests
<1> QED
  BY <1>1, InitIInv DEF RInv, Init

\* The steps that are left when only the writers that use the lock run.
LEMMA LockedSteps ==
  ASSUME LockedWritersOnly, [Next]_vars
  PROVE  \/ \E p \in Approvals : ReadForApproval(p) \/ ApproveStep(p)
         \/ \E d \in Declines : ReadForDecline(d) \/ DeclineStep(d)
         \/ ExpirerStep
         \/ \E s \in Sugg : Lapse(s)
         \/ \E k \in Slots : BookElsewhere(k)
         \/ ApiCrash \/ WorkerCrash \/ UNCHANGED vars
<1>1. "db" \notin Faults
  BY DEF LockedWritersOnly
<1>2. ~ \E r \in Requests : DbThrows(r)
  BY <1>1 DEF DbThrows
<1>3. ~ ExpirerThrows
  BY <1>1 DEF ExpirerThrows
<1> QED
  BY <1>2, <1>3 DEF Next, LockedWritersOnly

LEMMA NextRInv ==
  ASSUME LockedWritersOnly, RInv, [Next]_vars
  PROVE  RInv'
<1>1. IInv' /\ TypeOK' /\ faulted' = {}
  BY NextIInv, FaultFree DEF RInv, IInv
<1>2. HeldInv'
  BY <1>1, LockedSteps, HeldByApprove, HeldByDecline, HeldByOthers
<1> QED
  BY <1>1, <1>2 DEF RInv

LEMMA NextRefines ==
  ASSUME LockedWritersOnly, RInv, [Next]_vars
  PROVE  [Life!Next]_(Life!lifeVars)
<1>1. TypeOK' /\ faulted' = {}
  BY NextRInv DEF RInv, IInv
<1>2. CASE \E p \in Approvals : ReadForApproval(p) \/ ApproveStep(p)
  BY <1>1, <1>2, ApproveRefines
<1>3. CASE \E d \in Declines : ReadForDecline(d) \/ DeclineStep(d)
  BY <1>1, <1>3, DeclineRefines
<1>4. CASE ExpirerStep
  BY <1>1, <1>4, ExpirerRefines
<1>5. CASE \/ \E s \in Sugg : Lapse(s)
           \/ \E k \in Slots : BookElsewhere(k)
           \/ ApiCrash \/ WorkerCrash \/ UNCHANGED vars
  BY <1>5, QuietStep DEF Lapse, BookElsewhere, ApiCrash, WorkerCrash, vars, records
<1> QED
  BY <1>2, <1>3, <1>4, <1>5, LockedSteps

LEMMA InitRefines == Init => Life!Init
<1> SUFFICES ASSUME Init PROVE Life!Init
  OBVIOUS
<1>1. [s \in Sugg |-> status[s]] = [s \in Sugg |-> "pending"]
  BY DEF Init
<1>2. \A s \in Sugg : (fsp[s] > 0) = FALSE
  BY DEF Init
<1>3. [s \in Sugg |-> fsp[s] > 0] = [s \in Sugg |-> FALSE]
  BY <1>2, Zenon
<1> QED
  BY <1>1, <1>3, Zenon DEF Life!Init

\* Approvals, declines and expiry implement the life of a suggestion that
\* SuggestionLifecycle promises, however many of them run and whenever the
\* API and the worker crash.
THEOREM Refinement == LockedWritersOnly => (Spec => Lifecycle)
<1> SUFFICES ASSUME LockedWritersOnly PROVE Spec => Lifecycle
  OBVIOUS
<1>1. RInv /\ [Next]_vars => RInv'
  BY NextRInv
<1>2. RInv /\ [Next]_vars => [Life!Next]_(Life!lifeVars)
  BY NextRefines
<1> QED
  BY InitRInv, InitRefines, <1>1, <1>2, PTL DEF Spec, Lifecycle, Life!Spec

\* No step revises a decision: no move of the lifecycle starts at a final status.
Final == {"approved", "declined", "expired"}
Kept  == \A s \in Sugg : status[s] \in Final => status'[s] = status[s]

LEMMA NextKeeps ==
  ASSUME LockedWritersOnly, RInv, [Next]_vars
  PROVE  Kept
<1>1. [Life!Next]_(Life!lifeVars) /\ TypeOK
  BY NextRefines DEF RInv, IInv
<1>2. ASSUME NEW s \in Sugg, NEW t \in Sugg, NEW from, NEW to,
             from \in {"pending", "processing"}, Life!Move(t, from, to),
             status[s] \in Final
      PROVE  status'[s] = status[s]
  BY <1>2 DEF Life!Move, Final
<1>3. ASSUME NEW s \in Sugg, NEW S \in SUBSET Sugg, Life!Expire(S),
             status[s] \in Final
      PROVE  status'[s] = status[s]
  BY <1>3 DEF Life!Expire, Final
<1>4. ASSUME UNCHANGED Life!lifeVars \/ \E t \in Sugg : Life!Book(t)
      PROVE  Kept
  BY <1>4 DEF Life!lifeVars, Life!Book, Kept
<1> QED
  BY <1>1, <1>2, <1>3, <1>4
     DEF Life!Next, Life!Hold, Life!Release, Life!Approve, Life!Decline, Kept

\* A decision is never revised by the writers that use the lock: it follows
\* from the lifecycle, none of whose moves starts at a final status.
THEOREM DecisionsAreFinal == LockedWritersOnly => (Spec => FinalStaysFinal)
<1> SUFFICES ASSUME LockedWritersOnly PROVE Spec => FinalStaysFinal
  OBVIOUS
<1>1. RInv /\ [Next]_vars => Kept
  BY NextKeeps
<1>2. RInv /\ [Next]_vars => RInv'
  BY NextRInv
<1> QED
  BY InitRInv, <1>1, <1>2, PTL DEF Spec, FinalStaysFinal, Kept, Final

-----------------------------------------------------------------------------
(***************************************************************************)
(* What is told to others, and why a suggestion expires.  Both follow from *)
(* decisions being final and, in LockInv, an approval beyond its last      *)
(* write having an approved suggestion.                                    *)
(***************************************************************************)

\* The rows the expiry job is about to expire have their slot filled.
VictimInv == expirer = "apply" => \A s \in victims : SlotFilled(s)

DInv == RInv /\ ConfirmedIsApproved /\ VictimInv /\ GroundedExpiry

LEMMA WrittenIsApproved ==
  ASSUME RInv, NEW p \in Approvals, pc[p] \in {"siblings", "mail"}
  PROVE  target[p] \in Sugg /\ status[target[p]] = "approved"
BY DEF RInv, IInv, LockInv, ApprovedPc, TypeOK, Requests

(***************************************************************************)
(* Confirmations.                                                          *)
(***************************************************************************)

\* Only an approval about to mail adds to the confirmations.
LEMMA ConfirmedBy ==
  ASSUME LockedWritersOnly, RInv, [Next]_vars
  PROVE  \/ confirmed' = confirmed
         \/ \E p \in Approvals : /\ pc[p] = "mail"
                                 /\ confirmed' = confirmed \cup {target[p]}
<1>1. ASSUME NEW p \in Approvals, Notify(p)
      PROVE  \/ confirmed' = confirmed
             \/ pc[p] = "mail" /\ confirmed' = confirmed \cup {target[p]}
  BY <1>1 DEF Notify, SendConfirmation, Goto
<1>2. ASSUME NEW p \in Approvals, ReadForApproval(p) \/ ApproveStep(p), ~ Notify(p)
      PROVE  confirmed' = confirmed
  BY <1>2 DEF ReadForApproval, ApproveStep, ReadPendingIn, TakeLock,
     SetStatusIfPending, ValidateReservation, CreateReservation, RevertToPending,
     AuditFailure, MarkApproved, ExpireSiblings, AuditApproved, RecordHistory,
     BookProspect, CatchRevert, AuditCatch, Pass, SetStatus,
     ExpireGroup, AddHistory, BookProspectRow, records
<1>3. ASSUME NEW d \in Declines, ReadForDecline(d) \/ DeclineStep(d)
      PROVE  confirmed' = confirmed
  BY <1>3 DEF ReadForDecline, DeclineStep, ReadPendingIn, DeclinePending,
     SetStatusIfPending, SetStatus, AuditDecline, Pass, records
<1>4. CASE ExpirerStep
  BY <1>4 DEF ExpirerStep, ExpireByTtl, ScanPending, FetchReservations,
     ExpireVictim, records
<1>5. CASE \/ \E s \in Sugg : Lapse(s)
           \/ \E k \in Slots : BookElsewhere(k)
           \/ ApiCrash \/ WorkerCrash \/ UNCHANGED vars
  BY <1>5 DEF Lapse, BookElsewhere, ApiCrash, WorkerCrash, vars, records
<1> QED
  BY <1>1, <1>2, <1>3, <1>4, <1>5, LockedSteps

LEMMA NextConfirmed ==
  ASSUME LockedWritersOnly, DInv, Kept, [Next]_vars
  PROVE  ConfirmedIsApproved'
<1>1. \A s \in confirmed' : s \in Sugg /\ status[s] = "approved"
  BY ConfirmedBy, WrittenIsApproved DEF DInv, ConfirmedIsApproved, RInv, IInv, TypeOK
<1> QED
  BY <1>1 DEF ConfirmedIsApproved, Kept, Final

(***************************************************************************)
(* Grounds of expiry.                                                      *)
(***************************************************************************)

\* Why a suggestion may expire.
Ground(s) == \/ s \in lapsed
             \/ SlotFilled(s)
             \/ \E t \in Siblings(s) : t # s /\ status[t] = "approved"

\* Time, FSP and the other bookings only ever add.
LEMMA WorldGrows ==
  ASSUME LockedWritersOnly, RInv, [Next]_vars
  PROVE  /\ lapsed \subseteq lapsed' /\ taken \subseteq taken'
         /\ \A s \in Sugg : fsp[s] > 0 => fsp'[s] > 0
<1> TypeOK
  BY DEF RInv, IInv
<1>1. ASSUME NEW p \in Approvals, ReadForApproval(p) \/ ApproveStep(p)
      PROVE  /\ lapsed' = lapsed /\ taken' = taken
             /\ \A s \in Sugg : fsp[s] > 0 => fsp'[s] > 0
  <2>1. CASE CreateReservation(p)
    BY <2>1 DEF CreateReservation, Pass, records, world, TypeOK
  <2>2. CASE ~ CreateReservation(p)
    BY <1>1, <2>2 DEF ReadForApproval, ApproveStep, ReadPendingIn, TakeLock,
       SetStatusIfPending, ValidateReservation, RevertToPending,
       AuditFailure, MarkApproved, ExpireSiblings, AuditApproved, RecordHistory,
       BookProspect, Notify, CatchRevert, AuditCatch, Pass, SetStatus,
       ExpireGroup, AddHistory, BookProspectRow, SendConfirmation, records, world
  <2> QED
    BY <2>1, <2>2
<1>2. ASSUME NEW d \in Declines, ReadForDecline(d) \/ DeclineStep(d)
      PROVE  lapsed' = lapsed /\ taken' = taken /\ fsp' = fsp
  BY <1>2 DEF ReadForDecline, DeclineStep, ReadPendingIn, DeclinePending,
     SetStatusIfPending, SetStatus, AuditDecline, Pass, records, world
<1>3. CASE ExpirerStep
  BY <1>3 DEF ExpirerStep, ExpireByTtl, ScanPending, FetchReservations,
     ExpireVictim, records, world
<1>4. CASE \/ \E s \in Sugg : Lapse(s)
           \/ \E k \in Slots : BookElsewhere(k)
           \/ ApiCrash \/ WorkerCrash \/ UNCHANGED vars
  BY <1>4 DEF Lapse, BookElsewhere, ApiCrash, WorkerCrash, vars, records, world
<1> QED
  BY <1>1, <1>2, <1>3, <1>4, LockedSteps

LEMMA FilledStays ==
  ASSUME LockedWritersOnly, RInv, [Next]_vars, NEW s \in Sugg, SlotFilled(s)
  PROVE  SlotFilled(s)'
BY WorldGrows DEF SlotFilled

LEMMA GroundStays ==
  ASSUME LockedWritersOnly, RInv, Kept, [Next]_vars, NEW s \in Sugg, Ground(s)
  PROVE  Ground(s)'
<1>1. CASE s \in lapsed
  BY <1>1, WorldGrows DEF Ground
<1>2. CASE SlotFilled(s)
  BY <1>2, FilledStays DEF Ground
<1>3. CASE \E t \in Siblings(s) : t # s /\ status[t] = "approved"
  <2>1. Siblings(s)' = Siblings(s) /\ Siblings(s) \subseteq Sugg
    BY DEF Siblings
  <2> QED
    BY <1>3, <2>1 DEF Ground, Kept, Final
<1> QED
  BY <1>1, <1>2, <1>3 DEF Ground

\* The expiry job holds no row whose slot is free when it applies.
LEMMA NextVictims ==
  ASSUME LockedWritersOnly, DInv, [Next]_vars
  PROVE  VictimInv'
<1> RInv /\ TypeOK /\ VictimInv
  BY DEF DInv, RInv, IInv
<1>1. CASE FetchReservations
  <2>1. expirer' = "apply" => victims' \subseteq {s \in victims : SlotFilled(s)}
    BY <1>1 DEF FetchReservations, ExpirerAt
  <2> QED
    BY <2>1, FilledStays DEF VictimInv, TypeOK
<1>2. CASE \E s \in Sugg : ExpireVictim(s)
  <2>1. expirer = "apply" /\ victims' \subseteq victims
    BY <1>2 DEF ExpireVictim, ExpirerAt
  <2> QED
    BY <2>1, FilledStays DEF VictimInv, TypeOK
<1>3. CASE expirer' # "apply"
  BY <1>3 DEF VictimInv
<1>4. CASE UNCHANGED job
  BY <1>4, FilledStays DEF VictimInv, TypeOK, job
<1>5. CASE ExpireByTtl \/ ScanPending \/ WorkerCrash
  <2>1. expirer' # "apply"
    BY <1>5 DEF ExpireByTtl, ScanPending, WorkerCrash, ExpirerAt
  <2> QED
    BY <2>1, <1>3
<1>6. ASSUME NEW p \in Approvals, ReadForApproval(p) \/ ApproveStep(p)
      PROVE  UNCHANGED job
  BY <1>6 DEF ReadForApproval, ApproveStep, ReadPendingIn, TakeLock,
     SetStatusIfPending, ValidateReservation, CreateReservation, RevertToPending,
     AuditFailure, MarkApproved, ExpireSiblings, AuditApproved, RecordHistory,
     BookProspect, Notify, CatchRevert, AuditCatch, Pass, SetStatus,
     ExpireGroup, AddHistory, BookProspectRow, SendConfirmation
<1>7. ASSUME NEW d \in Declines, ReadForDecline(d) \/ DeclineStep(d)
      PROVE  UNCHANGED job
  BY <1>7 DEF ReadForDecline, DeclineStep, ReadPendingIn, DeclinePending,
     SetStatusIfPending, SetStatus, AuditDecline, Pass
<1>8. CASE \/ \E s \in Sugg : Lapse(s)
           \/ \E k \in Slots : BookElsewhere(k)
           \/ ApiCrash \/ UNCHANGED vars
  BY <1>4, <1>8 DEF Lapse, BookElsewhere, ApiCrash, vars
<1> QED
  BY <1>1, <1>2, <1>4, <1>5, <1>6, <1>7, <1>8, LockedSteps DEF ExpirerStep

\* A suggestion expires with a ground.
LEMMA ExpiredNow ==
  ASSUME LockedWritersOnly, DInv, [Next]_vars, NEW s \in Sugg,
         status'[s] = "expired", status[s] # "expired"
  PROVE  Ground(s)
<1> RInv /\ TypeOK
  BY DEF DInv, RInv, IInv
<1>1. ASSUME NEW ids, ExpirePending(ids)
      PROVE  s \in ids /\ status[s] = "pending"
  BY <1>1 DEF ExpirePending
<1>2. ASSUME NEW p \in Approvals, ReadForApproval(p) \/ ApproveStep(p)
      PROVE  Ground(s)
  <2>1. CASE ExpireSiblings(p)
    <3>1. pc[p] = "siblings" /\ s \in Siblings(target[p]) /\ status[s] = "pending"
      BY <1>1, <2>1 DEF ExpireSiblings, ExpireGroup, Goto
    <3>2. target[p] \in Sugg /\ status[target[p]] = "approved"
      BY <3>1, WrittenIsApproved
    <3>3. target[p] \in Siblings(s)
      BY <3>1, <3>2 DEF Siblings
    <3>4. target[p] # s
      BY <3>1, <3>2
    <3> QED
      BY <3>2, <3>3, <3>4 DEF Ground
  <2>2. CASE ~ ExpireSiblings(p)
    <3>1. \E from, to : \E new \in {"pending", "processing", "approved"} :
            SetStatus(p, from, to, new) \/ UNCHANGED status
      BY <1>2, <2>2 DEF ReadForApproval, ApproveStep, ReadPendingIn, TakeLock,
         SetStatusIfPending, ValidateReservation, CreateReservation,
         RevertToPending, AuditFailure, MarkApproved, AuditApproved,
         RecordHistory, BookProspect, Notify, CatchRevert, AuditCatch, Pass,
         AddHistory, BookProspectRow, SendConfirmation
    <3>2. status'[s] # "expired"
      BY <3>1 DEF SetStatus, TypeOK
    <3> QED
      BY <3>2
  <2> QED
    BY <2>1, <2>2
<1>3. ASSUME NEW d \in Declines, ReadForDecline(d) \/ DeclineStep(d)
      PROVE  FALSE
  <2>1. \/ UNCHANGED status
        \/ \E from, to : SetStatus(d, from, to, "declined")
    BY <1>3 DEF ReadForDecline, DeclineStep, ReadPendingIn, DeclinePending,
       SetStatusIfPending, AuditDecline, Pass
  <2> QED
    BY <2>1 DEF SetStatus, TypeOK
<1>4. CASE ExpireByTtl
  BY <1>1, <1>4 DEF ExpireByTtl, Ground
<1>5. CASE \E t \in Sugg : ExpireVictim(t)
  <2> PICK t \in Sugg : ExpireVictim(t)
    BY <1>5
  <2>1. s = t /\ t \in victims /\ expirer = "apply"
    BY <1>1 DEF ExpireVictim, ExpirerAt
  <2> QED
    BY <2>1 DEF DInv, VictimInv, Ground
<1>6. CASE \/ ScanPending \/ FetchReservations
           \/ \E t \in Sugg : Lapse(t)
           \/ \E k \in Slots : BookElsewhere(k)
           \/ ApiCrash \/ WorkerCrash \/ UNCHANGED vars
  BY <1>6 DEF ScanPending, FetchReservations, Lapse, BookElsewhere, ApiCrash,
     WorkerCrash, vars
<1> QED
  BY <1>2, <1>3, <1>4, <1>5, <1>6, LockedSteps DEF ExpirerStep

LEMMA NextGrounded ==
  ASSUME LockedWritersOnly, DInv, Kept, [Next]_vars
  PROVE  GroundedExpiry'
<1>1. ASSUME NEW s \in Sugg, status'[s] = "expired" PROVE Ground(s)
  BY <1>1, ExpiredNow DEF DInv, GroundedExpiry, Ground
<1>2. ASSUME NEW s \in Sugg, status'[s] = "expired" PROVE Ground(s)'
  BY <1>1, <1>2, GroundStays DEF DInv
<1> QED
  BY <1>2 DEF GroundedExpiry, Ground

LEMMA InitDInv == Init => DInv
<1> SUFFICES ASSUME Init PROVE DInv
  OBVIOUS
<1>1. RInv
  BY InitRInv
<1>2. ConfirmedIsApproved /\ VictimInv
  BY DEF Init, ConfirmedIsApproved, VictimInv
<1>3. GroundedExpiry
  BY DEF Init, GroundedExpiry
<1> QED
  BY <1>1, <1>2, <1>3 DEF DInv

LEMMA NextDInv ==
  ASSUME LockedWritersOnly, DInv, [Next]_vars
  PROVE  DInv'
<1>1. RInv' /\ Kept
  BY NextRInv, NextKeeps DEF DInv
<1> QED
  BY <1>1, NextConfirmed, NextVictims, NextGrounded DEF DInv

\* A confirmation mailed by an approval stays true: nobody who uses the lock,
\* and no crash, takes the approval back.
THEOREM ConfirmationsHold == LockedWritersOnly => (Spec => []ConfirmedIsApproved)
<1> SUFFICES ASSUME LockedWritersOnly PROVE Spec => []ConfirmedIsApproved
  OBVIOUS
<1>1. DInv /\ [Next]_vars => DInv'
  BY NextDInv
<1>2. DInv => ConfirmedIsApproved
  BY DEF DInv
<1> QED
  BY InitDInv, <1>1, <1>2, PTL DEF Spec

\* Approvals and the expiry job expire a suggestion only because its time is
\* over, its slot is filled or another option of its group is approved, and
\* the reason still holds in every later state.
THEOREM ExpiryIsGrounded == LockedWritersOnly => (Spec => []GroundedExpiry)
<1> SUFFICES ASSUME LockedWritersOnly PROVE Spec => []GroundedExpiry
  OBVIOUS
<1>1. DInv /\ [Next]_vars => DInv'
  BY NextDInv
<1>2. DInv => GroundedExpiry
  BY DEF DInv
<1> QED
  BY InitDInv, <1>1, <1>2, PTL DEF Spec
=============================================================================
