----------------------------- MODULE Offers_proofs -----------------------------
(***************************************************************************)
(* How suggestions come about and what is done about them (MCOffers): the  *)
(* properties of three of its scenes, for every set of suggestions, jobs,  *)
(* sweeps, requests, calendars, bookings and candidates.                   *)
(*                                                                         *)
(* A behaviour stays in its scene, so each invariant is of the form        *)
(* scene = "..." => Inv, and is kept by the actions of one component:      *)
(*   - EnrichmentInv says that a job that is about to approve, or has      *)
(*     approved and not been started over since, is the only one to hold   *)
(*     its suggestion unless it was contended, and that the rationale is   *)
(*     then the one it wrote;                                              *)
(*   - NotificationInv counts, for each request, channel and text, the     *)
(*     rows "sent" and the one that is still owed for a message that just  *)
(*     went out, and bounds them by the messages that went out; it also    *)
(*     says where a job that has texted can be;                            *)
(*   - SearchInv says that every start up to the end of the last window is *)
(*     found or taken (Exhausted), and that slots and proposals come from  *)
(*     the calendars (FromCalendars), as long as nobody has edited one;    *)
(*   - RankingInv says that who outranks a considered candidate is         *)
(*     considered.                                                         *)
(* The fourth scene is that of Discovery_proofs.                           *)
(* The slot search folds over sequences and sorts them.  What it returns   *)
(* is established first, by induction over the set of the lengths for      *)
(* which the claim holds (SetInduction), so that no induction theorem with *)
(* an operator parameter is needed.                                        *)
(***************************************************************************)
EXTENDS MCOffers, FiniteSetTheorems, SequenceTheorems, WellFoundedInduction, TLAPS

\* A behaviour is about one component, and steps as that one does.
LEMMA SceneStays == [Next]_vars => scene' = scene
BY DEF Next, vars, SearchStep, DiscoveryStep, EnrichmentStep, NotificationStep

LEMMA EnrichmentMove == [Next]_vars /\ scene = "enrichment" => [Enrichment!Next]_enrichmentVars
BY DEF Next, vars, SearchStep, DiscoveryStep, EnrichmentStep, NotificationStep

LEMMA NotificationMove == [Next]_vars /\ scene = "notification" => [Notification!Next]_notificationVars
BY DEF Next, vars, SearchStep, DiscoveryStep, EnrichmentStep, NotificationStep

--------------------------------------------------------------------------------
(* Enrichment and automatic approval. *)

\* Where an enrichment can be, and where it is once its rationale is written.
Written == {"flag", "gate", "row", "config", "verify", "blocked", "reread", "approve", "record",
            "siblings", "audit"}
Approved == {"record", "siblings", "audit", "end", "done"}
Places == Written \cup {"idle", "model", "write", "next", "end", "done", "set", "ok", "failed"}

Processes == Enrichment!Enrichers \cup Toggles

EnrichmentTypes ==
  /\ stage \in [Processes -> Places]
  /\ DOMAIN rationale = Sugg
  /\ DOMAIN risk = Enrichment!Enrichers
  /\ DOMAIN todo = Sweeps /\ DOMAIN sweepAt = Sweeps
  /\ \A e \in Enrichment!Enrichers : stage[e] = "write" => risk[e] \in Enrichment!RiskLevels

\* Every automatic approval is by a worker job, of its suggestion, and what
\* follows it is left of the job unless it was started over since.
ApprovalsAreByJobs ==
  \A a \in approvedBy :
    /\ a.job \in WorkerJobs /\ a.sugg = JobFor[a.job]
    /\ a.again => a.job \in startedOver
    /\ Enrichment!RedoneSince(a) \/ stage[a.job] \in Approved

HasApproved(j) == \E a \in approvedBy : a.job = j /\ ~Enrichment!RedoneSince(a)

\* A sweep will write the rationale of s, or may.
Holds(w, s) ==
  \/ s \in todo[w]
  \/ Enrichment!Busy(w) /\ stage[w] # "next" /\ sweepAt[w] = s

\* No sweep holds the suggestion of a job that works alone or has approved it.
JobIsAlone ==
  \A j \in WorkerJobs :
    (Enrichment!Busy(j) \/ HasApproved(j)) /\ JobFor[j] \notin contended =>
      \A w \in Sweeps : ~Holds(w, JobFor[j])

\* Its rationale is the one the job has written, and the one it approved.
RationaleIsOfJob ==
  /\ \A j \in WorkerJobs :
       stage[j] \in Written /\ JobFor[j] \notin contended =>
         rationale[JobFor[j]] = risk[j] /\ risk[j] \in Enrichment!RiskLevels
  /\ \A a \in approvedBy :
       \/ a.sugg \in contended \/ Enrichment!RedoneSince(a)
       \/ rationale[a.sugg] = a.risk /\ a.risk \in Enrichment!RiskLevels

EnrichmentInv == EnrichmentTypes /\ ApprovalsAreByJobs /\ JobIsAlone /\ RationaleIsOfJob

LEMMA EnrichmentInitially == Enrichment!Init => EnrichmentInv
<1> SUFFICES ASSUME Enrichment!Init PROVE EnrichmentInv
  OBVIOUS
<1>1. /\ \A p \in Processes : stage[p] = "idle"
      /\ approvedBy = {} /\ \A w \in Sweeps : todo[w] = {}
  BY DEF Enrichment!Init, Processes
<1>2. EnrichmentTypes
  <2>1. stage \in [Processes -> Places]
    BY DEF Enrichment!Init, Processes, Places
  <2>2. DOMAIN risk = Enrichment!Enrichers
    BY DEF Enrichment!Init
  <2>3. DOMAIN rationale = Sugg /\ DOMAIN todo = Sweeps /\ DOMAIN sweepAt = Sweeps
    BY DEF Enrichment!Init
  <2> QED BY <1>1, <2>1, <2>2, <2>3 DEF EnrichmentTypes, Processes
<1>3. \A j \in WorkerJobs : ~Enrichment!Busy(j) /\ stage[j] \notin Written
  BY <1>1 DEF Enrichment!Busy, Written, Processes, Enrichment!Enrichers
<1> QED BY <1>1, <1>2, <1>3 DEF EnrichmentInv, ApprovalsAreByJobs, JobIsAlone, RationaleIsOfJob,
                               HasApproved

\* A process goes on, and no rationale, no risk of a job and no list changes.
LEMMA QuietEnrichment ==
  ASSUME EnrichmentInv, NEW p \in Processes, NEW next \in Places, Enrichment!GoTo(p, next),
         UNCHANGED <<rationale, todo, sweepAt, contended, approvedBy, startedOver>>,
         DOMAIN risk' = Enrichment!Enrichers,
         \A q \in WorkerJobs : stage[q] \in Written => risk'[q] = risk[q],
         next = "write" => p \in Enrichment!Enrichers /\ risk'[p] \in Enrichment!RiskLevels,
         \A q \in Enrichment!Enrichers \ {p} : risk'[q] = risk[q],
         p \in WorkerJobs => /\ next \in Written => stage[p] \in Written
                             /\ stage[p] \notin {"idle", "done", "ok", "failed"}
                             /\ stage[p] \in Approved => next \in Approved,
         p \in Sweeps => stage[p] \notin {"idle", "done", "ok", "failed", "next"} \/ next = "done"
  PROVE  EnrichmentInv'
<1>1. /\ EnrichmentTypes /\ ApprovalsAreByJobs /\ JobIsAlone /\ RationaleIsOfJob
      /\ stage' \in [Processes -> Places]
      /\ stage'[p] = next /\ \A q \in Processes \ {p} : stage'[q] = stage[q]
      /\ WorkerJobs \subseteq Enrichment!Enrichers /\ Sweeps \subseteq Enrichment!Enrichers
      /\ Enrichment!Enrichers \subseteq Processes
  BY DEF EnrichmentInv, EnrichmentTypes, Enrichment!GoTo, Processes, Enrichment!Enrichers
<1>2. EnrichmentTypes'
  BY <1>1 DEF EnrichmentTypes
<1>3. ApprovalsAreByJobs'
  BY <1>1 DEF ApprovalsAreByJobs, Enrichment!RedoneSince
<1>4. \A q : HasApproved(q)' = HasApproved(q)
  BY DEF HasApproved, Enrichment!RedoneSince
<1>5. \A w \in Sweeps : \A s : Holds(w, s)' => Holds(w, s)
  BY <1>1 DEF Holds, Enrichment!Busy
<1>6. \A j \in WorkerJobs : Enrichment!Busy(j)' => Enrichment!Busy(j)
  BY <1>1 DEF Enrichment!Busy
<1>7. JobIsAlone'
  BY <1>1, <1>4, <1>5, <1>6 DEF JobIsAlone
<1>8. RationaleIsOfJob'
  BY <1>1 DEF RationaleIsOfJob, Enrichment!RedoneSince
<1> QED BY <1>2, <1>3, <1>7, <1>8 DEF EnrichmentInv

LEMMA JobStepsKeep ==
  ASSUME EnrichmentInv, NEW j \in WorkerJobs,
         \/ Enrichment!RiskGate(j) \/ Enrichment!Verify(j) \/ Enrichment!RereadPending(j)
         \/ Enrichment!RecordReservation(j) \/ Enrichment!ExpireSiblings(j)
         \/ Enrichment!AuditApproval(j)
  PROVE  EnrichmentInv'
<1>1. PICK next \in {"verify", "blocked", "reread", "approve", "end", "siblings", "audit"} :
        /\ Enrichment!GoTo(j, next)
        /\ \/ stage[j] \in {"gate", "verify", "reread"}
           \/ stage[j] \in {"record", "siblings", "audit"} /\ next \in {"siblings", "audit", "end"}
  <2>1. CASE Enrichment!RiskGate(j)
    BY <2>1 DEF Enrichment!RiskGate
  <2>2. CASE Enrichment!Verify(j)
    <3>1. \E next \in {"blocked", "reread"} : Enrichment!GoTo(j, next)
      BY <2>2 DEF Enrichment!Verify
    <3> QED BY <2>2, <3>1 DEF Enrichment!Verify
  <2>3. CASE Enrichment!RereadPending(j)
    BY <2>3 DEF Enrichment!RereadPending
  <2>4. CASE Enrichment!RecordReservation(j) \/ Enrichment!ExpireSiblings(j) \/ Enrichment!AuditApproval(j)
    BY <2>4 DEF Enrichment!RecordReservation, Enrichment!ExpireSiblings, Enrichment!AuditApproval
  <2> QED BY <2>1, <2>2, <2>3, <2>4
<1>2. UNCHANGED <<rationale, todo, sweepAt, contended, approvedBy, startedOver, risk>>
  BY DEF Enrichment!RiskGate, Enrichment!Verify, Enrichment!RereadPending,
         Enrichment!RecordReservation, Enrichment!ExpireSiblings, Enrichment!AuditApproval,
         Enrichment!rows, Enrichment!local
<1>3. j \in Processes /\ j \notin Sweeps /\ next \in Places /\ next # "write"
  BY <1>1, EnrichmentAssumption DEF Processes, Enrichment!Enrichers, Places, Written
<1>4. DOMAIN risk' = Enrichment!Enrichers
  BY <1>2 DEF EnrichmentInv, EnrichmentTypes
<1>5. /\ stage[j] \in Written /\ stage[j] \notin {"idle", "done", "ok", "failed"}
      /\ stage[j] \in Approved => next \in Approved
  BY <1>1 DEF Written, Approved
<1> QED BY <1>1, <1>2, <1>3, <1>4, <1>5, QuietEnrichment

\* A job begins, alone or not.
LEMMA StartJobKeeps ==
  ASSUME EnrichmentInv, NEW j \in WorkerJobs, Enrichment!StartJob(j) PROVE EnrichmentInv'
<1>1. /\ stage[j] = "idle" /\ Enrichment!GoTo(j, "model")
      /\ contended' = contended \cup ({JobFor[j]} \cap Enrichment!Claimed(j))
      /\ UNCHANGED <<rationale, todo, sweepAt, approvedBy, startedOver, risk>>
  BY DEF Enrichment!StartJob, Enrichment!rows, Enrichment!local
<1>2. /\ EnrichmentTypes /\ ApprovalsAreByJobs /\ JobIsAlone /\ RationaleIsOfJob
      /\ stage' \in [Processes -> Places]
      /\ stage'[j] = "model" /\ \A q \in Processes \ {j} : stage'[q] = stage[q]
      /\ WorkerJobs \subseteq Processes /\ Sweeps \subseteq Processes \ {j}
      /\ Enrichment!Enrichers \subseteq Processes
  BY <1>1, EnrichmentAssumption
     DEF EnrichmentInv, EnrichmentTypes, Enrichment!GoTo, Processes, Enrichment!Enrichers, Places
<1>3. EnrichmentTypes'
  BY <1>1, <1>2 DEF EnrichmentTypes
<1>4. ~HasApproved(j) /\ \A q : HasApproved(q)' = HasApproved(q)
  BY <1>1, <1>2 DEF HasApproved, ApprovalsAreByJobs, Approved, Enrichment!RedoneSince
<1>5. ApprovalsAreByJobs'
  BY <1>1, <1>2, <1>4 DEF ApprovalsAreByJobs, HasApproved, Enrichment!RedoneSince
<1>6. \A w \in Sweeps : \A s : Holds(w, s)' = Holds(w, s)
  BY <1>1, <1>2 DEF Holds, Enrichment!Busy
<1>7. \A w \in Sweeps : Holds(w, JobFor[j]) => JobFor[j] \in Enrichment!Claimed(j)
  <2> SUFFICES ASSUME NEW w \in Sweeps, Holds(w, JobFor[j])
               PROVE  JobFor[j] \in Enrichment!Claimed(j)
    OBVIOUS
  <2> DEFINE claim(v) == todo[v] \cup (IF Enrichment!Busy(v) THEN {sweepAt[v]} ELSE {})
  <2>1. JobFor[j] \in claim(w)
    BY DEF Holds
  <2>2. claim(w) \in {claim(v) : v \in Sweeps \ {j}}
    BY <1>2
  <2> QED BY <2>1, <2>2 DEF Enrichment!Claimed
<1>8. \A q \in WorkerJobs \ {j} : Enrichment!Busy(q)' = Enrichment!Busy(q)
  BY <1>2 DEF Enrichment!Busy
<1>9. JobIsAlone'
  <2> SUFFICES ASSUME NEW q \in WorkerJobs, Enrichment!Busy(q)' \/ HasApproved(q)',
                      JobFor[q] \notin contended', NEW w \in Sweeps, Holds(w, JobFor[q])'
               PROVE  FALSE
    BY DEF JobIsAlone
  <2>1. CASE q = j
    BY <1>1, <1>6, <1>7, <2>1
  <2>2. CASE q # j
    BY <1>1, <1>2, <1>4, <1>6, <1>8, <2>2 DEF JobIsAlone
  <2> QED BY <2>1, <2>2
<1>10. RationaleIsOfJob'
  BY <1>1, <1>2 DEF RationaleIsOfJob, Written, Enrichment!RedoneSince
<1> QED BY <1>3, <1>5, <1>9, <1>10 DEF EnrichmentInv

\* A job is over, or its worker dead: it holds nothing, and what it approved is
\* left alone unless it is to be done again.
LEMMA JobEndsKeep ==
  ASSUME EnrichmentInv, NEW j \in WorkerJobs,
         Enrichment!JobCompletes(j) \/ Enrichment!WorkerCrash(j)
  PROVE  EnrichmentInv'
<1>1. /\ Enrichment!Busy(j) /\ risk' = [risk EXCEPT ![j] = "none"]
      /\ UNCHANGED <<rationale, todo, sweepAt, approvedBy, contended>>
      /\ startedOver \subseteq startedOver' /\ startedOver' \subseteq startedOver \cup {j}
  BY DEF Enrichment!JobCompletes, Enrichment!WorkerCrash, Enrichment!Forget, Enrichment!rows,
         Enrichment!NotEnriched, Enrichment!Busy
<1>2. PICK next \in {"idle", "done"} :
        /\ Enrichment!GoTo(j, next)
        /\ next = "idle" => j \notin startedOver /\ startedOver' = startedOver \cup {j}
  <2>1. CASE Enrichment!JobCompletes(j)
    BY <2>1 DEF Enrichment!JobCompletes
  <2>2. CASE Enrichment!WorkerCrash(j)
    BY <2>2 DEF Enrichment!WorkerCrash
  <2> QED BY <2>1, <2>2
<1>3. /\ EnrichmentTypes /\ ApprovalsAreByJobs /\ JobIsAlone /\ RationaleIsOfJob
      /\ stage' \in [Processes -> Places]
      /\ stage'[j] = next /\ \A q \in Processes \ {j} : stage'[q] = stage[q]
      /\ WorkerJobs \subseteq Processes /\ Sweeps \subseteq Processes \ {j}
      /\ Enrichment!Enrichers \subseteq Processes
  BY <1>2, EnrichmentAssumption
     DEF EnrichmentInv, EnrichmentTypes, Enrichment!GoTo, Processes, Enrichment!Enrichers, Places
<1>4. /\ DOMAIN risk' = Enrichment!Enrichers
      /\ \A q \in Enrichment!Enrichers \ {j} : risk'[q] = risk[q]
  BY <1>1, <1>3 DEF EnrichmentTypes
<1>5. EnrichmentTypes'
  BY <1>1, <1>3, <1>4 DEF EnrichmentTypes
<1>6. /\ \A a : Enrichment!RedoneSince(a) => Enrichment!RedoneSince(a)'
      /\ \A q : HasApproved(q)' => HasApproved(q)
  BY <1>1 DEF HasApproved, Enrichment!RedoneSince
<1>7. ApprovalsAreByJobs'
  <2> SUFFICES ASSUME NEW a \in approvedBy
               PROVE  /\ a.job \in WorkerJobs /\ a.sugg = JobFor[a.job]
                      /\ a.again => a.job \in startedOver'
                      /\ Enrichment!RedoneSince(a)' \/ stage'[a.job] \in Approved
    BY <1>1 DEF ApprovalsAreByJobs
  <2>1. /\ a.job \in WorkerJobs /\ a.sugg = JobFor[a.job]
        /\ a.again => a.job \in startedOver
        /\ Enrichment!RedoneSince(a) \/ stage[a.job] \in Approved
    BY <1>3 DEF ApprovalsAreByJobs
  <2>2. CASE a.job # j
    BY <1>1, <1>3, <1>6, <2>1, <2>2
  <2>3. CASE a.job = j /\ next = "idle"
    BY <1>2, <2>1, <2>3 DEF Enrichment!RedoneSince
  <2>4. CASE a.job = j /\ next = "done"
    BY <1>1, <1>3, <2>1, <2>4 DEF Approved
  <2> QED BY <2>1, <2>2, <2>3, <2>4, <1>1
<1>8. \A w \in Sweeps : \A s : Holds(w, s)' = Holds(w, s)
  BY <1>1, <1>3 DEF Holds, Enrichment!Busy
<1>9. \A q \in WorkerJobs : Enrichment!Busy(q)' => Enrichment!Busy(q)
  BY <1>1, <1>3 DEF Enrichment!Busy
<1>10. JobIsAlone'
  BY <1>1, <1>3, <1>6, <1>8, <1>9 DEF JobIsAlone
<1>11. RationaleIsOfJob'
  <2>1. \A q \in WorkerJobs : stage'[q] \in Written => stage[q] \in Written /\ risk'[q] = risk[q]
    BY <1>3, <1>4 DEF Written, Enrichment!Enrichers
  <2> QED BY <1>1, <1>3, <1>6, <2>1 DEF RationaleIsOfJob
<1> QED BY <1>5, <1>7, <1>10, <1>11 DEF EnrichmentInv

LEMMA AutoApproveKeeps ==
  ASSUME EnrichmentInv, NEW j \in WorkerJobs, Enrichment!AutoApprove(j) PROVE EnrichmentInv'
<1>1. /\ stage[j] = "approve" /\ Enrichment!GoTo(j, "record")
      /\ approvedBy' = approvedBy \cup
           {[sugg |-> JobFor[j], job |-> j, verdict |-> verdict[j], risk |-> risk[j],
             again |-> j \in startedOver]}
      /\ UNCHANGED <<rationale, todo, sweepAt, startedOver, risk, contended>>
  BY DEF Enrichment!AutoApprove, Enrichment!local
<1>2. /\ EnrichmentTypes /\ ApprovalsAreByJobs /\ JobIsAlone /\ RationaleIsOfJob
      /\ stage' \in [Processes -> Places]
      /\ stage'[j] = "record" /\ \A q \in Processes \ {j} : stage'[q] = stage[q]
      /\ WorkerJobs \subseteq Processes /\ Sweeps \subseteq Processes \ {j}
      /\ Enrichment!Enrichers \subseteq Processes
  BY <1>1, EnrichmentAssumption
     DEF EnrichmentInv, EnrichmentTypes, Enrichment!GoTo, Processes, Enrichment!Enrichers, Places, Written
<1>3. EnrichmentTypes'
  BY <1>1, <1>2 DEF EnrichmentTypes
<1>4. \A q : HasApproved(q)' => HasApproved(q) \/ q = j
  BY <1>1 DEF HasApproved, Enrichment!RedoneSince
<1>5. ApprovalsAreByJobs'
  <2>1. \A a : Enrichment!RedoneSince(a)' = Enrichment!RedoneSince(a)
    BY <1>1 DEF Enrichment!RedoneSince
  <2>2. ASSUME NEW a \in approvedBy
        PROVE  /\ a.job \in WorkerJobs /\ a.sugg = JobFor[a.job]
               /\ a.again => a.job \in startedOver
               /\ Enrichment!RedoneSince(a) \/ stage'[a.job] \in Approved
    BY <1>1, <1>2 DEF ApprovalsAreByJobs, Approved
  <2>3. ASSUME NEW a \in approvedBy' \ approvedBy
        PROVE  /\ a.job = j /\ a.sugg = JobFor[j]
               /\ a.again => j \in startedOver
    <3>1. a = [sugg |-> JobFor[j], job |-> j, verdict |-> verdict[j], risk |-> risk[j],
               again |-> j \in startedOver]
      BY <1>1
    <3>2. a.job = j /\ a.sugg = JobFor[j]
      BY <3>1
    <3>3. a.again = (j \in startedOver)
      BY <3>1, Zenon
    <3> QED BY <3>2, <3>3
  <2>4. stage'[j] \in Approved
    BY <1>2 DEF Approved
  <2>5. ASSUME NEW a \in approvedBy'
        PROVE  /\ a.job \in WorkerJobs /\ a.sugg = JobFor[a.job]
               /\ a.again => a.job \in startedOver'
               /\ Enrichment!RedoneSince(a)' \/ stage'[a.job] \in Approved
    BY <1>1, <2>1, <2>2, <2>3, <2>4
  <2> QED BY <2>5 DEF ApprovalsAreByJobs
<1>6. \A w \in Sweeps : \A s : Holds(w, s)' = Holds(w, s)
  BY <1>1, <1>2 DEF Holds, Enrichment!Busy
<1>7. \A q \in WorkerJobs : Enrichment!Busy(q)' => Enrichment!Busy(q)
  BY <1>1, <1>2 DEF Enrichment!Busy
<1>8. JobIsAlone'
  <2>1. Enrichment!Busy(j)
    BY <1>1 DEF Enrichment!Busy
  <2> QED BY <1>1, <1>2, <1>4, <1>6, <1>7, <2>1 DEF JobIsAlone
<1>9. RationaleIsOfJob'
  <2>1. stage[j] \in Written
    BY <1>1 DEF Written
  <2>2. JobFor[j] \notin contended =>
          rationale[JobFor[j]] = risk[j] /\ risk[j] \in Enrichment!RiskLevels
    BY <1>2, <2>1 DEF RationaleIsOfJob
  <2>3. \A a \in approvedBy' :
          \/ a.sugg \in contended \/ Enrichment!RedoneSince(a)
          \/ rationale[a.sugg] = a.risk /\ a.risk \in Enrichment!RiskLevels
    BY <1>1, <1>2, <2>2 DEF RationaleIsOfJob
  <2>4. \A q \in WorkerJobs : stage'[q] \in Written => stage[q] \in Written
    BY <1>2, <2>1
  <2> QED BY <1>1, <1>2, <2>3, <2>4 DEF RationaleIsOfJob, Enrichment!RedoneSince
<1> QED BY <1>3, <1>5, <1>8, <1>9 DEF EnrichmentInv

\* What every enrichment does besides writing the rationale.
LEMMA CommonStepsKeep ==
  ASSUME EnrichmentInv, NEW e \in Enrichment!Enrichers,
         \/ Enrichment!AskModel(e) \/ Enrichment!ReadFlag(e) \/ Enrichment!Blocked(e)
         \/ Enrichment!Throw(e)
  PROVE  EnrichmentInv'
<1>1. /\ e \in Processes /\ e \in WorkerJobs \cup Sweeps /\ ~(e \in WorkerJobs /\ e \in Sweeps)
      /\ EnrichmentTypes
  BY EnrichmentAssumption DEF Processes, Enrichment!Enrichers, EnrichmentInv
<1>2. UNCHANGED <<rationale, todo, sweepAt, contended, approvedBy, startedOver>>
  BY DEF Enrichment!AskModel, Enrichment!ReadFlag, Enrichment!Blocked, Enrichment!Throw,
         Enrichment!rows, Enrichment!local
<1>3. Enrichment!EndOf(e) = IF e \in WorkerJobs THEN "end" ELSE "next"
  BY DEF Enrichment!EndOf
<1>4. CASE Enrichment!AskModel(e)
  <2>1. PICK next \in {"write", "end", "next"} :
          /\ Enrichment!GoTo(e, next) /\ stage[e] = "model"
          /\ \/ next = "write" /\ \E level \in Enrichment!RiskLevels : risk' = [risk EXCEPT ![e] = level]
             \/ next # "write" /\ UNCHANGED risk
    BY <1>3, <1>4 DEF Enrichment!AskModel
  <2>2. /\ DOMAIN risk' = Enrichment!Enrichers
        /\ \A q \in Enrichment!Enrichers \ {e} : risk'[q] = risk[q]
        /\ next = "write" => risk'[e] \in Enrichment!RiskLevels
    BY <1>1, <2>1 DEF EnrichmentTypes
  <2>3. e \in WorkerJobs => stage[e] \notin Written /\ stage[e] \notin Approved
    BY <2>1 DEF Written, Approved
  <2>4. WorkerJobs \subseteq Enrichment!Enrichers
    BY DEF Enrichment!Enrichers
  <2>5. next \in Places /\ next \notin Written
    BY <2>1 DEF Places, Written
  <2> QED BY <1>1, <1>2, <2>1, <2>2, <2>3, <2>4, <2>5, QuietEnrichment
<1>5. CASE Enrichment!ReadFlag(e) \/ Enrichment!Blocked(e) \/ Enrichment!Throw(e)
  <2>1. PICK next \in {"gate", "row", "end", "next"} :
          /\ Enrichment!GoTo(e, next)
          /\ e \in WorkerJobs => next \in {"gate", "end"}
          /\ next = "gate" => stage[e] = "flag"
          /\ next = "row" => stage[e] = "flag"
    BY <1>1, <1>3, <1>5 DEF Enrichment!ReadFlag, Enrichment!Blocked, Enrichment!Throw
  <2>2. UNCHANGED risk /\ stage[e] \notin {"idle", "done", "ok", "failed", "next"}
    BY <1>5 DEF Enrichment!ReadFlag, Enrichment!Blocked, Enrichment!Throw, Enrichment!local
  <2>3. /\ next \in Places /\ next # "write"
        /\ e \in WorkerJobs => /\ next \in Written => stage[e] \in Written
                               /\ stage[e] \in Approved => next \in Approved
    BY <2>1 DEF Places, Written, Approved
  <2>4. DOMAIN risk' = Enrichment!Enrichers
    BY <1>1, <2>2 DEF EnrichmentTypes
  <2> QED BY <1>1, <1>2, <2>1, <2>2, <2>3, <2>4, QuietEnrichment
<1> QED BY <1>4, <1>5

\* A sweep begins: it lists what no job has enriched, and what a job works on is
\* contended.
LEMMA StartSweepKeeps ==
  ASSUME EnrichmentInv, NEW w \in Sweeps, Enrichment!StartSweep(w) PROVE EnrichmentInv'
<1> DEFINE found == {s \in Sugg : rationale[s] = "none"}
<1>1. /\ Enrichment!GoTo(w, "next") /\ stage[w] = "idle"
      /\ todo' = [todo EXCEPT ![w] = found]
      /\ contended' = contended \cup (found \cap Enrichment!Claimed(w))
      /\ UNCHANGED <<rationale, sweepAt, approvedBy, startedOver, risk>>
  BY DEF Enrichment!StartSweep, Enrichment!rows, Enrichment!NotEnriched
<1>2. /\ EnrichmentTypes /\ ApprovalsAreByJobs /\ JobIsAlone /\ RationaleIsOfJob
      /\ stage' \in [Processes -> Places]
      /\ stage'[w] = "next" /\ \A q \in Processes \ {w} : stage'[q] = stage[q]
      /\ WorkerJobs \subseteq Processes \ {w} /\ Sweeps \subseteq Processes
      /\ Enrichment!Enrichers \subseteq Processes
  BY <1>1, EnrichmentAssumption
     DEF EnrichmentInv, EnrichmentTypes, Enrichment!GoTo, Processes, Enrichment!Enrichers, Places
<1>3. EnrichmentTypes'
  BY <1>1, <1>2 DEF EnrichmentTypes
<1>4. ApprovalsAreByJobs' /\ \A q : HasApproved(q)' = HasApproved(q)
  BY <1>1, <1>2 DEF HasApproved, ApprovalsAreByJobs, Enrichment!RedoneSince
<1>5. \A q \in WorkerJobs : Enrichment!Busy(q)' = Enrichment!Busy(q)
  BY <1>2 DEF Enrichment!Busy
<1>6. JobIsAlone'
  <2> SUFFICES ASSUME NEW j \in WorkerJobs, Enrichment!Busy(j)' \/ HasApproved(j)',
                      JobFor[j] \notin contended', NEW v \in Sweeps, Holds(v, JobFor[j])'
               PROVE  FALSE
    BY DEF JobIsAlone
  <2>1. ~Holds(v, JobFor[j]) /\ JobFor[j] \notin contended
    BY <1>1, <1>2, <1>4, <1>5 DEF JobIsAlone
  <2>2. v = w /\ JobFor[j] \in found
    BY <1>1, <1>2, <2>1 DEF EnrichmentTypes, Holds, Enrichment!Busy
  <2>3. CASE Enrichment!Busy(j)
    <3>1. j \in {k \in WorkerJobs \ {w} : Enrichment!Busy(k)}
      BY <1>2, <2>3
    <3>2. {JobFor[j]} \in {{JobFor[k]} : k \in {q \in WorkerJobs \ {w} : Enrichment!Busy(q)}}
      BY <3>1
    <3>3. JobFor[j] \in Enrichment!Claimed(w)
      BY <3>2 DEF Enrichment!Claimed
    <3> QED BY <1>1, <2>2, <3>3
  <2>4. CASE ~Enrichment!Busy(j)
    <3>1. HasApproved(j)
      BY <1>4, <1>5, <2>4
    <3>2. rationale[JobFor[j]] \in Enrichment!RiskLevels
      BY <1>2, <2>1, <3>1 DEF RationaleIsOfJob, ApprovalsAreByJobs, HasApproved
    <3> QED BY <2>2, <3>2 DEF Enrichment!RiskLevels
  <2> QED BY <2>3, <2>4
<1>7. RationaleIsOfJob'
  BY <1>1, <1>2 DEF RationaleIsOfJob, Enrichment!RedoneSince
<1> QED BY <1>3, <1>4, <1>6, <1>7 DEF EnrichmentInv

\* It takes the next of its list.
LEMMA NextOfSweepKeeps ==
  ASSUME EnrichmentInv, NEW w \in Sweeps, Enrichment!NextOfSweep(w) PROVE EnrichmentInv'
<1>1. PICK next \in {"done", "model"} :
        /\ Enrichment!GoTo(w, next) /\ stage[w] = "next"
        /\ \/ next = "done" /\ UNCHANGED <<todo, sweepAt>>
           \/ \E s \in todo[w] : /\ todo' = [todo EXCEPT ![w] = @ \ {s}]
                                 /\ sweepAt' = [sweepAt EXCEPT ![w] = s]
  BY DEF Enrichment!NextOfSweep
<1>2. /\ risk' = [risk EXCEPT ![w] = "none"]
      /\ UNCHANGED <<rationale, approvedBy, startedOver, contended>>
  BY DEF Enrichment!NextOfSweep, Enrichment!rows, Enrichment!NotEnriched
<1>3. /\ EnrichmentTypes /\ ApprovalsAreByJobs /\ JobIsAlone /\ RationaleIsOfJob
      /\ stage' \in [Processes -> Places]
      /\ stage'[w] = next /\ \A q \in Processes \ {w} : stage'[q] = stage[q]
      /\ WorkerJobs \subseteq Processes \ {w} /\ Sweeps \subseteq Processes
      /\ WorkerJobs \subseteq Enrichment!Enrichers
      /\ Enrichment!Enrichers \subseteq Processes
  BY <1>1, EnrichmentAssumption
     DEF EnrichmentInv, EnrichmentTypes, Enrichment!GoTo, Processes, Enrichment!Enrichers, Places
<1>4. /\ DOMAIN risk' = Enrichment!Enrichers
      /\ \A q \in Enrichment!Enrichers \ {w} : risk'[q] = risk[q]
  BY <1>2, <1>3 DEF EnrichmentTypes
<1>5. EnrichmentTypes'
  <2>1. DOMAIN todo' = Sweeps /\ DOMAIN sweepAt' = Sweeps
    BY <1>1, <1>3 DEF EnrichmentTypes
  <2>2. \A e \in Enrichment!Enrichers : stage'[e] = "write" => risk'[e] \in Enrichment!RiskLevels
    BY <1>3, <1>4 DEF EnrichmentTypes
  <2> QED BY <1>2, <1>3, <1>4, <2>1, <2>2 DEF EnrichmentTypes
<1>6. ApprovalsAreByJobs' /\ \A q : HasApproved(q)' = HasApproved(q)
  BY <1>2, <1>3 DEF HasApproved, ApprovalsAreByJobs, Enrichment!RedoneSince
<1>7. \A q \in WorkerJobs : Enrichment!Busy(q)' = Enrichment!Busy(q)
  BY <1>3 DEF Enrichment!Busy
<1>8. \A v \in Sweeps : \A s : Holds(v, s)' => Holds(v, s)
  <2> SUFFICES ASSUME NEW v \in Sweeps, NEW s, Holds(v, s)' PROVE Holds(v, s)
    OBVIOUS
  <2>1. CASE v = w
    BY <1>1, <1>3, <2>1 DEF EnrichmentTypes, Holds, Enrichment!Busy
  <2>2. CASE v # w
    BY <1>1, <1>3, <2>2 DEF EnrichmentTypes, Holds, Enrichment!Busy
  <2> QED BY <2>1, <2>2
<1>9. JobIsAlone'
  BY <1>2, <1>3, <1>6, <1>7, <1>8 DEF JobIsAlone
<1>10. RationaleIsOfJob'
  <2>1. \A q \in WorkerJobs : risk'[q] = risk[q]
    BY <1>3, <1>4
  <2> QED BY <1>2, <1>3, <2>1 DEF RationaleIsOfJob, Enrichment!RedoneSince
<1> QED BY <1>5, <1>6, <1>9, <1>10 DEF EnrichmentInv

LEMMA WriteRationaleKeeps ==
  ASSUME EnrichmentInv, NEW e \in Enrichment!Enrichers, Enrichment!WriteRationale(e)
  PROVE  EnrichmentInv'
<1>1. /\ stage[e] = "write" /\ Enrichment!GoTo(e, "flag")
      /\ rationale' = [rationale EXCEPT ![Enrichment!SuggestionOf(e)] = risk[e]]
      /\ UNCHANGED <<approvedBy, startedOver, todo, sweepAt, risk, contended>>
  BY DEF Enrichment!WriteRationale, Enrichment!local
<1>2. /\ EnrichmentTypes /\ ApprovalsAreByJobs /\ JobIsAlone /\ RationaleIsOfJob
      /\ stage' \in [Processes -> Places]
      /\ stage'[e] = "flag" /\ \A q \in Processes \ {e} : stage'[q] = stage[q]
      /\ WorkerJobs \subseteq Enrichment!Enrichers /\ Sweeps \subseteq Enrichment!Enrichers
      /\ Enrichment!Enrichers \subseteq Processes
      /\ e \in WorkerJobs \cup Sweeps /\ ~(e \in WorkerJobs /\ e \in Sweeps)
  BY <1>1, EnrichmentAssumption
     DEF EnrichmentInv, EnrichmentTypes, Enrichment!GoTo, Processes, Enrichment!Enrichers, Places, Written
<1>3. EnrichmentTypes'
  BY <1>1, <1>2 DEF EnrichmentTypes
<1>4. ApprovalsAreByJobs' /\ \A q : HasApproved(q)' = HasApproved(q)
  BY <1>1, <1>2 DEF HasApproved, ApprovalsAreByJobs, Approved, Enrichment!RedoneSince
<1>5. \A q \in WorkerJobs : Enrichment!Busy(q)' = Enrichment!Busy(q)
  BY <1>1, <1>2 DEF Enrichment!Busy
<1>6. \A w \in Sweeps : \A s : Holds(w, s)' = Holds(w, s)
  BY <1>1, <1>2 DEF Holds, Enrichment!Busy
<1>7. JobIsAlone'
  BY <1>1, <1>2, <1>4, <1>5, <1>6 DEF JobIsAlone
\* Only the job itself writes the rationale of what it has written or approved.
<1>8. ASSUME NEW j \in WorkerJobs, e # j, stage[j] \in Written \/ HasApproved(j),
             JobFor[j] \notin contended
      PROVE  rationale'[JobFor[j]] = rationale[JobFor[j]]
  <2>1. Enrichment!SuggestionOf(e) # JobFor[j]
    <3>1. CASE e \in WorkerJobs
      BY <1>8, <3>1, EnrichmentAssumption DEF Enrichment!SuggestionOf
    <3>2. CASE e \notin WorkerJobs
      <4>1. Enrichment!Busy(j) \/ HasApproved(j)
        BY <1>8 DEF Enrichment!Busy, Written
      <4>2. ~Holds(e, JobFor[j])
        BY <1>2, <1>8, <3>2, <4>1 DEF JobIsAlone
      <4> QED BY <1>1, <3>2, <4>2 DEF Enrichment!SuggestionOf, Holds, Enrichment!Busy
    <3> QED BY <3>1, <3>2
  <2>2. JobFor[j] \in Sugg /\ DOMAIN rationale = Sugg
    BY <1>2, EnrichmentAssumption DEF EnrichmentTypes
  <2> QED BY <1>1, <2>1, <2>2
<1>9. ASSUME NEW j \in WorkerJobs, stage'[j] \in Written, JobFor[j] \notin contended'
      PROVE  rationale'[JobFor[j]] = risk'[j] /\ risk'[j] \in Enrichment!RiskLevels
  <2>1. JobFor[j] \in Sugg /\ DOMAIN rationale = Sugg
    BY <1>2, EnrichmentAssumption DEF EnrichmentTypes
  <2>2. CASE e = j
    BY <1>1, <1>2, <2>1, <2>2 DEF Enrichment!SuggestionOf, EnrichmentTypes
  <2>3. CASE e # j
    BY <1>1, <1>2, <1>8, <1>9, <2>3 DEF RationaleIsOfJob
  <2> QED BY <2>2, <2>3
<1>10. ASSUME NEW a \in approvedBy', a.sugg \notin contended', ~Enrichment!RedoneSince(a)'
       PROVE  rationale'[a.sugg] = a.risk /\ a.risk \in Enrichment!RiskLevels
  <2>1. a \in approvedBy /\ a.sugg \notin contended /\ ~Enrichment!RedoneSince(a)
    BY <1>1, <1>10 DEF Enrichment!RedoneSince
  <2>2. a.job \in WorkerJobs /\ a.sugg = JobFor[a.job] /\ stage[a.job] \in Approved
    BY <1>2, <2>1 DEF ApprovalsAreByJobs
  <2>3. HasApproved(a.job) /\ a.job # e
    BY <1>1, <2>1, <2>2 DEF HasApproved, Approved
  <2> QED BY <1>2, <1>8, <2>1, <2>2, <2>3 DEF RationaleIsOfJob
<1> QED BY <1>3, <1>4, <1>7, <1>9, <1>10 DEF EnrichmentInv, RationaleIsOfJob

LEMMA SweepStepsKeep ==
  ASSUME EnrichmentInv, NEW w \in Sweeps,
         Enrichment!ReadRow(w) \/ Enrichment!ReadConfig(w) \/ Enrichment!VerifyInApi(w)
  PROVE  EnrichmentInv'
<1>1. PICK next \in {"config", "next", "verify", "blocked"} :
        Enrichment!GoTo(w, next) /\ stage[w] \in {"row", "config", "verify"}
  BY DEF Enrichment!ReadRow, Enrichment!ReadConfig, Enrichment!VerifyInApi
<1>2. UNCHANGED <<rationale, todo, sweepAt, contended, approvedBy, startedOver>>
  BY DEF Enrichment!ReadRow, Enrichment!ReadConfig, Enrichment!VerifyInApi, Enrichment!rows,
         Enrichment!local
<1>3. w \in Processes /\ w \notin WorkerJobs /\ WorkerJobs \subseteq Enrichment!Enrichers
  BY EnrichmentAssumption DEF Processes, Enrichment!Enrichers
<1>4. /\ DOMAIN risk' = Enrichment!Enrichers
      /\ \A q \in Enrichment!Enrichers \ {w} : risk'[q] = risk[q]
  <2>1. CASE Enrichment!ReadRow(w)
    BY <2>1 DEF EnrichmentInv, EnrichmentTypes, Enrichment!ReadRow
  <2>2. CASE Enrichment!ReadConfig(w) \/ Enrichment!VerifyInApi(w)
    BY <2>2 DEF EnrichmentInv, EnrichmentTypes, Enrichment!ReadConfig, Enrichment!VerifyInApi,
                Enrichment!local
  <2> QED BY <2>1, <2>2
<1>5. next \in Places /\ next # "write"
  BY <1>1 DEF Places, Written
<1> QED BY <1>1, <1>2, <1>3, <1>4, <1>5, QuietEnrichment

LEMMA FlagStepsKeep ==
  ASSUME EnrichmentInv, NEW t \in Toggles, Enrichment!SelectFlag(t) \/ Enrichment!SetFlag(t)
  PROVE  EnrichmentInv'
<1>1. PICK next \in {"set", "ok", "failed"} : Enrichment!GoTo(t, next)
  BY DEF Enrichment!SelectFlag, Enrichment!SetFlag
<1>2. UNCHANGED <<rationale, todo, sweepAt, contended, approvedBy, startedOver, risk>>
  BY DEF Enrichment!SelectFlag, Enrichment!SetFlag, Enrichment!rows, Enrichment!local
<1>3. /\ t \in Processes /\ t \notin WorkerJobs /\ t \notin Sweeps
      /\ next \in Places /\ next # "write" /\ next \notin Written
  BY <1>1, EnrichmentAssumption DEF Processes, Places, Written
<1>4. DOMAIN risk' = Enrichment!Enrichers
  BY <1>2 DEF EnrichmentInv, EnrichmentTypes
<1> QED BY <1>1, <1>2, <1>3, <1>4, QuietEnrichment

LEMMA EnrichmentStays ==
  ASSUME EnrichmentInv, UNCHANGED <<rationale, stage, todo, sweepAt, risk, startedOver, approvedBy, contended>>
  PROVE  EnrichmentInv'
BY DEF EnrichmentInv, EnrichmentTypes, ApprovalsAreByJobs, JobIsAlone, RationaleIsOfJob,
       HasApproved, Holds, Enrichment!Busy, Enrichment!RedoneSince

LEMMA EnrichmentStepwise ==
  EnrichmentInv /\ [Enrichment!Next]_enrichmentVars => EnrichmentInv'
<1> SUFFICES ASSUME EnrichmentInv, [Enrichment!Next]_enrichmentVars PROVE EnrichmentInv'
  OBVIOUS
<1>1. ASSUME NEW j \in WorkerJobs,
             \/ Enrichment!StartJob(j) \/ Enrichment!RiskGate(j) \/ Enrichment!Verify(j)
             \/ Enrichment!RereadPending(j) \/ Enrichment!AutoApprove(j)
             \/ Enrichment!RecordReservation(j) \/ Enrichment!ExpireSiblings(j)
             \/ Enrichment!AuditApproval(j) \/ Enrichment!JobCompletes(j)
             \/ Enrichment!WorkerCrash(j)
      PROVE  EnrichmentInv'
  BY <1>1, StartJobKeeps, JobStepsKeep, AutoApproveKeeps, JobEndsKeep
<1>2. ASSUME NEW w \in Sweeps,
             \/ Enrichment!StartSweep(w) \/ Enrichment!NextOfSweep(w) \/ Enrichment!ReadRow(w)
             \/ Enrichment!ReadConfig(w) \/ Enrichment!VerifyInApi(w)
      PROVE  EnrichmentInv'
  BY <1>2, StartSweepKeeps, NextOfSweepKeeps, SweepStepsKeep
<1>3. ASSUME NEW e \in Enrichment!Enrichers,
             \/ Enrichment!AskModel(e) \/ Enrichment!WriteRationale(e) \/ Enrichment!ReadFlag(e)
             \/ Enrichment!Blocked(e) \/ Enrichment!Throw(e)
      PROVE  EnrichmentInv'
  BY <1>3, CommonStepsKeep, WriteRationaleKeeps
<1>4. ASSUME NEW t \in Toggles, Enrichment!SelectFlag(t) \/ Enrichment!SetFlag(t)
      PROVE  EnrichmentInv'
  BY <1>4, FlagStepsKeep
<1>5. ASSUME NEW s \in Sugg, Enrichment!Decide(s) PROVE EnrichmentInv'
  BY <1>5, EnrichmentStays DEF Enrichment!Decide, Enrichment!local
<1>6. CASE UNCHANGED enrichmentVars
  BY <1>6, EnrichmentStays DEF enrichmentVars
<1> QED BY <1>1, <1>2, <1>3, <1>4, <1>5, <1>6 DEF Enrichment!Next

\* The risk level shown with an automatic approval is the one it was approved at,
\* unless two enrichments worked on the suggestion at a time (AutoApproval: a
\* sweep lists what no job has enriched, long before it comes to it), or the
\* worker died between the approval and the end of the job.  A job started over
\* before it approved does not break it.
THEOREM ApprovalShowsItsRisk == Spec => []ApprovedAtShownRisk
<1> DEFINE I == scene = "enrichment" => EnrichmentInv
<1>1. Init => I
  BY EnrichmentInitially DEF Init
<1>2. I /\ [Next]_vars => I'
  BY SceneStays, EnrichmentMove, EnrichmentStepwise
<1>3. EnrichmentInv => Enrichment!ApprovedAtShownRisk
  BY DEF EnrichmentInv, RationaleIsOfJob, Enrichment!ApprovedAtShownRisk
<1>4. I => ApprovedAtShownRisk
  BY <1>3 DEF ApprovedAtShownRisk
<1> QED BY <1>1, <1>2, <1>4, PTL DEF Spec

--------------------------------------------------------------------------------
(* Messages: what is sent, and what the rows say of it. *)

Channels == {"email", "sms"}
JobFields == {"state", "failures", "stalled"}

NotificationTypes ==
  /\ DOMAIN apiAt = Requests /\ DOMAIN jobStage = Requests
  /\ DOMAIN jobs = Requests /\ \A r \in Requests : DOMAIN jobs[r] = JobFields
  /\ DOMAIN mail = Requests
  /\ \A r \in Requests : DOMAIN mail[r] = {"text", "result"} /\ mail[r].text \in Nat
  /\ DOMAIN message = Requests
  /\ \A r \in Requests : DOMAIN message[r] = {"knows", "text", "result"} /\ message[r].text \in Nat
  /\ template \in [Channels -> Nat]
  /\ sent \in [Requests -> [Channels -> Seq(Nat)]]
  /\ live \subseteq Channels
  /\ IsFiniteSet(rows)

\* The worker is in a job that is active.
StageIsActive == \A r \in Requests : jobStage[r] # "none" => jobs[r].state = "active"

\* A job that has texted is past it, or completed.
TextsAreOver ==
  \A r \in Requests \ excused :
    \/ sent[r]["sms"] = <<>>
    \/ /\ Len(sent[r]["sms"]) = 1
       /\ \/ jobStage[r] \in {"recordSms", "auditResult", "auditSms"}
          \/ jobStage[r] = "none" /\ jobs[r].state = "completed"

\* The rows that say a text was sent, when it was, and whether a row is to come.
RowsSaying(r, c, text) ==
  {x \in rows : /\ x.for = r /\ x.channel = c /\ x.text = text
                /\ x.status = "sent" /\ ~(c = "email" /\ x.by = "job")}
SendsOf(r, c, text) == {n \in DOMAIN sent[r][c] : sent[r][c][n] = text}
Owed(r, c, text) ==
  \/ /\ c = "email" /\ apiAt[r] = "record"
     /\ mail[r].result = "sent" /\ mail[r].text = text
  \/ /\ c = "sms" /\ jobStage[r] = "recordSms"
     /\ message[r].result = "sent" /\ message[r].text = text

\* Rows and those to come are no more than what was sent.
Accounted ==
  \A r \in Requests, c \in live : \A text :
    Cardinality(RowsSaying(r, c, text)) + (IF Owed(r, c, text) THEN 1 ELSE 0)
      <= Cardinality(SendsOf(r, c, text))

NotificationInv == NotificationTypes /\ StageIsActive /\ TextsAreOver /\ Accounted

LEMMA FiniteCounts ==
  ASSUME NotificationTypes, NEW r \in Requests, NEW c \in Channels, NEW text
  PROVE  /\ IsFiniteSet(RowsSaying(r, c, text)) /\ Cardinality(RowsSaying(r, c, text)) \in Nat
         /\ IsFiniteSet(SendsOf(r, c, text)) /\ Cardinality(SendsOf(r, c, text)) \in Nat
<1>1. IsFiniteSet(RowsSaying(r, c, text))
  BY FS_Subset DEF NotificationTypes, RowsSaying
<1>2. IsFiniteSet(SendsOf(r, c, text))
  <2>1. Len(sent[r][c]) \in Nat /\ DOMAIN sent[r][c] = 1 .. Len(sent[r][c])
    BY DEF NotificationTypes
  <2>2. IsFiniteSet(1 .. Len(sent[r][c]))
    BY <2>1, FS_Interval
  <2> QED BY <2>1, <2>2, FS_Subset DEF SendsOf
<1> QED BY <1>1, <1>2, FS_CardinalityType

LEMMA OneMore ==
  ASSUME NEW S, NEW x, IsFiniteSet(S), x \notin S
  PROVE  Cardinality(S \cup {x}) = Cardinality(S) + 1
BY FS_AddElement

LEMMA NotificationInitially == Notification!Init => NotificationInv
<1> SUFFICES ASSUME Notification!Init PROVE NotificationInv
  OBVIOUS
<1>1. /\ \A r \in Requests : apiAt[r] = "idle" /\ jobStage[r] = "none"
      /\ \A r \in Requests : \A c \in Channels : sent[r][c] = <<>>
      /\ rows = {} /\ live \subseteq Channels
  BY DEF Notification!Init, Channels, Notification!Channels
<1>2. NotificationTypes
  <2>1. DOMAIN apiAt = Requests /\ DOMAIN jobStage = Requests /\ template \in [Channels -> Nat]
    BY DEF Notification!Init, Channels, Notification!Channels
  <2>2. DOMAIN jobs = Requests /\ \A r \in Requests : DOMAIN jobs[r] = JobFields
    BY DEF Notification!Init, Notification!Queue!Empty, JobFields
  <2>3. /\ DOMAIN mail = Requests
        /\ \A r \in Requests : DOMAIN mail[r] = {"text", "result"} /\ mail[r].text \in Nat
    BY DEF Notification!Init, Notification!NoMail
  <2>4. /\ DOMAIN message = Requests
        /\ \A r \in Requests : DOMAIN message[r] = {"knows", "text", "result"} /\ message[r].text \in Nat
    BY DEF Notification!Init, Notification!NoMessage
  <2>5. sent \in [Requests -> [Channels -> Seq(Nat)]]
    <3>1. <<>> \in Seq(Nat)
      OBVIOUS
    <3> QED BY <3>1 DEF Notification!Init, Channels, Notification!Channels
  <2> QED BY <1>1, <2>1, <2>2, <2>3, <2>4, <2>5, FS_EmptySet DEF NotificationTypes
<1>3. StageIsActive /\ TextsAreOver
  BY <1>1 DEF StageIsActive, TextsAreOver, Channels
<1>4. Accounted
  <2> SUFFICES ASSUME NEW r \in Requests, NEW c \in live, NEW text
               PROVE  Cardinality(RowsSaying(r, c, text)) + (IF Owed(r, c, text) THEN 1 ELSE 0)
                        <= Cardinality(SendsOf(r, c, text))
    BY DEF Accounted
  <2>1. RowsSaying(r, c, text) = {} /\ ~Owed(r, c, text)
    BY <1>1 DEF RowsSaying, Owed
  <2>2. Cardinality(SendsOf(r, c, text)) \in Nat
    BY <1>1, <1>2, FiniteCounts
  <2> QED BY <2>1, <2>2, FS_EmptySet
<1> QED BY <1>2, <1>3, <1>4 DEF NotificationInv

\* Nothing is sent and no row about it written: what is owed may be forgotten.
LEMMA QuietAccount ==
  ASSUME NotificationTypes, Accounted, UNCHANGED <<sent, live>>,
         \A r \in Requests, c \in live : \A text : RowsSaying(r, c, text)' = RowsSaying(r, c, text),
         \A r \in Requests, c \in live : \A text : Owed(r, c, text)' => Owed(r, c, text)
  PROVE  Accounted'
<1> SUFFICES ASSUME NEW r \in Requests, NEW c \in live, NEW text
             PROVE  Cardinality(RowsSaying(r, c, text)') + (IF Owed(r, c, text)' THEN 1 ELSE 0)
                      <= Cardinality(SendsOf(r, c, text)')
  BY DEF Accounted
<1>1. /\ Cardinality(RowsSaying(r, c, text)) \in Nat /\ Cardinality(SendsOf(r, c, text)) \in Nat
  BY FiniteCounts DEF NotificationTypes
<1>2. SendsOf(r, c, text)' = SendsOf(r, c, text)
  BY DEF SendsOf
<1> QED BY <1>1, <1>2 DEF Accounted

\* A text is sent, and owed when the provider says so.
LEMMA SendAccount ==
  ASSUME NotificationTypes, Accounted, UNCHANGED <<rows, live>>,
         NEW p \in Requests, NEW way \in Channels, NEW text \in Nat, NEW outcome,
         Notification!Sends(p, way, text, outcome),
         \A t : ~Owed(p, way, t),
         \A r \in Requests, c \in live : \A t : Owed(r, c, t)' =>
           Owed(r, c, t) \/ (r = p /\ c = way /\ t = text /\ outcome = "sent")
  PROVE  Accounted'
<1> SUFFICES ASSUME NEW r \in Requests, NEW c \in live, NEW t
             PROVE  Cardinality(RowsSaying(r, c, t)') + (IF Owed(r, c, t)' THEN 1 ELSE 0)
                      <= Cardinality(SendsOf(r, c, t)')
  BY DEF Accounted
<1>1. /\ Cardinality(RowsSaying(r, c, t)) \in Nat /\ c \in Channels
      /\ IsFiniteSet(SendsOf(r, c, t)) /\ Cardinality(SendsOf(r, c, t)) \in Nat
  BY FiniteCounts DEF NotificationTypes
<1>2. /\ RowsSaying(r, c, t)' = RowsSaying(r, c, t)
      /\ Cardinality(RowsSaying(r, c, t)) + (IF Owed(r, c, t) THEN 1 ELSE 0)
           <= Cardinality(SendsOf(r, c, t))
  BY DEF RowsSaying, Accounted
<1>3. CASE (sent' = sent /\ outcome = "failed") \/ r # p \/ c # way
  <2>1. sent'[r][c] = sent[r][c]
    BY <1>1, <1>3 DEF Notification!Sends, NotificationTypes
  <2>2. SendsOf(r, c, t)' = SendsOf(r, c, t)
    BY <2>1 DEF SendsOf
  <2>3. Owed(r, c, t)' => Owed(r, c, t)
    BY <1>3
  <2> QED BY <1>1, <1>2, <2>2, <2>3
<1>4. CASE sent' = [sent EXCEPT ![p][way] = Append(@, text)] /\ r = p /\ c = way
  <2> DEFINE old == sent[r][c]
  <2>1. old \in Seq(Nat) /\ sent'[r][c] = Append(old, text)
    BY <1>1, <1>4 DEF NotificationTypes
  <2>2. /\ DOMAIN old = 1 .. Len(old) /\ Len(old) \in Nat
        /\ DOMAIN Append(old, text) = 1 .. (Len(old) + 1)
        /\ \A n \in 1 .. Len(old) : Append(old, text)[n] = old[n]
        /\ Append(old, text)[Len(old) + 1] = text
    BY <2>1, AppendProperties
  <2>3. SendsOf(r, c, t)' = SendsOf(r, c, t) \cup (IF t = text THEN {Len(old) + 1} ELSE {})
    BY <2>1, <2>2 DEF SendsOf
  <2>4. Len(old) + 1 \notin SendsOf(r, c, t)
    BY <2>2 DEF SendsOf
  <2>5. Cardinality(SendsOf(r, c, t)') = Cardinality(SendsOf(r, c, t)) + (IF t = text THEN 1 ELSE 0)
    <3>1. Cardinality(SendsOf(r, c, t) \cup {Len(old) + 1}) = Cardinality(SendsOf(r, c, t)) + 1
      BY <1>1, <2>4, OneMore
    <3>2. CASE t = text
      <4>1. SendsOf(r, c, t)' = SendsOf(r, c, t) \cup {Len(old) + 1}
        BY <2>3, <3>2
      <4> QED BY <1>1, <3>1, <3>2, <4>1
    <3>3. CASE t # text
      <4>1. SendsOf(r, c, t)' = SendsOf(r, c, t)
        BY <2>3, <3>3
      <4> QED BY <1>1, <3>3, <4>1
    <3> QED BY <3>2, <3>3
  <2>6. ~Owed(r, c, t) /\ (Owed(r, c, t)' => t = text)
    BY <1>4
  <2> QED BY <1>1, <1>2, <2>5, <2>6
<1> QED BY <1>3, <1>4 DEF Notification!Sends

\* A row is written for what is owed, or none.
LEMMA RecordAccount ==
  ASSUME NotificationTypes, Accounted, UNCHANGED <<sent, live>>,
         NEW p \in Requests, NEW way \in Channels, NEW x,
         rows' = rows \/ rows' = rows \cup {x},
         \A r \in Requests, c \in live : \A t :
           /\ x.for = r /\ x.channel = c /\ x.text = t /\ x.status = "sent" /\ ~(c = "email" /\ x.by = "job")
           => Owed(r, c, t) /\ ~Owed(r, c, t)',
         \A r \in Requests, c \in live : \A t : Owed(r, c, t)' => Owed(r, c, t)
  PROVE  Accounted'
<1> SUFFICES ASSUME NEW r \in Requests, NEW c \in live, NEW t
             PROVE  Cardinality(RowsSaying(r, c, t)') + (IF Owed(r, c, t)' THEN 1 ELSE 0)
                      <= Cardinality(SendsOf(r, c, t)')
  BY DEF Accounted
<1>1. /\ IsFiniteSet(RowsSaying(r, c, t)) /\ Cardinality(RowsSaying(r, c, t)) \in Nat
      /\ Cardinality(SendsOf(r, c, t)) \in Nat
  BY FiniteCounts DEF NotificationTypes
<1>2. /\ SendsOf(r, c, t)' = SendsOf(r, c, t)
      /\ Cardinality(RowsSaying(r, c, t)) + (IF Owed(r, c, t) THEN 1 ELSE 0)
           <= Cardinality(SendsOf(r, c, t))
  BY DEF SendsOf, Accounted
<1>3. CASE RowsSaying(r, c, t)' = RowsSaying(r, c, t)
  BY <1>1, <1>2, <1>3
<1>4. CASE RowsSaying(r, c, t)' # RowsSaying(r, c, t)
  <2>1. /\ RowsSaying(r, c, t)' = RowsSaying(r, c, t) \cup {x}
        /\ Owed(r, c, t) /\ ~Owed(r, c, t)'
    BY <1>4 DEF RowsSaying
  <2>2. x \notin RowsSaying(r, c, t)
    BY <1>4, <2>1
  <2>3. Cardinality(RowsSaying(r, c, t)') = Cardinality(RowsSaying(r, c, t)) + 1
    BY <1>1, <2>1, <2>2, OneMore
  <2> QED BY <1>1, <1>2, <2>1, <2>2, <2>3
<1> QED BY <1>3, <1>4

\* The API goes on with a request and sends nothing.
LEMMA ApiKeeps ==
  ASSUME NotificationInv,
         UNCHANGED <<jobStage, message, excused, template, live, sent, rows>>,
         DOMAIN jobs' = Requests, \A r \in Requests : DOMAIN jobs'[r] = JobFields,
         \A r \in Requests : jobs[r].state \in {"active", "completed"} => jobs'[r].state = jobs[r].state,
         DOMAIN apiAt' = Requests, DOMAIN mail' = Requests,
         \A r \in Requests : DOMAIN mail'[r] = {"text", "result"} /\ mail'[r].text \in Nat,
         \A r \in Requests : apiAt'[r] = "record" => apiAt[r] = "record" /\ mail'[r] = mail[r]
  PROVE  NotificationInv'
<1>1. NotificationTypes'
  BY DEF NotificationInv, NotificationTypes
<1>2. StageIsActive' /\ TextsAreOver'
  BY DEF NotificationInv, StageIsActive, TextsAreOver
<1>3. \A r \in Requests, c \in live : \A t : RowsSaying(r, c, t)' = RowsSaying(r, c, t)
  BY DEF RowsSaying
<1>4. \A r \in Requests, c \in live : \A t : Owed(r, c, t)' => Owed(r, c, t)
  BY DEF Owed
<1> QED BY <1>1, <1>2, <1>3, <1>4, QuietAccount DEF NotificationInv

LEMMA ApiStepsKeep ==
  ASSUME NotificationInv, NEW r \in Requests,
         \/ \E k, w, addresses : Notification!Ask(r, k, w, addresses)
         \/ Notification!GatherContext(r) \/ Notification!CallAi(r)
         \/ Notification!LookupConfirmation(r) \/ Notification!LookupRefusal(r)
         \/ Notification!LookupAssistant(r) \/ Notification!Enqueue(r) \/ Notification!ApiCrash
  PROVE  NotificationInv'
<1>1. NotificationTypes
  BY DEF NotificationInv
<1>2. UNCHANGED <<jobStage, message, excused, template, live, sent, rows>>
  BY DEF Notification!Ask, Notification!GatherContext, Notification!CallAi,
         Notification!LookupConfirmation, Notification!LookupRefusal, Notification!LookupAssistant,
         Notification!Compose, Notification!Enqueue, Notification!ApiCrash,
         Notification!job, Notification!office, Notification!setup
<1>3. CASE Notification!Enqueue(r)
  <2>1. /\ apiAt[r] = "enqueue" /\ apiAt' = [apiAt EXCEPT ![r] = "ended"] /\ UNCHANGED mail
        /\ \/ UNCHANGED jobs
           \/ jobs[r].state = "absent" /\ jobs' = [jobs EXCEPT ![r].state = "waiting"]
    BY <1>3 DEF Notification!Enqueue, Notification!Goto, Notification!Queue!Add, Notification!Queue!Move
  <2>2. /\ DOMAIN jobs' = Requests /\ \A q \in Requests : DOMAIN jobs'[q] = JobFields
        /\ \A q \in Requests : jobs[q].state \in {"active", "completed"} => jobs'[q].state = jobs[q].state
    BY <1>1, <2>1 DEF NotificationTypes, JobFields
  <2>3. /\ DOMAIN apiAt' = Requests
        /\ \A q \in Requests : apiAt'[q] = "record" => apiAt[q] = "record"
    BY <1>1, <2>1 DEF NotificationTypes
  <2> QED BY <1>1, <1>2, <2>1, <2>2, <2>3, ApiKeeps DEF NotificationTypes
<1>4. CASE ~Notification!Enqueue(r)
  <2>1. UNCHANGED jobs
    BY <1>4 DEF Notification!Ask, Notification!GatherContext, Notification!CallAi,
           Notification!LookupConfirmation, Notification!LookupRefusal, Notification!LookupAssistant,
           Notification!Compose, Notification!ApiCrash, Notification!job
  <2>2. CASE Notification!ApiCrash
    <3>1. /\ DOMAIN apiAt' = Requests /\ UNCHANGED mail
          /\ \A q \in Requests : apiAt'[q] \in {"idle", "ended"}
      BY <2>2 DEF Notification!ApiCrash
    <3> QED BY <1>1, <1>2, <2>1, <3>1, ApiKeeps DEF NotificationTypes
  <2>3. CASE \/ \E k, w, addresses : Notification!Ask(r, k, w, addresses)
             \/ Notification!GatherContext(r) \/ Notification!CallAi(r)
    <3>1. PICK next \in {"context", "lookup", "model", "ended"} :
            apiAt' = [apiAt EXCEPT ![r] = next] /\ UNCHANGED mail
      BY <2>3 DEF Notification!Ask, Notification!GatherContext, Notification!CallAi, Notification!Goto
    <3>2. /\ DOMAIN apiAt' = Requests
          /\ \A q \in Requests : apiAt'[q] = "record" => apiAt[q] = "record"
      BY <1>1, <3>1 DEF NotificationTypes
    <3> QED BY <1>1, <1>2, <2>1, <3>1, <3>2, ApiKeeps DEF NotificationTypes
  <2>4. CASE \/ Notification!LookupConfirmation(r) \/ Notification!LookupRefusal(r)
             \/ Notification!LookupAssistant(r)
    <3>1. PICK text \in Nat : Notification!Compose(r, text)
      BY <1>1, <2>4 DEF Notification!LookupConfirmation, Notification!LookupRefusal,
                        Notification!LookupAssistant, NotificationTypes, Channels
    <3>2. PICK next \in {"enqueue", "ended", "send"} : apiAt' = [apiAt EXCEPT ![r] = next]
      BY <3>1 DEF Notification!Compose, Notification!Over, Notification!Goto
    <3>3. UNCHANGED mail \/ mail' = [mail EXCEPT ![r].text = text]
      BY <3>1 DEF Notification!Compose
    <3>4. /\ DOMAIN mail' = Requests
          /\ \A q \in Requests : DOMAIN mail'[q] = {"text", "result"} /\ mail'[q].text \in Nat
          /\ \A q \in Requests \ {r} : mail'[q] = mail[q]
      BY <1>1, <3>3 DEF NotificationTypes
    <3>5. /\ DOMAIN apiAt' = Requests
          /\ \A q \in Requests : apiAt'[q] = "record" => apiAt[q] = "record" /\ q # r
      BY <1>1, <3>2 DEF NotificationTypes
    <3> QED BY <1>1, <1>2, <2>1, <3>4, <3>5, ApiKeeps DEF NotificationTypes
  <2> QED BY <1>4, <2>2, <2>3, <2>4
<1> QED BY <1>3, <1>4

LEMMA SendEmailKeeps ==
  ASSUME NotificationInv, NEW p \in Requests, Notification!SendEmail(p) PROVE NotificationInv'
<1>1. PICK outcome \in {"sent", "failed"} :
        /\ Notification!Sends(p, "email", mail[p].text, outcome)
        /\ mail' = [mail EXCEPT ![p].result = outcome]
  BY DEF Notification!SendEmail
<1>2. /\ apiAt[p] = "send" /\ apiAt' = [apiAt EXCEPT ![p] = "record"]
      /\ UNCHANGED <<jobs, jobStage, message, excused, template, live, rows>>
  BY DEF Notification!SendEmail, Notification!Goto, Notification!job, Notification!office,
         Notification!setup
<1>3. NotificationTypes /\ mail[p].text \in Nat /\ "email" \in Channels
  BY DEF NotificationInv, NotificationTypes, Channels
<1>4. \/ UNCHANGED sent
      \/ sent' = [sent EXCEPT ![p]["email"] = Append(@, mail[p].text)]
  BY <1>1 DEF Notification!Sends
<1>5. /\ sent' \in [Requests -> [Channels -> Seq(Nat)]]
      /\ \A q \in Requests : sent'[q]["sms"] = sent[q]["sms"]
  <2>1. sent[p]["email"] \in Seq(Nat) /\ sent[p] \in [Channels -> Seq(Nat)]
    BY <1>3 DEF NotificationTypes
  <2>2. Append(sent[p]["email"], mail[p].text) \in Seq(Nat)
    BY <1>3, <2>1, AppendProperties
  <2>3. CASE sent' = [sent EXCEPT ![p]["email"] = Append(@, mail[p].text)]
    <3> DEFINE texts == [sent[p] EXCEPT !["email"] = Append(@, mail[p].text)]
    <3>1. texts \in [Channels -> Seq(Nat)] /\ texts["sms"] = sent[p]["sms"]
      BY <2>1, <2>2 DEF Channels
    <3>2. sent' = [sent EXCEPT ![p] = texts]
      BY <2>3
    <3> HIDE DEF texts
    <3> QED BY <1>3, <3>1, <3>2 DEF NotificationTypes
  <2> QED BY <1>3, <1>4, <2>3 DEF NotificationTypes
<1>6. /\ DOMAIN mail' = Requests
      /\ \A q \in Requests : DOMAIN mail'[q] = {"text", "result"} /\ mail'[q].text \in Nat
      /\ \A q \in Requests \ {p} : mail'[q] = mail[q]
      /\ mail'[p].text = mail[p].text /\ mail'[p].result = outcome
  BY <1>1, <1>3 DEF NotificationTypes
<1>7. /\ DOMAIN apiAt' = Requests /\ apiAt'[p] = "record"
      /\ \A q \in Requests \ {p} : apiAt'[q] = apiAt[q]
  BY <1>2, <1>3 DEF NotificationTypes
<1>8. NotificationTypes'
  BY <1>2, <1>3, <1>5, <1>6, <1>7 DEF NotificationTypes
<1>9. StageIsActive' /\ TextsAreOver'
  BY <1>2, <1>5 DEF NotificationInv, StageIsActive, TextsAreOver
<1>10. Accounted'
  <2>1. \A t : ~Owed(p, "email", t)
    BY <1>2 DEF Owed
  <2>2. \A r \in Requests, c \in live : \A t : Owed(r, c, t)' =>
          Owed(r, c, t) \/ (r = p /\ c = "email" /\ t = mail[p].text /\ outcome = "sent")
    BY <1>2, <1>6, <1>7 DEF Owed
  <2> QED BY <1>1, <1>2, <1>3, <2>1, <2>2, SendAccount DEF NotificationInv
<1> QED BY <1>8, <1>9, <1>10 DEF NotificationInv

LEMMA RecordEmailKeeps ==
  ASSUME NotificationInv, NEW p \in Requests, Notification!RecordEmail(p) PROVE NotificationInv'
<1>1. PICK x : /\ rows' = rows \/ rows' = rows \cup {x}
               /\ x.for = p /\ x.channel = "email" /\ x.by = "api"
               /\ x.text = mail[p].text /\ x.status = mail[p].result
  <2> DEFINE y == [for |-> p, channel |-> "email", by |-> "api", text |-> mail[p].text,
                   status |-> mail[p].result,
                   number |-> Notification!Cardinality(Notification!RowsOf(p, "email", "api"))]
  <2>1. rows' = rows \/ rows' = rows \cup {y}
    BY DEF Notification!RecordEmail, Notification!AddRow
  <2>2. /\ y.for = p /\ y.channel = "email" /\ y.by = "api"
        /\ y.text = mail[p].text /\ y.status = mail[p].result
    OBVIOUS
  <2> HIDE DEF y
  <2> QED BY <2>1, <2>2
<1>2. /\ apiAt[p] = "record"
      /\ \E next \in {"enqueue", "ended"} : apiAt' = [apiAt EXCEPT ![p] = next]
      /\ UNCHANGED <<mail, jobs, jobStage, message, excused, template, live, sent>>
  BY DEF Notification!RecordEmail, Notification!Over, Notification!Goto, Notification!job,
         Notification!office, Notification!setup
<1>3. NotificationTypes
  BY DEF NotificationInv
<1>4. /\ DOMAIN apiAt' = Requests /\ apiAt'[p] # "record"
      /\ \A q \in Requests \ {p} : apiAt'[q] = apiAt[q]
  BY <1>2, <1>3 DEF NotificationTypes
<1>5. NotificationTypes'
  <2>1. IsFiniteSet(rows')
    <3>1. IsFiniteSet(rows) /\ IsFiniteSet(rows \cup {x})
      BY <1>3, FS_AddElement DEF NotificationTypes
    <3> QED BY <1>1, <3>1
  <2> QED BY <1>2, <1>3, <1>4, <2>1 DEF NotificationTypes
<1>6. StageIsActive' /\ TextsAreOver'
  BY <1>2 DEF NotificationInv, StageIsActive, TextsAreOver
<1>7. Accounted'
  <2>1. \A r \in Requests, c \in live : \A t : Owed(r, c, t)' => Owed(r, c, t)
    BY <1>2, <1>4 DEF Owed
  <2>2. \A r \in Requests, c \in live : \A t :
          /\ x.for = r /\ x.channel = c /\ x.text = t /\ x.status = "sent" /\ ~(c = "email" /\ x.by = "job")
          => Owed(r, c, t) /\ ~Owed(r, c, t)'
    BY <1>1, <1>2, <1>4 DEF Owed
  <2>3. "email" \in Channels
    BY DEF Channels
  <2> QED BY <1>1, <1>2, <1>3, <2>1, <2>2, <2>3, RecordAccount DEF NotificationInv
<1> QED BY <1>5, <1>6, <1>7 DEF NotificationInv

\* The worker goes on with a job and texts nobody.
LEMMA JobKeeps ==
  ASSUME NotificationInv, NEW p \in Requests, NEW to, to # "recordSms",
         jobStage' = [jobStage EXCEPT ![p] = to],
         UNCHANGED <<apiAt, mail, template, live, sent>>, IsFiniteSet(rows'), Accounted',
         excused \subseteq excused',
         DOMAIN message' = Requests, \A q \in Requests \ {p} : message'[q] = message[q],
         DOMAIN message'[p] = {"knows", "text", "result"}, message'[p].text \in Nat,
         DOMAIN jobs' = Requests, \A q \in Requests \ {p} : jobs'[q] = jobs[q],
         DOMAIN jobs'[p] = JobFields,
         to # "none" => jobs'[p].state = "active",
         p \notin excused' /\ sent[p]["sms"] # <<>> =>
           \/ to \in {"auditResult", "auditSms"}
           \/ to = "none" /\ jobs'[p].state = "completed"
  PROVE  NotificationInv'
<1>1. jobStage'[p] = to /\ \A q \in Requests \ {p} : jobStage'[q] = jobStage[q]
  BY DEF NotificationInv, NotificationTypes
<1>2. NotificationTypes'
  BY DEF NotificationInv, NotificationTypes
<1>3. StageIsActive'
  BY <1>1 DEF NotificationInv, StageIsActive
<1>4. TextsAreOver'
  BY <1>1 DEF NotificationInv, TextsAreOver
<1> QED BY <1>2, <1>3, <1>4 DEF NotificationInv

\* What a job's step owes: it is not about to record a text.
LEMMA JobAccount ==
  ASSUME NotificationInv, NEW p \in Requests, NEW to, to # "recordSms",
         jobStage' = [jobStage EXCEPT ![p] = to],
         UNCHANGED <<apiAt, mail, live, sent>>,
         \A q \in Requests \ {p} : message'[q] = message[q],
         \A r \in Requests, c \in live : \A t : RowsSaying(r, c, t)' = RowsSaying(r, c, t)
  PROVE  Accounted'
<1>1. jobStage'[p] = to /\ \A q \in Requests \ {p} : jobStage'[q] = jobStage[q]
  BY DEF NotificationInv, NotificationTypes
<1>2. \A r \in Requests, c \in live : \A t : Owed(r, c, t)' => Owed(r, c, t)
  BY <1>1 DEF Owed
<1> QED BY <1>2, QuietAccount DEF NotificationInv

\* How the queue moves a job.
LEMMA QueueMoves ==
  ASSUME NotificationTypes, NEW p \in Requests,
         \/ Notification!Queue!Start(p) \/ Notification!Queue!Complete(p)
         \/ Notification!Queue!Throw(p) \/ Notification!Queue!Stall(p) \/ UNCHANGED jobs
  PROVE  /\ DOMAIN jobs' = Requests /\ DOMAIN jobs'[p] = JobFields
         /\ \A q \in Requests \ {p} : jobs'[q] = jobs[q]
         /\ Notification!Queue!Start(p) => jobs[p].state = "waiting" /\ jobs'[p].state = "active"
         /\ Notification!Queue!Complete(p) => jobs'[p].state = "completed"
         /\ UNCHANGED jobs => jobs'[p] = jobs[p]
<1>1. /\ DOMAIN jobs = Requests /\ DOMAIN jobs[p] = {"state", "failures", "stalled"}
  BY DEF NotificationTypes, JobFields
<1>2. CASE Notification!Queue!Start(p)
  <2>1. jobs[p].state = "waiting" /\ jobs' = [jobs EXCEPT ![p].state = "active"]
    BY <1>2 DEF Notification!Queue!Start, Notification!Queue!Move
  <2>2. ~Notification!Queue!Complete(p)
    BY <2>1 DEF Notification!Queue!Complete, Notification!Queue!Move
  <2> QED BY <1>1, <2>1, <2>2 DEF JobFields
<1>3. CASE Notification!Queue!Complete(p)
  <2>1. jobs[p].state = "active" /\ jobs' = [jobs EXCEPT ![p].state = "completed"]
    BY <1>3 DEF Notification!Queue!Complete, Notification!Queue!Move
  <2>2. ~Notification!Queue!Start(p)
    BY <2>1 DEF Notification!Queue!Start, Notification!Queue!Move
  <2> QED BY <1>1, <2>1, <2>2 DEF JobFields
<1>4. CASE ~Notification!Queue!Start(p) /\ ~Notification!Queue!Complete(p)
  <2>1. \/ Notification!Queue!Throw(p) \/ Notification!Queue!Stall(p) \/ UNCHANGED jobs
    BY <1>4
  <2>2. CASE Notification!Queue!Throw(p)
    BY <1>1, <1>4, <2>2 DEF Notification!Queue!Throw, JobFields
  <2>3. CASE Notification!Queue!Stall(p)
    BY <1>1, <1>4, <2>3 DEF Notification!Queue!Stall, JobFields
  <2>4. CASE UNCHANGED jobs
    BY <1>1, <1>4, <2>4 DEF JobFields
  <2> QED BY <2>1, <2>2, <2>3, <2>4
<1> QED BY <1>2, <1>3, <1>4

\* What a step that texts nobody leaves of the rows and of the messages in hand.
SayTheSame ==
  /\ IsFiniteSet(rows')
  /\ \A r \in Requests, c \in live : \A t : RowsSaying(r, c, t)' = RowsSaying(r, c, t)
KeepsMessages(p) ==
  /\ DOMAIN message' = Requests /\ \A q \in Requests \ {p} : message'[q] = message[q]
  /\ DOMAIN message'[p] = {"knows", "text", "result"} /\ message'[p].text \in Nat

LEMMA MessagesKept ==
  ASSUME NotificationTypes, NEW p \in Requests,
         \/ UNCHANGED message
         \/ message' = [message EXCEPT ![p] = Notification!NoMessage]
         \/ \E k : message' = [message EXCEPT ![p].knows = k]
  PROVE  KeepsMessages(p)
BY DEF NotificationTypes, KeepsMessages, Notification!NoMessage

\* A job that has texted nobody goes on with it, or ends.
LEMMA EarlyKeeps ==
  ASSUME NotificationInv, NEW p \in Requests, NEW to, to \notin {"recordSms"},
         jobStage[p] \in {"none", "load", "prefs", "email", "auditEmail", "sms"},
         jobStage[p] = "none" => jobs[p].state = "waiting",
         jobStage' = [jobStage EXCEPT ![p] = to],
         UNCHANGED <<apiAt, mail, excused, template, live, sent>>,
         SayTheSame, KeepsMessages(p),
         \/ Notification!Queue!Start(p) \/ Notification!Queue!Complete(p)
         \/ Notification!Queue!Throw(p) \/ UNCHANGED jobs,
         to # "none" => Notification!Queue!Start(p) \/ (UNCHANGED jobs /\ jobStage[p] # "none")
  PROVE  NotificationInv'
<1>1. NotificationTypes
  BY DEF NotificationInv
<1>2. p \in excused \/ sent[p]["sms"] = <<>>
  BY DEF NotificationInv, StageIsActive, TextsAreOver
<1>4. /\ DOMAIN jobs' = Requests /\ DOMAIN jobs'[p] = JobFields
      /\ \A q \in Requests \ {p} : jobs'[q] = jobs[q]
      /\ to # "none" => jobs'[p].state = "active"
  BY <1>1, QueueMoves DEF NotificationInv, StageIsActive
<1>5. Accounted'
  BY JobAccount DEF KeepsMessages, SayTheSame
<1> QED BY <1>2, <1>4, <1>5, JobKeeps DEF KeepsMessages, SayTheSame

LEMMA EarlyStepsKeep ==
  ASSUME NotificationInv, NEW p \in Requests,
         \/ Notification!Start(p) \/ Notification!LogOnly(p) \/ Notification!Load(p)
         \/ Notification!ReadPrefs(p) \/ Notification!AuditEmail(p)
  PROVE  NotificationInv'
<1>1. /\ UNCHANGED <<apiAt, mail, excused, template, live, sent, rows>>
      /\ NotificationTypes /\ IsFiniteSet(rows')
  BY DEF Notification!Start, Notification!LogOnly, Notification!Load, Notification!ReadPrefs,
         Notification!AuditEmail, Notification!request, Notification!office, Notification!setup,
         NotificationInv, NotificationTypes
<1>2. SayTheSame
  BY <1>1 DEF SayTheSame, RowsSaying
<1>3. CASE Notification!Start(p)
  <2>1. /\ Notification!Queue!Start(p) /\ jobStage[p] = "none"
        /\ \E to \in {"load"} : jobStage' = [jobStage EXCEPT ![p] = to]
        /\ message' = [message EXCEPT ![p] = Notification!NoMessage]
    BY <1>3 DEF Notification!Start, Notification!JobGoto
  <2>2. jobs[p].state = "waiting"
    BY <1>1, <2>1, QueueMoves
  <2>9. KeepsMessages(p)
    BY <1>1, <2>1, MessagesKept
  <2> QED BY <1>1, <1>2, <2>1, <2>2, <2>9, EarlyKeeps
<1>4. CASE Notification!LogOnly(p)
  <2>1. /\ Notification!Queue!Complete(p) /\ jobStage[p] = "load" /\ UNCHANGED message
        /\ \E to \in {"none"} : jobStage' = [jobStage EXCEPT ![p] = to]
    BY <1>4 DEF Notification!LogOnly, Notification!Complete, Notification!JobGoto
  <2>9. KeepsMessages(p)
    BY <1>1, <2>1, MessagesKept
  <2> QED BY <1>1, <1>2, <2>1, <2>9, EarlyKeeps
<1>5. CASE \E from \in {"load", "prefs", "auditEmail"} : Notification!Throw(p, from) /\ UNCHANGED message
  <2>1. PICK from \in {"load", "prefs", "auditEmail"} :
          /\ Notification!Queue!Throw(p) /\ UNCHANGED message
          /\ jobStage[p] = from /\ \E to \in {"none"} : jobStage' = [jobStage EXCEPT ![p] = to]
    BY <1>5 DEF Notification!Throw, Notification!JobGoto
  <2>2. jobStage[p] \in {"load", "prefs", "auditEmail"}
    BY <2>1
  <2>3. Notification!Queue!Throw(p) /\ UNCHANGED message /\ \E to \in {"none"} : jobStage' = [jobStage EXCEPT ![p] = to]
    BY <2>1
  <2>9. KeepsMessages(p)
    BY <1>1, <2>3, MessagesKept
  <2> QED BY <1>1, <1>2, <2>2, <2>3, <2>9, EarlyKeeps
<1>6. CASE Notification!Complete(p, "load") /\ UNCHANGED message
  <2>1. /\ Notification!Queue!Complete(p) /\ jobStage[p] = "load" /\ UNCHANGED message
        /\ \E to \in {"none"} : jobStage' = [jobStage EXCEPT ![p] = to]
    BY <1>6 DEF Notification!Complete, Notification!JobGoto
  <2>9. KeepsMessages(p)
    BY <1>1, <2>1, MessagesKept
  <2> QED BY <1>1, <1>2, <2>1, <2>9, EarlyKeeps
<1>7. CASE /\ Notification!Load(p) \/ Notification!ReadPrefs(p) \/ Notification!AuditEmail(p)
           /\ ~(Notification!Complete(p, "load") /\ UNCHANGED message)
           /\ \A from \in {"load", "prefs", "auditEmail"} :
                ~(Notification!Throw(p, from) /\ UNCHANGED message)
  <2>1. CASE Notification!Load(p)
    <3>1. /\ Notification!JobGoto(p, "load", "prefs") /\ UNCHANGED jobs
          /\ \E k : message' = [message EXCEPT ![p].knows = k]
      BY <1>7, <2>1 DEF Notification!Load
    <3>2. jobStage[p] = "load" /\ \E to \in {"prefs"} : jobStage' = [jobStage EXCEPT ![p] = to]
      BY <3>1 DEF Notification!JobGoto
    <3>3. KeepsMessages(p)
      BY <1>1, <3>1, MessagesKept
    <3> QED BY <1>1, <1>2, <3>1, <3>2, <3>3, EarlyKeeps
  <2>2. CASE Notification!ReadPrefs(p)
    <3>1. /\ Notification!JobGoto(p, "prefs", "email") /\ UNCHANGED jobs
          /\ \E k : message' = [message EXCEPT ![p].knows = k]
      BY <1>7, <2>2 DEF Notification!ReadPrefs
    <3>2. jobStage[p] = "prefs" /\ \E to \in {"email"} : jobStage' = [jobStage EXCEPT ![p] = to]
      BY <3>1 DEF Notification!JobGoto
    <3>3. KeepsMessages(p)
      BY <1>1, <3>1, MessagesKept
    <3> QED BY <1>1, <1>2, <3>1, <3>2, <3>3, EarlyKeeps
  <2>3. CASE Notification!AuditEmail(p)
    <3>1. Notification!JobGoto(p, "auditEmail", "sms") /\ UNCHANGED <<jobs, message>>
      BY <1>7, <2>3 DEF Notification!AuditEmail
    <3>2. jobStage[p] = "auditEmail" /\ \E to \in {"sms"} : jobStage' = [jobStage EXCEPT ![p] = to]
      BY <3>1 DEF Notification!JobGoto
    <3>3. KeepsMessages(p)
      BY <1>1, <3>1, MessagesKept
    <3> QED BY <1>1, <1>2, <3>1, <3>2, <3>3, EarlyKeeps
  <2> QED BY <1>7, <2>1, <2>2, <2>3
<1> QED BY <1>3, <1>4, <1>5, <1>6, <1>7

\* The row for the mail of FSP is not among those that say a message was sent.
LEMMA RowForFspKeeps ==
  ASSUME NotificationInv, NEW p \in Requests, Notification!RowForFsp(p) PROVE NotificationInv'
<1>1. /\ UNCHANGED <<apiAt, mail, jobs, message, excused, template, live, sent>>
      /\ NotificationTypes
      /\ jobStage[p] = "email"
      /\ \E to \in {"sms", "auditEmail"} : jobStage' = [jobStage EXCEPT ![p] = to]
  BY DEF Notification!RowForFsp, Notification!JobGoto, Notification!request, Notification!office,
         Notification!setup, NotificationInv
<1>2. PICK x : /\ rows' = rows \/ rows' = rows \cup {x}
               /\ x.channel = "email" /\ x.by = "job"
  <2> DEFINE y == [for |-> p, channel |-> "email", by |-> "job", text |-> template["email"],
                   status |-> "sent",
                   number |-> Notification!Cardinality(Notification!RowsOf(p, "email", "job"))]
  <2>1. rows' = rows \/ rows' = rows \cup {y}
    BY DEF Notification!RowForFsp, Notification!AddRow
  <2>2. y.channel = "email" /\ y.by = "job"
    OBVIOUS
  <2> HIDE DEF y
  <2> QED BY <2>1, <2>2
<1>3. IsFiniteSet(rows')
  <2>1. IsFiniteSet(rows) /\ IsFiniteSet(rows \cup {x})
    BY <1>1, FS_AddElement DEF NotificationTypes
  <2> QED BY <1>2, <2>1
<1>4. SayTheSame /\ KeepsMessages(p)
  BY <1>1, <1>2, <1>3, MessagesKept DEF SayTheSame, RowsSaying
<1> QED BY <1>1, <1>4, EarlyKeeps

LEMMA SendSmsKeeps ==
  ASSUME NotificationInv, NEW p \in Requests, Notification!SendSms(p) PROVE NotificationInv'
<1>1. /\ UNCHANGED <<apiAt, mail, excused, template, live, rows>>
      /\ NotificationTypes /\ jobStage[p] = "sms" /\ IsFiniteSet(rows')
  BY DEF Notification!SendSms, Notification!Complete, Notification!JobGoto, Notification!request,
         Notification!office, Notification!setup, NotificationInv, NotificationTypes
<1>2. SayTheSame
  BY <1>1 DEF SayTheSame, RowsSaying
<1>3. CASE Notification!Complete(p, "sms") /\ UNCHANGED <<message, sent>>
  <2>1. Notification!Queue!Complete(p) /\ \E to \in {"none"} : jobStage' = [jobStage EXCEPT ![p] = to]
    BY <1>3 DEF Notification!Complete, Notification!JobGoto
  <2>9. KeepsMessages(p)
    BY <1>1, <1>3, MessagesKept
  <2> QED BY <1>1, <1>2, <1>3, <2>1, <2>9, EarlyKeeps
<1>4. CASE Notification!JobGoto(p, "sms", "auditSms") /\ UNCHANGED <<jobs, message, sent>>
  <2>1. \E to \in {"auditSms"} : jobStage' = [jobStage EXCEPT ![p] = to]
    BY <1>4 DEF Notification!JobGoto
  <2>9. KeepsMessages(p)
    BY <1>1, <1>4, MessagesKept
  <2> QED BY <1>1, <1>2, <1>4, <2>1, <2>9, EarlyKeeps
<1>5. CASE /\ ~(Notification!Complete(p, "sms") /\ UNCHANGED <<message, sent>>)
           /\ ~(Notification!JobGoto(p, "sms", "auditSms") /\ UNCHANGED <<jobs, message, sent>>)
  <2> DEFINE text == template["sms"]
  <2>1. PICK outcome \in {"sent", "failed"} :
          /\ UNCHANGED jobs /\ Notification!JobGoto(p, "sms", "recordSms")
          /\ Notification!Sends(p, "sms", text, outcome)
          /\ message' = [message EXCEPT ![p].text = text, ![p].result = outcome]
    BY <1>5 DEF Notification!SendSms
  <2>2. text \in Nat /\ "sms" \in Channels /\ sent[p] \in [Channels -> Seq(Nat)]
    BY <1>1 DEF NotificationTypes, Channels
  <2> HIDE DEF text
  <2>3. /\ jobStage'[p] = "recordSms" /\ DOMAIN jobStage' = Requests
        /\ \A q \in Requests \ {p} : jobStage'[q] = jobStage[q]
    BY <1>1, <2>1 DEF Notification!JobGoto, NotificationTypes
  <2>4. /\ DOMAIN message' = Requests /\ \A q \in Requests \ {p} : message'[q] = message[q]
        /\ DOMAIN message'[p] = {"knows", "text", "result"}
        /\ message'[p].text = text /\ message'[p].result = outcome
    BY <1>1, <2>1 DEF NotificationTypes
  <2>5. p \in excused \/ sent[p]["sms"] = <<>>
    BY <1>1 DEF NotificationInv, TextsAreOver
  <2>6. /\ sent' \in [Requests -> [Channels -> Seq(Nat)]]
        /\ \A q \in Requests \ {p} : sent'[q] = sent[q]
        /\ sent'[p]["sms"] = sent[p]["sms"] \/ sent'[p]["sms"] = Append(sent[p]["sms"], text)
    <3>1. Append(sent[p]["sms"], text) \in Seq(Nat)
      BY <2>2, AppendProperties
    <3>2. CASE UNCHANGED sent
      BY <1>1, <3>2 DEF NotificationTypes
    <3>3. CASE sent' = [sent EXCEPT ![p]["sms"] = Append(@, text)]
      <4> DEFINE texts == [sent[p] EXCEPT !["sms"] = Append(@, text)]
      <4>1. texts \in [Channels -> Seq(Nat)] /\ texts["sms"] = Append(sent[p]["sms"], text)
        BY <2>2, <3>1 DEF Channels
      <4>2. sent' = [sent EXCEPT ![p] = texts]
        BY <3>3
      <4> HIDE DEF texts
      <4> QED BY <1>1, <4>1, <4>2 DEF NotificationTypes
    <3> QED BY <2>1, <3>2, <3>3 DEF Notification!Sends
  <2>7. NotificationTypes'
    BY <1>1, <2>1, <2>2, <2>3, <2>4, <2>6 DEF NotificationTypes
  <2>8. StageIsActive'
    BY <1>1, <2>1, <2>3 DEF NotificationInv, StageIsActive
  <2>9. TextsAreOver'
    <3>1. p \notin excused => sent'[p]["sms"] = <<>> \/ Len(sent'[p]["sms"]) = 1
      <4>1. <<>> \in Seq(Nat) /\ Len(<<>>) = 0
        OBVIOUS
      <4>2. Len(Append(<<>>, text)) = 1
        BY <2>2, <4>1, AppendProperties
      <4> QED BY <2>5, <2>6, <4>2
    <3> QED BY <1>1, <2>1, <2>3, <2>6, <3>1 DEF NotificationInv, TextsAreOver
  <2>10. Accounted'
    <3>1. \A t : ~Owed(p, "sms", t)
      BY <1>1 DEF Owed
    <3>2. \A r \in Requests, c \in live : \A t : Owed(r, c, t)' =>
            Owed(r, c, t) \/ (r = p /\ c = "sms" /\ t = text /\ outcome = "sent")
      BY <1>1, <2>3, <2>4 DEF Owed
    <3> QED BY <1>1, <2>1, <2>2, <3>1, <3>2, SendAccount DEF NotificationInv
  <2> QED BY <2>7, <2>8, <2>9, <2>10 DEF NotificationInv
<1> QED BY <1>3, <1>4, <1>5

\* The row says of a text what its sending returned.
LEMMA RecordSmsKeeps ==
  ASSUME NotificationInv, NEW p \in Requests, Notification!RecordSms(p) PROVE NotificationInv'
<1>1. PICK x : /\ rows' = rows \/ rows' = rows \cup {x}
               /\ x.for = p /\ x.channel = "sms"
               /\ x.text = message[p].text /\ x.status = message[p].result
  <2> DEFINE y == [for |-> p, channel |-> "sms", by |-> "job", text |-> message[p].text,
                   status |-> message[p].result,
                   number |-> Notification!Cardinality(Notification!RowsOf(p, "sms", "job"))]
  <2>1. rows' = rows \/ rows' = rows \cup {y}
    BY DEF Notification!RecordSms, Notification!AddRow
  <2>2. y.for = p /\ y.channel = "sms" /\ y.text = message[p].text /\ y.status = message[p].result
    OBVIOUS
  <2> HIDE DEF y
  <2> QED BY <2>1, <2>2
<1>2. /\ UNCHANGED <<apiAt, mail, jobs, message, excused, template, live, sent>>
      /\ jobStage[p] = "recordSms"
  BY DEF Notification!RecordSms, Notification!JobGoto, Notification!request, Notification!office,
         Notification!setup
<1>3. PICK to \in {"auditResult", "auditSms"} : jobStage' = [jobStage EXCEPT ![p] = to]
  BY DEF Notification!RecordSms, Notification!JobGoto
<1>4. NotificationTypes
  BY DEF NotificationInv
<1>5. jobStage'[p] = to /\ \A q \in Requests \ {p} : jobStage'[q] = jobStage[q]
  BY <1>3, <1>4 DEF NotificationTypes
<1>6. IsFiniteSet(rows')
  <2>1. IsFiniteSet(rows) /\ IsFiniteSet(rows \cup {x})
    BY <1>4, FS_AddElement DEF NotificationTypes
  <2> QED BY <1>1, <2>1
<1>7. Accounted'
  <2>1. \A r \in Requests, c \in live : \A t : Owed(r, c, t)' => Owed(r, c, t)
    BY <1>2, <1>5 DEF Owed
  <2>2. \A r \in Requests, c \in live : \A t :
          /\ x.for = r /\ x.channel = c /\ x.text = t /\ x.status = "sent" /\ ~(c = "email" /\ x.by = "job")
          => Owed(r, c, t) /\ ~Owed(r, c, t)'
    BY <1>1, <1>2, <1>5 DEF Owed
  <2>3. "sms" \in Channels
    BY DEF Channels
  <2> QED BY <1>1, <1>2, <1>4, <2>1, <2>2, <2>3, RecordAccount DEF NotificationInv
<1>8. KeepsMessages(p)
  BY <1>2, <1>4, MessagesKept
<1>9. /\ DOMAIN jobs' = Requests /\ DOMAIN jobs'[p] = JobFields
      /\ \A q \in Requests \ {p} : jobs'[q] = jobs[q]
      /\ jobs'[p].state = "active"
  BY <1>2, <1>4 DEF NotificationTypes, NotificationInv, StageIsActive
<1> QED BY <1>2, <1>3, <1>6, <1>7, <1>8, <1>9, JobKeeps DEF KeepsMessages

\* A job that has texted ends, unless its audit or its worker is lost.
LEMMA LateStepsKeep ==
  ASSUME NotificationInv, NEW p \in Requests,
         \/ Notification!AuditResult(p) \/ Notification!AuditSms(p) \/ Notification!WorkerCrash(p)
  PROVE  NotificationInv'
<1>1. /\ UNCHANGED <<apiAt, mail, message, template, live, sent, rows>>
      /\ excused \subseteq excused'
  BY DEF Notification!AuditResult, Notification!AuditSms, Notification!WorkerCrash,
         Notification!request, Notification!office, Notification!setup
<1>2. PICK to \in {"auditSms", "none"} : jobStage' = [jobStage EXCEPT ![p] = to]
  BY DEF Notification!AuditResult, Notification!AuditSms, Notification!WorkerCrash,
         Notification!Complete, Notification!Throw, Notification!JobGoto
<1>3. \/ Notification!Queue!Complete(p)
      \/ Notification!Queue!Throw(p) /\ p \in excused'
      \/ Notification!Queue!Stall(p) /\ p \in excused'
      \/ UNCHANGED jobs /\ jobStage[p] = "auditResult" /\ jobStage' = [jobStage EXCEPT ![p] = "auditSms"]
  BY DEF Notification!AuditResult, Notification!AuditSms, Notification!WorkerCrash,
         Notification!Complete, Notification!Throw, Notification!JobGoto
<1>4. NotificationTypes /\ jobStage'[p] = to
  BY <1>2 DEF NotificationInv, NotificationTypes
<1>5. to = "auditSms" => UNCHANGED jobs /\ jobs[p].state = "active"
  <2>1. ~(UNCHANGED jobs /\ jobStage[p] = "auditResult" /\ jobStage' = [jobStage EXCEPT ![p] = "auditSms"])
          => jobStage'[p] = "none"
    BY <1>4 DEF Notification!AuditResult, Notification!AuditSms, Notification!WorkerCrash,
         Notification!Complete, Notification!Throw, Notification!JobGoto, NotificationTypes
  <2>2. jobStage[p] = "auditResult" => jobs[p].state = "active"
    BY DEF NotificationInv, StageIsActive
  <2> QED BY <1>4, <2>1, <2>2
<1>6. to = "none" => p \in excused' \/ Notification!Queue!Complete(p)
  <2>1. jobStage' = [jobStage EXCEPT ![p] = "auditSms"] => jobStage'[p] = "auditSms"
    BY <1>4 DEF NotificationTypes
  <2> QED BY <1>3, <1>4, <2>1
<1>7. /\ DOMAIN jobs' = Requests /\ DOMAIN jobs'[p] = JobFields
      /\ \A q \in Requests \ {p} : jobs'[q] = jobs[q]
      /\ Notification!Queue!Complete(p) => jobs'[p].state = "completed"
      /\ UNCHANGED jobs => jobs'[p] = jobs[p]
  BY <1>3, <1>4, QueueMoves
<1>8. KeepsMessages(p) /\ SayTheSame
  BY <1>1, <1>4, MessagesKept DEF SayTheSame, RowsSaying, NotificationTypes
<1>9. Accounted'
  BY <1>1, <1>2, <1>8, JobAccount DEF KeepsMessages, SayTheSame
<1> QED BY <1>1, <1>2, <1>5, <1>6, <1>7, <1>8, <1>9, JobKeeps DEF KeepsMessages, SayTheSame

\* Templates and preferences are read afresh, and change nothing that was sent.
LEMMA OfficeKeeps ==
  ASSUME NotificationInv, template' \in [Channels -> Nat],
         UNCHANGED <<apiAt, mail, jobs, jobStage, message, excused, live, sent, rows>>
  PROVE  NotificationInv'
<1>1. NotificationTypes'
  BY DEF NotificationInv, NotificationTypes
<1>2. StageIsActive' /\ TextsAreOver'
  BY DEF NotificationInv, StageIsActive, TextsAreOver
<1>3. Accounted'
  <2>1. \A r \in Requests, c \in live : \A t : RowsSaying(r, c, t)' = RowsSaying(r, c, t)
    BY DEF RowsSaying
  <2>2. \A r \in Requests, c \in live : \A t : Owed(r, c, t)' => Owed(r, c, t)
    BY DEF Owed
  <2> QED BY <2>1, <2>2, QuietAccount DEF NotificationInv
<1> QED BY <1>1, <1>2, <1>3 DEF NotificationInv

LEMMA NotificationStepwise ==
  NotificationInv /\ [Notification!Next]_notificationVars => NotificationInv'
<1> SUFFICES ASSUME NotificationInv, [Notification!Next]_notificationVars PROVE NotificationInv'
  OBVIOUS
<1>1. ASSUME NEW r \in Requests,
             \/ \E k, w, addresses : Notification!Ask(r, k, w, addresses)
             \/ Notification!GatherContext(r) \/ Notification!CallAi(r)
             \/ Notification!LookupConfirmation(r) \/ Notification!LookupRefusal(r)
             \/ Notification!LookupAssistant(r) \/ Notification!Enqueue(r)
      PROVE  NotificationInv'
  BY <1>1, ApiStepsKeep
<1>2. ASSUME NEW r \in Requests, Notification!SendEmail(r) \/ Notification!RecordEmail(r)
      PROVE  NotificationInv'
  BY <1>2, SendEmailKeeps, RecordEmailKeeps
<1>3. ASSUME NEW r \in Requests,
             \/ Notification!Start(r) \/ Notification!LogOnly(r) \/ Notification!Load(r)
             \/ Notification!ReadPrefs(r) \/ Notification!RowForFsp(r) \/ Notification!AuditEmail(r)
             \/ Notification!SendSms(r)
      PROVE  NotificationInv'
  BY <1>3, EarlyStepsKeep, RowForFspKeeps, SendSmsKeeps
<1>4. ASSUME NEW r \in Requests,
             \/ Notification!RecordSms(r) \/ Notification!AuditResult(r)
             \/ Notification!AuditSms(r) \/ Notification!WorkerCrash(r)
      PROVE  NotificationInv'
  BY <1>4, RecordSmsKeeps, LateStepsKeep
<1>5. CASE Notification!ApiCrash
  <2>1. PICK r \in Requests : apiAt[r] \notin {"idle", "ended"}
    BY <1>5 DEF Notification!ApiCrash
  <2> QED BY <1>5, <2>1, ApiStepsKeep
<1>6. ASSUME NEW c \in Notification!Channels, Notification!EditTemplate(c) PROVE NotificationInv'
  <2>1. /\ template' = [template EXCEPT ![c] = @ + 1]
        /\ UNCHANGED <<apiAt, mail, jobs, jobStage, message, excused, live, sent, rows>>
    BY <1>6 DEF Notification!EditTemplate, Notification!request, Notification!job, Notification!setup
  <2>2. template' \in [Channels -> Nat]
    <3>1. template \in [Channels -> Nat] /\ c \in Channels /\ template[c] + 1 \in Nat
      BY <1>6 DEF NotificationInv, NotificationTypes, Notification!Channels, Channels
    <3> QED BY <2>1, <3>1
  <2> QED BY <2>1, <2>2, OfficeKeeps
<1>7. ASSUME NEW on, NEW inConsole, Notification!SavePrefs(on, inConsole) PROVE NotificationInv'
  <2>1. UNCHANGED <<apiAt, mail, jobs, jobStage, message, excused, template, live, sent, rows>>
    BY <1>7 DEF Notification!SavePrefs, Notification!request, Notification!job, Notification!setup
  <2> QED BY <2>1, OfficeKeeps DEF NotificationInv, NotificationTypes
<1>8. CASE UNCHANGED notificationVars
  <2>1. UNCHANGED <<apiAt, mail, jobs, jobStage, message, excused, template, live, sent, rows>>
    BY <1>8 DEF notificationVars
  <2> QED BY <2>1, OfficeKeeps DEF NotificationInv, NotificationTypes
<1>9. CASE Notification!Next
  BY <1>1, <1>2, <1>3, <1>4, <1>5, <1>6, <1>7, <1>9 DEF Notification!Next
<1>10. [Notification!Next]_notificationVars => Notification!Next \/ UNCHANGED notificationVars
  BY DEF notificationVars
<1> QED BY <1>8, <1>9, <1>10

LEMMA MessagesAreAccountedFor ==
  Spec => [](scene = "notification" => NotificationInv)
<1> DEFINE I == scene = "notification" => NotificationInv
<1>1. Init => I
  BY NotificationInitially DEF Init
<1>2. I /\ [Next]_vars => I'
  BY SceneStays, NotificationMove, NotificationStepwise
<1> QED BY <1>1, <1>2, PTL DEF Spec

\* A retried notification job texts nobody twice, unless it could not audit a
\* failure or its worker died (send-notification.job.ts swallows what comes after
\* the message, so that BullMQ has nothing to retry).
THEOREM RetriesTextOnce == Spec => []TextedOnce
<1>1. NotificationInv => Notification!TextedOnce
  <2> SUFFICES ASSUME NotificationInv, NEW r \in Requests \ excused PROVE Len(sent[r]["sms"]) <= 1
    BY DEF Notification!TextedOnce
  <2>1. ASSUME NEW s \in Seq(Nat), s = <<>> PROVE Len(s) = 0
    BY <2>1, EmptySeq
  <2>2. sent[r]["sms"] = <<>> \/ Len(sent[r]["sms"]) = 1
    BY DEF NotificationInv, TextsAreOver
  <2>3. sent[r]["sms"] \in Seq(Nat)
    BY DEF NotificationInv, NotificationTypes, Channels
  <2>4. CASE sent[r]["sms"] = <<>>
    <3>1. Len(sent[r]["sms"]) = 0
      BY <2>1, <2>3, <2>4
    <3> QED BY <3>1
  <2>5. CASE Len(sent[r]["sms"]) = 1
    BY <2>5
  <2> QED BY <2>2, <2>4, <2>5
<1>2. (scene = "notification" => NotificationInv) => TextedOnce
  BY <1>1 DEF TextedOnce
<1> QED BY <1>2, MessagesAreAccountedFor, PTL

\* On a channel with a provider, the rows "sent" of a request and a text are no
\* more than the messages that went out: a step sends before another one records
\* what the provider answered, whatever is edited or lost in between.
THEOREM RowsAreOfSentTexts == Spec => []SentRowsWereSent
<1>1. NotificationInv => Notification!SentRowsWereSent
  <2> SUFFICES ASSUME NotificationInv, NEW r \in Requests, NEW c \in live,
                      NEW text \in 0 .. MaxEdits
               PROVE  Notification!Cardinality(RowsSaying(r, c, text))
                        <= Notification!Cardinality(SendsOf(r, c, text))
    BY DEF Notification!SentRowsWereSent, RowsSaying, SendsOf
  <2>1. c \in Channels /\ NotificationTypes
    BY DEF NotificationInv, NotificationTypes
  <2>2. Cardinality(RowsSaying(r, c, text)) \in Nat /\ Cardinality(SendsOf(r, c, text)) \in Nat
    BY <2>1, FiniteCounts
  <2>3. Cardinality(RowsSaying(r, c, text)) + (IF Owed(r, c, text) THEN 1 ELSE 0)
          <= Cardinality(SendsOf(r, c, text))
    BY DEF NotificationInv, Accounted
  <2>4. Cardinality(RowsSaying(r, c, text)) <= Cardinality(SendsOf(r, c, text))
    BY <2>2, <2>3
  <2>5. \A S : Notification!Cardinality(S) = Cardinality(S)
    BY DEF Notification!Cardinality, Cardinality
  <2> QED BY <2>4, <2>5
<1>2. (scene = "notification" => NotificationInv) => SentRowsWereSent
  BY <1>1 DEF SentRowsWereSent
<1> QED BY <1>2, MessagesAreAccountedFor, PTL

--------------------------------------------------------------------------------
(* Data: induction, and what folds, flattenings and sorts return. *)

\* Induction over a set of numbers.
LEMMA SetInduction ==
  ASSUME NEW T, 0 \in T, \A n \in Nat : n \in T => n + 1 \in T
  PROVE  Nat \subseteq T
<1> DEFINE R == {ss \in Nat \X Nat : ss[1] < ss[2]}
           U == {n \in Nat : n \notin T}
<1>1. IsWellFoundedOn(R, Nat)
  BY NatLessThanWellFounded DEF OpToRel
<1>2. SUFFICES ASSUME U # {} PROVE FALSE
  OBVIOUS
<1>3. PICK x \in U : \A y \in U : <<y, x>> \notin R
  BY <1>1, <1>2, WFMin
<1>4. x # 0 /\ x \in Nat
  OBVIOUS
<1>5. x - 1 \in Nat /\ x - 1 < x /\ x = (x - 1) + 1
  BY <1>4
<1>6. <<x - 1, x>> \in R
  BY <1>4, <1>5
<1>7. x - 1 \in T
  BY <1>3, <1>5, <1>6
<1> QED BY <1>5, <1>7

\* A set of numbers has a least one.
LEMMA LeastNumber ==
  ASSUME NEW S \in SUBSET Nat, S # {}
  PROVE  \E x \in S : \A y \in S : x <= y
<1> DEFINE R == {ss \in Nat \X Nat : ss[1] < ss[2]}
<1>1. IsWellFoundedOn(R, Nat)
  BY NatLessThanWellFounded DEF OpToRel
<1>2. PICK x \in S : \A y \in S : <<y, x>> \notin R
  BY <1>1, WFMin
<1>3. \A y \in S : x <= y
  <2> TAKE y \in S
  <2>1. x \in Nat /\ y \in Nat /\ ~(y < x)
    BY <1>2
  <2> QED BY <2>1
<1> QED BY <1>3

\* A set of positions has a last one.
LEMMA LastPosition ==
  ASSUME NEW n \in Nat, NEW S \in SUBSET (1 .. n), S # {}
  PROVE  Max(S) \in S /\ \A x \in S : x <= Max(S)
<1> DEFINE U == {k \in Nat : n - k \in S}
<1>1. U # {}
  <2>1. PICK x \in S : TRUE
    OBVIOUS
  <2>2. n - x \in Nat /\ n - (n - x) = x
    BY <2>1
  <2> QED BY <2>2
<1>2. PICK k \in U : \A j \in U : k <= j
  BY <1>1, LeastNumber
<1>3. \A x \in S : n - k >= x
  <2> TAKE x \in S
  <2>1. n - x \in Nat /\ n - (n - x) = x
    OBVIOUS
  <2>2. n - x \in U
    BY <2>1
  <2> QED BY <1>2, <2>1, <2>2
<1>4. n - k \in S
  OBVIOUS
<1> QED BY <1>3, <1>4 DEF Max

\* g has the fold of f over each set of positions of c.
FoldsOver(g, f, b, c, n) ==
  \A s \in SUBSET (1 .. n) : g[s] = IF s = {} THEN b ELSE f[<<g[s \ {Max(s)}], c[Max(s)]>>]

\* The recursive function behind a fold exists: its states are in A, its
\* elements in E and its operation is f.
LEMMA FoldExists ==
  ASSUME NEW A, NEW E, NEW n \in Nat, NEW c \in [1 .. n -> E], NEW b \in A,
         NEW f \in [A \X E -> A]
  PROVE  \E g \in [SUBSET (1 .. n) -> A] : FoldsOver(g, f, b, c, n)
<1> DEFINE D == SUBSET (1 .. n)
           next(g, s) == IF s = {} THEN b ELSE f[<<g[s \ {Max(s)}], c[Max(s)]>>]
           T == {m \in Nat : \E g \in [D -> A] :
                   \A s \in D : Cardinality(s) <= m => g[s] = next(g, s)}
<1>1. \A s \in D : /\ IsFiniteSet(s) /\ Cardinality(s) \in Nat /\ Cardinality(s) <= n
                   /\ Cardinality(s) = 0 <=> s = {}
  <2>1. IsFiniteSet(1 .. n) /\ Cardinality(1 .. n) = n
    BY FS_Interval
  <2> TAKE s \in D
  <2>2. IsFiniteSet(s) /\ Cardinality(s) <= n
    <3> DEFINE all == 1 .. n
    <3>1. s \in SUBSET all /\ IsFiniteSet(all) /\ Cardinality(all) = n
      BY <2>1
    <3> HIDE DEF all
    <3>2. IsFiniteSet(s) /\ Cardinality(s) <= Cardinality(all)
      BY <3>1, FS_Subset
    <3> QED BY <3>1, <3>2
  <2> QED BY <2>2, FS_CardinalityType, FS_EmptySet
<1>2. \A s \in D : s # {} =>
        /\ Max(s) \in 1 .. n /\ s \ {Max(s)} \in D
        /\ Cardinality(s \ {Max(s)}) = Cardinality(s) - 1
  <2> TAKE s \in D
  <2> HAVE s # {}
  <2>1. Max(s) \in s
    BY LastPosition
  <2> QED BY <1>1, <2>1, FS_RemoveElement
<1>3. 0 \in T
  <2> DEFINE g0 == [s \in D |-> b]
  <2>1. g0 \in [D -> A] /\ \A s \in D : Cardinality(s) <= 0 => g0[s] = next(g0, s)
    BY <1>1
  <2> QED BY <2>1
<1>4. ASSUME NEW m \in Nat, m \in T PROVE m + 1 \in T
  <2>1. PICK g \in [D -> A] : \A s \in D : Cardinality(s) <= m => g[s] = next(g, s)
    BY <1>4
  <2> DEFINE h == [s \in D |-> IF Cardinality(s) <= m THEN g[s] ELSE next(g, s)]
  <2>2. \A s \in D : next(g, s) \in A
    BY <1>2
  <2>3. h \in [D -> A]
    BY <2>2
  <2>4. \A s \in D : Cardinality(s) <= m + 1 => next(h, s) = next(g, s)
    <3> TAKE s \in D
    <3> HAVE Cardinality(s) <= m + 1
    <3>1. CASE s = {}
      BY <3>1
    <3>2. CASE s # {}
      <4>1. Cardinality(s \ {Max(s)}) <= m /\ s \ {Max(s)} \in D
        <5>1. Cardinality(s) \in Nat /\ Cardinality(s \ {Max(s)}) = Cardinality(s) - 1
          BY <1>1, <1>2, <3>2
        <5> QED BY <1>2, <3>2, <5>1
      <4>2. h[s \ {Max(s)}] = g[s \ {Max(s)}]
        BY <4>1
      <4> QED BY <3>2, <4>2
    <3> QED BY <3>1, <3>2
  <2>5. \A s \in D : Cardinality(s) <= m + 1 => h[s] = next(h, s)
    <3> TAKE s \in D
    <3> HAVE Cardinality(s) <= m + 1
    <3>1. h[s] = next(g, s)
      BY <2>1
    <3> HIDE DEF next, h
    <3> QED BY <2>4, <3>1
  <2>6. \E k \in [D -> A] : \A s \in D : Cardinality(s) <= m + 1 => k[s] = next(k, s)
    <3> HIDE DEF h, next, D
    <3> QED BY <2>3, <2>5
  <2> HIDE DEF next, D
  <2> QED BY <2>6
<1> HIDE DEF T
<1>5. n \in T
  BY <1>3, <1>4, SetInduction
<1>6. PICK g \in [D -> A] : \A s \in D : Cardinality(s) <= n => g[s] = next(g, s)
  BY <1>5 DEF T
<1>7. FoldsOver(g, f, b, c, n)
  BY <1>1, <1>6 DEF FoldsOver
<1> QED BY <1>7

\* The initial segments a fold goes through.
LEMMA Segments ==
  ASSUME NEW n \in Nat, NEW k \in 1 .. n
  PROVE  /\ 1 .. k \in SUBSET (1 .. n) /\ 1 .. k # {}
         /\ Max(1 .. k) = k /\ (1 .. k) \ {k} = 1 .. (k - 1)
<1>1. 1 .. k \in SUBSET (1 .. n) /\ k \in 1 .. k
  OBVIOUS
<1>2. Max(1 .. k) \in 1 .. k /\ \A x \in 1 .. k : x <= Max(1 .. k)
  BY <1>1, LastPosition
<1> QED BY <1>1, <1>2

\* How a sequence of sequences is flattened: each is appended to those before.
IsFlattening(flat, seqs) ==
  /\ FlattenSeq(seqs) = flat[Len(seqs)]
  /\ flat[1] = seqs[1]
  /\ \A i \in 1 .. (Len(seqs) - 1) : flat[i + 1] = flat[i] \o seqs[i + 1]

\* The recursive function behind FlattenSeq exists.
LEMMA Flattening ==
  ASSUME NEW E, NEW seqs \in Seq(Seq(E)), Len(seqs) # 0
  PROVE  \E flat : IsFlattening(flat, seqs)
<1> DEFINE n == Len(seqs)
           D == 1 .. n
           next(f, i) == IF i = 1 THEN seqs[i] ELSE f[i - 1] \o seqs[i]
<1>0. n \in Nat /\ n # 0 /\ DOMAIN seqs = D /\ \A i \in D : seqs[i] \in Seq(E)
  OBVIOUS
<1> DEFINE T == {m \in Nat : \E f \in [D -> Seq(E)] : \A i \in D : i <= m => f[i] = next(f, i)}
<1>1. 0 \in T
  <2> DEFINE f == [i \in D |-> seqs[i]]
  <2>1. f \in [D -> Seq(E)] /\ \A i \in D : ~(i <= 0)
    BY <1>0
  <2> QED BY <2>1
<1>2. ASSUME NEW m \in Nat, m \in T PROVE m + 1 \in T
  <2>1. PICK f \in [D -> Seq(E)] : \A i \in D : i <= m => f[i] = next(f, i)
    BY <1>2
  <2> DEFINE h == [i \in D |-> IF i <= m THEN f[i] ELSE next(f, i)]
  <2>2. \A i \in D : next(f, i) \in Seq(E)
    <3> TAKE i \in D
    <3>1. CASE i = 1
      BY <1>0, <3>1
    <3>2. CASE i # 1
      <4>1. i - 1 \in D
        BY <1>0, <3>2
      <4>3. f[i - 1] \in Seq(E) /\ seqs[i] \in Seq(E)
        <5> HIDE DEF D
        <5> QED BY <1>0, <4>1
      <4>2. f[i - 1] \o seqs[i] \in Seq(E)
        BY <4>3, ConcatProperties
      <4> QED BY <3>2, <4>2
    <3> QED BY <3>1, <3>2
  <2>3. h \in [D -> Seq(E)]
    BY <2>2
  <2>4. \A i \in D : i <= m + 1 => h[i] = next(h, i)
    <3> TAKE i \in D
    <3> HAVE i <= m + 1
    <3>1. h[i] = next(f, i)
      BY <2>1
    <3>2. CASE i = 1
      BY <3>1, <3>2
    <3>3. CASE i # 1
      <4>1. i - 1 \in D /\ i - 1 <= m
        BY <1>0, <3>3
      <4>2. h[i - 1] = f[i - 1]
        BY <4>1
      <4> QED BY <3>1, <3>3, <4>2
    <3> QED BY <3>2, <3>3
  <2>5. \E k \in [D -> Seq(E)] : \A i \in D : i <= m + 1 => k[i] = next(k, i)
    <3> HIDE DEF h, next, D
    <3> QED BY <2>3, <2>4
  <2> HIDE DEF next, D, h
  <2>6. m + 1 \in Nat
    OBVIOUS
  <2> QED BY <2>5, <2>6
<1> HIDE DEF T
<1>3. n \in T
  BY <1>0, <1>1, <1>2, SetInduction
<1>4. PICK g \in [D -> Seq(E)] : \A i \in D : g[i] = next(g, i)
  BY <1>0, <1>3 DEF T
<1> DEFINE flat == CHOOSE f : f = [i \in D |-> next(f, i)]
<1>5. flat = [i \in D |-> next(flat, i)]
  <2>1. g = [i \in D |-> next(g, i)]
    BY <1>4
  <2> HIDE DEF next
  <2> QED BY <2>1
<1>6. FlattenSeq(seqs) = flat[n]
  BY <1>0 DEF FlattenSeq
<1> HIDE DEF flat
<1>7. \A i \in 1 .. (n - 1) : i + 1 \in D /\ i + 1 # 1 /\ (i + 1) - 1 = i
  BY <1>0
<1>8. 1 \in D
  BY <1>0
<1>9. IsFlattening(flat, seqs)
  BY <1>5, <1>6, <1>7, <1>8 DEF IsFlattening
<1> HIDE DEF flat
<1> QED BY <1>9

\* Where the elements of two sequences are once one is appended to the other.
LEMMA Concatenated ==
  ASSUME NEW E, NEW a \in Seq(E), NEW b \in Seq(E)
  PROVE  /\ a \o b \in Seq(E)
         /\ \A i \in DOMAIN a : i \in DOMAIN (a \o b) /\ (a \o b)[i] = a[i]
         /\ \A i \in DOMAIN b : Len(a) + i \in DOMAIN (a \o b) /\ (a \o b)[Len(a) + i] = b[i]
         /\ \A j \in DOMAIN (a \o b) : j \in DOMAIN a \/ (j > Len(a) /\ j - Len(a) \in DOMAIN b)
<1>1. /\ a \o b \in Seq(E) /\ Len(a \o b) = Len(a) + Len(b)
      /\ \A i \in 1 .. (Len(a) + Len(b)) : (a \o b)[i] = IF i <= Len(a) THEN a[i] ELSE b[i - Len(a)]
  BY ConcatProperties
<1>2. /\ DOMAIN (a \o b) = 1 .. (Len(a) + Len(b)) /\ DOMAIN a = 1 .. Len(a) /\ DOMAIN b = 1 .. Len(b)
      /\ Len(a) \in Nat /\ Len(b) \in Nat
  BY <1>1
<1> QED BY <1>1, <1>2

\* A flattened sequence has the elements of the sequences, and no others.
LEMMA Flattened ==
  ASSUME NEW E, NEW seqs \in Seq(Seq(E))
  PROVE  /\ FlattenSeq(seqs) \in Seq(E)
         /\ \A i \in DOMAIN seqs : \A k \in DOMAIN seqs[i] :
              \E j \in DOMAIN FlattenSeq(seqs) : FlattenSeq(seqs)[j] = seqs[i][k]
<1> DEFINE n == Len(seqs)
           D == 1 .. n
<1>1. n \in Nat /\ DOMAIN seqs = D /\ \A i \in D : seqs[i] \in Seq(E)
  OBVIOUS
<1>2. CASE n = 0
  <2>1. FlattenSeq(seqs) = seqs /\ DOMAIN seqs = {} /\ seqs = <<>>
    BY <1>2 DEF FlattenSeq
  <2> QED BY <2>1
<1>3. CASE n # 0
  <2>1. PICK flat : IsFlattening(flat, seqs)
    BY <1>3, Flattening
  <2> DEFINE Has(m) ==
               /\ flat[m] \in Seq(E)
               /\ \A i \in 1 .. m : \A k \in DOMAIN seqs[i] :
                    \E j \in DOMAIN flat[m] : flat[m][j] = seqs[i][k]
             U == {m \in Nat : m + 1 \in D => Has(m + 1)}
  <2>2. 0 \in U
    <3>1. flat[1] = seqs[1] /\ 1 \in D /\ \A i \in 1 .. 1 : i = 1
      BY <1>1, <1>3, <2>1 DEF IsFlattening
    <3>2. Has(1)
      BY <1>1, <3>1
    <3> HIDE DEF Has
    <3> QED BY <3>2
  <2>3. ASSUME NEW m \in Nat, m \in U PROVE m + 1 \in U
    <3> SUFFICES ASSUME (m + 1) + 1 \in D PROVE Has((m + 1) + 1)
      BY <2>3
    <3>1. m + 1 \in D /\ m + 1 \in 1 .. (n - 1)
      BY <1>1
    <3> DEFINE a == flat[m + 1]
               b == seqs[(m + 1) + 1]
               c == flat[(m + 1) + 1]
    <3>2. c = a \o b
      BY <2>1, <3>1 DEF IsFlattening
    <3>3. a \in Seq(E) /\ \A i \in 1 .. (m + 1) : \A k \in DOMAIN seqs[i] : \E j \in DOMAIN a : a[j] = seqs[i][k]
      BY <2>3, <3>1
    <3>4. b \in Seq(E)
      BY <1>1
    <3>7. seqs[(m + 1) + 1] = b
      OBVIOUS
    <3> HIDE DEF a, b, c
    <3>5. /\ c \in Seq(E)
          /\ \A i \in DOMAIN a : i \in DOMAIN c /\ c[i] = a[i]
          /\ \A i \in DOMAIN b : Len(a) + i \in DOMAIN c /\ c[Len(a) + i] = b[i]
      <4> HIDE DEF D, n
      <4>1. a \in Seq(E) /\ b \in Seq(E)
        BY <3>3, <3>4
      <4> QED BY ONLY <4>1, <3>2, Concatenated
    <3>6. ASSUME NEW i \in 1 .. ((m + 1) + 1), NEW k \in DOMAIN seqs[i]
          PROVE  \E j \in DOMAIN c : c[j] = seqs[i][k]
      <4>1. CASE i = (m + 1) + 1
        BY <3>5, <3>7, <4>1
      <4>2. CASE i # (m + 1) + 1
        <5>1. i \in 1 .. (m + 1)
          BY <4>2
        <5> QED BY <3>3, <3>5, <5>1
      <4> QED BY <4>1, <4>2
    <3> QED BY <3>5, <3>6 DEF c
  <2> HIDE DEF U
  <2>4. n - 1 \in Nat /\ (n - 1) + 1 = n /\ n \in D
    BY <1>1, <1>3
  <2>6. Nat \subseteq U
    BY <2>2, <2>3, SetInduction
  <2>5. Has(n)
    <3>1. n - 1 \in U
      BY <2>4, <2>6
    <3>2. Has((n - 1) + 1)
      BY <2>4, <3>1 DEF U
    <3> HIDE DEF Has
    <3> QED BY <2>4, <3>2
  <2> QED BY <1>1, <2>1, <2>5 DEF IsFlattening
<1> QED BY <1>1, <1>2, <1>3

\* Any earlier element of a sequence is related to any later one.
InSequence(s, R) == \A i, j \in DOMAIN s : i < j => <<s[i], s[j]>> \in R

\* Every element of one sequence is related to every element of another.
AllBefore(s, t, R) == \A i \in DOMAIN s, j \in DOMAIN t : <<s[i], t[j]>> \in R

\* A flattened sequence is in order if its parts are, and follow each other.
LEMMA FlattenedInOrder ==
  ASSUME NEW E, NEW seqs \in Seq(Seq(E)), NEW R,
         \A i \in DOMAIN seqs : InSequence(seqs[i], R),
         \A i, j \in DOMAIN seqs : i < j => AllBefore(seqs[i], seqs[j], R)
  PROVE  InSequence(FlattenSeq(seqs), R)
<1> DEFINE n == Len(seqs)
           D == 1 .. n
<1>1. n \in Nat /\ DOMAIN seqs = D /\ \A i \in D : seqs[i] \in Seq(E)
  OBVIOUS
<1>2. CASE n = 0
  <2>1. FlattenSeq(seqs) = seqs /\ DOMAIN seqs = {} /\ seqs = <<>>
    BY <1>2 DEF FlattenSeq
  <2> QED BY <2>1 DEF InSequence
<1>3. CASE n # 0
  <2>1. PICK flat : IsFlattening(flat, seqs)
    BY <1>3, Flattening
  <2> DEFINE Fine(m) ==
               /\ flat[m] \in Seq(E) /\ InSequence(flat[m], R)
               /\ \A j \in D : m < j => AllBefore(flat[m], seqs[j], R)
             U == {m \in Nat : m + 1 \in D => Fine(m + 1)}
  <2>2. 0 \in U
    <3>1. flat[1] = seqs[1] /\ 1 \in D
      BY <1>1, <1>3, <2>1 DEF IsFlattening
    <3>2. Fine(1)
      BY <1>1, <3>1
    <3> HIDE DEF Fine
    <3> QED BY <3>2
  <2>3. ASSUME NEW m \in Nat, m \in U PROVE m + 1 \in U
    <3> SUFFICES ASSUME (m + 1) + 1 \in D PROVE Fine((m + 1) + 1)
      BY <2>3
    <3>1. m + 1 \in D /\ m + 1 \in 1 .. (n - 1) /\ m + 1 < (m + 1) + 1
      BY <1>1
    <3> DEFINE a == flat[m + 1]
               b == seqs[(m + 1) + 1]
               c == flat[(m + 1) + 1]
    <3>2. c = a \o b
      BY <2>1, <3>1 DEF IsFlattening
    <3>3. /\ a \in Seq(E) /\ InSequence(a, R) /\ AllBefore(a, b, R)
          /\ \A j \in D : m + 1 < j => AllBefore(a, seqs[j], R)
      BY <2>3, <3>1
    <3>4. /\ b \in Seq(E) /\ InSequence(b, R)
          /\ \A j \in D : (m + 1) + 1 < j => AllBefore(b, seqs[j], R)
      BY <1>1
    <3> HIDE DEF a, b, c
    <3>5. /\ c \in Seq(E)
          /\ \A i \in DOMAIN a : i \in DOMAIN c /\ c[i] = a[i]
          /\ \A i \in DOMAIN b : Len(a) + i \in DOMAIN c /\ c[Len(a) + i] = b[i]
          /\ \A j \in DOMAIN c : j \in DOMAIN a \/ (j > Len(a) /\ j - Len(a) \in DOMAIN b)
      <4> HIDE DEF D, n
      <4>1. a \in Seq(E) /\ b \in Seq(E)
        BY <3>3, <3>4
      <4> QED BY ONLY <4>1, <3>2, Concatenated
    <3>6. /\ DOMAIN a = 1 .. Len(a) /\ Len(a) \in Nat /\ DOMAIN b = 1 .. Len(b) /\ Len(b) \in Nat
          /\ DOMAIN c = 1 .. Len(c) /\ Len(c) \in Nat
      BY <3>3, <3>4, <3>5
    <3>7. \A j \in DOMAIN c :
            \/ j \in DOMAIN a /\ c[j] = a[j]
            \/ j > Len(a) /\ j - Len(a) \in DOMAIN b /\ c[j] = b[j - Len(a)]
      BY <3>5, <3>6
    <3>8. ASSUME NEW i \in DOMAIN c, NEW j \in DOMAIN c, i < j PROVE <<c[i], c[j]>> \in R
      <4>1. CASE j \in DOMAIN a /\ c[j] = a[j]
        <5>1. i \in DOMAIN a /\ c[i] = a[i]
          BY <3>5, <3>6, <3>8, <4>1
        <5> QED BY <3>3, <3>8, <4>1, <5>1 DEF InSequence
      <4>2. CASE j > Len(a) /\ j - Len(a) \in DOMAIN b /\ c[j] = b[j - Len(a)]
        <5>1. CASE i \in DOMAIN a /\ c[i] = a[i]
          BY <3>3, <4>2, <5>1 DEF AllBefore
        <5>2. CASE i > Len(a) /\ i - Len(a) \in DOMAIN b /\ c[i] = b[i - Len(a)]
          <6>1. i - Len(a) < j - Len(a)
            BY <3>6, <3>8
          <6> QED BY <3>4, <4>2, <5>2, <6>1 DEF InSequence
        <5> QED BY <3>7, <5>1, <5>2
      <4> QED BY <3>7, <4>1, <4>2
    <3>9. InSequence(c, R)
      BY <3>8 DEF InSequence
    <3>10. ASSUME NEW j \in D, (m + 1) + 1 < j PROVE AllBefore(c, seqs[j], R)
      <4>1. m + 1 < j /\ AllBefore(a, seqs[j], R) /\ AllBefore(b, seqs[j], R)
        BY <3>3, <3>4, <3>10
      <4> QED BY <3>7, <4>1 DEF AllBefore
    <3> QED BY <3>5, <3>9, <3>10 DEF c
  <2> HIDE DEF U
  <2>4. n - 1 \in Nat /\ (n - 1) + 1 = n /\ n \in D
    BY <1>1, <1>3
  <2>6. Nat \subseteq U
    BY <2>2, <2>3, SetInduction
  <2>5. Fine(n)
    BY <2>4, <2>6 DEF U
  <2> QED BY <1>1, <2>1, <2>5 DEF IsFlattening
<1> QED BY <1>1, <1>2, <1>3

\* What is kept of a sequence: its elements that are in the set, in order.
LEMMA KeptOf ==
  ASSUME NEW E, NEW s \in Seq(E), NEW S, NEW R
  PROVE  /\ Kept(s, S) \in Seq(E \cap S)
         /\ \A i \in DOMAIN s : s[i] \in S => \E j \in DOMAIN Kept(s, S) : Kept(s, S)[j] = s[i]
         /\ InSequence(s, R) => InSequence(Kept(s, S), R)
<1> DEFINE F == E \cap S
           of(n) == IF s[n] \in S THEN <<s[n]>> ELSE <<>>
           seqs == [n \in DOMAIN s |-> of(n)]
<1>1. /\ DOMAIN s = 1 .. Len(s) /\ Len(s) \in Nat /\ \A n \in DOMAIN s : s[n] \in E
      /\ DOMAIN seqs = DOMAIN s
  OBVIOUS
<1>2. \A n \in DOMAIN s : /\ s[n] \in S => seqs[n] = <<s[n]>>
                          /\ s[n] \notin S => seqs[n] = <<>>
  OBVIOUS
<1>3. \A x : /\ <<x>> = [i \in 1 .. 1 |-> x] /\ DOMAIN <<x>> = 1 .. 1 /\ <<x>>[1] = x
             /\ x \in F => <<x>> \in Seq(F)
             /\ <<>> \in Seq(F) /\ DOMAIN <<>> = {}
  OBVIOUS
<1>4. \A n \in DOMAIN s : seqs[n] \in Seq(F)
  BY <1>1, <1>2, <1>3
<1>5. seqs \in Seq(Seq(F))
  <2> HIDE DEF of, F
  <2> QED BY <1>1, <1>4
<1>6. Kept(s, S) = FlattenSeq(seqs)
  BY DEF Kept
<1>7. \A n \in DOMAIN s : \A i \in DOMAIN seqs[n] : i = 1 /\ seqs[n][i] = s[n]
  BY <1>2, <1>3
<1> HIDE DEF seqs, F
<1>8. /\ FlattenSeq(seqs) \in Seq(F)
      /\ \A i \in DOMAIN seqs : \A k \in DOMAIN seqs[i] :
           \E j \in DOMAIN FlattenSeq(seqs) : FlattenSeq(seqs)[j] = seqs[i][k]
  BY <1>5, Flattened
<1>9. \A i \in DOMAIN s : s[i] \in S => 1 \in DOMAIN seqs[i] /\ seqs[i][1] = s[i]
  BY <1>2, <1>3
<1>10. \A i \in DOMAIN s : s[i] \in S => \E j \in DOMAIN Kept(s, S) : Kept(s, S)[j] = s[i]
  BY <1>1, <1>6, <1>8, <1>9
<1>11. ASSUME InSequence(s, R) PROVE InSequence(Kept(s, S), R)
  <2>1. \A i \in DOMAIN seqs : InSequence(seqs[i], R)
    BY <1>1, <1>7 DEF InSequence
  <2>2. \A i, j \in DOMAIN seqs : i < j => AllBefore(seqs[i], seqs[j], R)
    BY <1>1, <1>7, <1>11 DEF AllBefore, InSequence
  <2> QED BY <1>5, <1>6, <2>1, <2>2, FlattenedInOrder
<1> QED BY <1>6, <1>8, <1>10, <1>11 DEF F

\* How many elements of D are before each one, in the order R.
Ranks(D, R) == [x \in D |-> Cardinality({y \in D : <<y, x>> \in R})]

\* The ranks of a finite strict order are its first numbers, each once.
LEMMA Ranked ==
  ASSUME NEW D, IsFiniteSet(D), NEW R,
         \A x \in D : <<x, x>> \notin R,
         \A x, y \in D : x # y => <<x, y>> \in R \/ <<y, x>> \in R,
         \A x, y, z \in D : <<x, y>> \in R /\ <<y, z>> \in R => <<x, z>> \in R,
         NEW rank, rank = Ranks(D, R)
  PROVE  /\ Cardinality(D) \in Nat /\ rank \in [D -> 0 .. (Cardinality(D) - 1)]
         /\ \A x, y \in D : <<x, y>> \in R <=> rank[x] < rank[y]
         /\ \A x, y \in D : rank[x] = rank[y] => x = y
         /\ \A n \in 0 .. (Cardinality(D) - 1) : \E x \in D : rank[x] = n
<1> DEFINE before(x) == {y \in D : <<y, x>> \in R}
           n == Cardinality(D)
<1>1. n \in Nat
  BY FS_CardinalityType
<1>2. \A x \in D : /\ IsFiniteSet(before(x)) /\ Cardinality(before(x)) \in Nat
                   /\ Cardinality(before(x)) < n
  <2> TAKE x \in D
  <2> DEFINE b == before(x)
  <2>1. b \in SUBSET D /\ b # D
    OBVIOUS
  <2> HIDE DEF b
  <2>2. IsFiniteSet(b) /\ Cardinality(b) <= n /\ Cardinality(b) # n
    BY <2>1, FS_Subset
  <2>3. Cardinality(b) \in Nat
    BY <2>2, FS_CardinalityType
  <2>4. Cardinality(b) < n
    BY <1>1, <2>2, <2>3
  <2> QED BY <2>2, <2>3, <2>4 DEF b
<1>3. \A x, y \in D : <<x, y>> \in R => Cardinality(before(x)) < Cardinality(before(y))
  <2> TAKE x, y \in D
  <2> HAVE <<x, y>> \in R
  <2> DEFINE a == before(x)
             b == before(y)
  <2>1. a \in SUBSET b /\ x \in b /\ x \notin a
    OBVIOUS
  <2>2. IsFiniteSet(b) /\ Cardinality(b) \in Nat /\ Cardinality(a) \in Nat
    BY <1>2
  <2> HIDE DEF a, b
  <2>3. Cardinality(a) <= Cardinality(b) /\ Cardinality(a) # Cardinality(b)
    BY <2>1, <2>2, FS_Subset
  <2>4. Cardinality(a) < Cardinality(b)
    BY <2>2, <2>3
  <2> QED BY <2>4 DEF a, b
<1>4. rank \in [D -> 0 .. (n - 1)] /\ \A x \in D : rank[x] = Cardinality(before(x))
  <2>1. \A x \in D : Cardinality(before(x)) \in 0 .. (n - 1)
    <3> TAKE x \in D
    <3>1. Cardinality(before(x)) \in Nat /\ Cardinality(before(x)) < n
      BY <1>2
    <3> HIDE DEF before, n
    <3> QED BY <1>1, <3>1
  <2> HIDE DEF n
  <2> QED BY <2>1 DEF Ranks
<1>5. \A x, y \in D : <<x, y>> \in R => rank[x] < rank[y]
  <2> HIDE DEF before
  <2> QED BY <1>3, <1>4
<1>6. \A x, y \in D : rank[x] \in Int /\ rank[y] \in Int
  BY <1>4
<1> HIDE DEF before
<1>7. \A x, y \in D : /\ rank[x] < rank[y] => <<x, y>> \in R
                      /\ rank[x] = rank[y] => x = y
  <2> TAKE x, y \in D
  <2>1. rank[x] \in Int /\ rank[y] \in Int
    BY <1>6
  <2>2. CASE x = y
    BY <2>1, <2>2
  <2>3. CASE x # y
    <3>1. <<x, y>> \in R \/ (<<y, x>> \in R /\ rank[y] < rank[x])
      BY <1>5, <2>3
    <3>2. <<x, y>> \in R => rank[x] < rank[y]
      BY <1>5
    <3> QED BY <2>1, <3>1, <3>2
  <2> QED BY <2>2, <2>3
<1>8. \A k \in 0 .. (n - 1) : \E x \in D : rank[x] = k
  <2> DEFINE T == 0 .. (n - 1)
  <2>1. IsFiniteSet(T) /\ Cardinality(T) = n
    <3> HIDE DEF n
    <3> QED BY <1>1, FS_Interval
  <2>2. rank \in Injection(D, T)
    BY <1>4, <1>7 DEF Injection, IsInjective
  <2> HIDE DEF T
  <2>3. rank \in Surjection(D, T)
    BY <2>1, <2>2, FS_Injection
  <2>4. \A k \in T : \E x \in D : rank[x] = k
    BY <2>3 DEF Surjection
  <2> QED BY <2>4 DEF T
<1> QED BY <1>1, <1>4, <1>5, <1>7, <1>8

\* A finite set of numbers in their order.
LEMMA Ascended ==
  ASSUME NEW S \in SUBSET Int, IsFiniteSet(S)
  PROVE  /\ Ascending(S) \in Seq(S)
         /\ \A t \in S : \E k \in DOMAIN Ascending(S) : Ascending(S)[k] = t
<1> DEFINE R == {p \in S \X S : p[1] < p[2]}
           rank == Ranks(S, R)
           n == Cardinality(S)
           upto(t) == Cardinality({u \in S : u <= t})
<1>1. /\ n \in Nat /\ rank \in [S -> 0 .. (n - 1)]
      /\ \A x, y \in S : rank[x] = rank[y] => x = y
      /\ \A k \in 0 .. (n - 1) : \E x \in S : rank[x] = k
  <2>1. \A x \in S : <<x, x>> \notin R
    OBVIOUS
  <2>2. \A x, y \in S : x # y => <<x, y>> \in R \/ <<y, x>> \in R
    OBVIOUS
  <2>3. \A x, y, z \in S : <<x, y>> \in R /\ <<y, z>> \in R => <<x, z>> \in R
    OBVIOUS
  <2> HIDE DEF R
  <2>4. /\ Cardinality(S) \in Nat /\ rank \in [S -> 0 .. (Cardinality(S) - 1)]
        /\ \A x, y \in S : rank[x] = rank[y] => x = y
        /\ \A k \in 0 .. (Cardinality(S) - 1) : \E x \in S : rank[x] = k
    <3> HIDE DEF n, upto
    <3>1. Cardinality(S) \in Nat /\ rank \in [S -> 0 .. (Cardinality(S) - 1)]
      BY <2>1, <2>2, <2>3, Ranked
    <3>2. \A x, y \in S : rank[x] = rank[y] => x = y
      BY <2>1, <2>2, <2>3, Ranked
    <3>3. \A k \in 0 .. (Cardinality(S) - 1) : \E x \in S : rank[x] = k
      BY <2>1, <2>2, <2>3, Ranked
    <3> QED BY <3>1, <3>2, <3>3
  <2> QED BY <2>4
<1>2. \A t \in S : upto(t) = rank[t] + 1
  <2> TAKE t \in S
  <2> DEFINE b == {y \in S : <<y, t>> \in R}
  <2>5. \A y : y \in b <=> y \in S /\ y < t
    OBVIOUS
  <2>6. t \in Int /\ S \subseteq Int /\ ~(t < t) /\ \A u \in S : u <= t <=> u < t \/ u = t
    OBVIOUS
  <2>1. {u \in S : u <= t} = b \cup {t} /\ t \notin b /\ b \in SUBSET S
    <3> HIDE DEF b, R
    <3> QED BY <2>5, <2>6
  <2>2. rank[t] = Cardinality(b)
    BY DEF Ranks
  <2> HIDE DEF b, R
  <2>3. IsFiniteSet(b)
    BY <2>1, FS_Subset
  <2>4. Cardinality(b \cup {t}) = Cardinality(b) + 1
    BY <2>1, <2>3, FS_AddElement
  <2> QED BY <2>1, <2>2, <2>4
<1> HIDE DEF rank, R
<1>3. \A k \in 1 .. n : /\ (CHOOSE t \in S : upto(t) = k) \in S
                        /\ upto(CHOOSE t \in S : upto(t) = k) = k
  <2> TAKE k \in 1 .. n
  <2>1. k - 1 \in 0 .. (n - 1)
    BY <1>1
  <2>2. PICK t \in S : rank[t] = k - 1
    BY <1>1, <2>1
  <2>3. upto(t) = k
    BY <1>2, <2>2
  <2> HIDE DEF upto
  <2> QED BY <2>3
<1>4. DOMAIN Ascending(S) = 1 .. n /\ \A k \in 1 .. n : Ascending(S)[k] = CHOOSE t \in S : upto(t) = k
  BY DEF Ascending
<1> HIDE DEF upto, n
<1>5. Ascending(S) \in [1 .. n -> S]
  BY <1>3, <1>4 DEF Ascending, n
<1>6. Ascending(S) \in Seq(S)
  BY <1>1, <1>5
<1>7. ASSUME NEW t \in S PROVE \E k \in 1 .. n : Ascending(S)[k] = t
  <2>1. rank[t] + 1 \in 1 .. n /\ rank[t] \in Int
    BY <1>1
  <2> DEFINE k == rank[t] + 1
             x == Ascending(S)[k]
  <2>2. x \in S /\ upto(x) = k
    BY <1>3, <1>4, <2>1
  <2> HIDE DEF x, k
  <2>3. upto(x) = rank[x] + 1 /\ rank[x] \in Int
    BY <1>1, <1>2, <2>2
  <2>4. rank[x] = rank[t]
    BY <2>1, <2>2, <2>3 DEF k
  <2> QED BY <1>1, <2>1, <2>2, <2>4 DEF x, k
<1> QED BY <1>4, <1>6, <1>7

\* Where a stable sort puts the positions 1 .. n that R orders.
PlacesOf(n, R) == {<<i, Cardinality({j \in 1 .. n : <<j, i>> \in R})>> : i \in 1 .. n}

\* Where the CHOOSE of a stable sort puts each position.
LEMMA Placed ==
  ASSUME NEW n \in Nat, NEW R,
         \A x \in 1 .. n : <<x, x>> \notin R,
         \A x, y \in 1 .. n : x # y => <<x, y>> \in R \/ <<y, x>> \in R,
         \A x, y, z \in 1 .. n : <<x, y>> \in R /\ <<y, z>> \in R => <<x, z>> \in R,
         NEW place, place = [k \in 1 .. n |-> (CHOOSE p \in PlacesOf(n, R) : p[2] = k - 1)[1]]
  PROVE  /\ place \in [1 .. n -> 1 .. n]
         /\ \A i \in 1 .. n : \E k \in 1 .. n : place[k] = i
         /\ \A k, l \in 1 .. n : <<place[k], place[l]>> \in R => k < l
<1> DEFINE D == 1 .. n
           rank == Ranks(D, R)
<1>1. IsFiniteSet(D) /\ Cardinality(D) = n
  BY FS_Interval
<1>2. /\ rank \in [D -> 0 .. (n - 1)]
      /\ \A x, y \in D : <<x, y>> \in R <=> rank[x] < rank[y]
      /\ \A x, y \in D : rank[x] = rank[y] => x = y
      /\ \A k \in 0 .. (n - 1) : \E x \in D : rank[x] = k
  <2>2. /\ \A x \in D : <<x, x>> \notin R
        /\ \A x, y \in D : x # y => <<x, y>> \in R \/ <<y, x>> \in R
        /\ \A x, y, z \in D : <<x, y>> \in R /\ <<y, z>> \in R => <<x, z>> \in R
    OBVIOUS
  <2> HIDE DEF D
  <2>3. rank \in [D -> 0 .. (Cardinality(D) - 1)]
    BY <1>1, <2>2, Ranked
  <2>4. \A x, y \in D : <<x, y>> \in R <=> rank[x] < rank[y]
    BY <1>1, <2>2, Ranked
  <2>5. \A x, y \in D : rank[x] = rank[y] => x = y
    BY <1>1, <2>2, Ranked
  <2>6. \A k \in 0 .. (Cardinality(D) - 1) : \E x \in D : rank[x] = k
    BY <1>1, <2>2, Ranked
  <2> QED BY <1>1, <2>3, <2>4, <2>5, <2>6
<1>3. PlacesOf(n, R) = {<<i, rank[i]>> : i \in D}
  BY DEF PlacesOf, Ranks
<1> HIDE DEF rank
<1>4. \A k \in D : place[k] \in D /\ rank[place[k]] = k - 1
  <2> TAKE k \in D
  <2>1. PICK x \in D : rank[x] = k - 1
    <3>1. k - 1 \in 0 .. (n - 1)
      OBVIOUS
    <3> QED BY <1>2, <3>1
  <2>2. <<x, rank[x]>> \in PlacesOf(n, R) /\ <<x, rank[x]>>[2] = k - 1
    BY <1>3, <2>1
  <2> DEFINE p == CHOOSE q \in PlacesOf(n, R) : q[2] = k - 1
  <2>3. p \in PlacesOf(n, R) /\ p[2] = k - 1
    <3> DEFINE P(q) == q[2] = k - 1
    <3> HIDE DEF P
    <3>1. P(<<x, rank[x]>>)
      BY <2>2 DEF P
    <3>2. (CHOOSE q \in PlacesOf(n, R) : P(q)) \in PlacesOf(n, R) /\ P(CHOOSE q \in PlacesOf(n, R) : P(q))
      BY <2>2, <3>1
    <3> QED BY <3>2 DEF P
  <2>4. place[k] = p[1]
    OBVIOUS
  <2> HIDE DEF p
  <2>5. PICK i \in D : p = <<i, rank[i]>>
    BY <1>3, <2>3
  <2> QED BY <2>3, <2>4, <2>5
<1>5. place \in [D -> D]
  BY <1>4
<1>6. ASSUME NEW i \in D PROVE \E k \in D : place[k] = i
  <2>1. rank[i] \in 0 .. (n - 1)
    BY <1>2
  <2>2. rank[i] + 1 \in D /\ (rank[i] + 1) - 1 = rank[i]
    BY <2>1
  <2>3. rank[place[rank[i] + 1]] = rank[i] /\ place[rank[i] + 1] \in D
    <3> HIDE DEF D
    <3> QED BY <1>4, <2>2
  <2> QED BY <1>2, <2>2, <2>3
<1>7. ASSUME NEW k \in D, NEW l \in D, <<place[k], place[l]>> \in R PROVE k < l
  <2>1. rank[place[k]] < rank[place[l]]
    BY <1>2, <1>4, <1>7
  <2> QED BY <1>4, <2>1
<1> QED BY <1>5, <1>6, <1>7

\* R is a strict total order of D.
OrdersStrictly(R, D) ==
  /\ \A x \in D : <<x, x>> \notin R
  /\ \A x, y \in D : x # y => <<x, y>> \in R \/ <<y, x>> \in R
  /\ \A x, y, z \in D : <<x, y>> \in R /\ <<y, z>> \in R => <<x, z>> \in R

\* The position that is put at k.
PlaceAt(n, R, k) == (CHOOSE p \in PlacesOf(n, R) : p[2] = k - 1)[1]

\* Every position of D is put at one place, those before another earlier.
PutsInOrder(place, R, D) ==
  /\ place \in [D -> D]
  /\ \A i \in D : \E k \in D : place[k] = i
  /\ \A k, l \in D : <<place[k], place[l]>> \in R => k < l

\* The places of a stable sort are a permutation that keeps the order.
LEMMA PlacedInOrder ==
  ASSUME NEW n \in Nat, NEW R, OrdersStrictly(R, 1 .. n),
         NEW place, place = [k \in 1 .. n |-> PlaceAt(n, R, k)]
  PROVE  PutsInOrder(place, R, 1 .. n)
<1>1. place = [k \in 1 .. n |-> (CHOOSE p \in PlacesOf(n, R) : p[2] = k - 1)[1]]
  BY DEF PlaceAt
<1>2. /\ \A x \in 1 .. n : <<x, x>> \notin R
      /\ \A x, y \in 1 .. n : x # y => <<x, y>> \in R \/ <<y, x>> \in R
      /\ \A x, y, z \in 1 .. n : <<x, y>> \in R /\ <<y, z>> \in R => <<x, z>> \in R
  BY DEF OrdersStrictly
<1>3. place \in [1 .. n -> 1 .. n]
  BY <1>1, <1>2, Placed
<1>4. \A i \in 1 .. n : \E k \in 1 .. n : place[k] = i
  BY <1>1, <1>2, Placed
<1>5. \A k, l \in 1 .. n : <<place[k], place[l]>> \in R => k < l
  BY <1>1, <1>2, Placed
<1> QED BY <1>3, <1>4, <1>5 DEF PutsInOrder

--------------------------------------------------------------------------------
(* The slot search. *)

\* A candidate has a slot already, or no aircraft is free for it.
Seen(found, x) ==
  \E n \in DOMAIN found : found[n].slot.start = x.start /\ found[n].slot.instructor = x.instructor

\* Every aircraft is taken at the time of a candidate.
Taken(x, booked) ==
  \A n \in DOMAIN Aircraft : Search!HasConflict(Search!Slot(x.instructor, Aircraft[n], x.start), booked)

\* Nothing is left to do for a candidate: enough is found, or it is there or taken.
Processed(found, x, booked) == Len(found) >= job.maxSlots \/ Seen(found, x) \/ Taken(x, booked)

\* What every slot of the search looks like, wherever it is.
SlotType ==
  [student : {job.student}, instructor : job.instructors, aircraft : Range(Aircraft),
   activity : {job.activity}, start : Int, end : Int]

\* The slot is in a window of its instructor's calendar.
Fitting(p) ==
  \E w \in Search!WindowsOn(calendars[p.instructor], DateOf(p.start)) :
    Fits(ClockOf(p.start), ClockOf(p.end), w)

\* The slots that a calendar of their instructor has.
FitSlots == {p \in SlotType : Fitting(p)}
Entries  == [slot : FitSlots, score : Int, until : Int]

\* Candidates in a calendar.
Candidates ==
  {x \in [instructor : job.instructors, start : Int] :
     \E w \in Search!WindowsOn(calendars[x.instructor], DateOf(x.start)) :
       Fits(ClockOf(x.start), ClockOf(x.start + job.duration), w)}

\* A candidate is added, or need not be; what is found stays.
LEMMA AddCandidateAdds ==
  ASSUME NEW found \in Seq(Entries), NEW x \in Candidates, NEW booked, NEW until \in Int,
         job.duration \in Nat, job.maxSlots \in Nat,
         NEW next, next = Search!AddCandidate(found, x, booked, until)
  PROVE  /\ next \in Seq(Entries)
         /\ Len(next) >= Len(found) /\ \A y : Seen(found, y) => Seen(next, y)
         /\ Processed(next, x, booked)
<1> DEFINE free == {n \in DOMAIN Aircraft :
                      ~Search!HasConflict(Search!Slot(x.instructor, Aircraft[n], x.start), booked)}
           slot == Search!Slot(x.instructor, Aircraft[Search!Min(free)], x.start)
           entry == [slot |-> slot, score |-> Search!MatchScore(slot), until |-> until]
<1>1. /\ x.instructor \in job.instructors /\ x.start \in Int
      /\ \E w \in Search!WindowsOn(calendars[x.instructor], DateOf(x.start)) :
           Fits(ClockOf(x.start), ClockOf(x.start + job.duration), w)
  BY DEF Candidates
<1>2. next = IF Len(found) >= job.maxSlots \/ Seen(found, x) \/ free = {}
             THEN found ELSE Append(found, entry)
  <2>1. next = IF \/ Len(found) >= job.maxSlots
                  \/ \E n \in DOMAIN found : /\ found[n].slot.start = x.start
                                             /\ found[n].slot.instructor = x.instructor
                  \/ free = {}
               THEN found ELSE Append(found, entry)
    BY DEF Search!AddCandidate
  <2> HIDE DEF free, entry
  <2> QED BY <2>1 DEF Seen
<1>3. free = {} <=> Taken(x, booked)
  BY DEF Taken
<1>4. Len(found) \in Nat
  OBVIOUS
<1>5. CASE Len(found) >= job.maxSlots \/ Seen(found, x) \/ free = {}
  <2>1. next = found
    BY <1>2, <1>5
  <2> QED BY <1>3, <1>4, <1>5, <2>1 DEF Processed
<1>6. CASE ~(Len(found) >= job.maxSlots \/ Seen(found, x) \/ free = {})
  <2>1. Search!Min(free) \in DOMAIN Aircraft
    <3>1. free \in SUBSET Nat /\ free # {} /\ free \in SUBSET DOMAIN Aircraft
      BY <1>6, SearchAssumption
    <3> HIDE DEF free
    <3>2. \E n \in free : \A y \in free : n <= y
      BY <3>1, LeastNumber
    <3> QED BY <3>1, <3>2 DEF Search!Min
  <2>2. Aircraft[Search!Min(free)] \in Range(Aircraft)
    BY <2>1 DEF Range
  <2> HIDE DEF free
  <2>3. /\ slot \in SlotType /\ slot.start = x.start /\ slot.instructor = x.instructor
        /\ slot.end = x.start + job.duration
    BY <1>1, <2>2 DEF Search!Slot, SlotType
  <2> HIDE DEF slot
  <2>4. slot \in FitSlots
    BY <1>1, <2>3 DEF FitSlots, Fitting
  <2>5. Search!MatchScore(slot) \in Int
    BY DEF Search!MatchScore
  <2>6. entry \in Entries
    BY <2>4, <2>5 DEF Entries
  <2>7. entry.slot = slot
    OBVIOUS
  <2> HIDE DEF entry
  <2>8. next = Append(found, entry)
    BY <1>2, <1>6
  <2>9. /\ next \in Seq(Entries) /\ Len(next) = Len(found) + 1
        /\ DOMAIN next = 1 .. (Len(found) + 1) /\ DOMAIN found = 1 .. Len(found)
        /\ next[Len(found) + 1] = entry
        /\ \A n \in 1 .. Len(found) : next[n] = found[n]
    BY <2>6, <2>8, AppendProperties
  <2>10. \A y : Seen(found, y) => Seen(next, y)
    BY <1>4, <2>9 DEF Seen
  <2>11. Seen(next, x)
    BY <1>4, <2>3, <2>7, <2>9 DEF Seen
  <2> QED BY <1>4, <2>9, <2>10, <2>11 DEF Processed
<1> QED BY <1>5, <1>6

\* The candidates of a list, one after the other.
AddAll(found, list, booked, until) ==
  Search!FoldLeft(LAMBDA a, c : Search!AddCandidate(a, c, booked, until), found, list)

\* A turn of the search has processed every candidate of its list.
LEMMA Folded ==
  ASSUME NEW found \in Seq(Entries), NEW list \in Seq(Candidates), NEW booked, NEW until \in Int,
         job.duration \in Nat, job.maxSlots \in Nat,
         NEW next, next = AddAll(found, list, booked, until)
  PROVE  /\ next \in Seq(Entries)
         /\ Len(next) >= Len(found) /\ \A y : Seen(found, y) => Seen(next, y)
         /\ \A j \in DOMAIN list : Processed(next, list[j], booked)
<1> DEFINE n == Len(list)
           A == Seq(Entries)
           Add(a, x) == Search!AddCandidate(a, x, booked, until)
           step(h, s) == IF s = {} THEN found ELSE Add(h[s \ {Max(s)}], list[Max(s)])
           H == CHOOSE h : h = [s \in SUBSET (1 .. n) |-> step(h, s)]
<1>1. n \in Nat /\ DOMAIN list = 1 .. n /\ list \in [1 .. n -> Candidates]
  OBVIOUS
<1>2. next = H[1 .. n]
  <2>1. next = (CHOOSE h : h = [s \in SUBSET DOMAIN list |-> step(h, s)])[DOMAIN list]
    BY DEF AddAll, Search!FoldLeft, Search!MapThenFoldSet, Search!Max, Max
  <2> QED BY <1>1, <2>1
<1>3. H = [s \in SUBSET (1 .. n) |-> step(H, s)]
  <2> DEFINE f == [p \in A \X Candidates |-> Add(p[1], p[2])]
  <2>1. \A a \in A, x \in Candidates : Add(a, x) \in A
    BY AddCandidateAdds
  <2> HIDE DEF A, Add, n
  <2>2. f \in [A \X Candidates -> A]
    BY <2>1
  <2>3. found \in A
    BY DEF A
  <2>4. PICK g \in [SUBSET (1 .. n) -> A] : FoldsOver(g, f, found, list, n)
    <3> HIDE DEF f
    <3> QED BY <1>1, <2>2, <2>3, FoldExists
  <2>5. \A s \in SUBSET (1 .. n) : g[s] = step(g, s)
    <3> TAKE s \in SUBSET (1 .. n)
    <3>1. CASE s = {}
      BY <2>4, <3>1 DEF FoldsOver
    <3>2. CASE s # {}
      <4>1. Max(s) \in 1 .. n /\ s \ {Max(s)} \in SUBSET (1 .. n)
        BY <1>1, <3>2, LastPosition
      <4>2. <<g[s \ {Max(s)}], list[Max(s)]>> \in A \X Candidates
        BY <1>1, <4>1
      <4> QED BY <2>4, <3>2, <4>2 DEF FoldsOver
    <3> QED BY <3>1, <3>2
  <2>6. g = [s \in SUBSET (1 .. n) |-> step(g, s)]
    <3> HIDE DEF step
    <3> QED BY <2>5
  <2> HIDE DEF step
  <2> QED BY <2>6
<1> HIDE DEF H
<1> DEFINE Fine(k) == /\ H[1 .. k] \in A /\ Len(H[1 .. k]) >= Len(found)
                      /\ \A y : Seen(found, y) => Seen(H[1 .. k], y)
                      /\ \A j \in 1 .. k : Processed(H[1 .. k], list[j], booked)
           T == {k \in Nat : k <= n => Fine(k)}
<1>4. 0 \in T
  <2>1. 1 .. 0 = {} /\ {} \in SUBSET (1 .. n)
    OBVIOUS
  <2>2. H[1 .. 0] = found
    BY <1>3, <2>1
  <2>3. Len(found) \in Nat
    OBVIOUS
  <2> QED BY <2>1, <2>2, <2>3
<1>5. ASSUME NEW k \in Nat, k \in T PROVE k + 1 \in T
  <2> SUFFICES ASSUME k + 1 <= n PROVE Fine(k + 1)
    OBVIOUS
  <2>1. k + 1 \in 1 .. n /\ (k + 1) - 1 = k
    BY <1>1
  <2>2. /\ 1 .. (k + 1) \in SUBSET (1 .. n) /\ 1 .. (k + 1) # {} /\ Max(1 .. (k + 1)) = k + 1
        /\ (1 .. (k + 1)) \ {k + 1} = 1 .. k
    BY <1>1, <2>1, Segments
  <2> DEFINE a == H[1 .. k]
             b == H[1 .. (k + 1)]
             x == list[k + 1]
  <2>3. b = Add(a, x)
    BY <1>3, <2>2
  <2>4. /\ a \in A /\ Len(a) >= Len(found) /\ \A y : Seen(found, y) => Seen(a, y)
        /\ \A j \in 1 .. k : Processed(a, list[j], booked)
    BY <1>1, <1>5, <2>1
  <2>5. x \in Candidates
    BY <1>1, <2>1
  <2> HIDE DEF a, b, x
  <2>6. /\ b \in A /\ Len(b) >= Len(a) /\ \A y : Seen(a, y) => Seen(b, y)
        /\ Processed(b, x, booked)
    BY <2>3, <2>4, <2>5, AddCandidateAdds
  <2>7. Len(a) \in Nat /\ Len(b) \in Nat /\ Len(found) \in Nat
    BY <2>4, <2>6
  <2>8. \A j \in 1 .. k : Processed(b, list[j], booked)
    BY <2>4, <2>6, <2>7 DEF Processed
  <2>9. \A j \in 1 .. (k + 1) : j \in 1 .. k \/ list[j] = x
    BY DEF x
  <2>10. /\ Len(b) >= Len(found) /\ \A y : Seen(found, y) => Seen(b, y)
         /\ \A j \in 1 .. (k + 1) : Processed(b, list[j], booked)
    BY <2>4, <2>6, <2>7, <2>8, <2>9
  <2> QED BY <2>6, <2>10 DEF b
<1> HIDE DEF T
<1>6. n \in T
  BY <1>1, <1>4, <1>5, SetInduction
<1>7. Fine(n)
  BY <1>1, <1>6 DEF T
<1> QED BY <1>1, <1>2, <1>7

\* A start in a calendar is a number of a bounded set, and its slot fits.
LEMMA StartsFit ==
  ASSUME NEW calendar, IsCalendar(calendar), NEW ws \in Nat, NEW we \in Nat,
         NEW duration \in Nat \ {0},
         NEW starts, starts = Search!CandidateStarts(calendar, ws, we, duration)
  PROVE  /\ starts \in SUBSET Int /\ IsFiniteSet(starts)
         /\ \A t \in starts : \E w \in Search!WindowsOn(calendar, DateOf(t)) :
              Fits(ClockOf(t), ClockOf(t + duration), w)
<1> DEFINE first == DateOf(ws)
           final == first + (we - ws) \div DayLength
<1>1. \A d, w : w \in Search!WindowsOn(calendar, d) => w.from \in Nat /\ w.to \in 0 .. DayLength
  BY DEF IsCalendar, IsWindow, Search!WindowsOn
<1>2. first \in Int /\ final \in Int
  BY DEF DateOf, DayLength
<1>3. \A t \in starts :
        \E d \in first .. final : \E w \in Search!WindowsOn(calendar, d) :
          \E m \in Search!StartsIn(w, duration) : t = d * DayLength + m
  BY DEF Search!CandidateStarts, Search!DateOf, DateOf, Search!DayLength, DayLength
<1>4. ASSUME NEW t \in starts
      PROVE  /\ t \in first * DayLength .. (final + 1) * DayLength
             /\ \E w \in Search!WindowsOn(calendar, DateOf(t)) :
                  Fits(ClockOf(t), ClockOf(t + duration), w)
  <2>9. PICK d \in first .. final :
          \E w \in Search!WindowsOn(calendar, d) :
            \E m \in Search!StartsIn(w, duration) : t = d * DayLength + m
    BY <1>3
  <2>10. PICK w \in Search!WindowsOn(calendar, d) :
           \E m \in Search!StartsIn(w, duration) : t = d * DayLength + m
    BY <2>9
  <2>1. PICK m \in Search!StartsIn(w, duration) : t = d * DayLength + m
    BY <2>10
  <2>11. w.from \in Nat /\ w.to \in Int /\ w.to <= 1440 /\ 0 <= w.to
    <3>1. w.to \in 0 .. 1440 /\ w.from \in Nat
      BY <1>1 DEF DayLength
    <3> DEFINE b == w.to
    <3>2. b \in 0 .. 1440
      BY <3>1
    <3> HIDE DEF b
    <3>3. b \in Int /\ b <= 1440 /\ 0 <= b
      BY <3>2
    <3> QED BY <3>1, <3>3 DEF b
  <2>2. /\ m \in w.from .. (w.to - duration) /\ w.from \in Nat /\ w.to \in 0 .. 1440
    BY <1>1 DEF Search!StartsIn, DayLength
  <2>3. /\ m \in 0 .. 1439 /\ d \in Int /\ m + duration \in 1 .. 1440
        /\ m >= w.from /\ m + duration <= w.to
    <3> HIDE DEF first, final
    <3>1. d \in Int
      BY <1>2
    <3>2. m \in Int /\ m >= w.from /\ m <= w.to - duration
      BY <2>2
    <3>3. w.from \in Nat /\ w.to \in Int /\ w.to <= 1440
      BY <2>11
    <3> DEFINE a == w.from
               b == w.to
    <3>4. a \in Nat /\ b \in Int /\ b <= 1440 /\ m \in Int /\ m >= a /\ m <= b - duration
      BY <3>2, <3>3
    <3> HIDE DEF a, b
    <3>5. m \in 0 .. 1439 /\ m + duration \in 1 .. 1440 /\ m + duration <= b
      BY <3>4
    <3> QED BY <3>1, <3>4, <3>5 DEF a, b
  <2> HIDE DEF first, final
  <2>4. t = d * 1440 + m
    BY <2>1 DEF DayLength
  <2>5. t \div 1440 = d /\ t % 1440 = m
    BY <2>3, <2>4
  <2>6. (t + duration) % 1440 = IF m + duration = 1440 THEN 0 ELSE m + duration
    <3>1. CASE m + duration = 1440
      <4>1. t + duration = (d + 1) * 1440
        BY <2>3, <2>4, <3>1
      <4> QED BY <2>3, <3>1, <4>1
    <3>2. CASE m + duration # 1440
      <4>1. t + duration = d * 1440 + (m + duration) /\ m + duration \in 0 .. 1439
        BY <2>3, <2>4, <3>2
      <4> QED BY <2>3, <3>2, <4>1
    <3> QED BY <3>1, <3>2
  <2>7. DateOf(t) = d /\ Fits(ClockOf(t), ClockOf(t + duration), w)
    <3>1. DateOf(t) = d /\ ClockOf(t) = m
      BY <2>5 DEF DateOf, ClockOf, DayLength
    <3>2. ClockOf(t + duration) \in {0, m + duration}
      BY <2>6 DEF ClockOf, DayLength
    <3>3. 0 <= w.to
      BY <2>11
    <3> QED BY <2>3, <3>1, <3>2, <3>3 DEF Fits
  <2>8. t \in first * DayLength .. (final + 1) * DayLength
    BY <1>2, <2>1, <2>3, <2>4 DEF DayLength
  <2> QED BY <2>1, <2>7, <2>8
<1>5. first * DayLength \in Int /\ (final + 1) * DayLength \in Int
  BY <1>2 DEF DayLength
<1>6. \A t \in starts : t \in Int
  BY <1>4, <1>5
<1> HIDE DEF first, final
<1>7. IsFiniteSet(starts)
  <2> DEFINE all == first * DayLength .. (final + 1) * DayLength
  <2>1. IsFiniteSet(all) /\ starts \in SUBSET all
    BY <1>4, <1>5, FS_Interval
  <2> HIDE DEF all
  <2> QED BY <2>1, FS_Subset
<1> QED BY <1>4, <1>6, <1>7

\* The library, as the search has it.
LEMMA SameCardinality == ASSUME NEW S PROVE Search!Cardinality(S) = Cardinality(S)
BY DEF Search!Cardinality, Cardinality, Search!IsFiniteSet, IsFiniteSet

\* An operator of SlotSearch is the one of Ranking.
LEMMA SameAscending == ASSUME NEW S PROVE Search!Ascending(S) = Ascending(S)
BY DEF Search!Ascending, Ascending, Search!Cardinality, Cardinality, Search!IsFiniteSet, IsFiniteSet

\* The flattening of SlotSearch is the one of SequencesExt.
LEMMA SameFlattenSeq == ASSUME NEW s PROVE Search!FlattenSeq(s) = FlattenSeq(s)
BY DEF Search!FlattenSeq, FlattenSeq

\* A sequence of a finite set without repetition has all its elements.
LEMMA EveryoneOrdered ==
  ASSUME NEW S, IsFiniteSet(S), NEW order \in Search!SetToSeqs(S)
  PROVE  /\ order \in [1 .. Cardinality(S) -> S] /\ Cardinality(S) \in Nat
         /\ \A i \in S : \E n \in DOMAIN order : order[n] = i
<1> DEFINE D == 1 .. Cardinality(S)
<1>1. /\ order \in [D -> S]
      /\ \A i, j \in D : i # j => order[i] # order[j]
  BY SameCardinality DEF Search!SetToSeqs
<1>2. Cardinality(S) \in Nat
  BY FS_CardinalityType
<1>3. Cardinality(D) = Cardinality(S) /\ IsFiniteSet(D)
  BY <1>2, FS_Interval
<1> HIDE DEF D
<1>4. order \in Injection(D, S)
  BY <1>1 DEF Injection, IsInjective
<1>5. order \in Surjection(D, S)
  BY <1>3, <1>4, FS_Injection
<1> QED BY <1>1, <1>2, <1>5 DEF Surjection, D

\* A list with every start of every instructor.
Lists(list, ws, we) ==
  \A i \in job.instructors :
    \A t \in Search!CandidateStarts(calendars[i], ws, we, job.duration) :
      \E k \in DOMAIN list : list[k].instructor = i /\ list[k].start = t

\* The list of candidates has what is in the calendars, and no more.
LEMMA CandidatesListed ==
  ASSUME job.instructors \subseteq Instructors, job.duration \in Nat \ {0},
         \A u \in Instructors : IsCalendar(calendars[u]),
         NEW order \in Search!SetToSeqs(job.instructors), NEW ws \in Nat, NEW we \in Nat,
         NEW list, list = Search!CandidatesOf(order, ws, we)
  PROVE  list \in Seq(Candidates) /\ Lists(list, ws, we)
<1> DEFINE starts(i) == Search!CandidateStarts(calendars[i], ws, we, job.duration)
           of(n) == LET s == Ascending(starts(order[n]))
                    IN [k \in DOMAIN s |-> [instructor |-> order[n], start |-> s[k]]]
           seqs == [n \in DOMAIN order |-> of(n)]
<1>1. /\ order \in [1 .. Cardinality(job.instructors) -> job.instructors]
      /\ Cardinality(job.instructors) \in Nat
      /\ \A i \in job.instructors : \E n \in DOMAIN order : order[n] = i
  <2>1. IsFiniteSet(job.instructors)
    BY SearchAssumption, FS_Subset
  <2> QED BY <2>1, EveryoneOrdered
<1>2. list = FlattenSeq(seqs)
  <2>1. list = Search!FlattenSeq([n \in DOMAIN order |->
                 LET s == Search!Ascending(Search!CandidateStarts(calendars[order[n]], ws, we,
                                                                  job.duration))
                 IN [k \in DOMAIN s |-> [instructor |-> order[n], start |-> s[k]]]])
    BY DEF Search!CandidatesOf
  <2>2. \A n \in DOMAIN order :
          of(n) = LET s == Search!Ascending(Search!CandidateStarts(calendars[order[n]], ws, we,
                                                                   job.duration))
                  IN [k \in DOMAIN s |-> [instructor |-> order[n], start |-> s[k]]]
    BY SameAscending
  <2> HIDE DEF of
  <2>3. list = Search!FlattenSeq(seqs)
    BY <2>1, <2>2
  <2> QED BY <2>3, SameFlattenSeq
<1>3. \A i \in job.instructors :
        /\ Ascending(starts(i)) \in Seq(starts(i))
        /\ \A t \in starts(i) : \E k \in DOMAIN Ascending(starts(i)) : Ascending(starts(i))[k] = t
        /\ \A t \in starts(i) : t \in Int /\ \E w \in Search!WindowsOn(calendars[i], DateOf(t)) :
              Fits(ClockOf(t), ClockOf(t + job.duration), w)
  <2> TAKE i \in job.instructors
  <2>1. IsCalendar(calendars[i])
    OBVIOUS
  <2> DEFINE S == starts(i)
  <2>2. /\ S \in SUBSET Int /\ IsFiniteSet(S)
        /\ \A t \in S : \E w \in Search!WindowsOn(calendars[i], DateOf(t)) :
              Fits(ClockOf(t), ClockOf(t + job.duration), w)
    BY <2>1, StartsFit
  <2> HIDE DEF S
  <2>3. /\ Ascending(S) \in Seq(S)
        /\ \A t \in S : \E k \in DOMAIN Ascending(S) : Ascending(S)[k] = t
    BY <2>2, Ascended
  <2> QED BY <2>2, <2>3 DEF S
<1> HIDE DEF starts
<1>4. \A n \in DOMAIN order : of(n) \in Seq(Candidates)
  <2> TAKE n \in DOMAIN order
  <2> DEFINE s == Ascending(starts(order[n]))
  <2>1. order[n] \in job.instructors /\ s \in Seq(starts(order[n]))
    BY <1>1, <1>3
  <2> HIDE DEF s
  <2>2. \A k \in 1 .. Len(s) : [instructor |-> order[n], start |-> s[k]] \in Candidates
    <3> TAKE k \in 1 .. Len(s)
    <3>1. s[k] \in starts(order[n])
      BY <2>1
    <3> QED BY <1>3, <2>1, <3>1 DEF Candidates
  <2>3. DOMAIN s = 1 .. Len(s) /\ Len(s) \in Nat
    BY <2>1
  <2>4. [k \in DOMAIN s |-> [instructor |-> order[n], start |-> s[k]]] \in Seq(Candidates)
    BY <2>2, <2>3
  <2> QED BY <2>4 DEF s
<1>5. seqs \in Seq(Seq(Candidates))
  <2> HIDE DEF of
  <2> QED BY <1>1, <1>4
<1>6. /\ list \in Seq(Candidates)
      /\ \A n \in DOMAIN seqs : \A k \in DOMAIN seqs[n] : \E j \in DOMAIN list : list[j] = seqs[n][k]
  <2> HIDE DEF seqs
  <2> QED BY <1>2, <1>5, Flattened
<1>7. ASSUME NEW i \in job.instructors, NEW t \in starts(i)
      PROVE  \E k \in DOMAIN list : list[k].instructor = i /\ list[k].start = t
  <2>1. PICK n \in DOMAIN order : order[n] = i
    BY <1>1
  <2>2. PICK k \in DOMAIN Ascending(starts(i)) : Ascending(starts(i))[k] = t
    BY <1>3
  <2>3. seqs[n] = [l \in DOMAIN Ascending(starts(i)) |->
                    [instructor |-> i, start |-> Ascending(starts(i))[l]]]
    BY <2>1
  <2>4. k \in DOMAIN seqs[n] /\ seqs[n][k] = [instructor |-> i, start |-> t] /\ n \in DOMAIN seqs
    BY <2>2, <2>3
  <2> HIDE DEF seqs
  <2>5. PICK j \in DOMAIN list : list[j] = seqs[n][k]
    BY <1>6, <2>4
  <2> QED BY <2>4, <2>5
<1> QED BY <1>6, <1>7 DEF starts, Lists

\* The slots that a search ends with are slots it has found.
LEMMA BestSlotsFit ==
  ASSUME foundSlots \in Seq(Entries), job.maxSlots \in Nat,
         NEW best, best = Search!UpTo(Search!Sorted(foundSlots, Search!BetterSlot), job.maxSlots)
  PROVE  [n \in DOMAIN best |-> best[n].slot] \in Seq(FitSlots)
<1> DEFINE n == Len(foundSlots)
           D == DOMAIN foundSlots
           Better(i, j) ==
             \/ foundSlots[i].score > foundSlots[j].score
             \/ /\ foundSlots[i].score = foundSlots[j].score
                /\ foundSlots[i].slot.start < foundSlots[j].slot.start
           Before(i, j) == Better(i, j) \/ (~Better(j, i) /\ i < j)
           R == {p \in D \X D : Before(p[1], p[2])}
           places == {<<i, Search!Cardinality({j \in D : Before(j, i)})>> : i \in D}
           place == [k \in D |-> (CHOOSE p \in places : p[2] = k - 1)[1]]
           sorted == [k \in D |-> foundSlots[place[k]]]
<1>1. n \in Nat /\ D = 1 .. n /\ \A i \in D : foundSlots[i] \in Entries
  OBVIOUS
<1>2. Search!Sorted(foundSlots, Search!BetterSlot) = sorted
  <2>1. Search!Sorted(foundSlots, Search!BetterSlot)
          = [k \in D |-> foundSlots[(CHOOSE p \in places : p[2] = k - 1)[1]]]
    BY DEF Search!Sorted, Search!StandsBefore, Search!BetterSlot
  <2> HIDE DEF places, D
  <2> QED BY <2>1
<1> HIDE DEF D
<1>3. place \in [D -> D]
  <2>1. \A i \in D : foundSlots[i].score \in Int /\ foundSlots[i].slot.start \in Int
    BY <1>1 DEF Entries, FitSlots, SlotType
  <2>2. \A x \in D : ~Before(x, x)
    BY <1>1, <2>1
  <2>3. \A x, y \in D : x # y => Before(x, y) \/ Before(y, x)
    BY <1>1
  <2>4. \A x, y, z \in D : Before(x, y) /\ Before(y, z) => Before(x, z)
    BY <1>1, <2>1
  <2> HIDE DEF Before
  <2>5. \A x, y \in D : <<x, y>> \in R <=> Before(x, y)
    OBVIOUS
  <2>6. places = PlacesOf(n, R)
    <3>1. \A i \in D : {j \in D : Before(j, i)} = {j \in 1 .. n : <<j, i>> \in R}
      BY <1>1, <2>5
    <3>2. \A i \in D : Search!Cardinality({j \in D : Before(j, i)})
                       = Cardinality({j \in 1 .. n : <<j, i>> \in R})
      BY <3>1, SameCardinality
    <3> HIDE DEF n, R
    <3> QED BY <1>1, <3>2 DEF PlacesOf
  <2> HIDE DEF R, places
  <2>7. place = [k \in 1 .. n |-> (CHOOSE p \in PlacesOf(n, R) : p[2] = k - 1)[1]]
    BY <1>1, <2>6
  <2>8. /\ \A x \in 1 .. n : <<x, x>> \notin R
        /\ \A x, y \in 1 .. n : x # y => <<x, y>> \in R \/ <<y, x>> \in R
        /\ \A x, y, z \in 1 .. n : <<x, y>> \in R /\ <<y, z>> \in R => <<x, z>> \in R
    BY <1>1, <2>2, <2>3, <2>4, <2>5
  <2> HIDE DEF place, n
  <2>9. place \in [1 .. n -> 1 .. n]
    BY <1>1, <2>7, <2>8, Placed
  <2> QED BY <1>1, <2>9
<1> HIDE DEF place
<1>4. sorted \in Seq(Entries) /\ Len(sorted) = n
  BY <1>1, <1>3
<1> HIDE DEF sorted
<1>5. best \in Seq(Entries)
  <2>1. best = SubSeq(sorted, 1, IF n < job.maxSlots THEN n ELSE job.maxSlots)
    BY <1>2, <1>4 DEF Search!UpTo
  <2> HIDE DEF n
  <2> QED BY <1>1, <1>4, <2>1, SubSeqProperties
<1>6. \A k \in DOMAIN best : best[k].slot \in FitSlots
  <2> TAKE k \in DOMAIN best
  <2>1. best[k] \in Entries
    BY <1>5
  <2> QED BY <2>1 DEF Entries
<1> QED BY <1>5, <1>6

\* What an evaluation can have known of the calendars.
KnownOf(p) == {<<>>, [u \in {p.student, p.instructor} |-> calendars[u]]}

\* The rejections of such slots.
Rejections == UNION {{[proposal |-> p, availability |-> a] : a \in KnownOf(p)} : p \in FitSlots}

\* So many days after the job has begun.
After(days) == Search!JobNow + days * DayLength

\* A candidate: an instructor and a start.
At(i, t) == [instructor |-> i, start |-> t]

\* What is certain whatever happens to the calendars.
SearchBasics ==
  /\ IsJob(job)
  /\ Instructors \subseteq DOMAIN calendars /\ \A u \in DOMAIN calendars : IsCalendar(calendars[u])
  /\ job.kind = "next_lesson" => pc \in {"plan", "search", "evaluate", "done"}
  /\ job.kind = "reschedule" => pc \in {"search", "done"}
  /\ job.kind \in {"waitlist", "scan"} => pc \in {"scan", "rank", "evaluate", "done"}
  /\ pc = "plan" => /\ searchDays = job.initialDays
                    /\ foundSlots = <<>> /\ queue = <<>> /\ rejected = <<>>
  /\ searchDays \in Nat /\ searchDays >= job.initialDays

\* Every start up to the end of the last window is found, or taken.
Exhausted ==
  /\ job.incrementDays <= job.initialDays /\ ~unclear
  /\ searchDays > job.initialDays /\ Len(foundSlots) < job.maxSlots
  => \A i \in job.instructors :
       \A t \in Search!CandidateStarts(calendars[i], After(0),
                                       After(searchDays - job.incrementDays), job.duration) :
         Seen(foundSlots, At(i, t)) \/ Taken(At(i, t), events)

\* The slots and proposals come from the calendars.
FromCalendars ==
  /\ foundSlots \in Seq(Entries)
  /\ job.kind = "next_lesson" => queue \in Seq(FitSlots) /\ rejected \in Seq(Rejections)

\* The inductive invariant: as long as nobody edits a calendar, what is found
\* comes from the calendars and exhausts them.
SearchInv == SearchBasics /\ (~edited => FromCalendars /\ Exhausted)

\* No job has searched when it begins.
LEMMA SearchInitially == Search!Init => SearchInv
<1> SUFFICES ASSUME Search!Init PROVE SearchInv
  OBVIOUS
<1>1. /\ job \in Jobs /\ calendars \in UserCalendars /\ searchDays = job.initialDays
      /\ foundSlots = <<>> /\ queue = <<>> /\ rejected = <<>>
      /\ pc = CASE job.kind = "next_lesson" -> "plan"
                [] job.kind = "reschedule"  -> "search"
                [] job.kind = "waitlist"    -> "rank"
                [] job.kind = "scan"        -> "scan"
  BY DEF Search!Init
<1>2. IsJob(job) /\ job.initialDays \in Nat
  BY <1>1, SearchAssumption DEF IsJob
<1>3. Instructors \subseteq DOMAIN calendars /\ \A u \in DOMAIN calendars : IsCalendar(calendars[u])
  BY <1>1, SearchAssumption
<1>4. SearchBasics
  BY <1>1, <1>2, <1>3 DEF SearchBasics
<1>5. FromCalendars
  BY <1>1 DEF FromCalendars
<1>6. Exhausted
  BY <1>1, <1>2 DEF Exhausted
<1> QED BY <1>4, <1>5, <1>6 DEF SearchInv

\* The starts that a window from one day to another has.
StartBetween(t, calendar, from, to, duration) ==
  /\ t >= After(from)
  /\ \E d \in from .. to : \E w \in Search!WindowsOn(calendar, d) :
       \E m \in Search!StartsIn(w, duration) : t = d * DayLength + m

\* The candidate starts of a window of whole days are those between them.
LEMMA StartsOfWindow ==
  ASSUME NEW calendar, NEW from \in Nat, NEW to \in Nat, from <= to, NEW duration, NEW t
  PROVE  t \in Search!CandidateStarts(calendar, After(from), After(to), duration)
           <=> StartBetween(t, calendar, from, to, duration)
<1> DEFINE ws == 480 + from * 1440
           we == 480 + to * 1440
<1>1. ws \div 1440 = from /\ from + (we - ws) \div 1440 = to
  OBVIOUS
<1>2. After(from) = ws /\ After(to) = we
  BY DEF After, Search!JobNow, DayLength
<1>3. Search!DateOf(ws) = from
  BY <1>1 DEF Search!DateOf, Search!DayLength
<1>4. from + (we - ws) \div Search!DayLength = to /\ Search!DayLength = DayLength
  BY <1>1 DEF Search!DayLength, DayLength
<1> HIDE DEF ws, we
<1>5. t \in Search!CandidateStarts(calendar, ws, we, duration)
        <=> /\ \E d \in from .. to : \E w \in Search!WindowsOn(calendar, d) :
                 \E m \in Search!StartsIn(w, duration) : t = d * DayLength + m
            /\ t >= ws
  BY <1>3, <1>4 DEF Search!CandidateStarts
<1> QED BY <1>2, <1>5 DEF StartBetween

\* One window more.
LEMMA SearchWindowKeeps ==
  ASSUME SearchInv, Search!SearchWindow PROVE SearchInv'
<1> DEFINE ws == Search!WindowStart
           we == Search!WindowEnd
<1>1. /\ pc = "search" /\ SearchBasics /\ (~edited => FromCalendars /\ Exhausted)
      /\ searchDays' = searchDays + job.incrementDays
      /\ UNCHANGED <<job, ahead, pc, queue, answers, offered, rejected, events, calendars, edited>>
  BY DEF SearchInv, Search!SearchWindow, Search!Searching, Search!environment
<1>2. PICK order \in Search!SetToSeqs(job.instructors), answered \in BOOLEAN :
        /\ foundSlots' = AddAll(foundSlots, Search!CandidatesOf(order, ws, we),
                                IF answered THEN Search!Fetched(ws, we) ELSE {}, we)
        /\ unclear' = (unclear \/ ~answered)
  BY DEF Search!SearchWindow, AddAll
<1>3. /\ searchDays \in Nat /\ job.initialDays \in Nat /\ searchDays >= job.initialDays
      /\ job.incrementDays \in Nat \ {0} /\ job.duration \in Nat \ {0} /\ job.maxSlots \in Nat
      /\ job.instructors \subseteq Instructors
      /\ \A u \in Instructors : IsCalendar(calendars[u])
  BY <1>1 DEF SearchBasics, IsJob
<1>4. SearchBasics'
  <2>1. searchDays' \in Nat /\ searchDays' >= job.initialDays
    BY <1>1, <1>3
  <2> QED BY <1>1, <2>1 DEF SearchBasics
<1> SUFFICES ASSUME ~edited PROVE (FromCalendars /\ Exhausted)'
  BY <1>1, <1>4 DEF SearchInv
<1> DEFINE from == searchDays - job.initialDays
<1>5. /\ from \in Nat /\ from + job.initialDays = searchDays
      /\ ws = After(from) /\ we = After(searchDays)
      /\ ws \in Nat /\ we \in Nat
  <2>1. from \in Nat /\ from + job.initialDays = searchDays
    BY <1>3
  <2>2. ws = After(from) /\ we = After(searchDays)
    BY DEF After, Search!WindowStart, Search!WindowEnd, Search!DayLength, DayLength
  <2> HIDE DEF from
  <2> QED BY <1>3, <2>1, <2>2 DEF After, Search!JobNow, DayLength
<1> DEFINE list == Search!CandidatesOf(order, ws, we)
           booked == IF answered THEN Search!Fetched(ws, we) ELSE {}
<1>12. list = Search!CandidatesOf(order, ws, we)
  OBVIOUS
<1>13. foundSlots' = AddAll(foundSlots, list, booked, we)
  BY <1>2
<1>7. answered => booked \subseteq events
  BY DEF Search!Fetched
<1> HIDE DEF ws, we, from, list, booked
<1>6. list \in Seq(Candidates) /\ Lists(list, ws, we)
  BY <1>3, <1>5, <1>12, CandidatesListed
<1>8. foundSlots \in Seq(Entries) /\ Exhausted
  BY <1>1 DEF FromCalendars
<1>9. /\ foundSlots' \in Seq(Entries)
      /\ Len(foundSlots') >= Len(foundSlots)
      /\ \A y : Seen(foundSlots, y) => Seen(foundSlots', y)
      /\ \A j \in DOMAIN list : Processed(foundSlots', list[j], booked)
  <2>1. we \in Int
    BY <1>5
  <2> QED BY <1>3, <1>6, <1>8, <1>13, <2>1, Folded
<1>10. FromCalendars'
  <2>1. Entries' = Entries /\ FitSlots' = FitSlots /\ Rejections' = Rejections
    BY <1>1 DEF Entries, FitSlots, SlotType, Fitting, Rejections, KnownOf, Search!WindowsOn
  <2> QED BY <1>1, <1>9, <2>1 DEF FromCalendars
<1>11. Exhausted'
  <2> SUFFICES ASSUME job.incrementDays <= job.initialDays, ~unclear',
                      Len(foundSlots') < job.maxSlots, NEW i \in job.instructors,
                      NEW t \in Search!CandidateStarts(calendars[i], After(0),
                                              After(searchDays' - job.incrementDays), job.duration)
               PROVE  Seen(foundSlots', At(i, t)) \/ Taken(At(i, t), events)
    <3>1. \A i, t : Taken(At(i, t), events)' = Taken(At(i, t), events)
      <4>1. \A e : Search!AsRead(e)' = Search!AsRead(e)
        BY <1>1 DEF Search!AsRead
      <4>2. \A i, a, t : Search!Slot(i, a, t)' = Search!Slot(i, a, t)
        BY <1>1 DEF Search!Slot
      <4> QED BY <1>1, <4>1, <4>2 DEF Taken, At, Search!HasConflict
    <3>2. \A i, t : Seen(foundSlots, At(i, t))' <=> Seen(foundSlots', At(i, t))
      BY DEF Seen, At
    <3>3. \A c, a, b, n : Search!CandidateStarts(c, a, b, n)' = Search!CandidateStarts(c, a, b, n)
      BY DEF Search!CandidateStarts, Search!WindowsOn
    <3>4. \A n : After(n)' = After(n)
      BY DEF After, Search!JobNow
    <3> QED BY <1>1, <3>1, <3>2, <3>3, <3>4 DEF Exhausted
  <2>1. searchDays' - job.incrementDays = searchDays /\ ~unclear /\ answered
    <3>1. ~unclear /\ answered
      BY <1>2, Zenon
    <3> QED BY <1>1, <1>3, <3>1
  <2>2. Len(foundSlots) < job.maxSlots
    <3>1. Len(foundSlots) \in Nat /\ Len(foundSlots') \in Nat
      BY <1>8, <1>9
    <3> QED BY <1>3, <1>9, <3>1
  <2>3. StartBetween(t, calendars[i], 0, searchDays, job.duration)
    BY <1>3, <2>1, StartsOfWindow
  <2>4. PICK d \in 0 .. searchDays : \E w \in Search!WindowsOn(calendars[i], d) :
          \E m \in Search!StartsIn(w, job.duration) : t = d * DayLength + m
    BY <2>3 DEF StartBetween
  <2>5. PICK w \in Search!WindowsOn(calendars[i], d), m \in Nat : t = d * DayLength + m
    <3>1. PICK w \in Search!WindowsOn(calendars[i], d) :
            \E m \in Search!StartsIn(w, job.duration) : t = d * DayLength + m
      BY <2>4
    <3>2. w.from \in Nat
      BY <1>3 DEF IsCalendar, IsWindow, Search!WindowsOn
    <3>3. \A m \in Search!StartsIn(w, job.duration) : m \in Nat
      BY <3>2 DEF Search!StartsIn
    <3> QED BY <3>1, <3>3
  <2>6. CASE searchDays > job.initialDays /\ d <= searchDays - job.incrementDays
    <3> DEFINE days == searchDays - job.incrementDays
    <3>1. days \in Nat /\ d \in 0 .. days
      BY <1>3, <2>6
    <3> HIDE DEF days
    <3>2. StartBetween(t, calendars[i], 0, days, job.duration)
      BY <2>3, <2>4, <3>1 DEF StartBetween
    <3>3. t \in Search!CandidateStarts(calendars[i], After(0), After(days), job.duration)
      BY <3>1, <3>2, StartsOfWindow
    <3>4. t \in Search!CandidateStarts(calendars[i], After(0),
                                      After(searchDays - job.incrementDays), job.duration)
      BY <3>3 DEF days
    <3>5. Seen(foundSlots, At(i, t)) \/ Taken(At(i, t), events)
      BY <1>8, <2>1, <2>2, <2>6, <3>4 DEF Exhausted
    <3> QED BY <1>9, <3>5
  <2>7. CASE searchDays = job.initialDays \/ d > searchDays - job.incrementDays
    <3>1. d \in from .. (from + job.initialDays)
      BY <1>3, <1>5, <2>7 DEF from
    <3>2. t >= After(from)
      <4>1. CASE from = 0
        BY <2>3, <4>1 DEF StartBetween
      <4>2. CASE from # 0
        <5>1. d >= from + 1
          BY <1>3, <1>5, <2>7, <4>2 DEF from
        <5>2. t = d * 1440 + m /\ m \in Nat /\ d \in Nat
          BY <2>5 DEF DayLength
        <5> QED BY <1>5, <5>1, <5>2 DEF After, Search!JobNow, DayLength
      <4> QED BY <4>1, <4>2
    <3>9. StartBetween(t, calendars[i], from, searchDays, job.duration)
      BY <1>5, <2>4, <3>1, <3>2 DEF StartBetween
    <3>3. t \in Search!CandidateStarts(calendars[i], ws, we, job.duration)
      <4>1. from <= searchDays
        BY <1>3 DEF from
      <4> QED BY <1>3, <1>5, <3>9, <4>1, StartsOfWindow
    <3>4. PICK k \in DOMAIN list : list[k].instructor = i /\ list[k].start = t
      BY <1>6, <3>3 DEF Lists
    <3>5. Processed(foundSlots', list[k], booked)
      BY <1>9
    <3>6. Len(foundSlots') \in Nat
      BY <1>9
    <3>7. CASE Seen(foundSlots', list[k])
      BY <3>4, <3>7 DEF Seen, At
    <3>8. CASE Taken(list[k], booked)
      <4>1. booked \subseteq events
        BY <1>7, <2>1
      <4> QED BY <3>4, <3>8, <4>1 DEF Taken, At, Search!HasConflict
    <3> QED BY <1>3, <3>5, <3>6, <3>7, <3>8 DEF Processed
  <2> QED BY <1>3, <2>6, <2>7
<1> QED BY <1>10, <1>11

\* What the slots and proposals are made of stays.
LEMMA SlotsStay ==
  ASSUME calendars' = calendars, job'.student = job.student,
         job'.instructors = job.instructors, job'.activity = job.activity
  PROVE  Entries' = Entries /\ FitSlots' = FitSlots /\ Rejections' = Rejections
BY DEF Entries, FitSlots, SlotType, Fitting, Rejections, KnownOf, Search!WindowsOn

\* What a search has exhausted stays so, whoever books.
LEMMA ExhaustedStays ==
  ASSUME Exhausted, UNCHANGED <<calendars, ahead, searchDays, foundSlots, unclear>>,
         events \subseteq events',
         job'.instructors = job.instructors, job'.duration = job.duration,
         job'.maxSlots = job.maxSlots, job'.initialDays = job.initialDays,
         job'.incrementDays = job.incrementDays,
         job'.student = job.student, job'.activity = job.activity
  PROVE  Exhausted'
<1>1. \A e : Search!AsRead(e)' = Search!AsRead(e)
  BY DEF Search!AsRead
<1>2. \A i, a, t : Search!Slot(i, a, t)' = Search!Slot(i, a, t)
  BY DEF Search!Slot
<1>3. \A i, t : Taken(At(i, t), events) => Taken(At(i, t), events)'
  BY <1>1, <1>2 DEF Taken, At, Search!HasConflict
<1>4. \A i, t : Seen(foundSlots, At(i, t))' <=> Seen(foundSlots, At(i, t))
  BY DEF Seen, At
<1>5. \A c, a, b, n : Search!CandidateStarts(c, a, b, n)' = Search!CandidateStarts(c, a, b, n)
  BY DEF Search!CandidateStarts, Search!WindowsOn
<1>6. \A n : After(n)' = After(n)
  BY DEF After, Search!JobNow
<1> QED BY <1>3, <1>4, <1>5, <1>6 DEF Exhausted

\* The best slots of those found become the proposals.
LEMMA EndSearchKeeps ==
  ASSUME SearchInv, Search!EndSearch PROVE SearchInv'
<1> DEFINE best == Search!UpTo(Search!Sorted(foundSlots, Search!BetterSlot), job.maxSlots)
           fitting == [n \in DOMAIN best |-> best[n].slot]
<1>1. /\ pc = "search" /\ SearchBasics /\ (~edited => FromCalendars /\ Exhausted)
      /\ UNCHANGED <<job, ahead, rejected, events, calendars, edited, searchDays, foundSlots, unclear>>
  BY DEF SearchInv, Search!EndSearch, Search!environment, Search!search
<1>2. \/ job.kind = "reschedule" /\ queue' = <<>> /\ pc' = "done"
      \/ job.kind # "reschedule" /\ queue' = fitting /\ pc' = "evaluate"
  BY DEF Search!EndSearch
<1>3. SearchBasics'
  BY <1>1, <1>2 DEF SearchBasics, IsJob
<1> SUFFICES ASSUME ~edited PROVE (FromCalendars /\ Exhausted)'
  BY <1>1, <1>3 DEF SearchInv
<1>4. foundSlots \in Seq(Entries) /\ job.maxSlots \in Nat
  BY <1>1 DEF FromCalendars, SearchBasics, IsJob
<1>5. fitting \in Seq(FitSlots)
  <2>1. best = Search!UpTo(Search!Sorted(foundSlots, Search!BetterSlot), job.maxSlots)
    OBVIOUS
  <2> HIDE DEF best
  <2> QED BY <1>4, <2>1, BestSlotsFit
<1> HIDE DEF fitting
<1>6. Exhausted'
  BY <1>1, ExhaustedStays
<1>7. FromCalendars'
  BY <1>1, <1>2, <1>5, SlotsStay DEF FromCalendars
<1> QED BY <1>6, <1>7

\* A plan begins a search that has found nothing.
LEMMA PlanNextLessonKeeps ==
  ASSUME SearchInv, Search!PlanNextLesson PROVE SearchInv'
<1>1. /\ pc = "plan" /\ SearchBasics
      /\ UNCHANGED <<queue, rejected, calendars, edited, searchDays, foundSlots>>
  BY DEF SearchInv, Search!PlanNextLesson, Search!environment, Search!search
<1>2. /\ searchDays = job.initialDays /\ foundSlots = <<>> /\ queue = <<>> /\ rejected = <<>>
      /\ IsJob(job) /\ job.kind = "next_lesson"
  BY <1>1 DEF SearchBasics, IsJob
<1>3. /\ IsJob(job') /\ job'.kind = job.kind /\ job'.initialDays = job.initialDays
      /\ pc' \in {"done", "search"}
  <2>1. CASE pc' = "done" /\ UNCHANGED job
    BY <1>2, <2>1
  <2>2. CASE ~(pc' = "done" /\ UNCHANGED job)
    <3>6. PICK event \in Search!NextEvents(job.progress, job.schedulable) :
            \E first \in Search!Preferred(event) :
              /\ job' = [job EXCEPT
                   !.instructors = IF Search!Allowed(event) = {} THEN Instructors ELSE Search!Allowed(event),
                   !.instructor = first, !.aircraft = Aircraft[1],
                   !.activity = event.activity, !.duration = event.duration]
              /\ pc' = "search"
      BY <2>2 DEF Search!PlanNextLesson
    <3>1. PICK first \in Search!Preferred(event) :
            /\ job' = [job EXCEPT
                 !.instructors = IF Search!Allowed(event) = {} THEN Instructors ELSE Search!Allowed(event),
                 !.instructor = first, !.aircraft = Aircraft[1],
                 !.activity = event.activity, !.duration = event.duration]
            /\ pc' = "search"
      BY <3>6
    <3>2. event \in job.schedulable
      BY <3>6 DEF Search!NextEvents
    <3>3. event.duration \in Nat \ {0}
      BY <1>2, <3>2 DEF IsJob
    <3>4. Search!Allowed(event) \subseteq Instructors
      BY DEF Search!Allowed
    <3>5. /\ DOMAIN job' = GenerationJobFields /\ job'.kind = job.kind
          /\ job'.instructors \subseteq Instructors /\ job'.duration = event.duration
          /\ job'.initialDays = job.initialDays /\ job'.incrementDays = job.incrementDays
          /\ job'.maxSlots = job.maxSlots /\ job'.schedulable = job.schedulable
          /\ job'.candidates = job.candidates
      BY <1>2, <3>1, <3>4 DEF IsJob, GenerationJobFields
    <3> QED BY <1>2, <3>1, <3>3, <3>5 DEF IsJob
  <2> QED BY <2>1, <2>2
<1>4. SearchBasics'
  BY <1>1, <1>2, <1>3 DEF SearchBasics
<1>5. FromCalendars'
  BY <1>1, <1>2 DEF FromCalendars
<1>6. Exhausted'
  BY <1>1, <1>2, <1>3 DEF Exhausted, SearchBasics, IsJob
<1> QED BY <1>4, <1>5, <1>6 DEF SearchInv

\* A rejected proposal is kept with what was known of the calendars.
LEMMA EvaluateNextKeeps ==
  ASSUME SearchInv, Search!EvaluateNext PROVE SearchInv'
<1> DEFINE p == Head(queue)
<1>1. /\ pc = "evaluate" /\ queue # <<>> /\ SearchBasics /\ (~edited => FromCalendars /\ Exhausted)
      /\ queue' = Tail(queue)
      /\ UNCHANGED <<job, ahead, pc, events, calendars, edited, searchDays, foundSlots, unclear>>
  BY DEF SearchInv, Search!EvaluateNext, Search!environment, Search!search
<1>2. \/ UNCHANGED rejected
      \/ \E a \in Search!KnownAvailability(p) :
           rejected' = Append(rejected, [proposal |-> p, availability |-> a])
  BY DEF Search!EvaluateNext
<1>3. SearchBasics'
  BY <1>1 DEF SearchBasics
<1> SUFFICES ASSUME ~edited PROVE (FromCalendars /\ Exhausted)'
  BY <1>1, <1>3 DEF SearchInv
<1>4. Exhausted'
  BY <1>1, ExhaustedStays
<1>5. ASSUME job.kind = "next_lesson"
      PROVE  queue' \in Seq(FitSlots) /\ rejected' \in Seq(Rejections)
  <2>1. queue \in Seq(FitSlots) /\ rejected \in Seq(Rejections)
    BY <1>1, <1>5 DEF FromCalendars
  <2>2. p \in FitSlots /\ queue' \in Seq(FitSlots)
    BY <1>1, <2>1
  <2> HIDE DEF p
  <2>3. Search!KnownAvailability(p) = KnownOf(p)
    BY <1>5 DEF Search!KnownAvailability, KnownOf
  <2>4. \A a \in KnownOf(p) : [proposal |-> p, availability |-> a] \in Rejections
    BY <2>2 DEF Rejections
  <2>5. rejected' \in Seq(Rejections)
    <3>1. CASE UNCHANGED rejected
      BY <2>1, <3>1
    <3>2. CASE ~UNCHANGED rejected
      <4>1. PICK a \in KnownOf(p) : rejected' = Append(rejected, [proposal |-> p, availability |-> a])
        BY <1>2, <2>3, <3>2 DEF p
      <4> DEFINE r == [proposal |-> p, availability |-> a]
      <4>2. r \in Rejections
        BY <2>4
      <4> HIDE DEF r
      <4>3. rejected' = Append(rejected, r)
        BY <4>1 DEF r
      <4> QED BY <2>1, <4>2, <4>3, AppendProperties
    <3> QED BY <3>1, <3>2
  <2> QED BY <2>2, <2>5
<1>6. FromCalendars'
  BY <1>1, <1>5, SlotsStay DEF FromCalendars
<1> QED BY <1>4, <1>6

\* The steps that leave the slots and the proposals alone.
LEMMA QuietSearchKeeps ==
  ASSUME SearchInv,
         \/ Search!SkipWindow \/ Search!ScanForOpenings \/ Search!RankCandidates
         \/ Search!EndEvaluation \/ \E e \in NewEvents : Search!Book(e)
         \/ \E u \in job.instructors \cup {job.student}, c \in Calendars : Search!EditCalendar(u, c)
         \/ UNCHANGED searchVars
  PROVE  SearchInv'
<1>1. SearchBasics /\ (~edited => FromCalendars /\ Exhausted) /\ IsJob(job)
  BY DEF SearchInv, SearchBasics
<1>2. CASE Search!SkipWindow
  <2>1. /\ searchDays' = searchDays + job.incrementDays /\ unclear' = TRUE
        /\ UNCHANGED <<job, pc, foundSlots, queue, rejected, calendars, edited>>
    BY <1>2 DEF Search!SkipWindow, Search!environment
  <2>2. SearchBasics'
    <3>1. pc = "search"
      BY <1>2 DEF Search!SkipWindow, Search!Searching
    <3>2. searchDays' \in Nat /\ searchDays' >= job.initialDays
      <4>1. /\ searchDays \in Nat /\ job.incrementDays \in Nat /\ job.initialDays \in Nat
            /\ searchDays >= job.initialDays
        BY <1>1 DEF SearchBasics, IsJob
      <4> QED BY <2>1, <4>1
    <3> QED BY <1>1, <2>1, <3>1, <3>2 DEF SearchBasics
  <2>3. FromCalendars => FromCalendars'
    BY <2>1, SlotsStay DEF FromCalendars
  <2>4. Exhausted'
    BY <2>1 DEF Exhausted
  <2> QED BY <1>1, <2>1, <2>2, <2>3, <2>4 DEF SearchInv
<1>3. CASE Search!ScanForOpenings
  <2>1. /\ pc = "scan" /\ pc' \in {"done", "rank"}
        /\ UNCHANGED <<ahead, queue, rejected, events, calendars, edited, searchDays, foundSlots, unclear>>
    BY <1>3 DEF Search!ScanForOpenings, Search!environment, Search!search
  <2>2. /\ DOMAIN job' = DOMAIN job
        /\ \A f \in DOMAIN job \ {"opening"} : job'[f] = job[f]
    BY <1>3 DEF Search!ScanForOpenings
  <2>3. /\ IsJob(job') /\ job'.kind = job.kind
        /\ job'.instructors = job.instructors /\ job'.duration = job.duration
        /\ job'.maxSlots = job.maxSlots /\ job'.initialDays = job.initialDays
        /\ job'.incrementDays = job.incrementDays
        /\ job'.student = job.student /\ job'.activity = job.activity
    <3>1. DOMAIN job = GenerationJobFields
      BY <1>1 DEF IsJob
    <3>2. \A f \in GenerationJobFields \ {"opening"} : job'[f] = job[f]
      BY <2>2, <3>1
    <3>3. /\ job'.kind = job.kind /\ job'.schedulable = job.schedulable
          /\ job'.candidates = job.candidates
          /\ job'.instructors = job.instructors /\ job'.duration = job.duration
          /\ job'.maxSlots = job.maxSlots /\ job'.initialDays = job.initialDays
          /\ job'.incrementDays = job.incrementDays
          /\ job'.student = job.student /\ job'.activity = job.activity
      BY <3>2 DEF GenerationJobFields
    <3> QED BY <1>1, <2>2, <3>1, <3>3 DEF IsJob
  <2>4. SearchBasics'
    BY <1>1, <2>1, <2>3 DEF SearchBasics
  <2>5. FromCalendars => FromCalendars'
    BY <2>1, <2>3, SlotsStay DEF FromCalendars
  <2>6. Exhausted => Exhausted'
    BY <2>1, <2>3, ExhaustedStays
  <2> QED BY <1>1, <2>1, <2>4, <2>5, <2>6 DEF SearchInv
<1>4. CASE Search!RankCandidates \/ Search!EndEvaluation
  <2>1. /\ \/ pc = "rank" /\ pc' = "evaluate"
           \/ pc = "evaluate" /\ pc' = "done" /\ UNCHANGED queue
        /\ UNCHANGED <<job, ahead, rejected, events, calendars, edited, searchDays, foundSlots, unclear>>
    BY <1>4 DEF Search!RankCandidates, Search!EndEvaluation, Search!environment, Search!search
  <2>2. SearchBasics'
    BY <1>1, <2>1 DEF SearchBasics, IsJob
  <2>3. FromCalendars => FromCalendars'
    BY <1>1, <2>1, SlotsStay DEF FromCalendars, SearchBasics
  <2>4. Exhausted => Exhausted'
    BY <2>1, ExhaustedStays
  <2> QED BY <1>1, <2>1, <2>2, <2>3, <2>4 DEF SearchInv
<1>5. CASE (\E e \in NewEvents : Search!Book(e)) \/ UNCHANGED searchVars
  <2>1. /\ events \subseteq events'
        /\ UNCHANGED <<job, ahead, pc, queue, rejected, calendars, edited, searchDays, foundSlots, unclear>>
    BY <1>5 DEF Search!Book, Search!search, searchVars
  <2>2. SearchBasics'
    BY <1>1, <2>1 DEF SearchBasics
  <2>3. FromCalendars => FromCalendars'
    BY <2>1, SlotsStay DEF FromCalendars
  <2>4. Exhausted => Exhausted'
    BY <2>1, ExhaustedStays
  <2> QED BY <1>1, <2>1, <2>2, <2>3, <2>4 DEF SearchInv
<1>6. CASE \E u \in job.instructors \cup {job.student}, c \in Calendars : Search!EditCalendar(u, c)
  <2>6. PICK u \in job.instructors \cup {job.student}, c \in Calendars : Search!EditCalendar(u, c)
    BY <1>6
  <2>1. calendars' = [calendars EXCEPT ![u] = c]
    BY <2>6 DEF Search!EditCalendar
  <2>2. /\ edited' = TRUE
        /\ UNCHANGED <<job, ahead, pc, queue, rejected, searchDays, foundSlots, unclear>>
    BY <1>6 DEF Search!EditCalendar, Search!search
  <2>3. IsCalendar(c)
    BY SearchAssumption
  <2>4. Instructors \subseteq DOMAIN calendars' /\ \A v \in DOMAIN calendars' : IsCalendar(calendars'[v])
    BY <1>1, <2>1, <2>3 DEF SearchBasics
  <2>5. SearchBasics'
    BY <1>1, <2>2, <2>4 DEF SearchBasics
  <2> QED BY <2>2, <2>5 DEF SearchInv
<1> QED BY <1>2, <1>3, <1>4, <1>5, <1>6

\* A behaviour about the search steps as the search does.
LEMMA SearchMove == [Next]_vars /\ scene = "search" => [Search!Next]_searchVars
BY DEF Next, vars, SearchStep, DiscoveryStep, EnrichmentStep, NotificationStep

\* Every step of the search keeps the invariant.
LEMMA SearchStepKeeps == SearchInv /\ [Search!Next]_searchVars => SearchInv'
<1> SUFFICES ASSUME SearchInv, [Search!Next]_searchVars PROVE SearchInv'
  OBVIOUS
<1>1. CASE Search!SearchWindow
  BY <1>1, SearchWindowKeeps
<1>2. CASE Search!EndSearch
  BY <1>2, EndSearchKeeps
<1>3. CASE Search!PlanNextLesson
  BY <1>3, PlanNextLessonKeeps
<1>4. CASE Search!EvaluateNext
  BY <1>4, EvaluateNextKeeps
<1>5. CASE ~(Search!SearchWindow \/ Search!EndSearch \/ Search!PlanNextLesson \/ Search!EvaluateNext)
  BY <1>5, QuietSearchKeeps DEF Search!Next
<1> QED BY <1>1, <1>2, <1>3, <1>4, <1>5

\* The invariant holds throughout a search scene.
LEMMA SearchIsInductive == Spec => [](scene = "search" => SearchInv)
<1>1. Init => (scene = "search" => SearchInv)
  BY SearchInitially DEF Init
<1>2. (scene = "search" => SearchInv) /\ [Next]_vars => (scene = "search" => SearchInv)'
  BY SceneStays, SearchMove, SearchStepKeeps
<1> QED BY <1>1, <1>2, PTL DEF Spec

\* The progressive windows miss nothing: a search that has ended without its
\* maximum of slots has found, or seen to be taken, every start of every
\* calendar from now to the end of its last window.
THEOREM SearchesAreExhaustive == Spec => []SearchIsExhaustive
<1>1. SearchInv => Search!SearchIsExhaustive
  <2> SUFFICES ASSUME SearchInv, searchDays > job.initialDays, job.incrementDays <= job.initialDays,
                      ~unclear, ~edited, Len(foundSlots) < job.maxSlots,
                      NEW i \in job.instructors,
                      NEW t \in Search!CandidateStarts(calendars[i], Search!JobNow,
                                  Search!JobNow + (searchDays - job.incrementDays) * Search!DayLength,
                                  job.duration)
               PROVE  \/ \A n \in DOMAIN Aircraft :
                           Search!HasConflict(Search!Slot(i, Aircraft[n], t), events)
                      \/ \E n \in DOMAIN foundSlots : /\ foundSlots[n].slot.start = t
                                                      /\ foundSlots[n].slot.instructor = i
    BY DEF Search!SearchIsExhaustive
  <2>1. Exhausted
    BY DEF SearchInv
  <2>2. /\ After(0) = Search!JobNow
        /\ After(searchDays - job.incrementDays)
             = Search!JobNow + (searchDays - job.incrementDays) * Search!DayLength
    BY DEF After, Search!JobNow, DayLength, Search!DayLength
  <2>3. t \in Search!CandidateStarts(calendars[i], After(0), After(searchDays - job.incrementDays),
                                     job.duration)
    BY <2>2
  <2>4. Seen(foundSlots, At(i, t)) \/ Taken(At(i, t), events)
    BY <2>1, <2>3 DEF Exhausted
  <2> QED BY <2>4 DEF Seen, Taken, At
<1> QED BY <1>1, SearchIsInductive, PTL DEF SearchIsExhaustive

\* The evaluator never turns a slot down for the calendar that the finder took
\* it from.
THEOREM FinderAndEvaluatorAgreed == Spec => []FinderAndEvaluatorAgree
<1>1. SearchInv => Search!FinderAndEvaluatorAgree
  <2> SUFFICES ASSUME SearchInv, job.kind = "next_lesson", ~edited, ahead = 0,
                      NEW n \in DOMAIN rejected, rejected[n].availability # <<>>,
                      Search!DateOf(rejected[n].proposal.start + UtcAhead)
                        = Search!DateOf(rejected[n].proposal.start)
               PROVE  Search!IsUserAvailable(rejected[n].proposal.instructor, rejected[n].proposal,
                                             rejected[n].availability, ahead)
    BY DEF Search!FinderAndEvaluatorAgree
  <2>1. rejected[n] \in Rejections
    BY DEF SearchInv, FromCalendars
  <2>2. PICK p \in FitSlots : \E a \in KnownOf(p) : rejected[n] = [proposal |-> p, availability |-> a]
    BY <2>1 DEF Rejections
  <2> DEFINE a == rejected[n].availability
  <2>3. rejected[n].proposal = p /\ a = [u \in {p.student, p.instructor} |-> calendars[u]]
    BY <2>2 DEF KnownOf
  <2>4. PICK w \in Search!WindowsOn(calendars[p.instructor], DateOf(p.start)) :
          Fits(ClockOf(p.start), ClockOf(p.end), w)
    BY DEF FitSlots, Fitting
  <2>5. p.start \in Int /\ p.end \in Int
    BY DEF FitSlots, SlotType
  <2>6. p.start + ahead = p.start /\ p.end + ahead = p.end
    BY <2>5
  <2>7. p.instructor \in DOMAIN a /\ a[p.instructor] = calendars[p.instructor]
    BY <2>3
  <2>8. Search!DateOf(p.start) = DateOf(p.start) /\ Search!ClockOf(p.start) = ClockOf(p.start)
        /\ Search!ClockOf(p.end) = ClockOf(p.end)
    BY DEF Search!DateOf, DateOf, Search!ClockOf, ClockOf, Search!DayLength, DayLength
  <2>9. Search!Fits(ClockOf(p.start), ClockOf(p.end), w)
    BY <2>4 DEF Search!Fits, Fits
  <2>10. Search!DateOf(p.start + UtcAhead) = DateOf(p.start)
    BY <2>3, <2>8
  <2> HIDE DEF a
  <2>11. Search!IsUserAvailable(p.instructor, p, a, ahead)
    BY <2>4, <2>6, <2>7, <2>8, <2>9, <2>10 DEF Search!IsUserAvailable, Search!WindowsOn
  <2> QED BY <2>3, <2>11 DEF a
<1> QED BY <1>1, SearchIsInductive, PTL DEF FinderAndEvaluatorAgree

--------------------------------------------------------------------------------
(* The waitlist ranking. *)

\* A finite set of numbers has a least and a greatest one.
LEMMA Extremes ==
  ASSUME NEW S \in SUBSET Nat, IsFiniteSet(S), S # {}
  PROVE  /\ Search!Min(S) \in S /\ \A x \in S : Search!Min(S) <= x
         /\ Search!Max(S) \in S /\ \A x \in S : x <= Search!Max(S)
<1>1. Search!Min(S) \in S /\ \A x \in S : Search!Min(S) <= x
  <2>1. \E x \in S : \A y \in S : x <= y
    BY LeastNumber
  <2> QED BY <2>1 DEF Search!Min
<1>2. \E x \in S : \A y \in S : x >= y
  <2> DEFINE R == {p \in S \X S : p[1] < p[2]}
             n == Cardinality(S)
  <2>1. /\ \A x \in S : <<x, x>> \notin R
        /\ \A x, y \in S : x # y => <<x, y>> \in R \/ <<y, x>> \in R
        /\ \A x, y, z \in S : <<x, y>> \in R /\ <<y, z>> \in R => <<x, z>> \in R
        /\ \A x, y \in S : <<x, y>> \in R <=> x < y
    OBVIOUS
  <2>2. n \in Nat /\ n # 0
    BY FS_CardinalityType, FS_EmptySet
  <2> HIDE DEF R
  <2>3. /\ Ranks(S, R) \in [S -> 0 .. (Cardinality(S) - 1)]
        /\ \A x, y \in S : <<x, y>> \in R <=> Ranks(S, R)[x] < Ranks(S, R)[y]
        /\ \A k \in 0 .. (Cardinality(S) - 1) : \E x \in S : Ranks(S, R)[x] = k
    BY <2>1, Ranked
  <2> HIDE DEF n
  <2>4. n - 1 \in 0 .. (n - 1)
    BY <2>2
  <2>5. PICK x \in S : Ranks(S, R)[x] = n - 1
    BY <2>3, <2>4 DEF n
  <2>6. \A y \in S : ~(x < y)
    <3> TAKE y \in S
    <3>1. Ranks(S, R)[y] \in 0 .. (n - 1)
      BY <2>3 DEF n
    <3>2. ~(n - 1 < Ranks(S, R)[y])
      BY <2>2, <3>1
    <3>3. ~(Ranks(S, R)[x] < Ranks(S, R)[y])
      BY <2>5, <3>2
    <3>4. <<x, y>> \notin R
      BY <2>3, <3>3
    <3> QED BY <2>1, <3>4
  <2>7. \A y \in S : x >= y
    BY <2>6
  <2> QED BY <2>7
<1>3. Search!Max(S) \in S /\ \A x \in S : x <= Search!Max(S)
  <2>1. \E x \in S : \A y \in S : x >= y
    BY <1>2
  <2> QED BY <2>1 DEF Search!Max
<1> QED BY <1>1, <1>3

\* The part of a whole that a value has between the extremes.
LEMMA Normalized ==
  ASSUME NEW S \in SUBSET Nat, IsFiniteSet(S), S # {}, NEW part \in Nat \ {0},
         NEW whole, whole = part * Search!Spread(S), NEW v \in S, NEW w \in S
  PROVE  /\ whole \in Nat /\ Search!Spread(S) \in Nat \ {0}
         /\ Search!Normalize(v, S, whole) \in Int
         /\ Search!Normalize(v, S, whole) >= 0 /\ Search!Normalize(v, S, whole) <= whole
         /\ v <= w => Search!Normalize(v, S, whole) <= Search!Normalize(w, S, whole)
         /\ v < w => Search!Normalize(v, S, whole) < Search!Normalize(w, S, whole)
<1> DEFINE min == Search!Min(S)
           max == Search!Max(S)
           s   == Search!Spread(S)
<1>1. /\ min \in Nat /\ max \in Nat /\ min <= v /\ v <= max /\ min <= w /\ w <= max
      /\ v \in Nat /\ w \in Nat
  BY Extremes
<1>2. s = IF max = min THEN 1 ELSE max - min
  BY DEF Search!Spread
<1>3. /\ Search!Normalize(v, S, whole) = IF max = min THEN whole \div 2 ELSE (v - min) * (whole \div s)
      /\ Search!Normalize(w, S, whole) = IF max = min THEN whole \div 2 ELSE (w - min) * (whole \div s)
  BY DEF Search!Normalize
<1> HIDE DEF min, max, s
<1>4. s \in Nat \ {0}
  BY <1>1, <1>2
<1>5. whole \in Nat /\ whole \div s = part
  <2>1. whole = part * s
    BY DEF s
  <2>2. whole \in Nat
    BY <1>4, <2>1
  <2>3. whole \div s = part
    BY <1>4, <2>1
  <2> QED BY <2>2, <2>3
<1>6. CASE max = min
  <2>1. v = w /\ whole \div 2 \in Int /\ whole \div 2 >= 0 /\ whole \div 2 <= whole
    BY <1>1, <1>5, <1>6
  <2> QED BY <1>1, <1>3, <1>4, <1>5, <1>6, <2>1 DEF s
<1>7. CASE max # min
  <2> DEFINE a == v - min
             b == w - min
  <2>1. a \in Nat /\ b \in Nat /\ a <= s /\ (v <= w => a <= b) /\ (v < w => a + 1 <= b)
    BY <1>1, <1>2, <1>7
  <2> HIDE DEF a, b
  <2>2. a * part \in Int /\ a * part >= 0 /\ a * part <= s * part
    BY <1>4, <2>1
  <2>3. a <= b => a * part <= b * part
    BY <2>1
  <2>4. a + 1 <= b => a * part < b * part
    <3> HAVE a + 1 <= b
    <3>1. (a + 1) * part <= b * part
      BY <2>1
    <3>2. (a + 1) * part = a * part + part
      BY <2>1
    <3>3. a * part \in Int /\ b * part \in Int
      BY <2>1
    <3> DEFINE x == a * part
               y == b * part
    <3>4. x + part <= y /\ x \in Int /\ y \in Int
      BY <3>1, <3>2, <3>3
    <3> HIDE DEF x, y
    <3>5. x < y
      BY <3>4
    <3> QED BY <3>5 DEF x, y
  <2>5. s * part = whole
    BY <1>4 DEF s
  <2>6. /\ Search!Normalize(v, S, whole) = a * part
        /\ Search!Normalize(w, S, whole) = b * part
    BY <1>3, <1>5, <1>7 DEF a, b
  <2> QED BY <1>4, <1>5, <2>1, <2>2, <2>3, <2>4, <2>5, <2>6 DEF s
<1> QED BY <1>6, <1>7

\* The score of a candidate under the default weights.
ScoreOf(c, x) == Search!Score(x, c, Search!DEFAULT_RANKING_WEIGHTS)

\* Who outranks another has the higher score.
LEMMA OutrankersScoreHigher ==
  ASSUME NEW c, IsWaitlist(c), NEW i \in DOMAIN c, NEW j \in DOMAIN c
  PROVE  /\ ScoreOf(c, c[i]) \in Int
         /\ Search!Outranks(c[i], c[j]) => ScoreOf(c, c[i]) > ScoreOf(c, c[j])
<1> DEFINE C == Search!Range(c)
           since == {x.since : x \in C}
           until == {x.until : x \in C} \ {Search!NoFlight}
           hours == {x.hours : x \in C}
           whole == 2 * Search!Spread(since) * Search!Spread(until) * Search!Spread(hours)
           Since(x) == Search!Normalize(x.since, since, whole)
           Hours(x) == Search!Normalize(x.hours, hours, whole)
           Until(x) == IF x.until = Search!NoFlight THEN whole
                       ELSE whole - Search!Normalize(x.until, until, whole)
           T == [student : Students, since : Nat, until : Nat \cup {NoFlight}, hours : Nat]
           n == Len(c)
           D == 1 .. n
<1>1. /\ n \in Nat /\ DOMAIN c = D /\ \A k \in D : c[k] \in T
      /\ C = {c[k] : k \in D} /\ IsFiniteSet(D)
  <2>1. c \in Seq(T)
    BY DEF IsWaitlist
  <2> HIDE DEF T
  <2>2. n \in Nat /\ DOMAIN c = D /\ \A k \in D : c[k] \in T
    BY <2>1
  <2>3. C = {c[k] : k \in D}
    BY <2>2 DEF Search!Range
  <2>4. IsFiniteSet(D)
    <3> HIDE DEF n
    <3> QED BY <2>2, FS_Interval
  <2> QED BY <2>2, <2>3, <2>4
<1>2. Search!NoFlight = -1 /\ NoFlight = -1
  BY DEF Search!NoFlight, NoFlight
<1>3. /\ since = {c[k].since : k \in D} /\ hours = {c[k].hours : k \in D}
      /\ until = {c[k].until : k \in D} \ {-1}
  BY <1>1, <1>2
<1> HIDE DEF D, n, C
<1>4. since \in SUBSET Nat /\ hours \in SUBSET Nat /\ until \in SUBSET Nat
  BY <1>1, <1>2, <1>3
<1>5. IsFiniteSet(since) /\ IsFiniteSet(hours) /\ IsFiniteSet(until)
  <2> DEFINE all == {c[k].until : k \in D}
             f == [k \in D |-> c[k].since]
             g == [k \in D |-> c[k].hours]
             h == [k \in D |-> c[k].until]
  <2>1. f \in Surjection(D, since) /\ g \in Surjection(D, hours) /\ h \in Surjection(D, all)
    BY <1>3 DEF Surjection
  <2>2. until \in SUBSET all
    BY <1>3
  <2> HIDE DEF f, g, h, all, since, until, hours
  <2>3. IsFiniteSet(since) /\ IsFiniteSet(hours) /\ IsFiniteSet(all)
    BY <1>1, <2>1, FS_Surjection
  <2> QED BY <2>2, <2>3, FS_Subset
<1>6. /\ \A k \in D : c[k].since \in since /\ c[k].hours \in hours
      /\ \A k \in D : c[k].until # -1 => c[k].until \in until
  BY <1>3
<1>7. /\ since # {} /\ hours # {} /\ i \in D /\ j \in D
      /\ \A k \in D : c[k].until \in Nat \cup {-1} /\ c[k].since \in Nat /\ c[k].hours \in Nat
  BY <1>1, <1>2, <1>6
<1> HIDE DEF since, until, hours
<1>8. /\ Search!Spread(since) \in Nat \ {0} /\ Search!Spread(hours) \in Nat \ {0}
      /\ Search!Spread(until) \in Nat \ {0}
  <2>1. ASSUME NEW S \in SUBSET Nat, IsFiniteSet(S) PROVE Search!Spread(S) \in Nat \ {0}
    <3>1. CASE S = {}
      BY <3>1 DEF Search!Spread
    <3>2. CASE S # {}
      <4>1. /\ Search!Max(S) \in Nat /\ Search!Min(S) \in Nat /\ Search!Min(S) <= Search!Max(S)
        BY <2>1, <3>2, Extremes
      <4> QED BY <3>2, <4>1 DEF Search!Spread
    <3> QED BY <3>1, <3>2
  <2> QED BY <1>4, <1>5, <2>1
<1>9. \E p, q, r \in Nat \ {0} : /\ whole = p * Search!Spread(since) /\ whole = q * Search!Spread(until)
                                 /\ whole = r * Search!Spread(hours)
  <2> DEFINE a == Search!Spread(since)
             b == Search!Spread(until)
             d == Search!Spread(hours)
             p == 2 * b * d
             q == 2 * a * d
             r == 2 * a * b
  <2>1. a \in Nat \ {0} /\ b \in Nat \ {0} /\ d \in Nat \ {0} /\ whole = 2 * a * b * d
    BY <1>8
  <2> HIDE DEF a, b, d, whole
  <2>2. p \in Nat \ {0} /\ q \in Nat \ {0} /\ r \in Nat \ {0}
    BY <2>1
  <2>3. whole = p * a /\ whole = q * b /\ whole = r * d
    BY <2>1
  <2> HIDE DEF p, q, r
  <2> QED BY <2>2, <2>3 DEF a, b, d
<1> HIDE DEF whole
<1>10. /\ whole \in Nat
       /\ \A k \in D : Since(c[k]) \in Int /\ Hours(c[k]) \in Int /\ Until(c[k]) \in Int
       /\ \A k \in D : Until(c[k]) <= whole
       /\ \A k, l \in D : /\ c[k].since <= c[l].since => Since(c[k]) <= Since(c[l])
                          /\ c[k].since < c[l].since => Since(c[k]) < Since(c[l])
                          /\ c[k].hours <= c[l].hours => Hours(c[k]) <= Hours(c[l])
                          /\ c[k].hours < c[l].hours => Hours(c[k]) < Hours(c[l])
                          /\ c[k].until # -1 /\ c[l].until # -1 /\ c[k].until <= c[l].until =>
                               Until(c[k]) >= Until(c[l])
  <2>1. PICK p, q, r \in Nat \ {0} : /\ whole = p * Search!Spread(since)
                                     /\ whole = q * Search!Spread(until)
                                     /\ whole = r * Search!Spread(hours)
    BY <1>9
  <2>2. \A k, l \in D : /\ whole \in Nat /\ Since(c[k]) \in Int
                        /\ c[k].since <= c[l].since => Since(c[k]) <= Since(c[l])
                        /\ c[k].since < c[l].since => Since(c[k]) < Since(c[l])
    BY <1>4, <1>5, <1>6, <1>7, <2>1, Normalized
  <2>3. \A k, l \in D : /\ Hours(c[k]) \in Int
                        /\ c[k].hours <= c[l].hours => Hours(c[k]) <= Hours(c[l])
                        /\ c[k].hours < c[l].hours => Hours(c[k]) < Hours(c[l])
    BY <1>4, <1>5, <1>6, <1>7, <2>1, Normalized
  <2> DEFINE N(x) == Search!Normalize(x.until, until, whole)
  <2>4. \A k, l \in D : c[k].until # -1 /\ c[l].until # -1 =>
          /\ N(c[k]) \in Int /\ N(c[k]) >= 0
          /\ c[k].until <= c[l].until => N(c[k]) <= N(c[l])
    BY <1>4, <1>5, <1>6, <2>1, Normalized
  <2>5. whole \in Nat
    BY <1>7, <2>2
  <2>6. \A k \in D : Until(c[k]) = IF c[k].until = -1 THEN whole ELSE whole - N(c[k])
    BY <1>2
  <2> HIDE DEF N, Until
  <2>7. \A k \in D : Until(c[k]) \in Int /\ Until(c[k]) <= whole
    <3> TAKE k \in D
    <3>1. c[k].until # -1 => N(c[k]) \in Int /\ N(c[k]) >= 0
      BY <2>4
    <3> QED BY <2>5, <2>6, <3>1
  <2>8. \A k, l \in D : c[k].until # -1 /\ c[l].until # -1 /\ c[k].until <= c[l].until =>
                          Until(c[k]) >= Until(c[l])
    <3> TAKE k, l \in D
    <3> HAVE c[k].until # -1 /\ c[l].until # -1 /\ c[k].until <= c[l].until
    <3>1. N(c[k]) <= N(c[l]) /\ N(c[k]) \in Int /\ N(c[l]) \in Int
      BY <2>4
    <3> QED BY <2>5, <2>6, <3>1
  <2> QED BY <2>2, <2>3, <2>5, <2>7, <2>8
<1> DEFINE S(x) == 3 * Since(x) + 2 * Until(x) + 2 * (whole - Hours(x)) + 0 * (whole \div 2)
<1>11. \A k \in D : ScoreOf(c, c[k]) = IF n = 1 THEN 7 ELSE S(c[k])
  BY DEF ScoreOf, Search!Score, Search!DEFAULT_RANKING_WEIGHTS, Search!Factors, since, until, hours,
         whole, C, n
<1> HIDE DEF Since, Until, Hours
<1>12. whole \div 2 \in Int
  BY <1>10
<1>13. ScoreOf(c, c[i]) \in Int
  <2>1. Since(c[i]) \in Int /\ Hours(c[i]) \in Int /\ Until(c[i]) \in Int
    BY <1>7, <1>10
  <2>2. S(c[i]) \in Int
    BY <1>10, <1>12, <2>1
  <2> QED BY <1>7, <1>11, <2>2
<1>14. ASSUME Search!Outranks(c[i], c[j]) PROVE ScoreOf(c, c[i]) > ScoreOf(c, c[j])
  <2> DEFINE x == c[i]
             y == c[j]
  <2>1. /\ x.since >= y.since /\ x.hours <= y.hours
        /\ x.until = -1 \/ (y.until # -1 /\ x.until <= y.until)
        /\ x.since > y.since \/ x.hours < y.hours
    BY <1>2, <1>14 DEF Search!Outranks
  <2>2. /\ x.since \in Nat /\ y.since \in Nat /\ x.hours \in Nat /\ y.hours \in Nat
        /\ x.until \in Nat \cup {-1} /\ y.until \in Nat \cup {-1}
    BY <1>7
  <2>3. n # 1
    <3> SUFFICES ASSUME n = 1 PROVE FALSE
      OBVIOUS
    <3>1. i = j
      BY <1>7 DEF D
    <3> QED BY <2>1, <2>2, <3>1
  <2>4. /\ Since(x) >= Since(y) /\ Hours(x) <= Hours(y)
        /\ Since(x) > Since(y) \/ Hours(x) < Hours(y)
    <3>1. /\ y.since <= x.since => Since(y) <= Since(x)
          /\ y.since < x.since => Since(y) < Since(x)
          /\ x.hours <= y.hours => Hours(x) <= Hours(y)
          /\ x.hours < y.hours => Hours(x) < Hours(y)
          /\ Since(x) \in Int /\ Since(y) \in Int
      BY <1>7, <1>10
    <3> QED BY <2>1, <2>2, <3>1
  <2>5. Until(x) >= Until(y)
    <3>1. CASE x.until = -1
      <4>1. Until(x) = whole
        BY <1>2, <3>1 DEF Until
      <4> QED BY <1>7, <1>10, <4>1
    <3>2. CASE x.until # -1
      BY <1>7, <1>10, <2>1, <3>2
    <3> QED BY <3>1, <3>2
  <2>6. /\ Since(x) \in Int /\ Since(y) \in Int /\ Hours(x) \in Int /\ Hours(y) \in Int
        /\ Until(x) \in Int /\ Until(y) \in Int
    BY <1>7, <1>10
  <2>7. ScoreOf(c, x) = S(x) /\ ScoreOf(c, y) = S(y)
    BY <1>7, <1>11, <2>3
  <2> HIDE DEF x, y
  <2>8. S(x) > S(y)
    BY <1>10, <1>12, <2>4, <2>5, <2>6
  <2> QED BY <2>7, <2>8 DEF x, y
<1> QED BY <1>13, <1>14

\* An outranking candidate is put before the one that it outranks.
LEMMA RankedInOrder ==
  ASSUME NEW c, IsWaitlist(c), NEW ranked,
         ranked = Search!RankWaitlistCandidates(c, Search!DEFAULT_RANKING_WEIGHTS)
  PROVE  \E place \in [DOMAIN c -> DOMAIN c] :
           /\ ranked = [k \in DOMAIN c |-> c[place[k]]]
           /\ \A i \in DOMAIN c : \E k \in DOMAIN c : place[k] = i
           /\ \A k, l \in DOMAIN c : Search!Outranks(c[place[k]], c[place[l]]) => k < l
<1> DEFINE n == Len(c)
           D == DOMAIN c
           Worth(i) == Search!Score(c[i], c, Search!DEFAULT_RANKING_WEIGHTS)
           Before(i, j) == Worth(i) > Worth(j) \/ (~(Worth(j) > Worth(i)) /\ i < j)
           R == {p \in D \X D : Before(p[1], p[2])}
           places == {<<i, Search!Cardinality({j \in D : Before(j, i)})>> : i \in D}
           place == [k \in D |-> (CHOOSE p \in places : p[2] = k - 1)[1]]
<1>1. n \in Nat /\ D = 1 .. n
  BY DEF IsWaitlist
<1>2. ranked = [k \in D |-> c[place[k]]]
  <2>1. ranked = [k \in D |-> c[(CHOOSE p \in places : p[2] = k - 1)[1]]]
    BY DEF Search!RankWaitlistCandidates, Search!Sorted, Search!StandsBefore
  <2> HIDE DEF places, D
  <2> QED BY <2>1
<1>3. \A i, j \in D : /\ Worth(i) \in Int
                      /\ Search!Outranks(c[i], c[j]) => Worth(i) > Worth(j)
  BY OutrankersScoreHigher DEF ScoreOf
<1> HIDE DEF D, Worth
<1>4. /\ place \in [D -> D]
      /\ \A i \in D : \E k \in D : place[k] = i
      /\ \A k, l \in D : <<place[k], place[l]>> \in R => k < l
  <2>2. \A x \in D : ~Before(x, x)
    BY <1>1, <1>3
  <2>3. \A x, y \in D : x # y => Before(x, y) \/ Before(y, x)
    BY <1>1, <1>3
  <2>4. \A x, y, z \in D : Before(x, y) /\ Before(y, z) => Before(x, z)
    BY <1>1, <1>3
  <2> HIDE DEF Before
  <2>5. \A x, y \in D : <<x, y>> \in R <=> Before(x, y)
    OBVIOUS
  <2>6. places = PlacesOf(n, R)
    <3>1. \A i \in D : {j \in D : Before(j, i)} = {j \in 1 .. n : <<j, i>> \in R}
      BY <1>1, <2>5
    <3>2. \A i \in D : Search!Cardinality({j \in D : Before(j, i)})
                       = Cardinality({j \in 1 .. n : <<j, i>> \in R})
      BY <3>1, SameCardinality
    <3> HIDE DEF n, R
    <3> QED BY <1>1, <3>2 DEF PlacesOf
  <2> HIDE DEF R, places
  <2>7. place = [k \in 1 .. n |-> PlaceAt(n, R, k)]
    BY <1>1, <2>6 DEF PlaceAt
  <2>8. OrdersStrictly(R, 1 .. n)
    BY <1>1, <2>2, <2>3, <2>4, <2>5 DEF OrdersStrictly
  <2> HIDE DEF place, n
  <2>9. PutsInOrder(place, R, 1 .. n)
    BY <1>1, <2>7, <2>8, PlacedInOrder
  <2> QED BY <1>1, <2>9 DEF PutsInOrder
<1>5. \A k, l \in D : Search!Outranks(c[place[k]], c[place[l]]) => k < l
  <2> TAKE k, l \in D
  <2> HAVE Search!Outranks(c[place[k]], c[place[l]])
  <2> DEFINE i == place[k]
             j == place[l]
  <2>1. i \in D /\ j \in D
    <3> HIDE DEF place
    <3> QED BY <1>4
  <2> HIDE DEF i, j
  <2>2. Worth(i) > Worth(j)
    BY <1>3, <2>1 DEF i, j
  <2>3. <<i, j>> \in R
    BY <2>1, <2>2
  <2> HIDE DEF R
  <2> QED BY <1>4, <2>3 DEF i, j
<1> HIDE DEF place
<1> QED BY <1>2, <1>4, <1>5 DEF D

\* The best of a waitlist: who outranks one of them is one of them.
LEMMA TopRanked ==
  ASSUME NEW c, IsWaitlist(c), TopCandidates \in Nat, NEW top,
         top = Search!UpTo(Search!RankWaitlistCandidates(c, Search!DEFAULT_RANKING_WEIGHTS), TopCandidates)
  PROVE  /\ \E m \in Nat : top \in [1 .. m -> Search!Range(c)]
         /\ \A x, y \in Search!Range(c) :
              Search!Outranks(x, y) /\ (\E n \in DOMAIN top : top[n].student = y.student) =>
                \E n \in DOMAIN top : top[n].student = x.student
<1> DEFINE T == [student : Students, since : Nat, until : Nat \cup {NoFlight}, hours : Nat]
           ranked == Search!RankWaitlistCandidates(c, Search!DEFAULT_RANKING_WEIGHTS)
           D == DOMAIN c
           C == Search!Range(c)
           m == IF Len(c) < TopCandidates THEN Len(c) ELSE TopCandidates
<1>1. PICK place \in [D -> D] :
        /\ ranked = [k \in D |-> c[place[k]]]
        /\ \A i \in D : \E k \in D : place[k] = i
        /\ \A k, l \in D : Search!Outranks(c[place[k]], c[place[l]]) => k < l
  <2> HIDE DEF D, ranked
  <2>1. ranked = Search!RankWaitlistCandidates(c, Search!DEFAULT_RANKING_WEIGHTS)
    BY DEF ranked
  <2> QED BY <2>1, RankedInOrder DEF D
<1>2. /\ Len(c) \in Nat /\ D = 1 .. Len(c) /\ C = {c[k] : k \in D}
      /\ \A i, j \in D : c[i].student = c[j].student => i = j
  BY DEF IsWaitlist, Search!Range
<1>3. top = Search!UpTo(ranked, TopCandidates)
  OBVIOUS
<1> HIDE DEF ranked
<1>4. ranked \in Seq(C) /\ Len(ranked) = Len(c) /\ \A k \in D : ranked[k] = c[place[k]]
  <2>1. \A k \in D : c[place[k]] \in C
    BY <1>2
  <2> HIDE DEF C, D
  <2> DEFINE n == Len(c)
  <2>2. n \in Nat /\ D = 1 .. n
    BY <1>2
  <2> HIDE DEF n
  <2>3. ranked \in [1 .. n -> C]
    BY <1>1, <2>1, <2>2
  <2>4. ranked \in Seq(C) /\ Len(ranked) = n
    BY <2>2, <2>3
  <2> QED BY <1>1, <2>4 DEF n
<1>5. top = SubSeq(ranked, 1, m)
  BY <1>3, <1>4 DEF Search!UpTo
<1>6. m \in Nat /\ m <= Len(c)
  BY <1>2
<1> HIDE DEF m, D, C
<1>7. /\ DOMAIN top = 1 .. m /\ top \in [1 .. m -> C]
      /\ \A k \in 1 .. m : k \in D /\ top[k] = c[place[k]]
  <2>1. top = [k \in 1 .. m |-> ranked[k]]
    BY <1>4, <1>5, <1>6
  <2>2. \A k \in 1 .. m : k \in D /\ ranked[k] \in C
    BY <1>2, <1>4, <1>6
  <2> QED BY <1>4, <2>1, <2>2
<1>8. ASSUME NEW x \in C, NEW y \in C, Search!Outranks(x, y),
             NEW n \in DOMAIN top, top[n].student = y.student
      PROVE  \E k \in DOMAIN top : top[k].student = x.student
  <2>1. PICK i \in D : x = c[i]
    BY <1>2
  <2>2. PICK j \in D : y = c[j]
    BY <1>2
  <2>3. n \in 1 .. m /\ n \in D /\ top[n] = c[place[n]] /\ place[n] \in D
    BY <1>1, <1>7
  <2>4. place[n] = j
    BY <1>2, <1>8, <2>2, <2>3
  <2>5. PICK k \in D : place[k] = i
    BY <1>1, <2>1
  <2>6. k < n
    BY <1>1, <1>8, <2>1, <2>2, <2>3, <2>4, <2>5
  <2>7. k \in 1 .. m
    BY <1>2, <1>6, <2>3, <2>6
  <2> QED BY <1>7, <2>1, <2>5, <2>7
<1> QED BY <1>6, <1>7, <1>8 DEF C

\* Somebody is offered, or still to be offered, or rejected.
Considers(s) ==
  \/ \E n \in DOMAIN offered : offered[n].student = s
  \/ \E n \in DOMAIN queue : queue[n].student = s
  \/ \E n \in DOMAIN rejected : rejected[n].proposal.student = s

\* Who outranks somebody considered is considered.
OutrankersConsidered ==
  \A c, d \in Search!Range(job.candidates) :
    Search!Outranks(c, d) /\ Considers(d.student) => Considers(c.student)

\* The proposals for an opening.
OpeningProposals ==
  [student : Students, instructor : {NoOne}, aircraft : {NoOne},
   activity : {job.opening.activity},
   start : {job.opening.start - ahead}, end : {job.opening.end - ahead}]

\* A rejection of one, with the availability that was fetched once.
OpeningRejections == [proposal : OpeningProposals, availability : {answers.availability}]

\* A waitlist job considers nobody before the one who outranks him.
RankingInv ==
  job.kind \in {"waitlist", "scan"} =>
    /\ pc \in {"scan", "rank"} => offered = <<>> /\ queue = <<>> /\ rejected = <<>>
    /\ offered \in Seq(OpeningProposals) /\ queue \in Seq(OpeningProposals)
    /\ rejected \in Seq(OpeningRejections)
    /\ pc \in {"evaluate", "done"} => OutrankersConsidered

\* The ranking takes a prefix of the order.
LEMMA RankCandidatesKeeps ==
  ASSUME SearchInv, RankingInv, Search!RankCandidates PROVE RankingInv'
<1> SUFFICES ASSUME job.kind \in {"waitlist", "scan"} PROVE RankingInv'
  BY DEF RankingInv, Search!RankCandidates
<1> DEFINE top == Search!UpTo(Search!RankWaitlistCandidates(job.candidates,
                                Search!DEFAULT_RANKING_WEIGHTS), TopCandidates)
           P(n) == [student |-> top[n].student, instructor |-> NoOne, aircraft |-> NoOne,
                    activity |-> job.opening.activity,
                    start |-> job.opening.start - ahead, end |-> job.opening.end - ahead]
           C == Search!Range(job.candidates)
<1>1. /\ pc = "rank" /\ pc' = "evaluate" /\ queue' = [n \in DOMAIN top |-> P(n)]
      /\ UNCHANGED <<job, ahead, offered, rejected>>
  BY DEF Search!RankCandidates
<1>2. offered = <<>> /\ rejected = <<>>
  BY <1>1 DEF RankingInv
<1>3. IsWaitlist(job.candidates) /\ TopCandidates \in Nat
  BY SearchAssumption DEF SearchInv, SearchBasics, IsJob
<1>4. \A x \in C : x.student \in Students
  <2>1. job.candidates \in Seq([student : Students, since : Nat, until : Nat \cup {NoFlight}, hours : Nat])
    BY <1>3 DEF IsWaitlist
  <2>2. \A n \in DOMAIN job.candidates : job.candidates[n].student \in Students
    <3> DEFINE T == [student : Students, since : Nat, until : Nat \cup {NoFlight}, hours : Nat]
               c == job.candidates
    <3>1. \A x \in T : x.student \in Students
      OBVIOUS
    <3> HIDE DEF T
    <3>2. \A n \in DOMAIN c : c[n] \in T
      <4> HIDE DEF c
      <4>1. c \in Seq(T)
        BY <2>1 DEF c, T
      <4> QED BY <4>1
    <3> QED BY <3>1, <3>2
  <2> QED BY <2>2 DEF Search!Range
<1>5. /\ \E m \in Nat : top \in [1 .. m -> C]
      /\ \A x, y \in C :
           Search!Outranks(x, y) /\ (\E n \in DOMAIN top : top[n].student = y.student) =>
             \E n \in DOMAIN top : top[n].student = x.student
  <2> DEFINE c == job.candidates
             t == top
  <2>1. t = Search!UpTo(Search!RankWaitlistCandidates(c, Search!DEFAULT_RANKING_WEIGHTS), TopCandidates)
    OBVIOUS
  <2>2. IsWaitlist(c)
    BY <1>3
  <2>4. C = Search!Range(c)
    OBVIOUS
  <2> HIDE DEF t, c, C
  <2>3. \E m \in Nat : t \in [1 .. m -> C]
    BY <1>3, <2>1, <2>2, <2>4, TopRanked
  <2>5. \A x, y \in C :
          Search!Outranks(x, y) /\ (\E n \in DOMAIN t : t[n].student = y.student) =>
            \E n \in DOMAIN t : t[n].student = x.student
    BY <1>3, <2>1, <2>2, <2>4, TopRanked
  <2> QED BY <2>3, <2>5 DEF t
<1> HIDE DEF top, C
<1>6. DOMAIN queue' = DOMAIN top /\ \A n \in DOMAIN top : queue'[n].student = top[n].student
  BY <1>1
<1>7. queue' \in Seq(OpeningProposals')
  <2>1. PICK m \in Nat : top \in [1 .. m -> C]
    BY <1>5
  <2>2. \A n \in 1 .. m : top[n].student \in Students
    BY <1>4, <2>1
  <2>3. \A n \in 1 .. m : P(n) \in OpeningProposals'
    BY <1>1, <2>2 DEF OpeningProposals
  <2>4. queue' \in [1 .. m -> OpeningProposals']
    <3> HIDE DEF P
    <3> QED BY <1>1, <2>1, <2>3
  <2> QED BY <2>4
<1>8. \A s : Considers(s)' <=> \E n \in DOMAIN top : top[n].student = s
  <2>1. offered' = <<>> /\ rejected' = <<>> /\ DOMAIN offered' = {} /\ DOMAIN rejected' = {}
    BY <1>1, <1>2
  <2>2. \A s : Considers(s)' <=> \E n \in DOMAIN queue' : queue'[n].student = s
    BY <2>1 DEF Considers
  <2> QED BY <1>6, <2>2
<1>9. C' = C /\ \A x, y : Search!Outranks(x, y)' = Search!Outranks(x, y)
  BY <1>1 DEF C, Search!Outranks
<1>10. OutrankersConsidered'
  BY <1>5, <1>8, <1>9 DEF OutrankersConsidered, C
<1> QED BY <1>1, <1>2, <1>7, <1>10 DEF RankingInv

\* An evaluation moves one from the queue to the offered or the rejected.
LEMMA EvaluateNextRanks ==
  ASSUME SearchInv, RankingInv, Search!EvaluateNext PROVE RankingInv'
<1> SUFFICES ASSUME job.kind \in {"waitlist", "scan"} PROVE RankingInv'
  BY DEF RankingInv, Search!EvaluateNext
<1> DEFINE p == Head(queue)
           r == [proposal |-> p, availability |-> answers.availability]
<1>1. /\ pc = "evaluate" /\ queue # <<>> /\ queue' = Tail(queue)
      /\ UNCHANGED <<job, ahead, pc, answers>>
  BY DEF Search!EvaluateNext
<1>2. /\ offered \in Seq(OpeningProposals) /\ queue \in Seq(OpeningProposals)
      /\ rejected \in Seq(OpeningRejections) /\ OutrankersConsidered
  BY <1>1 DEF RankingInv
<1>3. \/ offered' = Append(offered, p) /\ UNCHANGED rejected
      \/ rejected' = Append(rejected, r) /\ UNCHANGED offered
  BY DEF Search!EvaluateNext, Search!KnownAvailability
<1>4. OpeningProposals' = OpeningProposals /\ OpeningRejections' = OpeningRejections
  BY <1>1 DEF OpeningProposals, OpeningRejections
<1>5. /\ p \in OpeningProposals /\ queue' \in Seq(OpeningProposals)
      /\ \A s : (\E n \in DOMAIN queue : queue[n].student = s)
                <=> p.student = s \/ \E n \in DOMAIN queue' : queue'[n].student = s
  <2>1. /\ p = queue[1] /\ 1 \in DOMAIN queue /\ DOMAIN queue = 1 .. Len(queue) /\ Len(queue) \in Nat
        /\ p \in OpeningProposals /\ queue' \in Seq(OpeningProposals)
        /\ DOMAIN queue' = 1 .. (Len(queue) - 1)
        /\ \A n \in DOMAIN queue' : queue'[n] = queue[n + 1]
    BY <1>1, <1>2
  <2> HIDE DEF p
  <2>2. ASSUME NEW n \in DOMAIN queue PROVE n = 1 \/ (n - 1 \in DOMAIN queue' /\ queue'[n - 1] = queue[n])
    BY <2>1, <2>2
  <2>3. ASSUME NEW n \in DOMAIN queue' PROVE n + 1 \in DOMAIN queue
    BY <2>1, <2>3
  <2> QED BY <2>1, <2>2, <2>3
<1>6. r \in OpeningRejections /\ r.proposal = p
  BY <1>5 DEF OpeningRejections
<1> HIDE DEF p, r
<1>7. CASE offered' = Append(offered, p) /\ UNCHANGED rejected
  <2>1. /\ offered' \in Seq(OpeningProposals)
        /\ DOMAIN offered' = 1 .. (Len(offered) + 1) /\ DOMAIN offered = 1 .. Len(offered)
        /\ Len(offered) \in Nat
        /\ offered'[Len(offered) + 1] = p
        /\ \A n \in DOMAIN offered : offered'[n] = offered[n]
    BY <1>2, <1>5, <1>7
  <2>2. \A s : (\E n \in DOMAIN offered' : offered'[n].student = s)
                <=> p.student = s \/ \E n \in DOMAIN offered : offered[n].student = s
    <3> TAKE s
    <3>1. ASSUME NEW n \in DOMAIN offered' PROVE n = Len(offered) + 1 \/ n \in DOMAIN offered
      BY <2>1, <3>1
    <3>2. Len(offered) + 1 \in DOMAIN offered' /\ DOMAIN offered \subseteq DOMAIN offered'
      BY <2>1
    <3> QED BY <2>1, <3>1, <3>2
  <2>3. \A s : Considers(s)' <=> Considers(s)
    BY <1>5, <1>7, <2>2 DEF Considers
  <2>4. OutrankersConsidered'
    BY <1>1, <1>2, <2>3 DEF OutrankersConsidered, Search!Outranks
  <2> QED BY <1>1, <1>2, <1>4, <1>5, <1>7, <2>1, <2>4 DEF RankingInv
<1>8. CASE rejected' = Append(rejected, r) /\ UNCHANGED offered
  <2>1. /\ rejected' \in Seq(OpeningRejections)
        /\ DOMAIN rejected' = 1 .. (Len(rejected) + 1) /\ DOMAIN rejected = 1 .. Len(rejected)
        /\ Len(rejected) \in Nat
        /\ rejected'[Len(rejected) + 1] = r
        /\ \A n \in DOMAIN rejected : rejected'[n] = rejected[n]
    BY <1>2, <1>6, <1>8
  <2>2. \A s : (\E n \in DOMAIN rejected' : rejected'[n].proposal.student = s)
                <=> p.student = s \/ \E n \in DOMAIN rejected : rejected[n].proposal.student = s
    <3> TAKE s
    <3>1. ASSUME NEW n \in DOMAIN rejected' PROVE n = Len(rejected) + 1 \/ n \in DOMAIN rejected
      BY <2>1, <3>1
    <3>2. Len(rejected) + 1 \in DOMAIN rejected' /\ DOMAIN rejected \subseteq DOMAIN rejected'
      BY <2>1
    <3> QED BY <1>6, <2>1, <3>1, <3>2
  <2>3. \A s : Considers(s)' <=> Considers(s)
    BY <1>5, <1>8, <2>2 DEF Considers
  <2>4. OutrankersConsidered'
    BY <1>1, <1>2, <2>3 DEF OutrankersConsidered, Search!Outranks
  <2> QED BY <1>1, <1>2, <1>4, <1>5, <1>8, <2>1, <2>4 DEF RankingInv
<1> QED BY <1>3, <1>7, <1>8

\* Every step keeps the ranking.
LEMMA RankingKeeps ==
  ASSUME SearchInv, RankingInv, [Search!Next]_searchVars PROVE RankingInv'
<1>1. CASE Search!RankCandidates
  BY <1>1, RankCandidatesKeeps
<1>2. CASE Search!EvaluateNext
  BY <1>2, EvaluateNextRanks
<1>3. CASE Search!ScanForOpenings
  <2>1. /\ pc = "scan" /\ pc' \in {"done", "rank"} /\ UNCHANGED <<offered, queue, rejected>>
    BY <1>3 DEF Search!ScanForOpenings
  <2>2. job.kind = "scan" \/ job.kind = "waitlist"
    BY <2>1 DEF SearchInv, SearchBasics, IsJob
  <2>3. offered = <<>> /\ queue = <<>> /\ rejected = <<>>
    BY <2>1, <2>2 DEF RankingInv
  <2>4. OutrankersConsidered'
    BY <2>1, <2>3 DEF OutrankersConsidered, Considers
  <2> QED BY <2>1, <2>3, <2>4 DEF RankingInv
<1>4. CASE UNCHANGED searchVars \/ Search!EndEvaluation \/ \E e \in NewEvents : Search!Book(e)
  <2>1. /\ UNCHANGED <<job, ahead, answers, offered, queue, rejected>>
        /\ UNCHANGED pc \/ (pc = "evaluate" /\ pc' = "done")
    BY <1>4 DEF searchVars, Search!EndEvaluation, Search!Book
  <2>2. OutrankersConsidered <=> OutrankersConsidered'
    BY <2>1 DEF OutrankersConsidered, Considers, Search!Outranks
  <2>3. OpeningProposals' = OpeningProposals /\ OpeningRejections' = OpeningRejections
    BY <2>1 DEF OpeningProposals, OpeningRejections
  <2> QED BY <2>1, <2>2, <2>3 DEF RankingInv
<1>5. CASE \E u \in job.instructors \cup {job.student}, c \in Calendars : Search!EditCalendar(u, c)
  <2>1. UNCHANGED <<job, ahead, answers, offered, queue, rejected, pc>>
    BY <1>5 DEF Search!EditCalendar
  <2>2. OutrankersConsidered <=> OutrankersConsidered'
    BY <2>1 DEF OutrankersConsidered, Considers, Search!Outranks
  <2>3. OpeningProposals' = OpeningProposals /\ OpeningRejections' = OpeningRejections
    BY <2>1 DEF OpeningProposals, OpeningRejections
  <2> QED BY <2>1, <2>2, <2>3 DEF RankingInv
<1>6. CASE Search!SearchWindow \/ Search!SkipWindow \/ Search!EndSearch \/ Search!PlanNextLesson
  <2>1. pc \in {"search", "plan"}
    BY <1>6 DEF Search!SearchWindow, Search!SkipWindow, Search!EndSearch, Search!PlanNextLesson,
                Search!Searching
  <2>2. job.kind \notin {"waitlist", "scan"}
    BY <2>1 DEF SearchInv, SearchBasics
  <2>3. job'.kind = job.kind
    <3>1. CASE Search!PlanNextLesson
      <4>1. IsJob(job)
        BY DEF SearchInv, SearchBasics
      <4>2. \/ UNCHANGED job
            \/ \E event \in Search!NextEvents(job.progress, job.schedulable) :
                 \E first \in Search!Preferred(event) :
                   job' = [job EXCEPT
                      !.instructors = IF Search!Allowed(event) = {} THEN Instructors ELSE Search!Allowed(event),
                      !.instructor = first, !.aircraft = Aircraft[1],
                      !.activity = event.activity, !.duration = event.duration]
        BY <3>1 DEF Search!PlanNextLesson
      <4>3. CASE UNCHANGED job
        BY <4>3
      <4>4. CASE ~UNCHANGED job
        <5>1. PICK event \in Search!NextEvents(job.progress, job.schedulable) :
                 \E first \in Search!Preferred(event) :
                   job' = [job EXCEPT
                      !.instructors = IF Search!Allowed(event) = {} THEN Instructors ELSE Search!Allowed(event),
                      !.instructor = first, !.aircraft = Aircraft[1],
                      !.activity = event.activity, !.duration = event.duration]
          BY <4>2, <4>4
        <5> QED BY <4>1, <5>1 DEF IsJob, GenerationJobFields
      <4> QED BY <4>3, <4>4
    <3>2. CASE ~Search!PlanNextLesson
      BY <1>6, <3>2 DEF Search!SearchWindow, Search!SkipWindow, Search!EndSearch
    <3> QED BY <3>1, <3>2
  <2> QED BY <2>2, <2>3 DEF RankingInv
<1> QED BY <1>1, <1>2, <1>3, <1>4, <1>5, <1>6 DEF Search!Next

\* The ranking holds throughout a search scene.
LEMMA RankingIsInductive == Spec => [](scene = "search" => RankingInv)
<1>1. Init => (scene = "search" => RankingInv)
  <2> SUFFICES ASSUME Init, scene = "search" PROVE RankingInv
    OBVIOUS
  <2>1. /\ job \in Jobs /\ offered = <<>> /\ queue = <<>> /\ rejected = <<>>
        /\ pc = CASE job.kind = "next_lesson" -> "plan"
                  [] job.kind = "reschedule"  -> "search"
                  [] job.kind = "waitlist"    -> "rank"
                  [] job.kind = "scan"        -> "scan"
    BY DEF Init, Search!Init
  <2>2. job.kind \in {"waitlist", "scan"} => pc \in {"rank", "scan"}
    BY <2>1
  <2> QED BY <2>1, <2>2 DEF RankingInv
<1>2. (scene = "search" => SearchInv) /\ (scene = "search" => RankingInv) /\ [Next]_vars
        => (scene = "search" => RankingInv)'
  BY SceneStays, SearchMove, RankingKeeps
<1> QED BY <1>1, <1>2, SearchIsInductive, PTL DEF Spec

\* The waitlist passes nobody over: whoever waited as long as somebody that it
\* considers, flies as late and has flown as little, and less or longer in one
\* of the two, is considered too.
THEOREM NobodyIsPassedOver == Spec => []NobodyPassedOver
<1>1. RankingInv => Search!NobodyPassedOver
  <2> DEFINE considered == {p.student : p \in Search!Range(offered) \cup Search!Range(queue)}
                           \cup {r.proposal.student : r \in Search!Range(rejected)}
  <2>1. \A s : s \in considered <=> Considers(s)
    BY DEF Considers, Search!Range
  <2> HIDE DEF considered
  <2> SUFFICES ASSUME RankingInv, pc \in {"evaluate", "done"}, job.kind \in {"waitlist", "scan"},
                      NEW c \in Search!Range(job.candidates), NEW d \in Search!Range(job.candidates),
                      Search!Outranks(c, d), d.student \in considered
               PROVE  c.student \in considered
    BY DEF Search!NobodyPassedOver, considered
  <2> QED BY <2>1 DEF RankingInv, OutrankersConsidered
<1> QED BY <1>1, RankingIsInductive, PTL DEF NobodyPassedOver

================================================================================
