---------------------------- MODULE ConsoleApi_proofs ----------------------------
(***************************************************************************)
(* Proofs about what runs beside the console, for every value of the       *)
(* constants: the provisioning of an operator, the detection of            *)
(* disruptions, the simulation of a school's day and the refresh of the    *)
(* insights.  Each is a component of the composition MCConsole, whose      *)
(* steps leave the variables of the others alone.                          *)
(***************************************************************************)
EXTENDS MCConsole, FiniteSetTheorems, SequenceTheorems, TLAPS

\* A behaviour of the composition is about one component, to the end.
LEMMA SceneStays == [Next]_vars => scene' = scene
BY DEF Next, vars, LoginStep, DisruptionStep, SimulatedStep, QueueStep, PoliciesStep,
       TemplatesStep, DiscoveryStep, InsightStep

--------------------------------------------------------------------------------
(* The provisioning of an operator. *)

\* Where a process or an editor can be.
Steps ==
  {"idle", "check", "mfa", "refused", "token", "failed", "operator", "policy", "templates", "sync",
   "list", "seed", "switch", "list again", "seed again", "switch again", "seeded",
   "update flag", "insert flag", "update policy", "not found", "answered"}

LoginTypes ==
  /\ step \in [Login!Processes \cup Editors -> Steps]
  /\ toSeed \in [Login!Processes -> SUBSET DefaultFlags]
  /\ DOMAIN edited = Editors
  /\ rowsOf \subseteq Login!Tables
  /\ DOMAIN flags \subseteq DefaultFlags

\* All rows and flags, for good: nothing deletes one.
Provisioned == rowsOf = Login!Tables /\ DOMAIN flags = DefaultFlags

\* A process is provisioning the operator, or failed while it did.
AtWork(p) == step[p] \in {"policy", "templates", "sync", "list", "seed", "switch", "failed"}

\* What a process has done by where it is.
DoneBy(p) ==
  /\ step[p] = "policy" => {"operator"} \subseteq rowsOf
  /\ step[p] = "templates" => {"operator", "policy"} \subseteq rowsOf
  /\ step[p] = "sync" => {"operator", "policy", "templates"} \subseteq rowsOf
  /\ step[p] = "list" => rowsOf = Login!Tables
  /\ step[p] = "seed" => rowsOf = Login!Tables /\ DefaultFlags \ toSeed[p] \subseteq DOMAIN flags
  /\ step[p] = "switch" => Provisioned
  /\ step[p] \in {"token", "list again", "seed again", "switch again", "seeded"} =>
       "operator" \in rowsOf

\* An operator's row is one of all, or of a provisioning that is not over.
RowHasMore == "operator" \in rowsOf => Provisioned \/ \E p \in Login!Processes : AtWork(p)

EditsFlags ==
  \A e \in Editors : step[e] \in {"update flag", "insert flag"} => edited[e] \in DefaultFlags

LoginInv ==
  /\ LoginTypes
  /\ \A p \in Login!Processes : DoneBy(p)
  /\ RowHasMore
  /\ EditsFlags

LEMMA LoginInitially == Login!Init => LoginInv
<1> SUFFICES ASSUME Login!Init PROVE LoginInv
  OBVIOUS
<1>1. LoginTypes
  <2>1. DOMAIN flags = {} /\ DOMAIN edited = Editors
    BY DEF Login!Init
  <2>2. \A p \in Login!Processes : {} \in SUBSET DefaultFlags
    OBVIOUS
  <2>3. step \in [Login!Processes \cup Editors -> Steps] /\ toSeed \in [Login!Processes -> SUBSET DefaultFlags]
    BY DEF Login!Init, Steps
  <2> QED BY <2>1, <2>3 DEF Login!Init, LoginTypes
<1>2. \A p \in Login!Processes \cup Editors : step[p] = "idle"
  BY DEF Login!Init
<1> QED BY <1>1, <1>2 DEF Login!Init, LoginInv, DoneBy, RowHasMore, EditsFlags

\* A process goes on; rows and flags stay or are added.
LEMMA ProcessKeeps ==
  ASSUME LoginInv, NEW p \in Login!Processes, NEW next \in Steps,
         step' = [step EXCEPT ![p] = next],
         next \notin {"update flag", "insert flag"},
         toSeed' \in [Login!Processes -> SUBSET DefaultFlags],
         \A q \in Login!Processes \ {p} : toSeed'[q] = toSeed[q],
         rowsOf \subseteq rowsOf', rowsOf' \subseteq Login!Tables,
         DOMAIN flags \subseteq DOMAIN flags', DOMAIN flags' \subseteq DefaultFlags,
         UNCHANGED edited,
         DoneBy(p)',
         "operator" \in rowsOf' => \/ Provisioned' \/ AtWork(p)'
                                   \/ "operator" \in rowsOf /\ ~AtWork(p)
  PROVE  LoginInv'
<1>1. LoginTypes' /\ step'[p] = next /\ \A q \in (Login!Processes \cup Editors) \ {p} : step'[q] = step[q]
  BY DEF LoginInv, LoginTypes
<1>2. Provisioned => Provisioned'
  BY DEF Provisioned
<1>3. ASSUME NEW q \in Login!Processes \ {p} PROVE DoneBy(q)' /\ (AtWork(q) => AtWork(q)')
  <2>1. DoneBy(q) /\ step'[q] = step[q] /\ toSeed'[q] = toSeed[q]
    BY <1>1 DEF LoginInv
  <2>2. rowsOf = Login!Tables => rowsOf' = Login!Tables
    OBVIOUS
  <2> QED BY <1>2, <2>1, <2>2 DEF DoneBy, AtWork
<1>4. RowHasMore'
  <2>1. CASE Provisioned' \/ AtWork(p)' \/ "operator" \notin rowsOf'
    BY <2>1 DEF RowHasMore
  <2>2. CASE "operator" \in rowsOf /\ ~AtWork(p)
    BY <1>2, <1>3, <2>2 DEF LoginInv, RowHasMore
  <2> QED BY <2>1, <2>2
<1>5. EditsFlags'
  BY <1>1 DEF LoginInv, EditsFlags
<1> QED BY <1>1, <1>3, <1>4, <1>5 DEF LoginInv

\* A process goes on and changes no row and no flag.
LEMMA QuietKeeps ==
  ASSUME LoginInv, NEW p \in Login!Processes, NEW next \in Steps, Login!To(p, next),
         next \notin {"update flag", "insert flag"}, ~AtWork(p) \/ AtWork(p)' \/ Provisioned,
         UNCHANGED <<rowsOf, toSeed, edited>>, DOMAIN flags' = DOMAIN flags, DoneBy(p)'
  PROVE  LoginInv'
<1>1. step' = [step EXCEPT ![p] = next]
  BY DEF Login!To
<1>2. /\ rowsOf' \subseteq Login!Tables /\ DOMAIN flags' \subseteq DefaultFlags
      /\ toSeed' \in [Login!Processes -> SUBSET DefaultFlags]
  BY DEF LoginInv, LoginTypes
<1>3. Provisioned => Provisioned'
  BY DEF Provisioned
<1> QED BY <1>1, <1>2, <1>3, ProcessKeeps

LEMMA LoginsKeep ==
  ASSUME LoginInv, NEW p \in Login!Processes,
         \/ Login!SignIn(p) \/ Login!Mfa(p) \/ Login!StartSeeder(p) \/ Login!IsOnboarded(p)
         \/ Login!Throw(p) \/ Login!SwitchOn(p)
  PROVE  LoginInv'
<1> USE DEF Steps
<1>0. /\ \A next \in Steps : Login!To(p, next) => step'[p] = next
      /\ p \in Login!Processes \cup Editors
  BY DEF LoginInv, LoginTypes, Login!To
<1>1. CASE Login!SignIn(p) \/ Login!Mfa(p) \/ Login!StartSeeder(p)
  <2>1. PICK next \in {"check", "mfa", "refused"} : Login!To(p, next)
    BY <1>1 DEF Login!SignIn, Login!Mfa, Login!StartSeeder
  <2>2. step[p] \in {"idle", "mfa"} /\ UNCHANGED <<rowsOf, flags, toSeed, edited>>
    BY <1>1 DEF Login!SignIn, Login!Mfa, Login!StartSeeder
  <2>3. ~AtWork(p) /\ DoneBy(p)'
    BY <1>0, <2>1, <2>2 DEF AtWork, DoneBy
  <2> QED BY <2>1, <2>2, <2>3, QuietKeeps
<1>2. CASE Login!IsOnboarded(p)
  <2>1. PICK next \in {"operator", "token", "list again"} :
          Login!To(p, next) /\ (next # "operator" => "operator" \in rowsOf)
    BY <1>2 DEF Login!IsOnboarded, Login!Onboarded
  <2>2. step[p] = "check" /\ UNCHANGED <<rowsOf, flags, toSeed, edited>>
    BY <1>2 DEF Login!IsOnboarded
  <2>3. ~AtWork(p) /\ DoneBy(p)'
    BY <1>0, <2>1, <2>2 DEF AtWork, DoneBy
  <2> QED BY <2>1, <2>2, <2>3, QuietKeeps
<1>3. CASE Login!Throw(p)
  <2>1. Login!To(p, "failed") /\ UNCHANGED <<rowsOf, flags, toSeed, edited>>
    BY <1>3 DEF Login!Throw
  <2>2. AtWork(p)' /\ DoneBy(p)'
    BY <1>0, <2>1 DEF AtWork, DoneBy
  <2> QED BY <2>1, <2>2, QuietKeeps
<1>4. CASE Login!SwitchOn(p)
  <2>1. PICK next \in {"token", "list again", "seeded"} : Login!To(p, next)
    BY <1>4 DEF Login!SwitchOn, Login!Seeded, Login!Onboarded
  <2>2. /\ step[p] \in {"switch", "switch again"}
        /\ UNCHANGED <<rowsOf, toSeed, edited>> /\ DOMAIN flags' = DOMAIN flags
    BY <1>4 DEF Login!SwitchOn
  <2>3. "operator" \in rowsOf /\ (AtWork(p) => Provisioned)
    BY <2>2 DEF LoginInv, DoneBy, AtWork, Provisioned, Login!Tables
  <2>4. DoneBy(p)'
    BY <1>0, <2>1, <2>2, <2>3 DEF DoneBy
  <2> QED BY <2>1, <2>2, <2>3, <2>4, QuietKeeps
<1> QED BY <1>1, <1>2, <1>3, <1>4

LEMMA InsertsKeep == ASSUME LoginInv, NEW p \in Login!Processes, Login!InsertRow(p) PROVE LoginInv'
<1> USE DEF Steps
<1>1. step[p] \in Login!Tables /\ UNCHANGED <<flags, toSeed, edited>>
  BY DEF Login!InsertRow
<1>2. \A next \in Steps : Login!To(p, next) => step'[p] = next
  BY DEF LoginInv, LoginTypes, Login!To
<1>3. CASE Login!To(p, "failed") /\ UNCHANGED rowsOf
  <2>1. AtWork(p)' /\ DoneBy(p)'
    BY <1>2, <1>3 DEF AtWork, DoneBy
  <2> QED BY <1>1, <1>3, <2>1, QuietKeeps
<1>4. CASE Login!To(p, Login!After[step[p]]) /\ rowsOf' = rowsOf \cup {step[p]}
  <2>1. PICK next \in {"policy", "templates", "sync", "list"} :
          /\ Login!To(p, next)
          /\ \/ step[p] = "operator" /\ next = "policy"
             \/ step[p] = "policy" /\ next = "templates"
             \/ step[p] = "templates" /\ next = "sync"
             \/ step[p] = "sync" /\ next = "list"
    BY <1>1, <1>4 DEF Login!Tables, Login!After
  <2>2. rowsOf \subseteq rowsOf' /\ rowsOf' \subseteq Login!Tables
    BY <1>1, <1>4 DEF LoginInv, LoginTypes
  <2>3. AtWork(p)'
    BY <1>2, <2>1 DEF AtWork
  <2>4. DoneBy(p)'
    BY <1>2, <1>4, <2>1, <2>2 DEF LoginInv, DoneBy, Login!Tables
  <2>5. /\ step' = [step EXCEPT ![p] = next]
        /\ toSeed' \in [Login!Processes -> SUBSET DefaultFlags] /\ DOMAIN flags' \subseteq DefaultFlags
    BY <1>1, <2>1 DEF Login!To, LoginInv, LoginTypes
  <2> QED BY <1>1, <2>1, <2>2, <2>3, <2>4, <2>5, ProcessKeeps
<1> QED BY <1>3, <1>4 DEF Login!InsertRow

LEMMA ListFlagsKeeps == ASSUME LoginInv, NEW p \in Login!Processes, Login!ListFlags(p) PROVE LoginInv'
<1> USE DEF Steps
<1>1. PICK next \in {"seed", "seed again"} :
        /\ step' = [step EXCEPT ![p] = next]
        /\ \/ step[p] = "list" /\ next = "seed"
           \/ step[p] = "list again" /\ next = "seed again"
  BY DEF Login!ListFlags, Login!To
<1>2. toSeed' = [toSeed EXCEPT ![p] = DefaultFlags \ DOMAIN flags] /\ UNCHANGED <<rowsOf, flags, edited>>
  BY DEF Login!ListFlags, Login!MissingFlags
<1>3. step'[p] = next /\ toSeed'[p] = DefaultFlags \ DOMAIN flags
  BY <1>1, <1>2 DEF LoginInv, LoginTypes
<1>4. DoneBy(p)'
  BY <1>1, <1>2, <1>3 DEF LoginInv, DoneBy
<1>5. AtWork(p)' \/ ~AtWork(p)
  BY <1>1, <1>3 DEF AtWork
<1>6. /\ toSeed' \in [Login!Processes -> SUBSET DefaultFlags]
      /\ \A q \in Login!Processes \ {p} : toSeed'[q] = toSeed[q]
      /\ rowsOf' \subseteq Login!Tables /\ DOMAIN flags' \subseteq DefaultFlags
  BY <1>2 DEF LoginInv, LoginTypes
<1> QED BY <1>1, <1>2, <1>4, <1>5, <1>6, ProcessKeeps

LEMMA SeedFlagsKeeps == ASSUME LoginInv, NEW p \in Login!Processes, Login!SeedFlags(p) PROVE LoginInv'
<1> USE DEF Steps
<1>1. step[p] \in {"seed", "seed again"} /\ UNCHANGED <<rowsOf, toSeed, edited>>
  BY DEF Login!SeedFlags
<1>2. \A next \in Steps : Login!To(p, next) => step'[p] = next
  BY DEF LoginInv, LoginTypes, Login!To
<1>3. CASE Login!To(p, "failed") /\ UNCHANGED flags
  <2>1. AtWork(p)' /\ DoneBy(p)'
    BY <1>2, <1>3 DEF AtWork, DoneBy
  <2> QED BY <1>1, <1>3, <2>1, QuietKeeps
<1>4. CASE ~(Login!To(p, "failed") /\ UNCHANGED flags)
  <2>1. PICK next \in {"switch", "switch again", "token", "list again", "seeded"} :
          Login!To(p, next) /\ (next = "switch" => step[p] = "seed")
    BY <1>1, <1>4 DEF Login!SeedFlags, Login!Seeded, Login!Onboarded
  <2>2. DOMAIN flags' = DOMAIN flags \cup toSeed[p]
    BY <1>4 DEF Login!SeedFlags
  <2>3. toSeed[p] \subseteq DefaultFlags
    BY DEF LoginInv, LoginTypes
  <2>4. DOMAIN flags \subseteq DOMAIN flags' /\ DOMAIN flags' \subseteq DefaultFlags
    BY <2>2, <2>3 DEF LoginInv, LoginTypes
  <2>5. step[p] = "seed" => Provisioned'
    BY <1>1, <2>2, <2>4 DEF LoginInv, DoneBy, Provisioned
  <2>6. "operator" \in rowsOf
    BY <1>1 DEF LoginInv, DoneBy, Login!Tables
  <2>7. DoneBy(p)'
    BY <1>1, <1>2, <2>1, <2>5, <2>6 DEF DoneBy
  <2>8. Provisioned' \/ ~AtWork(p)
    BY <1>1, <2>5 DEF AtWork
  <2>9. /\ step' = [step EXCEPT ![p] = next] /\ rowsOf' \subseteq Login!Tables
        /\ toSeed' \in [Login!Processes -> SUBSET DefaultFlags]
    BY <1>1, <2>1 DEF Login!To, LoginInv, LoginTypes
  <2> QED BY <1>1, <2>1, <2>4, <2>6, <2>7, <2>8, <2>9, ProcessKeeps
<1> QED BY <1>3, <1>4

\* The requests of users with a token.
LEMMA EditsKeep ==
  ASSUME LoginInv, NEW e \in Editors,
         \/ Login!SelectForEdit(e) \/ Login!SetFlag(e) \/ Login!RefuseFlag(e)
         \/ Login!UpdatePolicy(e)
  PROVE  LoginInv'
<1> USE DEF Steps
<1>1. PICK next \in {"update flag", "insert flag", "update policy", "not found", "answered", "refused"} :
        step' = [step EXCEPT ![e] = next]
  BY DEF Login!SelectForEdit, Login!SetFlag, Login!RefuseFlag, Login!UpdatePolicy, Login!To
<1>2. /\ step'[e] = next /\ \A q \in (Login!Processes \cup Editors) \ {e} : step'[q] = step[q]
      /\ step' \in [Login!Processes \cup Editors -> Steps]
  BY <1>1 DEF LoginInv, LoginTypes
<1>3. /\ step[e] \in {"idle", "update flag", "insert flag", "update policy"}
      /\ UNCHANGED <<rowsOf, toSeed>>
  BY DEF Login!SelectForEdit, Login!SetFlag, Login!RefuseFlag, Login!UpdatePolicy
<1>4. DOMAIN flags \subseteq DOMAIN flags' /\ DOMAIN flags' \subseteq DefaultFlags
  <2>1. CASE Login!SetFlag(e)
    <3>1. edited[e] \in DefaultFlags /\ DOMAIN flags' = DOMAIN flags \cup {edited[e]}
      BY <2>1 DEF LoginInv, EditsFlags, Login!SetFlag
    <3> QED BY <3>1 DEF LoginInv, LoginTypes
  <2>2. CASE ~Login!SetFlag(e)
    <3>1. UNCHANGED flags
      BY <2>2 DEF Login!SelectForEdit, Login!RefuseFlag, Login!UpdatePolicy
    <3> QED BY <3>1 DEF LoginInv, LoginTypes
  <2> QED BY <2>1, <2>2
<1>5. EditsFlags' /\ DOMAIN edited' = Editors
  <2>1. CASE Login!SelectForEdit(e)
    <3>1. PICK f : /\ edited' = [edited EXCEPT ![e] = f]
                   /\ next \in {"update flag", "insert flag"} => f \in DefaultFlags
      <4>1. CASE \E f \in DefaultFlags : edited' = [edited EXCEPT ![e] = f]
        BY <4>1
      <4>2. CASE \E f \in PolicyFields :
                   /\ edited' = [edited EXCEPT ![e] = f]
                   /\ Login!To(e, IF "policy" \in rowsOf THEN "update policy" ELSE "not found")
        <5>1. step'[e] \in {"update policy", "not found"}
          BY <4>2 DEF Login!To, LoginInv, LoginTypes
        <5> QED BY <1>2, <4>2, <5>1
      <4> QED BY <2>1, <4>1, <4>2 DEF Login!SelectForEdit
    <3> QED BY <1>2, <3>1 DEF LoginInv, LoginTypes, EditsFlags
  <2>2. CASE ~Login!SelectForEdit(e)
    <3>1. UNCHANGED edited
      BY <2>2 DEF Login!SetFlag, Login!RefuseFlag, Login!UpdatePolicy
    <3>2. next \in {"answered", "refused"}
      <4>1. \E way \in {"answered", "refused"} : step' = [step EXCEPT ![e] = way]
        BY <2>2 DEF Login!SetFlag, Login!RefuseFlag, Login!UpdatePolicy, Login!To
      <4> QED BY <1>2, <4>1 DEF LoginInv, LoginTypes
    <3> QED BY <1>2, <3>1, <3>2 DEF LoginInv, LoginTypes, EditsFlags
  <2> QED BY <2>1, <2>2
<1>6. Provisioned => Provisioned'
  BY <1>3, <1>4 DEF Provisioned
<1>7. ASSUME NEW q \in Login!Processes PROVE DoneBy(q)' /\ (AtWork(q) => AtWork(q)')
  <2>1. DoneBy(q) /\ toSeed'[q] = toSeed[q] /\ rowsOf' = rowsOf
    BY <1>3 DEF LoginInv
  <2>2. CASE q # e
    <3>1. step'[q] = step[q]
      BY <1>2, <2>2
    <3> QED BY <1>4, <1>6, <2>1, <3>1 DEF DoneBy, AtWork
  <2>3. CASE q = e
    BY <1>2, <1>3, <2>3 DEF DoneBy, AtWork
  <2> QED BY <2>2, <2>3
<1>8. RowHasMore'
  BY <1>3, <1>6, <1>7 DEF LoginInv, RowHasMore
<1>9. LoginTypes'
  BY <1>2, <1>3, <1>4, <1>5 DEF LoginInv, LoginTypes
<1> QED BY <1>5, <1>7, <1>8, <1>9 DEF LoginInv

LEMMA LoginStepwise == LoginInv /\ [Login!Next]_onboardingVars => LoginInv'
<1> SUFFICES ASSUME LoginInv, [Login!Next]_onboardingVars PROVE LoginInv'
  OBVIOUS
<1>1. ASSUME NEW p \in Login!Processes,
             \/ Login!SignIn(p) \/ Login!Mfa(p) \/ Login!StartSeeder(p) \/ Login!IsOnboarded(p)
             \/ Login!InsertRow(p) \/ Login!ListFlags(p) \/ Login!SeedFlags(p)
             \/ Login!SwitchOn(p) \/ Login!Throw(p)
      PROVE  LoginInv'
  BY <1>1, LoginsKeep, InsertsKeep, ListFlagsKeeps, SeedFlagsKeeps
<1>2. ASSUME NEW e \in Editors,
             \/ Login!SelectForEdit(e) \/ Login!SetFlag(e) \/ Login!RefuseFlag(e)
             \/ Login!UpdatePolicy(e)
      PROVE  LoginInv'
  BY <1>2, EditsKeep
<1>3. CASE UNCHANGED onboardingVars
  BY <1>3 DEF onboardingVars, LoginInv, LoginTypes, DoneBy, AtWork, Provisioned, RowHasMore, EditsFlags
<1> QED BY <1>1, <1>2, <1>3 DEF Login!Next

LEMMA LoginMove == [Next]_vars /\ scene = "onboarding" => [Login!Next]_onboardingVars
BY DEF Next, vars, LoginStep, DisruptionStep, SimulatedStep, QueueStep, PoliciesStep,
       TemplatesStep, DiscoveryStep, InsightStep

\* A user with a token works for an operator with all its rows and flags, unless
\* a provisioning failed or still runs (Onboarding: a login looks for the first
\* of the rows only).
THEOREM TokenIsForAProvisioned == Spec => []TokenMeansProvisioned
<1> DEFINE I == scene = "onboarding" => LoginInv
<1>1. Init => I
  BY LoginInitially DEF Init
<1>2. I /\ [Next]_vars => I'
  BY SceneStays, LoginMove, LoginStepwise
<1>3. LoginInv => Login!TokenMeansProvisioned
  <2> SUFFICES ASSUME LoginInv, Login!LoggedIn
               PROVE  \/ Provisioned
                      \/ \E p \in Login!Processes :
                           step[p] \notin {"idle", "mfa", "refused", "token", "seeded"}
    BY DEF Login!TokenMeansProvisioned, Provisioned
  <2>1. PICK p \in Login!Processes : step[p] = "token"
    BY DEF Login!LoggedIn, Login!Processes
  <2>2. "operator" \in rowsOf
    BY <2>1 DEF LoginInv, DoneBy
  <2> QED BY <2>2 DEF LoginInv, RowHasMore, AtWork
<1>4. I => TokenMeansProvisioned
  BY <1>3 DEF TokenMeansProvisioned
<1> QED BY <1>1, <1>2, <1>4, PTL DEF Spec

--------------------------------------------------------------------------------
(* The disruptions. *)

ScanTypes ==
  /\ phase \in [Scans -> {"idle", "detect", "insert", "done", "failed"}]
  /\ DOMAIN toCheck = Scans /\ DOMAIN detected = Scans /\ DOMAIN existing = Scans

\* What scans inserted.
ByScans == {x \in disruptions : x.by # "simulation"}

SameThing(a, b) == a.type = b.type /\ a.about = b.about

\* Scans that run at a time are known to.
RunTogether ==
  \A s, o \in Scans :
    s # o /\ phase[s] \in {"detect", "insert"} /\ phase[o] \in {"detect", "insert"} =>
      {s, o} \in together

\* A scan detects once what it has to look at, and an instructor's day and week.
DetectsOnce ==
  \A s \in Scans :
    /\ phase[s] = "idle" => detected[s] = {}
    /\ \A a \in detected[s] : a.type = "instructor" \/ <<a.type, a.about>> \notin toCheck[s]
    /\ \A a, b \in detected[s] : SameThing(a, b) => a = b \/ a.type = "instructor"

\* A scan inserts at its end.
InsertsLast ==
  /\ \A x \in ByScans : x.by \in Scans
  /\ \A s \in Scans : phase[s] \in {"idle", "detect", "insert"} => \A x \in ByScans : x.by # s

\* What a scan did not see when it read the active disruptions came from a scan
\* that ran at the same time.
SeesOrRaces ==
  \A s \in Scans : phase[s] = "insert" =>
    \A x \in ByScans : <<x.is.type, x.is.about>> \in existing[s] \/ {x.by, s} \in together

ScanInv ==
  /\ ScanTypes
  /\ RunTogether
  /\ DetectsOnce
  /\ InsertsLast
  /\ SeesOrRaces
  /\ Disruption!DuplicatesNeedOverlap

LEMMA ScansInitially == Disruption!Init => ScanInv
BY DEF Disruption!Init, ScanInv, ScanTypes, RunTogether, DetectsOnce, InsertsLast, SeesOrRaces,
       ByScans, Disruption!DuplicatesNeedOverlap

\* A detector finds no more than one thing about what it looks at, except for
\* instructors.
FindsOne(s, looked, found) ==
  \A a \in found : \/ a.type = "instructor"
                   \/ /\ <<a.type, a.about>> \in toCheck[s] \cap looked
                      /\ \A b \in found : a = b

LEMMA DetectKeeps ==
  ASSUME ScanInv, NEW s \in Scans, NEW looked, NEW found,
         toCheck' = [toCheck EXCEPT ![s] = @ \ looked],
         detected' = [detected EXCEPT ![s] = @ \cup found],
         phase[s] = "detect", FindsOne(s, looked, found),
         UNCHANGED <<phase, disruptions, existing, together>>
  PROVE  ScanInv'
<1>1. ScanTypes'
  BY DEF ScanInv, ScanTypes
<1>2. /\ toCheck'[s] = toCheck[s] \ looked /\ detected'[s] = detected[s] \cup found
      /\ \A o \in Scans \ {s} : toCheck'[o] = toCheck[o] /\ detected'[o] = detected[o]
  BY DEF ScanInv, ScanTypes
<1>3. DetectsOnce'
  <2>1. \A a \in detected[s] : a.type = "instructor" \/ <<a.type, a.about>> \notin toCheck[s]
    BY DEF ScanInv, DetectsOnce
  <2>2. ASSUME NEW a \in detected[s], NEW b \in found, SameThing(a, b)
        PROVE  a.type = "instructor" /\ b.type = "instructor"
    BY <2>1, <2>2 DEF SameThing, FindsOne
  <2>3. \A a, b \in detected'[s] : SameThing(a, b) => a = b \/ a.type = "instructor"
    BY <1>2, <2>2 DEF ScanInv, DetectsOnce, SameThing, FindsOne
  <2>4. \A a \in detected'[s] : a.type = "instructor" \/ <<a.type, a.about>> \notin toCheck'[s]
    BY <1>2, <2>1 DEF FindsOne
  <2> QED BY <1>2, <2>3, <2>4 DEF ScanInv, DetectsOnce
<1>4. (RunTogether /\ InsertsLast /\ SeesOrRaces /\ Disruption!DuplicatesNeedOverlap)'
  BY DEF ScanInv, RunTogether, InsertsLast, SeesOrRaces, ByScans, Disruption!DuplicatesNeedOverlap
<1> QED BY <1>1, <1>3, <1>4 DEF ScanInv

LEMMA ChecksKeep ==
  ASSUME ScanInv, NEW s \in Scans,
         \/ Disruption!CheckToday(s) \/ Disruption!CheckWeek(s)
         \/ \E l \in Locations : Disruption!CheckLocation(s, l)
         \/ \E a \in Checked : Disruption!CheckAircraft(s, a)
  PROVE  ScanInv'
<1>2. CASE Disruption!CheckToday(s)
  <2> DEFINE found == UNION {Disruption!BusyDay(i) : i \in Watched}
             looked == {"instructor day"} \X Watched
  <2>1. FindsOne(s, looked, found)
    <3>1. \A a \in found : a.type = "instructor"
      BY DEF Disruption!BusyDay, Disruption!Disruption
    <3> HIDE DEF found, looked
    <3> QED BY <3>1 DEF FindsOne
  <2>2. /\ toCheck' = [toCheck EXCEPT ![s] = @ \ looked]
        /\ detected' = [detected EXCEPT ![s] = @ \cup found]
        /\ phase[s] = "detect"
        /\ UNCHANGED <<phase, disruptions, existing, together>>
    BY <1>2 DEF Disruption!CheckToday, Disruption!Detect
  <2> HIDE DEF found, looked
  <2> QED BY <2>1, <2>2, DetectKeeps
<1>3. CASE Disruption!CheckWeek(s)
  <2> DEFINE found == UNION {Disruption!BusyWeek(i) : i \in Watched}
             looked == {"instructor week"} \X Watched
  <2>1. FindsOne(s, looked, found)
    <3>1. \A a \in found : a.type = "instructor"
      BY DEF Disruption!BusyWeek, Disruption!Disruption
    <3> HIDE DEF found, looked
    <3> QED BY <3>1 DEF FindsOne
  <2>2. /\ toCheck' = [toCheck EXCEPT ![s] = @ \ looked]
        /\ detected' = [detected EXCEPT ![s] = @ \cup found]
        /\ phase[s] = "detect"
        /\ UNCHANGED <<phase, disruptions, existing, together>>
    BY <1>3 DEF Disruption!CheckWeek, Disruption!Detect
  <2> HIDE DEF found, looked
  <2> QED BY <2>1, <2>2, DetectKeeps
<1>4. ASSUME NEW name, NEW thing, NEW found, Disruption!Check(s, name, thing, found),
             \A a, b \in found : a.type = name /\ a.about = thing /\ a = b
      PROVE  ScanInv'
  <2> DEFINE looked == {<<name, thing>>}
  <2>1. /\ toCheck' = [toCheck EXCEPT ![s] = @ \ looked]
        /\ detected' = [detected EXCEPT ![s] = @ \cup found]
        /\ phase[s] = "detect"
        /\ UNCHANGED <<phase, disruptions, existing, together>>
        /\ <<name, thing>> \in toCheck[s] \cap looked
    BY <1>4 DEF Disruption!Check, Disruption!Detect
  <2>2. FindsOne(s, looked, found)
    BY <1>4, <2>1 DEF FindsOne
  <2> HIDE DEF looked
  <2> QED BY <2>1, <2>2, DetectKeeps
<1>5. ASSUME NEW l \in Locations, Disruption!CheckLocation(s, l) PROVE ScanInv'
  <2>1. \A a, b \in Disruption!Weather(l) : a.type = "weather" /\ a.about = l /\ a = b
    BY DEF Disruption!Weather, Disruption!Disruption
  <2>2. \A a, b \in {} : a.type = "weather" /\ a.about = l /\ a = b
    OBVIOUS
  <2> QED BY <1>4, <1>5, <2>1, <2>2 DEF Disruption!CheckLocation
<1>6. ASSUME NEW c \in Checked, Disruption!CheckAircraft(s, c) PROVE ScanInv'
  <2>1. \A a, b \in Disruption!Maintenance(c) : a.type = "maintenance" /\ a.about = c /\ a = b
    BY DEF Disruption!Maintenance, Disruption!Disruption
  <2>2. \A a, b \in {} : a.type = "maintenance" /\ a.about = c /\ a = b
    OBVIOUS
  <2> QED BY <1>4, <1>6, <2>1, <2>2 DEF Disruption!CheckAircraft
<1> QED BY <1>2, <1>3, <1>5, <1>6

LEMMA StartScanKeeps == ASSUME ScanInv, NEW s \in Scans, Disruption!StartScan(s) PROVE ScanInv'
<1>1. /\ phase[s] = "idle" /\ phase' = [phase EXCEPT ![s] = "detect"]
      /\ toCheck' = [toCheck EXCEPT ![s] = Disruption!Things]
      /\ together' = together \cup
           {{s, q} : q \in {x \in Scans : phase[x] \in {"detect", "insert"}}}
      /\ UNCHANGED <<disruptions, detected, existing>>
  BY DEF Disruption!StartScan
<1>2. /\ ScanTypes' /\ phase'[s] = "detect"
      /\ \A o \in Scans \ {s} : phase'[o] = phase[o] /\ toCheck'[o] = toCheck[o]
  BY <1>1 DEF ScanInv, ScanTypes
<1>3. RunTogether'
  <2>1. \A o \in Scans : phase[o] \in {"detect", "insert"} =>
                           {s, o} \in together' /\ {o, s} \in together'
    BY <1>1
  <2> QED BY <1>1, <1>2, <2>1 DEF ScanInv, RunTogether
<1>4. DetectsOnce'
  BY <1>1, <1>2 DEF ScanInv, DetectsOnce
<1>5. (InsertsLast /\ SeesOrRaces /\ Disruption!DuplicatesNeedOverlap)'
  BY <1>1, <1>2 DEF ScanInv, InsertsLast, SeesOrRaces, ByScans, Disruption!DuplicatesNeedOverlap
<1> QED BY <1>2, <1>3, <1>4, <1>5 DEF ScanInv

LEMMA ReadActiveKeeps == ASSUME ScanInv, NEW s \in Scans, Disruption!ReadActive(s) PROVE ScanInv'
<1>1. /\ phase[s] = "detect" /\ phase' = [phase EXCEPT ![s] = "insert"]
      /\ existing' = [existing EXCEPT ![s] = Disruption!ActiveKeys]
      /\ UNCHANGED <<disruptions, toCheck, detected, together>>
  BY DEF Disruption!ReadActive
<1>2. /\ ScanTypes' /\ phase'[s] = "insert" /\ existing'[s] = Disruption!ActiveKeys
      /\ \A o \in Scans \ {s} : phase'[o] = phase[o] /\ existing'[o] = existing[o]
  BY <1>1 DEF ScanInv, ScanTypes
<1>3. \A x \in disruptions : <<x.is.type, x.is.about>> \in Disruption!ActiveKeys
  BY DEF Disruption!ActiveKeys, Disruption!Key
<1>4. SeesOrRaces'
  BY <1>1, <1>2, <1>3 DEF ScanInv, SeesOrRaces, ByScans
<1>5. (RunTogether /\ DetectsOnce /\ InsertsLast /\ Disruption!DuplicatesNeedOverlap)'
  BY <1>1, <1>2 DEF ScanInv, RunTogether, DetectsOnce, InsertsLast, ByScans,
                    Disruption!DuplicatesNeedOverlap
<1> QED BY <1>2, <1>4, <1>5 DEF ScanInv

\* A scan that ends knows nothing any more.
LEMMA EndEffect ==
  ASSUME ScanInv, NEW s \in Scans, NEW outcome \in {"done", "failed"},
         Disruption!EndScan(s, outcome)
  PROVE  /\ ScanTypes' /\ phase'[s] = outcome /\ detected'[s] = {}
         /\ \A o \in Scans \ {s} : /\ phase'[o] = phase[o] /\ existing'[o] = existing[o]
                                   /\ detected'[o] = detected[o] /\ toCheck'[o] = toCheck[o]
BY DEF ScanInv, ScanTypes, Disruption!EndScan

LEMMA InsertNewKeeps == ASSUME ScanInv, NEW s \in Scans, Disruption!InsertNew(s) PROVE ScanInv'
<1> DEFINE fresh == {d \in detected[s] : <<d.type, d.about>> \notin existing[s]}
           new == {[is |-> d, by |-> s] : d \in fresh}
<1>1. /\ phase[s] = "insert" /\ disruptions' = disruptions \cup new
      /\ Disruption!EndScan(s, "done") /\ UNCHANGED together
  BY DEF Disruption!InsertNew, Disruption!Key
<1>2. /\ ScanTypes' /\ phase'[s] = "done" /\ detected'[s] = {}
      /\ \A o \in Scans \ {s} : /\ phase'[o] = phase[o] /\ existing'[o] = existing[o]
                                /\ detected'[o] = detected[o] /\ toCheck'[o] = toCheck[o]
  BY <1>1, EndEffect
<1>3. ASSUME NEW x \in new
      PROVE  x.by = s /\ x.is \in fresh /\ x = [is |-> x.is, by |-> s]
  <2>1. PICK d \in fresh : x = [is |-> d, by |-> s]
    OBVIOUS
  <2> HIDE DEF fresh, new
  <2> QED BY <2>1
<1> HIDE DEF new
<1>4. \A x \in ByScans' : x \in ByScans \/ x \in new
  BY <1>1 DEF ByScans
<1>5. RunTogether' /\ DetectsOnce'
  BY <1>1, <1>2 DEF ScanInv, RunTogether, DetectsOnce
<1>6. InsertsLast'
  BY <1>2, <1>3, <1>4 DEF ScanInv, InsertsLast
<1>7. SeesOrRaces'
  <2>1. \A o \in Scans \ {s} : phase[o] = "insert" => {s, o} \in together
    BY <1>1 DEF ScanInv, RunTogether
  <2> QED BY <1>1, <1>2, <1>3, <1>4, <2>1 DEF ScanInv, SeesOrRaces
<1>8. Disruption!DuplicatesNeedOverlap'
  <2> SUFFICES ASSUME NEW d \in ByScans', NEW e \in ByScans', SameThing(d.is, e.is), d # e
               PROVE  \/ {d.by, e.by} \in together
                      \/ d.by = e.by /\ d.is.type = "instructor"
    BY <1>1 DEF Disruption!DuplicatesNeedOverlap, ByScans, SameThing
  <2>1. ASSUME NEW x \in ByScans, NEW y \in new, SameThing(x.is, y.is)
        PROVE  {x.by, y.by} \in together /\ {y.by, x.by} \in together
    <3>1. <<x.is.type, x.is.about>> \notin existing[s]
      BY <1>3, <2>1 DEF SameThing
    <3>2. {x.by, s} \in together /\ {x.by, s} = {s, x.by} /\ y.by = s
      BY <1>1, <1>3, <3>1 DEF ScanInv, SeesOrRaces
    <3> QED BY <3>2
  <2>2. CASE d \in ByScans /\ e \in ByScans
    BY <2>2 DEF ScanInv, Disruption!DuplicatesNeedOverlap, ByScans, SameThing
  <2>3. CASE d \in ByScans /\ e \in new
    BY <2>1, <2>3
  <2>4. CASE d \in new /\ e \in ByScans
    BY <2>1, <2>4 DEF SameThing
  <2>5. CASE d \in new /\ e \in new
    <3>1. d.is \in detected[s] /\ e.is \in detected[s] /\ d.is # e.is /\ d.by = e.by
      BY <1>3, <2>5
    <3> QED BY <3>1 DEF ScanInv, DetectsOnce
  <2> QED BY <1>4, <2>2, <2>3, <2>4, <2>5
<1> QED BY <1>2, <1>5, <1>6, <1>7, <1>8 DEF ScanInv

LEMMA FailScanKeeps == ASSUME ScanInv, NEW s \in Scans, Disruption!FailScan(s) PROVE ScanInv'
<1>1. /\ phase[s] \in {"detect", "insert"} /\ Disruption!EndScan(s, "failed")
      /\ UNCHANGED <<disruptions, together>>
  BY DEF Disruption!FailScan
<1>2. /\ ScanTypes' /\ phase'[s] = "failed" /\ detected'[s] = {}
      /\ \A o \in Scans \ {s} : /\ phase'[o] = phase[o] /\ existing'[o] = existing[o]
                                /\ detected'[o] = detected[o] /\ toCheck'[o] = toCheck[o]
  BY <1>1, EndEffect
<1>3. (RunTogether /\ DetectsOnce)'
  BY <1>1, <1>2 DEF ScanInv, RunTogether, DetectsOnce
<1>4. (InsertsLast /\ SeesOrRaces /\ Disruption!DuplicatesNeedOverlap)'
  BY <1>1, <1>2 DEF ScanInv, InsertsLast, SeesOrRaces, ByScans, Disruption!DuplicatesNeedOverlap
<1> QED BY <1>2, <1>3, <1>4 DEF ScanInv

\* Those who insert nothing as a scan, or take away.
LEMMA BesidesScans ==
  ASSUME ScanInv, UNCHANGED <<phase, toCheck, detected, existing, together>>,
         ByScans' \subseteq ByScans
  PROVE  ScanInv'
<1>1. (ScanTypes /\ RunTogether /\ DetectsOnce)'
  BY DEF ScanInv, ScanTypes, RunTogether, DetectsOnce
<1>2. (InsertsLast /\ SeesOrRaces)'
  BY DEF ScanInv, InsertsLast, SeesOrRaces
<1>3. Disruption!DuplicatesNeedOverlap'
  BY DEF ScanInv, Disruption!DuplicatesNeedOverlap, ByScans
<1> QED BY <1>1, <1>2, <1>3 DEF ScanInv

LEMMA ScansStepwise == ScanInv /\ [Disruption!Next]_disruptionsVars => ScanInv'
<1> SUFFICES ASSUME ScanInv, [Disruption!Next]_disruptionsVars PROVE ScanInv'
  OBVIOUS
<1>1. ASSUME NEW s \in Scans,
             \/ Disruption!StartScan(s) \/ Disruption!CheckToday(s) \/ Disruption!CheckWeek(s)
             \/ Disruption!ReadActive(s) \/ Disruption!InsertNew(s) \/ Disruption!FailScan(s)
             \/ \E l \in Locations : Disruption!CheckLocation(s, l)
             \/ \E a \in Checked : Disruption!CheckAircraft(s, a)
      PROVE  ScanInv'
  BY <1>1, StartScanKeeps, ChecksKeep, ReadActiveKeeps, InsertNewKeeps, FailScanKeeps
<1>2. ASSUME NEW d \in disruptions, Disruption!Resolve(d) PROVE ScanInv'
  BY <1>2, BesidesScans DEF Disruption!Resolve, Disruption!scan, ByScans
<1>3. CASE Disruption!Simulate
  <2>1. PICK d : disruptions' = disruptions \cup {[is |-> d, by |-> "simulation"]}
    BY <1>3 DEF Disruption!Simulate
  <2>2. ByScans' \subseteq ByScans
    BY <2>1 DEF ByScans
  <2> QED BY <1>3, <2>2, BesidesScans DEF Disruption!Simulate, Disruption!scan
<1>4. CASE Disruption!ResolveAlert \/ Disruption!ChangeWorld
  BY <1>4, BesidesScans DEF Disruption!ResolveAlert, Disruption!ChangeWorld, Disruption!scan, ByScans
<1>5. CASE UNCHANGED disruptionsVars
  BY <1>5, BesidesScans DEF disruptionsVars, ByScans
<1> QED BY <1>1, <1>2, <1>3, <1>4, <1>5 DEF Disruption!Next

LEMMA DisruptionMove == [Next]_vars /\ scene = "disruptions" => [Disruption!Next]_disruptionsVars
BY DEF Next, vars, LoginStep, DisruptionStep, SimulatedStep, QueueStep, PoliciesStep,
       TemplatesStep, DiscoveryStep, InsightStep

\* Two active disruptions about the same thing come from scans that overlapped,
\* or from one scan for a busy day and a busy week (Disruptions: a scan reads the
\* active ones once, just before it inserts).
THEOREM ScansAloneAddNoDuplicates == Spec => []DuplicatesNeedOverlap
<1> DEFINE I == scene = "disruptions" => ScanInv
<1>1. Init => I
  BY ScansInitially DEF Init
<1>2. I /\ [Next]_vars => I'
  BY SceneStays, DisruptionMove, ScansStepwise
<1>3. I => DuplicatesNeedOverlap
  BY DEF ScanInv, DuplicatesNeedOverlap
<1> QED BY <1>1, <1>2, <1>3, PTL DEF Spec

--------------------------------------------------------------------------------
(* The simulation: its timers. *)

StartTypes ==
  /\ start \in [Starts -> {"idle", "validate", "started", "answered", "failed", "already running"}]
  /\ state \in SUBSET [timer : Starts, count : Nat]
  /\ raced \in SUBSET Starts

\* The timers that stop would clear.
Held == {r.timer : r \in state}

\* Two starts that validate at a time have overlapped; one that has not finds no
\* other's timer in the map.
StartsApart ==
  /\ \A s, o \in Starts : start[s] = "validate" /\ start[o] = "validate" /\ s # o => s \in raced
  /\ \A s \in Starts : start[s] = "validate" => Held \subseteq raced
  /\ \A s \in Starts \ raced : start[s] = "validate" => state = {}

TimersInv == StartTypes /\ StartsApart /\ timers \subseteq raced \cup Held

LEMMA TimersInitially == Simulated!Init => TimersInv
BY DEF Simulated!Init, TimersInv, StartTypes, StartsApart, Held

\* Statements that touch neither a student's hours nor those of the insights.
Plain ==
  {"reservation", "cancellation", "waitlist", "weather", "no_show", "maintenance",
   "instructor_out", "trigger", "audit"}

LEMMA InsertRowsStep ==
  ASSUME NEW e \in Events, Simulated!InsertRows(e)
  PROVE  /\ UNCHANGED Simulated!tables
         /\ \E statement \in Plain : Simulated!Step(e, statement)
BY DEF Simulated!InsertRows, Simulated!Reserve, Simulated!Cancel, Simulated!OfferSlot,
       Simulated!DisruptByWeather, Simulated!MissFlight, Simulated!GroundAircraft,
       Simulated!InstructorOut, Simulated!OfferTomorrow, Simulated!Audit, Simulated!Inserts, Plain

\* A statement of an event counts in the entry of the map, and no more.
LEMMA CountingHolds ==
  ASSUME StartTypes, NEW e \in Events, NEW tab, Simulated!Step(e, tab)
  PROVE  /\ state' \in SUBSET [timer : Starts, count : Nat] /\ Held' = Held
         /\ UNCHANGED <<timers, start, raced>>
<1> DEFINE Counts(r) == Len(steps[e]) = 1 /\ r.timer \in counted[e]
           After(r) == IF Counts(r) THEN [r EXCEPT !.count = @ + 1] ELSE r
<1>1. state' = {After(r) : r \in state} /\ UNCHANGED <<timers, start, raced>>
  BY DEF Simulated!Step
<1>2. ASSUME NEW r \in state
      PROVE  After(r) \in [timer : Starts, count : Nat] /\ After(r).timer = r.timer
  <2>1. r \in [timer : Starts, count : Nat]
    BY DEF StartTypes
  <2>2. [r EXCEPT !.count = @ + 1] \in [timer : Starts, count : Nat]
        /\ [r EXCEPT !.count = @ + 1].timer = r.timer
    BY <2>1
  <2> QED BY <2>1, <2>2
<1> HIDE DEF After
<1> QED BY <1>1, <1>2 DEF Held

\* The events leave the timers alone, except that the first one ends its start.
LEMMA EventsHold ==
  ASSUME TimersInv, state' \in SUBSET [timer : Starts, count : Nat], Held' = Held,
         start' \in [Starts -> {"idle", "validate", "started", "answered", "failed",
                                "already running"}],
         \A s \in Starts : start'[s] = "validate" => start[s] = "validate",
         UNCHANGED <<timers, raced>>
  PROVE  TimersInv'
<1>1. state' = {} <=> {r.timer : r \in state'} = {}
  OBVIOUS
<1>2. Held' = {r.timer : r \in state'} /\ (state = {} <=> Held = {})
  BY DEF Held
<1>3. StartTypes'
  BY DEF TimersInv, StartTypes
<1>4. StartsApart'
  BY <1>1, <1>2 DEF TimersInv, StartsApart
<1> QED BY <1>3, <1>4 DEF TimersInv

LEMMA TimersStepwise == TimersInv /\ [Simulated!Next]_simulationVars => TimersInv'
<1> SUFFICES ASSUME TimersInv, [Simulated!Next]_simulationVars PROVE TimersInv'
  OBVIOUS
<1> DEFINE Quiet == /\ state' \in SUBSET [timer : Starts, count : Nat] /\ Held' = Held
                    /\ UNCHANGED <<timers, start, raced>>
<1>1. ASSUME Quiet PROVE TimersInv'
  BY <1>1, EventsHold DEF TimersInv, StartTypes
<1>2. ASSUME UNCHANGED <<state, timers, start, raced>> PROVE Quiet
  BY <1>2 DEF TimersInv, StartTypes, Held
<1>3. ASSUME NEW e \in Events,
             Simulated!InsertRows(e) \/ Simulated!UpdateHours(e) \/ Simulated!UpdateInsights(e)
      PROVE  Quiet
  <2>1. PICK tab : Simulated!Step(e, tab)
    BY <1>3, InsertRowsStep DEF Simulated!UpdateHours, Simulated!UpdateInsights
  <2> QED BY <2>1, CountingHolds DEF TimersInv
<1>4. ASSUME NEW e \in Events,
             Simulated!Tick(e) \/ Simulated!MockTrigger(e) \/ Simulated!FailEvent(e)
      PROVE  Quiet
  <2>1. UNCHANGED <<state, timers, start, raced>>
    BY <1>4 DEF Simulated!Tick, Simulated!MockTrigger, Simulated!FailEvent
  <2> QED BY <1>2, <2>1
<1>5. ASSUME NEW e \in Events, NEW s \in Starts, Simulated!FirstEvent(s, e) PROVE TimersInv'
  <2>1. /\ start' = [start EXCEPT ![s] = "answered"]
        /\ UNCHANGED <<state, timers, raced>>
    BY <1>5 DEF Simulated!FirstEvent
  <2>2. /\ state' \in SUBSET [timer : Starts, count : Nat] /\ Held' = Held
        /\ start' \in [Starts -> {"idle", "validate", "started", "answered", "failed",
                                  "already running"}]
        /\ \A o \in Starts : start'[o] = "validate" => start[o] = "validate"
    BY <2>1 DEF TimersInv, StartTypes, Held
  <2> QED BY <2>1, <2>2, EventsHold
<1>6. ASSUME NEW s \in Starts, Simulated!StartSimulation(s) PROVE TimersInv'
  <2> DEFINE validating == {o \in Starts : start[o] = "validate"}
  <2>1. /\ start[s] = "idle"
        /\ start' = [start EXCEPT ![s] = IF state # {} THEN "already running" ELSE "validate"]
        /\ raced' = raced \cup (IF state = {} /\ validating # {} THEN {s} \cup validating ELSE {})
        /\ UNCHANGED <<state, timers>>
    BY <1>6 DEF Simulated!StartSimulation
  <2>2. StartTypes' /\ timers' \subseteq raced' \cup Held'
    BY <2>1 DEF TimersInv, StartTypes, Held
  <2>3. CASE state = {}
    <3>1. Held' = {}
      BY <2>1, <2>3 DEF Held
    <3>2. \A o \in Starts \ {s} : start'[o] = start[o]
      BY <2>1 DEF TimersInv, StartTypes
    <3>3. \A o \in Starts \ {s} : start'[o] = "validate" => o \in raced' /\ s \in raced'
      BY <2>1, <2>3, <3>2
    <3> QED BY <2>1, <2>2, <2>3, <3>1, <3>3 DEF TimersInv, StartsApart
  <2>4. CASE state # {}
    <3>1. raced' = raced /\ Held' = Held /\ \A o \in Starts : start'[o] = "validate" => start[o] = "validate"
      BY <2>1, <2>4 DEF TimersInv, StartTypes, Held
    <3> QED BY <2>1, <2>2, <3>1 DEF TimersInv, StartsApart
  <2> QED BY <2>3, <2>4
<1>7. ASSUME NEW s \in Starts, Simulated!Validate(s) PROVE TimersInv'
  <2>1. start[s] = "validate" /\ raced' = raced
    BY <1>7 DEF Simulated!Validate
  <2>2. CASE start' = [start EXCEPT ![s] = "failed"] /\ UNCHANGED <<state, timers>>
    <3>1. StartTypes' /\ Held' = Held /\ \A o \in Starts : start'[o] = "validate" => start[o] = "validate"
      BY <2>1, <2>2 DEF TimersInv, StartTypes, Held
    <3> QED BY <2>1, <2>2, <3>1 DEF TimersInv, StartsApart
  <2>3. CASE /\ timers' = timers \cup {s}
             /\ state' = {[timer |-> s, count |-> 0]}
             /\ start' = [start EXCEPT ![s] = "started"]
    <3> DEFINE r == [timer |-> s, count |-> 0]
    <3>0. r \in [timer : Starts, count : Nat] /\ r.timer = s /\ state' = {r}
      BY <2>3
    <3> HIDE DEF r
    <3>1. StartTypes' /\ Held' = {s}
      BY <2>1, <2>3, <3>0 DEF TimersInv, StartTypes, Held
    <3>2. timers \subseteq raced
      BY <2>1 DEF TimersInv, StartsApart, Held
    <3>3. \A o \in Starts : start'[o] = "validate" => o # s /\ start[o] = "validate"
      BY <2>3 DEF TimersInv, StartTypes
    <3>4. \A o \in Starts : start'[o] = "validate" => o \in raced /\ s \in raced
      BY <2>1, <3>3 DEF TimersInv, StartsApart
    <3> QED BY <2>1, <2>3, <3>1, <3>2, <3>4 DEF TimersInv, StartsApart
  <2> QED BY <1>7, <2>2, <2>3 DEF Simulated!Validate
<1>8. CASE Simulated!Stop
  <2>1. /\ timers' = timers \ Held /\ state' = {} /\ Held' = {}
        /\ UNCHANGED <<start, raced>>
    BY <1>8 DEF Simulated!Stop, Held
  <2> QED BY <2>1 DEF TimersInv, StartTypes, StartsApart
<1>9. ASSUME NEW r \in HourRefreshes,
             \/ Simulated!DeleteInsights(r) \/ Simulated!SelectStudents(r)
             \/ Simulated!InsertInsights(r) \/ Simulated!FailRefresh(r)
      PROVE  Quiet
  <2>1. UNCHANGED <<state, timers, start, raced>>
    BY <1>9 DEF Simulated!DeleteInsights, Simulated!SelectStudents, Simulated!InsertInsights,
                Simulated!FailRefresh, Simulated!EndRefresh
  <2> QED BY <1>2, <2>1
<1>10. CASE UNCHANGED simulationVars
  BY <1>1, <1>2, <1>10 DEF simulationVars
<1> HIDE DEF Quiet
<1> QED BY <1>1, <1>3, <1>4, <1>5, <1>6, <1>7, <1>8, <1>9, <1>10 DEF Simulated!Next

LEMMA SimulatedMove == [Next]_vars /\ scene = "simulation" => [Simulated!Next]_simulationVars
BY DEF Next, vars, LoginStep, DisruptionStep, SimulatedStep, QueueStep, PoliciesStep,
       TemplatesStep, DiscoveryStep, InsightStep

\* A timer that ticks is the one that stop would clear, unless its start
\* overlapped another (Simulation: a start checks the map before the query and
\* sets the entry after it).
THEOREM StopFindsTheTimer == Spec => []TimersCanBeStopped
<1> DEFINE I == scene = "simulation" => TimersInv
<1>1. Init => I
  BY TimersInitially DEF Init
<1>2. I /\ [Next]_vars => I'
  BY SceneStays, SimulatedMove, TimersStepwise
<1>3. I => TimersCanBeStopped
  BY DEF TimersInv, Held, TimersCanBeStopped, Simulated!TimersCanBeStopped
<1> QED BY <1>1, <1>2, <1>3, PTL DEF Spec

--------------------------------------------------------------------------------
(* The simulation: hours and insights. *)

\* What a completion has still to do.
AllOfIt == <<"reservation", "hours", "insights", "audit">>
FromHours == <<"hours", "insights", "audit">>
FromInsights == <<"insights", "audit">>
FromAudit == <<"audit">>

CompletionTails == {AllOfIt, FromHours, FromInsights, FromAudit}

EventTypes ==
  /\ kind \in [Events -> Simulated!Kinds \cup {"none", "done", "trigger"}]
  /\ about \in [Events -> Students \cup {NoStudent}]
  /\ hours \in [Events -> FlightHours \cup {0}]
  /\ read \in [Events -> Nat]
  /\ flightHours \in [Students -> Nat]
  /\ flown \in [Students -> Nat]
  /\ DOMAIN steps = Events

\* Only a completion has statements about hours, in their order.
Programs ==
  \A e \in Events : IF kind[e] = "completion"
                    THEN steps[e] \in CompletionTails /\ about[e] \in Students
                    ELSE steps[e] \in Seq(Plain)

Completing(e, s) == kind[e] = "completion" /\ about[e] = s

\* How far the one completion of a student is, against what has been written.
Written(e, s) ==
  /\ steps[e] \in {AllOfIt, FromHours} => read[e] = flown[s]
  /\ steps[e] = FromInsights => read[e] + hours[e] = flown[s]

HoursKept ==
  \A s \in Students \ overlapped :
    /\ flightHours[s] = flown[s]
    /\ \A e, f \in Events : Completing(e, s) /\ Completing(f, s) => e = f
    /\ \A e \in Events : Completing(e, s) => Written(e, s)

HoursInv == EventTypes /\ Programs /\ HoursKept

HourRows == [by : HourRefreshes \cup {"earlier"}, student : Students, hours : Nat, late : BOOLEAN]

RefreshTypes ==
  /\ insights \subseteq HourRows
  /\ refreshAt \in [HourRefreshes -> {"idle", "select", "insert", "done", "failed"}]
  /\ selected \in [HourRefreshes -> [Students -> Nat]]
  /\ DOMAIN landed = HourRefreshes

\* A completion of s has written the hours and is about to update the insights.
Between(s) == \E e \in Events : Completing(e, s) /\ steps[e] = FromInsights

\* A row's hours are those of the flights, were late when they were inserted, or
\* are about to be updated.
RowKept(row) == row.late \/ row.hours = flown[row.student] \/ Between(row.student)

RowsKept == \A row \in insights : row.student \notin overlapped => RowKept(row)

\* What a refresh is about to insert is what it has read, and the students whose
\* hours were written since are known.
SelectedKept ==
  \A r \in HourRefreshes : refreshAt[r] = "insert" =>
    \A s \in Students \ overlapped : s \in landed[r] \/ selected[r][s] = flown[s]

RowsInv == RefreshTypes /\ RowsKept /\ SelectedKept

LEMMA TailsOfCompletion ==
  /\ Head(AllOfIt) = "reservation" /\ Tail(AllOfIt) = FromHours /\ Len(AllOfIt) = 4
  /\ Head(FromHours) = "hours" /\ Tail(FromHours) = FromInsights /\ Len(FromHours) = 3
  /\ Head(FromInsights) = "insights" /\ Tail(FromInsights) = FromAudit /\ Len(FromInsights) = 2
  /\ Head(FromAudit) = "audit" /\ Len(FromAudit) = 1
BY DEF AllOfIt, FromHours, FromInsights, FromAudit

LEMMA TailsDiffer ==
  /\ AllOfIt # FromHours /\ AllOfIt # FromInsights /\ AllOfIt # FromAudit
  /\ FromHours # FromInsights /\ FromHours # FromAudit /\ FromInsights # FromAudit
  /\ <<>> \notin CompletionTails
BY DEF AllOfIt, FromHours, FromInsights, FromAudit, CompletionTails

LEMMA PlainPrograms ==
  ASSUME NEW type \in (Simulated!Kinds \ {"completion"}) \cup {"trigger"}
  PROVE  Simulated!Program(type) \in Seq(Plain)
<1>1. type \in Plain /\ "waitlist" \in Plain /\ type # "completion"
  BY DEF Plain, Simulated!Kinds
<1>2. <<type>> \in Seq(Plain) /\ <<type, "waitlist">> \in Seq(Plain)
  BY <1>1
<1>3. Simulated!Program(type) \in {<<type>>, <<type, "waitlist">>}
  BY <1>1 DEF Simulated!Program
<1> QED BY <1>2, <1>3

\* An event's step concerns no other event.
OnlyOf(e) ==
  \A f \in Events \ {e} : /\ kind'[f] = kind[f] /\ about'[f] = about[f] /\ hours'[f] = hours[f]
                          /\ read'[f] = read[f] /\ steps'[f] = steps[f]

\* A step of an event that is no completion.
LEMMA PlainKeeps ==
  ASSUME HoursInv, NEW e \in Events, EventTypes', OnlyOf(e),
         kind[e] # "completion", kind'[e] # "completion", steps'[e] \in Seq(Plain),
         UNCHANGED <<flightHours, flown>>, overlapped \subseteq overlapped'
  PROVE  HoursInv'
<1>1. Programs'
  BY DEF HoursInv, Programs, OnlyOf
<1>2. \A f \in Events, s \in Students : Completing(f, s)' <=> Completing(f, s)
  BY DEF Completing, OnlyOf
<1>3. \A f \in Events, s \in Students : Completing(f, s) => (Written(f, s) => Written(f, s)')
  BY DEF Completing, Written, OnlyOf
<1>4. HoursKept'
  <2> SUFFICES ASSUME NEW s \in Students \ overlapped'
               PROVE  /\ flightHours'[s] = flown'[s]
                      /\ \A a, b \in Events : Completing(a, s)' /\ Completing(b, s)' => a = b
                      /\ \A a \in Events : Completing(a, s)' => Written(a, s)'
    BY DEF HoursKept
  <2> HIDE DEF Completing, Written
  <2> QED BY <1>2, <1>3 DEF HoursInv, HoursKept
<1> QED BY <1>1, <1>4 DEF HoursInv

\* A step of s's completion e: the rows of other students stay, and its own
\* agree with how far it is by then.
LEMMA CompletionKeeps ==
  ASSUME HoursInv, NEW e \in Events, NEW s \in Students, EventTypes', OnlyOf(e),
         overlapped \subseteq overlapped',
         kind[e] = "completion" => about[e] = s,
         s \notin overlapped' =>
           /\ flightHours'[s] = flown'[s]
           /\ \A f \in Events \ {e} : ~Completing(f, s)
           /\ kind'[e] = "completion" => Written(e, s)',
         IF kind'[e] = "completion" THEN steps'[e] \in CompletionTails /\ about'[e] = s
         ELSE steps'[e] \in Seq(Plain),
         \A o \in Students \ {s} : flightHours'[o] = flightHours[o] /\ flown'[o] = flown[o]
  PROVE  HoursInv'
<1>1. Programs'
  BY DEF HoursInv, Programs, OnlyOf
<1>2. \A f \in Events \ {e}, o \in Students : Completing(f, o)' <=> Completing(f, o)
  BY DEF Completing, OnlyOf
<1>3. \A o \in Students \ {s} : ~Completing(e, o) /\ ~Completing(e, o)'
  BY DEF Completing
<1>4. \A f \in Events \ {e}, o \in Students \ {s} : Written(f, o) => Written(f, o)'
  BY DEF Written, OnlyOf
<1>5. ASSUME NEW o \in Students \ overlapped'
      PROVE  /\ flightHours'[o] = flown'[o]
             /\ \A a, b \in Events : Completing(a, o)' /\ Completing(b, o)' => a = b
             /\ \A a \in Events : Completing(a, o)' => Written(a, o)'
  <2>1. CASE o # s
    <3>1. o \in Students \ overlapped
      OBVIOUS
    <3>2. \A a \in Events : (Completing(a, o)' <=> Completing(a, o))
                            /\ (Completing(a, o) => a # e)
      BY <1>2, <1>3, <2>1
    <3>3. /\ flightHours[o] = flown[o]
          /\ \A a, b \in Events : Completing(a, o) /\ Completing(b, o) => a = b
          /\ \A a \in Events : Completing(a, o) => Written(a, o)
      BY <3>1 DEF HoursInv, HoursKept
    <3> HIDE DEF Completing, Written
    <3> QED BY <1>4, <2>1, <3>2, <3>3
  <2>2. CASE o = s
    <3>1. \A a \in Events \ {e} : ~Completing(a, s)'
      BY <1>2, <2>2
    <3>2. Completing(e, s)' <=> kind'[e] = "completion"
      BY DEF Completing
    <3> QED BY <2>2, <3>1, <3>2
  <2> QED BY <2>1, <2>2
<1>6. HoursKept'
  BY <1>5 DEF HoursKept
<1> QED BY <1>1, <1>6 DEF HoursInv

\* A statement of an event, apart from what it writes.
LEMMA StepEffect ==
  ASSUME HoursInv, NEW e \in Events, NEW statement, Simulated!Step(e, statement)
  PROVE  /\ Head(steps[e]) = statement /\ steps[e] # <<>>
         /\ OnlyOf(e) /\ UNCHANGED <<overlapped, refreshAt, selected>>
         /\ DOMAIN steps' = Events /\ steps'[e] = Tail(steps[e])
         /\ kind' \in [Events -> Simulated!Kinds \cup {"none", "done", "trigger"}]
         /\ about' \in [Events -> Students \cup {NoStudent}]
         /\ hours' \in [Events -> FlightHours \cup {0}]
         /\ read' \in [Events -> Nat]
         /\ IF Len(steps[e]) = 1 THEN kind'[e] = "done"
            ELSE kind'[e] = kind[e] /\ about'[e] = about[e] /\ hours'[e] = hours[e] /\ read'[e] = read[e]
<1> DEFINE ends == Len(steps[e]) = 1
<1>1. /\ Head(steps[e]) = statement /\ steps[e] # <<>>
      /\ UNCHANGED <<overlapped, refreshAt, selected>>
      /\ steps' = [steps EXCEPT ![e] = Tail(@)]
      /\ kind' = [kind EXCEPT ![e] = IF ends THEN "done" ELSE @]
      /\ about' = [about EXCEPT ![e] = IF ends THEN NoStudent ELSE @]
      /\ hours' = [hours EXCEPT ![e] = IF ends THEN 0 ELSE @]
      /\ read' = [read EXCEPT ![e] = IF ends THEN 0 ELSE @]
  BY DEF Simulated!Step, Simulated!Leave, Simulated!Running, Simulated!refresh
<1> HIDE DEF ends
<1>2. /\ kind' \in [Events -> Simulated!Kinds \cup {"none", "done", "trigger"}]
      /\ about' \in [Events -> Students \cup {NoStudent}]
      /\ hours' \in [Events -> FlightHours \cup {0}]
      /\ read' \in [Events -> Nat]
      /\ DOMAIN steps' = Events
  BY <1>1 DEF HoursInv, EventTypes
<1>3. OnlyOf(e) /\ steps'[e] = Tail(steps[e])
  BY <1>1 DEF HoursInv, EventTypes, OnlyOf
<1>4. IF ends THEN kind'[e] = "done"
      ELSE kind'[e] = kind[e] /\ about'[e] = about[e] /\ hours'[e] = hours[e] /\ read'[e] = read[e]
  BY <1>1 DEF HoursInv, EventTypes
<1> QED BY <1>1, <1>2, <1>3, <1>4 DEF ends

\* The statement of a completion tells how far it is.
LEMMA WhereItIs ==
  ASSUME HoursInv, NEW e \in Events, steps[e] # <<>>
  PROVE  \/ /\ kind[e] # "completion" /\ steps[e] \in Seq(Plain)
            /\ Tail(steps[e]) \in Seq(Plain) /\ Head(steps[e]) \in Plain
         \/ /\ kind[e] = "completion" /\ about[e] \in Students
            /\ \/ steps[e] = AllOfIt /\ Head(steps[e]) = "reservation"
                  /\ Tail(steps[e]) = FromHours /\ Len(steps[e]) # 1
               \/ steps[e] = FromHours /\ Head(steps[e]) = "hours"
                  /\ Tail(steps[e]) = FromInsights /\ Len(steps[e]) # 1
               \/ steps[e] = FromInsights /\ Head(steps[e]) = "insights"
                  /\ Tail(steps[e]) = FromAudit /\ Len(steps[e]) # 1
               \/ steps[e] = FromAudit /\ Head(steps[e]) = "audit"
                  /\ Tail(steps[e]) \in Seq(Plain) /\ Len(steps[e]) = 1
<1>1. CASE kind[e] # "completion"
  <2>1. steps[e] \in Seq(Plain)
    BY <1>1 DEF HoursInv, Programs
  <2> QED BY <1>1, <2>1, HeadTailProperties
<1>2. CASE kind[e] = "completion"
  <2>1. steps[e] \in CompletionTails /\ about[e] \in Students
    BY <1>2 DEF HoursInv, Programs
  <2>2. Tail(FromAudit) \in Seq(Plain)
    BY DEF FromAudit
  <2> QED BY <1>2, <2>1, <2>2, TailsOfCompletion DEF CompletionTails
<1> QED BY <1>1, <1>2

\* Where no hours and no rows of the insights are written, the rows stay kept,
\* unless a completion fails between its two updates.
LEMMA RowsStay ==
  ASSUME HoursInv, RowsInv, NEW e \in Events, OnlyOf(e), overlapped \subseteq overlapped',
         UNCHANGED <<flown, insights, refreshAt, selected, landed>>,
         kind[e] = "completion" /\ steps[e] = FromInsights => about[e] \in overlapped'
  PROVE  RowsInv'
<1>1. \A s \in Students : s \notin overlapped' /\ Between(s) => Between(s)'
  BY DEF Between, Completing, OnlyOf
<1>2. RowsKept'
  <2> SUFFICES ASSUME NEW row \in insights, row.student \notin overlapped' PROVE RowKept(row)'
    BY DEF RowsKept
  <2>1. RowKept(row) /\ row.student \in Students
    BY DEF RowsInv, RefreshTypes, HourRows, RowsKept
  <2> QED BY <1>1, <2>1 DEF RowKept
<1> QED BY <1>2 DEF RowsInv, RefreshTypes, SelectedKept

\* The statements that write no hours: "reservation" and "audit" of a completion,
\* and all of the other events.
LEMMA InsertRowsKeeps ==
  ASSUME HoursInv, RowsInv, NEW e \in Events, Simulated!InsertRows(e)
  PROVE  HoursInv' /\ RowsInv'
<1>1. PICK statement \in Plain : Simulated!Step(e, statement)
  BY InsertRowsStep
<1>2. UNCHANGED <<flightHours, flown, insights, landed>>
  BY InsertRowsStep DEF Simulated!tables
<1>3. /\ Head(steps[e]) = statement /\ steps[e] # <<>> /\ OnlyOf(e)
      /\ UNCHANGED <<overlapped, refreshAt, selected>> /\ steps'[e] = Tail(steps[e])
      /\ IF Len(steps[e]) = 1 THEN kind'[e] = "done"
         ELSE kind'[e] = kind[e] /\ about'[e] = about[e] /\ hours'[e] = hours[e] /\ read'[e] = read[e]
  BY <1>1, StepEffect
<1>4. EventTypes'
  BY <1>1, <1>2, StepEffect DEF HoursInv, EventTypes
<1>5. "hours" \notin Plain /\ "insights" \notin Plain
  BY DEF Plain
<1>6. RowsInv'
  <2>1. steps[e] # FromInsights
    BY <1>1, <1>3, <1>5, TailsOfCompletion
  <2> QED BY <1>2, <1>3, <2>1, RowsStay
<1>7. CASE kind[e] # "completion"
  <2>1. steps'[e] \in Seq(Plain)
    BY <1>3, <1>7, WhereItIs
  <2>2. kind'[e] # "completion"
    BY <1>3, <1>7
  <2> QED BY <1>2, <1>3, <1>4, <1>6, <1>7, <2>1, <2>2, PlainKeeps
<1>8. CASE kind[e] = "completion"
  <2>1. PICK s \in Students : s = about[e]
    BY <1>3, <1>8, WhereItIs
  <2>2. \/ /\ steps[e] = AllOfIt /\ steps'[e] = FromHours
           /\ kind'[e] = "completion" /\ about'[e] = s /\ read'[e] = read[e]
        \/ /\ steps[e] = FromAudit /\ steps'[e] \in Seq(Plain) /\ kind'[e] = "done"
    BY <1>3, <1>5, <1>8, <2>1, WhereItIs
  <2>3. Completing(e, s)
    BY <1>8, <2>1 DEF Completing
  <2>4. ASSUME s \notin overlapped'
        PROVE  /\ flightHours'[s] = flown'[s]
               /\ \A f \in Events \ {e} : ~Completing(f, s)
               /\ kind'[e] = "completion" => Written(e, s)'
    <3>1. /\ flightHours[s] = flown[s] /\ Written(e, s)
          /\ \A f \in Events \ {e} : ~Completing(f, s)
      BY <1>3, <2>3, <2>4 DEF HoursInv, HoursKept
    <3>2. CASE steps[e] = AllOfIt /\ steps'[e] = FromHours /\ kind'[e] = "completion" /\ read'[e] = read[e]
      BY <1>2, <3>1, <3>2, TailsDiffer DEF Written
    <3>3. CASE steps[e] = FromAudit /\ kind'[e] = "done"
      BY <1>2, <3>1, <3>3
    <3> QED BY <2>2, <3>2, <3>3
  <2>5. IF kind'[e] = "completion" THEN steps'[e] \in CompletionTails /\ about'[e] = s
        ELSE steps'[e] \in Seq(Plain)
    BY <2>2 DEF CompletionTails
  <2> QED BY <1>2, <1>3, <1>4, <1>6, <2>1, <2>4, <2>5, CompletionKeeps
<1> QED BY <1>7, <1>8

LEMMA HoursAreNumbers ==
  ASSUME EventTypes
  PROVE  /\ \A e \in Events : read[e] \in Nat /\ hours[e] \in Nat
         /\ \A s \in Students : flown[s] \in Nat
<1>1. FlightHours \cup {0} \subseteq Nat
  BY SimulationAssumption
<1>2. ASSUME NEW e \in Events PROVE hours[e] \in FlightHours \cup {0}
  BY DEF EventTypes
<1>3. \A e \in Events : hours[e] \in Nat
  BY <1>1, <1>2
<1>4. (\A e \in Events : read[e] \in Nat) /\ \A s \in Students : flown[s] \in Nat
  BY DEF EventTypes
<1> QED BY <1>3, <1>4

\* The statement of a completion that writes the student's hours.
LEMMA UpdateHoursKeeps ==
  ASSUME HoursInv, RowsInv, NEW e \in Events, Simulated!UpdateHours(e)
  PROVE  HoursInv' /\ RowsInv'
<1>1. /\ Simulated!Step(e, "hours")
      /\ flightHours' = [flightHours EXCEPT ![about[e]] = read[e] + hours[e]]
      /\ flown' = [flown EXCEPT ![about[e]] = @ + hours[e]]
      /\ landed' = [r \in HourRefreshes |-> IF refreshAt[r] = "insert" THEN landed[r] \cup {about[e]}
                                            ELSE landed[r]]
      /\ UNCHANGED insights
  BY DEF Simulated!UpdateHours
<1>2. /\ Head(steps[e]) = "hours" /\ steps[e] # <<>> /\ OnlyOf(e)
      /\ UNCHANGED <<overlapped, refreshAt, selected>> /\ steps'[e] = Tail(steps[e])
      /\ IF Len(steps[e]) = 1 THEN kind'[e] = "done"
         ELSE kind'[e] = kind[e] /\ about'[e] = about[e] /\ hours'[e] = hours[e] /\ read'[e] = read[e]
  BY <1>1, StepEffect
<1>3. "hours" \notin Plain
  BY DEF Plain
<1>4. /\ kind[e] = "completion" /\ about[e] \in Students /\ steps[e] = FromHours
      /\ steps'[e] = FromInsights /\ Len(steps[e]) # 1
  BY <1>2, <1>3, WhereItIs
<1>5. PICK s \in Students : s = about[e]
  BY <1>4
<1>6. read[e] \in Nat /\ hours[e] \in Nat /\ flown[s] \in Nat
  BY HoursAreNumbers DEF HoursInv
<1>7. /\ flightHours' \in [Students -> Nat] /\ flown' \in [Students -> Nat]
      /\ flightHours'[s] = read[e] + hours[e] /\ flown'[s] = flown[s] + hours[e]
      /\ \A o \in Students \ {s} : flightHours'[o] = flightHours[o] /\ flown'[o] = flown[o]
  BY <1>1, <1>5, <1>6 DEF HoursInv, EventTypes
<1>8. EventTypes'
  BY <1>1, <1>7, StepEffect DEF HoursInv, EventTypes
<1>9. Completing(e, s) /\ Completing(e, s)'
  BY <1>2, <1>4, <1>5 DEF Completing
<1>10. HoursInv'
  <2>1. ASSUME s \notin overlapped'
        PROVE  /\ flightHours'[s] = flown'[s]
               /\ \A f \in Events \ {e} : ~Completing(f, s)
               /\ Written(e, s)'
    <3>1. Written(e, s) /\ \A f \in Events \ {e} : ~Completing(f, s)
      BY <1>2, <1>9, <2>1 DEF HoursInv, HoursKept
    <3>2. read[e] = flown[s]
      BY <1>4, <3>1 DEF Written
    <3> QED BY <1>2, <1>4, <1>7, <3>1, <3>2, TailsDiffer DEF Written
  <2>2. steps'[e] \in CompletionTails /\ about'[e] = s /\ kind'[e] = "completion"
    BY <1>2, <1>4, <1>5 DEF CompletionTails
  <2> QED BY <1>2, <1>5, <1>7, <1>8, <2>1, <2>2, CompletionKeeps
<1>11. RowsKept'
  <2> SUFFICES ASSUME NEW row \in insights, row.student \notin overlapped PROVE RowKept(row)'
    BY <1>1, <1>2 DEF RowsKept
  <2>1. RowKept(row) /\ row.student \in Students
    BY DEF RowsInv, RefreshTypes, HourRows, RowsKept
  <2>2. CASE row.student = s
    BY <1>4, <1>9, <2>2 DEF RowKept, Between
  <2>3. CASE row.student # s
    <3>1. Between(row.student) => Between(row.student)'
      BY <1>2, <1>5, <2>3 DEF Between, Completing, OnlyOf
    <3> QED BY <1>7, <2>1, <2>3, <3>1 DEF RowKept
  <2> QED BY <2>2, <2>3
<1>12. SelectedKept'
  BY <1>1, <1>2, <1>5, <1>7 DEF RowsInv, RefreshTypes, SelectedKept
<1> QED BY <1>1, <1>2, <1>10, <1>11, <1>12 DEF RowsInv, RefreshTypes

\* ... and the one that writes those of the insights.
LEMMA UpdateInsightsKeeps ==
  ASSUME HoursInv, RowsInv, NEW e \in Events, Simulated!UpdateInsights(e)
  PROVE  HoursInv' /\ RowsInv'
<1> DEFINE Updated(row) ==
             IF row.student = about[e] THEN [row EXCEPT !.hours = read[e] + hours[e], !.late = FALSE]
             ELSE row
<1>1. /\ Simulated!Step(e, "insights")
      /\ insights' = {Updated(row) : row \in insights}
      /\ UNCHANGED <<flightHours, flown, landed>>
  BY DEF Simulated!UpdateInsights, Simulated!SetHours
<1>2. /\ Head(steps[e]) = "insights" /\ steps[e] # <<>> /\ OnlyOf(e)
      /\ UNCHANGED <<overlapped, refreshAt, selected>> /\ steps'[e] = Tail(steps[e])
      /\ IF Len(steps[e]) = 1 THEN kind'[e] = "done"
         ELSE kind'[e] = kind[e] /\ about'[e] = about[e] /\ hours'[e] = hours[e] /\ read'[e] = read[e]
  BY <1>1, StepEffect
<1>3. "insights" \notin Plain
  BY DEF Plain
<1>4. /\ kind[e] = "completion" /\ about[e] \in Students /\ steps[e] = FromInsights
      /\ steps'[e] = FromAudit /\ Len(steps[e]) # 1
  BY <1>2, <1>3, WhereItIs
<1>5. PICK s \in Students : s = about[e]
  BY <1>4
<1>6. read[e] \in Nat /\ hours[e] \in Nat
  BY HoursAreNumbers DEF HoursInv
<1>7. EventTypes'
  BY <1>1, StepEffect DEF HoursInv, EventTypes
<1>8. Completing(e, s)
  BY <1>4, <1>5 DEF Completing
<1>9. s \notin overlapped =>
        /\ flightHours[s] = flown[s] /\ read[e] + hours[e] = flown[s]
        /\ \A f \in Events \ {e} : ~Completing(f, s)
  BY <1>4, <1>8 DEF HoursInv, HoursKept, Written
<1>10. HoursInv'
  <2>1. s \notin overlapped' =>
          /\ flightHours'[s] = flown'[s]
          /\ \A f \in Events \ {e} : ~Completing(f, s)
          /\ Written(e, s)'
    BY <1>1, <1>2, <1>4, <1>9, TailsDiffer DEF Written
  <2>2. steps'[e] \in CompletionTails /\ about'[e] = s /\ kind'[e] = "completion"
    BY <1>2, <1>4, <1>5 DEF CompletionTails
  <2> QED BY <1>1, <1>2, <1>5, <1>7, <2>1, <2>2, CompletionKeeps
<1>11. ASSUME NEW row \in insights, NEW new, new = Updated(row)
       PROVE  new \in HourRows /\ (new.student \notin overlapped => RowKept(new)')
  <2>1. row \in HourRows
    BY DEF RowsInv, RefreshTypes
  <2>2. CASE row.student = s
    <3>1. new = [row EXCEPT !.hours = read[e] + hours[e], !.late = FALSE]
      BY <1>5, <1>11, <2>2
    <3>2. read[e] + hours[e] \in Nat
      BY <1>6
    <3>3. new \in HourRows /\ new.hours = read[e] + hours[e] /\ new.student = s
      BY <2>1, <2>2, <3>1, <3>2 DEF HourRows
    <3> QED BY <1>1, <1>9, <3>3 DEF RowKept
  <2>3. CASE row.student # s
    <3>1. new = row
      BY <1>5, <1>11, <2>3
    <3>2. Between(row.student) => Between(row.student)'
      BY <1>2, <1>5, <2>3 DEF Between, Completing, OnlyOf
    <3>3. row.student \notin overlapped => RowKept(row)
      BY DEF RowsInv, RowsKept
    <3> QED BY <1>1, <2>1, <3>1, <3>2, <3>3 DEF RowKept
  <2> QED BY <2>2, <2>3
<1>12. insights' \subseteq HourRows /\ RowsKept'
  <2>1. ASSUME NEW new \in insights'
        PROVE  new \in HourRows /\ (new.student \notin overlapped => RowKept(new)')
    <3>1. PICK row \in insights : new = Updated(row)
      BY <1>1
    <3> HIDE DEF Updated
    <3> QED BY <1>11, <3>1
  <2> QED BY <1>2, <2>1 DEF RowsKept
<1> HIDE DEF Updated
<1>13. SelectedKept'
  BY <1>1, <1>2 DEF RowsInv, SelectedKept
<1> QED BY <1>1, <1>2, <1>10, <1>12, <1>13 DEF RowsInv, RefreshTypes

LEMMA FailEventKeeps ==
  ASSUME HoursInv, RowsInv, NEW e \in Events, Simulated!FailEvent(e)
  PROVE  HoursInv' /\ RowsInv'
<1>1. /\ steps[e] # <<>>
      /\ steps' = [steps EXCEPT ![e] = <<>>]
      /\ overlapped' = overlapped \cup (IF kind[e] = "completion" THEN {about[e]} ELSE {})
      /\ kind' = [kind EXCEPT ![e] = "done"]
      /\ about' = [about EXCEPT ![e] = NoStudent]
      /\ hours' = [hours EXCEPT ![e] = 0]
      /\ read' = [read EXCEPT ![e] = 0]
      /\ UNCHANGED <<flightHours, flown, insights, landed, refreshAt, selected>>
  BY DEF Simulated!FailEvent, Simulated!Leave, Simulated!Running, Simulated!tables,
         Simulated!refresh
<1>2. EventTypes' /\ OnlyOf(e) /\ kind'[e] = "done" /\ steps'[e] = <<>>
  BY <1>1 DEF HoursInv, EventTypes, OnlyOf
<1>3. RowsInv'
  BY <1>1, <1>2, RowsStay
<1>4. <<>> \in Seq(Plain)
  OBVIOUS
<1>5. CASE kind[e] # "completion"
  BY <1>1, <1>2, <1>3, <1>4, <1>5, PlainKeeps
<1>6. CASE kind[e] = "completion"
  <2>1. PICK s \in Students : s = about[e]
    BY <1>1, <1>6, WhereItIs
  <2>2. s \in overlapped' /\ overlapped \subseteq overlapped'
    BY <1>1, <1>6, <2>1
  <2>3. \A o \in Students \ {s} : flightHours'[o] = flightHours[o] /\ flown'[o] = flown[o]
    BY <1>1
  <2> QED BY <1>2, <1>3, <1>4, <2>1, <2>2, <2>3, CompletionKeeps
<1> QED BY <1>5, <1>6

\* An event begins.
LEMMA FireKeeps ==
  ASSUME HoursInv, RowsInv, NEW e \in Events, NEW type \in Simulated!Kinds \cup {"trigger"},
         NEW timer, Simulated!Fire(e, type, timer),
         UNCHANGED <<Simulated!refresh, Simulated!tables>>
  PROVE  HoursInv' /\ RowsInv'
<1>1. /\ kind[e] = "none" /\ kind' = [kind EXCEPT ![e] = type]
      /\ steps' = [steps EXCEPT ![e] = Simulated!Program(type)]
      /\ UNCHANGED <<flightHours, flown, insights, landed, refreshAt, selected>>
  BY DEF Simulated!Fire, Simulated!Fresh, Simulated!tables, Simulated!refresh
<1>2. CASE type # "completion"
  <2>1. UNCHANGED <<about, hours, read, overlapped>>
    BY <1>2 DEF Simulated!Fire
  <2>2. Simulated!Program(type) \in Seq(Plain)
    BY <1>2, PlainPrograms
  <2>3. /\ EventTypes' /\ OnlyOf(e) /\ kind'[e] # "completion"
        /\ steps'[e] = Simulated!Program(type)
    BY <1>1, <1>2, <2>1 DEF HoursInv, EventTypes, OnlyOf
  <2> QED BY <1>1, <2>1, <2>2, <2>3, PlainKeeps, RowsStay
<1>3. CASE type = "completion"
  <2>1. PICK s \in Students, h \in FlightHours :
          /\ about' = [about EXCEPT ![e] = s]
          /\ hours' = [hours EXCEPT ![e] = h]
          /\ read' = [read EXCEPT ![e] = flightHours[s]]
          /\ overlapped' = overlapped \cup (IF Simulated!CompletionsOf(s) # {} THEN {s} ELSE {})
    BY <1>3 DEF Simulated!Fire
  <2>2. Simulated!Program(type) = AllOfIt
    BY <1>3 DEF Simulated!Program, AllOfIt
  <2>3. /\ EventTypes' /\ OnlyOf(e) /\ kind'[e] = "completion" /\ steps'[e] = AllOfIt
        /\ about'[e] = s /\ read'[e] = flightHours[s]
    BY <1>1, <1>3, <2>1, <2>2 DEF HoursInv, EventTypes, OnlyOf
  <2>4. ASSUME s \notin overlapped'
        PROVE  /\ flightHours'[s] = flown'[s]
               /\ \A f \in Events \ {e} : ~Completing(f, s)
               /\ Written(e, s)'
    <3>1. Simulated!CompletionsOf(s) = {}
      BY <2>1, <2>4
    <3>2. \A f \in Events : ~Completing(f, s)
      BY <3>1, TailsDiffer
         DEF Simulated!CompletionsOf, Simulated!Running, Completing, HoursInv, Programs
    <3>3. flightHours[s] = flown[s]
      BY <2>1, <2>4 DEF HoursInv, HoursKept
    <3> QED BY <1>1, <2>3, <3>2, <3>3, TailsDiffer DEF Written
  <2>5. steps'[e] \in CompletionTails /\ overlapped \subseteq overlapped'
    BY <2>1, <2>3 DEF CompletionTails
  <2>6. \A o \in Students \ {s} : flightHours'[o] = flightHours[o] /\ flown'[o] = flown[o]
    BY <1>1
  <2>7. HoursInv'
    BY <1>1, <2>3, <2>4, <2>5, <2>6, CompletionKeeps
  <2>8. RowsInv'
    BY <1>1, <2>3, <2>5, RowsStay
  <2> QED BY <2>7, <2>8
<1> QED BY <1>2, <1>3

\* What concerns neither the events nor the hours.
LEMMA BesidesEvents ==
  ASSUME HoursInv, UNCHANGED <<kind, about, hours, read, steps, flightHours, flown, overlapped>>
  PROVE  /\ HoursInv'
         /\ \A s \in Students : Between(s)' <=> Between(s)
BY DEF HoursInv, EventTypes, Programs, HoursKept, Completing, Written, Between

\* A refresh: the delete, the query, the insert, and where one of them throws.
LEMMA RefreshKeeps ==
  ASSUME HoursInv, RowsInv, NEW r \in HourRefreshes,
         \/ Simulated!DeleteInsights(r) \/ Simulated!SelectStudents(r)
         \/ Simulated!InsertInsights(r) \/ Simulated!FailRefresh(r)
  PROVE  HoursInv' /\ RowsInv'
<1>1. UNCHANGED <<kind, about, hours, read, steps, flightHours, flown, overlapped>>
  BY DEF Simulated!DeleteInsights, Simulated!SelectStudents, Simulated!InsertInsights,
         Simulated!FailRefresh, Simulated!EndRefresh, Simulated!event, Simulated!tables
<1>2. HoursInv' /\ \A s \in Students : Between(s)' <=> Between(s)
  BY <1>1, BesidesEvents
<1>3. \A row \in HourRows : RowKept(row)' <=> RowKept(row)
  BY <1>1, <1>2 DEF RowKept, HourRows
<1>4. CASE Simulated!DeleteInsights(r)
  <2>1. /\ refreshAt' = [refreshAt EXCEPT ![r] = "select"] /\ insights' = {}
        /\ UNCHANGED <<selected, landed>>
    BY <1>4 DEF Simulated!DeleteInsights
  <2>2. \A o \in HourRefreshes : refreshAt'[o] = "insert" => refreshAt[o] = "insert"
    BY <2>1 DEF RowsInv, RefreshTypes
  <2>3. RefreshTypes'
    BY <2>1 DEF RowsInv, RefreshTypes
  <2>4. RowsKept' /\ SelectedKept'
    BY <1>1, <2>1, <2>2 DEF RowsInv, RowsKept, SelectedKept
  <2> QED BY <1>2, <2>3, <2>4 DEF RowsInv
<1>5. CASE Simulated!SelectStudents(r)
  <2>1. /\ refreshAt' = [refreshAt EXCEPT ![r] = "insert"]
        /\ selected' = [selected EXCEPT ![r] = flightHours]
        /\ UNCHANGED <<insights, landed>>
    BY <1>5 DEF Simulated!SelectStudents, Simulated!tables
  <2>2. RefreshTypes'
    BY <2>1 DEF RowsInv, RefreshTypes, HoursInv, EventTypes
  <2>3. RowsKept'
    BY <1>1, <1>3, <2>1 DEF RowsInv, RefreshTypes, RowsKept
  <2>4. ASSUME NEW o \in HourRefreshes, refreshAt'[o] = "insert", NEW s \in Students \ overlapped
        PROVE  s \in landed[o] \/ selected'[o][s] = flown[s]
    <3>1. CASE o = r
      BY <2>1, <3>1 DEF RowsInv, RefreshTypes, HoursInv, HoursKept
    <3>2. CASE o # r
      BY <2>1, <2>4, <3>2 DEF RowsInv, RefreshTypes, SelectedKept
    <3> QED BY <3>1, <3>2
  <2>5. SelectedKept'
    BY <1>1, <2>1, <2>4 DEF SelectedKept
  <2> QED BY <1>2, <2>2, <2>3, <2>5 DEF RowsInv
<1>6. ASSUME NEW end \in {"done", "failed"}, Simulated!EndRefresh(r, end),
             insights' \subseteq HourRows, RowsKept'
      PROVE  RowsInv'
  <2>1. /\ refreshAt' = [refreshAt EXCEPT ![r] = end]
        /\ selected' = [selected EXCEPT ![r] = [s \in Students |-> 0]]
        /\ landed' = [landed EXCEPT ![r] = {}]
    BY <1>6 DEF Simulated!EndRefresh
  <2>2. RefreshTypes'
    BY <1>6, <2>1 DEF RowsInv, RefreshTypes
  <2>3. \A o \in HourRefreshes : refreshAt'[o] = "insert" =>
          /\ refreshAt[o] = "insert" /\ landed'[o] = landed[o] /\ selected'[o] = selected[o]
    BY <2>1 DEF RowsInv, RefreshTypes
  <2>4. SelectedKept'
    BY <1>1, <2>3 DEF RowsInv, SelectedKept
  <2> QED BY <1>6, <2>2, <2>4 DEF RowsInv
<1>7. CASE Simulated!InsertInsights(r)
  <2> DEFINE behind == {s \in landed[r] : ~Simulated!Updating(s)}
             Row(s) == [by |-> r, student |-> s, hours |-> selected[r][s], late |-> s \in behind]
  <2>1. /\ refreshAt[r] = "insert" /\ Simulated!EndRefresh(r, "done")
        /\ insights' = insights \cup {Row(s) : s \in Students}
    BY <1>7 DEF Simulated!InsertInsights, Simulated!Rows
  <2>2. ASSUME NEW s \in Students
        PROVE  Row(s) \in HourRows /\ (s \notin overlapped => RowKept(Row(s)))
    <3>1. selected[r][s] \in Nat
      BY DEF RowsInv, RefreshTypes
    <3>2. Row(s) \in HourRows
      BY <3>1 DEF HourRows
    <3>3. Simulated!Updating(s) => Between(s)
      <4> SUFFICES ASSUME NEW e \in Simulated!CompletionsOf(s), Head(steps[e]) = "insights"
                   PROVE  Completing(e, s) /\ steps[e] = FromInsights
        BY DEF Simulated!Updating, Between, Simulated!CompletionsOf
      <4>1. e \in Events /\ steps[e] # <<>> /\ Completing(e, s)
        BY DEF Simulated!CompletionsOf, Simulated!Running, Completing
      <4> QED BY <4>1, WhereItIs DEF Completing
    <3>4. s \notin overlapped => s \in landed[r] \/ selected[r][s] = flown[s]
      BY <2>1 DEF RowsInv, SelectedKept
    <3> QED BY <3>2, <3>3, <3>4 DEF RowKept
  <2>3. \A s \in Students : Row(s).student = s
    OBVIOUS
  <2> HIDE DEF Row, behind
  <2>4. insights' \subseteq HourRows
    BY <2>1, <2>2 DEF RowsInv, RefreshTypes
  <2>5. RowsKept'
    <3> SUFFICES ASSUME NEW row \in insights', row.student \notin overlapped PROVE RowKept(row)
      BY <1>1, <1>3, <2>4 DEF RowsKept
    <3> QED BY <2>1, <2>2, <2>3 DEF RowsInv, RowsKept
  <2> QED BY <1>2, <1>6, <2>1, <2>4, <2>5
<1>8. CASE Simulated!FailRefresh(r)
  <2>1. Simulated!EndRefresh(r, "failed") /\ UNCHANGED insights
    BY <1>8 DEF Simulated!FailRefresh
  <2>2. insights' \subseteq HourRows /\ RowsKept'
    BY <1>1, <1>3, <2>1 DEF RowsInv, RefreshTypes, RowsKept
  <2> QED BY <1>2, <1>6, <2>1, <2>2
<1> QED BY <1>4, <1>5, <1>7, <1>8

LEMMA HoursInitially == Simulated!Init => HoursInv /\ RowsInv
<1> SUFFICES ASSUME Simulated!Init PROVE HoursInv /\ RowsInv
  OBVIOUS
<1>1. EventTypes
  BY DEF Simulated!Init, EventTypes
<1>2. \A e \in Events : kind[e] = "none" /\ steps[e] = <<>>
  BY DEF Simulated!Init
<1>3. Programs
  <2>1. <<>> \in Seq(Plain)
    OBVIOUS
  <2> QED BY <1>2, <2>1 DEF Programs
<1>4. HoursKept
  BY <1>2 DEF Simulated!Init, HoursKept, Completing
<1>5. ASSUME NEW row \in insights PROVE row \in HourRows /\ RowKept(row)
  <2>1. PICK s \in Students : row = [by |-> "earlier", student |-> s, hours |-> 0, late |-> FALSE]
    <3>1. insights = Simulated!Rows("earlier", [s \in Students |-> 0], {})
      BY DEF Simulated!Init
    <3>2. PICK s \in Students : row = [by |-> "earlier", student |-> s,
                                      hours |-> [o \in Students |-> 0][s], late |-> s \in {}]
      BY <3>1 DEF Simulated!Rows
    <3>3. (s \in {}) = FALSE /\ [o \in Students |-> 0][s] = 0
      OBVIOUS
    <3> QED BY <3>2, <3>3
  <2>2. flown[s] = 0
    BY DEF Simulated!Init
  <2> QED BY <2>1, <2>2 DEF HourRows, RowKept
<1>6. RefreshTypes
  <2>1. insights \subseteq HourRows
    BY <1>5
  <2> QED BY <2>1 DEF Simulated!Init, RefreshTypes
<1>7. SelectedKept
  BY DEF Simulated!Init, SelectedKept
<1> QED BY <1>1, <1>3, <1>4, <1>5, <1>6, <1>7 DEF HoursInv, RowsInv, RowsKept

LEMMA HoursStepwise ==
  ASSUME HoursInv, RowsInv, [Simulated!Next]_simulationVars
  PROVE  HoursInv' /\ RowsInv'
<1>1. ASSUME UNCHANGED <<kind, about, hours, read, steps, flightHours, flown, overlapped, insights,
                         refreshAt, selected, landed>>
      PROVE  HoursInv' /\ RowsInv'
  <2>1. HoursInv' /\ \A s \in Students : Between(s)' <=> Between(s)
    BY <1>1, BesidesEvents
  <2>2. \A row \in HourRows : RowKept(row)' <=> RowKept(row)
    BY <1>1, <2>1 DEF RowKept, HourRows
  <2>3. RefreshTypes' /\ SelectedKept'
    BY <1>1 DEF RowsInv, RefreshTypes, SelectedKept
  <2>4. RowsKept'
    BY <1>1, <2>2 DEF RowsInv, RefreshTypes, RowsKept
  <2> QED BY <2>1, <2>3, <2>4 DEF RowsInv
<1>2. ASSUME NEW e \in Events,
             \/ Simulated!InsertRows(e) \/ Simulated!UpdateHours(e)
             \/ Simulated!UpdateInsights(e) \/ Simulated!FailEvent(e)
      PROVE  HoursInv' /\ RowsInv'
  BY <1>2, InsertRowsKeeps, UpdateHoursKeeps, UpdateInsightsKeeps, FailEventKeeps
<1>3. ASSUME NEW e \in Events, Simulated!Tick(e) PROVE HoursInv' /\ RowsInv'
  BY <1>3, FireKeeps DEF Simulated!Tick
<1>4. ASSUME NEW e \in Events, Simulated!MockTrigger(e) PROVE HoursInv' /\ RowsInv'
  BY <1>4, FireKeeps DEF Simulated!MockTrigger
<1>5. ASSUME NEW s \in Starts, NEW e \in Events, Simulated!FirstEvent(s, e)
      PROVE  HoursInv' /\ RowsInv'
  BY <1>5, FireKeeps DEF Simulated!FirstEvent
<1>6. ASSUME NEW s \in Starts, Simulated!StartSimulation(s) \/ Simulated!Validate(s)
      PROVE  HoursInv' /\ RowsInv'
  BY <1>1, <1>6 DEF Simulated!StartSimulation, Simulated!Validate, Simulated!event,
                    Simulated!tables, Simulated!refresh
<1>7. CASE Simulated!Stop
  BY <1>1, <1>7 DEF Simulated!Stop, Simulated!event, Simulated!tables, Simulated!refresh
<1>8. ASSUME NEW r \in HourRefreshes,
             \/ Simulated!DeleteInsights(r) \/ Simulated!SelectStudents(r)
             \/ Simulated!InsertInsights(r) \/ Simulated!FailRefresh(r)
      PROVE  HoursInv' /\ RowsInv'
  BY <1>8, RefreshKeeps
<1>9. CASE UNCHANGED simulationVars
  BY <1>1, <1>9 DEF simulationVars
<1> QED BY <1>2, <1>3, <1>4, <1>5, <1>6, <1>7, <1>8, <1>9 DEF Simulated!Next

\* A student's hours are those of all completed flights, and every row of the
\* insights agrees once no completion runs, unless two completions of the student
\* overlapped or one failed (Simulation: a completion adds to the hours it read
\* first), or a refresh inserted the row with hours it had read before a
\* completion that was through with the insights by then.
THEOREM HoursOfLoneCompletions == Spec => []HoursAddUp
<1> DEFINE I == scene = "simulation" => HoursInv /\ RowsInv
<1>1. Init => I
  BY HoursInitially DEF Init
<1>2. I /\ [Next]_vars => I'
  BY SceneStays, SimulatedMove, HoursStepwise
<1>3. ASSUME HoursInv, RowsInv PROVE Simulated!HoursAddUp
  <2> SUFFICES ASSUME NEW s \in Students \ overlapped
               PROVE  /\ flightHours[s] = flown[s]
                      /\ Simulated!CompletionsOf(s) = {} =>
                           \A row \in insights : row.student = s => row.late \/ row.hours = flown[s]
    BY DEF Simulated!HoursAddUp
  <2>1. Simulated!CompletionsOf(s) = {} => ~Between(s)
    BY TailsDiffer
       DEF Simulated!CompletionsOf, Simulated!Running, Between, Completing, CompletionTails
  <2>2. \A row \in insights : row.student = s => RowKept(row)
    BY <1>3 DEF RowsInv, RowsKept
  <2> QED BY <1>3, <2>1, <2>2 DEF HoursInv, HoursKept, RowKept
<1>4. I => HoursAddUp
  BY <1>3 DEF HoursAddUp
<1> QED BY <1>1, <1>2, <1>4, PTL DEF Spec


--------------------------------------------------------------------------------
(* The refresh of the insights. *)

FlightRecords == [day : Nat, by : Teachers]

InsightRows ==
  [by : Refreshes, student : Flyers, isInactive : BOOLEAN, isCheckrideReady : BOOLEAN,
   isAtRisk : BOOLEAN]

\* What a refresh has read has the three parts of the answer.
HasParts(g) == DOMAIN g = {"inactive", "atRisk", "workload"}

InsightTypes ==
  /\ day \in Nat
  /\ flightsOf \in [Flyers -> Seq(FlightRecords)]
  /\ rows \subseteq InsightRows
  /\ at \in [Refreshes -> {"idle", "reading", "deleted", "done", "failed"}]
  /\ alone \in [Refreshes -> BOOLEAN]
  /\ unseen \in [Refreshes -> SUBSET Flyers]
  /\ DOMAIN gathered = Refreshes /\ \A r \in Refreshes : HasParts(gathered[r])
  /\ doubtful \in BOOLEAN

\* No other refresh runs beside one that is alone, and its delete emptied the table.
AloneIsAlone ==
  \A r \in Refreshes :
    (Insight!Running(r) /\ alone[r]) =>
      /\ \A o \in Refreshes : Insight!Running(o) => o = r
      /\ at[r] = "deleted" => rows = {}

\* A student whom a running refresh read as inactive has flown since, or has not
\* flown lately.
ReadInactive ==
  \A r \in Refreshes : \A s \in gathered[r].inactive :
    s \in Flyers /\ Insight!Running(r) /\ (s \in unseen[r] \/ ~Insight!FlownLately(s))

\* Only a refresh that reads has queries left.
AsksWhileReading ==
  DOMAIN queries = Refreshes /\ \A r \in Refreshes : queries[r] # {} => at[r] = "reading"

OneRowEach ==
  \A s \in Flyers : \E row \in rows :
    row.student = s /\ \A other \in rows : other.student = s => other = row

CalledInactive ==
  \A row \in rows :
    row.isInactive => (row.student \in missed \cup landing \/ ~Insight!FlownLately(row.student))

\* The rows of the last refresh, or none.
RowsAreGood ==
  \/ rows = {} /\ \A r \in Refreshes : at[r] # "done"
  \/ OneRowEach /\ CalledInactive

InsightInv ==
  /\ InsightTypes /\ AloneIsAlone /\ ReadInactive /\ AsksWhileReading
  /\ (~doubtful /\ \A r \in Refreshes : at[r] # "deleted") => RowsAreGood

LEMMA InsightInitially == Insight!Init => InsightInv
<1> SUFFICES ASSUME Insight!Init PROVE InsightInv
  OBVIOUS
<1>1. /\ \A r \in Refreshes : at[r] = "idle" /\ alone[r] = TRUE /\ unseen[r] = {}
      /\ \A r \in Refreshes : gathered[r] = Insight!Nothing
      /\ day = FirstDay /\ rows = {} /\ doubtful = FALSE
  BY DEF Insight!Init
<1>2. InsightTypes
  <2>1. flightsOf \in [Flyers -> Seq(FlightRecords)]
    BY InsightAssumption DEF Insight!Init, FlightRecords
  <2>2. /\ at \in [Refreshes -> {"idle", "reading", "deleted", "done", "failed"}]
        /\ alone \in [Refreshes -> BOOLEAN] /\ DOMAIN gathered = Refreshes
        /\ unseen \in [Refreshes -> SUBSET Flyers]
    BY DEF Insight!Init
  <2>3. HasParts(Insight!Nothing)
    BY DEF HasParts, Insight!Nothing
  <2> QED BY <1>1, <2>1, <2>2, <2>3, InsightAssumption DEF InsightTypes
<1>3. \A r \in Refreshes : ~Insight!Running(r) /\ gathered[r].inactive = {}
  BY <1>1 DEF Insight!Running, Insight!Nothing
<1>4. AsksWhileReading
  BY DEF Insight!Init, AsksWhileReading
<1> QED BY <1>1, <1>2, <1>3, <1>4 DEF InsightInv, AloneIsAlone, ReadInactive, RowsAreGood

\* A refresh begins.
LEMMA StartKeeps ==
  ASSUME InsightInv, NEW r \in Refreshes, Insight!StartRefresh(r) PROVE InsightInv'
<1>1. /\ at[r] = "idle" /\ at' = [at EXCEPT ![r] = "reading"]
      /\ alone' = [q \in Refreshes |-> IF q = r THEN \A o \in Refreshes : ~Insight!Running(o)
                                       ELSE alone[q] /\ ~Insight!Running(q)]
      /\ UNCHANGED <<day, flightsOf, upcoming, landing, rows, gathered, unseen, doubtful, missed>>
  BY DEF Insight!StartRefresh, Insight!school
<1>2. /\ InsightTypes /\ AloneIsAlone /\ ReadInactive
      /\ (~doubtful /\ \A q \in Refreshes : at[q] # "deleted") => RowsAreGood
  BY DEF InsightInv
<1>3. at'[r] = "reading" /\ \A q \in Refreshes \ {r} : at'[q] = at[q]
  BY <1>1, <1>2 DEF InsightTypes
<1>4. /\ ~Insight!Running(r) /\ Insight!Running(r)'
      /\ \A q \in Refreshes \ {r} : Insight!Running(q)' = Insight!Running(q)
  BY <1>1, <1>3 DEF Insight!Running
<1>5. InsightTypes'
  <2>1. alone' \in [Refreshes -> BOOLEAN]
    BY <1>1
  <2>2. at' \in [Refreshes -> {"idle", "reading", "deleted", "done", "failed"}]
    BY <1>1, <1>2 DEF InsightTypes
  <2> QED BY <1>1, <1>2, <2>1, <2>2 DEF InsightTypes
<1>6. AloneIsAlone'
  <2> SUFFICES ASSUME NEW q \in Refreshes, Insight!Running(q)', alone'[q]
               PROVE  q = r /\ \A o \in Refreshes : Insight!Running(o)' => o = q
    BY <1>3 DEF AloneIsAlone
  <2> QED BY <1>1, <1>4
<1>7. ReadInactive'
  <2>1. \A s : Insight!FlownLately(s)' = Insight!FlownLately(s)
    BY <1>1 DEF Insight!FlownLately
  <2> QED BY <1>1, <1>2, <1>4, <2>1 DEF ReadInactive
<1>8. RowsAreGood => RowsAreGood'
  <2>1. \A s : Insight!FlownLately(s)' = Insight!FlownLately(s)
    BY <1>1 DEF Insight!FlownLately
  <2> QED BY <1>1, <1>3, <2>1 DEF RowsAreGood, OneRowEach, CalledInactive
<1>9. AsksWhileReading'
  <2>1. \E asked : queries' = [queries EXCEPT ![r] = asked]
    BY DEF Insight!StartRefresh
  <2> QED BY <1>3, <2>1 DEF InsightInv, AsksWhileReading
<1> QED BY <1>1, <1>2, <1>3, <1>5, <1>6, <1>7, <1>8, <1>9 DEF InsightInv

\* It reads what it has not read yet.
LEMMA ReadsKeep ==
  ASSUME InsightInv, NEW r \in Refreshes, Insight!Running(r),
         \A s : Insight!FlownLately(s)' = Insight!FlownLately(s),
         UNCHANGED <<day, flightsOf, landing, rows, at, alone, unseen, doubtful, missed>>,
         DOMAIN queries' = Refreshes, \A q \in Refreshes : queries'[q] \subseteq queries[q],
         DOMAIN gathered' = Refreshes, HasParts(gathered'[r]),
         \A q \in Refreshes \ {r} : gathered'[q] = gathered[q],
         \A s \in gathered'[r].inactive \ gathered[r].inactive : s \in Flyers /\ ~Insight!FlownLately(s)
  PROVE  InsightInv'
<1>1. \A q : Insight!Running(q)' = Insight!Running(q)
  BY DEF Insight!Running
<1>2. InsightTypes'
  BY DEF InsightInv, InsightTypes
<1>3. AloneIsAlone'
  BY <1>1 DEF InsightInv, AloneIsAlone
<1>4. ReadInactive'
  BY <1>1 DEF InsightInv, ReadInactive
<1>5. RowsAreGood => RowsAreGood'
  BY DEF RowsAreGood, OneRowEach, CalledInactive
<1>6. AsksWhileReading'
  BY DEF InsightInv, AsksWhileReading
<1> QED BY <1>2, <1>3, <1>4, <1>5, <1>6 DEF InsightInv

LEMMA ReadStudentKeeps ==
  ASSUME InsightInv, NEW r \in Refreshes,
         Insight!ReadStudent(r) \/ Insight!ReadInstructor(r)
  PROVE  InsightInv'
<1>1. UNCHANGED <<day, flightsOf, upcoming, landing, rows, at, alone, unseen, doubtful, missed>>
  BY DEF Insight!ReadStudent, Insight!ReadInstructor, Insight!school
<1>2. \A s : Insight!FlownLately(s)' = Insight!FlownLately(s)
  BY <1>1 DEF Insight!FlownLately
<1>3. DOMAIN gathered = Refreshes /\ HasParts(gathered[r])
  BY DEF InsightInv, InsightTypes
<1>6. /\ \E q : q \in queries[r] /\ queries' = [queries EXCEPT ![r] = @ \ {q}]
      /\ DOMAIN queries = Refreshes
  BY DEF Insight!ReadStudent, Insight!ReadInstructor, InsightInv, AsksWhileReading
<1>7. /\ Insight!Running(r)
      /\ DOMAIN queries' = Refreshes /\ \A q \in Refreshes : queries'[q] \subseteq queries[q]
  BY <1>6 DEF InsightInv, AsksWhileReading, Insight!Running
<1>4. CASE Insight!ReadStudent(r)
  <2>1. PICK s \in Flyers :
          \/ gathered' = [gathered EXCEPT ![r].inactive = IF Insight!IsInactive(s) THEN @ \cup {s} ELSE @]
          \/ gathered' = [gathered EXCEPT ![r].atRisk = IF Insight!IsAtRisk(s) THEN @ \cup {s} ELSE @]
    BY <1>4 DEF Insight!ReadStudent
  <2>2. /\ DOMAIN gathered' = Refreshes /\ HasParts(gathered'[r])
        /\ \A q \in Refreshes \ {r} : gathered'[q] = gathered[q]
        /\ \A o \in gathered'[r].inactive \ gathered[r].inactive : o = s /\ Insight!IsInactive(s)
    <3>1. CASE gathered' = [gathered EXCEPT ![r].inactive =
                              IF Insight!IsInactive(s) THEN @ \cup {s} ELSE @]
      BY <1>3, <3>1 DEF HasParts
    <3>2. CASE gathered' = [gathered EXCEPT ![r].atRisk =
                              IF Insight!IsAtRisk(s) THEN @ \cup {s} ELSE @]
      BY <1>3, <3>2 DEF HasParts
    <3> QED BY <2>1, <3>1, <3>2
  <2>3. \A o \in gathered'[r].inactive \ gathered[r].inactive : o \in Flyers /\ ~Insight!FlownLately(o)
    BY <2>2 DEF Insight!IsInactive
  <2> QED BY <1>1, <1>2, <1>7, <2>2, <2>3, ReadsKeep
<1>5. CASE Insight!ReadInstructor(r)
  <2>1. PICK i \in Teachers :
          gathered' = [gathered EXCEPT ![r].workload =
                         @ \cup {w \in Insight!getInstructorWorkload : w.instructor = i}]
    BY <1>5 DEF Insight!ReadInstructor
  <2>2. /\ DOMAIN gathered' = Refreshes /\ HasParts(gathered'[r])
        /\ \A q \in Refreshes \ {r} : gathered'[q] = gathered[q]
        /\ gathered'[r].inactive = gathered[r].inactive
    BY <1>3, <2>1 DEF HasParts
  <2> QED BY <1>1, <1>2, <1>7, <2>2, ReadsKeep
<1> QED BY <1>4, <1>5

\* It deletes the rows.
LEMMA DeleteKeeps ==
  ASSUME InsightInv, NEW r \in Refreshes, Insight!DeleteRows(r) PROVE InsightInv'
<1>1. /\ at[r] = "reading" /\ at' = [at EXCEPT ![r] = "deleted"] /\ rows' = {}
      /\ UNCHANGED <<day, flightsOf, landing, queries, gathered, alone, unseen, doubtful, missed>>
  BY DEF Insight!DeleteRows, Insight!Deleted, Insight!school
<1>2. InsightTypes /\ AloneIsAlone /\ ReadInactive /\ AsksWhileReading /\ queries[r] = {}
  BY DEF InsightInv, Insight!DeleteRows, Insight!Deleted
<1>3. at'[r] = "deleted" /\ \A q \in Refreshes \ {r} : at'[q] = at[q]
  BY <1>1, <1>2 DEF InsightTypes
<1>4. \A q \in Refreshes : Insight!Running(q)' = Insight!Running(q)
  BY <1>1, <1>3 DEF Insight!Running
<1>5. InsightTypes'
  BY <1>1, <1>2 DEF InsightTypes
<1>6. AloneIsAlone'
  BY <1>1, <1>2, <1>4 DEF AloneIsAlone
<1>7. ReadInactive'
  <2>1. \A s : Insight!FlownLately(s)' = Insight!FlownLately(s)
    BY <1>1 DEF Insight!FlownLately
  <2> QED BY <1>1, <1>2, <1>4, <2>1 DEF ReadInactive
<1>8. AsksWhileReading'
  BY <1>1, <1>2, <1>3 DEF AsksWhileReading
<1> QED BY <1>3, <1>5, <1>6, <1>7, <1>8 DEF InsightInv

\* It ends: what it kept is gone, and others go on.
LEMMA LeaveKeeps ==
  ASSUME InsightInv, NEW r \in Refreshes, NEW end \in {"done", "failed"}, Insight!Running(r),
         Insight!Leave(r, end), doubtful' \in BOOLEAN, rows' \subseteq InsightRows,
         \A o \in Refreshes : (Insight!Running(o) /\ alone[o]) => o = r,
         (~doubtful' /\ \A q \in Refreshes : at'[q] # "deleted") => RowsAreGood'
  PROVE  InsightInv'
<1>1. /\ at' = [at EXCEPT ![r] = end]
      /\ queries' = [queries EXCEPT ![r] = {}]
      /\ gathered' = [gathered EXCEPT ![r] = Insight!Nothing]
      /\ unseen' = [unseen EXCEPT ![r] = {}]
      /\ alone' = [alone EXCEPT ![r] = TRUE]
      /\ UNCHANGED <<day, flightsOf, landing>>
  BY DEF Insight!Leave, Insight!school
<1>2. InsightTypes /\ ReadInactive /\ AsksWhileReading
  BY DEF InsightInv
<1>3. /\ at'[r] = end /\ alone'[r] = TRUE /\ gathered'[r] = Insight!Nothing /\ unseen'[r] = {}
      /\ \A q \in Refreshes \ {r} : /\ at'[q] = at[q] /\ alone'[q] = alone[q]
                                    /\ gathered'[q] = gathered[q] /\ unseen'[q] = unseen[q]
  BY <1>1, <1>2 DEF InsightTypes
<1>4. /\ ~Insight!Running(r)'
      /\ \A q \in Refreshes \ {r} : Insight!Running(q)' = Insight!Running(q)
  BY <1>3 DEF Insight!Running
<1>5. InsightTypes'
  <2>1. HasParts(Insight!Nothing)
    BY DEF HasParts, Insight!Nothing
  <2>2. \A q \in Refreshes : HasParts(gathered'[q])
    BY <1>2, <1>3, <2>1 DEF InsightTypes
  <2>3. /\ at' \in [Refreshes -> {"idle", "reading", "deleted", "done", "failed"}]
        /\ alone' \in [Refreshes -> BOOLEAN] /\ unseen' \in [Refreshes -> SUBSET Flyers]
        /\ DOMAIN gathered' = Refreshes
    BY <1>1, <1>2 DEF InsightTypes
  <2> QED BY <1>1, <1>2, <2>2, <2>3 DEF InsightTypes
<1>6. AloneIsAlone'
  BY <1>3, <1>4 DEF AloneIsAlone
<1>7. ReadInactive'
  <2>1. \A s : Insight!FlownLately(s)' = Insight!FlownLately(s)
    BY <1>1 DEF Insight!FlownLately
  <2>2. Insight!Nothing.inactive = {}
    BY DEF Insight!Nothing
  <2> QED BY <1>2, <1>3, <1>4, <2>1, <2>2 DEF ReadInactive
<1>8. AsksWhileReading'
  BY <1>1, <1>2, <1>3 DEF AsksWhileReading
<1> QED BY <1>5, <1>6, <1>7, <1>8 DEF InsightInv

LEMMA InsertKeeps ==
  ASSUME InsightInv, NEW r \in Refreshes, Insight!InsertRows(r) PROVE InsightInv'
<1> DEFINE new(s) == [by |-> r, student |-> s, isInactive |-> s \in gathered[r].inactive,
                      isCheckrideReady |-> Insight!IsCheckrideReady(s),
                      isAtRisk |-> s \in gathered[r].atRisk]
<1>1. /\ at[r] = "deleted" /\ rows' = rows \cup {new(s) : s \in Flyers}
      /\ doubtful' = ~alone[r] /\ missed' = unseen[r] /\ Insight!Leave(r, "done")
  BY DEF Insight!InsertRows
<1>2. InsightTypes /\ AloneIsAlone /\ ReadInactive /\ Insight!Running(r)
  BY <1>1 DEF InsightInv, Insight!Running
<1>3. \A s \in Flyers : new(s) \in InsightRows
  <2>1. \A s : Insight!IsCheckrideReady(s) \in BOOLEAN
    BY DEF Insight!IsCheckrideReady
  <2> QED BY <2>1 DEF InsightRows
<1>4. ASSUME alone[r] PROVE RowsAreGood'
  <2>1. rows' = {new(s) : s \in Flyers}
    BY <1>1, <1>2, <1>4 DEF AloneIsAlone
  <2>2. \A s : Insight!FlownLately(s)' = Insight!FlownLately(s)
    BY <1>1 DEF Insight!FlownLately, Insight!Leave, Insight!school
  <2>3. \A s \in Flyers : new(s).student = s /\ (new(s).isInactive => s \in gathered[r].inactive)
    OBVIOUS
  <2> HIDE DEF new
  <2>4. OneRowEach'
    BY <2>1, <2>3 DEF OneRowEach
  <2>5. CalledInactive'
    BY <1>1, <1>2, <2>1, <2>2, <2>3 DEF CalledInactive, ReadInactive
  <2> QED BY <2>4, <2>5 DEF RowsAreGood
<1>5. /\ doubtful' \in BOOLEAN /\ rows' \subseteq InsightRows
  BY <1>1, <1>2, <1>3 DEF InsightTypes
<1>6. \A o \in Refreshes : (Insight!Running(o) /\ alone[o]) => o = r
  BY <1>2 DEF AloneIsAlone
<1>7. ~doubtful' => RowsAreGood'
  BY <1>1, <1>4
<1> HIDE DEF new
<1> QED BY <1>1, <1>2, <1>5, <1>6, <1>7, LeaveKeeps

LEMMA FailKeeps ==
  ASSUME InsightInv, NEW r \in Refreshes, Insight!FailRefresh(r) PROVE InsightInv'
<1>1. /\ Insight!Running(r) /\ doubtful' = (doubtful \/ at[r] = "deleted" \/ ~alone[r])
      /\ Insight!Leave(r, "failed") /\ UNCHANGED <<rows, missed>>
  BY DEF Insight!FailRefresh
<1>2. InsightTypes /\ AloneIsAlone
  BY DEF InsightInv
<1>3. doubtful' \in BOOLEAN /\ rows' \subseteq InsightRows
  BY <1>1, <1>2 DEF InsightTypes
<1>4. \A o \in Refreshes : (Insight!Running(o) /\ alone[o]) => o = r
  BY <1>1, <1>2 DEF AloneIsAlone
<1>5. ASSUME ~doubtful', \A q \in Refreshes : at'[q] # "deleted" PROVE RowsAreGood'
  <2>1. /\ ~doubtful /\ at[r] # "deleted" /\ at' = [at EXCEPT ![r] = "failed"]
        /\ UNCHANGED <<day, flightsOf, landing>>
    BY <1>1, <1>2, <1>5 DEF InsightTypes, Insight!Leave, Insight!school
  <2>2. at'[r] = "failed" /\ \A q \in Refreshes \ {r} : at'[q] = at[q]
    BY <1>2, <2>1 DEF InsightTypes
  <2>3. RowsAreGood
    BY <1>5, <2>1, <2>2 DEF InsightInv
  <2>4. \A s : Insight!FlownLately(s)' = Insight!FlownLately(s)
    BY <2>1 DEF Insight!FlownLately
  <2> QED BY <1>1, <2>1, <2>2, <2>3, <2>4 DEF RowsAreGood, OneRowEach, CalledInactive
<1> QED BY <1>1, <1>3, <1>4, <1>5, LeaveKeeps

\* Flights, bookings and days pass while the rows and the refreshes stay.
LEMMA OutsideKeeps ==
  ASSUME InsightInv, InsightTypes', UNCHANGED <<rows, at, queries, gathered, alone, doubtful, missed>>,
         landing \subseteq landing', \A r \in Refreshes : unseen[r] \subseteq unseen'[r],
         \A s \in Flyers :
           (Insight!FlownLately(s)' /\ ~Insight!FlownLately(s)) =>
             s \in landing' /\ \A r \in Refreshes : Insight!Running(r) => s \in unseen'[r]
  PROVE  InsightInv'
<1>1. \A r \in Refreshes : Insight!Running(r)' = Insight!Running(r)
  BY DEF Insight!Running
<1>2. AloneIsAlone' /\ AsksWhileReading'
  BY <1>1 DEF InsightInv, AloneIsAlone, AsksWhileReading
<1>3. ReadInactive'
  <2> SUFFICES ASSUME NEW r \in Refreshes, NEW s \in gathered[r].inactive
               PROVE  s \in Flyers /\ Insight!Running(r)' /\ (s \in unseen'[r] \/ ~Insight!FlownLately(s)')
    BY DEF ReadInactive
  <2>1. s \in Flyers /\ Insight!Running(r) /\ (s \in unseen[r] \/ ~Insight!FlownLately(s))
    BY DEF InsightInv, ReadInactive
  <2> QED BY <1>1, <2>1
<1>4. RowsAreGood => RowsAreGood'
  <2>1. \A row \in rows : row.student \in Flyers
    BY DEF InsightInv, InsightTypes, InsightRows
  <2>2. CalledInactive => CalledInactive'
    BY <2>1 DEF CalledInactive
  <2> QED BY <2>2 DEF RowsAreGood, OneRowEach
<1> QED BY <1>2, <1>3, <1>4 DEF InsightInv

LEMMA CompleteKeeps ==
  ASSUME InsightInv, NEW s \in Flyers, NEW i \in Teachers, Insight!CompleteFlight(s, i)
  PROVE  InsightInv'
<1>1. /\ flightsOf' = [flightsOf EXCEPT ![s] = Append(@, [day |-> day, by |-> i])]
      /\ landing' = landing \cup {s}
      /\ unseen' = [r \in Refreshes |-> IF Insight!Running(r) THEN unseen[r] \cup {s} ELSE unseen[r]]
      /\ UNCHANGED <<day, rows, at, queries, gathered, alone, doubtful, missed>>
  BY DEF Insight!CompleteFlight, Insight!Unseen
<1>2. InsightTypes
  BY DEF InsightInv
<1>3. InsightTypes'
  <2>1. [day |-> day, by |-> i] \in FlightRecords
    BY <1>2 DEF InsightTypes, FlightRecords
  <2>2. Append(flightsOf[s], [day |-> day, by |-> i]) \in Seq(FlightRecords)
    BY <1>2, <2>1, AppendProperties DEF InsightTypes
  <2>3. flightsOf' \in [Flyers -> Seq(FlightRecords)]
    BY <1>1, <1>2, <2>2 DEF InsightTypes
  <2>4. unseen' \in [Refreshes -> SUBSET Flyers]
    BY <1>1, <1>2 DEF InsightTypes
  <2> QED BY <1>1, <1>2, <2>3, <2>4 DEF InsightTypes
<1>4. \A r \in Refreshes : unseen[r] \subseteq unseen'[r] /\ (Insight!Running(r) => s \in unseen'[r])
  BY <1>1
<1>5. ASSUME NEW o \in Flyers, Insight!FlownLately(o)', ~Insight!FlownLately(o) PROVE o = s
  <2>1. o # s => flightsOf'[o] = flightsOf[o]
    BY <1>1, <1>2 DEF InsightTypes
  <2> QED BY <1>1, <1>5, <2>1 DEF Insight!FlownLately
<1> QED BY <1>1, <1>3, <1>4, <1>5, OutsideKeeps

LEMMA CalendarKeeps ==
  ASSUME InsightInv, Insight!NextDay \/ \E s \in Flyers : Insight!BookFlight(s)
  PROVE  InsightInv'
<1>1. /\ UNCHANGED <<flightsOf, landing, rows, at, queries, gathered, alone, unseen, doubtful, missed>>
      /\ day' = day \/ day' = day + 1
  BY DEF Insight!NextDay, Insight!BookFlight, Insight!refresh
<1>2. InsightTypes /\ InsightTypes'
  <2>1. day \in Nat => day' \in Nat
    BY <1>1
  <2> QED BY <1>1, <2>1 DEF InsightInv, InsightTypes
<1>3. ASSUME NEW s \in Flyers, Insight!FlownLately(s)' PROVE Insight!FlownLately(s)
  <2>1. PICK n \in DOMAIN flightsOf[s] : flightsOf[s][n].day > day' - 14
    BY <1>1, <1>3 DEF Insight!FlownLately, Insight!INACTIVE_THRESHOLD_DAYS
  <2>2. flightsOf[s][n].day \in Nat /\ day \in Nat
    <3>1. flightsOf[s] \in Seq(FlightRecords)
      BY <1>2 DEF InsightTypes
    <3>2. flightsOf[s][n] \in FlightRecords
      BY <3>1, <2>1, ElementOfSeq
    <3> QED BY <1>2, <3>2 DEF InsightTypes, FlightRecords
  <2>3. flightsOf[s][n].day > day - 14
    BY <1>1, <2>1, <2>2
  <2> QED BY <2>3 DEF Insight!FlownLately, Insight!INACTIVE_THRESHOLD_DAYS
<1> QED BY <1>1, <1>2, <1>3, OutsideKeeps

\* The simulation writes the rows of one student; none of them becomes inactive.
LEMMA RewriteKeeps ==
  ASSUME InsightInv, NEW s \in Flyers, Insight!UpdateInsights(s) \/ Insight!MarkAtRisk(s)
  PROVE  InsightInv'
<1>1. PICK g : /\ rows' = {g[row] : row \in rows}
               /\ \A row \in rows : /\ g[row] \in InsightRows /\ g[row].student = row.student
                                    /\ g[row].isInactive => row.isInactive
                                    /\ (row.student = s /\ s \in landing \ landing') => ~g[row].isInactive
  <2>1. CASE Insight!UpdateInsights(s)
    <3> DEFINE g == [row \in rows |-> IF row.student = s THEN [row EXCEPT !.isInactive = FALSE] ELSE row]
    <3>1. rows' = {g[row] : row \in rows}
      BY <2>1 DEF Insight!UpdateInsights
    <3>2. ASSUME NEW row \in rows
          PROVE  /\ g[row] \in InsightRows /\ g[row].student = row.student
                 /\ g[row].isInactive => row.isInactive
                 /\ row.student = s => ~g[row].isInactive
      <4>1. row \in InsightRows
        BY DEF InsightInv, InsightTypes
      <4> QED BY <4>1 DEF InsightRows
    <3> HIDE DEF g
    <3> QED BY <3>1, <3>2
  <2>2. CASE Insight!MarkAtRisk(s)
    <3> DEFINE g == [row \in rows |-> IF row.student = s THEN [row EXCEPT !.isAtRisk = TRUE] ELSE row]
    <3>1. rows' = {g[row] : row \in rows} /\ landing' = landing
      BY <2>2 DEF Insight!MarkAtRisk, Insight!school
    <3>2. ASSUME NEW row \in rows
          PROVE  /\ g[row] \in InsightRows /\ g[row].student = row.student
                 /\ g[row].isInactive => row.isInactive
      <4>1. row \in InsightRows
        BY DEF InsightInv, InsightTypes
      <4> QED BY <4>1 DEF InsightRows
    <3> HIDE DEF g
    <3> QED BY <3>1, <3>2
  <2> QED BY <2>1, <2>2
<1>2. /\ UNCHANGED <<day, flightsOf, at, queries, gathered, alone, doubtful, missed>>
      /\ landing \ {s} \subseteq landing'
      /\ \A r \in Refreshes : unseen[r] \subseteq unseen'[r]
      /\ unseen' \in [Refreshes -> SUBSET Flyers]
  <2>1. unseen \in [Refreshes -> SUBSET Flyers]
    BY DEF InsightInv, InsightTypes
  <2>2. CASE Insight!UpdateInsights(s)
    BY <2>1, <2>2 DEF Insight!UpdateInsights, Insight!Unseen
  <2>3. CASE Insight!MarkAtRisk(s)
    BY <2>1, <2>3 DEF Insight!MarkAtRisk, Insight!school, Insight!refresh
  <2> QED BY <2>2, <2>3
<1>3. \A r \in Refreshes : Insight!Running(r)' = Insight!Running(r)
  BY <1>2 DEF Insight!Running
<1>4. \A o : Insight!FlownLately(o)' = Insight!FlownLately(o)
  BY <1>2 DEF Insight!FlownLately
<1>5. InsightTypes'
  BY <1>1, <1>2 DEF InsightInv, InsightTypes
<1>6. AloneIsAlone' /\ AsksWhileReading'
  BY <1>1, <1>2, <1>3 DEF InsightInv, AloneIsAlone, AsksWhileReading
<1>7. ReadInactive'
  BY <1>2, <1>3, <1>4 DEF InsightInv, ReadInactive
<1>8. OneRowEach => OneRowEach'
  <2> SUFFICES ASSUME OneRowEach, NEW o \in Flyers
               PROVE  \E row \in rows' :
                        row.student = o /\ \A other \in rows' : other.student = o => other = row
    BY DEF OneRowEach
  <2>1. PICK row \in rows : row.student = o /\ \A other \in rows : other.student = o => other = row
    BY DEF OneRowEach
  <2>2. g[row] \in rows' /\ g[row].student = o
    BY <1>1, <2>1
  <2>3. ASSUME NEW other \in rows', other.student = o PROVE other = g[row]
    <3>1. PICK old \in rows : other = g[old]
      BY <1>1
    <3> QED BY <1>1, <2>1, <2>3, <3>1
  <2> QED BY <2>2, <2>3
<1>9. CalledInactive => CalledInactive'
  <2> SUFFICES ASSUME CalledInactive, NEW other \in rows', other.isInactive
               PROVE  other.student \in missed' \cup landing' \/ ~Insight!FlownLately(other.student)'
    BY DEF CalledInactive
  <2>1. PICK old \in rows : other = g[old]
    BY <1>1
  <2>2. old.isInactive /\ other.student = old.student
    BY <1>1, <2>1
  <2>3. old.student \in missed \cup landing \/ ~Insight!FlownLately(old.student)
    BY <2>2 DEF CalledInactive
  <2>4. old.student \in landing => old.student \in landing'
    BY <1>1, <1>2, <2>1
  <2> QED BY <1>2, <1>4, <2>2, <2>3, <2>4
<1>10. RowsAreGood => RowsAreGood'
  BY <1>1, <1>2, <1>8, <1>9 DEF RowsAreGood
<1> QED BY <1>2, <1>5, <1>6, <1>7, <1>10 DEF InsightInv

LEMMA InsightStepwise == InsightInv /\ [Insight!Next]_insightVars => InsightInv'
<1> SUFFICES ASSUME InsightInv, [Insight!Next]_insightVars PROVE InsightInv'
  OBVIOUS
<1>1. ASSUME NEW r \in Refreshes,
             \/ Insight!StartRefresh(r) \/ Insight!ReadStudent(r) \/ Insight!ReadInstructor(r)
             \/ Insight!DeleteRows(r) \/ Insight!InsertRows(r) \/ Insight!FailRefresh(r)
      PROVE  InsightInv'
  BY <1>1, StartKeeps, ReadStudentKeeps, DeleteKeeps, InsertKeeps, FailKeeps
<1>2. ASSUME NEW s \in Flyers,
             \/ Insight!UpdateInsights(s) \/ Insight!MarkAtRisk(s) \/ Insight!BookFlight(s)
             \/ \E i \in Teachers : Insight!CompleteFlight(s, i)
      PROVE  InsightInv'
  BY <1>2, RewriteKeeps, CalendarKeeps, CompleteKeeps
<1>3. CASE Insight!NextDay
  BY <1>3, CalendarKeeps
<1>4. CASE UNCHANGED insightVars
  <2>1. UNCHANGED <<day, flightsOf, upcoming, landing, rows, at, queries, gathered, alone, unseen,
                    doubtful, missed>>
    BY <1>4 DEF insightVars
  <2>2. \A s : Insight!FlownLately(s)' = Insight!FlownLately(s)
    BY <2>1 DEF Insight!FlownLately
  <2> QED BY <2>1, <2>2, OutsideKeeps DEF InsightInv, InsightTypes
<1> QED BY <1>1, <1>2, <1>3, <1>4 DEF Insight!Next

LEMMA InsightMove == [Next]_vars /\ scene = "insights" => [Insight!Next]_insightVars
BY DEF Next, vars, LoginStep, DisruptionStep, SimulatedStep, QueueStep, PoliciesStep,
       TemplatesStep, DiscoveryStep, InsightStep

\* The rows of the last refresh are one for each student, and call no student
\* inactive who has flown lately, unless the refresh was not alone, failed after
\* its delete, or the student flew while it ran or as the rows are written.
THEOREM RowsAreOnePerStudent == Spec => []RowsDescribeFlights
<1> DEFINE I == scene = "insights" => InsightInv
<1>1. Init => I
  BY InsightInitially DEF Init
<1>2. I /\ [Next]_vars => I'
  BY SceneStays, InsightMove, InsightStepwise
<1>3. InsightInv => Insight!RowsDescribeFlights
  <2> SUFFICES ASSUME InsightInv, ~doubtful, \A r \in Refreshes : ~Insight!Running(r),
                      OneRowEach, CalledInactive, NEW s \in Flyers
               PROVE  /\ Insight!Cardinality({row \in rows : row.student = s}) = 1
                      /\ \A row \in rows : (row.student = s /\ row.isInactive) =>
                           (s \in missed \cup landing \/ ~Insight!FlownLately(s))
    BY DEF InsightInv, RowsAreGood, Insight!RowsDescribeFlights, Insight!Running
  <2>1. PICK row \in rows : row.student = s /\ \A other \in rows : other.student = s => other = row
    BY DEF OneRowEach
  <2>2. {other \in rows : other.student = s} = {row}
    BY <2>1
  <2>3. \A S : Insight!Cardinality(S) = Cardinality(S)
    BY DEF Insight!Cardinality, Cardinality
  <2>4. Cardinality({row}) = 1
    BY FS_Singleton
  <2> QED BY <2>2, <2>3, <2>4 DEF CalledInactive
<1>4. I => RowsDescribeFlights
  BY <1>3 DEF RowsDescribeFlights
<1> QED BY <1>1, <1>2, <1>4, PTL DEF Spec

================================================================================
