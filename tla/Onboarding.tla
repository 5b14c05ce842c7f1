------------------------------ MODULE Onboarding ------------------------------
(***************************************************************************)
(* Login (auth.service.ts), the provisioning of an operator on its first   *)
(* login (onboarding.service.ts), its feature flags                        *)
(* (feature-flag.service.ts) and its scheduling policy                     *)
(* (policies.service.ts).  A process is one POST /auth/login or the seeder *)
(* of mock mode, which onboards at the start of the API                    *)
(* (mock-suggestions-seeder.ts); a step is one statement.  Nothing is in a *)
(* transaction, and unique keys turn the second of two inserts away.       *)
(***************************************************************************)
EXTENDS Integers, FiniteSets

CONSTANTS
  Logins, Seeders,   \* processes that onboard the operator
  Editors,           \* requests of logged-in users that change a flag or the policy
  DefaultFlags,      \* names of the flags every operator has
  EnabledFlags,      \* those that are enabled by default
  AutoApproveFlag,   \* the one that mock mode switches on
  PolicyFields       \* fields of a policy

VARIABLES
  rowsOf,       \* which of operator, policy, templates and sync_state exist
  flags,        \* feature_flags: flag name |-> enabled
  policy,       \* the values set so far: field |-> changed or not
  step,         \* where a process is
  toSeed,       \* the flags missing when a process listed them
  switch,       \* it found auto_approve disabled then
  edited        \* the request of an editor

vars == <<rowsOf, flags, policy, step, toSeed, switch, edited>>

Processes == Logins \cup Seeders
Tables == {"operator", "policy", "templates", "sync"}
\* The tables in the order onboardOperator writes them, and what comes next.
After == [operator |-> "policy", policy |-> "templates", templates |-> "sync", sync |-> "list"]

MockMode == Seeders # {}

Init ==
  /\ rowsOf = {}
  /\ flags = [f \in {} |-> FALSE]
  /\ policy = [f \in PolicyFields |-> "default"]
  /\ step = [p \in Processes \cup Editors |-> "idle"]
  /\ toSeed = [p \in Processes |-> {}]
  /\ switch = [p \in Processes |-> FALSE]
  /\ edited = [e \in Editors |-> "none"]

To(p, next) == step' = [step EXCEPT ![p] = next]

--------------------------------------------------------------------------------
(* Login. *)

\* FSP accepts the credentials, asks for a second factor, or one of the calls
\* for the user, the operators and the permissions fails.
SignIn(p) ==
  /\ p \in Logins /\ step[p] = "idle"
  /\ \E next \in {"check", "mfa", "refused"} : To(p, next)
  /\ UNCHANGED <<rowsOf, flags, policy, toSeed, switch, edited>>

Mfa(p) ==
  /\ step[p] = "mfa"
  /\ \E next \in {"check", "refused"} : To(p, next)
  /\ UNCHANGED <<rowsOf, flags, policy, toSeed, switch, edited>>

StartSeeder(p) ==
  /\ p \in Seeders /\ step[p] = "idle"
  /\ To(p, "check")
  /\ UNCHANGED <<rowsOf, flags, policy, toSeed, switch, edited>>

\* What a process does when the operator is onboarded: a login answers with a
\* token, the seeder seeds the flags once more.
Onboarded(p) == IF p \in Logins THEN "token" ELSE "list again"

IsOnboarded(p) ==
  /\ step[p] = "check"
  /\ To(p, IF "operator" \in rowsOf THEN Onboarded(p) ELSE "operator")
  /\ UNCHANGED <<rowsOf, flags, policy, toSeed, switch, edited>>

\* One insert of onboardOperator; each table has a unique key.
InsertRow(p) ==
  /\ step[p] \in Tables
  /\ IF step[p] \in rowsOf
     THEN To(p, "failed") /\ UNCHANGED rowsOf
     ELSE To(p, After[step[p]]) /\ rowsOf' = rowsOf \cup {step[p]}
  /\ UNCHANGED <<flags, policy, toSeed, switch, edited>>

Throw(p) ==
  /\ step[p] \in Tables \cup {"check", "list", "list again", "seed", "seed again",
                        "switch", "switch again"}
  /\ To(p, "failed")
  /\ UNCHANGED <<rowsOf, flags, policy, toSeed, switch, edited>>

--------------------------------------------------------------------------------
(* Feature flags. *)

\* A bug: an operator with any flag is taken to have them all.
MissingFlagsIfNone == IF DOMAIN flags = {} THEN DefaultFlags ELSE {}

MissingFlags == DefaultFlags \ DOMAIN flags

\* seedDefaultFlags: which flags exist, and how auto_approve is set.
ListFlags(p) ==
  /\ step[p] \in {"list", "list again"}
  /\ toSeed' = [toSeed EXCEPT ![p] = MissingFlags]
  /\ switch' = [switch EXCEPT ![p] = /\ MockMode
                                     /\ AutoApproveFlag \in DOMAIN flags
                                     /\ ~flags[AutoApproveFlag]]
  /\ To(p, IF step[p] = "list" THEN "seed" ELSE "seed again")
  /\ UNCHANGED <<rowsOf, flags, policy, edited>>

Seeded(p) == IF step[p] \in {"seed", "switch"} THEN Onboarded(p) ELSE "seeded"

\* One insert of all that were missing: a unique key refuses all of them when
\* one exists by now.
SeedFlags(p) ==
  /\ step[p] \in {"seed", "seed again"}
  /\ IF toSeed[p] \cap DOMAIN flags # {}
     THEN To(p, "failed") /\ UNCHANGED flags
     ELSE /\ flags' = [f \in DOMAIN flags \cup toSeed[p] |->
                         IF f \in toSeed[p] THEN f \in EnabledFlags ELSE flags[f]]
          /\ To(p, CASE switch[p] /\ step[p] = "seed" -> "switch"
                     [] switch[p] /\ step[p] # "seed" -> "switch again"
                     [] ~switch[p] -> Seeded(p))
  /\ UNCHANGED <<rowsOf, policy, toSeed, switch, edited>>

\* In mock mode, auto_approve does not stay disabled.
SwitchOn(p) ==
  /\ step[p] \in {"switch", "switch again"}
  /\ flags' = [flags EXCEPT ![AutoApproveFlag] = TRUE]
  /\ To(p, Seeded(p))
  /\ UNCHANGED <<rowsOf, policy, toSeed, switch, edited>>

--------------------------------------------------------------------------------
(* Users with a token change a flag (setFlag selects, then updates or      *)
(* inserts) or a field of the policy (updatePolicy, 404 without a row).    *)

LoggedIn == \E p \in Logins : step[p] = "token"

SelectForEdit(e) ==
  /\ step[e] = "idle" /\ LoggedIn
  /\ \/ \E f \in DefaultFlags :
          /\ edited' = [edited EXCEPT ![e] = f]
          /\ To(e, IF f \in DOMAIN flags THEN "update flag" ELSE "insert flag")
     \/ \E f \in PolicyFields :
          /\ edited' = [edited EXCEPT ![e] = f]
          /\ To(e, IF "policy" \in rowsOf THEN "update policy" ELSE "not found")
  /\ UNCHANGED <<rowsOf, flags, policy, toSeed, switch>>

SetFlag(e) ==
  /\ \/ step[e] = "update flag"
     \/ step[e] = "insert flag" /\ edited[e] \notin DOMAIN flags
  /\ \E enabled \in BOOLEAN :
       flags' = [f \in DOMAIN flags \cup {edited[e]} |->
                   IF f = edited[e] THEN enabled ELSE flags[f]]
  /\ To(e, "answered")
  /\ UNCHANGED <<rowsOf, policy, toSeed, switch, edited>>

RefuseFlag(e) ==
  /\ step[e] = "insert flag" /\ edited[e] \in DOMAIN flags
  /\ To(e, "refused")
  /\ UNCHANGED <<rowsOf, flags, policy, toSeed, switch, edited>>

UpdatePolicy(e) ==
  /\ step[e] = "update policy"
  /\ policy' = [policy EXCEPT ![edited[e]] = "changed"]
  /\ To(e, "answered")
  /\ UNCHANGED <<rowsOf, flags, toSeed, switch, edited>>

Next ==
  \/ \E p \in Processes :
       \/ SignIn(p) \/ Mfa(p) \/ StartSeeder(p) \/ IsOnboarded(p) \/ InsertRow(p)
       \/ ListFlags(p) \/ SeedFlags(p) \/ SwitchOn(p) \/ Throw(p)
  \/ \E e \in Editors : SelectForEdit(e) \/ SetFlag(e) \/ RefuseFlag(e) \/ UpdatePolicy(e)

Spec == Init /\ [][Next]_vars

--------------------------------------------------------------------------------
\* A user with a token works for an operator that has all its rows and flags,
\* unless a process failed while it onboarded the operator (nobody repairs
\* that) or still does (a second login does not wait for the first).
TokenMeansProvisioned ==
  LoggedIn =>
    \/ rowsOf = Tables /\ DOMAIN flags = DefaultFlags
    \/ \E p \in Processes : step[p] \notin {"idle", "mfa", "refused", "token", "seeded"}

================================================================================
