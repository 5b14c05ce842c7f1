------------------------------- MODULE PolicyForm -------------------------------
(***************************************************************************)
(* The policies page of the web console (policies/page.tsx) against the    *)
(* API.  Several tabs hold a copy of the one row; a tab reads it once,      *)
(* sends all of its fields back when it saves, and knows nothing of the    *)
(* other tabs.  A request is read or applied at the API at one moment and  *)
(* its answer reaches the tab at a later one.                              *)
(***************************************************************************)
EXTENDS Integers

CONSTANTS
  PolicyTabs,        \* pages that are open
  Fields,            \* of the policy: a limit, a weight, a preference
  Values, Default,   \* what a field may hold, and what DEFAULT_POLICIES gives it
  Unset              \* a field the row has no value for

VARIABLES
  policy,      \* scheduling_policies: the row
  form,        \* the form of a tab
  formAt,      \* where it is: loading, read, lost, shown, saving, stored, refused
  carried,     \* what the request or the answer under way carries
  touched,     \* fields the user changed since the form was filled
  basis        \* what the form comes from: row, defaults, or a row others changed since

vars == <<policy, form, formAt, carried, touched, basis>>

DEFAULT_POLICIES == [f \in Fields |-> Default]

Init ==
  /\ policy \in [Fields -> {Unset, Default}]
  /\ form = [t \in PolicyTabs |-> DEFAULT_POLICIES]
  /\ formAt = [t \in PolicyTabs |-> "loading"]
  /\ carried = [t \in PolicyTabs |-> DEFAULT_POLICIES]
  /\ touched = [t \in PolicyTabs |-> {}]
  /\ basis = [t \in PolicyTabs |-> "defaults"]

--------------------------------------------------------------------------------
\* A bug: the defaults are spread after the row, and win.
MergeDefaultsLast(row) == [f \in Fields |-> Default]

\* {...DEFAULT_POLICIES, ...row}, and the same for the nested objects.
Merge(row) == [f \in Fields |-> IF row[f] = Unset THEN Default ELSE row[f]]

FormTo(t, next) == formAt' = [formAt EXCEPT ![t] = next]

\* The API answers the GET of a page with the row, or the GET fails.
GetPolicy(t) ==
  /\ formAt[t] = "loading"
  /\ \/ FormTo(t, "read") /\ carried' = [carried EXCEPT ![t] = policy]
        /\ basis' = [basis EXCEPT ![t] = "row"]
     \/ FormTo(t, "lost") /\ basis' = [basis EXCEPT ![t] = "defaults"]
        /\ UNCHANGED carried
  /\ UNCHANGED <<policy, form, touched>>

\* A GET that failed leaves the defaults in the form, which can be saved.
ShowForm(t) ==
  /\ formAt[t] \in {"read", "lost"}
  /\ form' = [form EXCEPT ![t] = IF formAt[t] = "read" THEN Merge(carried[t])
                                 ELSE DEFAULT_POLICIES]
  /\ carried' = [carried EXCEPT ![t] = DEFAULT_POLICIES]
  /\ FormTo(t, "shown")
  /\ UNCHANGED <<policy, touched, basis>>

\* The inputs stay usable while a PUT is under way.
EditField(t, f, v) ==
  /\ formAt[t] \in {"shown", "saving", "stored", "refused"}
  /\ form' = [form EXCEPT ![t][f] = v]
  /\ touched' = [touched EXCEPT ![t] = @ \cup {f}]
  /\ UNCHANGED <<policy, formAt, carried, basis>>

\* handleSubmit: the whole form; the button is disabled until the answer.
SubmitForm(t) ==
  /\ formAt[t] = "shown"
  /\ carried' = [carried EXCEPT ![t] = form[t]]
  /\ FormTo(t, "saving")
  /\ UNCHANGED <<policy, form, touched, basis>>

\* PUT /policies: every field of the body is set, or a value is refused.
UpdatePolicy(t) ==
  /\ formAt[t] = "saving"
  /\ \/ /\ policy' = carried[t]
        /\ basis' = [u \in PolicyTabs |-> IF u = t THEN "row"
                                          ELSE IF basis[u] = "row" THEN "changed" ELSE basis[u]]
        /\ FormTo(t, "stored")
     \/ FormTo(t, "refused") /\ UNCHANGED <<policy, basis>>
  /\ UNCHANGED <<form, carried, touched>>

\* The row in the answer replaces the form, with what was typed meanwhile; an
\* error, or an answer that is lost, leaves it.
AnswerForm(t) ==
  /\ formAt[t] \in {"stored", "refused"}
  /\ \/ /\ formAt[t] = "stored"
        /\ form' = [form EXCEPT ![t] = Merge(carried[t])]
        /\ touched' = [touched EXCEPT ![t] = {}]
     \/ UNCHANGED <<form, touched>>
  /\ carried' = [carried EXCEPT ![t] = DEFAULT_POLICIES]
  /\ FormTo(t, "shown")
  /\ UNCHANGED <<policy, basis>>

\* The user opens the page again, while no PUT of it is under way.
ReopenForm(t) ==
  /\ formAt[t] = "shown"
  /\ form' = [form EXCEPT ![t] = DEFAULT_POLICIES]
  /\ touched' = [touched EXCEPT ![t] = {}]
  /\ basis' = [basis EXCEPT ![t] = "defaults"]
  /\ FormTo(t, "loading")
  /\ UNCHANGED <<policy, carried>>

Next ==
  \E t \in PolicyTabs :
    \/ GetPolicy(t) \/ ShowForm(t) \/ SubmitForm(t) \/ UpdatePolicy(t) \/ AnswerForm(t)
    \/ ReopenForm(t)
    \/ \E f \in Fields, v \in Values : EditField(t, f, v)

Spec == Init /\ [][Next]_vars

--------------------------------------------------------------------------------
(* Properties. *)

KeepsUnedited(t) ==
  formAt[t] = "saving" /\ formAt'[t] = "stored" /\ basis[t] = "row" =>
    \A f \in Fields \ touched[t] : policy[f] # Unset => policy'[f] = policy[f]

\* A save of a tab whose form comes from the row changes no set field that its
\* user left alone, unless another tab has saved since.  (A form that shows the
\* defaults because its GET failed overwrites every field.)
SaveKeepsUnedited == [][\A t \in PolicyTabs : KeepsUnedited(t)]_vars
================================================================================
