------------------------------ MODULE TemplateForm ------------------------------
(***************************************************************************)
(* The templates page of the web console (templates/page.tsx) against the  *)
(* API (templates.controller.ts).  One template, which other rows do not   *)
(* affect, in several tabs.  A request is read or applied at the API at    *)
(* one moment and its answer reaches the tab at a later one.               *)
(***************************************************************************)
EXTENDS Integers

CONSTANTS
  TemplateTabs,  \* pages that are open
  Texts          \* what a template may say

VARIABLES
  template,    \* notification_templates: the row
  editState,   \* of a tab: its text, dirty, saving
  editAt,      \* where it is: loading, read, nothing, shown, put, stored, refused
  message,     \* the text the request or the answer under way carries
  outdated     \* another tab has saved since this one's text was read or stored

vars == <<template, editState, editAt, message, outdated>>

Init ==
  /\ template \in Texts
  /\ editState = [t \in TemplateTabs |-> [text |-> template, dirty |-> FALSE, saving |-> FALSE]]
  /\ editAt = [t \in TemplateTabs |-> "loading"]
  /\ message = [t \in TemplateTabs |-> template]
  /\ outdated = [t \in TemplateTabs |-> FALSE]

EditTo(t, next) == editAt' = [editAt EXCEPT ![t] = next]

\* GET /templates; when it fails the page shows no template.
GetTemplate(t) ==
  /\ editAt[t] = "loading"
  /\ \/ EditTo(t, "read")
     \/ EditTo(t, "nothing")
  /\ message' = [message EXCEPT ![t] = template]
  /\ outdated' = [outdated EXCEPT ![t] = FALSE]
  /\ UNCHANGED <<template, editState>>

ShowTemplate(t) ==
  /\ editAt[t] = "read"
  /\ editState' = [editState EXCEPT ![t] = [text |-> message[t], dirty |-> FALSE, saving |-> FALSE]]
  /\ EditTo(t, "shown")
  /\ UNCHANGED <<template, message, outdated>>

\* updateEditState.
TypeText(t, x) ==
  /\ editAt[t] \in {"shown", "put", "stored", "refused"}
  /\ editState' = [editState EXCEPT ![t].text = x, ![t].dirty = TRUE]
  /\ UNCHANGED <<template, editAt, message, outdated>>

\* saveTemplate, up to the request: `state` is what the click's rendering held.
SaveTemplate(t) ==
  /\ editAt[t] = "shown" /\ editState[t].dirty /\ ~editState[t].saving
  /\ editState' = [editState EXCEPT ![t].saving = TRUE]
  /\ message' = [message EXCEPT ![t] = editState[t].text]
  /\ EditTo(t, "put")
  /\ UNCHANGED <<template, outdated>>

\* PUT /templates/:id, refused when the text is too long.
UpdateTemplate(t) ==
  /\ editAt[t] = "put"
  /\ \/ /\ template' = message[t]
        /\ outdated' = [u \in TemplateTabs |-> u # t]
        /\ EditTo(t, "stored")
     \/ EditTo(t, "refused") /\ UNCHANGED <<template, outdated>>
  /\ UNCHANGED <<editState, message>>

\* A bug: the text typed meanwhile stays, and passes for saved.
AfterSaveKeepingText(current, text, done) ==
  [current EXCEPT !.dirty = ~done, !.saving = FALSE]

\* {...state, saving: false}: the text is again the one of the click.
AfterSave(current, text, done) == [text |-> text, dirty |-> ~done, saving |-> FALSE]

\* The answer of a PUT that was done may be lost.
AnswerTemplate(t) ==
  /\ editAt[t] \in {"stored", "refused"}
  /\ \E done \in {FALSE, editAt[t] = "stored"} :
       editState' = [editState EXCEPT ![t] = AfterSave(@, message[t], done)]
  /\ EditTo(t, "shown")
  /\ UNCHANGED <<template, message, outdated>>

\* The user opens the page again, while no PUT of it is under way.
ReopenTemplate(t) ==
  /\ editAt[t] \in {"shown", "nothing"}
  /\ EditTo(t, "loading")
  /\ UNCHANGED <<template, editState, message, outdated>>

Next ==
  \E t \in TemplateTabs :
    \/ GetTemplate(t) \/ ShowTemplate(t) \/ SaveTemplate(t) \/ UpdateTemplate(t)
    \/ AnswerTemplate(t) \/ ReopenTemplate(t)
    \/ \E x \in Texts : TypeText(t, x)

Spec == Init /\ [][Next]_vars

--------------------------------------------------------------------------------
(* Properties. *)

\* A template shown without unsaved changes says what is stored, unless another
\* tab has saved since: text typed while a save was under way is never taken
\* for saved (templates/page.tsx, saveTemplate).
CleanMeansStored ==
  \A t \in TemplateTabs :
    (editAt[t] = "shown" /\ ~editState[t].dirty /\ ~outdated[t]) => editState[t].text = template
================================================================================
