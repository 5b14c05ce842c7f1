----------------------------- MODULE DiscoveryPage -----------------------------
(***************************************************************************)
(* The page for discovery flights (discovery/page.tsx): a form that        *)
(* searches slots for a prospect, the options found, and the card of the   *)
(* confirmed one, with the effects of the two POSTs on the database.  The  *)
(* steps of bookSlot are in SuggestionApproval, those of the search in     *)
(* DiscoveryRequest; what else writes an option's status is one action.    *)
(***************************************************************************)
EXTENDS Integers

CONSTANTS
  Prospects,     \* prospects that searches create: bound on searches
  OptionsFor,    \* the options a search for a prospect may find
  Bookings       \* bound on POSTs of a confirmation

VARIABLES
  complete,      \* the form names a prospect and has no bad phone number
  submitting, error,
  searching,     \* the POST of a search: {} or the prospect
  result,        \* {} or one record
  confirmingId, confirmedSuggestion,  \* {} or one option
  booking,       \* a POST of a confirmation: its option, and the result it was sent from
  optionStatus,  \* suggestions.status
  moved,         \* options confirmed or sent for confirmation before the last search
  overwritten    \* history: options others wrote once bookSlot had booked them

page == <<complete, submitting, error, result, confirmingId, confirmedSuggestion>>
vars == <<page, searching, booking, optionStatus, moved, overwritten>>

Options == UNION {OptionsFor[p] : p \in Prospects}
ProspectOf(o) == CHOOSE p \in Prospects : o \in OptionsFor[p]
Siblings(o) == OptionsFor[ProspectOf(o)] \ {o}

Unsent == [at |-> "unsent", option |-> {}, seen |-> {}]
Ended == [Unsent EXCEPT !.at = "ended"]
Sent == {b \in Bookings : booking[b].at \in {"sent", "checked", "booked", "refused"}}

Init ==
  /\ complete = FALSE /\ submitting = FALSE /\ error = FALSE
  /\ searching = {} /\ result = {}
  /\ confirmingId = {} /\ confirmedSuggestion = {}
  /\ booking = [b \in Bookings |-> Unsent]
  /\ optionStatus = [o \in Options |-> "none"]
  /\ moved = {} /\ overwritten = {}

--------------------------------------------------------------------------------
(* The form and the search. *)

Fill ==
  /\ complete' = ~complete
  /\ UNCHANGED <<submitting, error, result, confirmingId, confirmedSuggestion, searching, booking,
                 optionStatus, moved, overwritten>>

CanSubmit == complete /\ ~submitting

\* The form stays in use below a card and while a confirmation is under way.
\* Each search is for a new prospect.
handleSubmit(p) ==
  /\ CanSubmit
  /\ p \notin searching /\ \A o \in OptionsFor[p] : optionStatus[o] = "none"
  /\ submitting' = TRUE
  /\ error' = FALSE
  /\ result' = {}
  /\ searching' = {p}
  /\ moved' = moved \cup confirmedSuggestion \cup UNION {booking[b].option : b \in Sent}
  /\ UNCHANGED <<complete, confirmingId, confirmedSuggestion, booking, optionStatus, overwritten>>

\* The options are stored; the answer may get lost.
SearchAnswered ==
  \E p \in searching : \E found \in SUBSET OptionsFor[p] :
    /\ searching' = {}
    /\ submitting' = FALSE
    /\ optionStatus' = [o \in Options |-> IF o \in found THEN "pending"
                                          ELSE IF o \in OptionsFor[p] THEN "unused"
                                          ELSE optionStatus[o]]
    /\ \/ result' = {[prospect |-> p, suggestions |-> found]} /\ UNCHANGED error
       \/ error' = TRUE /\ UNCHANGED result
    /\ UNCHANGED <<complete, confirmingId, confirmedSuggestion, booking, moved, overwritten>>

--------------------------------------------------------------------------------
(* The confirmation of an option. *)

\* Options are on the screen as long as no card is; only the button clicked
\* last is disabled.
handleConfirmBooking(b, o) ==
  /\ booking[b] = Unsent
  /\ confirmedSuggestion = {} /\ \E r \in result : o \in r.suggestions
  /\ o \notin confirmingId
  /\ confirmingId' = {o}
  /\ booking' = [booking EXCEPT ![b] = [at |-> "sent", option |-> {o}, seen |-> result]]
  /\ moved' = moved \ {o}
  /\ UNCHANGED <<complete, submitting, error, result, confirmedSuggestion, searching,
                 optionStatus, overwritten>>

\* bookSlot looks at the status first.
CheckOption(b) ==
  /\ booking[b].at = "sent"
  /\ booking' = [booking EXCEPT ![b].at =
       IF \A o \in booking[b].option : optionStatus[o] = "pending" THEN "checked" ELSE "refused"]
  /\ UNCHANGED <<page, searching, optionStatus, moved, overwritten>>

\* It approves the option and expires the siblings, or throws before or between.
BookOption(b) ==
  /\ booking[b].at = "checked"
  /\ \E o \in booking[b].option, done \in {"nothing", "approved", "all", "all but the audit"} :
       /\ optionStatus' = [x \in Options |->
            IF done = "nothing" THEN optionStatus[x]
            ELSE IF x = o THEN "approved"
            ELSE IF done # "approved" /\ x \in Siblings(o) /\ optionStatus[x] = "pending"
            THEN "expired" ELSE optionStatus[x]]
       /\ booking' = [booking EXCEPT ![b].at = IF done = "all" THEN "booked" ELSE "refused"]
  /\ UNCHANGED <<page, searching, moved, overwritten>>

\* An approval from the queue page, the enrichment job or the expiry job writes
\* the status: an approval that FSP refuses puts back pending whatever is there.
\* A declined option is to this page like an expired one.
OthersWrite(o) ==
  /\ optionStatus[o] \in {"pending", "approved", "expired"}
  /\ \E new \in {"pending", "approved", "expired"} :
       optionStatus' = [optionStatus EXCEPT ![o] = new]
  /\ overwritten' = overwritten \cup
       ({o} \cap (confirmedSuggestion \cup
                  UNION {booking[b].option : b \in {c \in Sent : booking[c].at = "booked"}}))
  /\ UNCHANGED <<page, searching, booking, moved>>

\* The page shows the card, and goes back to the result as it was when the
\* button was clicked, without the other options.
Confirmed(b) ==
  /\ booking[b].at = "booked"
  /\ confirmedSuggestion' = booking[b].option
  /\ result' = IF booking[b].seen = {} THEN result
               ELSE {[r EXCEPT !.suggestions = @ \cap booking[b].option] : r \in booking[b].seen}
  /\ confirmingId' = {}
  /\ booking' = [booking EXCEPT ![b] = Ended]
  /\ UNCHANGED <<complete, submitting, error, searching, optionStatus, moved, overwritten>>

\* A bug: the card is shown whatever the answer is.
RefusedAsConfirmed(b) ==
  /\ booking[b].at \in {"refused", "booked"}
  /\ confirmedSuggestion' = booking[b].option
  /\ confirmingId' = {}
  /\ booking' = [booking EXCEPT ![b] = Ended]
  /\ UNCHANGED <<complete, submitting, error, result, searching, optionStatus, moved, overwritten>>

\* A refusal or no answer: a toast.
Refused(b) ==
  /\ booking[b].at \in {"refused", "booked"}
  /\ confirmingId' = {}
  /\ booking' = [booking EXCEPT ![b] = Ended]
  /\ UNCHANGED <<complete, submitting, error, result, confirmedSuggestion, searching,
                 optionStatus, moved, overwritten>>

\* What has been sent is not taken back.
handleBookAnother ==
  /\ confirmedSuggestion # {}
  /\ complete' = FALSE /\ error' = FALSE
  /\ result' = {} /\ confirmedSuggestion' = {}
  /\ UNCHANGED <<submitting, confirmingId, searching, booking, optionStatus, moved, overwritten>>

\* The card tells the times of the booking and the name of the result.
NameOnCard == IF confirmedSuggestion = {} THEN {} ELSE {r.prospect : r \in result}

Next ==
  \/ Fill
  \/ \E p \in Prospects : handleSubmit(p)
  \/ SearchAnswered
  \/ \E b \in Bookings :
       \/ CheckOption(b) \/ BookOption(b) \/ Confirmed(b) \/ Refused(b)
       \/ \E o \in Options : handleConfirmBooking(b, o)
  \/ handleBookAnother
  \/ \E o \in Options : OthersWrite(o)

Spec == Init /\ [][Next]_vars

--------------------------------------------------------------------------------
\* The card is about an option that is booked, unless another writer of the
\* status came after bookSlot, and the prospect it names is the one who booked it,
\* unless a search was sent since (the card takes the name from the current
\* result, the times from the booking).
CardTellsTheBooking ==
  \A o \in confirmedSuggestion :
    /\ optionStatus[o] = "approved" \/ o \in overwritten
    /\ o \notin moved => NameOnCard \subseteq {ProspectOf(o)}
================================================================================
