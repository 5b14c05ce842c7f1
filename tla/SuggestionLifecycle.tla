------------------------- MODULE SuggestionLifecycle ------------------------
(***************************************************************************)
(* What the approval workflow promises about a suggestion, without         *)
(* requests, statements or processes: an approval holds a pending          *)
(* suggestion, then either gives it back unbooked or has it booked in FSP  *)
(* exactly once and approves it.  A decision is taken on pending           *)
(* suggestions only and is never revised.                                  *)
(***************************************************************************)
CONSTANT Sugg

VARIABLES
  state,   \* the status a user sees
  booked   \* whether FSP holds a reservation for the suggestion

lifeVars == <<state, booked>>

Init == /\ state = [s \in Sugg |-> "pending"]
        /\ booked = [s \in Sugg |-> FALSE]

Move(s, from, to) ==
  /\ state[s] = from
  /\ state' = [state EXCEPT ![s] = to]
  /\ UNCHANGED booked

\* One approval takes the suggestion.
Hold(s) == Move(s, "pending", "processing")

\* The approval fails; the suggestion is offered again, so it has no booking.
Release(s) == ~booked[s] /\ Move(s, "processing", "pending")

\* FSP accepts the reservation.
Book(s) ==
  /\ state[s] = "processing" /\ ~booked[s]
  /\ booked' = [booked EXCEPT ![s] = TRUE]
  /\ UNCHANGED state

\* Only what is booked is approved.
Approve(s) == booked[s] /\ Move(s, "processing", "approved")

Decline(s) == Move(s, "pending", "declined")

\* A sibling was approved, the slot was filled or the time is over.
Expire(S) ==
  /\ \A s \in S : state[s] = "pending"
  /\ state' = [s \in Sugg |-> IF s \in S THEN "expired" ELSE state[s]]
  /\ UNCHANGED booked

Next == \/ \E s \in Sugg : Hold(s) \/ Release(s) \/ Book(s) \/ Approve(s) \/ Decline(s)
        \/ \E S \in SUBSET Sugg : Expire(S)

Spec == Init /\ [][Next]_lifeVars
=============================================================================
