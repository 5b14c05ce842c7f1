------------------------ MODULE MCSuggestionApproval ------------------------
(***************************************************************************)
(* Instances of SuggestionApproval for TLC.                                *)
(***************************************************************************)
EXTENDS SuggestionApproval, TLC

CONSTANTS s1, s2, s3, g1, k1, k2, a1, a2, a3

\* The options of one request, all for the same time.
OneGroup == [s \in Sugg |-> g1]
OneSlot  == [s \in Sugg |-> k1]

\* s1 and s2 compete for an opening; s3 is a suggestion of its own.
PairAndSingle == [s \in Sugg |-> IF s = s3 THEN NoGroup ELSE g1]
PairSlots     == [s \in Sugg |-> IF s = s3 THEN k2 ELSE k1]

\* No group at all.
NoGroups == [s \in Sugg |-> NoGroup]

\* Approvals differ in nothing but their name.
ApprovalSymmetry == Permutations(Approvals)
=============================================================================
