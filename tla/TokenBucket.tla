----------------------------- MODULE TokenBucket ----------------------------
(***************************************************************************)
(* A token bucket that is filled all the time, whoever looks at it.  Both  *)
(* constants are in ticks of the clock: a token takes PerToken ticks to    *)
(* arrive and the bucket holds what arrives in Capacity ticks.             *)
(***************************************************************************)
EXTENDS Integers

CONSTANTS Capacity, PerToken

VARIABLE level

Init == level = Capacity

Fill == level < Capacity /\ level' = level + 1

Take == level >= PerToken /\ level' = level - PerToken

\* A caller that has waited is let through without a whole token.
Overdraw == level < PerToken /\ level' = 0

\* The process that holds the bucket starts again.
Renew == level' = Capacity

Next == Fill \/ Take \/ Overdraw \/ Renew

Spec == Init /\ [][Next]_level
=============================================================================
