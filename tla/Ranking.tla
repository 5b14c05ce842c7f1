-------------------------------- MODULE Ranking --------------------------------
(***************************************************************************)
(* The waitlist ranking (core/ranking/waitlist-ranker.ts).  A candidate is *)
(* a record: since (hours since the last flight), until (hours until the   *)
(* next one, or NoFlight) and hours (flown in total).  Scores are exact:   *)
(* every factor is normalised over one common denominator instead of into  *)
(* [0, 1], and weights are tenths.  Every caller passes no custom factors, *)
(* so each custom weight adds the same neutral half to everybody.          *)
(***************************************************************************)
EXTENDS Integers, FiniteSetsExt, SequencesExt

NoFlight == -1

DEFAULT_RANKING_WEIGHTS == [since |-> 3, until |-> 2, hours |-> 2, custom |-> 0]

Spread(S) == IF S = {} \/ Max(S) = Min(S) THEN 1 ELSE Max(S) - Min(S)

\* The values of the three factors that are normalised; a missing next
\* flight is not one of them.
Factors(candidates) ==
  LET C == Range(candidates)
  IN [since |-> {c.since : c \in C},
      until |-> {c.until : c \in C} \ {NoFlight},
      hours |-> {c.hours : c \in C}]

\* minMaxNormalize over the denominator whole: neutral when all are equal.
Normalize(value, S, whole) ==
  IF Max(S) = Min(S) THEN whole \div 2 ELSE (value - Min(S)) * (whole \div Spread(S))

\* A bug: more hours flown count up.
ScoreByExperience(c, candidates, weights) ==
  LET F == Factors(candidates)
      whole == 2 * Spread(F.since) * Spread(F.until) * Spread(F.hours)
  IN weights.since * Normalize(c.since, F.since, whole)
     + weights.hours * Normalize(c.hours, F.hours, whole)

\* The composite score: a long wait, a distant past flight count up; hours
\* and a flight that is soon are inverted; no upcoming flight counts fully.
Score(c, candidates, weights) ==
  LET F == Factors(candidates)
      whole == 2 * Spread(F.since) * Spread(F.until) * Spread(F.hours)
      until == IF c.until = NoFlight THEN whole
               ELSE whole - Normalize(c.until, F.until, whole)
  IN IF Len(candidates) = 1
     THEN weights.since + weights.until + weights.hours + weights.custom
     ELSE weights.since * Normalize(c.since, F.since, whole)
          + weights.until * until
          + weights.hours * (whole - Normalize(c.hours, F.hours, whole))
          + weights.custom * (whole \div 2)

\* A stable sort: best first, equals in the order they have.
StandsBefore(s, Better(_, _), i, j) ==
  Better(s[i], s[j]) \/ (~Better(s[j], s[i]) /\ i < j)

Sorted(s, Better(_, _)) ==
  LET places == {<<i, Cardinality({j \in DOMAIN s : StandsBefore(s, Better, j, i)})>> :
                   i \in DOMAIN s}
  IN [n \in DOMAIN s |-> s[(CHOOSE p \in places : p[2] = n - 1)[1]]]

\* The numbers of a finite set, smallest first.
Ascending(S) ==
  [n \in 1 .. Cardinality(S) |-> CHOOSE t \in S : Cardinality({u \in S : u <= t}) = n]

RankWaitlistCandidates(candidates, weights) ==
  Sorted(candidates, LAMBDA a, b : Score(a, candidates, weights) > Score(b, candidates, weights))

\* The elements of a sequence that are in a set, in their order.
Kept(s, S) == FlattenSeq([n \in DOMAIN s |-> IF s[n] \in S THEN <<s[n]>> ELSE <<>>])

UpTo(s, n) == SubSeq(s, 1, IF Len(s) < n THEN Len(s) ELSE n)
================================================================================
