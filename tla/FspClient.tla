------------------------------ MODULE FspClient -----------------------------
(***************************************************************************)
(* The HTTP client every call to Flight Schedule Pro goes through, for one *)
(* operator: a token bucket, a circuit breaker and retries after a 429.    *)
(* Operators share nothing in it, and neither do the API and the worker    *)
(* process, which have a client each.                                      *)
(*                                                                         *)
(* A step of a call is what runs between two awaits.  Calls of one client  *)
(* interleave at the sleeps and at fetch.                                  *)
(*                                                                         *)
(* Time is a tick and every quantity of time is a count of ticks that      *)
(* stops where a larger one makes no difference.  Tokens are counted in    *)
(* the ticks they take to arrive.                                          *)
(***************************************************************************)
EXTENDS Integers, FiniteSets

CONSTANTS
  Calls,       \* callers; each makes one request after the other
  Poller,      \* the caller that never stops: the repeatable poll job
  Capacity,    \* maxTokens
  PerToken,    \* msPerToken
  Threshold,   \* CIRCUIT_FAILURE_THRESHOLD
  ResetTicks,  \* CIRCUIT_RESET_MS
  MaxRetries   \* MAX_RETRIES

ASSUME ClientAssumption ==
  /\ Poller \in Calls
  /\ PerToken \in Nat \ {0} /\ Capacity \in Nat /\ Capacity >= PerToken
  /\ Threshold \in Nat \ {0} /\ ResetTicks \in Nat /\ MaxRetries \in Nat

VARIABLES
  credit,        \* bucket.tokens
  sinceRefill,   \* now - bucket.lastRefill, up to Capacity
  failures,      \* circuit.failures, up to Threshold
  isOpen,        \* circuit.isOpen
  sinceFailure,  \* now - circuit.lastFailure, up to ResetTicks
  pc,            \* where each call is suspended
  timer,         \* ticks until the sleep of a waiting call ends
  attempt,       \* how often each call was answered 429
  up,            \* FSP serves every request it gets
  late,          \* history: running calls admitted after the last failure
  robbed         \* history: waiting calls that saw another call take a token

bucket  == <<credit, sinceRefill>>
circuit == <<failures, isOpen, sinceFailure>>
vars == <<bucket, circuit, pc, timer, attempt, up, late, robbed>>

CallPc == {"idle", "waiting", "sent", "backoff"}

Lesser(a, b)  == IF a < b THEN a ELSE b
Greater(a, b) == IF a < b THEN b ELSE a

\* What refill makes of bucket.tokens now.
Level == Lesser(Capacity, credit + sinceRefill)

\* Mutant: the reset time is compared in the wrong unit.
PassesSoon == ~isOpen \/ sinceFailure >= 1

\* assertCircuitClosed does not throw.
Passes == ~isOpen \/ sinceFailure >= ResetTicks

Init ==
  /\ credit = Capacity /\ sinceRefill = 0
  /\ failures = 0 /\ isOpen = FALSE /\ sinceFailure = ResetTicks
  /\ pc = [c \in Calls |-> "idle"]
  /\ timer = [c \in Calls |-> 0]
  /\ attempt = [c \in Calls |-> 0]
  /\ up = TRUE
  /\ late = {} /\ robbed = {}

-----------------------------------------------------------------------------
(***************************************************************************)
(* request: the circuit breaker check and the first half of acquire.  A    *)
(* call that the circuit refuses changes nothing.                          *)
(***************************************************************************)

Goto(c, from, to) == pc[c] = from /\ pc' = [pc EXCEPT ![c] = to]

Admit(c) == Passes /\ late' = late \cup {c}

\* Whoever takes from the bucket, takes from all that wait for it.
Rob(c) == robbed' = (robbed \cup {d \in Calls : pc[d] = "waiting"}) \ {c}

\* Mutant: refill adds the tokens and does not move lastRefill.
TakeTokenAgain(c) ==
  /\ Goto(c, "idle", "sent") /\ Admit(c)
  /\ Level >= PerToken
  /\ credit' = Level - PerToken
  /\ Rob(c)
  /\ UNCHANGED <<sinceRefill, circuit, timer, attempt, up>>

\* There is a token: take it and fetch.
TakeToken(c) ==
  /\ Goto(c, "idle", "sent") /\ Admit(c)
  /\ Level >= PerToken
  /\ credit' = Level - PerToken /\ sinceRefill' = 0
  /\ Rob(c)
  /\ UNCHANGED <<circuit, timer, attempt, up>>

\* Mutant: the wait is computed from the tokens there are.
WaitForTokensHeld(c) ==
  /\ Goto(c, "idle", "waiting") /\ Admit(c)
  /\ Level < PerToken
  /\ credit' = Level /\ sinceRefill' = 0
  /\ timer' = [timer EXCEPT ![c] = Level]
  /\ robbed' = robbed \ {c}
  /\ UNCHANGED <<circuit, attempt, up>>

\* There is none: sleep until the next one arrives.
WaitForToken(c) ==
  /\ Goto(c, "idle", "waiting") /\ Admit(c)
  /\ Level < PerToken
  /\ credit' = Level /\ sinceRefill' = 0
  /\ timer' = [timer EXCEPT ![c] = PerToken - Level]
  /\ robbed' = robbed \ {c}
  /\ UNCHANGED <<circuit, attempt, up>>

\* The sleep is over: take a token, or what there is of one, and fetch.  The
\* circuit is not looked at again.
WakeUp(c) ==
  /\ timer[c] = 0 /\ Goto(c, "waiting", "sent")
  /\ credit' = Greater(Level - PerToken, 0) /\ sinceRefill' = 0
  /\ Rob(c)
  /\ UNCHANGED <<circuit, timer, attempt, up, late>>

Request(c) == TakeToken(c) \/ WaitForToken(c)

-----------------------------------------------------------------------------
(***************************************************************************)
(* executeWithRetry, once fetch has resolved or rejected.                  *)
(***************************************************************************)

\* The call is answered; its caller may make another one.
Return(c) ==
  /\ Goto(c, "sent", "idle")
  /\ attempt' = [attempt EXCEPT ![c] = 0]
  /\ UNCHANGED <<bucket, timer, up, robbed>>

\* Mutant: a success clears the count and leaves the circuit open.
SucceedStillOpen(c) ==
  /\ Return(c)
  /\ failures' = 0 /\ sinceFailure' = ResetTicks
  /\ late' = late \ {c}
  /\ UNCHANGED isOpen

\* 2xx: recordSuccess.  lastFailure = 0 is a time long past.
Succeed(c) ==
  /\ Return(c)
  /\ failures' = 0 /\ isOpen' = FALSE /\ sinceFailure' = ResetTicks
  /\ late' = late \ {c}

\* 5xx or no answer: recordFailure.
Fail(c) ==
  /\ ~up /\ Return(c)
  /\ failures' = Lesser(failures + 1, Threshold)
  /\ isOpen' = (isOpen \/ failures + 1 >= Threshold)
  /\ sinceFailure' = 0
  /\ late' = {}

\* 4xx, among them the last 429, or a body that cannot be read: not recorded.
CallerError(c) ==
  /\ ~up /\ Return(c)
  /\ late' = late \ {c}
  /\ UNCHANGED circuit

\* Mutant: every 429 is retried.
BackOffForever(c) ==
  /\ ~up /\ Goto(c, "sent", "backoff")
  /\ UNCHANGED <<bucket, circuit, timer, attempt, up, late, robbed>>

\* 429: sleep, for a time that does not matter here, ...
BackOff(c) ==
  /\ ~up /\ attempt[c] < MaxRetries
  /\ Goto(c, "sent", "backoff")
  /\ attempt' = [attempt EXCEPT ![c] = @ + 1]
  /\ UNCHANGED <<bucket, circuit, timer, up, late, robbed>>

\* ... and fetch again, past the circuit breaker and the token bucket.
Retry(c) ==
  /\ Goto(c, "backoff", "sent")
  /\ UNCHANGED <<bucket, circuit, timer, attempt, up, late, robbed>>

Answer(c) == Succeed(c) \/ Fail(c) \/ CallerError(c) \/ BackOff(c)

-----------------------------------------------------------------------------

Tick ==
  /\ sinceRefill' = Lesser(sinceRefill + 1, Capacity)
  /\ sinceFailure' = Lesser(sinceFailure + 1, ResetTicks)
  /\ timer' = [c \in Calls |-> Greater(timer[c] - 1, 0)]
  /\ UNCHANGED <<credit, failures, isOpen, pc, attempt, up, late, robbed>>

\* FSP fails, throttles or refuses requests for a while, or is fine again.
FspChanges ==
  /\ up' = ~up
  /\ UNCHANGED <<bucket, circuit, pc, timer, attempt, late, robbed>>

\* The process dies with its calls and comes back with a fresh client.
Restart ==
  /\ credit' = Capacity /\ sinceRefill' = 0
  /\ failures' = 0 /\ isOpen' = FALSE /\ sinceFailure' = ResetTicks
  /\ pc' = [c \in Calls |-> "idle"]
  /\ timer' = [c \in Calls |-> 0]
  /\ attempt' = [c \in Calls |-> 0]
  /\ late' = {} /\ robbed' = {}
  /\ UNCHANGED up

Next ==
  \/ \E c \in Calls : Request(c) \/ WakeUp(c) \/ Answer(c) \/ Retry(c)
  \/ Tick \/ FspChanges \/ Restart

Spec == Init /\ [][Next]_vars

(***************************************************************************)
(* Time passes, sleeps end and fetch resolves or rejects.  The poll job is *)
(* repeatable: its caller always comes again.                              *)
(***************************************************************************)
Fairness ==
  /\ WF_vars(Tick)
  /\ \A c \in Calls : WF_vars(WakeUp(c)) /\ WF_vars(Answer(c)) /\ WF_vars(Retry(c))
  /\ WF_vars(Request(Poller))

FairSpec == Spec /\ Fairness

-----------------------------------------------------------------------------

\* Counters stay within their bounds; above all, the bucket is never in debt.
TypeOK ==
  /\ credit \in 0 .. Capacity /\ sinceRefill \in 0 .. Capacity
  /\ failures \in 0 .. Threshold /\ isOpen \in BOOLEAN
  /\ sinceFailure \in 0 .. ResetTicks
  /\ pc \in [Calls -> CallPc]
  /\ timer \in [Calls -> 0 .. PerToken]
  /\ attempt \in [Calls -> 0 .. MaxRetries]
  /\ up \in BOOLEAN
  /\ late \subseteq Calls /\ robbed \subseteq Calls

Blocking == isOpen /\ sinceFailure < ResetTicks

\* "Requests are blocked until recovery": while the circuit blocks, every call
\* still on its way was admitted before the last failure.
BlockedAdmitsNobody == Blocking => late = {}

\* A call that waits alone has its token when its sleep ends: the lazy refill
\* and the computed sleep agree, however often other calls refill meanwhile.
LoneWaiterGetsToken ==
  \A c \in Calls : pc[c] = "waiting" /\ c \notin robbed =>
    Level + timer[c] >= PerToken

\* Every call is answered: the retries run out, and so do the sleeps.
EveryCallAnswered == \A c \in Calls : pc[c] # "idle" ~> pc[c] = "idle"

\* Once FSP serves again the circuit closes and stays closed, although it
\* refuses calls and although calls from before the recovery still come back.
Recovers == (<>[]up) => <>[](~isOpen)

\* Refilling only when someone asks is as good as filling all the time.
Bucket == INSTANCE TokenBucket WITH level <- Level
LazyRefillIsExact == Bucket!Spec
=============================================================================
