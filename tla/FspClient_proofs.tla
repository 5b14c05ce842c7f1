--------------------------- MODULE FspClient_proofs -------------------------
(***************************************************************************)
(* What FspClient guarantees for any number of callers, any bucket, any    *)
(* threshold and any reset time, proved with TLAPS.                        *)
(***************************************************************************)
EXTENDS FspClient, TLAPS

LEMMA Numbers ==
  /\ PerToken \in Nat /\ PerToken > 0 /\ Capacity \in Nat /\ Capacity >= PerToken
  /\ Threshold \in Nat /\ Threshold > 0 /\ ResetTicks \in Nat /\ MaxRetries \in Nat
BY ClientAssumption

\* The bucket read now holds at least what it held, and never too much.
LEMMA LevelRange ==
  ASSUME TypeOK
  PROVE  Level \in 0 .. Capacity /\ Level >= credit
BY Numbers DEF TypeOK, Level, Lesser

-----------------------------------------------------------------------------
(***************************************************************************)
(* Typing.                                                                 *)
(***************************************************************************)

LEMMA GotoType ==
  ASSUME TypeOK, NEW c \in Calls, NEW from, NEW to \in CallPc, Goto(c, from, to)
  PROVE  pc' \in [Calls -> CallPc]
BY DEF Goto, TypeOK

LEMMA BucketStepType ==
  ASSUME TypeOK, NEW c \in Calls, Request(c) \/ WakeUp(c)
  PROVE  TypeOK'
<1> USE Numbers, LevelRange, GotoType DEF CallPc
<1>1. CASE TakeToken(c)
  BY <1>1 DEF TakeToken, Admit, Rob, TypeOK, circuit
<1>2. CASE WaitForToken(c)
  <2>1. PerToken - Level \in 0 .. PerToken
    BY <1>2 DEF WaitForToken
  <2>2. timer' \in [Calls -> 0 .. PerToken]
    BY <1>2, <2>1 DEF WaitForToken, TypeOK
  <2> QED
    BY <1>2, <2>2 DEF WaitForToken, Admit, TypeOK, circuit
<1>3. CASE WakeUp(c)
  <2>1. credit' \in 0 .. Capacity
    BY <1>3 DEF WakeUp, Greater
  <2> QED
    BY <1>3, <2>1 DEF WakeUp, Rob, TypeOK, circuit
<1> QED
  BY <1>1, <1>2, <1>3 DEF Request

LEMMA AnswerType ==
  ASSUME TypeOK, NEW c \in Calls, Answer(c) \/ Retry(c)
  PROVE  TypeOK'
<1> USE Numbers, GotoType DEF CallPc
<1>2. CASE Succeed(c)
  <2>1. isOpen' \in BOOLEAN
    BY <1>2, Zenon DEF Succeed
  <2>2. attempt' \in [Calls -> 0 .. MaxRetries]
    BY <1>2 DEF Succeed, Return, TypeOK
  <2> QED
    BY <1>2, <2>1, <2>2 DEF Succeed, Return, TypeOK, bucket
<1>3. CASE Fail(c)
  <2>1. failures' \in 0 .. Threshold
    BY <1>3 DEF Fail, Lesser, TypeOK
  <2>2. isOpen' \in BOOLEAN
    BY <1>3, Zenon DEF Fail, TypeOK
  <2> QED
    BY <1>3, <2>1, <2>2 DEF Fail, Return, TypeOK, bucket
<1>4. CASE CallerError(c)
  BY <1>4 DEF CallerError, Return, TypeOK, bucket, circuit
<1>5. CASE BackOff(c)
  BY <1>5 DEF BackOff, TypeOK, bucket, circuit
<1>6. CASE Retry(c)
  BY <1>6 DEF Retry, TypeOK, bucket, circuit
<1> QED
  BY <1>2, <1>3, <1>4, <1>5, <1>6 DEF Answer

LEMMA OtherType ==
  ASSUME TypeOK, Tick \/ FspChanges \/ Restart
  PROVE  TypeOK'
<1> USE Numbers DEF TypeOK
<1>1. CASE Tick
  <2>1. sinceRefill' \in 0 .. Capacity /\ sinceFailure' \in 0 .. ResetTicks
    BY <1>1 DEF Tick, Lesser
  <2>2. timer' \in [Calls -> 0 .. PerToken]
    BY <1>1 DEF Tick, Greater
  <2> QED
    BY <1>1, <2>1, <2>2 DEF Tick
<1>2. CASE FspChanges
  BY <1>2 DEF FspChanges, bucket, circuit
<1>3. CASE Restart
  <2>1. isOpen' \in BOOLEAN
    BY <1>3, Zenon DEF Restart
  <2> QED
    BY <1>3, <2>1 DEF Restart, CallPc
<1> QED
  BY <1>1, <1>2, <1>3

LEMMA InitType == Init => TypeOK
<1>1. Init => isOpen \in BOOLEAN /\ up \in BOOLEAN
  BY Zenon DEF Init
<1> QED
  BY <1>1, Numbers DEF Init, TypeOK, CallPc

LEMMA NextType ==
  ASSUME TypeOK, [Next]_vars
  PROVE  TypeOK'
<1>1. CASE UNCHANGED vars
  BY <1>1 DEF vars, bucket, circuit, TypeOK
<1> QED
  BY <1>1, BucketStepType, AnswerType, OtherType DEF Next

\* The bucket is never in debt and never above its burst size, and the other
\* counters stay in range, for every number of callers and every bucket.
THEOREM Typing == Spec => []TypeOK
<1>1. TypeOK /\ [Next]_vars => TypeOK'
  BY NextType
<1> QED
  BY InitType, <1>1, PTL DEF Spec

-----------------------------------------------------------------------------
(***************************************************************************)
(* The circuit.                                                            *)
(***************************************************************************)

LEMMA BlockedInit == Init => BlockedAdmitsNobody
BY DEF Init, BlockedAdmitsNobody

LEMMA BlockedNext ==
  ASSUME TypeOK, BlockedAdmitsNobody, [Next]_vars
  PROVE  BlockedAdmitsNobody'
<1> USE Numbers DEF BlockedAdmitsNobody, Blocking
<1>1. ASSUME NEW c \in Calls, Request(c)
      PROVE  BlockedAdmitsNobody'
  <2>1. Passes /\ UNCHANGED circuit
    BY <1>1 DEF Request, TakeToken, WaitForToken, Admit
  <2>2. ~ Blocking
    BY <2>1 DEF Passes, TypeOK
  <2> QED
    BY <2>1, <2>2 DEF circuit
<1>2. ASSUME NEW c \in Calls, Answer(c)
      PROVE  BlockedAdmitsNobody'
  <2>1. CASE Succeed(c)
    BY <2>1, Zenon DEF Succeed
  <2>2. CASE Fail(c)
    BY <2>2 DEF Fail
  <2>3. CASE CallerError(c) \/ BackOff(c)
    BY <2>3 DEF CallerError, BackOff, circuit
  <2> QED
    BY <1>2, <2>1, <2>2, <2>3 DEF Answer
<1>3. ASSUME NEW c \in Calls, WakeUp(c) \/ Retry(c)
      PROVE  BlockedAdmitsNobody'
  BY <1>3 DEF WakeUp, Retry, circuit
<1>4. CASE Tick
  <2>1. Blocking' => Blocking
    BY <1>4 DEF Tick, Lesser, TypeOK
  <2> QED
    BY <1>4, <2>1 DEF Tick
<1>5. CASE FspChanges \/ Restart \/ UNCHANGED vars
  BY <1>5 DEF FspChanges, Restart, vars, circuit
<1> QED
  BY <1>1, <1>2, <1>3, <1>4, <1>5 DEF Next

\* A blocking circuit lets no call in: whatever is still sent was admitted
\* before the last failure.
THEOREM CircuitBlocks == Spec => []BlockedAdmitsNobody
<1>1. TypeOK /\ BlockedAdmitsNobody /\ [Next]_vars => BlockedAdmitsNobody'
  BY BlockedNext
<1> QED
  BY BlockedInit, Typing, <1>1, PTL DEF Spec

-----------------------------------------------------------------------------
(***************************************************************************)
(* The bucket.                                                             *)
(***************************************************************************)

\* A tick brings one more tick's worth of a token, until the bucket is full.
LEMMA TickFills ==
  ASSUME TypeOK, Tick
  PROVE  Level' = Lesser(Capacity, Level + 1)
BY Numbers DEF TypeOK, Tick, Level, Lesser

\* Whoever has refilled finds in credit what the bucket holds.
LEMMA Refilled ==
  ASSUME TypeOK', sinceRefill' = 0
  PROVE  Level' = credit'
<1>1. \A n \in 0 .. Capacity : Lesser(Capacity, n + 0) = n
  BY Numbers DEF Lesser
<1>2. credit' \in 0 .. Capacity
  BY DEF TypeOK
<1>3. Level' = Lesser(Capacity, credit' + 0)
  BY DEF Level
<1> QED
  BY <1>1, <1>2, <1>3, Zenon

LEMMA LoneWaiterNext ==
  ASSUME TypeOK, TypeOK', LoneWaiterGetsToken, [Next]_vars
  PROVE  LoneWaiterGetsToken'
<1> USE Numbers DEF LoneWaiterGetsToken
<1> SUFFICES ASSUME NEW d \in Calls, pc'[d] = "waiting", d \notin robbed'
             PROVE  Level' + timer'[d] >= PerToken
  OBVIOUS
<1>1. ASSUME NEW c \in Calls, TakeToken(c) \/ WakeUp(c)
      PROVE  FALSE
  BY <1>1 DEF TakeToken, WakeUp, Rob, Goto, TypeOK
<1>2. ASSUME NEW c \in Calls, WaitForToken(c)
      PROVE  Level' + timer'[d] >= PerToken
  <2>1. Level' = Level
    BY <1>2, Refilled DEF WaitForToken
  <2>2. CASE d = c
    BY <1>2, <2>1, <2>2, LevelRange DEF WaitForToken, TypeOK
  <2>3. CASE d # c
    BY <1>2, <2>1, <2>3 DEF WaitForToken, Goto, TypeOK
  <2> QED
    BY <2>2, <2>3
<1>3. ASSUME NEW c \in Calls, Answer(c) \/ Retry(c)
      PROVE  Level' + timer'[d] >= PerToken
  <2>1. UNCHANGED <<credit, sinceRefill, timer, robbed>> /\ pc[d] = "waiting"
    BY <1>3 DEF Answer, Retry, Succeed, Fail, CallerError, BackOff, Return, Goto,
       TypeOK, bucket
  <2> QED
    BY <2>1 DEF Level
<1>4. CASE Tick
  <2>1. Level + timer[d] >= PerToken /\ Level \in Int /\ timer[d] \in Nat
    BY <1>4, LevelRange DEF Tick, TypeOK
  <2>2. timer'[d] = Greater(timer[d] - 1, 0)
    BY <1>4 DEF Tick
  <2> QED
    BY <1>4, <2>1, <2>2, TickFills, LevelRange DEF Lesser, Greater
<1>5. CASE FspChanges \/ Restart \/ UNCHANGED vars
  BY <1>5 DEF FspChanges, Restart, vars, bucket, Level
<1> QED
  BY <1>1, <1>2, <1>3, <1>4, <1>5 DEF Next, Request

\* A call that waits alone finds its token when it wakes up.
THEOREM LoneWaiter == Spec => []LoneWaiterGetsToken
<1>1. Init => LoneWaiterGetsToken
  BY DEF Init, LoneWaiterGetsToken
<1>2. /\ TypeOK /\ TypeOK' /\ LoneWaiterGetsToken /\ [Next]_vars
      => LoneWaiterGetsToken'
  BY LoneWaiterNext
<1> QED
  BY <1>1, <1>2, Typing, PTL DEF Spec

LEMMA BucketNext ==
  ASSUME TypeOK, TypeOK', [Next]_vars
  PROVE  [Bucket!Next]_Level
<1> USE Numbers, LevelRange
    DEF Bucket!Next, Bucket!Fill, Bucket!Take, Bucket!Overdraw, Bucket!Renew
<1>1. ASSUME NEW c \in Calls, Request(c) \/ WakeUp(c)
      PROVE  [Bucket!Next]_Level
  <2>1. Level' = credit'
    BY <1>1, Refilled DEF Request, TakeToken, WaitForToken, WakeUp
  <2> QED
    BY <1>1, <2>1 DEF Request, TakeToken, WaitForToken, WakeUp, Greater
<1>2. CASE Tick
  BY <1>2, TickFills DEF Lesser
<1>3. CASE Restart
  BY <1>3, Refilled DEF Restart
<1>4. ASSUME \/ \E c \in Calls : Answer(c) \/ Retry(c)
             \/ FspChanges \/ UNCHANGED vars
      PROVE  UNCHANGED Level
  BY <1>4 DEF Answer, Retry, Succeed, Fail, CallerError, BackOff, Return,
     FspChanges, vars, bucket, Level
<1> QED
  BY <1>1, <1>2, <1>3, <1>4 DEF Next

\* The lazily refilled bucket implements the one that fills all the time.
THEOREM LazyRefill == Spec => LazyRefillIsExact
<1>1. Init => Bucket!Init
  BY Numbers DEF Init, Bucket!Init, Level, Lesser
<1>2. TypeOK /\ TypeOK' /\ [Next]_vars => [Bucket!Next]_Level
  BY BucketNext
<1> QED
  BY <1>1, <1>2, Typing, PTL DEF Spec, LazyRefillIsExact, Bucket!Spec
=============================================================================
