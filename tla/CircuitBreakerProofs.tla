------------------------- MODULE CircuitBreakerProofs -------------------------
(***************************************************************************)
(* What the circuit breaker guarantees for every threshold, timeout and    *)
(* number of concurrent calls.                                             *)
(***************************************************************************)
EXTENDS CircuitBreaker, FiniteSetTheorems, TLAPS

(***************************************************************************)
(* Quarantine is about the independent clock openFor, the code looks at    *)
(* lastFail: the two are tied by the fact that an open breaker saw its     *)
(* last failure no earlier than it opened.                                 *)
(***************************************************************************)
FailedSinceOpening == cb.state = "open" => sinceFail <= openFor

BreakerInv == TypeOK /\ BreakerShape /\ FailedSinceOpening

USE BreakerAssumption

LEMMA BreakerInit == Init => BreakerInv
BY DEF Init, BreakerInv, TypeOK, BreakerShape, FailedSinceOpening, Elapsed

\* Counting the successful probes of one step gives a natural number.
LEMMA WinsCount ==
  ASSUME TypeOK, NEW S \in SUBSET Calls
  PROVE  Cardinality(S \cap probes) \in Nat
<1>1. IsFiniteSet(S \cap probes)
  BY FS_Subset, S \cap probes \subseteq Calls
<1> QED BY <1>1, FS_CardinalityType

\* A call of Allow that lets the model in keeps the invariant.
LEMMA AllowStep ==
  ASSUME BreakerInv, Allows, cb' = AfterAllow,
         NEW started \in SUBSET Calls, Observe(started, {}, {}),
         flight' \in [Calls -> {"none", "good", "bad"}],
         UNCHANGED <<sinceFail, weather>>
  PROVE  BreakerInv'
<1>1. Cardinality({} \cap probes) \in Nat
  BY WinsCount DEF BreakerInv
<1>2. TypeOK'
  BY <1>1 DEF BreakerInv, TypeOK, AfterAllow, Observe, Elapsed
<1>3. BreakerShape' /\ FailedSinceOpening'
  BY DEF BreakerInv, TypeOK, BreakerShape, FailedSinceOpening, AfterAllow, Observe, Allows, Elapsed
<1> QED BY <1>2, <1>3 DEF BreakerInv

LEMMA SucceedStep ==
  ASSUME BreakerInv, NEW c \in Calls, Succeed(c)
  PROVE  BreakerInv'
<1>1. Cardinality({c} \cap probes) \in Nat
  BY WinsCount DEF BreakerInv
<1>2. TypeOK'
  BY <1>1 DEF BreakerInv, TypeOK, Succeed, AfterSuccess, Observe, Elapsed
<1>3. BreakerShape' /\ FailedSinceOpening'
  BY DEF BreakerInv, TypeOK, BreakerShape, FailedSinceOpening, Succeed, AfterSuccess, Observe, Elapsed
<1> QED BY <1>2, <1>3 DEF BreakerInv

LEMMA FailStep ==
  ASSUME BreakerInv, NEW c \in Calls, Fail(c)
  PROVE  BreakerInv'
<1>1. Cardinality({} \cap probes) \in Nat
  BY WinsCount DEF BreakerInv
<1>2. TypeOK'
  BY <1>1 DEF BreakerInv, TypeOK, Fail, AfterFailure, Observe, Elapsed
<1>3. BreakerShape' /\ FailedSinceOpening'
  BY DEF BreakerInv, TypeOK, BreakerShape, FailedSinceOpening, Fail, AfterFailure, Observe, Elapsed
<1> QED BY <1>2, <1>3 DEF BreakerInv

LEMMA BreakerStep == BreakerInv /\ [Next]_vars => BreakerInv'
<1> SUFFICES ASSUME BreakerInv, [Next]_vars PROVE BreakerInv'
  OBVIOUS
<1>1. ASSUME NEW c \in Calls, Send(c) PROVE BreakerInv'
  <2>1. flight' \in [Calls -> {"none", "good", "bad"}]
    BY <1>1 DEF Send, Fates, BreakerInv, TypeOK
  <2> QED BY <1>1, <2>1, AllowStep DEF Send
<1>2. CASE PassOver
  BY <1>2, AllowStep DEF PassOver, BreakerInv, TypeOK
<1>3. CASE Tick
  BY <1>3 DEF Tick, Later, BreakerInv, TypeOK, BreakerShape, FailedSinceOpening, Elapsed
<1>4. CASE Flip
  BY <1>4 DEF Flip, BreakerInv, TypeOK, BreakerShape, FailedSinceOpening
<1>5. CASE UNCHANGED vars
  BY <1>5 DEF vars, BreakerInv, TypeOK, BreakerShape, FailedSinceOpening
<1> QED
  BY <1>1, <1>2, <1>3, <1>4, <1>5, SucceedStep, FailStep DEF Next

\* For every threshold, success count and timeout, and however the outcomes
\* of calls are delayed, the breaker's counters never contradict its state.
THEOREM BreakerIsConsistent == Spec => [](TypeOK /\ BreakerShape)
<1>1. BreakerInv => TypeOK /\ BreakerShape
  BY DEF BreakerInv
<1> QED BY <1>1, BreakerInit, BreakerStep, PTL DEF Spec

\* An open breaker lets nothing through before its timeout is over: the time
\* check on lastFail implies one on the time since opening.
THEOREM OpenBreakerBlocks == Spec => Quarantine
<1>1. BreakerInv /\ [Next]_vars =>
        [cb.state = "open" /\ openFor <= Timeout =>
           \A c \in Calls : flight'[c] # "none" => flight[c] # "none"]_vars
  <2> SUFFICES ASSUME BreakerInv, Next, cb.state = "open", openFor <= Timeout,
                      NEW c \in Calls, flight'[c] # "none"
               PROVE  flight[c] # "none"
    BY DEF vars
  <2>1. ~Allows
    BY DEF BreakerInv, TypeOK, FailedSinceOpening, Allows, Elapsed
  <2>2. ASSUME NEW d \in Calls, Succeed(d) \/ Fail(d) PROVE flight[c] # "none"
    BY <2>2 DEF Succeed, Fail, BreakerInv, TypeOK
  <2> QED
    BY <2>1, <2>2 DEF Next, Send, PassOver, Tick, Flip
<1> QED BY <1>1, BreakerInit, BreakerStep, PTL DEF Spec, Quarantine
=============================================================================
