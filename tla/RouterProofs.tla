----------------------------- MODULE RouterProofs -----------------------------
(***************************************************************************)
(* Route's second half, for every catalog of models, any number of calls   *)
(* under way and every history of outcomes: the state keeps to its types,  *)
(* the health that the scorer reads is that of the last outcomes, and few  *)
(* calls still fail on a model whose breaker is open.                      *)
(***************************************************************************)
EXTENDS Router, FiniteSetTheorems, TLAPS

-----------------------------------------------------------------------------
(* The breakers.                                                            *)

\* A half-open breaker is short of a success to close.
BreakerInv ==
  /\ breaker \in [Models -> [state : {"closed", "open", "half-open"},
                             failures : 0 .. Threshold, successes : 0 .. SuccessReq]]
  /\ \A m \in Models : breaker[m].state = "half-open" => breaker[m].successes < SuccessReq
  /\ since \in [Models -> 0 .. Timeout + 1]

LEMMA BreakerNumbers == Threshold \in Nat \ {0} /\ SuccessReq \in Nat \ {0} /\ Timeout \in Nat
  BY RouterAssumption

\* What the methods of a breaker leave it as.
LEMMA BreakerMethods ==
  ASSUME BreakerInv, NEW m \in Models
  PROVE  /\ \A b \in {B(m)!AfterAllow, B(m)!AfterSuccess, Saturated(B(m)!AfterFailure)} :
              /\ b \in [state : {"closed", "open", "half-open"},
                        failures : 0 .. Threshold, successes : 0 .. SuccessReq]
              /\ b.state = "half-open" => b.successes < SuccessReq
<1> DEFINE BT == [state : {"closed", "open", "half-open"},
                  failures : 0 .. Threshold, successes : 0 .. SuccessReq]
<1>0. /\ breaker[m] \in BT /\ (breaker[m].state = "half-open" => breaker[m].successes < SuccessReq)
      /\ since[m] \in 0 .. Timeout + 1
  BY DEF BreakerInv
<1>1. B(m)!AfterAllow \in BT /\ (B(m)!AfterAllow.state = "half-open" => B(m)!AfterAllow.successes < SuccessReq)
  BY <1>0, BreakerNumbers DEF B!AfterAllow
<1>2. B(m)!AfterSuccess \in BT
      /\ (B(m)!AfterSuccess.state = "half-open" => B(m)!AfterSuccess.successes < SuccessReq)
  BY <1>0, BreakerNumbers DEF B!AfterSuccess
<1>3. /\ Saturated(B(m)!AfterFailure) \in BT
      /\ Saturated(B(m)!AfterFailure).state = "half-open" => Saturated(B(m)!AfterFailure).successes < SuccessReq
  BY <1>0, BreakerNumbers DEF B!AfterFailure, Saturated
<1> QED BY <1>1, <1>2, <1>3
-----------------------------------------------------------------------------
(* The ranking has a head: Best chooses one of the models it is given.      *)

\* m is ranked before n: it scores more, or as much and comes first.
Before(m, n, j, w) ==
  IF m < n THEN Total(m, j, w) >= Total(n, j, w) ELSE Total(m, j, w) > Total(n, j, w)

HealthInv == health \in [Models -> [ring : [0 .. Window - 1 -> {0, 1}], count : 0 .. 2 * Window - 1]]

LEMMA ErrorsTyped ==
  ASSUME HealthInv, NEW m \in Models
  PROVE  Filled(m) \in 0 .. Window /\ Errors(m) \in Nat
<1>1. health[m].count \in Nat /\ Window \in Nat
  BY RouterAssumption DEF HealthInv
<1>2. Filled(m) \in 0 .. Window
  BY <1>1 DEF Filled
<1> DEFINE F == 0 .. Filled(m) - 1
<1>3. IsFiniteSet(F)
  <2>1. Filled(m) - 1 \in Int
    BY <1>1, <1>2
  <2> QED BY <2>1, FS_Interval
<1>4. {i \in F : health[m].ring[i] = 0} \in SUBSET F
  OBVIOUS
<1> HIDE DEF F
<1>5. IsFiniteSet({i \in F : health[m].ring[i] = 0})
  BY <1>3, <1>4, FS_Subset
<1>6. Cardinality({i \in F : health[m].ring[i] = 0}) \in Nat
  BY <1>5, FS_CardinalityType
<1> QED BY <1>2, <1>6 DEF Errors, F

LEMMA ScoresTyped ==
  ASSUME HealthInv, NEW m \in Models, NEW j
  PROVE  /\ LatencyScore(m, j) \in Int /\ CostScore(m, j) \in Int /\ HealthScore(m) \in Int
         /\ QueueScore \in Int /\ PolicyScore(m, j) \in Int
<1>1. Catalog[m].tier \in {"small", "medium", "large"} /\ Catalog[m].cost \in Nat
  BY RouterAssumption
<1>2. LatencyScore(m, j) \in Int
  BY <1>1 DEF LatencyScore
<1>3. CostScore(m, j) \in Int
  BY <1>1 DEF CostScore
<1>4. HealthScore(m) \in Int
  <2> DEFINE n == Filled(m)
             e == Errors(m)
  <2>1. n \in Nat /\ e \in Nat
    BY ErrorsTyped, RouterAssumption
  <2>2. HealthScore(m) = CASE n = 0 -> 1000
                           [] 5 * e >= n -> 0
                           [] OTHER -> (1000 * (n - 5 * e)) \div n
    BY DEF HealthScore
  <2> HIDE DEF n, e
  <2>3. n # 0 => (1000 * (n - 5 * e)) \div n \in Int
    BY <2>1
  <2> QED BY <2>1, <2>2, <2>3
<1> QED BY <1>2, <1>3, <1>4 DEF QueueScore, PolicyScore

LEMMA TotalTyped ==
  ASSUME HealthInv, NEW m \in Models, NEW j, NEW w \in [Models -> Nat]
  PROVE  Total(m, j, w) \in Int
<1> DEFINE k == ModeWeights(j.mode)
<1>1. /\ k.latency \in Int /\ k.cost \in Int /\ k.health \in Int /\ k.queue \in Int /\ k.policy \in Int
  BY DEF ModeWeights
<1>2. RolloutPct(m, w) \in Int
  BY DEF RolloutPct
<1>3. Total(m, j, w) =
        (k.latency * LatencyScore(m, j) + k.cost * CostScore(m, j) + k.health * HealthScore(m)
           + k.queue * QueueScore + k.policy * PolicyScore(m, j)) * RolloutPct(m, w)
  BY DEF Total
<1>4. ASSUME NEW x \in Int, NEW y \in Int PROVE x * y \in Int /\ x + y \in Int
  OBVIOUS
<1> HIDE DEF k
<1> QED BY <1>1, <1>2, <1>3, <1>4, ScoresTyped

\* The order of the ranking is strict and total.
LEMMA BeforeIsOrder ==
  ASSUME HealthInv, NEW j, NEW w \in [Models -> Nat]
  PROVE  /\ \A m, n \in Models : m # n => Before(m, n, j, w) \/ Before(n, m, j, w)
         /\ \A m, n \in Models : m # n /\ Before(m, n, j, w) => ~Before(n, m, j, w)
         /\ \A l, m, n \in Models : l # m /\ m # n /\ Before(l, m, j, w) /\ Before(m, n, j, w)
                                    => l # n /\ Before(l, n, j, w)
<1>1. \A m \in Models : m \in Nat /\ Total(m, j, w) \in Int
  BY TotalTyped, RouterAssumption DEF Models
<1> DEFINE T(m) == Total(m, j, w)
<1>2. \A m \in Models : m \in Nat /\ T(m) \in Int
  BY <1>1
<1>3. \A m, n \in Models : Before(m, n, j, w) <=> IF m < n THEN T(m) >= T(n) ELSE T(m) > T(n)
  BY DEF Before
<1> HIDE DEF T
<1> QED BY <1>2, <1>3

LEMMA BestIsOneOfThem ==
  ASSUME HealthInv, NEW j, NEW w \in [Models -> Nat], NEW ms \in SUBSET Models, ms # {}
  PROVE  Best(ms, j, w) \in ms
<1> DEFINE Ahead(m) == {n \in ms : n # m /\ Before(n, m, j, w)}
           T == {Ahead(m) : m \in ms}
<1>1. IsFiniteSet(ms)
  <2>1. Models = 1 .. Len(Catalog) /\ 1 \in Int /\ Len(Catalog) \in Int
    BY RouterAssumption DEF Models
  <2>2. IsFiniteSet(1 .. Len(Catalog))
    BY <2>1, FS_Interval
  <2>3. IsFiniteSet(Models)
    BY <2>1, <2>2
  <2> QED BY <2>3, FS_Subset
<1>2. IsWellFoundedOn(StrictSubsetOrdering(ms), SUBSET ms)
  BY <1>1, FS_StrictSubsetOrderingWellFounded, FS_FiniteSubsetsOfFinite, Zenon
<1>3. T \subseteq SUBSET ms /\ T # {}
  OBVIOUS
<1>4. PICK x \in T : \A y \in T : ~(<<y, x>> \in StrictSubsetOrdering(ms))
  <2> HIDE DEF T
  <2> QED BY <1>2, <1>3, WFMin, Zenon
<1>5. PICK m \in ms : x = Ahead(m)
  BY <1>4
<1>6. Ahead(m) = {}
  <2> SUFFICES ASSUME NEW n \in ms, n # m, Before(n, m, j, w) PROVE FALSE
    BY Zenon
  <2>1. Ahead(n) \subseteq Ahead(m)
    BY BeforeIsOrder
  <2>2. n \in Ahead(m) /\ n \notin Ahead(n)
    OBVIOUS
  <2>3. <<Ahead(n), Ahead(m)>> \in StrictSubsetOrdering(ms)
    <3>1. Ahead(n) \in SUBSET ms /\ Ahead(m) \in SUBSET ms /\ Ahead(n) # Ahead(m)
      BY <2>2
    <3> HIDE DEF Ahead
    <3> QED BY <2>1, <3>1 DEF StrictSubsetOrdering
  <2>4. Ahead(n) \in T
    OBVIOUS
  <2> QED BY <1>4, <1>5, <2>3, <2>4
<1>7. \A n \in ms \ {m} : Before(m, n, j, w)
  BY <1>6, BeforeIsOrder
<1>8. \E y \in ms : \A n \in ms \ {y} : Before(y, n, j, w)
  BY <1>7
<1> QED BY <1>8, Zenon DEF Best, Before
-----------------------------------------------------------------------------
(* Types.                                                                   *)

CallStates ==
  {Idle} \cup [at : {"rank"}, job : Jobs, weights : [Models -> Nat], candidates : SUBSET Models]
         \cup [at : {"call"}, primary : Models]

TableInv == [models |-> known, weights |-> canary] \in Tables
CallInv  == call \in [Calls -> CallStates]
RestInv  == up \subseteq Models /\ last \in {"ok", "error"} /\ late \in [Models -> Nat]
HitInv   == hit \subseteq {c \in Calls : call[c].at = "call"}

TypeInv == TableInv /\ BreakerInv /\ HealthInv /\ CallInv /\ RestInv /\ HitInv

LEMMA TablesTyped == TableInv => known \subseteq Models /\ canary \in [Models -> Nat]
<1> SUFFICES ASSUME TableInv PROVE known \subseteq Models /\ canary \in [Models -> Nat]
  OBVIOUS
<1>1. [models |-> known, weights |-> canary] \in [models : SUBSET Models, weights : [Models -> Nat]]
  BY RouterAssumption DEF TableInv
<1> QED BY <1>1

LEMMA CallStatesTold ==
  ASSUME NEW s \in CallStates
  PROVE  /\ s.at \in {"idle", "rank", "call"}
         /\ s.at = "rank" => s.job \in Jobs /\ s.weights \in [Models -> Nat] /\ s.candidates \in SUBSET Models
         /\ s.at = "call" => s.primary \in Models
BY DEF CallStates, Idle

LEMMA InitTyped == Init => TypeInv
<1> SUFFICES ASSUME Init PROVE TypeInv
  OBVIOUS
<1>1. TableInv
  <2>1. PICK t \in Tables : known = t.models /\ canary = t.weights
    BY DEF Init
  <2>2. t = [models |-> t.models, weights |-> t.weights]
    BY RouterAssumption
  <2> QED BY <2>1, <2>2 DEF TableInv
<1>2. BreakerInv
  BY BreakerNumbers DEF Init, BreakerInv
<1>3. HealthInv
  <2>1. 0 \in 0 .. 2 * Window - 1
    BY RouterAssumption
  <2> QED BY <2>1 DEF Init, HealthInv
<1>4. CallInv /\ RestInv /\ HitInv
  BY DEF Init, CallInv, CallStates, RestInv, HitInv
<1> QED BY <1>1, <1>2, <1>3, <1>4 DEF TypeInv

\* A step of a call that is not at an executor leaves those that are.
LEMMA StillHit ==
  ASSUME TypeInv, NEW c \in Calls, call[c].at # "call", hit' = hit,
         \E s : call' = [call EXCEPT ![c] = s]
  PROVE  HitInv'
<1>1. \A e \in Calls : e # c => call'[e] = call[e]
  BY DEF TypeInv, CallInv
<1> QED BY <1>1 DEF TypeInv, HitInv

LEMMA FilterTyped ==
  ASSUME TypeInv, NEW c \in Calls, Filter(c)
  PROVE  TypeInv'
<1> USE DEF TypeInv
<1>1. TableInv' /\ HealthInv'
  BY DEF Filter, TableInv, HealthInv
<1>2. BreakerInv'
  <2>1. \A m \in Models : \/ breaker'[m] = B(m)!AfterAllow
                          \/ breaker'[m] = breaker[m]
    BY DEF Filter
  <2>2. DOMAIN breaker' = Models /\ breaker' = [m \in Models |-> breaker'[m]] /\ since' = since
    BY DEF Filter
  <2>3. \A m \in Models :
          /\ breaker'[m] \in [state : {"closed", "open", "half-open"},
                              failures : 0 .. Threshold, successes : 0 .. SuccessReq]
          /\ breaker'[m].state = "half-open" => breaker'[m].successes < SuccessReq
    BY <2>1, BreakerMethods DEF BreakerInv
  <2> QED BY <2>2, <2>3 DEF BreakerInv
<1>3. CallInv'
  <2>1. PICK j \in Jobs : call' = [call EXCEPT ![c] = [at |-> "rank", job |-> j, weights |-> canary,
                                                       candidates |-> Candidates]]
    BY DEF Filter
  <2>2. Candidates \in SUBSET Models /\ canary \in [Models -> Nat]
    BY TablesTyped DEF Candidates
  <2> QED BY <2>1, <2>2 DEF CallInv, CallStates
<1>4. RestInv'
  BY DEF Filter, RestInv
<1>5. HitInv'
  BY StillHit DEF Filter
<1> QED BY <1>1, <1>2, <1>3, <1>4, <1>5

\* Rank dispatches to one of the candidates.
LEMMA RankPicks ==
  ASSUME TypeInv, NEW c \in Calls, Rank(c)
  PROVE  \/ call' = [call EXCEPT ![c] = Idle] /\ last' = "error"
         \/ /\ last' = last
            /\ \E m \in call[c].candidates : /\ m \in Models
                                             /\ call' = [call EXCEPT ![c] = [at |-> "call", primary |-> m]]
<1> DEFINE ms == {m \in call[c].candidates : Eligible(m, call[c].job)}
<1>1. call[c].at = "rank" /\ call[c] \in CallStates
  BY DEF Rank, TypeInv, CallInv
<1>2. call[c].weights \in [Models -> Nat] /\ call[c].candidates \in SUBSET Models
  BY <1>1, CallStatesTold
<1>3. CASE ms = {}
  BY <1>3 DEF Rank
<1>4. CASE ms # {}
  <2>1. Best(ms, call[c].job, call[c].weights) \in ms
    BY <1>2, <1>4, BestIsOneOfThem DEF TypeInv
  <2> QED BY <1>2, <1>4, <2>1 DEF Rank
<1> QED BY <1>3, <1>4

LEMMA RankTyped ==
  ASSUME TypeInv, NEW c \in Calls, Rank(c)
  PROVE  TypeInv'
<1> USE DEF TypeInv
<1>1. TableInv' /\ HealthInv' /\ BreakerInv'
  BY DEF Rank, TableInv, HealthInv, BreakerInv
<1>2. RestInv'
  <2>1. last' \in {"ok", "error"}
    BY RankPicks DEF RestInv
  <2> QED BY <2>1 DEF Rank, RestInv
<1>3. CallInv'
  <2>1. PICK s \in CallStates : call' = [call EXCEPT ![c] = s]
    <3>1. Idle \in CallStates /\ \A m \in Models : [at |-> "call", primary |-> m] \in CallStates
      BY DEF CallStates
    <3> QED BY <3>1, RankPicks
  <2> QED BY <2>1 DEF CallInv
<1>4. HitInv'
  BY StillHit, RankPicks DEF Rank
<1> QED BY <1>1, <1>2, <1>3, <1>4

\* The head of the ring, without a remainder.
LEMMA HeadIs ==
  ASSUME NEW n \in 0 .. 2 * Window - 1
  PROVE  /\ n % Window = IF n < Window THEN n ELSE n - Window
         /\ n % Window \in 0 .. Window - 1
         /\ Up(n) \in 0 .. 2 * Window - 1
<1>1. Window \in Nat \ {0}
  BY RouterAssumption
<1>2. n \in Nat /\ n < Window => n % Window = n
  BY <1>1
<1>3. n \in Nat /\ n >= Window => n % Window = n - Window
  <2> SUFFICES ASSUME n \in Nat, n >= Window PROVE n % Window = n - Window
    OBVIOUS
  <2>1. n - Window \in Nat /\ n - Window < Window
    BY <1>1
  <2>2. n % Window = (n - Window) % Window
    BY <1>1
  <2>3. (n - Window) % Window = n - Window
    BY <1>1, <2>1
  <2> QED BY <2>2, <2>3
<1>4. n \in Nat
  BY <1>1
<1>5. Up(n) \in 0 .. 2 * Window - 1
  BY <1>1 DEF Up
<1> QED BY <1>1, <1>2, <1>3, <1>4, <1>5

LEMMA RecordedTyped ==
  ASSUME HealthInv, NEW m \in Models, NEW o \in {0, 1}
  PROVE  Recorded(m, o) \in [ring : [0 .. Window - 1 -> {0, 1}], count : 0 .. 2 * Window - 1]
<1>1. /\ health[m].ring \in [0 .. Window - 1 -> {0, 1}]
      /\ health[m].count \in 0 .. 2 * Window - 1
  BY DEF HealthInv
<1>2. Up(health[m].count) \in 0 .. 2 * Window - 1 /\ health[m].count % Window \in 0 .. Window - 1
  BY <1>1, HeadIs
<1> QED BY <1>1, <1>2 DEF Recorded

LEMMA OutcomeTyped ==
  ASSUME TypeInv, NEW c \in Calls, NEW m \in Models, Succeed(c, m) \/ Fail(c, m)
  PROVE  TypeInv'
<1> USE DEF TypeInv
<1>1. PICK o \in {0, 1} : End(c, m, o)
  BY DEF Succeed, Fail
<1>2. TableInv'
  BY <1>1 DEF End, TableInv
<1>3. HealthInv'
  BY <1>1, RecordedTyped DEF End, HealthInv
<1>4. CallInv'
  BY <1>1 DEF End, CallInv, CallStates
<1>5. BreakerInv'
  <2>1. PICK b \in {B(m)!AfterSuccess, Saturated(B(m)!AfterFailure)} : breaker' = [breaker EXCEPT ![m] = b]
    BY DEF Succeed, Fail
  <2>2. /\ b \in [state : {"closed", "open", "half-open"},
                  failures : 0 .. Threshold, successes : 0 .. SuccessReq]
        /\ b.state = "half-open" => b.successes < SuccessReq
    BY BreakerMethods
  <2>3. since' \in [Models -> 0 .. Timeout + 1]
    BY BreakerNumbers DEF Succeed, Fail, BreakerInv
  <2> QED BY <2>1, <2>2, <2>3 DEF BreakerInv
<1>6. RestInv'
  <2>1. up' = up /\ last' \in {"ok", "error"}
    BY <1>1 DEF End, Succeed, Fail
  <2>2. late' \in [Models -> Nat]
    BY DEF Succeed, Fail, RestInv
  <2> QED BY <2>1, <2>2 DEF RestInv
<1>7. HitInv'
  <2>1. \A e \in Calls : e # c => call'[e] = call[e]
    BY <1>1 DEF End, CallInv
  <2> QED BY <1>1, <2>1 DEF End, HitInv
<1> QED BY <1>2, <1>3, <1>4, <1>5, <1>6, <1>7

LEMMA OtherTyped ==
  ASSUME TypeInv, (\E m \in Fragile : Flip(m)) \/ Tick \/ Republish \/ UNCHANGED vars
  PROVE  TypeInv'
<1> USE DEF TypeInv
<1>1. CASE \E m \in Fragile : Flip(m)
  <2>1. PICK m \in Fragile : Flip(m)
    BY <1>1
  <2>2. HitInv'
    BY <2>1 DEF Flip, HitInv
  <2> QED BY <2>1, <2>2, RouterAssumption DEF Flip, TableInv, HealthInv, BreakerInv, CallInv, RestInv
<1>2. CASE Tick
  <2>1. since' \in [Models -> 0 .. Timeout + 1]
    BY <1>2, BreakerNumbers DEF Tick, BreakerInv
  <2> QED BY <1>2, <2>1 DEF Tick, TableInv, HealthInv, BreakerInv, CallInv, RestInv, HitInv
<1>3. CASE Republish
  <2>1. PICK t \in Tables : known' = t.models /\ canary' = t.weights
    BY <1>3 DEF Republish
  <2>2. t = [models |-> t.models, weights |-> t.weights]
    BY RouterAssumption
  <2>3. TableInv'
    BY <2>1, <2>2 DEF TableInv
  <2> QED BY <1>3, <2>3 DEF Republish, HealthInv, BreakerInv, CallInv, RestInv, HitInv
<1>4. CASE UNCHANGED vars
  BY <1>4 DEF vars, TableInv, HealthInv, BreakerInv, CallInv, RestInv, HitInv
<1> QED BY <1>1, <1>2, <1>3, <1>4

LEMMA StepTyped == TypeInv /\ [Next]_vars => TypeInv'
  BY FilterTyped, RankTyped, OutcomeTyped, OtherTyped DEF Next, Route, Outcome

\* The stronger typing: a half-open breaker is short of a success, and what
\* a call holds is a request, weights and models.
THEOREM RouterTyped == Spec => []TypeInv
  BY InitTyped, StepTyped, PTL DEF Spec

\* Route keeps its state to its types: the ring to its length, the breakers'
\* counters to the threshold and the required successes.
THEOREM RouterTypeCorrect == Spec => []TypeOK
<1>1. TypeInv => TypeOK
  <2> SUFFICES ASSUME TypeInv PROVE TypeOK
    OBVIOUS
  <2>1. \A c \in Calls : call[c].at \in {"idle", "rank", "call"}
    BY CallStatesTold DEF TypeInv, CallInv
  <2> QED BY <2>1, TablesTyped DEF TypeInv, TableInv, BreakerInv, HealthInv, RestInv, HitInv, TypeOK
<1> QED BY <1>1, RouterTyped, PTL
-----------------------------------------------------------------------------
(* The health record.  Where in the ring the i-th of the recent outcomes is *)
(* when n have been counted, and which of them a slot holds.                *)

Slot(n, i) ==
  IF n < Window THEN i - 1
  ELSE IF n + i - 1 < 2 * Window THEN n - Window + i - 1 ELSE n - 2 * Window + i - 1

Holds(n, k) ==
  IF n < Window THEN k + 1
  ELSE IF k >= n - Window THEN k - n + Window + 1 ELSE k - n + 2 * Window + 1

FilledBy(n) == IF n < Window THEN n ELSE Window

\* Ring h, which has counted its outcomes, holds those of sequence r.
Holding(h, r) ==
  /\ r \in Seq({0, 1})
  /\ Len(r) = FilledBy(h.count)
  /\ \A i \in 1 .. Len(r) : r[i] = h.ring[Slot(h.count, i)]

RingInv ==
  /\ recent \in [Models -> Seq({0, 1})]
  /\ \A m \in Models : Holding(health[m], recent[m])

LEMMA Slots ==
  ASSUME NEW n \in 0 .. 2 * Window - 1
  PROVE  /\ FilledBy(n) \in 0 .. Window
         /\ \A i \in 1 .. FilledBy(n) : Slot(n, i) \in 0 .. FilledBy(n) - 1 /\ Holds(n, Slot(n, i)) = i
         /\ \A k \in 0 .. FilledBy(n) - 1 : Holds(n, k) \in 1 .. FilledBy(n) /\ Slot(n, Holds(n, k)) = k
<1>1. Window \in Nat \ {0}
  BY RouterAssumption
<1>2. FilledBy(n) \in 0 .. Window
  BY <1>1 DEF FilledBy
<1>3. ASSUME NEW i \in 1 .. FilledBy(n)
      PROVE  Slot(n, i) \in 0 .. FilledBy(n) - 1 /\ Holds(n, Slot(n, i)) = i
  BY <1>1, SMTT(30) DEF FilledBy, Slot, Holds
<1>4. ASSUME NEW k \in 0 .. FilledBy(n) - 1
      PROVE  Holds(n, k) \in 1 .. FilledBy(n) /\ Slot(n, Holds(n, k)) = k
  BY <1>1, SMTT(30) DEF FilledBy, Slot, Holds
<1> QED BY <1>2, <1>3, <1>4

\* Where the outcomes are after one more.
LEMMA SlotsNext ==
  ASSUME NEW n \in 0 .. 2 * Window - 1
  PROVE  /\ n < Window => /\ FilledBy(Up(n)) = n + 1 /\ Slot(Up(n), n + 1) = n
                          /\ \A i \in 1 .. n : Slot(Up(n), i) = Slot(n, i) /\ Slot(n, i) # n
         /\ n >= Window => /\ FilledBy(Up(n)) = Window /\ Slot(Up(n), Window) = n - Window
                           /\ \A i \in 1 .. Window - 1 : /\ Slot(Up(n), i) = Slot(n, i + 1)
                                                         /\ Slot(n, i + 1) # n - Window
  BY RouterAssumption DEF FilledBy, Slot, Up

LEMMA TailIs ==
  ASSUME NEW S, NEW r \in Seq(S), NEW w \in Nat \ {0}, Len(r) = w
  PROVE  /\ Tail(r) \in Seq(S) /\ Len(Tail(r)) = w - 1
         /\ \A i \in 1 .. w - 1 : Tail(r)[i] = r[i + 1]
OBVIOUS

LEMMA HoldingStays ==
  ASSUME NEW h \in [ring : [0 .. Window - 1 -> {0, 1}], count : 0 .. 2 * Window - 1],
         NEW r, Holding(h, r), NEW o \in {0, 1}
  PROVE  Holding([ring |-> [h.ring EXCEPT ![h.count % Window] = o], count |-> Up(h.count)],
                 IF Len(r) < Window THEN Append(r, o) ELSE Append(Tail(r), o))
<1> DEFINE n  == h.count
           hh == [ring |-> [h.ring EXCEPT ![n % Window] = o], count |-> Up(n)]
           rr == IF Len(r) < Window THEN Append(r, o) ELSE Append(Tail(r), o)
<1>0. /\ Window \in Nat \ {0} /\ n \in 0 .. 2 * Window - 1 /\ n \in Nat
      /\ r \in Seq({0, 1}) /\ Len(r) = FilledBy(n) /\ Len(r) \in Nat
      /\ h.ring \in [0 .. Window - 1 -> {0, 1}]
      /\ \A i \in 1 .. Len(r) : r[i] = h.ring[Slot(n, i)]
  BY RouterAssumption DEF Holding
<1>1. CASE n < Window
  <2>1. Len(r) = n /\ rr = Append(r, o) /\ n % Window = n /\ n \in 0 .. Window - 1
    BY <1>0, <1>1, HeadIs DEF FilledBy
  <2>2. rr \in Seq({0, 1}) /\ Len(rr) = n + 1 /\ rr[n + 1] = o /\ \A i \in 1 .. n : rr[i] = r[i]
    BY <1>0, <2>1, SMTT(30)
  <2>3. hh.ring[n] = o /\ \A k \in 0 .. Window - 1 : k # n => hh.ring[k] = h.ring[k]
    BY <1>0, <2>1
  <2>4. FilledBy(Up(n)) = n + 1 /\ Slot(Up(n), n + 1) = n
        /\ \A i \in 1 .. n : Slot(Up(n), i) = Slot(n, i) /\ Slot(n, i) # n
    BY <1>0, <1>1, SlotsNext
  <2>5. \A i \in 1 .. n : Slot(n, i) \in 0 .. Window - 1
    BY <1>0, <1>1, <2>1 DEF Slot
  <2>6. ASSUME NEW i \in 1 .. n + 1 PROVE rr[i] = hh.ring[Slot(Up(n), i)]
    <3>1. CASE i = n + 1
      BY <3>1, <2>2, <2>3, <2>4
    <3>2. CASE i \in 1 .. n
      BY <3>2, <1>0, <2>1, <2>2, <2>3, <2>4, <2>5
    <3> QED BY <1>0, <3>1, <3>2
  <2>7. hh.count = Up(n)
    OBVIOUS
  <2> HIDE DEF hh, rr
  <2>8. Holding(hh, rr)
    BY <2>2, <2>4, <2>6, <2>7 DEF Holding
  <2> QED BY <2>8 DEF hh, rr
<1>2. CASE n >= Window
  <2>1. Len(r) = Window /\ rr = Append(Tail(r), o) /\ n % Window = n - Window /\ n - Window \in 0 .. Window - 1
    <3>1. ~(n < Window) /\ n - Window \in 0 .. Window - 1
      <4> HIDE DEF n
      <4> QED BY <1>0, <1>2
    <3>2. Len(r) = Window /\ ~(Len(r) < Window)
      BY <1>0, <3>1 DEF FilledBy
    <3>3. n % Window = n - Window
      BY <1>0, <3>1, HeadIs
    <3> QED BY <3>1, <3>2, <3>3
  <2>2. Tail(r) \in Seq({0, 1}) /\ Len(Tail(r)) = Window - 1 /\ \A i \in 1 .. Window - 1 : Tail(r)[i] = r[i + 1]
    <3> HIDE DEF n
    <3>1. r \in Seq({0, 1}) /\ Window \in Nat \ {0} /\ Len(r) = Window
      BY <1>0, <2>1
    <3> QED BY <3>1, TailIs
  <2>3. /\ rr \in Seq({0, 1}) /\ Len(rr) = Window /\ rr[Window] = o
        /\ \A i \in 1 .. Window - 1 : rr[i] = r[i + 1]
    BY <1>0, <2>1, <2>2
  <2>4. hh.ring[n - Window] = o /\ \A k \in 0 .. Window - 1 : k # n - Window => hh.ring[k] = h.ring[k]
    BY <1>0, <2>1
  <2>5. FilledBy(Up(n)) = Window /\ Slot(Up(n), Window) = n - Window
        /\ \A i \in 1 .. Window - 1 : Slot(Up(n), i) = Slot(n, i + 1) /\ Slot(n, i + 1) # n - Window
    BY <1>0, <1>2, SlotsNext
  <2>6. \A i \in 1 .. Window - 1 : Slot(n, i + 1) \in 0 .. Window - 1 /\ i + 1 \in 1 .. Len(r)
    <3>1. FilledBy(n) = Window
      BY <1>0, <2>1
    <3>2. \A i \in 1 .. Window - 1 : i + 1 \in 1 .. Window
      BY <1>0
    <3> QED BY <1>0, <2>1, <3>1, <3>2, Slots
  <2>7. ASSUME NEW i \in 1 .. Window PROVE rr[i] = hh.ring[Slot(Up(n), i)]
    <3>1. CASE i = Window
      BY <3>1, <2>3, <2>4, <2>5
    <3>2. CASE i \in 1 .. Window - 1
      <4>1. rr[i] = r[i + 1] /\ r[i + 1] = h.ring[Slot(n, i + 1)]
        BY <3>2, <1>0, <2>3, <2>6
      <4>2. hh.ring[Slot(n, i + 1)] = h.ring[Slot(n, i + 1)]
        BY <3>2, <2>4, <2>5, <2>6
      <4>3. Slot(Up(n), i) = Slot(n, i + 1)
        BY <3>2, <2>5
      <4> QED BY <4>1, <4>2, <4>3, Zenon
    <3>3. i = Window \/ i \in 1 .. Window - 1
      BY <1>0
    <3> QED BY <3>1, <3>2, <3>3
  <2>8. hh.count = Up(n)
    OBVIOUS
  <2> HIDE DEF hh, rr
  <2>9. Holding(hh, rr)
    BY <2>3, <2>5, <2>7, <2>8 DEF Holding
  <2> QED BY <2>9 DEF hh, rr
<1> QED BY <1>0, <1>1, <1>2

\* A record and its history have as many failures.
LEMMA SameErrors ==
  ASSUME NEW h \in [ring : [0 .. Window - 1 -> {0, 1}], count : 0 .. 2 * Window - 1],
         NEW r, Holding(h, r)
  PROVE  Cardinality({k \in 0 .. FilledBy(h.count) - 1 : h.ring[k] = 0})
           = Cardinality({i \in DOMAIN r : r[i] = 0})
<1> DEFINE n == h.count
           W == FilledBy(n)
           S == {i \in 1 .. W : r[i] = 0}
           T == {k \in 0 .. W - 1 : h.ring[k] = 0}
           f == [i \in S |-> Slot(n, i)]
<1>1. /\ n \in 0 .. 2 * Window - 1 /\ W \in 0 .. Window /\ W \in Nat
      /\ DOMAIN r = 1 .. W
      /\ \A i \in 1 .. W : r[i] = h.ring[Slot(n, i)]
  BY Slots, RouterAssumption DEF Holding
<1>2. /\ \A i \in 1 .. W : Slot(n, i) \in 0 .. W - 1 /\ Holds(n, Slot(n, i)) = i
      /\ \A k \in 0 .. W - 1 : Holds(n, k) \in 1 .. W /\ Slot(n, Holds(n, k)) = k
  BY <1>1, Slots
<1> HIDE DEF n, W
<1>3. f \in [S -> T]
  BY <1>1, <1>2 DEF n
<1>4. \A i, k \in S : f[i] = f[k] => i = k
  BY <1>2
<1>5. \A k \in T : \E i \in S : f[i] = k
  <2> SUFFICES ASSUME NEW k \in T PROVE \E i \in S : f[i] = k
    OBVIOUS
  <2>1. Holds(n, k) \in S
    BY <1>1, <1>2 DEF n
  <2> QED BY <1>2, <2>1
<1>6. IsFiniteSet(S)
  <2>1. IsFiniteSet(1 .. W)
    BY <1>1, FS_Interval
  <2> QED BY <2>1, FS_Subset
<1> HIDE DEF S, T, f
<1>7. f \in Bijection(S, T)
  BY <1>3, <1>4, <1>5 DEF Bijection, Injection, Surjection, IsInjective
<1>8. Cardinality(T) = Cardinality(S)
  BY <1>6, <1>7, FS_Bijection DEF ExistsBijection
<1>9. S = {i \in DOMAIN r : r[i] = 0}
  BY <1>1 DEF S
<1> QED BY <1>8, <1>9 DEF T, W, n

LEMMA EndHolds ==
  ASSUME TypeInv, RingInv, NEW c \in Calls, NEW n \in Models, NEW o \in {0, 1}, End(c, n, o)
  PROVE  RingInv'
<1> DEFINE r == IF Len(recent[n]) < Window THEN Append(recent[n], o) ELSE Append(Tail(recent[n]), o)
<1>1. health' = [health EXCEPT ![n] = Recorded(n, o)] /\ recent' = [recent EXCEPT ![n] = r]
  BY DEF End
<1>2. Holding(Recorded(n, o), r)
  <2>1. Holding(health[n], recent[n])
    BY DEF RingInv
  <2>2. health[n] \in [ring : [0 .. Window - 1 -> {0, 1}], count : 0 .. 2 * Window - 1]
    BY DEF TypeInv, HealthInv
  <2> QED BY <2>1, <2>2, HoldingStays DEF Recorded
<1>3. r \in Seq({0, 1})
  BY <1>2 DEF Holding
<1> HIDE DEF r
<1>4. recent' \in [Models -> Seq({0, 1})]
  BY <1>1, <1>3 DEF RingInv
<1>5. ASSUME NEW m \in Models PROVE Holding(health'[m], recent'[m])
  <2>1. CASE m = n
    <3>1. health'[m] = Recorded(n, o) /\ recent'[m] = r
      BY <1>1, <2>1 DEF TypeInv, HealthInv, RingInv
    <3> QED BY <1>2, <3>1
  <2>2. CASE m # n
    <3>1. health'[m] = health[m] /\ recent'[m] = recent[m]
      BY <1>1, <2>2 DEF TypeInv, HealthInv, RingInv
    <3> QED BY <3>1 DEF RingInv
  <2> QED BY <2>1, <2>2
<1> QED BY <1>4, <1>5 DEF RingInv, Holding

\* The error rate that HealthScore uses is that of the model's last Window
\* outcomes, however often the ring has wrapped around and in whatever order
\* concurrent calls have ended.
THEOREM HealthRecordIsRecent == Spec => []HealthIsRecent
<1>1. Init => RingInv
  <2> SUFFICES ASSUME Init PROVE RingInv
    OBVIOUS
  <2>1. recent \in [Models -> Seq({0, 1})]
    BY DEF Init
  <2>2. ASSUME NEW m \in Models PROVE Holding(health[m], recent[m])
    <3>1. health[m].count = 0 /\ recent[m] = <<>>
      BY DEF Init
    <3>2. FilledBy(0) = 0
      BY RouterAssumption DEF FilledBy
    <3> QED BY <3>1, <3>2 DEF Holding
  <2> QED BY <2>1, <2>2 DEF RingInv
<1>2. TypeInv /\ RingInv /\ [Next]_vars => RingInv'
  <2> SUFFICES ASSUME TypeInv, RingInv, [Next]_vars PROVE RingInv'
    OBVIOUS
  <2>1. CASE health' = health /\ recent' = recent
    BY <2>1 DEF RingInv
  <2>2. CASE \E c \in Calls, m \in Models, o \in {0, 1} : End(c, m, o)
    BY <2>2, EndHolds
  <2> QED BY <2>1, <2>2 DEF Next, Route, Outcome, Filter, Rank, Succeed, Fail, Flip, Tick, Republish, vars
<1>3. TypeInv /\ RingInv => HealthIsRecent
  <2> SUFFICES ASSUME TypeInv, RingInv, NEW m \in Models
               PROVE  /\ Filled(m) = Len(recent[m])
                      /\ Errors(m) = Cardinality({i \in DOMAIN recent[m] : recent[m][i] = 0})
    BY DEF HealthIsRecent
  <2>1. health[m] \in [ring : [0 .. Window - 1 -> {0, 1}], count : 0 .. 2 * Window - 1]
    BY DEF TypeInv, HealthInv
  <2>2. Holding(health[m], recent[m])
    BY DEF RingInv
  <2>3. Filled(m) = FilledBy(health[m].count)
    BY DEF Filled, FilledBy
  <2>4. Filled(m) = Len(recent[m])
    BY <2>2, <2>3 DEF Holding
  <2>5. Cardinality({k \in 0 .. FilledBy(health[m].count) - 1 : health[m].ring[k] = 0})
          = Cardinality({i \in DOMAIN recent[m] : recent[m][i] = 0})
    BY <2>1, <2>2, SameErrors
  <2> QED BY <2>3, <2>4, <2>5, Zenon DEF Errors
<1> QED BY <1>1, <1>2, <1>3, RouterTyped, PTL DEF Spec

-----------------------------------------------------------------------------
(* Failures on an open breaker.  A call can still fail on a model if it     *)
(* holds it: it has it for a candidate or has sent its request there.       *)

Holders(m) ==
  {c \in Calls : \/ call[c].at = "rank" /\ m \in call[c].candidates
                 \/ call[c].at = "call" /\ call[c].primary = m}

LateFor(m) ==
  IF breaker[m].state = "open" THEN late[m] + Cardinality(Holders(m)) < Cardinality(Calls)
                               ELSE late[m] = 0

LateInv == \A m \in Models : LateFor(m)

LEMMA HoldersFinite == \A m : /\ IsFiniteSet(Holders(m)) /\ Cardinality(Holders(m)) \in Nat
                              /\ IsFiniteSet(Calls) /\ Cardinality(Calls) \in Nat \ {0}
<1> SUFFICES ASSUME NEW m
             PROVE  /\ IsFiniteSet(Holders(m)) /\ Cardinality(Holders(m)) \in Nat
                    /\ IsFiniteSet(Calls) /\ Cardinality(Calls) \in Nat \ {0}
  OBVIOUS
<1>1. IsFiniteSet(Calls) /\ Calls # {}
  BY RouterAssumption
<1>2. Holders(m) \in SUBSET Calls
  BY DEF Holders
<1>3. IsFiniteSet(Holders(m))
  BY <1>1, <1>2, FS_Subset
<1>4. Cardinality(Holders(m)) \in Nat /\ Cardinality(Calls) \in Nat
  BY <1>1, <1>3, FS_CardinalityType
<1>5. Cardinality(Calls) # 0
  BY <1>1, FS_EmptySet, Zenon
<1> QED BY <1>1, <1>3, <1>4, <1>5

LEMMA LateFrame ==
  ASSUME TypeInv, NEW m \in Models, LateFor(m), breaker'[m].state = breaker[m].state,
         late'[m] = late[m], Holders(m)' \subseteq Holders(m)
  PROVE  LateFor(m)'
<1>1. CASE breaker[m].state = "open"
  <2>1. IsFiniteSet(Holders(m)') /\ Cardinality(Holders(m)') <= Cardinality(Holders(m))
    BY HoldersFinite, FS_Subset
  <2>2. Cardinality(Holders(m)') \in Nat
    BY <2>1, FS_CardinalityType
  <2>3. late[m] \in Nat
    BY DEF TypeInv, RestInv
  <2>4. late[m] + Cardinality(Holders(m)) < Cardinality(Calls)
    BY <1>1 DEF LateFor
  <2>5. late'[m] + Cardinality(Holders(m)') < Cardinality(Calls)
    <3> HIDE DEF Holders
    <3> QED BY <2>1, <2>2, <2>3, <2>4, HoldersFinite
  <2> QED BY <1>1, <2>5 DEF LateFor
<1>2. CASE breaker[m].state # "open"
  BY <1>2 DEF LateFor
<1> QED BY <1>1, <1>2

LEMMA FilterLate ==
  ASSUME TypeInv, LateInv, NEW c \in Calls, Filter(c)
  PROVE  LateInv'
<1> SUFFICES ASSUME NEW m \in Models PROVE LateFor(m)'
  BY DEF LateInv, Models
<1>1. /\ breaker'[m] = IF m \in known THEN B(m)!AfterAllow ELSE breaker[m]
      /\ late'[m] = IF breaker'[m].state = "open" THEN late[m] ELSE 0
  BY DEF Filter
<1>2. CASE breaker'[m].state # "open"
  BY <1>1, <1>2 DEF LateFor
<1>3. CASE breaker'[m].state = "open"
  <2>1. breaker[m].state = "open" /\ m \notin Candidates
    BY <1>1, <1>3 DEF B!AfterAllow, B!Allows, Candidates
  <2>2. Holders(m)' \subseteq Holders(m)
    <3>1. PICK j \in Jobs : call' = [call EXCEPT ![c] = [at |-> "rank", job |-> j, weights |-> canary,
                                                         candidates |-> Candidates]]
      BY DEF Filter
    <3>2. \A e \in Calls : e # c => call'[e] = call[e]
      BY <3>1 DEF TypeInv, CallInv
    <3>3. call'[c].at = "rank" /\ call'[c].candidates = Candidates
      BY <3>1 DEF TypeInv, CallInv
    <3> QED BY <2>1, <3>2, <3>3 DEF Holders
  <2>3. LateFor(m)
    BY DEF LateInv
  <2> QED BY <1>1, <1>3, <2>1, <2>2, <2>3, LateFrame
<1> QED BY <1>2, <1>3

LEMMA RankLate ==
  ASSUME TypeInv, LateInv, NEW c \in Calls, Rank(c)
  PROVE  LateInv'
<1> SUFFICES ASSUME NEW m \in Models PROVE LateFor(m)'
  BY DEF LateInv, Models
<1>1. breaker' = breaker /\ late' = late /\ LateFor(m) /\ call[c].at = "rank"
  BY DEF Rank, LateInv
<1>2. /\ call'[c].at # "rank" /\ (call'[c].at = "call" => call'[c].primary \in call[c].candidates)
      /\ \A e \in Calls : e # c => call'[e] = call[e]
  <2>1. CASE call' = [call EXCEPT ![c] = Idle]
    BY <2>1 DEF Idle, TypeInv, CallInv
  <2>2. CASE \E n \in call[c].candidates : call' = [call EXCEPT ![c] = [at |-> "call", primary |-> n]]
    BY <2>2 DEF TypeInv, CallInv
  <2> QED BY <2>1, <2>2, RankPicks
<1>3. Holders(m)' \subseteq Holders(m)
  BY <1>1, <1>2 DEF Holders
<1> QED BY <1>1, <1>3, LateFrame

\* A call that ends holds nothing any more.
LEMMA EndLeaves ==
  ASSUME TypeInv, NEW c \in Calls, NEW m \in Models, NEW o, End(c, m, o)
  PROVE  c \in Holders(m) /\ \A n \in Models : Holders(n)' = Holders(n) \ {c}
<1>1. call' = [call EXCEPT ![c] = Idle] /\ call[c].at = "call" /\ call[c].primary = m
  BY DEF End
<1>2. call'[c].at = "idle" /\ \A e \in Calls : e # c => call'[e] = call[e]
  BY <1>1 DEF TypeInv, CallInv, Idle
<1>3. c \in Holders(m)
  BY <1>1 DEF Holders
<1>4. ASSUME NEW n \in Models PROVE Holders(n)' = Holders(n) \ {c}
  BY <1>2 DEF Holders
<1> QED BY <1>3, <1>4

LEMMA SucceedLate ==
  ASSUME TypeInv, LateInv, NEW c \in Calls, NEW m \in Models, Succeed(c, m)
  PROVE  LateInv'
<1> SUFFICES ASSUME NEW n \in Models PROVE LateFor(n)'
  BY DEF LateInv, Models
<1>1. End(c, m, 1) /\ breaker' = [breaker EXCEPT ![m] = B(m)!AfterSuccess] /\ late' = late
  BY DEF Succeed
<1>2. Holders(n)' \subseteq Holders(n) /\ LateFor(n)
  BY <1>1, EndLeaves DEF LateInv
<1>3. \/ breaker'[n].state = breaker[n].state
      \/ breaker'[n].state # "open" /\ breaker[n].state # "open"
  <2>1. breaker[m] \in [state : {"closed", "open", "half-open"},
                        failures : 0 .. Threshold, successes : 0 .. SuccessReq]
    BY DEF TypeInv, BreakerInv
  <2>2. CASE n # m
    BY <1>1, <2>2 DEF TypeInv, BreakerInv
  <2>3. CASE n = m
    <3>1. breaker'[n] = B(m)!AfterSuccess
      BY <1>1, <2>3 DEF TypeInv, BreakerInv
    <3> QED BY <2>1, <2>3, <3>1 DEF B!AfterSuccess
  <2> QED BY <2>2, <2>3
<1>4. CASE breaker'[n].state = breaker[n].state
  BY <1>1, <1>2, <1>4, LateFrame
<1>5. CASE breaker'[n].state # "open" /\ breaker[n].state # "open"
  BY <1>1, <1>2, <1>5 DEF LateFor
<1> QED BY <1>3, <1>4, <1>5

LEMMA FailLate ==
  ASSUME TypeInv, LateInv, NEW c \in Calls, NEW m \in Models, Fail(c, m)
  PROVE  LateInv'
<1> SUFFICES ASSUME NEW n \in Models PROVE LateFor(n)'
  BY DEF LateInv, Models
<1>1. /\ End(c, m, 0) /\ breaker' = [breaker EXCEPT ![m] = Saturated(B(m)!AfterFailure)]
      /\ late' = [late EXCEPT ![m] = IF breaker[m].state = "open" THEN @ + 1 ELSE 0]
  BY DEF Fail
<1>2. c \in Holders(m) /\ Holders(n)' = Holders(n) \ {c} /\ LateFor(n)
  BY <1>1, EndLeaves DEF LateInv
<1>3. CASE n # m
  <2>1. breaker'[n] = breaker[n] /\ late'[n] = late[n]
    BY <1>1, <1>3 DEF TypeInv, BreakerInv, RestInv
  <2> QED BY <1>2, <2>1, LateFrame
<1>4. CASE n = m
  <2>0. breaker[m] \in [state : {"closed", "open", "half-open"},
                        failures : 0 .. Threshold, successes : 0 .. SuccessReq]
    BY DEF TypeInv, BreakerInv
  <2>1. /\ breaker'[m] = Saturated(B(m)!AfterFailure)
        /\ late'[m] = IF breaker[m].state = "open" THEN late[m] + 1 ELSE 0
        /\ late[m] \in Nat
    BY <1>1 DEF TypeInv, BreakerInv, RestInv
  <2>2. breaker[m].state = "open" => breaker'[m].state = "open"
    BY <2>0, <2>1, BreakerNumbers DEF Saturated, B!AfterFailure
  <2>3. Cardinality(Holders(m)') = Cardinality(Holders(m)) - 1
    BY <1>2, <1>4, HoldersFinite, FS_RemoveElement
  <2>4. Cardinality(Holders(m)) <= Cardinality(Calls)
    <3>1. Holders(m) \in SUBSET Calls
      BY DEF Holders
    <3> QED BY <3>1, HoldersFinite, FS_Subset
  <2>5. late'[m] + Cardinality(Holders(m)') < Cardinality(Calls)
    <3>1. /\ Cardinality(Holders(m)) \in Nat /\ Cardinality(Calls) \in Nat
      BY HoldersFinite
    <3>2. breaker[m].state = "open" => late[m] + Cardinality(Holders(m)) < Cardinality(Calls)
      BY <1>2, <1>4 DEF LateFor
    <3> HIDE DEF Holders
    <3> QED BY <2>1, <2>3, <2>4, <3>1, <3>2
  <2>6. breaker'[m].state # "open" => late'[m] = 0
    BY <2>1, <2>2
  <2> QED BY <1>4, <2>5, <2>6 DEF LateFor
<1> QED BY <1>3, <1>4

\* Once a model's breaker is open only the calls that had asked it before can
\* still fail on it: fewer failures than calls under way are recorded late.
THEOREM LateFailuresAreBounded == Spec => []LateFailuresBounded
<1>1. Init => LateInv
  BY DEF Init, LateInv, LateFor
<1>2. TypeInv /\ LateInv /\ [Next]_vars => LateInv'
  <2> SUFFICES ASSUME TypeInv, LateInv, [Next]_vars PROVE LateInv'
    OBVIOUS
  <2>1. CASE breaker' = breaker /\ late' = late /\ call' = call
    BY <2>1 DEF LateInv, LateFor, Holders
  <2>2. CASE \E c \in Calls : Route(c)
    BY <2>2, FilterLate, RankLate, SucceedLate, FailLate DEF Route, Outcome
  <2> QED BY <2>1, <2>2 DEF Next, Flip, Tick, Republish, vars
<1>3. TypeInv /\ LateInv => LateFailuresBounded
  <2> SUFFICES ASSUME TypeInv, LateInv, NEW m \in Models PROVE late[m] < Cardinality(Calls)
    BY DEF LateFailuresBounded
  <2>1. LateFor(m) /\ late[m] \in Nat
    BY DEF LateInv, TypeInv, RestInv
  <2>2. Cardinality(Holders(m)) \in Nat /\ Cardinality(Calls) \in Nat \ {0}
    BY HoldersFinite
  <2> HIDE DEF Holders
  <2> QED BY <2>1, <2>2 DEF LateFor
<1> QED BY <1>1, <1>2, <1>3, RouterTyped, PTL DEF Spec
=============================================================================
