---------------------------- MODULE ServicesProofs ----------------------------
(***************************************************************************)
(* The composition that is model-checked, MCServices, for every value of   *)
(* its constants.  The rate limiter comes first: it never lets more        *)
(* through than the loosest policy allows, whatever the policies, the      *)
(* number of calls and the history of policy changes, stale cache fills    *)
(* and failed queries.  What is proved of it and of the gateway            *)
(* (GatewayProofs) holds of the composition, because every step is a step  *)
(* of theirs or leaves their state alone.  Then the quota enforcer: its    *)
(* minute counter never exceeds the minute's usage, and a day's usage      *)
(* exceeds the limit by a bounded number of inferences.  Types of the      *)
(* reload loop and of the executor come last.                              *)
(***************************************************************************)
EXTENDS MCServices, FiniteSetTheorems, TLAPS

-----------------------------------------------------------------------------
(* The rate limiter.                                                        *)

\* What makes NeverOverspends inductive: the ideal bucket holds at least what
\* the real one would hold after a refill at the greatest rate.
Backed == credit >= Full \/ credit >= bucket.tokens + MaxRate * bucket.idle

IInv == TypeOK /\ Backed

\* Multiplication of naturals is monotone and distributes.
LEMMA Times ==
  ASSUME NEW a \in Nat, NEW b \in Nat, NEW n \in Nat, a <= b
  PROVE  /\ a * n \in Nat
         /\ a * n <= b * n
         /\ b * (n + 1) = b * n + b
  OBVIOUS

\* A full bucket of the largest burst is a natural number.
LEMMA FullIsNat == Full \in Nat
  BY LimitAssumption DEF Full

\* AtMost is the smaller of its arguments.
LEMMA AtMostIsMin ==
  ASSUME NEW a \in Int, NEW b \in Int
  PROVE  AtMost(a, b) \in {a, b} /\ AtMost(a, b) <= a /\ AtMost(a, b) <= b
  BY DEF AtMost

\* RateLimiter.Allow's refill stays within the largest burst, and below what
\* the greatest rate would have brought.
LEMMA RefillIsBounded ==
  ASSUME TypeOK, NEW p \in Policies
  PROVE  /\ Refilled(p) \in 0 .. Full
         /\ Refilled(p) <= bucket.tokens + MaxRate * bucket.idle
<1> DEFINE t == bucket.tokens
           i == bucket.idle
<1>1. /\ p.rate \in Nat /\ p.rate <= MaxRate
      /\ p.burst \in Nat /\ p.burst <= MaxBurst
      /\ MaxRate \in Nat /\ MaxBurst \in Nat /\ Second \in Nat
  BY LimitAssumption
<1>2. t \in Nat /\ i \in Nat
  BY LimitAssumption, FullIsNat DEF TypeOK
<1>3. p.burst * Second \in Nat /\ p.burst * Second <= Full
  BY <1>1, Times DEF Full
<1>4. p.rate * i \in Nat /\ p.rate * i <= MaxRate * i
  BY <1>1, <1>2, Times
<1>5. i * p.rate = p.rate * i /\ MaxRate * i \in Nat
  BY <1>1, <1>2
<1>6. Refilled(p) = AtMost(p.burst * Second, t + i * p.rate)
  BY DEF Refilled
<1> HIDE DEF t, i
<1>7. /\ Refilled(p) \in {p.burst * Second, t + i * p.rate}
      /\ Refilled(p) <= p.burst * Second
      /\ Refilled(p) <= t + i * p.rate
  BY <1>2, <1>3, <1>4, <1>5, <1>6, AtMostIsMin
<1>8. Refilled(p) \in 0 .. Full /\ Refilled(p) <= t + MaxRate * i
  BY <1>2, <1>3, <1>4, <1>5, <1>7, FullIsNat
<1> QED
  BY <1>8 DEF t, i

\* Allow(c) with a policy in hand: the new bucket is typed, and what it gives
\* out the ideal bucket can pay for.
LEMMA AllowPreserves ==
  ASSUME IInv, NEW c \in Calls, Allow(c)
  PROVE  IInv'
<1> DEFINE r == Refilled(pol[c])
<1> USE DEF IInv
<1>1. pol[c] \in Policies
  BY DEF TypeOK
<1>2. r \in 0 .. Full /\ r <= bucket.tokens + MaxRate * bucket.idle
  BY <1>1, RefillIsBounded
<1>3. /\ bucket' = [tokens |-> IF r >= Second THEN r - Second ELSE r, idle |-> 0]
      /\ last' = IF r >= Second THEN "admitted" ELSE "refused"
      /\ credit' = IF last' = "admitted" THEN credit - Second ELSE credit
  BY DEF Allow, AfterAllow
<1> HIDE DEF r
<1>4. credit >= r
  BY <1>2, FullIsNat, LimitAssumption DEF Backed, TypeOK
<1>5. /\ bucket' \in [tokens : 0 .. Full, idle : 0 .. MaxIdle]
      /\ last' \in {"admitted", "refused"}
      /\ credit' \in Int
  BY <1>2, <1>3, FullIsNat, LimitAssumption DEF TypeOK
<1>6. Backed'
  <2>1. bucket'.tokens + MaxRate * bucket'.idle = bucket'.tokens
    BY <1>3, <1>5, LimitAssumption, FullIsNat
  <2>2. credit' >= bucket'.tokens
    BY <1>2, <1>3, <1>4, FullIsNat, LimitAssumption DEF TypeOK
  <2> QED
    BY <2>1, <2>2 DEF Backed
<1>7. TypeOK'
  BY <1>5, LimitAssumption DEF Allow, TypeOK
<1> QED
  BY <1>6, <1>7

\* A tick of the clock: the ideal bucket gains at least what the real one
\* could come to hold.
LEMMA TickPreserves ==
  ASSUME IInv, Tick
  PROVE  IInv'
<1> USE DEF IInv
<1> DEFINE t == bucket.tokens
           i == bucket.idle
           j == bucket'.idle
<1>1. /\ t \in Nat /\ t <= Full /\ i \in Nat /\ i <= MaxIdle /\ MaxIdle \in Nat
      /\ entry.age \in 0 .. TTL + 1 /\ entry.policy \in Policies
      /\ credit \in Int /\ MaxRate \in Nat /\ TTL \in Nat
  BY LimitAssumption, FullIsNat DEF TypeOK
<1>2. /\ entry' = [policy |-> entry.policy, age |-> AtMost(TTL + 1, entry.age + 1)]
      /\ bucket' = [tokens |-> t, idle |-> AtMost(MaxIdle, i + 1)]
      /\ credit' = AtMost(Full, credit + MaxRate)
  BY DEF Tick
<1>3. j = AtMost(MaxIdle, i + 1) /\ bucket'.tokens = t
  BY <1>2
<1>4. AtMost(TTL + 1, entry.age + 1) \in 0 .. TTL + 1
  BY <1>1, AtMostIsMin
<1> HIDE DEF t, i, j
<1>5. j \in 0 .. MaxIdle /\ j <= i + 1
  BY <1>1, <1>3, AtMostIsMin
<1>6. credit' \in Int /\ (credit' = Full \/ credit' = credit + MaxRate)
  BY <1>1, <1>2, FullIsNat, AtMostIsMin
<1>7. TypeOK'
  <2>1. entry' \in [policy : Policies, age : 0 .. TTL + 1]
    BY <1>1, <1>2, <1>4
  <2>2. bucket' \in [tokens : 0 .. Full, idle : 0 .. MaxIdle]
    BY <1>1, <1>2, <1>3, <1>5, FullIsNat
  <2> QED
    BY <1>6, <2>1, <2>2 DEF Tick, TypeOK
<1>8. Backed'
  <2>1. CASE credit' = Full
    BY <2>1, FullIsNat DEF Backed, Full
  <2>2. CASE credit' = credit + MaxRate /\ credit >= Full
    BY <2>2, <1>1, FullIsNat DEF Backed, Full
  <2>3. CASE credit' = credit + MaxRate /\ credit >= t + MaxRate * i
    <3>1. j * MaxRate <= (i + 1) * MaxRate /\ j * MaxRate \in Nat
      BY <1>1, <1>5, Times
    <3>2. MaxRate * (i + 1) = MaxRate * i + MaxRate
      BY <1>1, Times
    <3>3. MaxRate * j <= MaxRate * i + MaxRate
      BY <3>1, <3>2, <1>1, <1>5
    <3>4. /\ MaxRate * j \in Nat
          /\ MaxRate * i \in Nat
      BY <1>1, <1>5
    <3>5. credit' >= t + MaxRate * j
      BY <3>3, <3>4, <2>3, <1>1
    <3> QED
      BY <3>5, <1>3 DEF Backed, j
  <2> QED
    BY <1>6, <2>1, <2>2, <2>3 DEF Backed, t, i
<1> QED
  BY <1>7, <1>8

\* The steps that leave bucket and credit alone keep the types.
LEMMA OtherPreserves ==
  ASSUME IInv,
         \/ \E c \in Calls : Lookup(c) \/ Load(c) \/ Set(c)
         \/ UpdateRow \/ Flip
  PROVE  IInv'
<1> USE LimitAssumption DEF IInv, TypeOK
<1>1. ASSUME NEW c \in Calls, Lookup(c)  PROVE TypeOK'
  BY <1>1 DEF Lookup
<1>2. ASSUME NEW c \in Calls, Load(c)  PROVE TypeOK'
  BY <1>2 DEF Load
<1>3. ASSUME NEW c \in Calls, Set(c)  PROVE TypeOK'
  BY <1>3 DEF Set
<1>4. ASSUME UpdateRow  PROVE TypeOK'
  BY <1>4 DEF UpdateRow
<1>5. ASSUME Flip  PROVE TypeOK'
  BY <1>5 DEF Flip
<1>6. bucket' = bucket /\ credit' = credit
  BY DEF Lookup, Load, Set, UpdateRow, Flip
<1>7. Backed'
  BY <1>6 DEF Backed, Full
<1> QED
  BY <1>1, <1>2, <1>3, <1>4, <1>5, <1>7

-----------------------------------------------------------------------------

\* The invariant holds throughout: at the start the ideal bucket is full, and
\* every step of Route, the clock or the environment keeps it backed.
THEOREM BucketIsBacked == Spec => []IInv
<1>1. Init => IInv
  BY LimitAssumption, FullIsNat DEF Init, IInv, TypeOK, Backed
<1>2. ASSUME IInv, [Next]_vars  PROVE IInv'
  <2>1. CASE \E c \in Calls : Allow(c)
    BY <1>2, <2>1, AllowPreserves
  <2>2. CASE Tick
    BY <1>2, <2>2, TickPreserves
  <2>3. CASE (\E c \in Calls : Lookup(c) \/ Load(c) \/ Set(c)) \/ UpdateRow \/ Flip
    BY <1>2, <2>3, OtherPreserves
  <2>4. CASE UNCHANGED vars
    BY <1>2, <2>4 DEF vars, IInv, TypeOK, Backed, Full
  <2> QED
    BY <1>2, <2>1, <2>2, <2>3, <2>4 DEF Next, Route
<1> QED
  BY <1>1, <1>2, PTL DEF Spec

\* RateLimiter and PolicyStore keep to their types.
THEOREM LimitTypeCorrect == Spec => []TypeOK
<1>1. IInv => TypeOK
  BY DEF IInv
<1> QED
  BY <1>1, BucketIsBacked, PTL

\* The token bucket never lets through more than the loosest policy's burst
\* plus its rate times the time passed, over any period: policy changes and
\* stale policies included.
THEOREM LimitHolds == Spec => []NeverOverspends
<1>1. IInv => NeverOverspends
  <2> SUFFICES ASSUME IInv PROVE credit >= 0
    BY DEF NeverOverspends
  <2>1. /\ bucket.tokens \in Nat /\ bucket.idle \in Nat /\ MaxRate \in Nat
        /\ credit \in Int
    BY LimitAssumption, FullIsNat DEF IInv, TypeOK
  <2>2. MaxRate * bucket.idle \in Nat
    BY <2>1
  <2> QED
    BY <2>1, <2>2, FullIsNat DEF IInv, Backed
<1> QED
  BY <1>1, BucketIsBacked, PTL

\* MCServices implements the limiter's specification.
LEMMA LimiterImplemented == MCSpec => Spec
<1>1. [MCNext]_allVars => [Next]_vars
  BY DEF MCNext, Limit, Usage, Copies, Serve, Work, allVars
<1> QED BY <1>1, PTL DEF MCSpec, MCInit, Spec

\* So in the composition, too, RateLimiter.Allow never lets through more than
\* the loosest policy's burst and rate.
THEOREM ServicesNeverOverspend == MCSpec => []NeverOverspends
BY LimiterImplemented, LimitHolds, PTL

-----------------------------------------------------------------------------
(* The gateway in the composition.                                          *)

P == INSTANCE GatewayProofs WITH pc <- requestPc, TTL <- KeyTTL

\* MCServices implements the gateway's specification, initial states first.
LEMMA GatewayStarts == MCInit => P!Init
  BY DEF MCInit, G!Init, P!Init, G!Metrics, P!Metrics

LEMMA GatewaySteps == [MCNext]_allVars => [P!Next]_(P!vars)
<1>1. G!Next => P!Next
  BY Zenon DEF G!Next, P!Next, G!Handle, P!Handle, G!Hangup, P!Hangup, G!Invalidate, P!Invalidate,
                G!TurnOff, P!TurnOff, G!Tick, P!Tick, G!Lookup, P!Lookup, G!Query, P!Query,
                G!Fill, P!Fill, G!Malformed, P!Malformed, G!Refuse, P!Refuse, G!Accept, P!Accept,
                G!Unary, P!Unary, G!Stream, P!Stream, G!Poll, P!Poll, G!Send, P!Send, G!Close, P!Close,
                G!Goto, P!Goto, G!Answer, P!Answer, G!Answered, P!Answered, G!Admit, P!Admit,
                G!HasInput, P!HasInput, G!HTTPStatus, P!HTTPStatus,
                G!Failures, P!Failures, G!Chunks, P!Chunks, G!auth, P!auth, G!answer, P!answer,
                G!Metrics, P!Metrics
<1> QED
  BY <1>1 DEF MCNext, Serve, Limit, Usage, Copies, Work, P!vars, gatewayVars, allVars

LEMMA GatewayImplemented == MCSpec => P!Spec
  BY GatewayStarts, GatewaySteps, PTL DEF MCSpec, P!Spec

\* Each instance has its copy of the operators of FiniteSets; they agree.
LEMMA SameFinite == \A S : (P!IsFiniteSet(S) <=> IsFiniteSet(S))
  BY Zenon DEF P!IsFiniteSet, IsFiniteSet

LEMMA SameCardinality == \A S : P!Cardinality(S) = Cardinality(S) /\ G!Cardinality(S) = Cardinality(S)
  BY Zenon DEF P!Cardinality, G!Cardinality, Cardinality

\* The constants of the composition are as the gateway's proofs need them.
LEMMA GatewayConstants == P!Lifetimes
  BY GatewayAssumption DEF P!Lifetimes

\* In the composition a key that was turned off is refused from TTL and the
\* longest lookup on (auth.Store.Validate), whatever they are.
THEOREM ServicesRevocation == MCSpec => RevocationHolds
<1>1. P!Spec => P!RevocationHolds
  BY P!RevocationIsFinal, GatewayConstants
<1>2. P!RevocationHolds => RevocationHolds
  BY PTL DEF P!RevocationHolds, RevocationHolds, G!RevocationHolds, P!In, G!In, P!vars, G!vars
<1> QED
  BY <1>1, <1>2, GatewayImplemented, PTL

\* In the composition no response has its status written twice
\* (handleInference, handleSSE).
THEOREM ServicesOneStatus == MCSpec => OneStatus
<1>1. P!Spec => P!OneStatus
  BY P!StatusIsFinal
<1>2. P!OneStatus => OneStatus
  BY PTL DEF P!OneStatus, OneStatus, G!OneStatus, P!vars, G!vars
<1> QED
  BY <1>1, <1>2, GatewayImplemented, PTL

\* In the composition the gateway's counters account for every request.
THEOREM ServicesCountersBalance == MCSpec => []CountersBalance
<1>1. P!Spec => []P!CountersBalance
  BY P!CountersAccount, SameFinite, GatewayAssumption
<1>2. P!CountersBalance => CountersBalance
  BY SameCardinality DEF P!CountersBalance, CountersBalance, G!CountersBalance, P!In, G!In
<1> QED
  BY <1>1, <1>2, GatewayImplemented, PTL

\* In the composition a stream counted as streamed has written so.
THEOREM ServicesStreamsEndWithDone == MCSpec => []StreamsEndWithDone
<1>1. P!Spec => []P!StreamsEndWithDone
  BY P!CountedStreamsAreDone, SameFinite, GatewayAssumption
<1>2. P!StreamsEndWithDone => StreamsEndWithDone
  BY SameCardinality DEF P!StreamsEndWithDone, StreamsEndWithDone, G!StreamsEndWithDone
<1> QED
  BY <1>1, <1>2, GatewayImplemented, PTL

LEMMA GatewayTypes == MCSpec => []G!TypeOK
<1>1. P!Spec => []P!TypeOK
  BY P!GatewayTypeCorrect, GatewayConstants, SameFinite, GatewayAssumption
<1>2. P!TypeOK => G!TypeOK
  BY SameCardinality DEF P!TypeOK, G!TypeOK, P!Metrics, G!Metrics
<1> QED
  BY <1>1, <1>2, GatewayImplemented, PTL
-----------------------------------------------------------------------------
(* The quota enforcer.  Its specification is Quota's, instantiated as Q.    *)

AllConfigs == QuotaConfigs \cup {QuotaDefault}

QuotaLabels == {"idle", "fill", "minute", "lock", "day", "usage", "infer", "record", "recorded", "count"}

\* Where a client holds a minute it has read, its estimate, what it used.
Keyed == {"lock", "usage", "record", "recorded", "count"}
Asked == {"day", "usage"}
Sized == {"recorded", "count"}
Amounts == {0} \cup Estimates \cup Tokens

ClientInv ==
  /\ quotaPc \in [Clients -> QuotaLabels]
  /\ cfg \in [Clients -> AllConfigs]
  /\ minuteKey \in [Clients -> 0 .. now]
  /\ amount \in [Clients -> Amounts]
  /\ \A c \in Clients : /\ quotaPc[c] \in Keyed => minuteKey[c] # 0
                        /\ quotaPc[c] \in Asked => amount[c] \in Estimates
                        /\ quotaPc[c] \in Sized => amount[c] \in Tokens

StoreInv ==
  /\ now \in 1 .. Horizon
  /\ quotaRow \in AllConfigs
  /\ quotaEntry \in [config : AllConfigs, age : 0 .. QuotaTTL]
  /\ usage \in [tokens : [Q!Days -> Nat], cost : [Q!Days -> Nat], minute : [1 .. Horizon -> Nat]]
  /\ counter \in [window : 0 .. Horizon, used : Nat]
  /\ admin = {} \/ \E g \in QuotaConfigs : admin = {g}
  /\ faults \in 0 .. MaxFaults
  /\ blind \in 0 .. faults

\* One client moves, with a minute and a number of tokens in hand.
ClientStep(c, from, to, k, a) ==
  /\ quotaPc[c] = from
  /\ quotaPc' = [quotaPc EXCEPT ![c] = to]
  /\ minuteKey' = [minuteKey EXCEPT ![c] = k]
  /\ amount' = [amount EXCEPT ![c] = a]
  /\ \E g \in AllConfigs : cfg' = [cfg EXCEPT ![c] = g]
  /\ now' = now

\* The paths of a client through Check and Record.
ClientPath(c) ==
  \/ \E to \in {"fill", "minute"} : ClientStep(c, "idle", to, minuteKey[c], amount[c])
  \/ ClientStep(c, "fill", "minute", minuteKey[c], amount[c])
  \/ \E from \in {"minute", "lock", "usage", "infer", "count"} : ClientStep(c, from, "idle", 0, 0)
  \/ ClientStep(c, "minute", "lock", now, amount[c])
  \/ \E a \in Estimates : ClientStep(c, "lock", "day", 0, a)
  \/ ClientStep(c, "day", "usage", now, amount[c])
  \/ ClientStep(c, "usage", "infer", 0, 0)
  \/ ClientStep(c, "infer", "record", now, amount[c])
  \/ \E a \in Tokens : ClientStep(c, "record", "recorded", minuteKey[c], a)
  \/ ClientStep(c, "recorded", "count", minuteKey[c], amount[c])

\* What a client leaves alone is what it sets to the same value.
LEMMA SameClient ==
  ASSUME ClientInv, NEW c \in Clients
  PROVE  /\ cfg = [cfg EXCEPT ![c] = cfg[c]] /\ cfg[c] \in AllConfigs
         /\ minuteKey = [minuteKey EXCEPT ![c] = minuteKey[c]]
         /\ amount = [amount EXCEPT ![c] = amount[c]]
BY DEF ClientInv

LEMMA LeaveIsStep ==
  ASSUME ClientInv, NEW c \in Clients, NEW from, quotaPc[c] = from, now' = now
  PROVE  /\ Q!Leave(c) => ClientStep(c, from, "idle", 0, 0)
         /\ Q!Infer(c) => ClientStep(c, from, "infer", 0, 0)
<1>1. QuotaDefault \in AllConfigs
  BY DEF AllConfigs
<1> QED BY <1>1, Zenon DEF Q!Leave, Q!Infer, ClientStep

LEMMA ClientMoves ==
  ASSUME ClientInv, StoreInv, NEW c \in Clients, Q!Check(c) \/ Q!Record(c) \/ Q!ReadClock(c)
  PROVE  ClientPath(c)
<1> USE SameClient
<1>0. now' = now
  BY DEF Q!Check, Q!Record, Q!ReadClock, Q!LoadConfig, Q!Fill, Q!RefuseContext, Q!CheckMinute,
         Q!CheckDay, Q!Fail, Q!RecordDay, Q!RecordMinute, Q!Count
<1>1. CASE Q!LoadConfig(c)
  <2>2. PICK g \in AllConfigs : cfg' = [cfg EXCEPT ![c] = g]
    <3>1. quotaEntry.config \in AllConfigs /\ quotaRow \in AllConfigs /\ QuotaDefault \in AllConfigs
      BY DEF StoreInv, AllConfigs
    <3> QED BY <1>1, <3>1 DEF Q!LoadConfig
  <2>3. PICK to \in {"fill", "minute"} : quotaPc' = [quotaPc EXCEPT ![c] = to]
    BY <1>1 DEF Q!LoadConfig
  <2>4. quotaPc[c] = "idle" /\ minuteKey' = minuteKey /\ amount' = amount
    BY <1>1 DEF Q!LoadConfig
  <2>5. ClientStep(c, "idle", to, minuteKey[c], amount[c])
    BY <1>0, <2>2, <2>3, <2>4 DEF ClientStep
  <2> QED BY <2>5 DEF ClientPath
<1>2. CASE Q!Fill(c)
  <2>1. ClientStep(c, "fill", "minute", minuteKey[c], amount[c])
    BY <1>0, <1>2 DEF Q!Fill, ClientStep
  <2> QED BY <2>1 DEF ClientPath
<1>3. CASE Q!RefuseContext(c) \/ Q!Fail(c) \/ Q!Count(c)
  <2>1. PICK from \in {"minute", "infer", "count"} : quotaPc[c] = from /\ Q!Leave(c)
    BY <1>3 DEF Q!RefuseContext, Q!Fail, Q!Count
  <2>2. ClientStep(c, from, "idle", 0, 0)
    BY <1>0, <2>1, LeaveIsStep
  <2> QED BY <2>2 DEF ClientPath
<1>4. CASE Q!ReadClock(c)
  <2>1. /\ minuteKey' = [minuteKey EXCEPT ![c] = now]
        /\ cfg' = cfg /\ amount' = amount
        /\ \/ quotaPc[c] = "minute" /\ quotaPc' = [quotaPc EXCEPT ![c] = "lock"]
           \/ quotaPc[c] = "day" /\ quotaPc' = [quotaPc EXCEPT ![c] = "usage"]
           \/ quotaPc[c] = "infer" /\ quotaPc' = [quotaPc EXCEPT ![c] = "record"]
    BY <1>4 DEF Q!ReadClock
  <2>2. \/ ClientStep(c, "minute", "lock", now, amount[c])
        \/ ClientStep(c, "day", "usage", now, amount[c])
        \/ ClientStep(c, "infer", "record", now, amount[c])
    BY <1>0, <2>1 DEF ClientStep
  <2> QED BY <2>2 DEF ClientPath
<1>5. CASE Q!CheckMinute(c)
  <2>1. CASE Q!Leave(c)
    <3>1. ClientStep(c, "lock", "idle", 0, 0)
      BY <1>0, <1>5, <2>1, LeaveIsStep DEF Q!CheckMinute
    <3> QED BY <3>1 DEF ClientPath
  <2>2. CASE ~Q!Leave(c)
    <3>1. PICK a \in Estimates : /\ quotaPc' = [quotaPc EXCEPT ![c] = "day"]
                                 /\ minuteKey' = [minuteKey EXCEPT ![c] = 0]
                                 /\ amount' = [amount EXCEPT ![c] = a]
                                 /\ cfg' = cfg
      BY <1>5, <2>2 DEF Q!CheckMinute
    <3>2. ClientStep(c, "lock", "day", 0, a)
      BY <1>0, <1>5, <3>1 DEF Q!CheckMinute, ClientStep
    <3> QED BY <3>2 DEF ClientPath
  <2> QED BY <2>1, <2>2
<1>6. CASE Q!CheckDay(c)
  <2>1. quotaPc[c] = "usage" /\ (Q!Infer(c) \/ Q!Leave(c))
    BY <1>6 DEF Q!CheckDay
  <2>2. ClientStep(c, "usage", "infer", 0, 0) \/ ClientStep(c, "usage", "idle", 0, 0)
    BY <1>0, <2>1, LeaveIsStep
  <2> QED BY <2>2 DEF ClientPath
<1>7. CASE Q!RecordDay(c)
  <2>1. PICK a \in Tokens : amount' = [amount EXCEPT ![c] = a]
    BY <1>7 DEF Q!RecordDay
  <2>2. ClientStep(c, "record", "recorded", minuteKey[c], a)
    BY <1>0, <1>7, <2>1 DEF Q!RecordDay, ClientStep
  <2> QED BY <2>2 DEF ClientPath
<1>8. CASE Q!RecordMinute(c)
  <2>1. ClientStep(c, "recorded", "count", minuteKey[c], amount[c])
    BY <1>0, <1>8 DEF Q!RecordMinute, ClientStep
  <2> QED BY <2>1 DEF ClientPath
<1> QED BY <1>1, <1>2, <1>3, <1>4, <1>5, <1>6, <1>7, <1>8 DEF Q!Check, Q!Record

LEMMA StepTypes ==
  ASSUME ClientInv, StoreInv, NEW c \in Clients, NEW from, NEW to \in QuotaLabels,
         NEW k \in 0 .. now, NEW a \in Amounts, ClientStep(c, from, to, k, a),
         to \in Keyed => k # 0, to \in Asked => a \in Estimates, to \in Sized => a \in Tokens
  PROVE  ClientInv'
<1>1. /\ quotaPc' = [quotaPc EXCEPT ![c] = to]
      /\ minuteKey' = [minuteKey EXCEPT ![c] = k]
      /\ amount' = [amount EXCEPT ![c] = a]
      /\ now' = now
  BY DEF ClientStep
<1>2. cfg' \in [Clients -> AllConfigs]
  BY DEF ClientStep, ClientInv
<1>3. /\ quotaPc' \in [Clients -> QuotaLabels]
      /\ minuteKey' \in [Clients -> 0 .. now]
      /\ amount' \in [Clients -> Amounts]
  BY <1>1 DEF ClientInv
<1>4. ASSUME NEW x \in Clients
      PROVE  /\ quotaPc'[x] \in Keyed => minuteKey'[x] # 0
             /\ quotaPc'[x] \in Asked => amount'[x] \in Estimates
             /\ quotaPc'[x] \in Sized => amount'[x] \in Tokens
  BY <1>1 DEF ClientInv
<1> QED BY <1>1, <1>2, <1>3, <1>4 DEF ClientInv

LEMMA PathTypes ==
  ASSUME ClientInv, StoreInv, NEW c \in Clients, ClientPath(c)
  PROVE  ClientInv'
<1>0. /\ now \in 0 .. now /\ 0 \in 0 .. now /\ now # 0
      /\ minuteKey[c] \in 0 .. now /\ amount[c] \in Amounts
      /\ 0 \in Amounts /\ Estimates \subseteq Amounts /\ Tokens \subseteq Amounts
      /\ quotaPc[c] \in Keyed => minuteKey[c] # 0
      /\ quotaPc[c] \in Asked => amount[c] \in Estimates
      /\ quotaPc[c] \in Sized => amount[c] \in Tokens
  BY DEF ClientInv, StoreInv, Amounts
<1> USE DEF Keyed, Asked, Sized, QuotaLabels
<1>1. ASSUME NEW to \in {"fill", "minute"}, ClientStep(c, "idle", to, minuteKey[c], amount[c])
      PROVE  ClientInv'
  <2>1. to \in QuotaLabels /\ to \notin Keyed /\ to \notin Asked /\ to \notin Sized
    BY <1>1
  <2> HIDE DEF Keyed, Asked, Sized, QuotaLabels
  <2>2. minuteKey[c] \in 0 .. now /\ amount[c] \in Amounts
    BY <1>0
  <2> QED BY <1>1, <2>1, <2>2, StepTypes, ZenonT(40)
<1>2. ASSUME NEW from, ClientStep(c, from, "idle", 0, 0) PROVE ClientInv'
  BY <1>0, <1>2, StepTypes
<1>3. ASSUME ClientStep(c, "fill", "minute", minuteKey[c], amount[c]) PROVE ClientInv'
  BY <1>0, <1>3, StepTypes DEF ClientStep
<1>4. ASSUME ClientStep(c, "minute", "lock", now, amount[c]) PROVE ClientInv'
  BY <1>0, <1>4, StepTypes DEF ClientStep
<1>5. ASSUME NEW a \in Estimates, ClientStep(c, "lock", "day", 0, a) PROVE ClientInv'
  BY <1>0, <1>5, StepTypes
<1>6. ASSUME ClientStep(c, "day", "usage", now, amount[c]) PROVE ClientInv'
  BY <1>0, <1>6, StepTypes DEF ClientStep
<1>7. ASSUME ClientStep(c, "usage", "infer", 0, 0) PROVE ClientInv'
  BY <1>0, <1>7, StepTypes
<1>8. ASSUME ClientStep(c, "infer", "record", now, amount[c]) PROVE ClientInv'
  BY <1>0, <1>8, StepTypes
<1>9. ASSUME NEW a \in Tokens, ClientStep(c, "record", "recorded", minuteKey[c], a)
      PROVE  ClientInv'
  BY <1>0, <1>9, StepTypes DEF ClientStep
<1>10. ASSUME ClientStep(c, "recorded", "count", minuteKey[c], amount[c]) PROVE ClientInv'
  BY <1>0, <1>10, StepTypes DEF ClientStep
<1> QED BY <1>1, <1>2, <1>3, <1>4, <1>5, <1>6, <1>7, <1>8, <1>9, <1>10, Zenon DEF ClientPath

\* The days that can be met are those of the minutes that can be met.
LEMMA DayOf ==
  /\ \A k \in 1 .. Horizon : Q!Day(k) \in Q!Days
  /\ \A j, k \in 1 .. Horizon : j <= k => Q!Day(j) <= Q!Day(k)
  /\ Q!Days \subseteq Nat \ {0}
<1>1. DayMinutes \in Nat \ {0} /\ Horizon \in Nat \ {0}
  BY QuotaAssumption
<1>2. ASSUME NEW k \in 1 .. Horizon PROVE Q!Day(k) \in Nat \ {0}
  BY <1>1 DEF Q!Day
<1>3. ASSUME NEW j \in 1 .. Horizon, NEW k \in 1 .. Horizon, j <= k PROVE Q!Day(j) <= Q!Day(k)
  BY <1>1, <1>3 DEF Q!Day
<1>4. Horizon \in 1 .. Horizon
  BY <1>1
<1>5. Q!Days = 1 .. Q!Day(Horizon)
  BY DEF Q!Days
<1> HIDE DEF Q!Day
<1> QED BY <1>1, <1>2, <1>3, <1>4, <1>5

LEMMA QuotaNumbers ==
  /\ QuotaTTL \in Nat /\ MaxFaults \in Nat /\ Horizon \in Nat \ {0}
  /\ Estimates \subseteq Int /\ Tokens \subseteq Nat /\ Prices \subseteq Nat
  /\ QuotaDefault \in AllConfigs /\ QuotaConfigs \subseteq AllConfigs
BY QuotaAssumption DEF AllConfigs

\* What a client has in hand.
LEMMA InHand ==
  ASSUME ClientInv, StoreInv, NEW c \in Clients
  PROVE  /\ now \in 1 .. Horizon /\ minuteKey[c] \in 0 .. now /\ minuteKey[c] \in 0 .. Horizon
         /\ quotaPc[c] \in Keyed =>
              minuteKey[c] \in 1 .. now /\ minuteKey[c] \in 1 .. Horizon
         /\ cfg[c] \in AllConfigs
         /\ quotaPc[c] \in Asked => amount[c] \in Int
         /\ quotaPc[c] \in Sized => amount[c] \in Tokens /\ amount[c] \in Nat
<1>1. now \in 1 .. Horizon /\ minuteKey[c] \in 0 .. now
  BY DEF ClientInv, StoreInv
<1>2. cfg[c] \in AllConfigs /\ (quotaPc[c] \in Keyed => minuteKey[c] # 0)
  BY DEF ClientInv
<1>3. /\ quotaPc[c] \in Asked => amount[c] \in Int
      /\ quotaPc[c] \in Sized => amount[c] \in Tokens /\ amount[c] \in Nat
  BY QuotaNumbers DEF ClientInv
<1> QED BY <1>1, <1>2, <1>3, QuotaNumbers

\* A statement of the enforcer's fails within the bound or works.
LEMMA FaultsTyped ==
  ASSUME StoreInv, Q!Works \/ Q!Fails
  PROVE  faults' \in 0 .. MaxFaults /\ faults <= faults' /\ (Q!Fails => faults' = faults + 1)
<1>1. faults \in 0 .. MaxFaults
  BY DEF StoreInv
<1> QED BY <1>1, QuotaNumbers DEF Q!Works, Q!Fails

LEMMA RecordTypes ==
  ASSUME ClientInv, StoreInv, NEW c \in Clients, Q!RecordDay(c) \/ Q!RecordMinute(c)
  PROVE  usage' \in [tokens : [Q!Days -> Nat], cost : [Q!Days -> Nat], minute : [1 .. Horizon -> Nat]]
<1>1. minuteKey[c] \in 1 .. Horizon /\ Q!Day(minuteKey[c]) \in Q!Days
  <2>1. quotaPc[c] \in Keyed
    BY DEF Keyed, Q!RecordDay, Q!RecordMinute
  <2> QED BY <2>1, InHand, DayOf
<1>2. usage \in [tokens : [Q!Days -> Nat], cost : [Q!Days -> Nat], minute : [1 .. Horizon -> Nat]]
  BY DEF StoreInv
<1>3. CASE Q!RecordDay(c)
  <2>1. PICK n \in Tokens, price \in Prices :
          \/ usage' = [usage EXCEPT !.tokens[Q!Day(minuteKey[c])] = @ + n,
                                    !.cost[Q!Day(minuteKey[c])] = @ + n * price]
          \/ usage' = usage
    BY <1>3 DEF Q!RecordDay
  <2>2. n \in Nat /\ price \in Nat
    BY QuotaNumbers
  <2>3. n * price \in Nat
    BY <2>2
  <2>4. ASSUME NEW d \in Q!Days, NEW x \in Nat, NEW y \in Nat,
               usage' = [usage EXCEPT !.tokens[d] = @ + x, !.cost[d] = @ + y]
        PROVE  usage' \in [tokens : [Q!Days -> Nat], cost : [Q!Days -> Nat], minute : [1 .. Horizon -> Nat]]
    <3>1. usage' = [tokens |-> [usage.tokens EXCEPT ![d] = usage.tokens[d] + x],
                    cost |-> [usage.cost EXCEPT ![d] = usage.cost[d] + y], minute |-> usage.minute]
      BY <1>2, <2>4
    <3>2. usage.tokens[d] + x \in Nat /\ usage.cost[d] + y \in Nat
      BY <1>2, <2>4
    <3> QED BY <1>2, <3>1, <3>2
  <2> QED BY <1>1, <1>2, <2>1, <2>2, <2>3, <2>4
<1>4. CASE Q!RecordMinute(c)
  <2>1. amount[c] \in Nat
    BY <1>4, InHand DEF Sized, Q!RecordMinute
  <2>2. \/ usage' = [usage EXCEPT !.minute[minuteKey[c]] = @ + amount[c]]
        \/ usage' = usage
    BY <1>4 DEF Q!RecordMinute
  <2>3. usage.minute[minuteKey[c]] + amount[c] \in Nat
    <3>1. usage.minute \in [1 .. Horizon -> Nat] /\ minuteKey[c] \in 1 .. Horizon
      BY <1>1, <1>2
    <3>2. usage.minute[minuteKey[c]] \in Nat
      BY <3>1, Zenon
    <3> QED BY <2>1, <3>2
  <2>4. ASSUME NEW x \in Nat, usage' = [usage EXCEPT !.minute[minuteKey[c]] = x]
        PROVE  usage' \in [tokens : [Q!Days -> Nat], cost : [Q!Days -> Nat], minute : [1 .. Horizon -> Nat]]
    <3>1. usage' = [tokens |-> usage.tokens, cost |-> usage.cost,
                    minute |-> [usage.minute EXCEPT ![minuteKey[c]] = x]]
      BY <1>2, <2>4
    <3> QED BY <1>1, <1>2, <3>1
  <2> QED BY <1>2, <2>2, <2>3, <2>4
<1> QED BY <1>3, <1>4

LEMMA ClientStore ==
  ASSUME ClientInv, StoreInv, NEW c \in Clients, Q!Check(c) \/ Q!Record(c) \/ Q!ReadClock(c)
  PROVE  StoreInv'
<1>0. /\ cfg[c] \in AllConfigs
      /\ minuteKey[c] \in 0 .. Horizon
      /\ QuotaTTL \in Nat /\ Horizon \in Nat \ {0} /\ MaxFaults \in Nat
  BY QuotaNumbers, InHand
<1> USE DEF StoreInv
<1>1. CASE Q!LoadConfig(c)
  <2>1. Q!Works \/ Q!Fails
    BY <1>1 DEF Q!LoadConfig
  <2> QED BY <1>0, <1>1, <2>1, FaultsTyped, SMTT(30) DEF Q!LoadConfig
<1>2. CASE Q!Fill(c)
  BY <1>0, <1>2 DEF Q!Fill
<1>3. CASE Q!RefuseContext(c) \/ Q!Fail(c) \/ Q!ReadClock(c)
  BY <1>3 DEF Q!RefuseContext, Q!Fail, Q!ReadClock
<1>4. CASE Q!CheckMinute(c)
  BY <1>0, <1>4 DEF Q!CheckMinute, Q!CurrentCounter
<1>5. CASE Q!CheckDay(c)
  <2>1. Q!Works \/ Q!Fails
    BY <1>5 DEF Q!CheckDay
  <2>2. blind' = blind \/ (Q!Fails /\ blind' = blind + 1)
    BY <1>5 DEF Q!CheckDay
  <2>3. blind' \in 0 .. faults'
    <3>1. blind \in 0 .. faults /\ faults \in 0 .. MaxFaults
      OBVIOUS
    <3> HIDE DEF StoreInv
    <3> QED BY <1>0, <2>1, <2>2, <3>1, FaultsTyped
  <2> QED BY <1>5, <2>1, <2>3, FaultsTyped DEF Q!CheckDay
<1>6. CASE Q!RecordDay(c) \/ Q!RecordMinute(c)
  <2>1. Q!Works \/ Q!Fails
    BY <1>6 DEF Q!RecordDay, Q!RecordMinute
  <2>2. blind' \in 0 .. faults'
    <3>1. blind \in 0 .. faults /\ faults \in 0 .. MaxFaults /\ blind' = blind
      BY <1>6 DEF Q!RecordDay, Q!RecordMinute
    <3> HIDE DEF StoreInv
    <3> QED BY <1>0, <2>1, <3>1, FaultsTyped
  <2> QED BY <1>6, <2>1, <2>2, FaultsTyped, RecordTypes DEF Q!RecordDay, Q!RecordMinute
<1>7. CASE Q!Count(c)
  <2>1. counter \in [window : 0 .. Horizon, used : Nat]
    OBVIOUS
  <2>2. counter' \in [window : 0 .. Horizon, used : Nat]
    <3>0. amount[c] \in Nat
      BY <1>7, InHand DEF Sized, Q!Count
    <3>1. counter.used + amount[c] \in Nat
      BY <3>0, <2>1
    <3>2. counter' = [counter EXCEPT !.used = counter.used + amount[c]] \/ counter' = counter
      BY <1>7 DEF Q!Count, Q!Counted
    <3> QED BY <2>1, <3>1, <3>2
  <2> QED BY <1>7, <2>2 DEF Q!Count
<1> QED BY <1>1, <1>2, <1>3, <1>4, <1>5, <1>6, <1>7 DEF Q!Check, Q!Record

\* Administration, the flush loop and time.
LEMMA OthersStore ==
  ASSUME ClientInv, StoreInv, Q!UpsertRow \/ Q!UpsertCache \/ Q!Flush \/ Q!Tick
  PROVE  ClientInv' /\ StoreInv'
<1>0. QuotaTTL \in Nat /\ Horizon \in Nat \ {0} /\ MaxFaults \in Nat /\ QuotaConfigs \subseteq AllConfigs
  BY QuotaAssumption DEF AllConfigs
<1>1. CASE Q!UpsertRow
  <2>1. ClientInv'
    BY <1>1 DEF Q!UpsertRow, ClientInv, Q!client
  <2> QED BY <1>0, <1>1, <2>1 DEF Q!UpsertRow, StoreInv
<1>2. CASE Q!UpsertCache
  BY <1>0, <1>2 DEF Q!UpsertCache, ClientInv, StoreInv, Q!client
<1>3. CASE Q!Flush
  <2>1. ClientInv'
    BY <1>3 DEF Q!Flush, ClientInv, Q!client
  <2>2. counter' \in [window : 0 .. Horizon, used : Nat]
    BY <1>0, <1>3 DEF Q!Flush
  <2>3. StoreInv'
    BY <1>3, <2>2 DEF Q!Flush, StoreInv
  <2> QED BY <2>1, <2>3
<1>4. CASE Q!Tick
  <2>1. /\ now' \in 1 .. Horizon /\ 0 .. now \subseteq 0 .. now'
        /\ quotaEntry' \in [config : AllConfigs, age : 0 .. QuotaTTL]
    <3>1. /\ now \in 1 .. Horizon /\ now' = now + 1 /\ now < Horizon
          /\ quotaEntry \in [config : AllConfigs, age : 0 .. QuotaTTL]
          /\ quotaEntry' = [quotaEntry EXCEPT !.age = IF @ < QuotaTTL THEN @ + 1 ELSE @]
      BY <1>4 DEF Q!Tick, StoreInv
    <3> QED BY <1>0, <3>1
  <2>2. StoreInv'
    BY <1>4, <2>1 DEF Q!Tick, StoreInv
  <2>3. minuteKey' \in [Clients -> 0 .. now']
    BY <1>4, <2>1 DEF Q!Tick, ClientInv, Q!client
  <2>4. ClientInv'
    BY <1>4, <2>3 DEF Q!Tick, ClientInv, Q!client
  <2> QED BY <2>2, <2>4
<1> QED BY <1>1, <1>2, <1>3, <1>4

LEMMA QuotaTypesPreserved ==
  ASSUME ClientInv, StoreInv, Q!Next
  PROVE  ClientInv' /\ StoreInv'
<1>1. ASSUME NEW c \in Clients, Q!Check(c) \/ Q!Record(c) \/ Q!ReadClock(c)
      PROVE  ClientInv' /\ StoreInv'
  BY <1>1, ClientMoves, PathTypes, ClientStore
<1> QED BY <1>1, OthersStore DEF Q!Next

\* A step of the composition is one of the enforcer or leaves it alone.
LEMMA QuotaSteps == [MCNext]_allVars => Q!Next \/ UNCHANGED quotaVars
  BY DEF MCNext, Serve, Limit, Usage, Copies, Work, allVars

LEMMA QuotaStarts == MCInit => ClientInv /\ StoreInv
<1> SUFFICES ASSUME MCInit PROVE ClientInv /\ StoreInv
  OBVIOUS
<1>0. Q!Init
  BY DEF MCInit
<1>1. /\ 0 \in 0 .. 1 /\ 0 \in 0 .. QuotaTTL /\ QuotaTTL \in 0 .. QuotaTTL /\ 0 \in Nat
      /\ 0 \in 0 .. MaxFaults /\ 0 \in 0 .. 0 /\ 0 \in 0 .. Horizon /\ 1 \in 1 .. Horizon
      /\ QuotaDefault \in AllConfigs
  BY QuotaNumbers
<1>2. ClientInv
  BY <1>0, <1>1 DEF Q!Init, ClientInv, QuotaLabels, Keyed, Asked, Sized, Amounts
<1>3. StoreInv
  BY <1>0, <1>1 DEF Q!Init, StoreInv
<1> QED BY <1>2, <1>3

LEMMA QuotaTyped == MCSpec => [](ClientInv /\ StoreInv)
<1>1. ClientInv /\ StoreInv /\ UNCHANGED quotaVars => ClientInv' /\ StoreInv'
  BY DEF ClientInv, StoreInv, quotaVars
<1>2. ClientInv /\ StoreInv /\ [MCNext]_allVars => (ClientInv /\ StoreInv)'
  BY <1>1, QuotaSteps, QuotaTypesPreserved
<1> QED BY <1>2, QuotaStarts, PTL DEF MCSpec

LEMMA QuotaSetsAgree == \A S : Q!Cardinality(S) = Cardinality(S)
  BY Zenon DEF Q!Cardinality, Cardinality

LEMMA QuotaTypeOK == ClientInv /\ StoreInv => Q!TypeOK
<1> SUFFICES ASSUME ClientInv, StoreInv PROVE Q!TypeOK
  OBVIOUS
<1>1. Q!Cardinality(admin) <= 1 /\ admin \subseteq QuotaConfigs
  <2>1. CASE admin = {}
    <3>1. Q!Cardinality(admin) = 0
      BY <2>1, QuotaSetsAgree, FS_EmptySet, Zenon
    <3> QED BY <2>1, <3>1
  <2>2. CASE \E g \in QuotaConfigs : admin = {g}
    <3>1. Q!Cardinality(admin) = 1
      BY <2>2, QuotaSetsAgree, FS_Singleton, Zenon
    <3> QED BY <2>2, <3>1
  <2> QED BY <2>1, <2>2 DEF StoreInv
<1> QED BY <1>1 DEF ClientInv, StoreInv, Q!TypeOK, QuotaLabels, AllConfigs, Amounts

-----------------------------------------------------------------------------
(* The minute count.  A Record that has written the minute's row and not    *)
(* yet moved the counter owes it its tokens; they are counted as a set, one *)
(* element for each token, so that no sum over clients is needed.           *)

MostTokens == Q!Most(Tokens)

\* The tokens client c would owe, if it owed n.
Block(c, n) == {c} \X (1 .. n)

Owed(w) == {x \in Clients \X (1 .. MostTokens) :
              quotaPc[x[1]] = "count" /\ minuteKey[x[1]] = w /\ x[2] <= amount[x[1]]}

CountedFor(w) == IF counter.window = w THEN counter.used ELSE 0

MinuteInv ==
  faults = 0 => \A w \in 1 .. Horizon : Cardinality(Owed(w)) + CountedFor(w) <= usage.minute[w]

LEMMA MostIs ==
  ASSUME NEW S, \E x \in S : \A y \in S : y <= x
  PROVE  Q!Most(S) \in S /\ \A y \in S : y <= Q!Most(S)
  BY Zenon DEF Q!Most

LEMMA LeastIs ==
  ASSUME NEW S, \E x \in S : \A y \in S : x <= y
  PROVE  Q!Least(S) \in S /\ \A y \in S : Q!Least(S) <= y
  BY Zenon DEF Q!Least

LEMMA MostTokensIs == MostTokens \in Nat /\ \A n \in Tokens : n <= MostTokens
<1>1. \E x \in Tokens : \A y \in Tokens : y <= x
  BY QuotaAssumption
<1>2. MostTokens \in Tokens /\ \A y \in Tokens : y <= MostTokens
  BY <1>1, MostIs, Zenon DEF MostTokens
<1> QED BY <1>2, QuotaNumbers

LEMMA BlockSize ==
  ASSUME NEW c, NEW n \in Nat
  PROVE  IsFiniteSet(Block(c, n)) /\ Cardinality(Block(c, n)) = n
<1>1. IsFiniteSet({c}) /\ Cardinality({c}) = 1
  BY FS_Singleton
<1>2. IsFiniteSet(1 .. n) /\ Cardinality(1 .. n) = n
  BY FS_Interval
<1>3. /\ IsFiniteSet({c} \X (1 .. n))
      /\ Cardinality({c} \X (1 .. n)) = Cardinality({c}) * Cardinality(1 .. n)
  BY <1>1, <1>2, FS_Product, Zenon
<1>4. 1 * n = n
  OBVIOUS
<1> QED BY <1>1, <1>2, <1>3, <1>4, Zenon DEF Block

\* A block more, or a block less.
LEMMA BlockAdds ==
  ASSUME NEW S, IsFiniteSet(S), NEW c, NEW n \in Nat, \A x \in S : x[1] # c
  PROVE  Cardinality(S \cup Block(c, n)) = Cardinality(S) + n
<1>1. S \cap Block(c, n) = {}
  <2>1. \A x \in Block(c, n) : x[1] = c
    BY DEF Block
  <2> QED BY <2>1
<1>2. IsFiniteSet(Block(c, n)) /\ Cardinality(Block(c, n)) = n
  BY BlockSize
<1>3. Cardinality(S) \in Nat /\ Cardinality(S \cap Block(c, n)) = 0
  BY <1>1, FS_CardinalityType, FS_EmptySet
<1>4. Cardinality(S \cup Block(c, n)) = Cardinality(S) + n - 0
  BY <1>2, <1>3, FS_Union
<1> QED BY <1>3, <1>4

LEMMA OwedFinite == \A w : IsFiniteSet(Owed(w)) /\ Cardinality(Owed(w)) \in Nat
<1>1. IsFiniteSet(Clients) /\ IsFiniteSet(1 .. MostTokens)
  BY QuotaAssumption, FS_Interval, MostTokensIs
<1>2. IsFiniteSet(Clients \X (1 .. MostTokens))
  BY <1>1, FS_Product
<1> SUFFICES ASSUME NEW w PROVE IsFiniteSet(Owed(w)) /\ Cardinality(Owed(w)) \in Nat
  OBVIOUS
<1>3. Owed(w) \in SUBSET (Clients \X (1 .. MostTokens))
  BY DEF Owed
<1>4. IsFiniteSet(Owed(w))
  BY <1>2, <1>3, FS_Subset
<1> QED BY <1>4, FS_CardinalityType

LEMMA BlockIs ==
  ASSUME NEW c \in Clients, NEW a \in Tokens
  PROVE  Block(c, a) = {x \in Clients \X (1 .. MostTokens) : x[1] = c /\ x[2] <= a}
  BY MostTokensIs, QuotaNumbers DEF Block

\* Only the clients that move into or out of "count" change what is owed.
LEMMA OwedSame ==
  ASSUME ClientInv, NEW c \in Clients, NEW from, NEW to, NEW k, NEW a, ClientStep(c, from, to, k, a),
         from # "count", to # "count", NEW w
  PROVE  Owed(w)' = Owed(w)
<1>1. /\ quotaPc[c] = from /\ quotaPc' = [quotaPc EXCEPT ![c] = to]
      /\ minuteKey' = [minuteKey EXCEPT ![c] = k] /\ amount' = [amount EXCEPT ![c] = a]
  BY DEF ClientStep
<1>2. ASSUME NEW e \in Clients, NEW i
      PROVE  (quotaPc'[e] = "count" /\ minuteKey'[e] = w /\ i <= amount'[e]) <=>
             (quotaPc[e] = "count" /\ minuteKey[e] = w /\ i <= amount[e])
  BY <1>1 DEF ClientInv
<1>3. \A x \in Clients \X (1 .. MostTokens) : x[1] \in Clients
  OBVIOUS
<1> QED BY <1>2, <1>3, Zenon DEF Owed

LEMMA OwedGrows ==
  ASSUME ClientInv, NEW c \in Clients, NEW from, NEW k, NEW a \in Tokens,
         ClientStep(c, from, "count", k, a), from # "count", NEW w
  PROVE  /\ k # w => Owed(w)' = Owed(w)
         /\ k = w => Owed(w)' = Owed(w) \cup Block(c, a)
         /\ \A x \in Owed(w) : x[1] # c
<1>1. /\ quotaPc[c] = from /\ quotaPc' = [quotaPc EXCEPT ![c] = "count"]
      /\ minuteKey' = [minuteKey EXCEPT ![c] = k] /\ amount' = [amount EXCEPT ![c] = a]
  BY DEF ClientStep
<1>2. ASSUME NEW e \in Clients, NEW i, e # c
      PROVE  (quotaPc'[e] = "count" /\ minuteKey'[e] = w /\ i <= amount'[e]) <=>
             (quotaPc[e] = "count" /\ minuteKey[e] = w /\ i <= amount[e])
  BY <1>1, <1>2 DEF ClientInv
<1>3. quotaPc'[c] = "count" /\ minuteKey'[c] = k /\ amount'[c] = a /\ quotaPc[c] # "count"
  BY <1>1 DEF ClientInv
<1>4. \A x \in Clients \X (1 .. MostTokens) : x[1] \in Clients
  OBVIOUS
<1>5. k # w => Owed(w)' = Owed(w)
  BY <1>2, <1>3, <1>4, Zenon DEF Owed
<1>6. ASSUME k = w PROVE Owed(w)' = Owed(w) \cup Block(c, a)
  <2>1. Block(c, a) = {x \in Clients \X (1 .. MostTokens) : x[1] = c /\ x[2] <= a}
    BY BlockIs, Zenon
  <2> QED BY <1>2, <1>3, <1>4, <1>6, <2>1, Zenon DEF Owed
<1>7. \A x \in Owed(w) : x[1] # c
  BY <1>3 DEF Owed
<1> QED BY <1>5, <1>6, <1>7

LEMMA OwedShrinks ==
  ASSUME ClientInv, NEW c \in Clients, amount[c] \in Tokens, ClientStep(c, "count", "idle", 0, 0), NEW w
  PROVE  /\ minuteKey[c] # w => Owed(w)' = Owed(w)
         /\ minuteKey[c] = w => Owed(w) = Owed(w)' \cup Block(c, amount[c])
         /\ \A x \in Owed(w)' : x[1] # c
<1>1. /\ quotaPc[c] = "count" /\ quotaPc' = [quotaPc EXCEPT ![c] = "idle"]
      /\ minuteKey' = [minuteKey EXCEPT ![c] = 0] /\ amount' = [amount EXCEPT ![c] = 0]
  BY DEF ClientStep
<1>2. ASSUME NEW e \in Clients, NEW i, e # c
      PROVE  (quotaPc'[e] = "count" /\ minuteKey'[e] = w /\ i <= amount'[e]) <=>
             (quotaPc[e] = "count" /\ minuteKey[e] = w /\ i <= amount[e])
  BY <1>1, <1>2 DEF ClientInv
<1>3. quotaPc'[c] # "count"
  BY <1>1 DEF ClientInv
<1>4. \A x \in Clients \X (1 .. MostTokens) : x[1] \in Clients
  OBVIOUS
<1>5. minuteKey[c] # w => Owed(w)' = Owed(w)
  BY <1>2, <1>3, <1>4, Zenon DEF Owed
<1>6. ASSUME minuteKey[c] = w PROVE Owed(w) = Owed(w)' \cup Block(c, amount[c])
  <2>1. Block(c, amount[c]) = {x \in Clients \X (1 .. MostTokens) : x[1] = c /\ x[2] <= amount[c]}
    BY BlockIs, Zenon
  <2> QED BY <1>1, <1>2, <1>3, <1>4, <1>6, <2>1, Zenon DEF Owed
<1>7. \A x \in Owed(w)' : x[1] # c
  BY <1>3 DEF Owed
<1> QED BY <1>5, <1>6, <1>7

LEMMA OwedFiniteNext == (\A w : IsFiniteSet(Owed(w)) /\ Cardinality(Owed(w)) \in Nat)'
  BY OwedFinite, PTL

\* Nothing is owed or counted that was not, and no row of a minute changes.
LEMMA MinuteFrame ==
  ASSUME StoreInv, StoreInv', MinuteInv, faults <= faults', usage'.minute = usage.minute,
         \A w \in 1 .. Horizon : Owed(w)' = Owed(w) /\ CountedFor(w)' <= CountedFor(w)
  PROVE  MinuteInv'
<1> SUFFICES ASSUME faults' = 0, NEW w \in 1 .. Horizon
             PROVE  Cardinality(Owed(w)') + CountedFor(w)' <= usage'.minute[w]
  BY DEF MinuteInv
<1>1. faults = 0
  BY DEF StoreInv
<1>2. Cardinality(Owed(w)) + CountedFor(w) <= usage.minute[w]
  BY <1>1 DEF MinuteInv
<1>3. Owed(w)' = Owed(w) /\ CountedFor(w)' <= CountedFor(w)
  OBVIOUS
<1>4. CountedFor(w) \in Nat /\ CountedFor(w)' \in Nat /\ usage.minute[w] \in Nat
  BY DEF StoreInv, CountedFor
<1>5. Cardinality(Owed(w)) \in Nat
  BY OwedFinite
<1> HIDE DEF Owed, CountedFor
<1> QED BY <1>2, <1>3, <1>4, <1>5

LEMMA RecordMinuteOwes ==
  ASSUME ClientInv, StoreInv, StoreInv', MinuteInv, NEW c \in Clients, Q!RecordMinute(c)
  PROVE  MinuteInv'
<1> SUFFICES ASSUME faults' = 0, NEW w \in 1 .. Horizon
             PROVE  Cardinality(Owed(w)') + CountedFor(w)' <= usage'.minute[w]
  BY DEF MinuteInv
<1>1. faults = 0 /\ Q!Works
  BY QuotaNumbers DEF StoreInv, Q!RecordMinute, Q!Fails, Q!Works
<1>2. Cardinality(Owed(w)) + CountedFor(w) <= usage.minute[w]
  BY <1>1 DEF MinuteInv
<1>3. ClientStep(c, "recorded", "count", minuteKey[c], amount[c])
  BY SameClient DEF Q!RecordMinute, ClientStep
<1>4. amount[c] \in Tokens /\ amount[c] \in Nat /\ minuteKey[c] \in 1 .. Horizon
  BY InHand DEF Q!RecordMinute, ClientInv, Sized, Keyed
<1>5. /\ minuteKey[c] # w => Owed(w)' = Owed(w)
      /\ minuteKey[c] = w => Owed(w)' = Owed(w) \cup Block(c, amount[c])
      /\ \A x \in Owed(w) : x[1] # c
  BY <1>3, <1>4, OwedGrows
<1>6. CountedFor(w)' = CountedFor(w)
  BY DEF CountedFor, Q!RecordMinute
<1>7. usage'.minute[w] = IF minuteKey[c] = w THEN usage.minute[w] + amount[c] ELSE usage.minute[w]
  <2>1. usage.minute \in [1 .. Horizon -> Nat]
        /\ usage \in [tokens : [Q!Days -> Nat], cost : [Q!Days -> Nat], minute : [1 .. Horizon -> Nat]]
    BY DEF StoreInv
  <2>2. usage' = [usage EXCEPT !.minute[minuteKey[c]] = @ + amount[c]]
    BY <1>1 DEF Q!RecordMinute, Q!Fails, Q!Works, StoreInv
  <2>3. usage'.minute = [usage.minute EXCEPT ![minuteKey[c]] = @ + amount[c]]
    BY <2>1, <2>2
  <2> QED BY <2>1, <2>3, <1>4
<1>8. CountedFor(w) \in Nat /\ usage.minute[w] \in Nat /\ Cardinality(Owed(w)) \in Nat
  BY OwedFinite DEF StoreInv, CountedFor
<1>9. CASE minuteKey[c] # w
  BY <1>2, <1>5, <1>6, <1>7, <1>9
<1>10. CASE minuteKey[c] = w
  <2>1. Cardinality(Owed(w)') = Cardinality(Owed(w)) + amount[c]
    BY <1>4, <1>5, <1>10, OwedFinite, BlockAdds
  <2> HIDE DEF Owed, CountedFor
  <2> QED BY <1>2, <1>4, <1>6, <1>7, <1>8, <1>10, <2>1
<1> QED BY <1>9, <1>10

LEMMA CountPays ==
  ASSUME ClientInv, StoreInv, StoreInv', MinuteInv, NEW c \in Clients, Q!Count(c)
  PROVE  MinuteInv'
<1> SUFFICES ASSUME faults' = 0, NEW w \in 1 .. Horizon
             PROVE  Cardinality(Owed(w)') + CountedFor(w)' <= usage'.minute[w]
  BY DEF MinuteInv
<1>1. faults = 0 /\ usage' = usage /\ now' = now
  BY DEF Q!Count
<1>2. Cardinality(Owed(w)) + CountedFor(w) <= usage.minute[w]
  BY <1>1 DEF MinuteInv
<1>3. ClientStep(c, "count", "idle", 0, 0)
  BY <1>1, LeaveIsStep DEF Q!Count
<1>4. amount[c] \in Tokens /\ amount[c] \in Nat /\ minuteKey[c] \in 1 .. Horizon
  BY InHand DEF Q!Count, ClientInv, Sized, Keyed
<1>5. /\ minuteKey[c] # w => Owed(w)' = Owed(w)
      /\ minuteKey[c] = w => Owed(w) = Owed(w)' \cup Block(c, amount[c])
      /\ \A x \in Owed(w)' : x[1] # c
  BY <1>3, <1>4, OwedShrinks
<1>6. /\ minuteKey[c] # w => CountedFor(w)' = CountedFor(w)
      /\ minuteKey[c] = w => CountedFor(w)' <= CountedFor(w) + amount[c]
  <2>1. counter \in [window : 0 .. Horizon, used : Nat]
    BY DEF StoreInv
  <2>2. CASE counter.window = minuteKey[c]
    <3>1. counter'.window = counter.window /\ counter'.used = counter.used + amount[c]
      BY <2>1, <2>2 DEF Q!Count, Q!Counted
    <3> QED BY <1>4, <2>1, <2>2, <3>1 DEF CountedFor
  <2>3. CASE counter.window # minuteKey[c]
    <3>1. counter' = counter
      BY <2>3 DEF Q!Count, Q!Counted
    <3>2. CountedFor(w)' = CountedFor(w) /\ CountedFor(w) \in Nat
      BY <2>1, <3>1 DEF CountedFor
    <3> HIDE DEF CountedFor
    <3> QED BY <1>4, <3>2
  <2> QED BY <2>2, <2>3
<1>7. IsFiniteSet(Owed(w)') /\ Cardinality(Owed(w)') \in Nat
  BY OwedFiniteNext
<1>8. /\ CountedFor(w) \in Nat /\ CountedFor(w)' \in Nat
      /\ usage.minute[w] \in Nat /\ Cardinality(Owed(w)) \in Nat
  BY OwedFinite DEF StoreInv, CountedFor
<1>9. CASE minuteKey[c] # w
  BY <1>1, <1>2, <1>5, <1>6, <1>9
<1>10. CASE minuteKey[c] = w
  <2>1. Cardinality(Owed(w)) = Cardinality(Owed(w)') + amount[c]
    BY <1>4, <1>5, <1>7, <1>10, BlockAdds
  <2> HIDE DEF Owed, CountedFor
  <2> QED BY <1>1, <1>2, <1>4, <1>6, <1>7, <1>8, <1>10, <2>1
<1> QED BY <1>9, <1>10

\* Only what is recorded gets to be counted.
LEMMA PathIsStep ==
  ASSUME NEW c, ClientPath(c)
  PROVE  \E from, to, k, a : ClientStep(c, from, to, k, a) /\ (to = "count" => from = "recorded")
<1>1. ASSUME NEW from, NEW to, NEW k, NEW a, ClientStep(c, from, to, k, a), to # "count"
      PROVE  \E f, t, j, b : ClientStep(c, f, t, j, b) /\ (t = "count" => f = "recorded")
  BY <1>1, Zenon
<1>2. ASSUME NEW k, NEW a, ClientStep(c, "recorded", "count", k, a)
      PROVE  \E f, t, j, b : ClientStep(c, f, t, j, b) /\ (t = "count" => f = "recorded")
  BY <1>2, Zenon
<1> HIDE DEF ClientStep
<1> QED BY <1>1, <1>2 DEF ClientPath

LEMMA ClientMinute ==
  ASSUME ClientInv, StoreInv, StoreInv', MinuteInv, NEW c \in Clients,
         Q!Check(c) \/ Q!Record(c) \/ Q!ReadClock(c)
  PROVE  MinuteInv'
<1> DEFINE Kept == /\ usage'.minute = usage.minute /\ faults <= faults'
                   /\ \A w \in 1 .. Horizon : CountedFor(w)' <= CountedFor(w)
           Moved == \E from, to, k, a :
                      ClientStep(c, from, to, k, a) /\ from # "count" /\ to # "count"
<1>0. /\ \A w \in 1 .. Horizon : CountedFor(w) \in Nat
      /\ faults \in Nat /\ MaxFaults \in Nat
  BY QuotaNumbers DEF StoreInv, CountedFor
<1>1. ASSUME Kept, Moved PROVE MinuteInv'
  <2>1. \A w : Owed(w)' = Owed(w)
    BY <1>1, OwedSame
  <2> QED BY <1>1, <2>1, MinuteFrame
<1>2. CASE Q!RecordMinute(c)
  BY <1>2, RecordMinuteOwes
<1>3. CASE Q!Count(c)
  BY <1>3, CountPays
<1>4. CASE ~Q!RecordMinute(c) /\ ~Q!Count(c)
  <2>1. Moved
    <3>1. quotaPc[c] # "count" /\ quotaPc[c] # "recorded"
      BY <1>4 DEF Q!Check, Q!Record, Q!ReadClock, Q!LoadConfig, Q!Fill, Q!RefuseContext, Q!CheckMinute,
                  Q!CheckDay, Q!Fail, Q!RecordDay
    <3>2. ClientPath(c)
      BY ClientMoves
    <3>3. PICK from, to, k, a : ClientStep(c, from, to, k, a) /\ (to = "count" => from = "recorded")
      BY <3>2, PathIsStep
    <3> QED BY <3>1, <3>3 DEF ClientStep
  <2>2. CASE Q!CheckMinute(c)
    <3>1. counter' = Q!CurrentCounter(minuteKey[c]) /\ usage' = usage /\ faults' = faults
      BY <2>2 DEF Q!CheckMinute
    <3>2. \A w \in 1 .. Horizon : CountedFor(w)' = CountedFor(w) \/ CountedFor(w)' = 0
      BY <3>1 DEF Q!CurrentCounter, CountedFor
    <3>3. Kept
      BY <1>0, <3>1, <3>2
    <3> QED BY <1>1, <2>1, <3>3
  <2>3. CASE ~Q!CheckMinute(c)
    <3>1. counter' = counter /\ usage'.minute = usage.minute
      <4>1. CASE Q!RecordDay(c)
        <5>1. usage \in [tokens : [Q!Days -> Nat], cost : [Q!Days -> Nat], minute : [1 .. Horizon -> Nat]]
          BY DEF StoreInv
        <5> QED BY <4>1, <5>1 DEF Q!RecordDay
      <4>2. CASE ~Q!RecordDay(c)
        BY <1>4, <2>3, <4>2 DEF Q!Check, Q!Record, Q!ReadClock, Q!LoadConfig, Q!Fill, Q!RefuseContext,
                                Q!CheckDay, Q!Fail
      <4> QED BY <4>1, <4>2
    <3>2. faults' = faults \/ faults' = faults + 1
      BY <1>4, <2>3 DEF Q!Check, Q!Record, Q!ReadClock, Q!LoadConfig, Q!Fill, Q!RefuseContext,
                        Q!CheckDay, Q!Fail, Q!RecordDay, Q!Works, Q!Fails
    <3>3. \A w \in 1 .. Horizon : CountedFor(w)' = CountedFor(w)
      BY <3>1 DEF CountedFor
    <3>4. Kept
      BY <1>0, <3>1, <3>2, <3>3
    <3> QED BY <1>1, <2>1, <3>4
  <2> QED BY <2>2, <2>3
<1> QED BY <1>2, <1>3, <1>4

LEMMA OthersMinute ==
  ASSUME StoreInv, StoreInv', MinuteInv, Q!UpsertRow \/ Q!UpsertCache \/ Q!Flush \/ Q!Tick
  PROVE  MinuteInv'
<1>0. /\ \A w \in 1 .. Horizon : CountedFor(w) \in Nat
      /\ faults \in Nat /\ MaxFaults \in Nat
  BY QuotaNumbers DEF StoreInv, CountedFor
<1>1. /\ usage' = usage /\ quotaPc' = quotaPc /\ minuteKey' = minuteKey /\ amount' = amount
      /\ faults' = faults \/ faults' = faults + 1
      /\ counter' = counter \/ counter' = [window |-> 0, used |-> 0]
  BY DEF Q!UpsertRow, Q!UpsertCache, Q!Flush, Q!Tick, Q!client, Q!Works, Q!Fails
<1>2. \A w : Owed(w)' = Owed(w)
  BY <1>1 DEF Owed
<1>3. \A w \in 1 .. Horizon : CountedFor(w)' = CountedFor(w) \/ CountedFor(w)' = 0
  BY <1>1 DEF CountedFor
<1>4. faults <= faults' /\ \A w \in 1 .. Horizon : CountedFor(w)' <= CountedFor(w)
  BY <1>0, <1>1, <1>3
<1> QED BY <1>1, <1>2, <1>4, MinuteFrame

\* checkMinute's counter never exceeds what Record has written for its
\* minute: nobody is refused for what was used in another one.
THEOREM ServicesNoOvercount == MCSpec => []NoOvercount
<1>1. MCInit => MinuteInv
  <2> SUFFICES ASSUME MCInit, NEW w \in 1 .. Horizon
               PROVE  Cardinality(Owed(w)) + CountedFor(w) <= usage.minute[w]
    BY DEF MinuteInv
  <2>1. Q!Init
    BY DEF MCInit
  <2>2. Owed(w) = {}
    BY <2>1 DEF Owed, Q!Init
  <2>3. CountedFor(w) = 0 /\ usage.minute[w] = 0
    BY <2>1 DEF CountedFor, Q!Init
  <2>4. Cardinality(Owed(w)) = 0
    BY <2>2, FS_EmptySet, Zenon
  <2> QED BY <2>3, <2>4
<1>2. MinuteInv /\ UNCHANGED quotaVars => MinuteInv'
  BY DEF MinuteInv, quotaVars, Owed, CountedFor
<1>3. ASSUME ClientInv /\ StoreInv, (ClientInv /\ StoreInv)', MinuteInv, [MCNext]_allVars
      PROVE  MinuteInv'
  <2>1. Q!Next => MinuteInv'
    BY <1>3, ClientMinute, OthersMinute DEF Q!Next
  <2> QED BY <1>2, <1>3, <2>1, QuotaSteps
<1>4. ClientInv /\ StoreInv /\ MinuteInv => NoOvercount
  <2> SUFFICES ASSUME StoreInv, MinuteInv, faults = 0, counter.window # 0
               PROVE  counter.used <= usage.minute[counter.window]
    BY DEF NoOvercount, Q!NoOvercount
  <2> DEFINE w == counter.window
  <2>1. w \in 1 .. Horizon /\ counter.used \in Nat
    BY QuotaNumbers DEF StoreInv
  <2>2. Cardinality(Owed(w)) + CountedFor(w) <= usage.minute[w]
    BY <2>1 DEF MinuteInv
  <2>3. CountedFor(w) = counter.used /\ usage.minute[w] \in Nat
    BY <2>1 DEF CountedFor, StoreInv
  <2>4. Cardinality(Owed(w)) \in Nat
    BY OwedFinite
  <2> HIDE DEF w
  <2>5. counter.used <= usage.minute[w]
    BY <2>1, <2>2, <2>3, <2>4
  <2> QED BY <2>5 DEF w
<1> QED BY <1>1, <1>3, <1>4, QuotaTyped, PTL DEF MCSpec
-----------------------------------------------------------------------------
(* The day's limit.  A client is exposed to a day when it may still add to  *)
(* it without having been checked against what the day holds by then: it is *)
(* inferring, it records for that day, or it was checked against an earlier *)
(* one.  Every one of them can add one inference.                           *)

DayLimit == Q!Most({config.day : config \in AllConfigs})
Room     == Q!Room

ExposedTo(c, d) ==
  \/ quotaPc[c] = "infer" /\ Q!Day(now) <= d
  \/ quotaPc[c] = "record" /\ Q!Day(minuteKey[c]) = d
  \/ quotaPc[c] = "usage" /\ Q!Day(minuteKey[c]) < d

Exposed(d) == {c \in Clients : ExposedTo(c, d)}

WithinSlack(d) ==
  usage.tokens[d] + Cardinality(Exposed(d)) * MostTokens
    <= Room + (Cardinality(Clients) + blind) * MostTokens

DayInv ==
  \A d \in Q!Days : /\ d > Q!Day(now) => usage.tokens[d] = 0
                    /\ d <= Q!Day(now) => WithinSlack(d)

LEMMA DayLimitIs == DayLimit \in Nat /\ \A g \in AllConfigs : g.day \in Nat /\ g.day <= DayLimit
<1> DEFINE S == {config.day : config \in AllConfigs}
<1>1. \A g \in AllConfigs : g.day \in Nat
  BY QuotaAssumption DEF AllConfigs
<1>2. PICK x \in AllConfigs : \A y \in AllConfigs : y.day <= x.day
  BY QuotaAssumption DEF AllConfigs
<1>3. \E n \in S : \A k \in S : k <= n
  BY <1>2
<1>4. Q!Most(S) \in S /\ \A k \in S : k <= Q!Most(S)
  <2> HIDE DEF S
  <2> QED BY <1>3, MostIs, Zenon
<1>6. DayLimit = Q!Most(S)
  BY DEF DayLimit
<1>7. \A g \in AllConfigs : g.day <= Q!Most(S)
  BY <1>4
<1>8. Q!Most(S) \in Nat
  BY <1>1, <1>4
<1> HIDE DEF S
<1> QED BY <1>1, <1>6, <1>7, <1>8

\* Whoever is allowed with some estimate found no more than Room recorded.
LEMMA RoomIs ==
  /\ Room \in Nat
  /\ \A g \in AllConfigs, n \in Estimates, t \in Nat : t + n <= g.day => t <= Room
<1> DEFINE least == Q!Least(Estimates)
<1>1. least \in Int /\ \A n \in Estimates : n \in Int /\ least <= n
  <2>1. Estimates \subseteq Int /\ \E n \in Estimates : \A k \in Estimates : n <= k
    BY QuotaAssumption
  <2>2. least \in Estimates /\ \A n \in Estimates : least <= n
    BY <2>1, LeastIs, Zenon
  <2> QED BY <2>1, <2>2
<1>2. Room = IF DayLimit - least > 0 THEN DayLimit - least ELSE 0
  BY DEF Room, Q!Room, DayLimit, AllConfigs
<1> HIDE DEF least, Room, DayLimit
<1>3. Room \in Nat
  BY <1>1, <1>2, DayLimitIs
<1>4. ASSUME NEW g \in AllConfigs, NEW n \in Estimates, NEW t \in Nat, t + n <= g.day
      PROVE  t <= Room
  <2>1. g.day \in Nat /\ g.day <= DayLimit /\ DayLimit \in Nat
    BY DayLimitIs
  <2> QED BY <1>1, <1>2, <1>4, <2>1
<1> QED BY <1>3, <1>4

LEMMA ExposedFinite ==
  \A d : IsFiniteSet(Exposed(d)) /\ Cardinality(Exposed(d)) \in Nat
                                 /\ Cardinality(Exposed(d)) <= Cardinality(Clients)
<1> SUFFICES ASSUME NEW d
             PROVE  IsFiniteSet(Exposed(d)) /\ Cardinality(Exposed(d)) \in Nat
                                            /\ Cardinality(Exposed(d)) <= Cardinality(Clients)
  OBVIOUS
<1>1. IsFiniteSet(Clients)
  BY QuotaAssumption
<1>2. Exposed(d) \in SUBSET Clients
  BY DEF Exposed
<1>3. IsFiniteSet(Exposed(d)) /\ Cardinality(Exposed(d)) <= Cardinality(Clients)
  BY <1>1, <1>2, FS_Subset
<1> QED BY <1>3, FS_CardinalityType

LEMMA ExposedFiniteNext ==
  (\A d : IsFiniteSet(Exposed(d)) /\ Cardinality(Exposed(d)) \in Nat
                                  /\ Cardinality(Exposed(d)) <= Cardinality(Clients))'
  BY ExposedFinite, PTL

\* The arithmetic of the bound: t tokens recorded, e clients exposed.
LEMMA SlackArithmetic ==
  ASSUME NEW t \in Nat, NEW e \in Nat, NEW f \in Nat, NEW n \in Nat, NEW b \in Nat, NEW z \in Nat,
         NEW k \in Nat, NEW limit \in Nat, b <= z
  PROVE  \* nobody more is exposed
         /\ t + e * k <= limit + (n + b) * k /\ f <= e => t + f * k <= limit + (n + z) * k
         \* one records what it used
         /\ \A u \in Nat : /\ t + e * k <= limit + (n + b) * k /\ f + 1 <= e /\ u <= k
                           => t + u + f * k <= limit + (n + z) * k
         \* the limit was not passed
         /\ t <= limit /\ f <= n => t + f * k <= limit + (n + z) * k
         \* one more for every query that failed
         /\ t + e * k <= limit + (n + b) * k /\ f <= e + 1 /\ z >= b + 1 => t + f * k <= limit + (n + z) * k
<1> DEFINE Before == (n + b) * k
           After  == (n + z) * k
<1>1. Before \in Nat /\ After \in Nat /\ e * k \in Nat /\ f * k \in Nat
  OBVIOUS
<1>2. Before <= After /\ (z >= b + 1 => Before + k <= After)
  <2>1. (n + b) * k <= (n + z) * k
    BY Times
  <2>2. ASSUME z >= b + 1 PROVE (n + b) * k + k <= (n + z) * k
    <3>1. (n + b + 1) * k = (n + b) * k + k
      OBVIOUS
    <3>2. (n + b + 1) * k <= (n + z) * k
      BY <2>2, Times
    <3> QED BY <1>1, <3>1, <3>2
  <2> QED BY <2>1, <2>2
<1>3. /\ f <= e => f * k <= e * k
      /\ f + 1 <= e => f * k + k <= e * k
      /\ f <= e + 1 => f * k <= e * k + k
      /\ f <= n => f * k <= After
  <2>1. f <= e => f * k <= e * k
    BY Times
  <2>2. (f + 1) * k = f * k + k /\ (e + 1) * k = e * k + k
    OBVIOUS
  <2>3. f + 1 <= e => (f + 1) * k <= e * k
    BY Times
  <2>4. f <= e + 1 => f * k <= (e + 1) * k
    BY Times
  <2>5. f <= n => f * k <= After
    <3>1. f <= n => f <= n + z
      OBVIOUS
    <3> QED BY <3>1, Times
  <2> QED BY <2>1, <2>2, <2>3, <2>4, <2>5
<1>4. \A u \in Nat : u <= k => u + f * k <= f * k + k
  BY <1>1
<1> DEFINE E == e * k
           F == f * k
<1>5. Before \in Nat /\ After \in Nat /\ E \in Nat /\ F \in Nat
  BY <1>1
<1>6. /\ Before <= After /\ (z >= b + 1 => Before + k <= After)
      /\ f <= e => F <= E
      /\ f + 1 <= e => F + k <= E
      /\ f <= e + 1 => F <= E + k
      /\ f <= n => F <= After
  BY <1>2, <1>3
<1> HIDE DEF Before, After, E, F
<1>7. /\ t + E <= limit + Before /\ f <= e => t + F <= limit + After
      /\ \A u \in Nat : t + E <= limit + Before /\ f + 1 <= e /\ u <= k => t + u + F <= limit + After
      /\ t <= limit /\ f <= n => t + F <= limit + After
      /\ t + E <= limit + Before /\ f <= e + 1 /\ z >= b + 1 => t + F <= limit + After
  BY <1>5, <1>6
<1> QED BY <1>7 DEF Before, After, E, F

\* A client that moves changes nobody else's exposure, and becomes exposed
\* itself only by being allowed.
LEMMA ExposureMoves ==
  ASSUME ClientInv, NEW c \in Clients, NEW from, NEW to, NEW k, NEW a, ClientStep(c, from, to, k, a),
         NEW d
  PROVE  /\ \A e \in Clients : e # c => (ExposedTo(e, d)' <=> ExposedTo(e, d))
         /\ ExposedTo(c, d)' <=> \/ to = "infer" /\ Q!Day(now) <= d
                                 \/ to = "record" /\ Q!Day(k) = d
                                 \/ to = "usage" /\ Q!Day(k) < d
<1>1. /\ quotaPc[c] = from /\ quotaPc' = [quotaPc EXCEPT ![c] = to]
      /\ minuteKey' = [minuteKey EXCEPT ![c] = k] /\ now' = now
  BY DEF ClientStep
<1>2. /\ quotaPc'[c] = to /\ minuteKey'[c] = k
      /\ \A e \in Clients : e # c => quotaPc'[e] = quotaPc[e] /\ minuteKey'[e] = minuteKey[e]
  BY <1>1 DEF ClientInv
<1> QED BY <1>1, <1>2, Zenon DEF ExposedTo, Q!Day

LEMMA ExposedShrinks ==
  ASSUME ClientInv, StoreInv, NEW c \in Clients, ClientPath(c), quotaPc'[c] # "infer",
         NEW d \in Q!Days, d <= Q!Day(now)
  PROVE  Exposed(d)' \subseteq Exposed(d)
<1>0. Q!Day(now) \in Nat /\ d \in Nat
  BY DayOf DEF StoreInv
<1>1. ASSUME NEW from, NEW to, NEW k, NEW a, ClientStep(c, from, to, k, a), to # "infer",
             to = "record" => from = "infer" /\ k = now,
             to = "usage" => k = now
      PROVE  Exposed(d)' \subseteq Exposed(d)
  <2>1. ASSUME ExposedTo(c, d)' PROVE ExposedTo(c, d)
    <3>1. \/ to = "record" /\ Q!Day(k) = d
          \/ to = "usage" /\ Q!Day(k) < d
      BY <1>1, <2>1, ExposureMoves
    <3>2. to = "record" /\ Q!Day(now) = d /\ from = "infer"
      BY <1>0, <1>1, <3>1
    <3>3. quotaPc[c] = "infer" /\ Q!Day(now) <= d
      BY <1>0, <1>1, <3>2 DEF ClientStep
    <3> QED BY <3>3 DEF ExposedTo
  <2>2. \A e \in Clients : e # c => (ExposedTo(e, d)' <=> ExposedTo(e, d))
    BY <1>1, ExposureMoves
  <2> QED BY <2>1, <2>2, Zenon DEF Exposed
<1>2. \E from, to, k, a :
        /\ ClientStep(c, from, to, k, a) /\ to # "infer"
        /\ to = "record" => from = "infer" /\ k = now
        /\ to = "usage" => k = now
  <2> DEFINE Good == \E from, to, k, a :
                       /\ ClientStep(c, from, to, k, a) /\ to # "infer"
                       /\ to = "record" => from = "infer" /\ k = now
                       /\ to = "usage" => k = now
  <2>1. ASSUME NEW from, NEW to, NEW k, NEW a, ClientStep(c, from, to, k, a),
               to \notin {"infer", "record", "usage"}
        PROVE  Good
    <3>1. to # "infer" /\ to # "record" /\ to # "usage"
      BY <2>1
    <3> QED BY <2>1, <3>1, Zenon
  <2>2. ASSUME NEW a, ClientStep(c, "day", "usage", now, a) \/ ClientStep(c, "infer", "record", now, a)
        PROVE  Good
    BY <2>2, Zenon
  <2>3. ASSUME ClientStep(c, "usage", "infer", 0, 0) PROVE FALSE
    BY <2>3 DEF ClientStep, ClientInv
  <2> HIDE DEF Good
  <2>4. Good
    BY <2>1, <2>2, <2>3 DEF ClientPath
  <2> QED BY <2>4 DEF Good
<1> QED BY <1>1, <1>2

LEMMA SlackNumbers == Cardinality(Clients) \in Nat /\ MostTokens \in Nat /\ Room \in Nat
<1>1. IsFiniteSet(Clients)
  BY QuotaAssumption
<1>2. Cardinality(Clients) \in Nat
  BY <1>1, FS_CardinalityType
<1> QED BY <1>2, MostTokensIs, RoomIs

\* The bound carried over a step that adds nothing to the day.
LEMMA SlackFrame ==
  ASSUME StoreInv, StoreInv', NEW d \in Q!Days, WithinSlack(d), usage'.tokens[d] = usage.tokens[d],
         Exposed(d)' \subseteq Exposed(d), blind <= blind'
  PROVE  WithinSlack(d)'
<1>1. Cardinality(Exposed(d)') <= Cardinality(Exposed(d)) /\ Cardinality(Exposed(d)') \in Nat
  BY ExposedFinite, ExposedFiniteNext, FS_Subset
<1>2. /\ usage.tokens[d] \in Nat /\ blind \in Nat /\ blind' \in Nat
      /\ Cardinality(Exposed(d)) \in Nat /\ Cardinality(Clients) \in Nat
      /\ MostTokens \in Nat /\ Room \in Nat
  <2>1. usage.tokens[d] \in Nat /\ blind \in Nat /\ blind' \in Nat
    BY DEF StoreInv
  <2> QED BY <2>1, ExposedFinite, SlackNumbers
<1> HIDE DEF Exposed, MostTokens, Room
<1> QED BY <1>1, <1>2, SlackArithmetic DEF WithinSlack

LEMMA AllowedKeepsSlack ==
  ASSUME ClientInv, StoreInv, StoreInv', NEW c \in Clients, Q!CheckDay(c), quotaPc'[c] = "infer",
         NEW d \in Q!Days, d <= Q!Day(now), WithinSlack(d)
  PROVE  WithinSlack(d)'
<1> DEFINE dk == Q!Day(minuteKey[c])
           t  == usage.tokens[d]
           e  == Cardinality(Exposed(d))
           f  == Cardinality(Exposed(d)')
<1>0. faults \in Nat
  BY DEF StoreInv
<1>1. quotaPc[c] = "usage" /\ usage' = usage /\ now' = now
  BY DEF Q!CheckDay
<1>2. Q!Infer(c)
  BY DEF Q!CheckDay, Q!Leave, ClientInv
<1>3. ClientStep(c, "usage", "infer", 0, 0)
  BY <1>1, <1>2, LeaveIsStep
<1>4. /\ minuteKey[c] \in 1 .. now /\ minuteKey[c] \in 1 .. Horizon /\ now \in 1 .. Horizon
      /\ cfg[c] \in AllConfigs
  BY <1>1, InHand DEF Keyed
<1>5. dk \in Nat /\ Q!Day(now) \in Nat /\ dk <= Q!Day(now) /\ d \in Nat /\ dk \in Q!Days
  <2>1. minuteKey[c] <= now
    BY <1>4
  <2> QED BY <1>4, <2>1, DayOf
<1>6. amount[c] \in Estimates
  BY <1>1 DEF ClientInv, Asked
<1>7. /\ t \in Nat /\ e \in Nat /\ f \in Nat /\ f <= Cardinality(Clients)
      /\ blind \in Nat /\ blind' \in Nat
  <2>1. e \in Nat /\ f \in Nat /\ f <= Cardinality(Clients)
    BY ExposedFinite, ExposedFiniteNext
  <2>2. t \in Nat /\ blind \in Nat /\ blind' \in Nat
    BY DEF StoreInv
  <2> QED BY <2>1, <2>2, Zenon
<1>8. \A x \in Clients : x # c => (ExposedTo(x, d)' <=> ExposedTo(x, d))
  BY <1>3, ExposureMoves
<1>9. CASE Q!Works /\ dk = d
  <2>1. blind' = blind /\ Q!WithinDay(c, usage.tokens[dk], usage.cost[dk])
    <3>1. ~Q!Fails
      BY <1>0, <1>9 DEF Q!Works, Q!Fails
    <3> QED BY <3>1, <1>2 DEF Q!CheckDay, Q!Leave, ClientInv
  <2>2. t + amount[c] <= cfg[c].day
    BY <1>9, <2>1 DEF Q!WithinDay
  <2>3. t <= Room /\ blind <= blind'
    <3> HIDE DEF t, Room
    <3>1. t <= Room
      BY <1>4, <1>6, <1>7, <2>2, RoomIs
    <3> QED BY <1>7, <2>1, <3>1
  <2> HIDE DEF Exposed, MostTokens, Room
  <2> QED BY <1>1, <1>7, <2>3, SlackNumbers, SlackArithmetic DEF WithinSlack
<1>10. CASE Q!Works /\ dk # d
  <2>1. ExposedTo(c, d)' => ExposedTo(c, d)
    <3>1. ExposedTo(c, d)' => Q!Day(now) <= d
      BY <1>3, ExposureMoves
    <3>2. ASSUME Q!Day(now) <= d PROVE dk < d
      <4> HIDE DEF dk
      <4> QED BY <1>5, <1>10, <3>2
    <3> QED BY <1>1, <3>1, <3>2 DEF ExposedTo
  <2>2. Exposed(d)' \subseteq Exposed(d)
    BY <1>8, <2>1, Zenon DEF Exposed
  <2>3. blind <= blind'
    <3>1. blind' = blind
      BY <1>0, <1>10 DEF Q!CheckDay, Q!Works, Q!Fails
    <3> QED BY <1>7, <3>1
  <2> QED BY <1>1, <2>2, <2>3, SlackFrame
<1>11. CASE Q!Fails
  <2>1. blind' = blind + 1
    <3>1. ~Q!Works
      BY <1>0, <1>11 DEF Q!Works, Q!Fails
    <3> QED BY <3>1, <1>2 DEF Q!CheckDay, Q!Leave, ClientInv
  <2>2. Exposed(d)' \subseteq Exposed(d) \cup {c}
    BY <1>8, Zenon DEF Exposed
  <2>3. f <= e + 1
    <3>1. IsFiniteSet(Exposed(d))
      BY ExposedFinite
    <3>2. IsFiniteSet(Exposed(d) \cup {c}) /\ Cardinality(Exposed(d) \cup {c}) <= e + 1
      <4>1. /\ IsFiniteSet(Exposed(d) \cup {c})
            /\ Cardinality(Exposed(d) \cup {c}) = IF c \in Exposed(d) THEN e ELSE e + 1
        BY <3>1, FS_AddElement, Zenon
      <4> HIDE DEF Exposed
      <4> QED BY <1>7, <4>1
    <3>3. Cardinality(Exposed(d)') <= Cardinality(Exposed(d) \cup {c})
      BY <2>2, <3>2, FS_Subset
    <3>4. Cardinality(Exposed(d) \cup {c}) \in Nat
      BY <3>2, FS_CardinalityType
    <3> HIDE DEF Exposed
    <3> QED BY <1>7, <3>2, <3>3, <3>4
  <2>4. blind <= blind' /\ blind' >= blind + 1
    BY <1>7, <2>1
  <2> HIDE DEF Exposed, MostTokens, Room
  <2> QED BY <1>1, <1>7, <2>3, <2>4, SlackNumbers, SlackArithmetic DEF WithinSlack
<1> QED BY <1>9, <1>10, <1>11 DEF Q!CheckDay

LEMMA RecordedKeepsSlack ==
  ASSUME ClientInv, StoreInv, StoreInv', NEW c \in Clients, Q!RecordDay(c),
         NEW d \in Q!Days, d <= Q!Day(now), WithinSlack(d)
  PROVE  WithinSlack(d)'
<1> DEFINE dk == Q!Day(minuteKey[c])
           t  == usage.tokens[d]
           e  == Cardinality(Exposed(d))
           f  == Cardinality(Exposed(d)')
<1>1. PICK n \in Tokens, price \in Prices :
        /\ amount' = [amount EXCEPT ![c] = n]
        /\ \/ usage' = [usage EXCEPT !.tokens[dk] = @ + n, !.cost[dk] = @ + n * price]
           \/ usage' = usage
  BY DEF Q!RecordDay
<1>2. ClientStep(c, "record", "recorded", minuteKey[c], n)
  BY <1>1, SameClient DEF Q!RecordDay, ClientStep
<1>3. n \in Nat /\ n <= MostTokens
  BY MostTokensIs, QuotaNumbers
<1>4. /\ t \in Nat /\ e \in Nat /\ f \in Nat /\ blind \in Nat /\ blind' = blind
  BY ExposedFinite, ExposedFiniteNext DEF StoreInv, Q!RecordDay
<1>5. usage \in [tokens : [Q!Days -> Nat], cost : [Q!Days -> Nat], minute : [1 .. Horizon -> Nat]]
  BY DEF StoreInv
<1>6. Exposed(d)' = Exposed(d) \ {c}
  <2>1. \A x \in Clients : x # c => (ExposedTo(x, d)' <=> ExposedTo(x, d))
    BY <1>2, ExposureMoves, Zenon
  <2>2. ExposedTo(c, d)' <=> \/ "recorded" = "infer" /\ Q!Day(now) <= d
                             \/ "recorded" = "record" /\ Q!Day(minuteKey[c]) = d
                             \/ "recorded" = "usage" /\ Q!Day(minuteKey[c]) < d
    BY <1>2, ExposureMoves, Zenon
  <2>3. ~ExposedTo(c, d)'
    BY <2>2
  <2> QED BY <2>1, <2>3, Zenon DEF Exposed
<1>7. CASE dk = d /\ usage' # usage
  <2>1. c \in Exposed(d)
    BY <1>7 DEF Exposed, ExposedTo, Q!RecordDay
  <2>2. f + 1 <= e
    <3>1. IsFiniteSet(Exposed(d))
      BY ExposedFinite
    <3>2. Cardinality(Exposed(d) \ {c}) = e - 1
      BY <2>1, <3>1, FS_RemoveElement
    <3> HIDE DEF Exposed
    <3> QED BY <1>4, <1>6, <3>2
  <2>3. usage'.tokens[d] = t + n
    BY <1>1, <1>5, <1>7
  <2> HIDE DEF Exposed, MostTokens, Room
  <2>4. blind \in Nat /\ blind <= blind /\ MostTokens \in Nat /\ Room \in Nat
        /\ Cardinality(Clients) \in Nat
    BY <1>4, SlackNumbers
  <2> DEFINE slack == Room + (Cardinality(Clients) + blind) * MostTokens
  <2>5. t + e * MostTokens <= slack
    BY DEF WithinSlack
  <2>6. t + n + f * MostTokens <= slack
    BY <1>3, <1>4, <2>2, <2>4, <2>5, SlackArithmetic
  <2>7. usage'.tokens[d] + f * MostTokens <= slack
    BY <2>3, <2>6
  <2> QED BY <1>4, <2>7 DEF WithinSlack
<1>8. CASE dk # d \/ usage' = usage
  <2>1. usage'.tokens[d] = usage.tokens[d]
    BY <1>1, <1>5, <1>8
  <2>2. Exposed(d)' \subseteq Exposed(d)
    BY <1>6
  <2> QED BY <1>4, <2>1, <2>2, SlackFrame
<1> QED BY <1>7, <1>8

LEMMA ClientDay ==
  ASSUME ClientInv, StoreInv, StoreInv', DayInv, NEW c \in Clients,
         Q!Check(c) \/ Q!Record(c) \/ Q!ReadClock(c)
  PROVE  DayInv'
<1> SUFFICES ASSUME NEW d \in Q!Days
             PROVE  /\ d > Q!Day(now') => usage'.tokens[d] = 0
                    /\ d <= Q!Day(now') => WithinSlack(d)'
  BY DEF DayInv, Q!Days, Q!Day
<1>0. ClientPath(c)
  BY ClientMoves
<1>1. now' = now
  BY DEF Q!Check, Q!Record, Q!ReadClock, Q!LoadConfig, Q!Fill, Q!RefuseContext, Q!CheckMinute,
         Q!CheckDay, Q!Fail, Q!RecordDay, Q!RecordMinute, Q!Count
<1>2. /\ d > Q!Day(now) => usage.tokens[d] = 0
      /\ d <= Q!Day(now) => WithinSlack(d)
  BY DEF DayInv
<1>3. usage \in [tokens : [Q!Days -> Nat], cost : [Q!Days -> Nat], minute : [1 .. Horizon -> Nat]]
  BY DEF StoreInv
<1>4. CASE Q!RecordDay(c)
  <2>1. d <= Q!Day(now) => WithinSlack(d)'
    BY <1>2, <1>4, RecordedKeepsSlack
  <2>2. ASSUME d > Q!Day(now) PROVE usage'.tokens[d] = 0
    <3>1. minuteKey[c] \in 1 .. now /\ minuteKey[c] \in 1 .. Horizon /\ now \in 1 .. Horizon
      BY <1>4, InHand DEF Keyed, Q!RecordDay
    <3>2. minuteKey[c] <= now
      BY <3>1
    <3>3. /\ Q!Day(minuteKey[c]) <= Q!Day(now)
          /\ Q!Day(minuteKey[c]) \in Nat /\ Q!Day(now) \in Nat /\ d \in Nat
      BY <3>1, <3>2, DayOf
    <3>4. Q!Day(minuteKey[c]) # d
      BY <2>2, <3>3
    <3>5. usage'.tokens[d] = usage.tokens[d]
      <4>1. PICK n \in Tokens, price \in Prices :
              \/ usage' = [usage EXCEPT !.tokens[Q!Day(minuteKey[c])] = @ + n,
                                        !.cost[Q!Day(minuteKey[c])] = @ + n * price]
              \/ usage' = usage
        BY <1>4, Zenon DEF Q!RecordDay
      <4> QED BY <1>3, <3>4, <4>1
    <3> QED BY <1>2, <2>2, <3>5
  <2> QED BY <1>1, <2>1, <2>2
<1>5. CASE Q!CheckDay(c) /\ quotaPc'[c] = "infer"
  <2>1. usage' = usage
    BY <1>5 DEF Q!CheckDay
  <2> QED BY <1>1, <1>2, <1>5, <2>1, AllowedKeepsSlack
<1>6. CASE ~Q!RecordDay(c) /\ ~(Q!CheckDay(c) /\ quotaPc'[c] = "infer")
  <2>1. usage'.tokens = usage.tokens
    <3>1. CASE Q!RecordMinute(c)
      BY <1>3, <3>1 DEF Q!RecordMinute
    <3>2. CASE ~Q!RecordMinute(c)
      BY <1>6, <3>2 DEF Q!Check, Q!Record, Q!ReadClock, Q!LoadConfig, Q!Fill, Q!RefuseContext,
                        Q!CheckMinute, Q!CheckDay, Q!Fail, Q!Count
    <3> QED BY <3>1, <3>2
  <2>2. quotaPc'[c] # "infer"
    BY <1>6 DEF Q!Check, Q!Record, Q!ReadClock, Q!LoadConfig, Q!Fill, Q!RefuseContext,
                Q!CheckMinute, Q!CheckDay, Q!Fail, Q!Count, Q!RecordMinute, Q!Leave, ClientInv
  <2>3. blind <= blind'
    <3>1. blind' = blind \/ blind' = blind + 1
      BY DEF Q!Check, Q!Record, Q!ReadClock, Q!LoadConfig, Q!Fill, Q!RefuseContext, Q!CheckMinute,
             Q!CheckDay, Q!Fail, Q!RecordDay, Q!RecordMinute, Q!Count
    <3>2. blind \in Nat
      BY DEF StoreInv
    <3> QED BY <3>1, <3>2
  <2>4. d <= Q!Day(now) => Exposed(d)' \subseteq Exposed(d)
    BY <1>0, <2>2, ExposedShrinks
  <2> QED BY <1>1, <1>2, <2>1, <2>3, <2>4, SlackFrame
<1> QED BY <1>4, <1>5, <1>6

LEMMA OthersDay ==
  ASSUME ClientInv, StoreInv, StoreInv', DayInv, Q!UpsertRow \/ Q!UpsertCache \/ Q!Flush \/ Q!Tick
  PROVE  DayInv'
<1> SUFFICES ASSUME NEW d \in Q!Days
             PROVE  /\ d > Q!Day(now') => usage'.tokens[d] = 0
                    /\ d <= Q!Day(now') => WithinSlack(d)'
  BY DEF DayInv, Q!Days, Q!Day
<1>1. /\ usage' = usage /\ quotaPc' = quotaPc /\ minuteKey' = minuteKey /\ blind' = blind
      /\ now' = now \/ now' = now + 1
  BY DEF Q!UpsertRow, Q!UpsertCache, Q!Flush, Q!Tick, Q!client
<1>2. now \in 1 .. Horizon /\ now' \in 1 .. Horizon /\ blind \in Nat /\ usage.tokens[d] \in Nat
  BY DEF StoreInv
<1>3. Q!Day(now) \in Nat /\ Q!Day(now') \in Nat /\ Q!Day(now) <= Q!Day(now') /\ d \in Nat
  <2>1. now <= now'
    BY <1>1, <1>2
  <2> QED BY <1>2, <2>1, DayOf
<1>4. /\ d > Q!Day(now) => usage.tokens[d] = 0
      /\ d <= Q!Day(now) => WithinSlack(d)
  BY DEF DayInv
<1>5. CASE d <= Q!Day(now)
  <2>1. ASSUME NEW e \in Clients, ExposedTo(e, d)' PROVE ExposedTo(e, d)
    <3>1. \/ quotaPc[e] = "infer" /\ Q!Day(now') <= d
          \/ quotaPc[e] = "record" /\ Q!Day(minuteKey[e]) = d
          \/ quotaPc[e] = "usage" /\ Q!Day(minuteKey[e]) < d
      BY <1>1, <2>1, Zenon DEF ExposedTo, Q!Day
    <3>2. Q!Day(now') <= d => Q!Day(now) <= d
      BY <1>3
    <3> QED BY <3>1, <3>2 DEF ExposedTo
  <2>2. Exposed(d)' \subseteq Exposed(d)
    BY <2>1, Zenon DEF Exposed
  <2>3. blind <= blind'
    BY <1>1, <1>2
  <2>4. WithinSlack(d)'
    BY <1>1, <1>4, <1>5, <2>2, <2>3, SlackFrame
  <2> QED BY <1>3, <1>5, <2>4
<1>6. CASE d > Q!Day(now)
  <2>1. usage'.tokens[d] = 0
    BY <1>1, <1>4, <1>6
  <2>2. WithinSlack(d)'
    <3>1. Cardinality(Exposed(d)') \in Nat /\ Cardinality(Exposed(d)') <= Cardinality(Clients)
      BY ExposedFiniteNext
    <3>2. Room \in Nat /\ 0 <= Room
      BY RoomIs
    <3> DEFINE f == Cardinality(Exposed(d)')
    <3>3. 0 + f * MostTokens <= Room + (Cardinality(Clients) + blind) * MostTokens
      <4> HIDE DEF f, MostTokens, Room
      <4>1. 0 \in Nat /\ blind <= blind /\ f \in Nat /\ f <= Cardinality(Clients)
        BY <1>2, <3>1 DEF f
      <4> QED BY <1>2, <3>2, <4>1, SlackNumbers, SlackArithmetic
    <3> QED BY <1>1, <2>1, <3>3 DEF WithinSlack
  <2> QED BY <2>1, <2>2
<1> QED BY <1>3, <1>5, <1>6

\* However many clients Check and Record at once, across midnight and changes
\* of the limit, a day's recorded tokens exceed what a Check allows by no more
\* than one inference for each client and for each usage query that failed,
\* whatever the estimates.
THEOREM ServicesOverrunIsBounded == MCSpec => []OverrunIsBounded
<1>1. MCInit => DayInv
  <2> SUFFICES ASSUME MCInit, NEW d \in Q!Days
               PROVE  usage.tokens[d] = 0 /\ WithinSlack(d)
    BY DEF DayInv
  <2>1. usage.tokens[d] = 0 /\ blind = 0
    BY DEF MCInit, Q!Init
  <2>2. Cardinality(Exposed(d)) \in Nat /\ Cardinality(Exposed(d)) <= Cardinality(Clients)
    BY ExposedFinite
  <2>3. Room \in Nat /\ 0 <= Room
    BY RoomIs
  <2> DEFINE f == Cardinality(Exposed(d))
  <2>4. 0 + f * MostTokens <= Room + (Cardinality(Clients) + 0) * MostTokens
    <3>1. f \in Nat /\ f <= Cardinality(Clients)
      BY <2>2
    <3> HIDE DEF f, MostTokens, Room
    <3> QED BY <2>3, <3>1, SlackNumbers, SlackArithmetic
  <2> QED BY <2>1, <2>4 DEF WithinSlack
<1>2. DayInv /\ UNCHANGED quotaVars => DayInv'
  BY DEF DayInv, quotaVars, WithinSlack, Exposed, ExposedTo, Q!Day, Q!Days
<1>3. ASSUME ClientInv /\ StoreInv, (ClientInv /\ StoreInv)', DayInv, [MCNext]_allVars
      PROVE  DayInv'
  <2>1. Q!Next => DayInv'
    BY <1>3, ClientDay, OthersDay DEF Q!Next
  <2> QED BY <1>2, <1>3, <2>1, QuotaSteps
<1>4. ClientInv /\ StoreInv /\ DayInv => OverrunIsBounded
  <2> SUFFICES ASSUME StoreInv, DayInv, NEW d \in Q!Days
               PROVE  usage.tokens[d] <= Room + (Cardinality(Clients) + blind) * MostTokens
    <3>1. Q!Cardinality(Clients) = Cardinality(Clients)
      BY QuotaSetsAgree
    <3>2. ASSUME \A d \in Q!Days : usage.tokens[d] <= Room + (Cardinality(Clients) + blind) * MostTokens
          PROVE  OverrunIsBounded
      BY <3>1, <3>2, Zenon DEF OverrunIsBounded, Q!OverrunIsBounded, Room, MostTokens
    <3> QED BY <3>2
  <2> DEFINE slack == (Cardinality(Clients) + blind) * MostTokens
             spent == Cardinality(Exposed(d)) * MostTokens
  <2>1. /\ usage.tokens[d] \in Nat /\ blind \in Nat /\ Q!Day(now) \in Nat /\ d \in Nat
    <3>1. usage.tokens[d] \in Nat /\ blind \in Nat /\ now \in 1 .. Horizon
      BY DEF StoreInv
    <3> QED BY <3>1, DayOf
  <2>2. /\ slack \in Nat /\ spent \in Nat
    <3>1. Cardinality(Exposed(d)) \in Nat
      BY ExposedFinite
    <3> HIDE DEF Exposed, MostTokens
    <3> QED BY <2>1, <3>1, SlackNumbers
  <2>3. usage.tokens[d] = 0 \/ usage.tokens[d] + spent <= Room + slack
    BY <2>1 DEF DayInv, WithinSlack
  <2>4. Room \in Nat
    BY RoomIs
  <2> HIDE DEF slack, spent, Room
  <2>5. usage.tokens[d] <= Room + slack
    BY <2>1, <2>2, <2>3, <2>4
  <2> QED BY <2>5 DEF slack
<1> QED BY <1>1, <1>3, <1>4, QuotaTyped, PTL DEF MCSpec
-----------------------------------------------------------------------------
(* The router's tables, the executor, and the types of all five.            *)

LEMMA ReloadStays ==
  ASSUME R!TypeOK, [R!Next]_reloadVars
  PROVE  R!TypeOK'
<1> USE DEF R!TypeOK, R!Loaders, R!Loop, R!Nil
<1>0. CASE R!WaitForItself
  BY <1>0 DEF R!WaitForItself
<1>1. CASE R!LoadModels \/ R!PublishModels \/ R!LoadRollouts
  BY <1>1 DEF R!LoadModels, R!PublishModels, R!LoadRollouts, R!tables
<1>2. CASE \E l \in R!Loaders : R!PublishRollouts(l)
  BY <1>2 DEF R!PublishRollouts, R!tables
<1>3. CASE \E p \in Posts : R!Upsert(p) \/ R!Reread(p)
  BY <1>3 DEF R!Upsert, R!Reread, R!tables
<1>4. CASE R!EditModels \/ R!Break \/ UNCHANGED reloadVars
  BY <1>4 DEF R!EditModels, R!Break, R!tables, reloadVars
<1> QED BY <1>0, <1>1, <1>2, <1>3, <1>4 DEF R!Next, R!LoopStep, R!Post, R!GetModels

\* The gauge of active calls counts the threads that are in the backend.
InBackend == {c \in Calls : thread[c] = "backend"}

ExecutorInv ==
  /\ serving \in X!Status
  /\ active = Cardinality(InBackend)
  /\ thread \in [Calls -> {"idle", "check", "backend", "stream"}]
  /\ sent \in [Calls -> 0 .. MaxTokens]
  /\ away \subseteq {c \in Calls : thread[c] # "idle"}

LEMMA BackendFinite == IsFiniteSet(InBackend) /\ Cardinality(InBackend) \in 0 .. Cardinality(Calls)
<1>1. IsFiniteSet(Calls)
  BY PoolAssumption
<1>2. InBackend \in SUBSET Calls
  BY DEF InBackend
<1>3. IsFiniteSet(InBackend) /\ Cardinality(InBackend) <= Cardinality(Calls)
  BY <1>1, <1>2, FS_Subset
<1>4. Cardinality(InBackend) \in Nat /\ Cardinality(Calls) \in Nat
  BY <1>1, <1>3, FS_CardinalityType
<1> QED BY <1>3, <1>4

\* A thread that goes from one place to another.
LEMMA ThreadMoves ==
  ASSUME ExecutorInv, NEW c \in Calls, NEW to, thread' = [thread EXCEPT ![c] = to]
  PROVE  /\ to # "backend" /\ thread[c] # "backend" => InBackend' = InBackend
         /\ to = "backend" /\ thread[c] # "backend"
              => Cardinality(InBackend') = Cardinality(InBackend) + 1
         /\ to # "backend" /\ thread[c] = "backend"
              => Cardinality(InBackend') = Cardinality(InBackend) - 1
<1>1. to # "backend" /\ thread[c] # "backend" => InBackend' = InBackend
  BY DEF ExecutorInv, InBackend
<1>2. to = "backend" /\ thread[c] # "backend" => InBackend' = InBackend \cup {c} /\ c \notin InBackend
  BY DEF ExecutorInv, InBackend
<1>3. to # "backend" /\ thread[c] = "backend" => InBackend' = InBackend \ {c} /\ c \in InBackend
  BY DEF ExecutorInv, InBackend
<1>4. IsFiniteSet(InBackend)
  BY BackendFinite
<1> HIDE DEF InBackend
<1> QED BY <1>1, <1>2, <1>3, <1>4, FS_AddElement, FS_RemoveElement

LEMMA ReturnTypes ==
  ASSUME ExecutorInv, NEW c \in Calls, X!Return(c)
  PROVE  /\ thread' \in [Calls -> {"idle", "check", "backend", "stream"}]
         /\ sent' \in [Calls -> 0 .. MaxTokens]
         /\ away' \subseteq {x \in Calls : thread'[x] # "idle"}
<1>1. 0 \in 0 .. MaxTokens
  BY PoolAssumption
<1> QED BY <1>1 DEF ExecutorInv, X!Return

LEMMA ExecutorStays ==
  ASSUME ExecutorInv, [X!Next]_executorVars
  PROVE  ExecutorInv'
<1>1. CASE X!SetStatus \/ UNCHANGED executorVars
  BY <1>1 DEF X!SetStatus, X!Status, executorVars, ExecutorInv, InBackend
<1>2. ASSUME NEW c \in Calls, X!Execute(c) \/ X!ExecuteStream(c) PROVE ExecutorInv'
  <2>1. InBackend' = InBackend
    BY <1>2, ThreadMoves DEF X!Execute, X!ExecuteStream
  <2> QED BY <1>2, <2>1 DEF X!Execute, X!ExecuteStream, ExecutorInv
<1>3. ASSUME NEW c \in Calls, X!Expired(c) \/ X!EndStream(c) PROVE ExecutorInv'
  <2>1. InBackend' = InBackend
    BY <1>3, ThreadMoves DEF X!Expired, X!EndStream, X!Return
  <2> QED BY <1>3, <2>1, ReturnTypes DEF X!Expired, X!EndStream, ExecutorInv
<1>4. ASSUME NEW c \in Calls, X!Enter(c) PROVE ExecutorInv'
  <2>1. Cardinality(InBackend') = Cardinality(InBackend) + 1
    BY <1>4, ThreadMoves DEF X!Enter
  <2> QED BY <1>4, <2>1 DEF X!Enter, ExecutorInv
<1>5. ASSUME NEW c \in Calls, X!Leave(c) PROVE ExecutorInv'
  <2>1. Cardinality(InBackend') = Cardinality(InBackend) - 1
    <3>1. thread' = [thread EXCEPT ![c] = "idle"] /\ thread[c] = "backend" /\ "idle" # "backend"
      BY <1>5 DEF X!Leave, X!Return
    <3> QED BY <3>1, ThreadMoves, Zenon
  <2> QED BY <1>5, <2>1, ReturnTypes DEF X!Leave, ExecutorInv
<1>6. ASSUME NEW c \in Calls, X!Token(c) PROVE ExecutorInv'
  <2>1. MaxTokens \in Nat /\ sent[c] \in 0 .. MaxTokens
    BY PoolAssumption DEF ExecutorInv
  <2>2. sent[c] + 1 \in 0 .. MaxTokens
    BY <1>6, <2>1 DEF X!Token
  <2> QED BY <1>6, <2>2 DEF X!Token, ExecutorInv, InBackend
<1>7. ASSUME NEW c \in Calls, X!Hangup(c) PROVE ExecutorInv'
  BY <1>7 DEF X!Hangup, ExecutorInv, InBackend
<1> QED BY <1>1, <1>2, <1>3, <1>4, <1>5, <1>6, <1>7 DEF X!Next, X!Proceed

\* Every component of the composition keeps to its types; the executor's
\* gauge, which each call raises and lowers, stays within the pool
\* (ExecutorMetrics.track_active).
THEOREM ServicesTypeCorrect == MCSpec => []ServicesTypeOK
<1>1. MCSpec => []TypeOK
  BY LimiterImplemented, LimitTypeCorrect, PTL
<1>2. MCSpec => []Q!TypeOK
  BY QuotaTyped, QuotaTypeOK, PTL
<1>3. MCSpec => []R!TypeOK
  <2>1. MCInit => R!TypeOK
    BY DEF MCInit, R!Init, R!TypeOK, R!Nil
  <2>2. [MCNext]_allVars => [R!Next]_reloadVars
    BY DEF MCNext, Limit, Usage, Copies, Serve, Work, allVars
  <2> QED BY <2>1, <2>2, ReloadStays, PTL DEF MCSpec
<1>4. MCSpec => []X!TypeOK
  <2>1. MCInit => ExecutorInv
    <3> SUFFICES ASSUME X!Init PROVE ExecutorInv
      BY DEF MCInit
    <3>1. InBackend = {} /\ 0 \in 0 .. MaxTokens
      BY PoolAssumption DEF X!Init, InBackend
    <3>2. Cardinality(InBackend) = 0
      BY <3>1, FS_EmptySet, Zenon
    <3> QED BY <3>1, <3>2 DEF X!Init, X!Status, ExecutorInv
  <2>2. [MCNext]_allVars => [X!Next]_executorVars
    BY DEF MCNext, Limit, Usage, Copies, Serve, Work, allVars
  <2>3. ExecutorInv => X!TypeOK
    <3>1. X!Cardinality(Calls) = Cardinality(Calls)
      BY Zenon DEF X!Cardinality, Cardinality
    <3> QED BY <3>1, BackendFinite DEF ExecutorInv, X!TypeOK
  <2> QED BY <2>1, <2>2, <2>3, ExecutorStays, PTL DEF MCSpec
<1> QED BY <1>1, <1>2, <1>3, <1>4, GatewayTypes, PTL DEF ServicesTypeOK
=============================================================================
