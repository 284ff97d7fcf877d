-------------------------- MODULE BatchWindowProofs --------------------------
(***************************************************************************)
(* What one batcher drains and what it remembers, for any capacity, batch  *)
(* size and length of the latency ring: a Drain never lets an item         *)
(* overtake another, the ring holds the latest latencies, each once, P99   *)
(* is their percentile, the window shrinks with load, and the closed form  *)
(* of Drain is what its loop computes.                                     *)
(***************************************************************************)
EXTENDS BatchWindow, PriorityQueueProofs, FiniteSetTheorems, WellFoundedInduction

USE WindowAssumption

-----------------------------------------------------------------------------
(* Drain order.                                                             *)

\* Items are numbered in the order of their arrival, so none is queued twice.
LaneInv ==
  /\ arrived \in Nat
  /\ lanes \in Queues(1 .. arrived)
  /\ NoDuplicates(lanes)

\* A queue of items of S is one of items of any larger set.
LEMMA QueueGrows ==
  ASSUME NEW S, NEW T, S \subseteq T, NEW q \in Queues(S)
  PROVE  q \in Queues(T)
<1>1. \A l \in LaneNames : q[l] \in Seq(S)
  BY QueueShape
<1>2. \A l \in LaneNames : q[l] \in Seq(T)
  <2> SUFFICES ASSUME NEW l \in LaneNames PROVE q[l] \in Seq(T)
    OBVIOUS
  <2>1. q[l] \in [1 .. Len(q[l]) -> S] /\ Len(q[l]) \in Nat
    BY <1>1, LenProperties
  <2>2. q[l] \in [1 .. Len(q[l]) -> T]
    BY <2>1
  <2> QED BY <2>1, <2>2, IsASeq
<1> QED BY <1>2 DEF Queues

LEMMA InitLanes == Init => LaneInv
<1> SUFFICES ASSUME Init PROVE LaneInv
  OBVIOUS
<1>1. lanes = EmptyQueue /\ arrived = 0
  BY DEF Init
<1>2. EmptyQueue \in Queues(1 .. 0)
  BY DEF EmptyQueue, Queues
<1>3. \A l \in LaneNames : 1 .. Len(EmptyQueue[l]) = {}
  BY DEF EmptyQueue
<1>4. NoDuplicates(EmptyQueue)
  BY <1>3 DEF NoDuplicates
<1> QED BY <1>1, <1>2, <1>4 DEF LaneInv

LEMMA StepLanes == LaneInv /\ [Next]_vars => LaneInv'
<1> SUFFICES ASSUME LaneInv, [Next]_vars PROVE LaneInv'
  OBVIOUS
<1> USE DEF LaneInv
<1>1. ASSUME NEW p, Arrive(p) PROVE LaneInv'
  <2>1. lanes' = Push(lanes, p, arrived + 1) /\ arrived' = arrived + 1
    BY <1>1 DEF Arrive
  <2>2. /\ 1 .. arrived \subseteq 1 .. arrived + 1 /\ arrived + 1 \in 1 .. arrived + 1
        /\ arrived + 1 \notin 1 .. arrived
    OBVIOUS
  <2>3. lanes \in Queues(1 .. arrived + 1)
    BY <2>2, QueueGrows
  <2>4. arrived + 1 \notin Waiting(lanes)
    BY <2>2, QueueShape
  <2>5. Push(lanes, p, arrived + 1) \in Queues(1 .. arrived + 1)
        /\ NoDuplicates(Push(lanes, p, arrived + 1))
    BY <2>2, <2>3, <2>4, PushProperties
  <2> QED BY <2>1, <2>5
<1>2. ASSUME NEW ms, WakeUp(ms) PROVE LaneInv'
  <2>1. lanes' = Rest(lanes, MaxBatchSize) /\ arrived' = arrived /\ MaxBatchSize \in Nat
    BY <1>2 DEF WakeUp
  <2> QED BY <2>1, DrainProperties
<1>3. CASE Sleep \/ UNCHANGED vars
  BY <1>3 DEF Sleep, vars
<1> QED BY <1>1, <1>2, <1>3 DEF Next

\* A Drain keeps the order of the queue: what it leaves behind was behind.
LEMMA DrainKeepsOrder ==
  ASSUME NEW S, NEW q \in Queues(S), NEW n \in Nat, NoDuplicates(q),
         NEW k \in LaneNames, NEW l \in LaneNames,
         NEW i \in 1 .. Len(q[k]), NEW j \in 1 .. Len(q[l]),
         \/ k = "high" /\ l # "high"
         \/ k = "normal" /\ l = "low"
         \/ k = l /\ i < j,
         q[l][j] \notin Waiting(Rest(q, n))
  PROVE  q[k][i] \notin Waiting(Rest(q, n))
<1> DEFINE tk == Taken(q, n, k)
           tl == Taken(q, n, l)
           ck == Len(q[k])
           cl == Len(q[l])
<1>1. /\ ck \in Nat /\ tk \in 0 .. ck /\ i \in 1 .. ck
      /\ cl \in Nat /\ tl \in 0 .. cl /\ j \in 1 .. cl
  BY QueueShape, TakenBound
<1>2. ~(j > tl)
  BY LeftBehind, Zenon
<1>3. (tl > 0 /\ k # l) => tk = ck
  BY HighestLaneFirst DEF LaneNames
<1>4. k = l => tk = tl
  OBVIOUS
<1>5. ~(i > tk)
  <2> HIDE DEF tk, tl, ck, cl
  <2>1. tl > 0
    BY <1>1, <1>2
  <2>2. CASE k = l
    <3>1. i < j
      BY <2>2
    <3> QED BY <1>1, <1>2, <1>4, <2>2, <3>1
  <2>3. CASE k # l
    BY <1>1, <1>3, <2>1, <2>3
  <2> QED BY <2>2, <2>3
<1> QED BY <1>5, LeftBehind, Zenon

\* Drain order (ADR-002): whatever arrives meanwhile, an item leaves its queue
\* only together with all that outrank it and all ahead of it in its lane.
THEOREM NoItemOvertakes == Spec => DrainRespectsPriority
<1>1. LaneInv /\ [Next]_vars =>
        [\A k, l \in LaneNames : \A i \in 1 .. Len(lanes[k]), j \in 1 .. Len(lanes[l]) :
           LET ahead  == lanes[k][i]
               behind == lanes[l][j]
               before == \/ k = "high" /\ l # "high"
                         \/ k = "normal" /\ l = "low"
                         \/ k = l /\ i < j
           IN  before /\ behind \notin Waiting(lanes') => ahead \notin Waiting(lanes')]_vars
  <2> SUFFICES ASSUME LaneInv, Next,
                      NEW k \in LaneNames, NEW l \in LaneNames,
                      NEW i \in 1 .. Len(lanes[k]), NEW j \in 1 .. Len(lanes[l]),
                      \/ k = "high" /\ l # "high"
                      \/ k = "normal" /\ l = "low"
                      \/ k = l /\ i < j,
                      lanes[l][j] \notin Waiting(lanes')
               PROVE  lanes[k][i] \notin Waiting(lanes')
    BY Zenon
  <2>1. lanes[l][j] \in Waiting(lanes)
    <3>1. \A x : x \in Waiting(lanes) <=>
            \E a \in LaneNames : \E f \in 1 .. Len(lanes[a]) : lanes[a][f] = x
      <4>1. lanes \in Queues(1 .. arrived)
        BY DEF LaneInv
      <4> QED BY <4>1, QueueShape, SMTT(30)
    <3> QED BY <3>1, Zenon
  <2>2. ASSUME NEW p, Arrive(p) PROVE FALSE
    <3>1. lanes' = Push(lanes, p, arrived + 1)
      BY <2>2 DEF Arrive
    <3>2. /\ lanes \in Queues(1 .. arrived + 1) /\ arrived + 1 \in 1 .. arrived + 1
      <4>1. 1 .. arrived \subseteq 1 .. arrived + 1 /\ arrived + 1 \in 1 .. arrived + 1
        BY DEF LaneInv
      <4> QED BY <4>1, QueueGrows DEF LaneInv
    <3>3. Waiting(lanes') = Waiting(lanes) \cup {arrived + 1}
      <4> DEFINE x == arrived + 1
                 S == 1 .. x
      <4>1. lanes \in Queues(S) /\ x \in S
        BY <3>2
      <4> HIDE DEF x, S
      <4>2. Waiting(Push(lanes, p, x)) = Waiting(lanes) \cup {x}
        BY <4>1, PushProperties
      <4> QED BY <3>1, <4>2 DEF x
    <3> QED BY <2>1, <3>3
  <2>3. CASE Sleep
    BY <2>1, <2>3 DEF Sleep
  <2>4. ASSUME NEW ms, WakeUp(ms) PROVE lanes[k][i] \notin Waiting(lanes')
    <3>1. lanes' = Rest(lanes, MaxBatchSize) /\ MaxBatchSize \in Nat
      BY <2>4 DEF WakeUp
    <3> QED BY <3>1, DrainKeepsOrder DEF LaneInv
  <2> QED BY <2>2, <2>3, <2>4 DEF Next
<1> QED BY <1>1, InitLanes, StepLanes, PTL DEF Spec, DrainRespectsPriority
-----------------------------------------------------------------------------
(* The ring of latencies.                                                   *)

\* What fixes a remainder.
LEMMA RemainderIs ==
  ASSUME NEW c \in Nat \ {0}, NEW q \in Int, NEW r \in 0 .. c - 1
  PROVE  (c * q + r) % c = r
OBVIOUS

\* The remainder of the next number: one more, or back to zero.
LEMMA NextRemainder ==
  ASSUME NEW c \in Nat \ {0}, NEW n \in Nat
  PROVE  /\ n % c \in 0 .. c - 1
         /\ (n + 1) % c = IF n % c = c - 1 THEN 0 ELSE (n % c) + 1
<1> DEFINE q == n \div c
           r == n % c
<1>1. r \in 0 .. c - 1
  OBVIOUS
<1>2. q \in Int
  OBVIOUS
<1>3. r = n - q * c
  OBVIOUS
<1> HIDE DEF q, r
<1>4. n = c * q + r
  BY <1>1, <1>2, <1>3
<1>5. CASE r = c - 1
  <2>1. n + 1 = c * (q + 1) + 0 /\ q + 1 \in Int /\ 0 \in 0 .. c - 1
    BY <1>1, <1>2, <1>4, <1>5
  <2>2. (c * (q + 1) + 0) % c = 0
    BY <2>1, RemainderIs
  <2>3. (n + 1) % c = 0
    BY <2>1, <2>2
  <2> QED BY <1>1, <1>5, <2>3, Zenon DEF r
<1>6. CASE r # c - 1
  <2>1. n + 1 = c * q + (r + 1) /\ r + 1 \in 0 .. c - 1
    BY <1>1, <1>2, <1>4, <1>6
  <2>2. (c * q + (r + 1)) % c = r + 1
    BY <1>2, <2>1, RemainderIs
  <2>3. (n + 1) % c = r + 1
    BY <2>1, <2>2
  <2> QED BY <1>1, <1>6, <2>3, Zenon DEF r
<1> QED BY <1>5, <1>6

\* Where the r-th of the recent latencies is, after n dispatches: in order
\* while the ring fills, then from the head on and around.
Slot(n, r) ==
  LET h == n % Cap IN
  IF n < Cap THEN r - 1 ELSE IF h + r - 1 < Cap THEN h + r - 1 ELSE h + r - 1 - Cap

RingInv ==
  /\ took \in Seq(Latencies)
  /\ head = Len(took)
  /\ samples \in [0 .. Cap - 1 -> Nat]
  /\ \A r \in 1 .. AtMost(head, Cap) :
       samples[Slot(head, r)] = took[head - AtMost(head, Cap) + r]

\* The recent latencies fill the used part of the ring, each a slot of its own.
LEMMA Slots ==
  ASSUME NEW n \in Nat
  PROVE  /\ AtMost(n, Cap) \in 0 .. Cap /\ AtMost(n, Cap) <= n
         /\ \A r \in 1 .. AtMost(n, Cap) : Slot(n, r) \in 0 .. AtMost(n, Cap) - 1
         /\ \A r, s \in 1 .. AtMost(n, Cap) : Slot(n, r) = Slot(n, s) => r = s
         /\ \A i \in 0 .. AtMost(n, Cap) - 1 : \E r \in 1 .. AtMost(n, Cap) : Slot(n, r) = i
<1> DEFINE h == n % Cap
           k == AtMost(n, Cap)
<1>1. h \in 0 .. Cap - 1
  BY NextRemainder
<1>2. k = IF n < Cap THEN n ELSE Cap
  BY DEF AtMost
<1>3. \A r : Slot(n, r) = IF n < Cap THEN r - 1
                          ELSE IF h + r - 1 < Cap THEN h + r - 1 ELSE h + r - 1 - Cap
  BY DEF Slot
<1> HIDE DEF h, k
<1>4. k \in 0 .. Cap /\ k <= n
  BY <1>2
<1>5. \A r \in 1 .. k : Slot(n, r) \in 0 .. k - 1
  BY <1>1, <1>2, <1>3
<1>6. \A r, s \in 1 .. k : Slot(n, r) = Slot(n, s) => r = s
  BY <1>1, <1>2, <1>3
<1>7. ASSUME NEW i \in 0 .. k - 1 PROVE \E r \in 1 .. k : Slot(n, r) = i
  <2> DEFINE r == IF n < Cap \/ h = 0 THEN i + 1 ELSE IF i >= h THEN i - h + 1 ELSE i - h + 1 + Cap
  <2>1. r \in 1 .. k /\ Slot(n, r) = i
    BY <1>1, <1>2, <1>3
  <2> QED BY <2>1
<1> QED BY <1>4, <1>5, <1>6, <1>7 DEF k

\* One more dispatch takes the oldest slot and shifts the others.
LEMMA NextSlots ==
  ASSUME NEW n \in Nat
  PROVE  /\ n % Cap \in 0 .. Cap - 1
         /\ n < Cap => /\ n % Cap = n
                       /\ AtMost(n, Cap) = n /\ AtMost(n + 1, Cap) = n + 1
                       /\ \A r \in 1 .. n + 1 : Slot(n + 1, r) = r - 1
                       /\ \A r \in 1 .. n : Slot(n, r) = r - 1
         /\ n >= Cap => /\ AtMost(n, Cap) = Cap /\ AtMost(n + 1, Cap) = Cap
                        /\ Slot(n + 1, Cap) = n % Cap
                        /\ \A r \in 1 .. Cap - 1 : /\ Slot(n + 1, r) = Slot(n, r + 1)
                                                   /\ Slot(n, r + 1) # n % Cap
<1> DEFINE h == n % Cap
           g == (n + 1) % Cap
<1>1. h \in 0 .. Cap - 1 /\ g = IF h = Cap - 1 THEN 0 ELSE h + 1
  BY NextRemainder
<1>2. /\ \A r : Slot(n, r) = IF n < Cap THEN r - 1
                             ELSE IF h + r - 1 < Cap THEN h + r - 1 ELSE h + r - 1 - Cap
      /\ \A r : Slot(n + 1, r) = IF n + 1 < Cap THEN r - 1
                                 ELSE IF g + r - 1 < Cap THEN g + r - 1 ELSE g + r - 1 - Cap
  BY DEF Slot
<1>3. n < Cap => h = n
  <2> SUFFICES ASSUME n < Cap PROVE n % Cap = n
    OBVIOUS
  <2>1. n \in 0 .. Cap - 1 /\ 0 \in Int /\ Cap * 0 + n = n
    OBVIOUS
  <2>2. (Cap * 0 + n) % Cap = n
    BY <2>1, RemainderIs
  <2> QED BY <2>1, <2>2
<1> HIDE DEF h, g
<1>4. ASSUME n < Cap
      PROVE  /\ AtMost(n, Cap) = n /\ AtMost(n + 1, Cap) = n + 1
             /\ \A r \in 1 .. n + 1 : Slot(n + 1, r) = r - 1
             /\ \A r \in 1 .. n : Slot(n, r) = r - 1
  BY <1>1, <1>2, <1>3, <1>4 DEF AtMost
<1>5. ASSUME n >= Cap
      PROVE  /\ AtMost(n, Cap) = Cap /\ AtMost(n + 1, Cap) = Cap
             /\ Slot(n + 1, Cap) = h
             /\ \A r \in 1 .. Cap - 1 : Slot(n + 1, r) = Slot(n, r + 1) /\ Slot(n, r + 1) # h
  BY <1>1, <1>2, <1>5 DEF AtMost
<1> QED BY <1>1, <1>3, <1>4, <1>5 DEF h
LEMMA RecordRing ==
  ASSUME RingInv, NEW ms \in Latencies, Record(ms), took' = Append(took, ms)
  PROVE  RingInv'
<1> DEFINE n == head
<1>1. /\ n \in Nat /\ n = Len(took) /\ took \in Seq(Latencies) /\ ms \in Nat
      /\ samples \in [0 .. Cap - 1 -> Nat]
      /\ \A r \in 1 .. AtMost(n, Cap) : samples[Slot(n, r)] = took[n - AtMost(n, Cap) + r]
  BY DEF RingInv
<1>2. /\ took' \in Seq(Latencies) /\ Len(took') = n + 1 /\ took'[n + 1] = ms
      /\ \A i \in 1 .. n : took'[i] = took[i]
  BY <1>1
<1>3. n % Cap \in 0 .. Cap - 1
  BY <1>1, NextSlots
<1>4. /\ head' = n + 1 /\ samples' \in [0 .. Cap - 1 -> Nat]
      /\ samples'[n % Cap] = ms
      /\ \A i \in 0 .. Cap - 1 : i # n % Cap => samples'[i] = samples[i]
  BY <1>1, <1>3 DEF Record
<1> DEFINE h == n % Cap
<1> HIDE DEF n
<1>5. CASE n < Cap
  <2>1. /\ h = n /\ AtMost(n, Cap) = n /\ AtMost(n + 1, Cap) = n + 1
        /\ \A r \in 1 .. n + 1 : Slot(n + 1, r) = r - 1
        /\ \A r \in 1 .. n : Slot(n, r) = r - 1
    BY <1>1, <1>5, NextSlots, Zenon
  <2> HIDE DEF h
  <2>2. ASSUME NEW r \in 1 .. n + 1 PROVE samples'[r - 1] = took'[r]
    <3>1. CASE r = n + 1
      <4>1. samples'[n] = ms /\ r - 1 = n
        BY <1>1, <1>4, <2>1, <3>1 DEF h
      <4> QED BY <1>2, <3>1, <4>1
    <3>2. CASE r # n + 1
      <4>1. r \in 1 .. n /\ r - 1 \in 0 .. Cap - 1 /\ r - 1 # n /\ n - n + r = r
        BY <1>1, <1>5, <3>2
      <4>2. samples'[r - 1] = samples[r - 1]
        BY <1>4, <2>1, <4>1 DEF h
      <4>3. samples[r - 1] = took[r]
        <5>1. samples[Slot(n, r)] = took[n - n + r]
          BY <1>1, <2>1, <4>1, Zenon
        <5>2. Slot(n, r) = r - 1
          BY <2>1, <4>1
        <5> QED BY <4>1, <5>1, <5>2, Zenon
      <4> QED BY <1>2, <4>1, <4>2, <4>3
    <3> QED BY <3>1, <3>2
  <2>3. \A r \in 1 .. n + 1 : (n + 1) - (n + 1) + r = r
    BY <1>1
  <2>4. \A r \in 1 .. AtMost(n + 1, Cap) :
          samples'[Slot(n + 1, r)] = took'[(n + 1) - AtMost(n + 1, Cap) + r]
    <3> SUFFICES ASSUME NEW r \in 1 .. n + 1
                 PROVE  samples'[Slot(n + 1, r)] = took'[(n + 1) - (n + 1) + r]
      BY <2>1, Zenon
    <3>1. Slot(n + 1, r) = r - 1 /\ (n + 1) - (n + 1) + r = r
      BY <2>1, <2>3
    <3> QED BY <2>2, <3>1, Zenon
  <2> QED BY <1>2, <1>4, <2>4 DEF RingInv
<1>6. CASE n >= Cap
  <2>1. /\ AtMost(n, Cap) = Cap /\ AtMost(n + 1, Cap) = Cap
        /\ Slot(n + 1, Cap) = h
        /\ \A r \in 1 .. Cap - 1 : Slot(n + 1, r) = Slot(n, r + 1) /\ Slot(n, r + 1) # h
    BY <1>1, <1>6, NextSlots, Zenon
  <2>2. \A r \in 1 .. Cap : Slot(n, r) \in 0 .. Cap - 1
    BY <1>1, <2>1, Slots
  <2> HIDE DEF h
  <2>3. ASSUME NEW r \in 1 .. Cap PROVE samples'[Slot(n + 1, r)] = took'[(n + 1) - Cap + r]
    <3>1. CASE r = Cap
      <4>1. (n + 1) - Cap + r = n + 1
        BY <1>1, <3>1
      <4>2. samples'[h] = ms
        BY <1>4 DEF h
      <4> QED BY <1>2, <2>1, <3>1, <4>1, <4>2
    <3>2. CASE r # Cap
      <4>1. /\ r \in 1 .. Cap - 1 /\ r + 1 \in 1 .. Cap
            /\ (n + 1) - Cap + r = n - Cap + (r + 1)
            /\ n - Cap + (r + 1) \in 1 .. n
        BY <1>1, <1>6, <3>2
      <4>2. Slot(n + 1, r) = Slot(n, r + 1) /\ Slot(n, r + 1) # h /\ Slot(n, r + 1) \in 0 .. Cap - 1
        BY <2>1, <2>2, <4>1
      <4>3. samples'[Slot(n, r + 1)] = samples[Slot(n, r + 1)]
        BY <1>4, <4>2 DEF h
      <4>4. samples[Slot(n, r + 1)] = took[n - Cap + (r + 1)]
        BY <1>1, <2>1, <4>1
      <4>5. took'[n - Cap + (r + 1)] = took[n - Cap + (r + 1)]
        BY <1>2, <4>1
      <4> QED BY <4>1, <4>2, <4>3, <4>4, <4>5
    <3> QED BY <3>1, <3>2
  <2> QED BY <1>2, <1>4, <2>1, <2>3 DEF RingInv
<1> QED BY <1>1, <1>5, <1>6

\* The ring holds the most recent latencies, each in one slot: what P99 copies
\* and sorts is a rearrangement of the last Cap dispatches.
RingIsRecent ==
  /\ Len(Filled) = Len(Recent)
  /\ \E f \in Bijection(1 .. Len(Recent), 1 .. Len(Filled)) :
       \A r \in 1 .. Len(Recent) : Recent[r] = Filled[f[r]]

LEMMA RecentShape ==
  ASSUME RingInv
  PROVE  LET k == AtMost(head, Cap)
         IN  /\ k \in Nat /\ Filled \in [1 .. k -> Nat] /\ Recent \in [1 .. k -> Nat]
             /\ \A r \in 1 .. k : Recent[r] = took[head - k + r]
<1> DEFINE n == head
           k == AtMost(n, Cap)
<1>1. /\ n \in Nat /\ n = Len(took) /\ took \in Seq(Latencies)
      /\ samples \in [0 .. Cap - 1 -> Nat]
  BY DEF RingInv
<1>2. k \in 0 .. Cap /\ k <= n
  BY <1>1, Slots
<1>3. Filled = [i \in 1 .. k |-> samples[i - 1]]
  BY DEF Filled
<1>4. Recent = SubSeq(took, n - k + 1, n)
  BY <1>1 DEF Recent
<1> HIDE DEF n, k
<1>5. Filled \in [1 .. k -> Nat]
  BY <1>1, <1>2, <1>3
<1>6. n - k + 1 \in Int /\ n \in Int /\ n - (n - k + 1) + 1 = k
      /\ \A i \in n - k + 1 .. n : took[i] \in Latencies
  BY <1>1, <1>2
<1>7. /\ SubSeq(took, n - k + 1, n) \in Seq(Latencies)
      /\ Len(SubSeq(took, n - k + 1, n)) = IF n - k + 1 <= n THEN n - (n - k + 1) + 1 ELSE 0
      /\ \A i \in 1 .. n - (n - k + 1) + 1 :
           SubSeq(took, n - k + 1, n)[i] = took[(n - k + 1) + i - 1]
  BY <1>6, SubSeqProperties
<1>8. (IF n - k + 1 <= n THEN n - (n - k + 1) + 1 ELSE 0) = k
      /\ \A i \in 1 .. k : (n - k + 1) + i - 1 = n - k + i
  BY <1>1, <1>2
<1>9. Recent \in Seq(Latencies) /\ Len(Recent) = k /\ \A r \in 1 .. k : Recent[r] = took[n - k + r]
  BY <1>4, <1>6, <1>7, <1>8
<1>10. Recent \in [1 .. k -> Nat] /\ k \in Nat
  <2> HIDE DEF Recent
  <2>1. Recent \in [1 .. k -> Latencies]
    BY <1>9, LenProperties
  <2>2. Latencies \subseteq Nat
    OBVIOUS
  <2>3. Recent \in [1 .. k -> Nat]
    BY <2>1, <2>2
  <2>4. k \in Nat
    BY <1>2
  <2> QED BY <2>3, <2>4
<1> QED BY <1>5, <1>9, <1>10 DEF n, k

LEMMA RingShows == RingInv => RingIsRecent
<1> SUFFICES ASSUME RingInv PROVE RingIsRecent
  OBVIOUS
<1> DEFINE n == head
           k == AtMost(n, Cap)
           f == [r \in 1 .. k |-> Slot(n, r) + 1]
<1>1. /\ n \in Nat /\ n = Len(took) /\ took \in Seq(Latencies)
      /\ \A r \in 1 .. k : samples[Slot(n, r)] = took[n - k + r]
  BY DEF RingInv
<1>2. /\ k \in 0 .. Cap /\ k <= n
      /\ \A r \in 1 .. k : Slot(n, r) \in 0 .. k - 1
      /\ \A r, s \in 1 .. k : Slot(n, r) = Slot(n, s) => r = s
      /\ \A i \in 0 .. k - 1 : \E r \in 1 .. k : Slot(n, r) = i
  BY <1>1, Slots
<1>3. Filled = [i \in 1 .. k |-> samples[i - 1]]
  BY DEF Filled
<1> HIDE DEF n, k
<1>5. Len(Filled) = k /\ \A i \in 1 .. k : Filled[i] = samples[i - 1]
  BY <1>2, <1>3
<1>6. Len(Recent) = k /\ \A r \in 1 .. k : Recent[r] = took[n - k + r]
  BY RecentShape DEF n, k
<1>7. f \in Bijection(1 .. k, 1 .. k)
  <2>1. f \in [1 .. k -> 1 .. k]
    BY <1>2
  <2>2. \A r, s \in 1 .. k : f[r] = f[s] => r = s
    BY <1>2
  <2>3. ASSUME NEW i \in 1 .. k PROVE \E r \in 1 .. k : f[r] = i
    <3>1. i - 1 \in 0 .. k - 1 /\ (i - 1) + 1 = i
      BY <1>2
    <3>2. PICK r \in 1 .. k : Slot(n, r) = i - 1
      BY <1>2, <3>1
    <3> QED BY <3>1, <3>2
  <2> QED BY <2>1, <2>2, <2>3 DEF Bijection, Injection, Surjection, IsInjective
<1>8. ASSUME NEW r \in 1 .. k PROVE Recent[r] = Filled[f[r]]
  <2>1. f[r] \in 1 .. k /\ f[r] - 1 = Slot(n, r)
    BY <1>2
  <2> HIDE DEF f
  <2>2. Filled[f[r]] = samples[f[r] - 1]
    BY <1>5, <2>1
  <2>3. samples[Slot(n, r)] = took[n - k + r]
    BY <1>1, Zenon
  <2>4. Recent[r] = took[n - k + r]
    BY <1>6, Zenon
  <2> QED BY <2>1, <2>2, <2>3, <2>4, Zenon
<1> HIDE DEF f
<1> QED BY <1>5, <1>6, <1>7, <1>8 DEF RingIsRecent

LEMMA RingAlways == Spec => []RingInv
<1>1. Init => RingInv
  <2> SUFFICES ASSUME Init PROVE RingInv
    OBVIOUS
  <2>1. took = <<>> /\ head = 0 /\ samples = [i \in 0 .. Cap - 1 |-> 0]
    BY DEF Init
  <2>2. AtMost(0, Cap) = 0
    BY DEF AtMost
  <2>3. Len(took) = 0 /\ took \in Seq(Latencies) /\ 1 .. AtMost(head, Cap) = {}
    BY <2>1, <2>2
  <2> QED BY <2>1, <2>3 DEF RingInv
<1>2. RingInv /\ [Next]_vars => RingInv'
  <2> SUFFICES ASSUME RingInv, [Next]_vars PROVE RingInv'
    OBVIOUS
  <2>1. CASE UNCHANGED <<samples, head, took>>
    BY <2>1 DEF RingInv
  <2>2. ASSUME NEW ms \in Latencies, WakeUp(ms), ~UNCHANGED <<samples, head, took>>
        PROVE  RingInv'
    BY <2>2, RecordRing DEF WakeUp
  <2> QED BY <2>1, <2>2 DEF Next, Arrive, Sleep, vars
<1> QED BY <1>1, <1>2, PTL DEF Spec

\* latencyHist.Record keeps the latest latencies whatever the ring's length:
\* before it is full, when it wraps and after.
THEOREM RingHoldsRecent == Spec => []RingIsRecent
BY RingAlways, RingShows, PTL
-----------------------------------------------------------------------------
(* The percentile.                                                          *)

\* The elements of s that the sort puts at or before the place of element i.
Below(s, i) == {j \in DOMAIN s : s[j] < s[i] \/ (s[j] = s[i] /\ j <= i)}

\* An element that goes ahead of another gets a smaller place.
LEMMA PlacesInOrder ==
  ASSUME NEW n \in Nat, NEW s \in [1 .. n -> Nat], NEW a \in 1 .. n, NEW b \in 1 .. n,
         s[a] < s[b] \/ (s[a] = s[b] /\ a < b)
  PROVE  Place(s, a) < Place(s, b)
<1>1. DOMAIN s = 1 .. n /\ \A j \in 1 .. n : s[j] \in Nat
  OBVIOUS
<1>2. Below(s, a) \in SUBSET Below(s, b) /\ Below(s, b) \in SUBSET (1 .. n)
  BY <1>1 DEF Below
<1>3. b \in Below(s, b) /\ b \notin Below(s, a)
  BY <1>1 DEF Below
<1>4. IsFiniteSet(Below(s, b)) /\ IsFiniteSet(Below(s, a))
  <2>1. IsFiniteSet(1 .. n)
    BY FS_Interval
  <2>2. IsFiniteSet(Below(s, b))
    BY <1>2, <2>1, FS_Subset
  <2> QED BY <1>2, <2>2, FS_Subset
<1>5. /\ Cardinality(Below(s, a)) <= Cardinality(Below(s, b))
      /\ Cardinality(Below(s, b)) # Cardinality(Below(s, a))
      /\ Cardinality(Below(s, a)) \in Nat /\ Cardinality(Below(s, b)) \in Nat
  BY <1>2, <1>3, <1>4, FS_Subset, FS_CardinalityType
<1>6. Place(s, a) = Cardinality(Below(s, a)) /\ Place(s, b) = Cardinality(Below(s, b))
  BY Zenon DEF Place, Below
<1> HIDE DEF Place
<1> QED BY <1>5, <1>6

\* Every place is taken: the sort rearranges and loses nothing.
LEMMA PlacesAreTaken ==
  ASSUME NEW n \in Nat, NEW s \in [1 .. n -> Nat], NEW k \in 1 .. n
  PROVE  \E i \in 1 .. n : Place(s, i) = k
<1> DEFINE f == [i \in 1 .. n |-> Place(s, i)]
<1>1. IsFiniteSet(1 .. n) /\ Cardinality(1 .. n) = n
  BY FS_Interval
<1>2. ASSUME NEW i \in 1 .. n PROVE Place(s, i) \in 1 .. n
  <2>1. Below(s, i) \in SUBSET (1 .. n) /\ i \in Below(s, i)
    BY DEF Below
  <2>2. IsFiniteSet(Below(s, i)) /\ Cardinality(Below(s, i)) <= n
    BY <1>1, <2>1, FS_Subset
  <2>3. Cardinality(Below(s, i)) \in Nat /\ Cardinality(Below(s, i)) # 0
    BY <2>1, <2>2, FS_CardinalityType, FS_EmptySet
  <2>4. Place(s, i) = Cardinality(Below(s, i))
    BY DEF Place, Below
  <2> QED BY <2>2, <2>3, <2>4
<1>3. ASSUME NEW a \in 1 .. n, NEW b \in 1 .. n, Place(s, a) = Place(s, b) PROVE a = b
  <2> SUFFICES ASSUME a # b PROVE FALSE
    OBVIOUS
  <2>1. \/ s[a] < s[b] \/ (s[a] = s[b] /\ a < b)
        \/ s[b] < s[a] \/ (s[b] = s[a] /\ b < a)
    OBVIOUS
  <2>2. Place(s, a) < Place(s, b) \/ Place(s, b) < Place(s, a)
    BY <2>1, PlacesInOrder
  <2>3. Place(s, a) \in 1 .. n /\ Place(s, b) \in 1 .. n
    BY <1>2, Zenon
  <2> HIDE DEF Place
  <2> QED BY <1>3, <2>2, <2>3
<1>4. f \in Injection(1 .. n, 1 .. n)
  BY <1>2, <1>3, Zenon DEF Injection, IsInjective
<1>5. f \in Surjection(1 .. n, 1 .. n)
  BY <1>1, <1>4, FS_Injection
<1> QED BY <1>5 DEF Surjection

\* The element the sort puts at place k.
PlacedAt(s, n, k) == \E a \in 1 .. n : Place(s, a) = k /\ Sorted(s)[k] = s[a]

LEMMA SortedAt ==
  ASSUME NEW n \in Nat, NEW s \in [1 .. n -> Nat], NEW k \in 1 .. n
  PROVE  PlacedAt(s, n, k)
<1> DEFINE a == CHOOSE i \in 1 .. n : Place(s, i) = k
<1>1. a \in 1 .. n /\ Place(s, a) = k
  <2>1. \E i \in 1 .. n : Place(s, i) = k
    BY PlacesAreTaken
  <2> QED BY <2>1, Zenon
<1>2. Sorted(s)[k] = s[a]
  <2>1. DOMAIN s = 1 .. n
    OBVIOUS
  <2> QED BY <2>1 DEF Sorted
<1> QED BY <1>1, <1>2 DEF PlacedAt

\* ceil(n * Percentile / 100) is a place in the sequence.
LEMMA RankBounds ==
  ASSUME NEW n \in Nat \ {0}
  PROVE  /\ Rank(n) \in 1 .. n
         /\ Percentile * n \in Nat
         /\ 100 * Rank(n) >= Percentile * n
         /\ 100 * (Rank(n) - 1) < Percentile * n
<1> DEFINE x == n * Percentile
<1>1. x \in Nat /\ 1 <= x /\ x <= 100 * n /\ Percentile * n = x
  <2>1. \A p \in 1 .. 100 : n * p \in Nat /\ 1 <= n * p /\ n * p <= 100 * n /\ p * n = n * p
    OBVIOUS
  <2> QED BY <2>1
<1>2. Rank(n) = (x + 99) \div 100
  BY DEF Rank
<1> HIDE DEF x
<1> QED BY <1>1, <1>2
\* The elements of s that x is not exceeded by, and IsPercentile with them.
UpTo(s, x)   == {i \in DOMAIN s : s[i] <= x}
Covers(s, x) == 100 * Cardinality(UpTo(s, x)) >= Percentile * Len(s)

LEMMA PercentileMeans ==
  ASSUME NEW v, NEW s
  PROVE  IsPercentile(v, s) <=> /\ v \in Range(s) /\ Covers(s, v)
                                /\ \A x \in Range(s) : Covers(s, x) => v <= x
BY Zenon DEF IsPercentile, Covers, UpTo

LEMMA SeqShape ==
  ASSUME NEW n \in Nat, NEW s \in [1 .. n -> Nat]
  PROVE  /\ Len(s) = n /\ DOMAIN s = 1 .. n
         /\ \A x : x \in Range(s) <=> \E i \in 1 .. n : s[i] = x
         /\ \A x : /\ UpTo(s, x) \in SUBSET (1 .. n)
                   /\ IsFiniteSet(UpTo(s, x)) /\ Cardinality(UpTo(s, x)) \in Nat
<1>1. Len(s) = n /\ DOMAIN s = 1 .. n
  OBVIOUS
<1>2. \A x : x \in Range(s) <=> \E i \in 1 .. n : s[i] = x
  BY <1>1, Zenon DEF Range
<1>3. \A x : UpTo(s, x) \in SUBSET (1 .. n)
  BY <1>1 DEF UpTo
<1>4. IsFiniteSet(1 .. n)
  BY FS_Interval
<1>5. \A x : IsFiniteSet(UpTo(s, x))
  BY <1>3, <1>4, FS_Subset
<1> QED BY <1>1, <1>2, <1>3, <1>5, FS_CardinalityType

\* The element at the rank of the percentile, after the sort, is the
\* percentile: enough elements do not exceed it, and too few stay below it.
LEMMA SortedIsPercentile ==
  ASSUME NEW n \in Nat \ {0}, NEW s \in [1 .. n -> Nat]
  PROVE  IsPercentile(Sorted(s)[Rank(n)], s)
<1> DEFINE k == Rank(n)
           y == Percentile * n
           c(x) == Cardinality(UpTo(s, x))
<1>1. k \in 1 .. n /\ y \in Nat /\ 100 * k >= y /\ 100 * (k - 1) < y
  BY RankBounds
<1>2. PICK a \in 1 .. n : Place(s, a) = k /\ Sorted(s)[k] = s[a]
  <2> HIDE DEF k
  <2> HIDE DEF y, c
  <2>1. k \in 1 .. n /\ n \in Nat
    BY <1>1
  <2>2. PlacedAt(s, n, k)
    BY <2>1, SortedAt
  <2> QED BY <2>2 DEF PlacedAt
<1>3. /\ Len(s) = n /\ DOMAIN s = 1 .. n
      /\ \A x : x \in Range(s) <=> \E i \in 1 .. n : s[i] = x
      /\ \A x : IsFiniteSet(UpTo(s, x)) /\ c(x) \in Nat
  BY SeqShape
<1>4. /\ Cardinality(Below(s, a)) = k /\ a \in Below(s, a)
      /\ Below(s, a) \in SUBSET UpTo(s, s[a])
  <2>1. Cardinality(Below(s, a)) = k
    BY <1>2, Zenon DEF Place, Below
  <2>2. \A j \in 1 .. n : s[j] \in Nat
    OBVIOUS
  <2>3. a \in Below(s, a) /\ Below(s, a) \in SUBSET UpTo(s, s[a])
    BY <1>3, <2>2 DEF Below, UpTo
  <2> QED BY <2>1, <2>3
<1>5. c(s[a]) >= k
  BY <1>3, <1>4, FS_Subset
<1>6. ASSUME NEW x \in Nat, x < s[a] PROVE c(x) <= k - 1
  <2>1. UpTo(s, x) \in SUBSET (Below(s, a) \ {a})
    BY <1>3, <1>6 DEF UpTo, Below
  <2>2. IsFiniteSet(Below(s, a))
    BY <1>3, <1>4, FS_Subset
  <2>3. IsFiniteSet(Below(s, a) \ {a}) /\ Cardinality(Below(s, a) \ {a}) = k - 1
    BY <1>4, <2>2, FS_RemoveElement
  <2> QED BY <2>1, <2>3, FS_Subset
<1>7. Covers(s, s[a])
  <2>1. c(s[a]) \in Nat
    BY <1>3
  <2> DEFINE d == c(s[a])
  <2> HIDE DEF d, k, y
  <2>2. d \in Nat /\ d >= k
    BY <1>5, <2>1 DEF d
  <2>3. 100 * d >= y
    BY <1>1, <2>2
  <2> QED BY <1>3, <2>3 DEF Covers, d, y
<1>8. ASSUME NEW x \in Range(s), Covers(s, x) PROVE s[a] <= x
  <2>1. x \in Nat /\ s[a] \in Nat
    BY <1>3
  <2> SUFFICES ASSUME x < s[a] PROVE FALSE
    BY <2>1
  <2> DEFINE d == c(x)
  <2>2. d \in Nat /\ d <= k - 1 /\ 100 * d >= y
    BY <1>3, <1>6, <1>8, <2>1 DEF Covers
  <2> HIDE DEF d, k, y
  <2> QED BY <1>1, <2>2
<1>9. s[a] \in Range(s)
  BY <1>3
<1> QED BY <1>2, <1>7, <1>8, <1>9, PercentileMeans

\* A percentile does not depend on the order of the elements.
LEMMA PercentileCarries ==
  ASSUME NEW n \in Nat, NEW s \in [1 .. n -> Nat], NEW t \in [1 .. n -> Nat],
         NEW f \in Bijection(1 .. n, 1 .. n), \A r \in 1 .. n : t[r] = s[f[r]],
         NEW v, IsPercentile(v, s)
  PROVE  IsPercentile(v, t)
<1>1. /\ f \in [1 .. n -> 1 .. n]
      /\ \A r, q \in 1 .. n : f[r] = f[q] => r = q
      /\ \A i \in 1 .. n : \E r \in 1 .. n : f[r] = i
  BY DEF Bijection, Injection, Surjection, IsInjective
<1>2. /\ DOMAIN s = 1 .. n /\ Len(s) = n
      /\ DOMAIN t = 1 .. n /\ Len(t) = n
      /\ \A x : IsFiniteSet(UpTo(t, x))
      /\ \A x : x \in Range(s) <=> \E i \in 1 .. n : s[i] = x
      /\ \A x : x \in Range(t) <=> \E i \in 1 .. n : t[i] = x
  BY SeqShape
<1>3. \A x : x \in Range(t) <=> x \in Range(s)
  BY <1>1, <1>2
<1>4. ASSUME NEW x PROVE Cardinality(UpTo(s, x)) = Cardinality(UpTo(t, x))
  <2> DEFINE g == [r \in UpTo(t, x) |-> f[r]]
  <2>1. \A r \in 1 .. n : r \in UpTo(t, x) <=> f[r] \in UpTo(s, x)
    <3> SUFFICES ASSUME NEW r \in 1 .. n PROVE r \in UpTo(t, x) <=> f[r] \in UpTo(s, x)
      OBVIOUS
    <3>1. f[r] \in 1 .. n /\ t[r] = s[f[r]]
      BY <1>1
    <3>2. /\ \A i : i \in UpTo(t, x) <=> i \in 1 .. n /\ t[i] <= x
          /\ \A i : i \in UpTo(s, x) <=> i \in 1 .. n /\ s[i] <= x
      BY <1>2, Zenon DEF UpTo
    <3> QED BY <3>1, <3>2, Zenon
  <2>2. UpTo(t, x) \subseteq 1 .. n /\ UpTo(s, x) \subseteq 1 .. n
    BY <1>2 DEF UpTo
  <2>3. g \in [UpTo(t, x) -> UpTo(s, x)] /\ \A r, q \in UpTo(t, x) : g[r] = g[q] => r = q
    BY <1>1, <2>1, <2>2
  <2>4. \A i \in UpTo(s, x) : \E r \in UpTo(t, x) : g[r] = i
    BY <1>1, <2>1, <2>2
  <2>5. g \in Bijection(UpTo(t, x), UpTo(s, x))
    BY <2>3, <2>4 DEF Bijection, Injection, Surjection, IsInjective
  <2>6. ExistsBijection(UpTo(t, x), UpTo(s, x))
    BY <2>5 DEF ExistsBijection
  <2> QED BY <1>2, <2>6, FS_Bijection
<1>5. \A x : Covers(s, x) <=> Covers(t, x)
  BY <1>2, <1>4, Zenon DEF Covers
<1> QED BY <1>3, <1>5, PercentileMeans, Zenon

\* There is only one.
LEMMA PercentileIsUnique ==
  ASSUME NEW n \in Nat, NEW s \in [1 .. n -> Nat],
         NEW v, IsPercentile(v, s), NEW w, IsPercentile(w, s)
  PROVE  v = w
<1>1. v \in Range(s) /\ w \in Range(s) /\ v <= w /\ w <= v
  BY PercentileMeans, Zenon
<1>2. \A x : x \in Range(s) <=> \E i \in 1 .. n : s[i] = x
  BY SeqShape
<1>3. v \in Nat /\ w \in Nat
  BY <1>1, <1>2
<1> QED BY <1>1, <1>3

\* P99 is the nearest-rank percentile of the most recent dispatches, for any
\* length of the ring and any percentile: before the ring is full, when it
\* wraps and after (latencyHist.P99).
THEOREM P99Correct == Spec => []P99IsRecent
<1>1. RingInv => P99IsRecent
  <2> SUFFICES ASSUME RingInv PROVE P99IsRecent
    OBVIOUS
  <2> DEFINE n == AtMost(head, Cap)
  <2>1. head \in Nat /\ head = Len(took) /\ took \in Seq(Latencies)
    BY DEF RingInv
  <2>2. took = <<>> <=> head = 0
    BY <2>1
  <2>3. n \in Nat /\ (n = 0 <=> head = 0)
    BY <2>1 DEF AtMost
  <2>4. CASE head = 0
    <3>1. P99 = 0
      BY <2>3, <2>4 DEF P99
    <3> QED BY <2>2, <2>4, <3>1 DEF P99IsRecent
  <2>5. CASE head # 0
    <3>1. n \in Nat \ {0} /\ Filled \in [1 .. n -> Nat] /\ Recent \in [1 .. n -> Nat]
      BY <2>3, <2>5, RecentShape
    <3>2. IsPercentile(P99, Filled)
      <4>1. P99 = Sorted(Filled)[Rank(n)]
        BY <3>1 DEF P99
      <4> HIDE DEF n
      <4> QED BY <3>1, <4>1, SortedIsPercentile
    <3>3. PICK f \in Bijection(1 .. n, 1 .. n) : \A r \in 1 .. n : Recent[r] = Filled[f[r]]
      <4>1. Len(Filled) = n /\ Len(Recent) = n
        BY <3>1, SeqShape
      <4> QED BY <4>1, RingShows DEF RingIsRecent
    <3>4. IsPercentile(P99, Recent)
      <4> HIDE DEF n
      <4>1. n \in Nat /\ Filled \in [1 .. n -> Nat] /\ Recent \in [1 .. n -> Nat]
        BY <3>1
      <4>2. \A s, t \in [1 .. n -> Nat] : \A g \in Bijection(1 .. n, 1 .. n) :
              (\A r \in 1 .. n : t[r] = s[g[r]])
                => \A v : IsPercentile(v, s) => IsPercentile(v, t)
        BY <4>1, PercentileCarries
      <4> QED BY <4>1, <4>2, <3>2, <3>3, Zenon
    <3> QED BY <2>2, <2>5, <3>4 DEF P99IsRecent
  <2> QED BY <2>4, <2>5
<1> QED BY <1>1, RingAlways, PTL

\* The window shrinks as the queue grows, and is the shortest at any depth when
\* the recent percentile is beyond 1.5 times the target (adaptiveWait).
THEOREM WindowAdapts == Spec => []WindowShrinksWithLoad
<1>1. RingInv /\ P99IsRecent => WindowShrinksWithLoad
  <2> SUFFICES ASSUME RingInv, P99IsRecent PROVE WindowShrinksWithLoad
    OBVIOUS
  <2>1. MaxWaitMs \div 2 \in Nat /\ MinWaitMs <= MaxWaitMs \div 2 /\ MaxWaitMs \div 2 <= MaxWaitMs
    OBVIOUS
  <2>2. ASSUME NEW d \in 0 .. MaxDepth, NEW e \in 0 .. MaxDepth, d <= e
        PROVE  AdaptiveWait(e, P99) <= AdaptiveWait(d, P99)
    <3> DEFINE slow == 2 * P99 > 3 * P99SLOMs
               half == MaxWaitMs \div 2
               w(x) == IF x > Crowded \/ slow THEN MinWaitMs ELSE IF x > Busy THEN half ELSE MaxWaitMs
    <3>1. AdaptiveWait(e, P99) = w(e) /\ AdaptiveWait(d, P99) = w(d)
      BY DEF AdaptiveWait
    <3> HIDE DEF slow, half
    <3>2. w(e) <= w(d)
      BY <2>1, <2>2 DEF half
    <3> HIDE DEF w
    <3> QED BY <3>1, <3>2
  <2>3. ASSUME NEW v \in Range(Recent), IsPercentile(v, Recent), 2 * v > 3 * P99SLOMs
        PROVE  \A d \in 0 .. MaxDepth : AdaptiveWait(d, P99) = MinWaitMs
    <3>1. P99 = v
      <4> DEFINE n == AtMost(head, Cap)
      <4>1. n \in Nat /\ Recent \in [1 .. n -> Nat]
        BY RecentShape
      <4>2. took # <<>>
        <5>1. \E r \in 1 .. n : Recent[r] = v
          <6> HIDE DEF n
          <6>1. \A x : x \in Range(Recent) <=> \E i \in 1 .. n : Recent[i] = x
            BY <4>1, SeqShape
          <6> QED BY <2>3, <6>1
        <5>2. ASSUME took = <<>> PROVE FALSE
          <6>1. head = 0 /\ n = 0
            BY <5>2 DEF RingInv, AtMost
          <6> QED BY <5>1, <6>1
        <5> QED BY <5>2
      <4>3. IsPercentile(P99, Recent)
        BY <4>2 DEF P99IsRecent
      <4> HIDE DEF n
      <4> QED BY <2>3, <4>1, <4>3, PercentileIsUnique
    <3> QED BY <2>3, <3>1 DEF AdaptiveWait
  <2> QED BY <2>2, <2>3 DEF WindowShrinksWithLoad
<1> QED BY <1>1, RingAlways, P99Correct, PTL
-----------------------------------------------------------------------------
(* The loop of Drain.  Induction on the number of its iterations is done by *)
(* the least counterexample.                                                *)

HIDE WindowAssumption

\* A set of naturals that is not empty has a least element.
LEMMA Least ==
  ASSUME NEW T \in SUBSET Nat, T # {}
  PROVE  \E x \in T : \A y \in T : x <= y
<1> DEFINE R == OpToRel(<, Nat)
<1>1. IsWellFoundedOn(R, Nat)
  BY NatLessThanWellFounded
<1>2. \A x, y \in Nat : <<y, x>> \in R <=> y < x
  BY DEF OpToRel
<1> HIDE DEF R
<1>3. PICK x \in T : \A y \in T : ~(<<y, x>> \in R)
  BY <1>1, WFMin
<1>4. ASSUME NEW y \in T PROVE x <= y
  <2>1. x \in Nat /\ y \in Nat
    OBVIOUS
  <2>2. ~(y < x)
    BY <1>2, <1>3, <2>1
  <2> QED BY <2>1, <2>2
<1> QED BY <1>4

\* One more iteration takes nothing, when there is nothing left, or one item
\* more from the first lane that still has one.
Exhausted(q, n) == \A l \in LaneNames : Taken(q, n, l) = Len(q[l])

ServedNext(q, n, x) ==
  /\ Taken(q, n, x) < Len(q[x])
  /\ x = "high"   => Taken(q, n, "normal") = 0 /\ Taken(q, n, "low") = 0
  /\ x = "normal" => Taken(q, n, "high") = Len(q["high"]) /\ Taken(q, n, "low") = 0
  /\ x = "low"    => Taken(q, n, "high") = Len(q["high"]) /\ Taken(q, n, "normal") = Len(q["normal"])

LEMMA NextTaken ==
  ASSUME NEW S, NEW q \in Queues(S), NEW n \in Nat
  PROVE  \/ Exhausted(q, n) /\ \A l \in LaneNames : Taken(q, n + 1, l) = Taken(q, n, l)
         \/ \E x \in LaneNames :
              /\ ServedNext(q, n, x)
              /\ \A l \in LaneNames :
                   Taken(q, n + 1, l) = IF l = x THEN Taken(q, n, l) + 1 ELSE Taken(q, n, l)
<1> DEFINE h == Len(q["high"])
           m == Len(q["normal"])
           w == Len(q["low"])
           a(k) == AtMost(k, h)
           b(k) == AtMost(k - a(k), m)
           c(k) == AtMost(k - a(k) - b(k), w)
<1>1. h \in Nat /\ m \in Nat /\ w \in Nat
  BY QueueShape DEF LaneNames
<1>2. \A k : /\ Taken(q, k, "high") = a(k)
             /\ Taken(q, k, "normal") = b(k)
             /\ Taken(q, k, "low") = c(k)
  BY DEF Taken
<1> HIDE DEF h, m, w
<1>3. \/ n < h /\ a(n) = n /\ b(n) = 0 /\ c(n) = 0
         /\ a(n + 1) = n + 1 /\ b(n + 1) = 0 /\ c(n + 1) = 0
      \/ h <= n /\ n - h < m /\ a(n) = h /\ b(n) = n - h /\ c(n) = 0
         /\ a(n + 1) = h /\ b(n + 1) = n - h + 1 /\ c(n + 1) = 0
      \/ h + m <= n /\ n - h - m < w /\ a(n) = h /\ b(n) = m /\ c(n) = n - h - m
         /\ a(n + 1) = h /\ b(n + 1) = m /\ c(n + 1) = n - h - m + 1
      \/ h + m + w <= n /\ a(n) = h /\ b(n) = m /\ c(n) = w
         /\ a(n + 1) = h /\ b(n + 1) = m /\ c(n + 1) = w
  BY <1>1 DEF AtMost
<1> HIDE DEF a, b, c
<1>4. /\ Taken(q, n, "high") = a(n) /\ Taken(q, n, "normal") = b(n) /\ Taken(q, n, "low") = c(n)
      /\ Taken(q, n + 1, "high") = a(n + 1) /\ Taken(q, n + 1, "normal") = b(n + 1)
      /\ Taken(q, n + 1, "low") = c(n + 1)
  BY <1>2
<1> DEFINE next(x) ==
             /\ ServedNext(q, n, x)
             /\ \A l \in LaneNames :
                  Taken(q, n + 1, l) = IF l = x THEN Taken(q, n, l) + 1 ELSE Taken(q, n, l)
<1>5. CASE n < h /\ a(n) = n /\ b(n) = 0 /\ c(n) = 0
           /\ a(n + 1) = n + 1 /\ b(n + 1) = 0 /\ c(n + 1) = 0
  <2>1. next("high")
    BY <1>1, <1>4, <1>5 DEF ServedNext, LaneNames, h
  <2> QED BY <2>1 DEF LaneNames
<1>6. CASE h <= n /\ n - h < m /\ a(n) = h /\ b(n) = n - h /\ c(n) = 0
           /\ a(n + 1) = h /\ b(n + 1) = n - h + 1 /\ c(n + 1) = 0
  <2>1. next("normal")
    BY <1>1, <1>4, <1>6 DEF ServedNext, LaneNames, h, m
  <2> QED BY <2>1 DEF LaneNames
<1>7. CASE h + m <= n /\ n - h - m < w /\ a(n) = h /\ b(n) = m /\ c(n) = n - h - m
           /\ a(n + 1) = h /\ b(n + 1) = m /\ c(n + 1) = n - h - m + 1
  <2>1. next("low")
    BY <1>1, <1>4, <1>7 DEF ServedNext, LaneNames, h, m, w
  <2> QED BY <2>1 DEF LaneNames
<1>8. CASE h + m + w <= n /\ a(n) = h /\ b(n) = m /\ c(n) = w
           /\ a(n + 1) = h /\ b(n + 1) = m /\ c(n + 1) = w
  <2>1. Exhausted(q, n) /\ \A l \in LaneNames : Taken(q, n + 1, l) = Taken(q, n, l)
    BY <1>4, <1>8 DEF Exhausted, LaneNames, h, m, w
  <2> QED BY <2>1
<1> QED BY <1>3, <1>5, <1>6, <1>7, <1>8

\* The lane an iteration serves, and the iteration.
Serves(s, l) ==
  /\ s[l] # <<>>
  /\ l = "normal" => s["high"] = <<>>
  /\ l = "low"    => s["high"] = <<>> /\ s["normal"] = <<>>

Iterate(s) ==
  IF Waiting(s.q) = {} THEN s
  ELSE LET l == CHOOSE k \in LaneNames : Serves(s.q, k) IN
       [out |-> Append(s.out, Head(s.q[l])), q |-> [s.q EXCEPT ![l] = Tail(@)]]

\* The state of the loop after n iterations, in closed form.
After(q, n) == [out |-> Drained(q, n), q |-> Rest(q, n)]

\* With an item left in lane l, the next one that is taken is the head of
\* what is left, and joins the end of what was taken.
OneFurther(S, q, n, l) ==
  LET t == Taken(q, n, l)
  IN  /\ Head(Rest(q, n)[l]) = q[l][t + 1]
      /\ Tail(Rest(q, n)[l]) = SubSeq(q[l], t + 2, Len(q[l]))
      /\ SubSeq(q[l], 1, t + 1) = Append(SubSeq(q[l], 1, t), q[l][t + 1])
      /\ q[l][t + 1] \in S

\* What is taken of a lane and what is left of it.
LEMMA RestOfLane ==
  ASSUME NEW S, NEW q \in Queues(S), NEW n \in Nat, NEW l \in LaneNames
  PROVE  LET t == Taken(q, n, l)
             k == Len(q[l])
         IN  /\ t \in 0 .. k /\ k \in Nat /\ q[l] \in Seq(S)
             /\ Rest(q, n)[l] = SubSeq(q[l], t + 1, k)
             /\ Rest(q, n)[l] = <<>> <=> t = k
             /\ t < k => OneFurther(S, q, n, l)
             /\ SubSeq(q[l], 1, t) \in Seq(S)
             /\ t = 0 => SubSeq(q[l], 1, t) = <<>>
<1> DEFINE t == Taken(q, n, l)
           k == Len(q[l])
           s == q[l]
<1>1. t \in 0 .. k /\ k \in Nat /\ s \in Seq(S)
  BY QueueShape, TakenBound
<1>2. Rest(q, n)[l] = SubSeq(s, t + 1, k)
  BY DEF Rest
<1> HIDE DEF t
<1>3. \A i \in 1 .. k : s[i] \in S
  BY <1>1, ElementOfSeq
<1>4. t = k => SubSeq(s, t + 1, k) = <<>>
  <2> HIDE DEF k, s
  <2> QED BY <1>1, SubSeqEmpty
<1>5. t < k => SubSeq(s, t + 1, k) # <<>>
  <2>1. \A i \in t + 1 .. k : s[i] \in S
    BY <1>1, <1>3
  <2>2. t + 1 \in Int /\ k \in Int /\ (t < k => t + 1 <= k /\ k - (t + 1) + 1 # 0)
    BY <1>1
  <2> HIDE DEF k, s
  <2>3. Len(SubSeq(s, t + 1, k)) = IF t + 1 <= k THEN k - (t + 1) + 1 ELSE 0
    BY <2>1, <2>2, SubSeqProperties
  <2>4. Len(<<>>) = 0
    BY EmptySeq
  <2> QED BY <2>2, <2>3, <2>4
<1>6. t < k => Head(SubSeq(s, t + 1, k)) = s[t + 1] /\ Tail(SubSeq(s, t + 1, k)) = SubSeq(s, t + 2, k)
  <2> SUFFICES ASSUME t < k
               PROVE  Head(SubSeq(s, t + 1, k)) = s[t + 1] /\ Tail(SubSeq(s, t + 1, k)) = SubSeq(s, t + 2, k)
    OBVIOUS
  <2>1. t + 1 \in 1 .. Len(s) /\ k \in t + 1 .. Len(s) /\ (t + 1) + 1 = t + 2
    BY <1>1
  <2> HIDE DEF k, s
  <2> QED BY <1>1, <2>1, HeadTailOfSubSeq
<1>7. SubSeq(s, 1, t) \in Seq(S)
  <2>1. \A i \in 1 .. t : s[i] \in S
    BY <1>1, <1>3
  <2> HIDE DEF k, s
  <2> QED BY <1>1, <2>1, SubSeqProperties
<1>8. t < k => SubSeq(s, 1, t + 1) = Append(SubSeq(s, 1, t), s[t + 1]) /\ s[t + 1] \in S
  <2> SUFFICES ASSUME t < k
               PROVE  SubSeq(s, 1, t + 1) = Append(SubSeq(s, 1, t), s[t + 1]) /\ s[t + 1] \in S
    OBVIOUS
  <2>1. t + 1 \in 1 .. Len(s) /\ 1 \in 1 .. Len(s) /\ t + 1 \in 1 .. k /\ (t + 1) - 1 = t
    BY <1>1
  <2>2. s[t + 1] \in S
    BY <1>3, <2>1
  <2> HIDE DEF k, s
  <2>3. SubSeq(s, 1, t + 1) = SubSeq(s, 1, (t + 1) - 1) \o <<s[t + 1]>>
    BY <1>1, <2>1, SubSeqRecursiveSecond
  <2>4. Append(SubSeq(s, 1, t), s[t + 1]) = SubSeq(s, 1, t) \o <<s[t + 1]>>
    BY <1>7, <2>2, AppendIsConcat
  <2> QED BY <2>1, <2>2, <2>3, <2>4
<1>9. t = 0 => SubSeq(s, 1, t) = <<>>
  <2> HIDE DEF k, s
  <2> QED BY <1>1, SubSeqEmpty
<1>10. Rest(q, n)[l] = <<>> <=> t = k
  BY <1>1, <1>2, <1>4, <1>5
<1>11. t < k => OneFurther(S, q, n, l)
  BY <1>2, <1>6, <1>8, Zenon DEF OneFurther, t
<1> QED BY <1>1, <1>2, <1>7, <1>9, <1>10, <1>11 DEF t

\* Appending to the last of three sequences appends to their concatenation.
Joined(a, b, c) == a \o b \o c

LEMMA ConcatLast ==
  ASSUME NEW S, NEW a \in Seq(S), NEW b \in Seq(S), NEW c \in Seq(S), NEW e \in S
  PROVE  /\ Joined(Append(a, e), <<>>, <<>>) = Append(Joined(a, <<>>, <<>>), e)
         /\ Joined(a, Append(b, e), <<>>) = Append(Joined(a, b, <<>>), e)
         /\ Joined(a, b, Append(c, e)) = Append(Joined(a, b, c), e)
<1> DEFINE One == <<e>>
<1>1. One \in Seq(S)
  OBVIOUS
<1>2. a \o b \in Seq(S) /\ (a \o b) \o c \in Seq(S) /\ Append(a, e) \in Seq(S) /\ Append(b, e) \in Seq(S)
  BY ConcatProperties, AppendProperties
<1>3. a \o <<>> = a /\ Append(a, e) \o <<>> = Append(a, e) /\ (a \o b) \o <<>> = a \o b
  BY <1>2, ConcatEmptySeq
<1>4. \A s \in Seq(S) : Append(s, e) = s \o One
  BY AppendIsConcat
<1> HIDE DEF One
<1>5. \A s, u \in Seq(S) : s \o Append(u, e) = Append(s \o u, e)
  <2> SUFFICES ASSUME NEW s \in Seq(S), NEW u \in Seq(S) PROVE s \o Append(u, e) = Append(s \o u, e)
    OBVIOUS
  <2>1. s \o u \in Seq(S)
    BY ConcatProperties
  <2>2. \A v \in Seq(S) : (s \o u) \o v = s \o (u \o v)
    BY ConcatAssociative, SMTT(30)
  <2>3. (s \o u) \o One = s \o (u \o One)
    BY <1>1, <2>2
  <2> QED BY <1>4, <2>1, <2>3, Zenon
<1>6. (a \o Append(b, e)) \o <<>> = a \o Append(b, e)
  <2>1. a \o Append(b, e) \in Seq(S)
    BY <1>2, ConcatProperties
  <2> QED BY <2>1, ConcatEmptySeq
<1>7. Append(a, e) \o <<>> \o <<>> = Append(a \o <<>> \o <<>>, e)
  BY <1>3
<1>8. a \o Append(b, e) \o <<>> = Append(a \o b \o <<>>, e)
  BY <1>3, <1>5, <1>6
<1>9. a \o b \o Append(c, e) = Append(a \o b \o c, e)
  BY <1>2, <1>5
<1> QED BY <1>7, <1>8, <1>9, Zenon DEF Joined

\* A queue with nothing in its lanes is one where nothing waits.
LEMMA NothingWaits ==
  ASSUME NEW S, NEW q \in Queues(S)
  PROVE  Waiting(q) = {} <=> \A l \in LaneNames : q[l] = <<>>
<1>1. /\ \A l \in LaneNames : q[l] \in Seq(S) /\ Len(q[l]) \in Nat
      /\ \A x : x \in Waiting(q) <=> \E l \in LaneNames : \E i \in 1 .. Len(q[l]) : q[l][i] = x
  BY QueueShape
<1>2. ASSUME \A l \in LaneNames : q[l] = <<>> PROVE Waiting(q) = {}
  <2>1. \A l \in LaneNames : Len(q[l]) = 0
    BY <1>2, EmptySeq
  <2> QED BY <1>1, <2>1
<1>3. ASSUME NEW l \in LaneNames, q[l] # <<>> PROVE Waiting(q) # {}
  <2>1. Len(q[l]) \in Nat \ {0}
    BY <1>1, <1>3, EmptySeq
  <2>2. 1 \in 1 .. Len(q[l])
    BY <2>1
  <2>3. q[l][1] \in Waiting(q)
    BY <1>1, <2>2
  <2> QED BY <2>3
<1> QED BY <1>2, <1>3

\* One iteration more in the closed form is one more of the loop.
LEMMA IterateAfter ==
  ASSUME NEW S, NEW q \in Queues(S), NEW n \in Nat
  PROVE  Iterate(After(q, n)) = After(q, n + 1)
<1> DEFINE r == Rest(q, n)
           d == Drained(q, n)
           t(l) == Taken(q, n, l)
<1>1. r \in Queues(S)
  BY DrainProperties
<1>2. After(q, n).out = d /\ After(q, n).q = r
  BY DEF After
<1>3. \A l \in LaneNames : r[l] = <<>> <=> t(l) = Len(q[l])
  BY RestOfLane
<1>4. CASE Exhausted(q, n) /\ \A l \in LaneNames : Taken(q, n + 1, l) = Taken(q, n, l)
  <2>1. Waiting(r) = {}
    BY <1>1, <1>3, <1>4, NothingWaits DEF Exhausted
  <2>2. Iterate(After(q, n)) = After(q, n)
    BY <1>2, <2>1 DEF Iterate
  <2>3. Drained(q, n + 1) = d
    BY <1>4 DEF Drained, Front, LaneNames
  <2>4. Rest(q, n + 1) = r
    BY <1>4 DEF Rest
  <2> QED BY <2>2, <2>3, <2>4 DEF After
<1>5. ASSUME NEW x \in LaneNames, ServedNext(q, n, x),
             \A l \in LaneNames :
               Taken(q, n + 1, l) = IF l = x THEN Taken(q, n, l) + 1 ELSE Taken(q, n, l)
      PROVE  Iterate(After(q, n)) = After(q, n + 1)
  <2>1. t(x) < Len(q[x]) /\ t(x) \in Nat /\ Len(q[x]) \in Nat
    <3>1. t(x) < Len(q[x])
      BY <1>5 DEF ServedNext
    <3>2. Len(q[x]) \in Nat /\ t(x) \in 0 .. Len(q[x])
      BY QueueShape, TakenBound
    <3> QED BY <3>1, <3>2
  <2>2. r[x] # <<>> /\ Waiting(r) # {}
    BY <1>1, <1>3, <2>1, NothingWaits
  <2>3. \A k \in LaneNames : Serves(r, k) <=> k = x
    <3>1. /\ x = "normal" => r["high"] = <<>>
          /\ x = "low" => r["high"] = <<>> /\ r["normal"] = <<>>
      BY <1>3, <1>5 DEF ServedNext, LaneNames
    <3> HIDE DEF r
    <3> QED BY <2>2, <3>1 DEF Serves, LaneNames
  <2>4. (CHOOSE k \in LaneNames : Serves(r, k)) = x
    BY <2>3
  <2> DEFINE e == q[x][t(x) + 1]
             f(l) == SubSeq(q[l], 1, t(l))
  <2>5. /\ Head(r[x]) = e /\ Tail(r[x]) = SubSeq(q[x], t(x) + 2, Len(q[x])) /\ e \in S
        /\ SubSeq(q[x], 1, t(x) + 1) = Append(f(x), e)
    <3>1. OneFurther(S, q, n, x)
      BY <2>1, RestOfLane
    <3> QED BY <3>1, Zenon DEF OneFurther
  <2>6. Iterate(After(q, n)) = [out |-> Append(d, e), q |-> [r EXCEPT ![x] = Tail(r[x])]]
    <3> HIDE DEF r, d, e
    <3> QED BY <1>2, <2>2, <2>4, <2>5 DEF Iterate
  <2>7. [r EXCEPT ![x] = Tail(r[x])] = Rest(q, n + 1)
    <3>1. Taken(q, n + 1, x) + 1 = t(x) + 2
      BY <1>5, <2>1
    <3>2. ASSUME NEW l \in LaneNames PROVE [r EXCEPT ![x] = Tail(r[x])][l] = Rest(q, n + 1)[l]
      <4>1. CASE l = x
        BY <2>5, <3>1, <4>1 DEF Rest
      <4>2. CASE l # x
        BY <1>5, <4>2 DEF Rest
      <4> QED BY <4>1, <4>2
    <3> QED BY <3>2 DEF Rest
  <2>8. Append(d, e) = Drained(q, n + 1)
    <3> DEFINE g(l) == SubSeq(q[l], 1, Taken(q, n + 1, l))
    <3>1. d = Joined(f("high"), f("normal"), f("low"))
          /\ Drained(q, n + 1) = Joined(g("high"), g("normal"), g("low"))
      BY Zenon DEF Drained, Front, Joined
    <3>2. \A l \in LaneNames : f(l) \in Seq(S) /\ (t(l) = 0 => f(l) = <<>>)
      BY RestOfLane
    <3>3. \A l \in LaneNames : g(l) = IF l = x THEN Append(f(l), e) ELSE f(l)
      BY <1>5, <2>5
    <3>4. /\ x = "high"   => f("normal") = <<>> /\ f("low") = <<>>
          /\ x = "normal" => f("low") = <<>>
      BY <1>5, <3>2 DEF ServedNext, LaneNames
    <3> HIDE DEF d, e, f, g, t
    <3>5. /\ f("high") \in Seq(S) /\ f("normal") \in Seq(S) /\ f("low") \in Seq(S)
          /\ e \in S
      BY <2>5, <3>2 DEF LaneNames
    <3>6. CASE x = "high"
      <4>1. g("high") = Append(f("high"), e) /\ g("normal") = <<>> /\ g("low") = <<>>
        BY <3>3, <3>4, <3>6 DEF LaneNames
      <4>2. Joined(Append(f("high"), e), <<>>, <<>>) = Append(Joined(f("high"), <<>>, <<>>), e)
        BY <3>5, ConcatLast, Zenon
      <4> QED BY <3>1, <3>4, <3>6, <4>1, <4>2
    <3>7. CASE x = "normal"
      <4>1. g("high") = f("high") /\ g("normal") = Append(f("normal"), e) /\ g("low") = <<>>
        BY <3>3, <3>4, <3>7 DEF LaneNames
      <4>2. Joined(f("high"), Append(f("normal"), e), <<>>) = Append(Joined(f("high"), f("normal"), <<>>), e)
        BY <3>5, ConcatLast, SMTT(30)
      <4> QED BY <3>1, <3>4, <3>7, <4>1, <4>2
    <3>8. CASE x = "low"
      <4>1. g("high") = f("high") /\ g("normal") = f("normal") /\ g("low") = Append(f("low"), e)
        BY <3>3, <3>8 DEF LaneNames
      <4>2. Joined(f("high"), f("normal"), Append(f("low"), e)) = Append(Joined(f("high"), f("normal"), f("low")), e)
        BY <3>5, ConcatLast, SMTT(30)
      <4> QED BY <3>1, <4>1, <4>2
    <3> QED BY <3>6, <3>7, <3>8 DEF LaneNames
  <2> QED BY <2>6, <2>7, <2>8 DEF After
<1> QED BY <1>4, <1>5, NextTaken

\* The loop starts with the whole queue and nothing taken.
LEMMA AfterNothing ==
  ASSUME NEW S, NEW q \in Queues(S)
  PROVE  After(q, 0) = [out |-> <<>>, q |-> q]
<1>1. ASSUME NEW l \in LaneNames
      PROVE  Taken(q, 0, l) = 0 /\ q[l] \in Seq(S)
  <2>1. /\ Len(q["high"]) \in Nat /\ Len(q["normal"]) \in Nat /\ Len(q["low"]) \in Nat
        /\ q[l] \in Seq(S)
    BY QueueShape DEF LaneNames
  <2>2. \A k \in Nat : AtMost(0, k) = 0 /\ AtMost(0 - 0, k) = 0 /\ AtMost(0 - 0 - 0, k) = 0
    BY DEF AtMost
  <2>3. Taken(q, 0, "high") = 0 /\ Taken(q, 0, "normal") = 0 /\ Taken(q, 0, "low") = 0
    BY <2>1, <2>2 DEF Taken
  <2> QED BY <2>1, <2>3 DEF LaneNames
<1>2. ASSUME NEW l \in LaneNames
      PROVE  Front(q, 0, l) = <<>> /\ Rest(q, 0)[l] = q[l]
  <2>1. SubSeq(q[l], 1, 0) = <<>>
    BY SubSeqEmpty
  <2>2. SubSeq(q[l], 1, Len(q[l])) = q[l]
    BY <1>1, SubSeqFull
  <2>3. Taken(q, 0, l) + 1 = 1
    BY <1>1
  <2> QED BY <1>1, <2>1, <2>2, <2>3 DEF Front, Rest
<1>3. Drained(q, 0) = <<>>
  <2>1. <<>> \o <<>> = <<>>
    BY EmptySeq, ConcatEmptySeq
  <2> QED BY <1>2, <2>1 DEF Drained, LaneNames
<1>4. Rest(q, 0) = q
  <2>1. q = [l \in LaneNames |-> q[l]] /\ Rest(q, 0) = [l \in LaneNames |-> Rest(q, 0)[l]]
    BY DEF Queues, Rest
  <2> QED BY <1>2, <2>1
<1> QED BY <1>3, <1>4 DEF After

\* The loop of Drain, run n times, is the closed form: by the least number of
\* iterations after which they would differ.
LEMMA LoopIsClosed ==
  ASSUME NEW S, NEW q \in Queues(S), NEW n \in Nat
  PROVE  DrainLoop(q, n) = After(q, n)
<1> DEFINE after[k \in 0 .. n] ==
             IF k = 0 THEN [out |-> <<>>, q |-> q] ELSE Iterate(after[k - 1])
           closed == [k \in 0 .. n |-> After(q, k)]
<1>1. DrainLoop(q, n) = after[n]
  BY DEF DrainLoop, Iterate, Serves
<1>2. after = CHOOSE g : g = [k \in 0 .. n |->
                               IF k = 0 THEN [out |-> <<>>, q |-> q] ELSE Iterate(g[k - 1])]
  OBVIOUS
<1>3. \A k \in 0 .. n : /\ k = 0 => After(q, k) = [out |-> <<>>, q |-> q]
                        /\ k # 0 => k - 1 \in 0 .. n /\ After(q, k) = Iterate(After(q, k - 1))
  <2> SUFFICES ASSUME NEW k \in 0 .. n, k # 0
               PROVE  k - 1 \in 0 .. n /\ After(q, k) = Iterate(After(q, k - 1))
    BY AfterNothing
  <2>1. k - 1 \in Nat /\ (k - 1) + 1 = k /\ k - 1 \in 0 .. n
    OBVIOUS
  <2>2. Iterate(After(q, k - 1)) = After(q, (k - 1) + 1)
    BY <2>1, IterateAfter
  <2> QED BY <2>1, <2>2
<1>4. closed = [k \in 0 .. n |->
                 IF k = 0 THEN [out |-> <<>>, q |-> q] ELSE Iterate(closed[k - 1])]
  BY <1>3
<1>5. after = [k \in 0 .. n |->
                IF k = 0 THEN [out |-> <<>>, q |-> q] ELSE Iterate(after[k - 1])]
  <2>1. \E g : g = [k \in 0 .. n |->
                     IF k = 0 THEN [out |-> <<>>, q |-> q] ELSE Iterate(g[k - 1])]
    <3> HIDE DEF closed
    <3> QED BY <1>4, Zenon
  <2> HIDE DEF after
  <2> QED BY <1>2, <2>1, Zenon
<1> HIDE DEF after, closed
<1>6. \A k \in 0 .. n : after[k] = After(q, k)
  <2> DEFINE wrong == {k \in 0 .. n : after[k] # After(q, k)}
  <2>1. ASSUME wrong # {} PROVE FALSE
    <3>1. PICK k \in wrong : \A j \in wrong : k <= j
      <4>1. wrong \in SUBSET Nat
        OBVIOUS
      <4> HIDE DEF wrong
      <4> QED BY <2>1, <4>1, Least
    <3>2. k \in 0 .. n /\ after[k] # After(q, k)
      OBVIOUS
    <3>3. k # 0
      BY <1>3, <1>5, <3>2
    <3>4. k - 1 \in 0 .. n /\ k - 1 \notin wrong
      <4>1. k - 1 \in 0 .. n /\ ~(k <= k - 1)
        BY <3>2, <3>3
      <4> HIDE DEF wrong
      <4> QED BY <3>1, <4>1
    <3>5. after[k - 1] = After(q, k - 1)
      BY <3>4
    <3>6. after[k] = Iterate(after[k - 1])
      BY <1>5, <3>2, <3>3
    <3> QED BY <1>3, <3>2, <3>3, <3>5, <3>6
  <2> QED BY <2>1
<1>7. n \in 0 .. n
  OBVIOUS
<1> QED BY <1>1, <1>6, <1>7

\* Drain's loop takes and leaves what its closed form says, for any queue that
\* arises and any batch size (ModelQueue.Drain): what is proved of the closed
\* form, here and of the scheduler, is proved of the loop.
THEOREM LoopAgrees == Spec => []DrainIsTheLoop
<1>1. LaneInv => DrainIsTheLoop
  <2> SUFFICES ASSUME LaneInv, NEW n \in 1 .. MaxDepth + 1
               PROVE  DrainLoop(lanes, n) = After(lanes, n)
    BY DEF DrainIsTheLoop, After
  <2>1. lanes \in Queues(1 .. arrived) /\ n \in Nat
    BY DEF LaneInv
  <2> QED BY <2>1, LoopIsClosed
<1> QED BY <1>1, InitLanes, StepLanes, PTL DEF Spec
=============================================================================
