------------------------- MODULE PriorityQueueProofs -------------------------
(***************************************************************************)
(* Facts about the priority queue's operations, for queues of any length   *)
(* and any batch size: an Enqueue adds exactly its item, a Drain splits    *)
(* the queue into what it returns and what it leaves.                      *)
(***************************************************************************)
EXTENDS PriorityQueue, SequenceTheorems, TLAPS

\* The depth is the sum of the lanes' lengths.
LEMMA DepthIsSum ==
  ASSUME NEW q, NEW h \in Nat, NEW m \in Nat, NEW w \in Nat,
         Len(q["high"]) = h, Len(q["normal"]) = m, Len(q["low"]) = w
  PROVE  Depth(q) = h + m + w /\ Depth(q) \in Nat
<1>1. Depth(q) = h + m + w
  BY Zenon DEF Depth
<1>2. h + m + w \in Nat
  OBVIOUS
<1> QED BY <1>1, <1>2, Zenon

\* The lanes of a queue and its items, spelled out.
LEMMA QueueShape ==
  ASSUME NEW S, NEW q \in Queues(S)
  PROVE  /\ \A l \in LaneNames : q[l] \in Seq(S) /\ Len(q[l]) \in Nat
         /\ \A x : x \in Waiting(q) <=>
              \E l \in LaneNames : \E i \in 1 .. Len(q[l]) : q[l][i] = x
         /\ Waiting(q) \subseteq S
         /\ Depth(q) \in Nat
<1>1. \A l \in LaneNames : q[l] \in Seq(S) /\ Len(q[l]) \in Nat
  BY LenProperties DEF Queues
<1>2. \A l \in LaneNames : \A i \in 1 .. Len(q[l]) : q[l][i] \in S
  BY <1>1, ElementOfSeq
<1>3. \A x : x \in Waiting(q) <=>
         \E l \in LaneNames : \E i \in 1 .. Len(q[l]) : q[l][i] = x
  <2>1. \A l \in LaneNames : Range(q[l]) = {q[l][i] : i \in 1 .. Len(q[l])}
    BY <1>1, RangeEquality
  <2>2. ASSUME NEW x PROVE x \in Waiting(q) <=> \E l \in LaneNames : x \in Range(q[l])
    BY Zenon DEF Waiting
  <2>3. ASSUME NEW x, NEW l \in LaneNames
        PROVE  x \in Range(q[l]) <=> \E i \in 1 .. Len(q[l]) : q[l][i] = x
    BY <2>1, Zenon
  <2> QED BY <2>2, <2>3, Zenon
<1>4. Depth(q) \in Nat
  <2>1. Len(q["high"]) \in Nat /\ Len(q["normal"]) \in Nat /\ Len(q["low"]) \in Nat
    BY <1>1 DEF LaneNames
  <2> QED BY <2>1, DepthIsSum, Zenon
<1> QED BY <1>1, <1>2, <1>3, <1>4

LEMMA LaneType ==
  ASSUME NEW p
  PROVE  Lane(p) \in LaneNames
BY DEF Lane, LaneNames

\* Enqueue's append puts the item at the end of its lane and changes nothing else.
LEMMA PushProperties ==
  ASSUME NEW S, NEW q \in Queues(S), NEW x \in S, NEW p
  PROVE  /\ Push(q, p, x) \in Queues(S)
         /\ Waiting(Push(q, p, x)) = Waiting(q) \cup {x}
         /\ Depth(Push(q, p, x)) = Depth(q) + 1
         /\ NoDuplicates(q) /\ x \notin Waiting(q) => NoDuplicates(Push(q, p, x))
<1> DEFINE k == Lane(p)
           r == Push(q, p, x)
<1>1. k \in LaneNames
  BY LaneType
<1>2. \A l \in LaneNames : q[l] \in Seq(S) /\ Len(q[l]) \in Nat
  BY QueueShape
<1>3. /\ r[k] = Append(q[k], x)
      /\ \A l \in LaneNames : l # k => r[l] = q[l]
      /\ r \in Queues(S)
  BY <1>1, <1>2, AppendProperties DEF Push, Queues
<1>4. /\ Len(r[k]) = Len(q[k]) + 1
      /\ r[k][Len(q[k]) + 1] = x
      /\ \A i \in 1 .. Len(q[k]) : r[k][i] = q[k][i]
  BY <1>1, <1>2, <1>3, AppendProperties
<1> HIDE DEF r, k
<1>5. ASSUME NEW y PROVE y \in Waiting(r) <=> y \in Waiting(q) \cup {x}
  <2>1. ASSUME y \in Waiting(r) PROVE y \in Waiting(q) \cup {x}
    <3>1. PICK l \in LaneNames : \E i \in 1 .. Len(r[l]) : r[l][i] = y
      BY <2>1, <1>3, QueueShape
    <3>2. CASE l = k
      BY <1>1, <1>2, <3>1, <3>2, <1>4, QueueShape, SMTT(30)
    <3>3. CASE l # k
      BY <3>1, <3>3, <1>3, QueueShape
    <3> QED BY <3>2, <3>3
  <2>2. ASSUME y \in Waiting(q) PROVE y \in Waiting(r)
    <3>1. PICK l \in LaneNames : \E i \in 1 .. Len(q[l]) : q[l][i] = y
      BY <2>2, QueueShape
    <3>2. CASE l = k
      <4>1. \E i \in 1 .. Len(r[k]) : r[k][i] = y
        BY <1>1, <1>2, <3>1, <3>2, <1>4
      <4> QED BY <4>1, <1>1, <1>3, QueueShape
    <3>3. CASE l # k
      BY <3>1, <3>3, <1>3, QueueShape
    <3> QED BY <3>2, <3>3
  <2>3. x \in Waiting(r)
    <3>1. \E i \in 1 .. Len(r[k]) : r[k][i] = x
      BY <1>1, <1>2, <1>4
    <3> QED BY <3>1, <1>1, <1>3, QueueShape
  <2> QED BY <2>1, <2>2, <2>3
<1>6. Depth(r) = Depth(q) + 1
  <2> DEFINE h == Len(q["high"])
             m == Len(q["normal"])
             w == Len(q["low"])
  <2>1. h \in Nat /\ m \in Nat /\ w \in Nat
    BY <1>2 DEF LaneNames
  <2>2. \/ Len(r["high"]) = h + 1 /\ Len(r["normal"]) = m /\ Len(r["low"]) = w
        \/ Len(r["high"]) = h /\ Len(r["normal"]) = m + 1 /\ Len(r["low"]) = w
        \/ Len(r["high"]) = h /\ Len(r["normal"]) = m /\ Len(r["low"]) = w + 1
    BY <1>1, <1>3, <1>4 DEF LaneNames
  <2>3. Depth(q) = h + m + w
    BY <2>1, DepthIsSum, Zenon
  <2>4. \/ Depth(r) = (h + 1) + m + w
        \/ Depth(r) = h + (m + 1) + w
        \/ Depth(r) = h + m + (w + 1)
    BY <2>2, Zenon DEF Depth
  <2> HIDE DEF h, m, w
  <2> QED BY <2>1, <2>3, <2>4
<1>7. ASSUME NoDuplicates(q), x \notin Waiting(q) PROVE NoDuplicates(r)
  <2> SUFFICES ASSUME NEW l \in LaneNames, NEW m \in LaneNames,
                      NEW i \in 1 .. Len(r[l]), NEW j \in 1 .. Len(r[m]),
                      r[l][i] = r[m][j]
               PROVE  l = m /\ i = j
    BY DEF NoDuplicates
  <2>1. \A h \in LaneNames : \A n \in 1 .. Len(r[h]) :
          \/ h = k /\ n = Len(q[k]) + 1 /\ r[h][n] = x
          \/ n \in 1 .. Len(q[h]) /\ r[h][n] = q[h][n]
    <3> SUFFICES ASSUME NEW h \in LaneNames, NEW n \in 1 .. Len(r[h])
                 PROVE  \/ h = k /\ n = Len(q[k]) + 1 /\ r[h][n] = x
                        \/ n \in 1 .. Len(q[h]) /\ r[h][n] = q[h][n]
      OBVIOUS
    <3>1. CASE h = k
      BY <1>1, <1>2, <1>4, <3>1
    <3>2. CASE h # k
      BY <1>3, <3>2
    <3> QED BY <3>1, <3>2
  <2>2. \A h \in LaneNames : \A n \in 1 .. Len(q[h]) : q[h][n] # x
    BY <1>7, QueueShape
  <2> QED BY <2>1, <2>2, <1>7, SMTT(30) DEF NoDuplicates
<1> QED BY <1>3, <1>5, <1>6, <1>7 DEF r

\* A lane gives no more than it has.
LEMMA TakenBound ==
  ASSUME NEW S, NEW q \in Queues(S), NEW n \in Nat, NEW l \in LaneNames
  PROVE  Taken(q, n, l) \in 0 .. Len(q[l])
<1> DEFINE h == Len(q["high"])
           m == Len(q["normal"])
           w == Len(q["low"])
<1>1. h \in Nat /\ m \in Nat /\ w \in Nat
  BY QueueShape DEF LaneNames
<1> HIDE DEF h, m, w
<1>2. AtMost(n, h) \in 0 .. h /\ n - AtMost(n, h) \in Nat
  BY <1>1 DEF AtMost
<1>3. ASSUME NEW k \in Nat PROVE /\ AtMost(k, m) \in 0 .. m /\ k - AtMost(k, m) \in Nat
                                  /\ AtMost(k, w) \in 0 .. w
  BY <1>1, <1>3 DEF AtMost
<1>4. AtMost(n - AtMost(n, h), m) \in 0 .. m
  BY <1>2, <1>3
<1>5. AtMost(n - AtMost(n, h) - AtMost(n - AtMost(n, h), m), w) \in 0 .. w
  BY <1>2, <1>3
<1>6. CASE l = "high"
  BY <1>6, <1>2 DEF Taken, h
<1>7. CASE l = "normal"
  BY <1>7, <1>4 DEF Taken, h, m
<1>8. CASE l = "low"
  BY <1>8, <1>5 DEF Taken, h, m, w
<1> QED BY <1>6, <1>7, <1>8 DEF LaneNames

\* Drain cuts every lane in two: the items up to Taken are returned, the
\* others stay, in order.
LEMMA DrainCut ==
  ASSUME NEW S, NEW q \in Queues(S), NEW n \in Nat
  PROVE  /\ \A x : x \in DrainedItems(q, n) <=>
              \E l \in LaneNames : \E i \in 1 .. Taken(q, n, l) : q[l][i] = x
         /\ Rest(q, n) \in Queues(S)
         /\ \A l \in LaneNames :
              /\ Len(Rest(q, n)[l]) = Len(q[l]) - Taken(q, n, l)
              /\ \A i \in 1 .. Len(q[l]) - Taken(q, n, l) :
                   Rest(q, n)[l][i] = q[l][Taken(q, n, l) + i]
<1>1. \A l \in LaneNames : /\ q[l] \in Seq(S) /\ Len(q[l]) \in Nat
                           /\ Taken(q, n, l) \in 0 .. Len(q[l])
  BY QueueShape, TakenBound
<1>2. ASSUME NEW l \in LaneNames
      PROVE  /\ Front(q, n, l) \in Seq(S)
             /\ Len(Front(q, n, l)) = Taken(q, n, l)
             /\ \A i \in 1 .. Taken(q, n, l) : Front(q, n, l)[i] = q[l][i]
             /\ Rest(q, n)[l] \in Seq(S)
             /\ Len(Rest(q, n)[l]) = Len(q[l]) - Taken(q, n, l)
             /\ \A i \in 1 .. Len(q[l]) - Taken(q, n, l) :
                  Rest(q, n)[l][i] = q[l][Taken(q, n, l) + i]
  <2> DEFINE s == q[l]
             t == Taken(q, n, l)
             k == Len(s)
  <2>1. s \in Seq(S) /\ k \in Nat /\ t \in 0 .. k /\ \A i \in 1 .. k : s[i] \in S
    BY <1>1, ElementOfSeq
  <2>2. Front(q, n, l) = SubSeq(s, 1, t) /\ Rest(q, n)[l] = SubSeq(s, t + 1, k)
    BY DEF Front, Rest
  <2> HIDE DEF s, t, k
  <2>3. /\ SubSeq(s, 1, t) \in Seq(S)
        /\ Len(SubSeq(s, 1, t)) = IF 1 <= t THEN t - 1 + 1 ELSE 0
        /\ \A i \in 1 .. t - 1 + 1 : SubSeq(s, 1, t)[i] = s[1 + i - 1]
    <3>1. \A i \in 1 .. t : s[i] \in S
      BY <2>1
    <3>2. t \in Int /\ 1 \in Int
      BY <2>1
    <3> QED BY <3>1, <3>2, SubSeqProperties
  <2>4. /\ SubSeq(s, t + 1, k) \in Seq(S)
        /\ Len(SubSeq(s, t + 1, k)) = IF t + 1 <= k THEN k - (t + 1) + 1 ELSE 0
        /\ \A i \in 1 .. k - (t + 1) + 1 : SubSeq(s, t + 1, k)[i] = s[(t + 1) + i - 1]
    <3>1. \A i \in t + 1 .. k : s[i] \in S
      BY <2>1
    <3>2. t + 1 \in Int /\ k \in Int
      BY <2>1
    <3> QED BY <3>1, <3>2, SubSeqProperties
  <2> DEFINE a == SubSeq(s, 1, t)
             b == SubSeq(s, t + 1, k)
  <2>5. a \in Seq(S) /\ b \in Seq(S)
    BY <2>3, <2>4
  <2>6. Len(a) = t /\ \A i \in 1 .. t : a[i] = s[i]
    <3>1. t - 1 + 1 = t /\ \A i \in 1 .. t : 1 + i - 1 = i
      BY <2>1
    <3>2. (IF 1 <= t THEN t - 1 + 1 ELSE 0) = t
      BY <2>1
    <3> QED BY <2>3, <3>1, <3>2
  <2>7. Len(b) = k - t /\ \A i \in 1 .. k - t : b[i] = s[t + i]
    <3>1. k - (t + 1) + 1 = k - t /\ \A i \in 1 .. k - t : (t + 1) + i - 1 = t + i
      BY <2>1
    <3>2. (IF t + 1 <= k THEN k - (t + 1) + 1 ELSE 0) = k - t
      BY <2>1
    <3> QED BY <2>4, <3>1, <3>2
  <2> QED BY <2>2, <2>5, <2>6, <2>7 DEF s, t, k
<1>3. Rest(q, n) \in Queues(S)
  BY <1>2 DEF Rest, Queues
<1>4. ASSUME NEW x
      PROVE  x \in DrainedItems(q, n) <=>
               \E l \in LaneNames : \E i \in 1 .. Taken(q, n, l) : q[l][i] = x
  <2> DEFINE h == Front(q, n, "high")
             m == Front(q, n, "normal")
             w == Front(q, n, "low")
  <2>1. h \in Seq(S) /\ m \in Seq(S) /\ w \in Seq(S) /\ h \o m \in Seq(S)
    BY <1>2, ConcatProperties DEF LaneNames
  <2>2. Range((h \o m) \o w) = Range(h) \cup Range(m) \cup Range(w)
    <3> HIDE DEF h, m, w
    <3>1. Range((h \o m) \o w) = Range(h \o m) \cup Range(w)
      <4> DEFINE hm == h \o m
      <4>1. hm \in Seq(S)
        BY <2>1
      <4> HIDE DEF hm
      <4>2. Range(hm \o w) = Range(hm) \cup Range(w)
        BY <2>1, <4>1, RangeConcatenation, ZenonT(40)
      <4> QED BY <4>2, Zenon DEF hm
    <3>2. Range(h \o m) = Range(h) \cup Range(m)
      BY <2>1, RangeConcatenation, SMTT(30)
    <3> QED BY <3>1, <3>2
  <2>3. ASSUME NEW l \in LaneNames
        PROVE  x \in Range(Front(q, n, l)) <=> \E i \in 1 .. Taken(q, n, l) : q[l][i] = x
    <3>1. Range(Front(q, n, l)) = {Front(q, n, l)[i] : i \in 1 .. Len(Front(q, n, l))}
      BY <1>2, RangeEquality
    <3>2. x \in Range(Front(q, n, l)) <=>
             \E i \in 1 .. Len(Front(q, n, l)) : Front(q, n, l)[i] = x
      BY <3>1, Zenon
    <3>3. Len(Front(q, n, l)) = Taken(q, n, l)
          /\ \A i \in 1 .. Taken(q, n, l) : Front(q, n, l)[i] = q[l][i]
      BY <1>2
    <3> QED BY <3>2, <3>3, Zenon
  <2> QED BY <2>2, <2>3 DEF DrainedItems, Drained, LaneNames
<1> QED BY <1>2, <1>3, <1>4

\* What Drain returns is a sequence of items.
LEMMA DrainedType ==
  ASSUME NEW S, NEW q \in Queues(S), NEW n \in Nat
  PROVE  Drained(q, n) \in Seq(S) /\ Len(Drained(q, n)) \in Nat
<1>1. ASSUME NEW l \in LaneNames PROVE Front(q, n, l) \in Seq(S)
  <2> DEFINE t == Taken(q, n, l)
             k == Len(q[l])
  <2>1. q[l] \in Seq(S) /\ k \in Nat /\ t \in 0 .. k /\ \A i \in 1 .. k : q[l][i] \in S
    BY QueueShape, TakenBound, ElementOfSeq
  <2> HIDE DEF t, k
  <2>2. t \in Int /\ 1 \in Int /\ \A i \in 1 .. t : q[l][i] \in S
    BY <2>1
  <2>3. SubSeq(q[l], 1, t) \in Seq(S)
    BY <2>2, SubSeqProperties
  <2> QED BY <2>3 DEF Front, t
<1> DEFINE h == Front(q, n, "high")
           m == Front(q, n, "normal")
           w == Front(q, n, "low")
<1>2. h \in Seq(S) /\ m \in Seq(S) /\ w \in Seq(S)
  BY <1>1 DEF LaneNames
<1>3. (h \o m) \o w \in Seq(S)
  <2> HIDE DEF h, m, w
  <2> QED BY <1>2, ConcatProperties
<1> QED BY <1>3, LenProperties DEF Drained

\* A Drain returns items of the queue, loses none, keeps the rest, and never
\* both returns and keeps one.
LEMMA DrainProperties ==
  ASSUME NEW S, NEW q \in Queues(S), NEW n \in Nat
  PROVE  /\ Rest(q, n) \in Queues(S)
         /\ Waiting(q) = DrainedItems(q, n) \cup Waiting(Rest(q, n))
         /\ DrainedItems(q, n) \subseteq S
         /\ Depth(Rest(q, n)) <= Depth(q)
         /\ NoDuplicates(q) => /\ NoDuplicates(Rest(q, n))
                               /\ DrainedItems(q, n) \cap Waiting(Rest(q, n)) = {}
<1> DEFINE r == Rest(q, n)
           t(l) == Taken(q, n, l)
<1>1. r \in Queues(S)
  BY DrainCut
<1>2. ASSUME NEW l \in LaneNames
      PROVE  /\ Len(q[l]) \in Nat /\ t(l) \in 0 .. Len(q[l])
             /\ Len(r[l]) = Len(q[l]) - t(l)
             /\ \A i \in 1 .. Len(q[l]) - t(l) : r[l][i] = q[l][t(l) + i]
  <2>1. Len(q[l]) \in Nat /\ t(l) \in 0 .. Len(q[l])
    BY QueueShape, TakenBound
  <2>2. /\ Len(r[l]) = Len(q[l]) - t(l)
        /\ \A i \in 1 .. Len(q[l]) - t(l) : r[l][i] = q[l][t(l) + i]
    BY DrainCut, ZenonT(40)
  <2> QED BY <2>1, <2>2, Zenon
<1>3. \A x : x \in DrainedItems(q, n) <=>
         \E l \in LaneNames : \E i \in 1 .. t(l) : q[l][i] = x
  BY DrainCut
<1>4. \A x : x \in Waiting(r) <=>
         \E l \in LaneNames : \E i \in t(l) + 1 .. Len(q[l]) : q[l][i] = x
  <2> SUFFICES ASSUME NEW x
               PROVE  x \in Waiting(r) <=>
                        \E l \in LaneNames : \E i \in t(l) + 1 .. Len(q[l]) : q[l][i] = x
    OBVIOUS
  <2>1. x \in Waiting(r) <=> \E l \in LaneNames : \E i \in 1 .. Len(r[l]) : r[l][i] = x
    BY <1>1, QueueShape
  <2>2. ASSUME NEW l \in LaneNames
        PROVE  (\E i \in 1 .. Len(r[l]) : r[l][i] = x) <=>
                 \E i \in t(l) + 1 .. Len(q[l]) : q[l][i] = x
    <3> DEFINE k == Len(q[l])
               u == t(l)
    <3>1. k \in Nat /\ u \in 0 .. k /\ Len(r[l]) = k - u
          /\ \A i \in 1 .. k - u : r[l][i] = q[l][u + i]
      BY <1>2
    <3> HIDE DEF k, u, r
    <3>2. ASSUME NEW i \in 1 .. Len(r[l]), r[l][i] = x
          PROVE  \E j \in u + 1 .. k : q[l][j] = x
      <4>1. u + i \in u + 1 .. k /\ q[l][u + i] = x
        BY <3>1, <3>2
      <4> QED BY <4>1
    <3>3. ASSUME NEW j \in u + 1 .. k, q[l][j] = x
          PROVE  \E i \in 1 .. Len(r[l]) : r[l][i] = x
      <4>1. j - u \in 1 .. k - u /\ u + (j - u) = j
        BY <3>1, <3>3
      <4>2. j - u \in 1 .. Len(r[l]) /\ r[l][j - u] = x
        BY <3>1, <3>3, <4>1
      <4> QED BY <4>2
    <3> QED BY <3>2, <3>3 DEF k, u
  <2> QED BY <2>1, <2>2
<1>5. \A l \in LaneNames : 1 .. Len(q[l]) = (1 .. t(l)) \cup (t(l) + 1 .. Len(q[l]))
  <2> SUFFICES ASSUME NEW l \in LaneNames
               PROVE  1 .. Len(q[l]) = (1 .. t(l)) \cup (t(l) + 1 .. Len(q[l]))
    OBVIOUS
  <2> DEFINE k == Len(q[l])
             u == t(l)
  <2>1. k \in Nat /\ u \in 0 .. k
    BY <1>2
  <2> HIDE DEF k, u
  <2>2. 1 .. k = (1 .. u) \cup (u + 1 .. k)
    BY <2>1
  <2> QED BY <2>2 DEF k, u
<1>6. Waiting(q) = DrainedItems(q, n) \cup Waiting(r)
  <2>1. \A x : x \in Waiting(q) <=> \E l \in LaneNames : \E i \in 1 .. Len(q[l]) : q[l][i] = x
    BY QueueShape
  <2>2. \A x : x \in Waiting(q) <=> x \in DrainedItems(q, n) \/ x \in Waiting(r)
    BY <2>1, <1>3, <1>4, <1>5, Zenon
  <2> QED BY <2>2
<1>7. DrainedItems(q, n) \subseteq S
  BY <1>6, QueueShape
<1>8. Depth(r) <= Depth(q)
  <2> DEFINE h == Len(q["high"])
             m == Len(q["normal"])
             w == Len(q["low"])
             rh == Len(r["high"])
             rm == Len(r["normal"])
             rw == Len(r["low"])
  <2>1. \A l \in LaneNames : Len(r[l]) \in Nat /\ Len(q[l]) \in Nat /\ Len(r[l]) <= Len(q[l])
    <3> SUFFICES ASSUME NEW l \in LaneNames
                 PROVE  Len(r[l]) \in Nat /\ Len(q[l]) \in Nat /\ Len(r[l]) <= Len(q[l])
      OBVIOUS
    <3> DEFINE k == Len(q[l])
               u == t(l)
               v == Len(r[l])
    <3>1. k \in Nat /\ u \in 0 .. k /\ v = k - u
      BY <1>2
    <3> HIDE DEF k, u, v
    <3>2. v \in Nat /\ k \in Nat /\ v <= k
      BY <3>1
    <3> QED BY <3>2 DEF k, v
  <2>2. /\ h \in Nat /\ m \in Nat /\ w \in Nat /\ rh \in Nat /\ rm \in Nat /\ rw \in Nat
        /\ rh <= h /\ rm <= m /\ rw <= w
    BY <2>1 DEF LaneNames
  <2>3. Depth(q) = h + m + w /\ Depth(r) = rh + rm + rw
    BY Zenon DEF Depth
  <2> HIDE DEF h, m, w, rh, rm, rw
  <2> QED BY <2>2, <2>3
<1>9. ASSUME NoDuplicates(q) PROVE NoDuplicates(r) /\ DrainedItems(q, n) \cap Waiting(r) = {}
  <2>1. NoDuplicates(r)
    <3> SUFFICES ASSUME NEW k \in LaneNames, NEW l \in LaneNames,
                        NEW i \in 1 .. Len(r[k]), NEW j \in 1 .. Len(r[l]),
                        r[k][i] = r[l][j]
                 PROVE  k = l /\ i = j
      BY DEF NoDuplicates
    <3>1. ASSUME NEW e \in LaneNames, NEW f \in 1 .. Len(r[e])
          PROVE  t(e) \in Nat /\ f \in Nat /\ t(e) + f \in 1 .. Len(q[e])
                 /\ r[e][f] = q[e][t(e) + f]
      <4> DEFINE c == Len(q[e])
                 u == t(e)
                 v == Len(r[e])
      <4>1. c \in Nat /\ u \in 0 .. c /\ v = c - u /\ f \in 1 .. v
            /\ \A g \in 1 .. c - u : r[e][g] = q[e][u + g]
        BY <1>2
      <4> HIDE DEF c, u, v, r
      <4>2. u \in Nat /\ f \in Nat /\ u + f \in 1 .. c /\ r[e][f] = q[e][u + f]
        BY <4>1
      <4> QED BY <4>2 DEF c, u
    <3>2. k = l /\ t(k) + i = t(l) + j
      <4>1. /\ t(k) + i \in 1 .. Len(q[k]) /\ r[k][i] = q[k][t(k) + i]
            /\ t(l) + j \in 1 .. Len(q[l]) /\ r[l][j] = q[l][t(l) + j]
        BY <3>1, Zenon
      <4>2. q[k][t(k) + i] = q[l][t(l) + j]
        BY <4>1, Zenon
      <4> DEFINE a == t(k) + i
                 b == t(l) + j
      <4>3. a \in 1 .. Len(q[k]) /\ b \in 1 .. Len(q[l]) /\ q[k][a] = q[l][b]
        BY <4>1, <4>2, Zenon
      <4> HIDE DEF a, b
      <4>4. k = l /\ a = b
        BY <4>3, <1>9 DEF NoDuplicates
      <4> QED BY <4>4 DEF a, b
    <3>3. t(k) \in Nat /\ i \in Nat /\ j \in Nat
      BY <3>1, <3>2
    <3>4. \A a, b, c \in Nat : a + b = a + c => b = c
      OBVIOUS
    <3> QED BY <3>2, <3>3, <3>4, Zenon
  <2>2. ASSUME NEW x, x \in DrainedItems(q, n), x \in Waiting(r) PROVE FALSE
    <3>1. PICK k \in LaneNames : \E i \in 1 .. t(k) : q[k][i] = x
      BY <2>2, <1>3
    <3>2. PICK i \in 1 .. t(k) : q[k][i] = x
      BY <3>1
    <3>3. PICK l \in LaneNames : \E j \in t(l) + 1 .. Len(q[l]) : q[l][j] = x
      BY <2>2, <1>4
    <3>4. PICK j \in t(l) + 1 .. Len(q[l]) : q[l][j] = x
      BY <3>3
    <3>5. i \in 1 .. Len(q[k]) /\ j \in 1 .. Len(q[l])
      BY <1>5, Zenon
    <3>6. k = l /\ i = j
      BY <3>2, <3>4, <3>5, <1>9 DEF NoDuplicates
    <3>7. t(k) \in Nat
      BY <1>2
    <3>8. ASSUME NEW a \in Nat, NEW c, NEW b \in 1 .. a, b \in a + 1 .. c PROVE FALSE
      BY <3>8
    <3> QED BY <3>6, <3>7, <3>8, Zenon
  <2> QED BY <2>1, <2>2
<1> QED BY <1>1, <1>6, <1>7, <1>8, <1>9
\* What a Drain returns and what it leaves add up to what was queued.
LEMMA DrainAccounts ==
  ASSUME NEW S, NEW q \in Queues(S), NEW n \in Nat
  PROVE  Depth(Rest(q, n)) + Len(Drained(q, n)) = Depth(q)
<1> DEFINE r == Rest(q, n)
           f(l) == Front(q, n, l)
           t(l) == Taken(q, n, l)
<1>1. ASSUME NEW l \in LaneNames
      PROVE  /\ Len(q[l]) \in Nat /\ t(l) \in 0 .. Len(q[l])
             /\ f(l) \in Seq(S) /\ Len(f(l)) = t(l)
             /\ Len(r[l]) = Len(q[l]) - t(l)
  <2>1. /\ q[l] \in Seq(S) /\ Len(q[l]) \in Nat /\ t(l) \in 0 .. Len(q[l])
        /\ \A i \in 1 .. Len(q[l]) : q[l][i] \in S
    BY QueueShape, TakenBound, ElementOfSeq
  <2>2. Len(r[l]) = Len(q[l]) - t(l)
    BY DrainCut, ZenonT(40)
  <2> DEFINE u == t(l)
             k == Len(q[l])
  <2> HIDE DEF u, k
  <2>3. u \in 0 .. k /\ k \in Nat /\ u \in Int /\ 1 \in Int /\ \A i \in 1 .. u : q[l][i] \in S
    BY <2>1 DEF u, k
  <2>4. /\ SubSeq(q[l], 1, u) \in Seq(S)
        /\ Len(SubSeq(q[l], 1, u)) = IF 1 <= u THEN u - 1 + 1 ELSE 0
    BY <2>3, SubSeqProperties
  <2>5. (IF 1 <= u THEN u - 1 + 1 ELSE 0) = u
    BY <2>3
  <2> QED BY <2>1, <2>2, <2>4, <2>5 DEF Front, u
<1> DEFINE h == f("high")
           m == f("normal")
           w == f("low")
<1>2. /\ h \in Seq(S) /\ m \in Seq(S) /\ w \in Seq(S)
      /\ Len(h) = t("high") /\ Len(m) = t("normal") /\ Len(w) = t("low")
  BY <1>1, Zenon DEF LaneNames
<1>3. Len((h \o m) \o w) = Len(h) + Len(m) + Len(w)
  <2> HIDE DEF h, m, w
  <2>1. h \o m \in Seq(S) /\ Len(h \o m) = Len(h) + Len(m)
    BY <1>2, ConcatProperties
  <2>2. Len((h \o m) \o w) = Len(h \o m) + Len(w)
    BY <1>2, <2>1, ConcatProperties
  <2> QED BY <2>1, <2>2
<1>4. Len(Drained(q, n)) = t("high") + t("normal") + t("low")
  BY <1>2, <1>3, Zenon DEF Drained
<1> DEFINE a == Len(q["high"])
           b == Len(q["normal"])
           c == Len(q["low"])
           x == t("high")
           y == t("normal")
           z == t("low")
<1>5. /\ a \in Nat /\ b \in Nat /\ c \in Nat /\ x \in 0 .. a /\ y \in 0 .. b /\ z \in 0 .. c
      /\ Len(r["high"]) = a - x /\ Len(r["normal"]) = b - y /\ Len(r["low"]) = c - z
  BY <1>1, Zenon DEF LaneNames
<1>6. Depth(q) = a + b + c /\ Depth(r) = (a - x) + (b - y) + (c - z)
  BY <1>5, Zenon DEF Depth
<1>7. Len(Drained(q, n)) = x + y + z
  BY <1>4
<1> HIDE DEF a, b, c, x, y, z, r
<1>8. (a - x) + (b - y) + (c - z) + (x + y + z) = a + b + c
  BY <1>5
<1> QED BY <1>6, <1>7, <1>8 DEF r
\* Drain serves a lower lane only when it empties those above it.
LEMMA HighestLaneFirst ==
  ASSUME NEW S, NEW q \in Queues(S), NEW n \in Nat
  PROVE  /\ Taken(q, n, "normal") > 0 => Taken(q, n, "high") = Len(q["high"])
         /\ Taken(q, n, "low") > 0 => /\ Taken(q, n, "high") = Len(q["high"])
                                      /\ Taken(q, n, "normal") = Len(q["normal"])
<1> DEFINE h == Len(q["high"])
           m == Len(q["normal"])
           w == Len(q["low"])
           th == AtMost(n, h)
           tm == AtMost(n - th, m)
           tw == AtMost(n - th - tm, w)
<1>1. h \in Nat /\ m \in Nat /\ w \in Nat
  BY QueueShape DEF LaneNames
<1>2. Taken(q, n, "high") = th /\ Taken(q, n, "normal") = tm /\ Taken(q, n, "low") = tw
  BY DEF Taken
<1> HIDE DEF h, m, w
<1>3. (tm > 0 => th = h) /\ (tw > 0 => th = h /\ tm = m)
  BY <1>1 DEF AtMost
<1> HIDE DEF th, tm, tw
<1> QED BY <1>2, <1>3 DEF h, m

\* In a queue without duplicates the items that a Drain leaves are those
\* beyond the cut.
LEMMA LeftBehind ==
  ASSUME NEW S, NEW q \in Queues(S), NEW n \in Nat, NoDuplicates(q),
         NEW l \in LaneNames, NEW i \in 1 .. Len(q[l])
  PROVE  q[l][i] \in Waiting(Rest(q, n)) <=> i > Taken(q, n, l)
<1> DEFINE t == Taken(q, n, l)
           k == Len(q[l])
           D == DrainedItems(q, n)
           W == Waiting(Rest(q, n))
<1>1. k \in Nat /\ t \in 0 .. k /\ i \in 1 .. k
  BY QueueShape, TakenBound
<1>2. Waiting(q) = D \cup W /\ D \cap W = {}
  BY DrainProperties
<1>3. q[l][i] \in Waiting(q)
  <2>1. \A x : x \in Waiting(q) <=>
          \E a \in LaneNames : \E j \in 1 .. Len(q[a]) : q[a][j] = x
    BY QueueShape
  <2> QED BY <2>1, Zenon
<1>4. \A x : x \in D <=> \E a \in LaneNames : \E j \in 1 .. Taken(q, n, a) : q[a][j] = x
  BY DrainCut, SMTT(30)
<1>5. ASSUME i <= t PROVE q[l][i] \in D
  <2>1. i \in 1 .. t
    <3> HIDE DEF t, k
    <3> QED BY <1>1, <1>5
  <2> QED BY <2>1, <1>4, Zenon
<1>6. ASSUME q[l][i] \in D PROVE i <= t
  <2>1. PICK a \in LaneNames : \E j \in 1 .. Taken(q, n, a) : q[a][j] = q[l][i]
    BY <1>4, <1>6, Zenon
  <2>2. PICK j \in 1 .. Taken(q, n, a) : q[a][j] = q[l][i]
    BY <2>1
  <2>3. j \in 1 .. Len(q[a])
    <3> DEFINE u == Taken(q, n, a)
               v == Len(q[a])
    <3>1. v \in Nat /\ u \in 0 .. v /\ j \in 1 .. u
      BY QueueShape, TakenBound
    <3> HIDE DEF u, v
    <3>2. j \in 1 .. v
      BY <3>1
    <3> QED BY <3>2 DEF v
  <2>4. a = l /\ j = i
    BY <2>2, <2>3, ZenonT(40) DEF NoDuplicates
  <2>5. i \in 1 .. t
    BY <2>4, Zenon
  <2> HIDE DEF t, k
  <2> QED BY <1>1, <2>5
<1> HIDE DEF t, k, D, W
<1>7. i > t <=> ~(i <= t)
  BY <1>1
<1>8. q[l][i] \in W <=> i > t
  BY <1>2, <1>3, <1>5, <1>6, <1>7, Zenon
<1> QED BY <1>8 DEF W, t
=============================================================================
