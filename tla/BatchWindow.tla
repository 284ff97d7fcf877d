----------------------------- MODULE BatchWindow -----------------------------
(***************************************************************************)
(* One batcher's own view of its work: the adaptive window it sleeps, the  *)
(* queue it drains and the ring of dispatch latencies it learns from       *)
(* (adaptiveWait, latencyHist and the body of loop in                      *)
(* services/scheduler/internal/batcher/batcher.go).  Scheduler says how    *)
(* loops, handlers and goroutines interleave; this module says what the    *)
(* loop computes.  Latencies are whole milliseconds, as the code records   *)
(* them.                                                                   *)
(***************************************************************************)
EXTENDS PriorityQueue, FiniteSets

CONSTANTS
  Cap,            \* newLatencyHist(1000)
  Percentile,     \* 99
  MaxWaitMs,      \* Config.MaxWaitMs: 30
  MinWaitMs,      \* Config.MinWaitMs: 5
  P99SLOMs,       \* Config.P99SLOMs: 500
  Busy, Crowded,  \* the depths 5 and 20 that adaptiveWait compares with
  MaxBatchSize,
  MaxDepth,
  Latencies,      \* latencies that dispatches may show
  MaxItems        \* bound: items that arrive

ASSUME WindowAssumption ==
  /\ Cap \in Nat \ {0} /\ Percentile \in 1 .. 100
  /\ MaxWaitMs \in Nat /\ MinWaitMs \in Nat \ {0} /\ P99SLOMs \in Nat
  /\ 2 * MinWaitMs <= MaxWaitMs
  /\ Busy \in Nat /\ Crowded \in Nat /\ Busy <= Crowded
  /\ MaxBatchSize \in Nat \ {0} /\ MaxDepth \in Nat \ {0}
  /\ Latencies \subseteq Nat
  /\ MaxItems \in Nat

VARIABLES
  lanes,     \* the model's queue; items are numbered in order of arrival
  arrived,   \* number of items that arrived
  samples,   \* latencyHist.samples, indices 0 .. Cap - 1
  head,      \* latencyHist.head
  wait,      \* the window the loop sleeps now (0 before the first)
  took       \* history: the latencies of all dispatches, in order

vars == <<lanes, arrived, samples, head, wait, took>>

Init ==
  /\ lanes = EmptyQueue
  /\ arrived = 0
  /\ samples = [i \in 0 .. Cap - 1 |-> 0]
  /\ head = 0
  /\ wait = 0
  /\ took = <<>>

\* vals[:n], the filled part of the ring, copied before it is sorted.
Filled == [i \in 1 .. AtMost(head, Cap) |-> samples[i - 1]]

\* Where the insertion sort puts element i of s, and what it leaves: the sort
\* is stable, so an element goes behind all that are smaller and all that are
\* equal and were ahead of it.
Place(s, i) == Cardinality({j \in DOMAIN s : s[j] < s[i] \/ (s[j] = s[i] /\ j <= i)})
Sorted(s)   == [k \in DOMAIN s |-> s[CHOOSE i \in DOMAIN s : Place(s, i) = k]]

\* ceil(n * 0.99), the one-based rank of the percentile.
Rank(n) == (n * Percentile + 99) \div 100

P99 ==
  LET n == AtMost(head, Cap)
  IN  IF n = 0 THEN 0 ELSE Sorted(Filled)[Rank(n)]

\* Mutant of AdaptiveWait: the halved window is tested first.
AdaptiveWaitHalvesFirst(depth, p99) ==
  IF depth > Busy THEN MaxWaitMs \div 2
  ELSE IF depth > Crowded \/ 2 * p99 > 3 * P99SLOMs THEN MinWaitMs
  ELSE MaxWaitMs

\* adaptiveWait: the thresholds are depth and 1.5 times the target p99.
AdaptiveWait(depth, p99) ==
  IF depth > Crowded \/ 2 * p99 > 3 * P99SLOMs THEN MinWaitMs
  ELSE IF depth > Busy THEN MaxWaitMs \div 2
  ELSE MaxWaitMs

-----------------------------------------------------------------------------
Arrive(priority) ==
  /\ arrived < MaxItems
  /\ ~Full(lanes, MaxDepth)
  /\ lanes' = Push(lanes, priority, arrived + 1)
  /\ arrived' = arrived + 1
  /\ UNCHANGED <<samples, head, wait, took>>

\* The loop looks at the queue and at its history and goes to sleep.  Items
\* may still arrive before it wakes up.
Sleep ==
  /\ wait = 0
  /\ wait' = AdaptiveWait(Depth(lanes), P99)
  /\ UNCHANGED <<lanes, arrived, samples, head, took>>

\* Mutant of Record: head is kept inside the ring, so that the filled part
\* seems to shrink when it wraps around.
RecordWraps(ms) ==
  /\ samples' = [samples EXCEPT ![head] = ms]
  /\ head' = (head + 1) % Cap

\* latencyHist.Record
Record(ms) ==
  /\ samples' = [samples EXCEPT ![head % Cap] = ms]
  /\ head' = head + 1

\* The loop wakes up and drains.  With nothing to do it goes back to sleep;
\* a batch is dispatched, which takes ms, and is recorded.
WakeUp(ms) ==
  /\ wait # 0
  /\ wait' = 0
  /\ lanes' = Rest(lanes, MaxBatchSize)
  /\ IF Drained(lanes, MaxBatchSize) = <<>>
       THEN UNCHANGED <<samples, head, took>>
       ELSE /\ Record(ms)
            /\ took' = Append(took, ms)
  /\ UNCHANGED arrived

Next ==
  \/ \E priority \in {"high", "normal", "low"} : Arrive(priority)
  \/ Sleep
  \/ \E ms \in Latencies : WakeUp(ms)

Spec == Init /\ [][Next]_vars

-----------------------------------------------------------------------------
(* Reference definitions and properties.                                    *)

\* The last Cap latencies.
Recent == SubSeq(took, Len(took) - AtMost(Len(took), Cap) + 1, Len(took))

\* The nearest-rank percentile of a sequence: its least element that at least
\* Percentile per cent of the elements do not exceed.
IsPercentile(v, s) ==
  LET covers(x) == 100 * Cardinality({i \in DOMAIN s : s[i] <= x}) >= Percentile * Len(s)
  IN  /\ v \in Range(s) /\ covers(v)
      /\ \A x \in Range(s) : covers(x) => v <= x

\* Ring, copy, insertion sort and index compute the percentile of the most
\* recent dispatches: before the ring is full, when it wraps and after.
P99IsRecent ==
  IF took = <<>> THEN P99 = 0 ELSE IsPercentile(P99, Recent)

\* The window only ever shrinks as the queue grows, and a slow executor (p99
\* beyond 1.5 times its target) gets the shortest one at any depth.
WindowShrinksWithLoad ==
  /\ \A d, e \in 0 .. MaxDepth : d <= e => AdaptiveWait(e, P99) <= AdaptiveWait(d, P99)
  /\ (\E v \in Range(Recent) : IsPercentile(v, Recent) /\ 2 * v > 3 * P99SLOMs)
       => \A d \in 0 .. MaxDepth : AdaptiveWait(d, P99) = MinWaitMs

\* Drain as the code computes it: one iteration per item, each taking the head
\* of the first lane that is not empty.
DrainLoop(q, n) ==
  LET first(s) == CHOOSE l \in LaneNames :
                    /\ s[l] # <<>>
                    /\ l = "normal" => s["high"] = <<>>
                    /\ l = "low"    => s["high"] = <<>> /\ s["normal"] = <<>>
      after[k \in 0 .. n] ==
        IF k = 0 THEN [out |-> <<>>, q |-> q]
        ELSE LET s == after[k - 1] IN
             IF Waiting(s.q) = {} THEN s
             ELSE LET l == first(s.q) IN
                  [out |-> Append(s.out, Head(s.q[l])), q |-> [s.q EXCEPT ![l] = Tail(@)]]
  IN  after[n]

\* On every queue, and for every batch size, the closed form of Drain that the
\* proofs use is what the code's loop computes.
DrainIsTheLoop ==
  \A n \in 1 .. MaxDepth + 1 :
    DrainLoop(lanes, n) = [out |-> Drained(lanes, n), q |-> Rest(lanes, n)]

\* Drain order: an item leaves its queue only together with everything that
\* outranks it and everything ahead of it in its own lane (ADR-002: the
\* highest lane is always served first).
DrainRespectsPriority ==
  [][\A k, l \in LaneNames : \A i \in 1 .. Len(lanes[k]), j \in 1 .. Len(lanes[l]) :
       LET ahead  == lanes[k][i]
           behind == lanes[l][j]
           before == \/ k = "high" /\ l # "high"
                     \/ k = "normal" /\ l = "low"
                     \/ k = l /\ i < j
       IN  before /\ behind \notin Waiting(lanes') => ahead \notin Waiting(lanes')]_vars

=============================================================================
