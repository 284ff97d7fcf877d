---------------------------- MODULE PriorityQueue ----------------------------
(***************************************************************************)
(* The three-lane priority queue of one model, ModelQueue in               *)
(* services/scheduler/internal/queue/queue.go.  A queue is a function from *)
(* lane names to sequences of items; every method of the code runs under   *)
(* the queue's mutex, so each is one operator here.                        *)
(***************************************************************************)
EXTENDS Naturals, Sequences, Functions

\* The lanes in the order Drain serves them.
LaneNames == {"high", "normal", "low"}

\* The switch of Enqueue: everything that is not critical, high or normal
\* (an unset priority too) falls into the low lane.
Lane(priority) ==
  CASE priority \in {"critical", "high"} -> "high"
    [] priority = "normal"               -> "normal"
    [] OTHER                             -> "low"

Queues(Item) == [LaneNames -> Seq(Item)]

EmptyQueue == [l \in LaneNames |-> <<>>]

\* len(high) + len(normal) + len(low)
Depth(q) == Len(q["high"]) + Len(q["normal"]) + Len(q["low"])

\* The items of a queue, whichever lane they wait in.
Waiting(q) == UNION {Range(q[l]) : l \in LaneNames}

\* No item is in the queue twice.
NoDuplicates(q) ==
  \A k, l \in LaneNames : \A i \in 1 .. Len(q[k]), j \in 1 .. Len(q[l]) :
    q[k][i] = q[l][j] => k = l /\ i = j

\* Mutant of Full: the comparison is off by one.
FullOffByOne(q, maxDepth) == Depth(q) > maxDepth

Full(q, maxDepth) == Depth(q) >= maxDepth

\* Enqueue's append, once the depth check has let the item in.
Push(q, priority, item) ==
  [q EXCEPT ![Lane(priority)] = Append(@, item)]

(***************************************************************************)
(* Drain(n) takes the head of the first non-empty lane until it has n      *)
(* items or the queue is empty.  Taken(q, n, l) is the number of items     *)
(* that loop takes from lane l: a lane is reached only with what the lanes *)
(* before it left of n.                                                    *)
(***************************************************************************)
AtMost(n, k) == IF n <= k THEN n ELSE k

\* Mutant of Taken: the low lane is served first.
TakenLowFirst(q, n, l) ==
  LET w == AtMost(n, Len(q["low"]))
      m == AtMost(n - w, Len(q["normal"]))
  IN  CASE l = "low"    -> w
        [] l = "normal" -> m
        [] l = "high"   -> AtMost(n - w - m, Len(q["high"]))

\* Mutant of Taken: the normal lane does not see what the high lane took.
TakenForgetsHigh(q, n, l) ==
  LET h == AtMost(n, Len(q["high"]))
      m == AtMost(n, Len(q["normal"]))
  IN  CASE l = "high"   -> h
        [] l = "normal" -> m
        [] l = "low"    -> IF h + m >= n THEN 0 ELSE AtMost(n - h - m, Len(q["low"]))

Taken(q, n, l) ==
  LET h == AtMost(n, Len(q["high"]))
      m == AtMost(n - h, Len(q["normal"]))
  IN  CASE l = "high"   -> h
        [] l = "normal" -> m
        [] l = "low"    -> AtMost(n - h - m, Len(q["low"]))

Front(q, n, l) == SubSeq(q[l], 1, Taken(q, n, l))

\* What Drain(n) returns.
Drained(q, n) == Front(q, n, "high") \o Front(q, n, "normal") \o Front(q, n, "low")

DrainedItems(q, n) == Range(Drained(q, n))

\* Mutant of Rest: the low lane is returned but not shortened.
RestKeepsLow(q, n) ==
  [l \in LaneNames |-> IF l = "low" THEN q[l]
                       ELSE SubSeq(q[l], Taken(q, n, l) + 1, Len(q[l]))]

\* What Drain(n) leaves behind.
Rest(q, n) == [l \in LaneNames |-> SubSeq(q[l], Taken(q, n, l) + 1, Len(q[l]))]

=============================================================================
