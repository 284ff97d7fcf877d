------------------------------ MODULE Scheduler ------------------------------
(***************************************************************************)
(* The scheduler service: the Schedule RPC handlers, the lazily created    *)
(* batcher of each model with its dispatch loop and per-item goroutines,   *)
(* the per-model priority queues, and the start-to-stop life of the        *)
(* process (services/scheduler/cmd/main.go, internal/queue/queue.go,       *)
(* internal/batcher/batcher.go).                                           *)
(*                                                                         *)
(* Requests are one-shot: r stands for one Schedule call, for the queue    *)
(* item it makes and for that item's ResultCh.  The batcher that call r    *)
(* creates is also named r, so that two calls that both created one would  *)
(* be seen as two batchers.                                                *)
(***************************************************************************)
EXTENDS PriorityQueue, FiniteSets

CONSTANTS
  Requests,      \* the Schedule calls that clients may make
  Models,        \* model ids
  Priorities,    \* priorities that occur in requests
  MaxDepth,      \* queue.NewRegistry(10000): capacity of one model's queue
  MaxBatchSize,  \* batcher.Config.MaxBatchSize
  DialMayFail    \* whether grpc.NewClient may reject the executor address

ASSUME CapacityAssumption ==
  /\ IsFiniteSet(Requests)
  /\ MaxDepth \in Nat \ {0}
  /\ MaxBatchSize \in Nat \ {0}
  /\ DialMayFail \in BOOLEAN

VARIABLES
  req,       \* req[r]: the model and the priority call r asks for
  pc,        \* pc[r]: where the handler goroutine of call r is
  answer,    \* answer[r]: what the RPC returned
  resultCh,  \* resultCh[r]: the one-slot channel of the item of r
  batchers,  \* batchers[m]: the map entry of model m ({} if absent)
  loop,      \* loop[b]: where the loop goroutine of batcher b is
  client,    \* client[b]: the lazily dialled executor client of b
  lanes,     \* lanes[m]: the priority queue of model m
  batch,     \* batch[b]: the items of the batch b is dispatching
  pending,   \* pending[b]: those items of it with no result sent yet
  phase,     \* life of the process
  qStats,    \* qStats[m]: counters of the queue of m
  sMetrics,  \* counters of the service
  processed  \* BatchMetrics.RequestsProcessed

callVars == <<pc, answer>>
loopVars == <<loop, client, batch, pending>>
vars == <<req, pc, answer, resultCh, batchers, loop, client, lanes, batch,
          pending, phase, qStats, sMetrics, processed>>

Results == {"ok", "execErr", "dialErr"}
Answers == Results \cup {"none", "shed", "deadline", "canceled"}

CallStates == {"idle", "lookup", "create", "enqueue", "count", "shed", "wait", "done"}
LoopStates == {"none", "check", "sleep", "dial", "run", "fail", "exited"}
Phases     == {"serving", "draining", "stopped", "exited", "crashed"}

QueueCounters   == {"enqueued", "dropped", "dispatched"}
ServiceCounters == {"Enqueued", "Dispatched", "LoadShedded", "Errors"}

\* atomic.Int64.Add on one counter of a group.
Bump(counters, name, n) == [counters EXCEPT ![name] = @ + n]

modelOf(r) == req[r].model

\* A panic in any goroutine, or main's return, ends the process and with it
\* all goroutines.
Alive == phase \notin {"exited", "crashed"}

Init ==
  /\ req \in [Requests -> [model : Models, priority : Priorities]]
  /\ pc = [r \in Requests |-> "idle"]
  /\ answer = [r \in Requests |-> "none"]
  /\ resultCh = [r \in Requests |-> "empty"]
  /\ batchers = [m \in Models |-> {}]
  /\ loop = [b \in Requests |-> "none"]
  /\ client = [b \in Requests |-> "undialled"]
  /\ lanes = [m \in Models |-> EmptyQueue]
  /\ batch = [b \in Requests |-> {}]
  /\ pending = [b \in Requests |-> {}]
  /\ phase = "serving"
  /\ qStats = [m \in Models |-> [c \in QueueCounters |-> 0]]
  /\ sMetrics = [c \in ServiceCounters |-> 0]
  /\ processed = 0

-----------------------------------------------------------------------------
(* The Schedule handler of call r.                                          *)

Goto(r, from, to) == pc[r] = from /\ pc' = [pc EXCEPT ![r] = to]

\* The RPC arrives and is counted, whatever becomes of it.
Call(r) ==
  /\ phase = "serving"
  /\ Goto(r, "idle", "lookup")
  /\ sMetrics' = Bump(sMetrics, "Enqueued", 1)
  /\ UNCHANGED <<req, answer, resultCh, batchers, loopVars, lanes, phase, qStats, processed>>

\* getBatcher's fast path: the map is read under the read lock.
LookupBatcher(r) ==
  /\ Alive
  /\ Goto(r, "lookup", IF batchers[modelOf(r)] = {} THEN "create" ELSE "enqueue")
  /\ UNCHANGED <<req, answer, resultCh, batchers, loopVars, lanes, phase, qStats,
                 sMetrics, processed>>

\* Mutant of CreateBatcher: no second look under the write lock.
CreateBatcherUnchecked(r) ==
  /\ Alive
  /\ Goto(r, "create", "enqueue")
  /\ batchers' = [batchers EXCEPT ![modelOf(r)] = {r}]
  /\ loop' = [loop EXCEPT ![r] = "check"]
  /\ UNCHANGED <<req, answer, resultCh, client, batch, pending, lanes, phase, qStats,
                 sMetrics, processed>>

\* getBatcher's slow path, under the write lock: look again, and only then
\* create the batcher, start its loop and publish it.  The model's queue is
\* created with it (Registry.Queue), empty.
CreateBatcher(r) ==
  /\ Alive
  /\ Goto(r, "create", "enqueue")
  /\ IF batchers[modelOf(r)] = {}
       THEN /\ batchers' = [batchers EXCEPT ![modelOf(r)] = {r}]
            /\ loop' = [loop EXCEPT ![r] = "check"]
       ELSE UNCHANGED <<batchers, loop>>
  /\ UNCHANGED <<req, answer, resultCh, client, batch, pending, lanes, phase, qStats,
                 sMetrics, processed>>

\* ModelQueue.Enqueue up to its unlock.
Enqueue(r) ==
  /\ Alive
  /\ IF Full(lanes[modelOf(r)], MaxDepth)
       THEN /\ Goto(r, "enqueue", "shed")
            /\ UNCHANGED lanes
       ELSE /\ Goto(r, "enqueue", "count")
            /\ lanes' = [lanes EXCEPT ![modelOf(r)] = Push(@, req[r].priority, r)]
  /\ UNCHANGED <<req, answer, resultCh, batchers, loopVars, phase, qStats, sMetrics, processed>>

\* The counter is bumped after the unlock: the batcher may already have
\* drained, run and answered the item.
CountEnqueued(r) ==
  /\ Alive
  /\ Goto(r, "count", "wait")
  /\ qStats' = [qStats EXCEPT ![modelOf(r)] = Bump(@, "enqueued", 1)]
  /\ UNCHANGED <<req, answer, resultCh, batchers, loopVars, lanes, phase, sMetrics, processed>>

Return(r, from, result) ==
  /\ Goto(r, from, "done")
  /\ answer' = [answer EXCEPT ![r] = result]

\* Mutant of Shed: the early return skips the service's counter.
ShedUncounted(r) ==
  /\ Alive
  /\ Return(r, "shed", "shed")
  /\ qStats' = [qStats EXCEPT ![modelOf(r)] = Bump(@, "dropped", 1)]
  /\ UNCHANGED <<req, resultCh, batchers, loopVars, lanes, phase, sMetrics, processed>>

\* A full queue: both counters, then RESOURCE_EXHAUSTED.
Shed(r) ==
  /\ Alive
  /\ Return(r, "shed", "shed")
  /\ qStats' = [qStats EXCEPT ![modelOf(r)] = Bump(@, "dropped", 1)]
  /\ sMetrics' = Bump(sMetrics, "LoadShedded", 1)
  /\ UNCHANGED <<req, resultCh, batchers, loopVars, lanes, phase, processed>>

\* The three arms of the final select.  When several are ready Go picks any.
ReceiveResult(r) ==
  /\ Alive
  /\ resultCh[r] # "empty"
  /\ Return(r, "wait", resultCh[r])
  /\ resultCh' = [resultCh EXCEPT ![r] = "empty"]
  /\ sMetrics' = Bump(sMetrics, IF resultCh[r] = "ok" THEN "Dispatched" ELSE "Errors", 1)
  /\ UNCHANGED <<req, batchers, loopVars, lanes, phase, qStats, processed>>

\* Mutant of Deadline: a call that waited too long is told that it was shed,
\* though its item stays where it is.
DeadlineSheds(r) ==
  /\ Alive
  /\ Return(r, "wait", "shed")
  /\ sMetrics' = Bump(sMetrics, "LoadShedded", 1)
  /\ UNCHANGED <<req, resultCh, batchers, loopVars, lanes, phase, qStats, processed>>

Deadline(r) ==
  /\ Alive
  /\ Return(r, "wait", "deadline")
  /\ sMetrics' = Bump(sMetrics, "Errors", 1)
  /\ UNCHANGED <<req, resultCh, batchers, loopVars, lanes, phase, qStats, processed>>

ClientCancel(r) ==
  /\ Alive
  /\ Return(r, "wait", "canceled")
  /\ UNCHANGED <<req, resultCh, batchers, loopVars, lanes, phase, qStats, sMetrics, processed>>

-----------------------------------------------------------------------------
(* The loop goroutine of batcher b and the goroutines of its batch.         *)

LoopGoto(b, from, to) == loop[b] = from /\ loop' = [loop EXCEPT ![b] = to]

\* The head of the loop: leave if the context is cancelled, else sleep for
\* the adaptive window (its length decides when, not what, is drained).
CheckContext(b) ==
  /\ Alive
  /\ LoopGoto(b, "check", IF phase = "stopped" THEN "exited" ELSE "sleep")
  /\ UNCHANGED <<req, callVars, resultCh, batchers, client, batch, pending, lanes, phase,
                 qStats, sMetrics, processed>>

\* Mutant of DrainQueue: `return` instead of `continue` on an empty drain.
DrainQueueReturns(b) ==
  LET q == lanes[modelOf(b)] IN
  /\ Alive
  /\ LoopGoto(b, "sleep", IF DrainedItems(q, MaxBatchSize) = {} THEN "exited" ELSE "dial")
  /\ lanes' = [lanes EXCEPT ![modelOf(b)] = Rest(q, MaxBatchSize)]
  /\ batch' = [batch EXCEPT ![b] = DrainedItems(q, MaxBatchSize)]
  /\ qStats' = [qStats EXCEPT ![modelOf(b)] = Bump(@, "dispatched", Len(Drained(q, MaxBatchSize)))]
  /\ UNCHANGED <<req, callVars, resultCh, batchers, client, pending, phase, sMetrics, processed>>

\* Drain(MaxBatchSize), and `continue` when it returned nothing.
DrainQueue(b) ==
  LET q == lanes[modelOf(b)] IN
  /\ Alive
  /\ LoopGoto(b, "sleep", IF DrainedItems(q, MaxBatchSize) = {} THEN "check" ELSE "dial")
  /\ lanes' = [lanes EXCEPT ![modelOf(b)] = Rest(q, MaxBatchSize)]
  /\ batch' = [batch EXCEPT ![b] = DrainedItems(q, MaxBatchSize)]
  /\ qStats' = [qStats EXCEPT ![modelOf(b)] = Bump(@, "dispatched", Len(Drained(q, MaxBatchSize)))]
  /\ UNCHANGED <<req, callVars, resultCh, batchers, client, pending, phase, sMetrics, processed>>

\* Mutant of Dial: a failed dial returns without answering the batch.
DialDropsBatch(b) ==
  /\ client[b] = "undialled"
  /\ \/ /\ client' = [client EXCEPT ![b] = "dialled"]
        /\ LoopGoto(b, "dial", "run")
        /\ pending' = [pending EXCEPT ![b] = batch[b]]
     \/ /\ DialMayFail
        /\ client' = [client EXCEPT ![b] = "nil"]
        /\ LoopGoto(b, "dial", "fail")
        /\ UNCHANGED pending
  /\ UNCHANGED phase

\* execClientLazy dials once.  Its error is a local variable of the call that
\* dialled, so a later call returns a nil client and no error.
Dial(b) ==
  /\ client[b] = "undialled"
  /\ \/ /\ client' = [client EXCEPT ![b] = "dialled"]
        /\ LoopGoto(b, "dial", "run")
     \/ /\ DialMayFail
        /\ client' = [client EXCEPT ![b] = "nil"]
        /\ LoopGoto(b, "dial", "fail")
  /\ pending' = [pending EXCEPT ![b] = batch[b]]
  /\ UNCHANGED phase

ReuseClient(b) ==
  /\ client[b] = "dialled"
  /\ LoopGoto(b, "dial", "run")
  /\ pending' = [pending EXCEPT ![b] = batch[b]]
  /\ UNCHANGED <<client, phase>>

\* client.Execute on a nil interface panics in the item's goroutine.
CallNilClient(b) ==
  /\ client[b] = "nil"
  /\ loop[b] = "dial"
  /\ phase' = "crashed"
  /\ UNCHANGED <<loop, client, pending>>

Dispatch(b) ==
  /\ Alive
  /\ Dial(b) \/ ReuseClient(b) \/ CallNilClient(b)
  /\ UNCHANGED <<req, callVars, resultCh, batchers, lanes, batch, qStats, sMetrics, processed>>

\* Sending on a channel whose slot is taken would block the goroutine.
Send(b, r, result) ==
  /\ r \in pending[b]
  /\ resultCh[r] = "empty"
  /\ resultCh' = [resultCh EXCEPT ![r] = result]
  /\ pending' = [pending EXCEPT ![b] = @ \ {r}]

\* Mutant of ExecuteItem: no return after the error is sent, so the
\* goroutine goes on to send a second result.
ExecuteItemFallsThrough(b, r) ==
  /\ Alive
  /\ loop[b] = "run"
  /\ \/ Send(b, r, "ok")
     \/ /\ r \in pending[b]
        /\ resultCh[r] = "empty"
        /\ resultCh' = [resultCh EXCEPT ![r] = "execErr"]
        /\ UNCHANGED pending
  /\ UNCHANGED <<req, callVars, batchers, loop, client, batch, lanes, phase, qStats,
                 sMetrics, processed>>

\* An item's goroutine of defaultDispatch: Execute answers, fails, or is cut
\* off by the dispatch timeout; one result is sent either way.
ExecuteItem(b, r) ==
  /\ Alive
  /\ loop[b] = "run"
  /\ \E result \in {"ok", "execErr"} : Send(b, r, result)
  /\ UNCHANGED <<req, callVars, batchers, loop, client, batch, lanes, phase, qStats,
                 sMetrics, processed>>

\* Mutant of FinishBatch: the counter is decremented.
FinishBatchSubtracts(b) ==
  /\ Alive
  /\ pending[b] = {}
  /\ LoopGoto(b, "run", "check")
  /\ processed' = 0 - Cardinality(batch[b])
  /\ batch' = [batch EXCEPT ![b] = {}]
  /\ UNCHANGED <<req, callVars, resultCh, batchers, client, pending, lanes, phase, qStats,
                 sMetrics>>

\* wg.Wait returns; the batch is recorded and the loop starts over.
FinishBatch(b) ==
  /\ Alive
  /\ pending[b] = {}
  /\ LoopGoto(b, "run", "check")
  /\ processed' = processed + Cardinality(batch[b])
  /\ batch' = [batch EXCEPT ![b] = {}]
  /\ UNCHANGED <<req, callVars, resultCh, batchers, client, pending, lanes, phase, qStats,
                 sMetrics>>

\* The dial failed: every item of the batch gets the error.  The order in
\* which the items' channels are written is left open.
SendDialError(b, r) ==
  /\ Alive
  /\ loop[b] = "fail"
  /\ Send(b, r, "dialErr")
  /\ UNCHANGED <<req, callVars, batchers, loop, client, batch, lanes, phase, qStats,
                 sMetrics, processed>>

\* Mutant of AbandonBatch: the loop ends with the failed dispatch.
AbandonBatchExits(b) ==
  /\ Alive
  /\ pending[b] = {}
  /\ LoopGoto(b, "fail", "exited")
  /\ batch' = [batch EXCEPT ![b] = {}]
  /\ UNCHANGED <<req, callVars, resultCh, batchers, client, pending, lanes, phase, qStats,
                 sMetrics, processed>>

\* dispatch returned without recording the batch.
AbandonBatch(b) ==
  /\ Alive
  /\ pending[b] = {}
  /\ LoopGoto(b, "fail", "check")
  /\ batch' = [batch EXCEPT ![b] = {}]
  /\ UNCHANGED <<req, callVars, resultCh, batchers, client, pending, lanes, phase, qStats,
                 sMetrics, processed>>

-----------------------------------------------------------------------------
(* The life of the process: main.                                           *)

\* SIGTERM: grpcSrv.GracefulStop takes no new RPC from here on.
Terminate ==
  /\ phase = "serving"
  /\ phase' = "draining"
  /\ UNCHANGED <<req, callVars, resultCh, batchers, loopVars, lanes, qStats, sMetrics, processed>>

\* Mutant of Stop: Stop runs without waiting for the handlers.
StopAtOnce ==
  /\ phase = "draining"
  /\ phase' = "stopped"
  /\ UNCHANGED <<req, callVars, resultCh, batchers, loopVars, lanes, qStats, sMetrics, processed>>

\* GracefulStop returns when no RPC is running; the deferred Stop then
\* cancels the context that every loop polls.
Stop ==
  /\ phase = "draining"
  /\ \A r \in Requests : pc[r] \in {"idle", "done"}
  /\ phase' = "stopped"
  /\ UNCHANGED <<req, callVars, resultCh, batchers, loopVars, lanes, qStats, sMetrics, processed>>

\* main returns right after Stop; it waits for no loop.
Exit ==
  /\ phase = "stopped"
  /\ phase' = "exited"
  /\ UNCHANGED <<req, callVars, resultCh, batchers, loopVars, lanes, qStats, sMetrics, processed>>

\* The process is gone.
Halted ==
  /\ ~Alive
  /\ UNCHANGED vars

HandlerStep(r) ==
  \/ LookupBatcher(r) \/ CreateBatcher(r) \/ Enqueue(r) \/ CountEnqueued(r)
  \/ Shed(r) \/ ReceiveResult(r)

LoopStep(b) ==
  \/ CheckContext(b) \/ DrainQueue(b) \/ Dispatch(b) \/ FinishBatch(b) \/ AbandonBatch(b)

ItemStep(b, r) == ExecuteItem(b, r) \/ SendDialError(b, r)

Next ==
  \/ \E r \in Requests : Call(r) \/ HandlerStep(r) \/ Deadline(r) \/ ClientCancel(r)
  \/ \E b \in Requests : LoopStep(b)
  \/ \E b, r \in Requests : ItemStep(b, r)
  \/ Terminate \/ Stop \/ Exit \/ Halted

Spec == Init /\ [][Next]_vars

(***************************************************************************)
(* Goroutines that can run do run; an Execute call ends because the        *)
(* dispatch context has a timeout.  Nothing is assumed of clients, of      *)
(* their deadlines, or of when the process is terminated.                  *)
(***************************************************************************)
Fairness ==
  /\ \A r \in Requests : WF_vars(HandlerStep(r))
  /\ \A b \in Requests : WF_vars(LoopStep(b))
  /\ \A r \in Requests : WF_vars(\E b \in Requests : ItemStep(b, r))

FairSpec == Spec /\ Fairness

-----------------------------------------------------------------------------
(* Properties.                                                              *)

TypeOK ==
  /\ req \in [Requests -> [model : Models, priority : Priorities]]
  /\ pc \in [Requests -> CallStates]
  /\ answer \in [Requests -> Answers]
  /\ resultCh \in [Requests -> Results \cup {"empty"}]
  /\ batchers \in [Models -> SUBSET Requests]
  /\ loop \in [Requests -> LoopStates]
  /\ client \in [Requests -> {"undialled", "dialled", "nil"}]
  /\ lanes \in [Models -> Queues(Requests)]
  /\ batch \in [Requests -> SUBSET Requests]
  /\ pending \in [Requests -> SUBSET Requests]
  /\ phase \in Phases
  /\ qStats \in [Models -> [QueueCounters -> Nat]]
  /\ sMetrics \in [ServiceCounters -> Nat]
  /\ processed \in Nat

\* getBatcher's double check: a model never has two dispatch loops, and the
\* one it has is the one Stop finds in the map.
OneLoopPerModel ==
  \A b \in Requests : loop[b] # "none" => batchers[modelOf(b)] = {b}

\* The capacity check and the append are one critical section, so handlers
\* racing for the last slot never overfill a queue.
DepthBounded == \A m \in Models : Depth(lanes[m]) <= MaxDepth

\* A ResultCh has one slot and may have no reader any more (the call timed
\* out).  The goroutine that is about to send always finds the slot free: no
\* item is dispatched twice, and a late result never blocks the batcher.
SendNeverBlocks ==
  \A b, r \in Requests : r \in pending[b] => resultCh[r] = "empty"

(***************************************************************************)
(* The inductive invariant behind the safety properties, in two parts.     *)
(* BatcherInv: who has started which loop.  Only a batcher found in the    *)
(* map runs, it runs for its own model, a handler past getBatcher has one  *)
(* to rely on, and loops leave only when no handler is left.               *)
(* ItemInv: where an item is.  Queued and dispatched items belong to the   *)
(* queue's and the batcher's model, no item is in two places, and one that *)
(* waits for its result has had none.                                      *)
(***************************************************************************)
Quiet == \A r \in Requests : pc[r] \in {"idle", "done"}

BatcherInv ==
  /\ OneLoopPerModel
  /\ \A m \in Models : \A b \in batchers[m] : modelOf(b) = m /\ loop[b] # "none"
  /\ \A r \in Requests :
       pc[r] \in {"enqueue", "count", "shed", "wait"} => batchers[modelOf(r)] # {}
  /\ \A b \in Requests : loop[b] = "exited" => Quiet /\ phase \in {"stopped", "exited", "crashed"}
  /\ phase = "stopped" => Quiet

Unanswered(r) ==
  /\ pc[r] \in {"count", "wait", "done"}
  /\ resultCh[r] = "empty"
  /\ answer[r] \in {"none", "deadline", "canceled"}

FreshInv ==
  \A r \in Requests : pc[r] \in {"idle", "lookup", "create", "enqueue"} =>
    resultCh[r] = "empty" /\ answer[r] = "none"

QueueInv ==
  \A m \in Models :
    /\ NoDuplicates(lanes[m])
    /\ \A r \in Waiting(lanes[m]) : modelOf(r) = m /\ Unanswered(r)

BatchInv ==
  \A b \in Requests :
    /\ \A r \in batch[b] :
         /\ modelOf(r) = modelOf(b)
         /\ pc[r] \in {"count", "wait", "done"}
         /\ r \notin Waiting(lanes[modelOf(b)])
         /\ loop[b] = "dial" \/ r \in pending[b] => Unanswered(r)
    /\ pending[b] \subseteq batch[b]
    /\ batch[b] # {} => loop[b] \in {"dial", "run", "fail"}
    /\ pending[b] # {} => loop[b] \in {"run", "fail"}

ItemInv == FreshInv /\ QueueInv /\ BatchInv

\* An item is queued at most once, never both queued and being dispatched,
\* and being dispatched by at most one loop.
NoDoubleDispatch ==
  /\ \A m \in Models : NoDuplicates(lanes[m])
  /\ \A m, n \in Models : m # n => Waiting(lanes[m]) \cap Waiting(lanes[n]) = {}
  /\ \A m \in Models, b \in Requests : Waiting(lanes[m]) \cap batch[b] = {}
  /\ \A a, b \in Requests : a # b => batch[a] \cap batch[b] = {}

InHand(r) == \E b \in Requests : r \in batch[b] /\ (loop[b] = "dial" \/ r \in pending[b])

\* A call that waits is never forgotten: its item is queued, is in a batch
\* without a result yet, or its result is in its channel.
WaiterIsServed ==
  \A r \in Requests : pc[r] \in {"count", "wait"} =>
    \/ \E m \in Models : r \in Waiting(lanes[m])
    \/ InHand(r)
    \/ resultCh[r] # "empty"

\* Shutdown order: while a call waits, the loop that serves its model has not
\* been cancelled (GracefulStop waits for the handlers before Stop runs).
WaiterHasLoop ==
  \A r \in Requests : pc[r] \in {"enqueue", "count", "wait"} =>
    \E b \in batchers[modelOf(r)] : loop[b] \notin {"none", "exited"}

\* The counters, read at any time, account for every call and every item.
\* Enqueued lags behind by the handlers between Enqueue's unlock and its
\* atomic add; items of a failed dial are dispatched but never processed.
CountersBalance ==
  LET Calls(S)    == Cardinality({r \in Requests : pc[r] \in S})
      Counting(m) == Cardinality({r \in Requests : pc[r] = "count" /\ modelOf(r) = m})
      InBatch     == UNION {batch[b] : b \in Requests}
      Queued      == UNION {Waiting(lanes[m]) : m \in Models}
      Undialled   == {r \in Requests : "dialErr" \in {resultCh[r], answer[r]}}
      Admitted    == {r \in Requests : pc[r] \in {"count", "wait", "done"} /\ answer[r] # "shed"}
  IN /\ sMetrics["Enqueued"] = Calls(CallStates \ {"idle", "done"})
                              + sMetrics["Dispatched"] + sMetrics["LoadShedded"] + sMetrics["Errors"]
                              + Cardinality({r \in Requests : answer[r] = "canceled"})
     /\ \A m \in Models :
          qStats[m]["enqueued"] + Counting(m) = qStats[m]["dispatched"] + Depth(lanes[m])
     /\ processed = Cardinality(Admitted \ (Queued \cup InBatch \cup Undialled))

\* Every call returns even if its client never cancels and its deadline never
\* fires: the loop alone answers it (unless the process dies).
EveryCallReturns ==
  \A r \in Requests : pc[r] = "lookup" ~> (pc[r] = "done" \/ phase = "crashed")

\* An admitted item leaves its queue once no higher call comes any more, even
\* when its own call gave up on it and whatever became of the batches before
\* it.  Drain is strictly by priority and knows no ageing: every higher call
\* that comes in time overtakes it, and of those there are finitely many here.
QueueDrains ==
  \A r \in Requests :
    (\E m \in Models : r \in Waiting(lanes[m]))
      ~> ((\A m \in Models : r \notin Waiting(lanes[m])) \/ phase \in {"stopped", "exited", "crashed"})

(***************************************************************************)
(* Refinement of the contract.  The execution of r is running while its    *)
(* goroutine has sent no result; afterwards its outcome is what was sent:  *)
(* still in the channel, or received as the call's answer.                 *)
(***************************************************************************)
Sent(r) == IF resultCh[r] = "empty" THEN answer[r] ELSE resultCh[r]

Executing(r) == \E b \in Requests : loop[b] = "run" /\ r \in pending[b]

execution ==
  [r \in Requests |->
     IF Executing(r) THEN "running"
     ELSE IF Sent(r) \in {"ok", "execErr"} THEN Sent(r)
     ELSE "none"]

Contract == INSTANCE ScheduleContract WITH exec <- execution

\* The scheduler implements the contract: at most one execution per call,
\* at most one answer, and only true answers.
ImplementsContract == Contract!Spec

\* ADR-002: "HIGH and CRITICAL items are always accepted (up to a separate
\* hard cap)": such an item may be shed only when its own lane is at capacity.
HighAlwaysAccepted ==
  [][\A r \in Requests :
       /\ pc[r] = "enqueue" /\ pc'[r] = "shed"
       /\ Lane(req[r].priority) = "high"
       => Len(lanes[modelOf(r)]["high"]) >= MaxDepth]_vars

\* batcher.go: "Implementations must set the result on each item's ResultCh":
\* the process never dies with a batch in hand.
DispatchSetsResults ==
  phase = "crashed" => \A b \in Requests : batch[b] = {}

=============================================================================
