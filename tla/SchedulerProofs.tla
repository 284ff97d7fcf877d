--------------------------- MODULE SchedulerProofs ---------------------------
(***************************************************************************)
(* The scheduler's safety for any number of calls and models, any queue    *)
(* capacity and any batch size.                                            *)
(***************************************************************************)
EXTENDS Scheduler, PriorityQueueProofs, FiniteSetTheorems

USE CapacityAssumption

-----------------------------------------------------------------------------
(* Type correctness.                                                        *)

LEMMA InitType == Init => TypeOK
BY DEF Init, TypeOK, CallStates, LoopStates, Phases, Answers, Results, Queues,
       EmptyQueue, QueueCounters, ServiceCounters

\* Adding to one counter keeps the group.
LEMMA BumpType ==
  ASSUME NEW Names, NEW c \in [Names -> Nat], NEW k \in Names, NEW n \in Nat
  PROVE  Bump(c, k, n) \in [Names -> Nat]
BY DEF Bump

\* A handler's steps keep the types.
LEMMA HandlerType ==
  ASSUME TypeOK, NEW r \in Requests,
         Call(r) \/ HandlerStep(r) \/ Deadline(r) \/ ClientCancel(r)
  PROVE  TypeOK'
<1> USE DEF TypeOK, Goto, Return, callVars, loopVars
<1>0. modelOf(r) \in Models
  BY DEF modelOf
<1>a. \A k \in ServiceCounters : Bump(sMetrics, k, 1) \in [ServiceCounters -> Nat]
  BY BumpType
<1>b. \A k \in QueueCounters : Bump(qStats[modelOf(r)], k, 1) \in [QueueCounters -> Nat]
  BY <1>0, BumpType
<1>1. CASE Call(r)
  BY <1>1, <1>a DEF Call, CallStates, ServiceCounters
<1>2. CASE LookupBatcher(r)
  BY <1>2 DEF LookupBatcher, CallStates
<1>3. CASE CreateBatcher(r)
  <2>1. batchers' \in [Models -> SUBSET Requests] /\ loop' \in [Requests -> LoopStates]
    <3>1. CASE batchers[modelOf(r)] = {}
      <4>1. /\ batchers' = [batchers EXCEPT ![modelOf(r)] = {r}]
            /\ loop' = [loop EXCEPT ![r] = "check"]
        BY <1>3, <3>1 DEF CreateBatcher
      <4>2. {r} \in SUBSET Requests /\ "check" \in LoopStates
        BY DEF LoopStates
      <4> QED BY <1>0, <4>1, <4>2
    <3>2. CASE batchers[modelOf(r)] # {}
      BY <1>3, <3>2 DEF CreateBatcher
    <3> QED BY <3>1, <3>2
  <2> QED BY <1>3, <2>1 DEF CreateBatcher, CallStates
<1>4. CASE Enqueue(r)
  <2>1. Push(lanes[modelOf(r)], req[r].priority, r) \in Queues(Requests)
    BY <1>0, PushProperties
  <2>2. lanes' \in [Models -> Queues(Requests)]
    BY <1>0, <1>4, <2>1 DEF Enqueue
  <2> QED BY <1>4, <2>2 DEF Enqueue, CallStates
<1>5. CASE CountEnqueued(r)
  BY <1>0, <1>5, <1>b DEF CountEnqueued, CallStates, QueueCounters
<1>6. CASE Shed(r)
  BY <1>0, <1>6, <1>a, <1>b DEF Shed, CallStates, Answers, QueueCounters, ServiceCounters
<1>7. CASE ReceiveResult(r)
  BY <1>7, <1>a DEF ReceiveResult, CallStates, Answers, Results, ServiceCounters
<1>8. CASE Deadline(r)
  BY <1>8, <1>a DEF Deadline, CallStates, Answers, ServiceCounters
<1>9. CASE ClientCancel(r)
  BY <1>9 DEF ClientCancel, CallStates, Answers
<1> QED
  BY <1>1, <1>2, <1>3, <1>4, <1>5, <1>6, <1>7, <1>8, <1>9 DEF HandlerStep

\* A dispatch loop's steps keep the types.
LEMMA LoopType ==
  ASSUME TypeOK, NEW b \in Requests, LoopStep(b)
  PROVE  TypeOK'
<1> USE DEF TypeOK, LoopGoto, callVars, loopVars
<1>0. modelOf(b) \in Models
  BY DEF modelOf
<1>1. CASE CheckContext(b)
  BY <1>1 DEF CheckContext, LoopStates
<1>2. CASE DrainQueue(b)
  <2> DEFINE q == lanes[modelOf(b)]
             n == Len(Drained(q, MaxBatchSize))
  <2>1. q \in Queues(Requests)
    BY <1>0
  <2>2. /\ Rest(q, MaxBatchSize) \in Queues(Requests)
        /\ DrainedItems(q, MaxBatchSize) \subseteq Requests
    BY <2>1, DrainProperties
  <2>3. n \in Nat
    BY <2>1, DrainedType
  <2>4. lanes' \in [Models -> Queues(Requests)] /\ batch' \in [Requests -> SUBSET Requests]
    BY <1>0, <1>2, <2>2 DEF DrainQueue
  <2>5. qStats' \in [Models -> [QueueCounters -> Nat]]
    <3>1. Bump(qStats[modelOf(b)], "dispatched", n) \in [QueueCounters -> Nat]
      BY <1>0, <2>3, BumpType DEF QueueCounters
    <3> QED BY <1>0, <1>2, <3>1 DEF DrainQueue
  <2>6. loop' \in [Requests -> LoopStates]
    BY <1>2 DEF DrainQueue, LoopStates
  <2> QED BY <1>2, <2>4, <2>5, <2>6 DEF DrainQueue
<1>3. CASE Dispatch(b)
  <2>1. CASE Dial(b)
    <3>1. PICK c \in {"dialled", "nil"}, l \in {"run", "fail"} :
            client' = [client EXCEPT ![b] = c] /\ loop' = [loop EXCEPT ![b] = l]
      BY <2>1 DEF Dial
    <3>2. /\ client' \in [Requests -> {"undialled", "dialled", "nil"}]
          /\ loop' \in [Requests -> LoopStates]
      BY <3>1 DEF LoopStates
    <3> QED BY <1>3, <2>1, <3>2 DEF Dispatch, Dial
  <2>2. CASE ReuseClient(b)
    BY <1>3, <2>2 DEF Dispatch, ReuseClient, LoopStates
  <2>3. CASE CallNilClient(b)
    BY <1>3, <2>3 DEF Dispatch, CallNilClient, Phases
  <2> QED BY <1>3, <2>1, <2>2, <2>3 DEF Dispatch
<1>4. CASE FinishBatch(b)
  <2>1. Cardinality(batch[b]) \in Nat
    BY FS_Subset, FS_CardinalityType
  <2> QED BY <1>4, <2>1 DEF FinishBatch, LoopStates
<1>5. CASE AbandonBatch(b)
  BY <1>5 DEF AbandonBatch, LoopStates
<1> QED BY <1>1, <1>2, <1>3, <1>4, <1>5 DEF LoopStep

\* The goroutines of a batch and the process's life keep the types.
LEMMA ItemType ==
  ASSUME TypeOK, NEW b \in Requests, NEW r \in Requests, ItemStep(b, r)
  PROVE  TypeOK'
<1>1. PICK result \in Results : Send(b, r, result)
  BY DEF ItemStep, ExecuteItem, SendDialError, Results
<1>2. /\ resultCh' \in [Requests -> Results \cup {"empty"}]
      /\ pending' \in [Requests -> SUBSET Requests]
  BY <1>1 DEF Send, TypeOK
<1>3. UNCHANGED <<req, callVars, batchers, loop, client, batch, lanes, phase, qStats,
                  sMetrics, processed>>
  BY DEF ItemStep, ExecuteItem, SendDialError
<1> QED BY <1>2, <1>3 DEF TypeOK, callVars

LEMMA LifeType ==
  ASSUME TypeOK, Terminate \/ Stop \/ Exit \/ Halted \/ UNCHANGED vars
  PROVE  TypeOK'
BY DEF TypeOK, Terminate, Stop, Exit, Halted, vars, callVars, loopVars, Phases

LEMMA StepType == TypeOK /\ [Next]_vars => TypeOK'
BY HandlerType, LoopType, ItemType, LifeType DEF Next

\* Every variable of the scheduler keeps its type, for every instance.
THEOREM TypeCorrect == Spec => []TypeOK
BY InitType, StepType, PTL DEF Spec

-----------------------------------------------------------------------------
(* The capacity of a queue.                                                 *)

\* The depth check and the append are one step: only Enqueue lengthens a
\* queue, and only one that is not full.
LEMMA StepDepth ==
  ASSUME TypeOK, DepthBounded, [Next]_vars
  PROVE  DepthBounded'
<1> SUFFICES ASSUME NEW m \in Models
             PROVE  Depth(lanes'[m]) <= MaxDepth
  BY DEF DepthBounded
<1>0. lanes[m] \in Queues(Requests) /\ Depth(lanes[m]) \in Nat /\ Depth(lanes[m]) <= MaxDepth
  BY QueueShape DEF TypeOK, DepthBounded
<1>1. CASE UNCHANGED lanes
  BY <1>0, <1>1
<1>2. ASSUME NEW r \in Requests, Enqueue(r) PROVE Depth(lanes'[m]) <= MaxDepth
  <2>1. modelOf(r) \in Models
    BY DEF TypeOK, modelOf
  <2>2. CASE m = modelOf(r) /\ ~Full(lanes[m], MaxDepth)
    <3>1. lanes'[m] = Push(lanes[m], req[r].priority, r)
      BY <1>2, <2>2 DEF Enqueue, TypeOK
    <3>2. Depth(Push(lanes[m], req[r].priority, r)) = Depth(lanes[m]) + 1
      BY <1>0, PushProperties
    <3> QED BY <1>0, <2>2, <3>1, <3>2 DEF Full
  <2>3. CASE ~(m = modelOf(r) /\ ~Full(lanes[m], MaxDepth))
    <3>1. lanes'[m] = lanes[m]
      BY <1>2, <2>1, <2>3 DEF Enqueue, TypeOK
    <3> QED BY <1>0, <3>1
  <2> QED BY <2>2, <2>3
<1>3. ASSUME NEW b \in Requests, DrainQueue(b) PROVE Depth(lanes'[m]) <= MaxDepth
  <2>1. CASE m = modelOf(b)
    <3>1. lanes'[m] = Rest(lanes[m], MaxBatchSize)
      BY <1>3, <2>1 DEF DrainQueue, TypeOK
    <3>2. Rest(lanes[m], MaxBatchSize) \in Queues(Requests)
          /\ Depth(Rest(lanes[m], MaxBatchSize)) <= Depth(lanes[m])
      BY <1>0, DrainProperties
    <3>3. Depth(Rest(lanes[m], MaxBatchSize)) \in Nat
      BY <3>2, QueueShape
    <3> QED BY <1>0, <3>1, <3>2, <3>3
  <2>2. CASE m # modelOf(b)
    <3>1. lanes'[m] = lanes[m]
      BY <1>3, <2>2 DEF DrainQueue, TypeOK
    <3> QED BY <1>0, <3>1
  <2> QED BY <2>1, <2>2
<1>4. \/ UNCHANGED lanes
      \/ \E r \in Requests : Enqueue(r)
      \/ \E b \in Requests : DrainQueue(b)
  BY DEF Next, vars, Call, HandlerStep, LookupBatcher, CreateBatcher, CountEnqueued, Shed,
         ReceiveResult, Deadline, ClientCancel, LoopStep, CheckContext, Dispatch,
         FinishBatch, AbandonBatch, ItemStep, ExecuteItem, SendDialError, Terminate, Stop,
         Exit, Halted
<1> QED BY <1>1, <1>2, <1>3, <1>4

\* A model's queue never exceeds its capacity, however many handlers race for
\* the last slot.
THEOREM QueuesStayBounded == Spec => []DepthBounded
<1>1. Init => DepthBounded
  <2> SUFFICES ASSUME Init, NEW m \in Models PROVE Depth(lanes[m]) <= MaxDepth
    BY DEF DepthBounded
  <2>1. lanes[m] = EmptyQueue
    BY DEF Init
  <2>2. Len(EmptyQueue["high"]) = 0 /\ Len(EmptyQueue["normal"]) = 0 /\ Len(EmptyQueue["low"]) = 0
    BY DEF EmptyQueue, LaneNames
  <2>3. Depth(EmptyQueue) = 0 + 0 + 0
    BY <2>2, DepthIsSum
  <2> QED BY <2>1, <2>3
<1> QED BY <1>1, StepDepth, TypeCorrect, PTL DEF Spec

-----------------------------------------------------------------------------
(* The life of the batchers.                                                *)

\* What a call asks for never changes.
LEMMA ReqFixed ==
  ASSUME [Next]_vars
  PROVE  req' = req /\ \A r : modelOf(r)' = modelOf(r)
<1>1. req' = req
  BY DEF Next, vars, Call, HandlerStep, LookupBatcher, CreateBatcher, Enqueue,
         CountEnqueued, Shed, ReceiveResult, Deadline, ClientCancel, LoopStep,
         CheckContext, DrainQueue, Dispatch, FinishBatch, AbandonBatch, ItemStep,
         ExecuteItem, SendDialError, Terminate, Stop, Exit, Halted
<1> QED BY <1>1 DEF modelOf

LEMMA InitBatcher == Init => BatcherInv
BY DEF Init, BatcherInv, OneLoopPerModel, Quiet

\* getBatcher's second look under the write lock is what makes this inductive:
\* a loop is started only for a model with none.
LEMMA HandlerBatcher ==
  ASSUME TypeOK, BatcherInv, NEW r \in Requests,
         Call(r) \/ HandlerStep(r) \/ Deadline(r) \/ ClientCancel(r)
  PROVE  BatcherInv'
<1>0. modelOf(r) \in Models /\ \A x : modelOf(x)' = modelOf(x)
  BY ReqFixed DEF TypeOK, modelOf, Next
<1>1. CASE Call(r)
  BY <1>0, <1>1 DEF Call, Goto, TypeOK, BatcherInv, OneLoopPerModel, Quiet, loopVars
<1>2. CASE CreateBatcher(r) /\ batchers[modelOf(r)] = {}
  <2>1. /\ batchers' = [batchers EXCEPT ![modelOf(r)] = {r}]
        /\ loop' = [loop EXCEPT ![r] = "check"]
        /\ pc[r] = "create" /\ pc' = [pc EXCEPT ![r] = "enqueue"]
        /\ phase' = phase
    BY <1>2 DEF CreateBatcher, Goto
  <2>2. ~Quiet /\ phase # "stopped" /\ \A b \in Requests : loop[b] # "exited"
    BY <2>1 DEF BatcherInv, Quiet
  <2>3. OneLoopPerModel'
    <3> SUFFICES ASSUME NEW b \in Requests, loop'[b] # "none"
                 PROVE  batchers'[modelOf(b)] = {b}
      BY <1>0 DEF OneLoopPerModel
    <3>1. CASE b = r
      BY <1>0, <2>1, <3>1 DEF TypeOK
    <3>2. CASE b # r
      <4>1. loop[b] # "none"
        BY <2>1, <3>2 DEF TypeOK
      <4>2. batchers[modelOf(b)] = {b}
        BY <4>1 DEF BatcherInv, OneLoopPerModel
      <4>3. modelOf(b) # modelOf(r)
        BY <1>2, <4>2
      <4> QED BY <2>1, <4>2, <4>3 DEF TypeOK
    <3> QED BY <3>1, <3>2
  <2>4. ASSUME NEW m \in Models, NEW b \in batchers'[m]
        PROVE  modelOf(b) = m /\ loop'[b] # "none"
    <3>1. CASE m = modelOf(r)
      <4>1. b = r
        BY <1>0, <2>1, <3>1 DEF TypeOK
      <4> QED BY <2>1, <3>1, <4>1 DEF TypeOK
    <3>2. CASE m # modelOf(r)
      <4>1. b \in batchers[m] /\ b \in Requests
        BY <2>1, <3>2 DEF TypeOK
      <4> QED BY <2>1, <4>1 DEF BatcherInv, TypeOK
    <3> QED BY <3>1, <3>2
  <2>5. ASSUME NEW x \in Requests, pc'[x] \in {"enqueue", "count", "shed", "wait"}
        PROVE  batchers'[modelOf(x)] # {}
    <3>1. CASE modelOf(x) = modelOf(r)
      BY <1>0, <2>1, <3>1 DEF TypeOK
    <3>2. CASE modelOf(x) # modelOf(r)
      <4>1. pc'[x] = pc[x] /\ batchers'[modelOf(x)] = batchers[modelOf(x)]
        BY <2>1, <3>2 DEF TypeOK, modelOf
      <4> QED BY <2>5, <4>1 DEF BatcherInv
    <3> QED BY <3>1, <3>2
  <2>6. phase' # "stopped" /\ \A b \in Requests : loop'[b] # "exited"
    BY <2>1, <2>2 DEF TypeOK
  <2> QED BY <1>0, <2>3, <2>4, <2>5, <2>6 DEF BatcherInv
<1>3. CASE ~Call(r) /\ ~(CreateBatcher(r) /\ batchers[modelOf(r)] = {})
  <2>1. /\ batchers' = batchers /\ loop' = loop /\ phase' = phase
        /\ pc[r] \notin {"idle", "done"}
        /\ \E to \in CallStates : pc' = [pc EXCEPT ![r] = to]
    BY <1>3 DEF HandlerStep, LookupBatcher, CreateBatcher, Enqueue, CountEnqueued, Shed,
            ReceiveResult, Deadline, ClientCancel, Goto, Return, loopVars, CallStates
  <2>2. ~Quiet /\ phase # "stopped" /\ \A b \in Requests : loop[b] # "exited"
    BY <2>1 DEF BatcherInv, Quiet
  <2>3. pc'[r] \in {"enqueue", "count", "shed", "wait"} => batchers[modelOf(r)] # {}
    <3>1. CASE LookupBatcher(r) \/ CreateBatcher(r)
      BY <1>3, <3>1 DEF LookupBatcher, CreateBatcher, Goto, TypeOK
    <3>2. CASE Enqueue(r) \/ CountEnqueued(r)
      <4>1. pc[r] \in {"enqueue", "count"}
        BY <3>2 DEF Enqueue, CountEnqueued, Goto
      <4> QED BY <4>1 DEF BatcherInv
    <3>3. CASE Shed(r) \/ ReceiveResult(r) \/ Deadline(r) \/ ClientCancel(r)
      BY <3>3 DEF Shed, ReceiveResult, Deadline, ClientCancel, Goto, Return, TypeOK
    <3> QED BY <1>3, <3>1, <3>2, <3>3 DEF HandlerStep
  <2>4. \A x \in Requests : x # r => pc'[x] = pc[x]
    BY <2>1 DEF TypeOK
  <2> QED BY <1>0, <2>1, <2>2, <2>3, <2>4 DEF BatcherInv, OneLoopPerModel
<1> QED BY <1>1, <1>2, <1>3

\* A loop leaves only after Stop, and Stop waits for the handlers.
LEMMA LoopBatcher ==
  ASSUME TypeOK, BatcherInv, NEW b \in Requests, LoopStep(b)
  PROVE  BatcherInv'
<1>0. \A x : modelOf(x)' = modelOf(x)
  BY ReqFixed DEF Next
<1>1. /\ batchers' = batchers /\ pc' = pc
      /\ phase' = phase \/ phase' = "crashed"
      /\ \A x \in Requests : x # b => loop'[x] = loop[x]
      /\ loop[b] # "none" /\ loop'[b] # "none"
      /\ loop'[b] = "exited" => phase = "stopped" /\ phase' = phase
  <2>1. CASE CheckContext(b)
    BY <2>1 DEF CheckContext, LoopGoto, TypeOK, callVars
  <2>2. CASE DrainQueue(b)
    BY <2>2 DEF DrainQueue, LoopGoto, TypeOK, callVars
  <2>3. CASE Dispatch(b)
    BY <2>3 DEF Dispatch, Dial, ReuseClient, CallNilClient, LoopGoto, TypeOK, callVars
  <2>4. CASE FinishBatch(b) \/ AbandonBatch(b)
    BY <2>4 DEF FinishBatch, AbandonBatch, LoopGoto, TypeOK, callVars
  <2> QED BY <2>1, <2>2, <2>3, <2>4 DEF LoopStep
<1>2. OneLoopPerModel'
  BY <1>0, <1>1 DEF BatcherInv, OneLoopPerModel
<1>3. \A m \in Models : \A x \in batchers'[m] : modelOf(x) = m /\ loop'[x] # "none"
  BY <1>1 DEF BatcherInv, TypeOK
<1>4. \A x \in Requests : loop'[x] = "exited" => Quiet' /\ phase' \in {"stopped", "exited", "crashed"}
  BY <1>1 DEF BatcherInv, Quiet
<1>5. phase' = "stopped" => Quiet'
  BY <1>1 DEF BatcherInv, Quiet
<1> QED BY <1>0, <1>1, <1>2, <1>3, <1>4, <1>5 DEF BatcherInv

LEMMA StepBatcher == TypeOK /\ BatcherInv /\ [Next]_vars => BatcherInv'
<1> SUFFICES ASSUME TypeOK, BatcherInv, [Next]_vars PROVE BatcherInv'
  OBVIOUS
<1>0. \A x : modelOf(x)' = modelOf(x)
  BY ReqFixed
<1>1. ASSUME NEW b \in Requests, NEW r \in Requests, ItemStep(b, r) PROVE BatcherInv'
  <2>1. UNCHANGED <<pc, batchers, loop, phase>>
    BY <1>1 DEF ItemStep, ExecuteItem, SendDialError, callVars
  <2> QED BY <1>0, <2>1 DEF BatcherInv, OneLoopPerModel, Quiet
<1>2. CASE Terminate
  BY <1>0, <1>2 DEF Terminate, callVars, loopVars, BatcherInv, OneLoopPerModel, Quiet
<1>3. CASE Stop \/ Exit
  BY <1>0, <1>3 DEF Stop, Exit, callVars, loopVars, BatcherInv, OneLoopPerModel, Quiet
<1>4. CASE Halted \/ UNCHANGED vars
  BY <1>0, <1>4 DEF Halted, vars, BatcherInv, OneLoopPerModel, Quiet
<1> QED BY HandlerBatcher, LoopBatcher, <1>1, <1>2, <1>3, <1>4 DEF Next

LEMMA BatchersAlwaysConsistent == Spec => [](TypeOK /\ BatcherInv)
<1>1. Init => TypeOK /\ BatcherInv
  BY InitType, InitBatcher
<1>2. TypeOK /\ BatcherInv /\ [Next]_vars => (TypeOK /\ BatcherInv)'
  BY StepType, StepBatcher
<1> QED BY <1>1, <1>2, PTL DEF Spec

\* No model ever has two dispatch loops.
THEOREM SingleLoop == Spec => []OneLoopPerModel
<1>1. BatcherInv => OneLoopPerModel
  BY DEF BatcherInv
<1> QED BY <1>1, BatchersAlwaysConsistent, PTL

\* A call that is being served always has a live loop for its model.
THEOREM WaitersKeepTheirLoop == Spec => []WaiterHasLoop
<1>1. TypeOK /\ BatcherInv => WaiterHasLoop
  <2> SUFFICES ASSUME TypeOK, BatcherInv, NEW r \in Requests,
                      pc[r] \in {"enqueue", "count", "wait"}
               PROVE  \E b \in batchers[modelOf(r)] : loop[b] \notin {"none", "exited"}
    BY DEF WaiterHasLoop
  <2>1. modelOf(r) \in Models /\ batchers[modelOf(r)] # {}
    BY DEF TypeOK, BatcherInv, modelOf
  <2>2. PICK b \in batchers[modelOf(r)] : TRUE
    BY <2>1
  <2>3. b \in Requests /\ loop[b] # "none"
    BY <2>1, <2>2 DEF TypeOK, BatcherInv
  <2>4. loop[b] # "exited"
    BY <2>3 DEF BatcherInv, Quiet
  <2> QED BY <2>2, <2>3, <2>4
<1> QED BY <1>1, BatchersAlwaysConsistent, PTL

-----------------------------------------------------------------------------
(* Where the items are.                                                     *)

LEMMA InitItem == Init => ItemInv
<1> SUFFICES ASSUME Init PROVE ItemInv
  OBVIOUS
<1>1. FreshInv /\ BatchInv
  BY DEF Init, FreshInv, BatchInv
<1>2. ASSUME NEW m \in Models
      PROVE  NoDuplicates(lanes[m]) /\ Waiting(lanes[m]) = {}
  <2>1. lanes[m] = EmptyQueue /\ lanes[m] \in Queues(Requests)
    BY InitType DEF Init, TypeOK
  <2>2. \A l \in LaneNames : Len(EmptyQueue[l]) = 0
    BY DEF EmptyQueue
  <2>3. \A l \in LaneNames : 1 .. Len(lanes[m][l]) = {}
    BY <2>1, <2>2
  <2>4. NoDuplicates(lanes[m])
    BY <2>3 DEF NoDuplicates
  <2>5. \A x : x \in Waiting(lanes[m]) <=>
          \E l \in LaneNames : \E i \in 1 .. Len(lanes[m][l]) : lanes[m][l][i] = x
    BY <2>1, QueueShape
  <2> QED BY <2>3, <2>4, <2>5
<1>3. QueueInv
  BY <1>2 DEF QueueInv
<1> QED BY <1>1, <1>3 DEF ItemInv

\* The items of a model's queue are calls.
LEMMA WaitingType ==
  ASSUME TypeOK, NEW m \in Models
  PROVE  lanes[m] \in Queues(Requests) /\ Waiting(lanes[m]) \subseteq Requests
BY QueueShape DEF TypeOK

\* Two loops never hold the same item: they would serve the same model.
LEMMA BatchesDisjoint ==
  ASSUME TypeOK, BatcherInv, ItemInv,
         NEW a \in Requests, NEW b \in Requests, NEW r, r \in batch[a], r \in batch[b]
  PROVE  a = b
<1>1. modelOf(r) = modelOf(a) /\ modelOf(r) = modelOf(b)
  BY DEF ItemInv, BatchInv
<1>2. loop[a] # "none" /\ loop[b] # "none"
  BY DEF ItemInv, BatchInv
<1>3. batchers[modelOf(a)] = {a} /\ batchers[modelOf(b)] = {b}
  BY <1>2 DEF BatcherInv, OneLoopPerModel
<1> QED BY <1>1, <1>3

\* A handler that leaves the queues and the batches alone keeps ItemInv if it
\* does not spoil what its own item is known to be.
LEMMA HandlerFrame ==
  ASSUME TypeOK, ItemInv, NEW r \in Requests,
         UNCHANGED <<req, lanes, batch, pending>>,
         \A x \in Requests : x # r =>
           pc'[x] = pc[x] /\ answer'[x] = answer[x] /\ resultCh'[x] = resultCh[x],
         \A b \in Requests : loop'[b] = loop[b] \/ loop[b] = "none",
         pc[r] \in {"count", "wait", "done"} => pc'[r] \in {"count", "wait", "done"},
         Unanswered(r) => Unanswered(r)',
         pc'[r] \in {"idle", "lookup", "create", "enqueue"} =>
           resultCh'[r] = "empty" /\ answer'[r] = "none"
  PROVE  ItemInv'
<1>0. \A x : modelOf(x)' = modelOf(x)
  BY DEF modelOf
<1>1. \A x \in Requests : Unanswered(x) => Unanswered(x)'
  BY DEF Unanswered
<1>2. FreshInv'
  BY DEF ItemInv, FreshInv
<1>3. QueueInv'
  <2> SUFFICES ASSUME NEW m \in Models
               PROVE  /\ NoDuplicates(lanes[m])
                      /\ \A x \in Waiting(lanes[m]) : modelOf(x) = m /\ Unanswered(x)'
    BY <1>0 DEF QueueInv
  <2>1. Waiting(lanes[m]) \subseteq Requests
    BY WaitingType
  <2> QED BY <1>1, <2>1 DEF ItemInv, QueueInv
<1>4. BatchInv'
  <2> SUFFICES ASSUME NEW b \in Requests
               PROVE  /\ \A x \in batch[b] :
                           /\ modelOf(x) = modelOf(b)
                           /\ pc'[x] \in {"count", "wait", "done"}
                           /\ x \notin Waiting(lanes[modelOf(b)])
                           /\ loop'[b] = "dial" \/ x \in pending[b] => Unanswered(x)'
                      /\ pending[b] \subseteq batch[b]
                      /\ batch[b] # {} => loop'[b] \in {"dial", "run", "fail"}
                      /\ pending[b] # {} => loop'[b] \in {"run", "fail"}
    BY <1>0 DEF BatchInv
  <2>1. batch[b] \subseteq Requests
    BY DEF TypeOK
  <2>2. batch[b] = {} \/ loop'[b] = loop[b]
    BY DEF ItemInv, BatchInv
  <2>3. CASE batch[b] = {}
    <3>1. pending[b] = {}
      BY <2>3 DEF ItemInv, BatchInv
    <3> QED BY <2>3, <3>1
  <2>4. CASE loop'[b] = loop[b]
    BY <1>1, <2>1, <2>4 DEF ItemInv, BatchInv
  <2> QED BY <2>2, <2>3, <2>4
<1> QED BY <1>2, <1>3, <1>4 DEF ItemInv

\* Handlers other than a successful Enqueue.
LEMMA HandlerItem ==
  ASSUME TypeOK, BatcherInv, ItemInv, NEW r \in Requests,
         Call(r) \/ HandlerStep(r) \/ Deadline(r) \/ ClientCancel(r),
         UNCHANGED lanes
  PROVE  ItemInv'
<1>1. UNCHANGED <<req, lanes, batch, pending>>
  BY DEF Call, HandlerStep, LookupBatcher, CreateBatcher, Enqueue, CountEnqueued, Shed,
         ReceiveResult, Deadline, ClientCancel, loopVars
<1>2. \A b \in Requests : loop'[b] = loop[b] \/ loop[b] = "none"
  <2>1. CASE CreateBatcher(r) /\ batchers[modelOf(r)] = {}
    <3>1. loop[r] = "none"
      BY <2>1 DEF BatcherInv, OneLoopPerModel
    <3>2. loop' = [loop EXCEPT ![r] = "check"]
      BY <2>1 DEF CreateBatcher
    <3> QED BY <3>1, <3>2 DEF TypeOK
  <2>2. CASE ~(CreateBatcher(r) /\ batchers[modelOf(r)] = {})
    BY <2>2 DEF Call, HandlerStep, LookupBatcher, CreateBatcher, Enqueue, CountEnqueued,
                Shed, ReceiveResult, Deadline, ClientCancel, loopVars
  <2> QED BY <2>1, <2>2
<1> DEFINE Frame ==
      /\ \A x \in Requests : x # r =>
           pc'[x] = pc[x] /\ answer'[x] = answer[x] /\ resultCh'[x] = resultCh[x]
      /\ pc[r] \in {"count", "wait", "done"} => pc'[r] \in {"count", "wait", "done"}
      /\ Unanswered(r) => Unanswered(r)'
      /\ pc'[r] \in {"idle", "lookup", "create", "enqueue"} =>
           resultCh'[r] = "empty" /\ answer'[r] = "none"
<1>3. Frame
  <2> USE DEF TypeOK, Goto, Unanswered
  <2>1. CASE Call(r) \/ LookupBatcher(r) \/ CreateBatcher(r)
    BY <2>1 DEF Call, LookupBatcher, CreateBatcher, ItemInv, FreshInv
  <2>2. CASE Enqueue(r)
    <3>1. pc[r] = "enqueue" /\ answer' = answer /\ resultCh' = resultCh
          /\ \E to \in {"shed", "count"} : pc' = [pc EXCEPT ![r] = to]
      BY <2>2 DEF Enqueue
    <3> QED BY <3>1
  <2>3. CASE CountEnqueued(r)
    BY <2>3 DEF CountEnqueued
  <2>4. CASE Shed(r)
    BY <2>4 DEF Shed, Return
  <2>5. CASE ReceiveResult(r)
    BY <2>5 DEF ReceiveResult, Return
  <2>6. CASE Deadline(r) \/ ClientCancel(r)
    BY <2>6 DEF Deadline, ClientCancel, Return
  <2> QED BY <2>1, <2>2, <2>3, <2>4, <2>5, <2>6 DEF HandlerStep
<1> QED BY <1>1, <1>2, <1>3, HandlerFrame

\* Enqueue adds a new item to the queue of its model and of no other.
LEMMA EnqueueItem ==
  ASSUME TypeOK, ItemInv, NEW r \in Requests, Enqueue(r), lanes' # lanes
  PROVE  ItemInv'
<1> DEFINE m == modelOf(r)
<1>0. m \in Models /\ \A x : modelOf(x)' = modelOf(x)
  BY DEF TypeOK, modelOf, Enqueue
<1>1. /\ pc[r] = "enqueue" /\ pc' = [pc EXCEPT ![r] = "count"]
      /\ lanes' = [lanes EXCEPT ![m] = Push(lanes[m], req[r].priority, r)]
      /\ UNCHANGED <<answer, resultCh, loop, batch, pending>>
  BY DEF Enqueue, Goto, loopVars
<1>2. /\ \A n \in Models : r \notin Waiting(lanes[n])
      /\ \A b \in Requests : r \notin batch[b]
  BY <1>1 DEF ItemInv, QueueInv, BatchInv, Unanswered
<1>3. resultCh[r] = "empty" /\ answer[r] = "none"
  BY <1>1 DEF ItemInv, FreshInv
<1>4. /\ \A x \in Requests : Unanswered(x) => Unanswered(x)'
      /\ Unanswered(r)'
  BY <1>1, <1>3 DEF Unanswered, TypeOK
<1>5. /\ Waiting(lanes'[m]) = Waiting(lanes[m]) \cup {r}
      /\ NoDuplicates(lanes'[m])
      /\ \A n \in Models : n # m => lanes'[n] = lanes[n]
  <2>1. lanes'[m] = Push(lanes[m], req[r].priority, r)
    BY <1>0, <1>1 DEF TypeOK
  <2>2. NoDuplicates(lanes[m]) /\ lanes[m] \in Queues(Requests)
    BY <1>0, WaitingType DEF ItemInv, QueueInv
  <2>3. \A n \in Models : n # m => lanes'[n] = lanes[n]
    BY <1>1 DEF TypeOK
  <2> HIDE DEF m
  <2> QED BY <1>0, <1>2, <2>1, <2>2, <2>3, PushProperties
<1>6. FreshInv'
  BY <1>1 DEF ItemInv, FreshInv, TypeOK
<1>7. QueueInv'
  <2> SUFFICES ASSUME NEW n \in Models
               PROVE  /\ NoDuplicates(lanes'[n])
                      /\ \A x \in Waiting(lanes'[n]) : modelOf(x) = n /\ Unanswered(x)'
    BY <1>0 DEF QueueInv
  <2>1. Waiting(lanes[n]) \subseteq Requests
    BY WaitingType
  <2>2. CASE n = m
    BY <1>4, <1>5, <2>1, <2>2 DEF ItemInv, QueueInv
  <2>3. CASE n # m
    BY <1>4, <1>5, <2>1, <2>3 DEF ItemInv, QueueInv
  <2> QED BY <2>2, <2>3
<1>8. BatchInv'
  <2> SUFFICES ASSUME NEW b \in Requests
               PROVE  /\ \A x \in batch[b] :
                           /\ modelOf(x) = modelOf(b)
                           /\ pc'[x] \in {"count", "wait", "done"}
                           /\ x \notin Waiting(lanes'[modelOf(b)])
                           /\ loop[b] = "dial" \/ x \in pending[b] => Unanswered(x)'
                      /\ pending[b] \subseteq batch[b]
                      /\ batch[b] # {} => loop[b] \in {"dial", "run", "fail"}
                      /\ pending[b] # {} => loop[b] \in {"run", "fail"}
    BY <1>0, <1>1 DEF BatchInv
  <2>1. batch[b] \subseteq Requests /\ modelOf(b) \in Models
    BY DEF TypeOK, modelOf
  <2>2. ASSUME NEW x \in batch[b] PROVE x \notin Waiting(lanes'[modelOf(b)])
    <3>1. x # r /\ x \notin Waiting(lanes[modelOf(b)])
      BY <1>2 DEF ItemInv, BatchInv
    <3> QED BY <1>5, <2>1, <3>1
  <2>3. \A x \in batch[b] : pc'[x] = pc[x]
    BY <1>1, <1>2, <2>1 DEF TypeOK
  <2> QED BY <1>4, <2>1, <2>2, <2>3 DEF ItemInv, BatchInv
<1> QED BY <1>6, <1>7, <1>8 DEF ItemInv

\* Drain moves items from the queue to the batch of the loop that drains.
LEMMA DrainItem ==
  ASSUME TypeOK, ItemInv, NEW b \in Requests, DrainQueue(b)
  PROVE  ItemInv'
<1> DEFINE m == modelOf(b)
           D == DrainedItems(lanes[m], MaxBatchSize)
           R == Rest(lanes[m], MaxBatchSize)
<1>0. m \in Models /\ \A x : modelOf(x)' = modelOf(x)
  BY DEF TypeOK, modelOf, DrainQueue
<1>1. /\ loop[b] = "sleep" /\ loop' = [loop EXCEPT ![b] = IF D = {} THEN "check" ELSE "dial"]
      /\ lanes' = [lanes EXCEPT ![m] = R]
      /\ batch' = [batch EXCEPT ![b] = D]
      /\ UNCHANGED <<pc, answer, resultCh, pending>>
  BY DEF DrainQueue, LoopGoto, callVars
<1>2. batch[b] = {} /\ pending[b] = {}
  BY <1>1 DEF ItemInv, BatchInv
<1>3. lanes[m] \in Queues(Requests) /\ NoDuplicates(lanes[m])
  BY <1>0, WaitingType DEF ItemInv, QueueInv
<1>4. /\ Waiting(lanes[m]) = D \cup Waiting(R)
      /\ NoDuplicates(R) /\ D \cap Waiting(R) = {}
  <2>1. MaxBatchSize \in Nat
    OBVIOUS
  <2> QED BY <1>3, <2>1, DrainProperties
<1>5. lanes'[m] = R /\ \A n \in Models : n # m => lanes'[n] = lanes[n]
  BY <1>0, <1>1 DEF TypeOK
<1>6. /\ batch'[b] = D
      /\ loop'[b] = IF D = {} THEN "check" ELSE "dial"
      /\ \A x \in Requests : x # b => batch'[x] = batch[x] /\ loop'[x] = loop[x]
  BY <1>1 DEF TypeOK
<1>7. \A x : Unanswered(x)' = Unanswered(x)
  BY <1>1 DEF Unanswered
<1>8. \A x \in Waiting(lanes[m]) : modelOf(x) = m /\ Unanswered(x)
  BY <1>0 DEF ItemInv, QueueInv
<1> HIDE DEF m, D, R
<1>9. FreshInv'
  BY <1>1 DEF ItemInv, FreshInv
<1>10. QueueInv'
  <2> SUFFICES ASSUME NEW n \in Models
               PROVE  /\ NoDuplicates(lanes'[n])
                      /\ \A x \in Waiting(lanes'[n]) : modelOf(x) = n /\ Unanswered(x)
    BY <1>0, <1>7 DEF QueueInv
  <2>1. CASE n = m
    BY <1>4, <1>5, <1>8, <2>1
  <2>2. CASE n # m
    BY <1>5, <2>2 DEF ItemInv, QueueInv
  <2> QED BY <2>1, <2>2
<1>11. BatchInv'
  <2> SUFFICES ASSUME NEW a \in Requests
               PROVE  /\ \A x \in batch'[a] :
                           /\ modelOf(x) = modelOf(a)
                           /\ pc[x] \in {"count", "wait", "done"}
                           /\ x \notin Waiting(lanes'[modelOf(a)])
                           /\ loop'[a] = "dial" \/ x \in pending[a] => Unanswered(x)
                      /\ pending[a] \subseteq batch'[a]
                      /\ batch'[a] # {} => loop'[a] \in {"dial", "run", "fail"}
                      /\ pending[a] # {} => loop'[a] \in {"run", "fail"}
    BY <1>0, <1>1, <1>7 DEF BatchInv
  <2>1. CASE a = b
    <3>1. \A x \in D : /\ modelOf(x) = m /\ Unanswered(x) /\ x \notin Waiting(R)
                       /\ pc[x] \in {"count", "wait", "done"}
      BY <1>4, <1>8 DEF Unanswered
    <3> QED BY <1>2, <1>5, <1>6, <2>1, <3>1 DEF m
  <2>2. CASE a # b
    <3>1. modelOf(a) \in Models
      BY DEF TypeOK, modelOf
    <3>2. Waiting(lanes'[modelOf(a)]) \subseteq Waiting(lanes[modelOf(a)])
      BY <1>4, <1>5, <3>1
    <3> QED BY <1>6, <2>2, <3>2 DEF ItemInv, BatchInv
  <2> QED BY <2>1, <2>2
<1> QED BY <1>9, <1>10, <1>11 DEF ItemInv

\* The loop's other steps: leaving or sleeping, spawning the goroutines of a
\* batch, and forgetting a batch once all of it has results.
LEMMA LoopItem ==
  ASSUME TypeOK, ItemInv, NEW b \in Requests,
         CheckContext(b) \/ Dispatch(b) \/ FinishBatch(b) \/ AbandonBatch(b)
  PROVE  ItemInv'
<1>0. /\ \A x : modelOf(x)' = modelOf(x)
      /\ UNCHANGED <<pc, answer, resultCh, lanes>>
  BY DEF modelOf, CheckContext, Dispatch, FinishBatch, AbandonBatch, callVars
<1>1. \A x : Unanswered(x)' = Unanswered(x)
  BY <1>0 DEF Unanswered
<1>2. FreshInv' /\ QueueInv'
  BY <1>0, <1>1 DEF ItemInv, FreshInv, QueueInv
<1>3. \A a \in Requests : a # b =>
        batch'[a] = batch[a] /\ pending'[a] = pending[a] /\ loop'[a] = loop[a]
  <2>1. CASE CheckContext(b) \/ FinishBatch(b) \/ AbandonBatch(b)
    BY <2>1 DEF CheckContext, FinishBatch, AbandonBatch, LoopGoto, TypeOK
  <2>2. CASE Dispatch(b)
    BY <2>2 DEF Dispatch, Dial, ReuseClient, CallNilClient, LoopGoto, TypeOK
  <2> QED BY <2>1, <2>2
<1>4. \/ batch'[b] = {} /\ pending'[b] = {}
      \/ /\ loop[b] = "dial" /\ batch'[b] = batch[b]
         /\ \/ pending'[b] = batch[b] /\ loop'[b] \in {"run", "fail"}
            \/ pending'[b] = pending[b] /\ loop'[b] = loop[b]
  <2>1. CASE CheckContext(b)
    <3>1. loop[b] = "check" /\ batch' = batch /\ pending' = pending
      BY <2>1 DEF CheckContext, LoopGoto
    <3> QED BY <3>1 DEF ItemInv, BatchInv
  <2>2. CASE FinishBatch(b) \/ AbandonBatch(b)
    BY <2>2 DEF FinishBatch, AbandonBatch, TypeOK
  <2>3. CASE Dispatch(b) /\ (Dial(b) \/ ReuseClient(b))
    BY <2>3 DEF Dispatch, Dial, ReuseClient, LoopGoto, TypeOK
  <2>4. CASE Dispatch(b) /\ CallNilClient(b)
    BY <2>4 DEF Dispatch, CallNilClient
  <2> QED BY <2>1, <2>2, <2>3, <2>4 DEF Dispatch
<1>5. BatchInv'
  <2> SUFFICES ASSUME NEW a \in Requests
               PROVE  /\ \A x \in batch'[a] :
                           /\ modelOf(x) = modelOf(a)
                           /\ pc[x] \in {"count", "wait", "done"}
                           /\ x \notin Waiting(lanes[modelOf(a)])
                           /\ loop'[a] = "dial" \/ x \in pending'[a] => Unanswered(x)
                      /\ pending'[a] \subseteq batch'[a]
                      /\ batch'[a] # {} => loop'[a] \in {"dial", "run", "fail"}
                      /\ pending'[a] # {} => loop'[a] \in {"run", "fail"}
    BY <1>0, <1>1 DEF BatchInv
  <2>1. CASE a # b
    BY <1>3, <2>1 DEF ItemInv, BatchInv
  <2>2. CASE a = b
    BY <1>4, <2>2 DEF ItemInv, BatchInv
  <2> QED BY <2>1, <2>2
<1> QED BY <1>2, <1>5 DEF ItemInv

\* A result goes to an item that no queue and no other batch holds.
LEMMA SendItem ==
  ASSUME TypeOK, BatcherInv, ItemInv, NEW b \in Requests, NEW r \in Requests, ItemStep(b, r)
  PROVE  ItemInv'
<1>0. /\ \A x : modelOf(x)' = modelOf(x)
      /\ UNCHANGED <<pc, answer, lanes, loop, batch>>
      /\ loop[b] \in {"run", "fail"}
  BY DEF modelOf, ItemStep, ExecuteItem, SendDialError, callVars
<1>1. PICK result \in Results : Send(b, r, result)
  BY DEF ItemStep, ExecuteItem, SendDialError, Results
<1>2. /\ r \in pending[b] /\ r \in batch[b]
      /\ pending'[b] = pending[b] \ {r}
      /\ \A a \in Requests : a # b => pending'[a] = pending[a]
      /\ \A x \in Requests : x # r => resultCh'[x] = resultCh[x]
  BY <1>1 DEF Send, TypeOK, ItemInv, BatchInv
<1>3. \A x \in Requests : x # r => Unanswered(x)' = Unanswered(x)
  BY <1>0, <1>2 DEF Unanswered
<1>4. \A m \in Models : r \notin Waiting(lanes[m])
  <2>1. modelOf(r) = modelOf(b) /\ r \notin Waiting(lanes[modelOf(b)])
    BY <1>2 DEF ItemInv, BatchInv
  <2> QED BY <2>1 DEF ItemInv, QueueInv
<1>5. FreshInv'
  <2>1. pc[r] \in {"count", "wait", "done"}
    BY <1>2 DEF ItemInv, BatchInv
  <2> QED BY <1>0, <1>2, <2>1 DEF ItemInv, FreshInv
<1>6. QueueInv'
  <2> SUFFICES ASSUME NEW m \in Models
               PROVE  /\ NoDuplicates(lanes[m])
                      /\ \A x \in Waiting(lanes[m]) : modelOf(x) = m /\ Unanswered(x)'
    BY <1>0 DEF QueueInv
  <2>1. Waiting(lanes[m]) \subseteq Requests
    BY WaitingType
  <2> QED BY <1>3, <1>4, <2>1 DEF ItemInv, QueueInv
<1>7. BatchInv'
  <2> SUFFICES ASSUME NEW a \in Requests
               PROVE  /\ \A x \in batch[a] :
                           /\ modelOf(x) = modelOf(a)
                           /\ pc[x] \in {"count", "wait", "done"}
                           /\ x \notin Waiting(lanes[modelOf(a)])
                           /\ loop[a] = "dial" \/ x \in pending'[a] => Unanswered(x)'
                      /\ pending'[a] \subseteq batch[a]
                      /\ batch[a] # {} => loop[a] \in {"dial", "run", "fail"}
                      /\ pending'[a] # {} => loop[a] \in {"run", "fail"}
    BY <1>0 DEF BatchInv
  <2>1. batch[a] \subseteq Requests
    BY DEF TypeOK
  <2>2. CASE a = b
    BY <1>0, <1>2, <1>3, <2>1, <2>2 DEF ItemInv, BatchInv
  <2>3. CASE a # b
    <3>1. r \notin batch[a]
      BY <1>2, <2>3, BatchesDisjoint
    <3> QED BY <1>2, <1>3, <2>1, <2>3, <3>1 DEF ItemInv, BatchInv
  <2> QED BY <2>2, <2>3
<1> QED BY <1>5, <1>6, <1>7 DEF ItemInv

LEMMA StepItem == TypeOK /\ BatcherInv /\ ItemInv /\ [Next]_vars => ItemInv'
<1> SUFFICES ASSUME TypeOK, BatcherInv, ItemInv, [Next]_vars PROVE ItemInv'
  OBVIOUS
<1>1. ASSUME NEW r \in Requests, Call(r) \/ HandlerStep(r) \/ Deadline(r) \/ ClientCancel(r)
      PROVE  ItemInv'
  <2>1. UNCHANGED lanes \/ Enqueue(r)
    BY <1>1 DEF Call, HandlerStep, LookupBatcher, CreateBatcher, CountEnqueued, Shed,
            ReceiveResult, Deadline, ClientCancel
  <2> QED BY <1>1, <2>1, HandlerItem, EnqueueItem
<1>2. ASSUME NEW b \in Requests, LoopStep(b) PROVE ItemInv'
  BY <1>2, DrainItem, LoopItem DEF LoopStep
<1>3. CASE Terminate \/ Stop \/ Exit \/ Halted \/ UNCHANGED vars
  <2>1. UNCHANGED <<req, pc, answer, resultCh, lanes, loop, batch, pending>>
    BY <1>3 DEF Terminate, Stop, Exit, Halted, vars, callVars, loopVars
  <2> QED BY <2>1 DEF ItemInv, FreshInv, QueueInv, BatchInv, Unanswered, modelOf
<1> QED BY <1>1, <1>2, <1>3, SendItem DEF Next

LEMMA ItemsAlwaysPlaced == Spec => [](TypeOK /\ BatcherInv /\ ItemInv)
<1>1. Init => TypeOK /\ BatcherInv /\ ItemInv
  BY InitType, InitBatcher, InitItem
<1>2. TypeOK /\ BatcherInv /\ ItemInv /\ [Next]_vars => (TypeOK /\ BatcherInv /\ ItemInv)'
  BY StepType, StepBatcher, StepItem
<1> QED BY <1>1, <1>2, PTL DEF Spec

\* A goroutine that has a result finds its item's one-slot channel free, even
\* if the call has long timed out: no send blocks a batch.
THEOREM SendsAreFree == Spec => []SendNeverBlocks
<1>1. ItemInv => SendNeverBlocks
  BY DEF ItemInv, BatchInv, Unanswered, SendNeverBlocks
<1> QED BY <1>1, ItemsAlwaysPlaced, PTL

\* Every item is in at most one place: one slot of one queue, or one batch.
THEOREM ItemsInOnePlace == Spec => []NoDoubleDispatch
<1>1. TypeOK /\ BatcherInv /\ ItemInv => NoDoubleDispatch
  <2> SUFFICES ASSUME TypeOK, BatcherInv, ItemInv PROVE NoDoubleDispatch
    OBVIOUS
  <2>1. \A m \in Models : NoDuplicates(lanes[m])
    BY DEF ItemInv, QueueInv
  <2>2. \A m, n \in Models : m # n => Waiting(lanes[m]) \cap Waiting(lanes[n]) = {}
    BY DEF ItemInv, QueueInv
  <2>3. ASSUME NEW m \in Models, NEW b \in Requests, NEW r \in Waiting(lanes[m]), r \in batch[b]
        PROVE  FALSE
    <3>1. modelOf(r) = m
      BY DEF ItemInv, QueueInv
    <3>2. modelOf(r) = modelOf(b) /\ r \notin Waiting(lanes[modelOf(b)])
      BY <2>3 DEF ItemInv, BatchInv
    <3> QED BY <3>1, <3>2
  <2>4. \A a, b \in Requests : a # b => batch[a] \cap batch[b] = {}
    BY BatchesDisjoint
  <2> QED BY <2>1, <2>2, <2>3, <2>4 DEF NoDoubleDispatch
<1> QED BY <1>1, ItemsAlwaysPlaced, PTL

-----------------------------------------------------------------------------
(* No waiting call is forgotten.                                            *)

LEMMA HandlerServes ==
  ASSUME TypeOK, BatcherInv, ItemInv, WaiterIsServed, NEW r \in Requests,
         Call(r) \/ HandlerStep(r) \/ Deadline(r) \/ ClientCancel(r)
  PROVE  WaiterIsServed'
<1>0. modelOf(r) \in Models
  BY DEF TypeOK, modelOf
<1>1. UNCHANGED <<batch, pending>> /\ \A b \in Requests : loop[b] = "dial" => loop'[b] = "dial"
  <2>1. CASE CreateBatcher(r)
    <3>1. batchers[modelOf(r)] = {} => loop[r] = "none"
      BY DEF BatcherInv, OneLoopPerModel
    <3>2. \/ loop' = loop
          \/ batchers[modelOf(r)] = {} /\ loop' = [loop EXCEPT ![r] = "check"]
      BY <2>1 DEF CreateBatcher
    <3> QED BY <2>1, <3>1, <3>2 DEF CreateBatcher, TypeOK
  <2>2. CASE ~CreateBatcher(r)
    BY <2>2 DEF Call, HandlerStep, LookupBatcher, Enqueue, CountEnqueued, Shed,
            ReceiveResult, Deadline, ClientCancel, loopVars
  <2> QED BY <2>1, <2>2
<1>2. \A x \in Requests : InHand(x) => InHand(x)'
  BY <1>1 DEF InHand
<1>3. CASE Enqueue(r) /\ ~Full(lanes[modelOf(r)], MaxDepth)
  <2> DEFINE m == modelOf(r)
  <2>1. /\ lanes' = [lanes EXCEPT ![m] = Push(lanes[m], req[r].priority, r)]
        /\ resultCh' = resultCh /\ pc' = [pc EXCEPT ![r] = "count"]
    BY <1>3 DEF Enqueue, Goto
  <2>2. Waiting(Push(lanes[m], req[r].priority, r)) = Waiting(lanes[m]) \cup {r}
    BY <1>0, WaitingType, PushProperties
  <2>3. /\ r \in Waiting(lanes'[m])
        /\ \A n \in Models : Waiting(lanes[n]) \subseteq Waiting(lanes'[n])
    BY <1>0, <2>1, <2>2 DEF TypeOK
  <2>4. \A x \in Requests : x # r => pc'[x] = pc[x]
    BY <2>1 DEF TypeOK
  <2> HIDE DEF m
  <2>5. ASSUME NEW x \in Requests, pc'[x] \in {"count", "wait"}
        PROVE  \/ \E n \in Models : x \in Waiting(lanes'[n])
               \/ InHand(x)' \/ resultCh'[x] # "empty"
    <3>1. CASE x = r
      BY <1>0, <2>3, <3>1 DEF m
    <3>2. CASE x # r
      BY <1>2, <2>1, <2>3, <2>4, <2>5, <3>2 DEF WaiterIsServed
    <3> QED BY <3>1, <3>2
  <2> QED BY <2>5 DEF WaiterIsServed
<1>4. CASE ~(Enqueue(r) /\ ~Full(lanes[modelOf(r)], MaxDepth))
  <2>1. lanes' = lanes
    BY <1>4 DEF Call, HandlerStep, LookupBatcher, CreateBatcher, Enqueue, CountEnqueued,
            Shed, ReceiveResult, Deadline, ClientCancel
  <2>2. \A x \in Requests : pc'[x] \in {"count", "wait"} =>
          pc[x] \in {"count", "wait"} /\ resultCh'[x] = resultCh[x]
    <3> USE DEF TypeOK, Goto, Return
    <3>1. CASE Call(r) \/ LookupBatcher(r) \/ CreateBatcher(r) \/ CountEnqueued(r)
      BY <3>1 DEF Call, LookupBatcher, CreateBatcher, CountEnqueued
    <3>2. CASE Enqueue(r)
      BY <1>4, <3>2 DEF Enqueue
    <3>3. CASE Shed(r) \/ ReceiveResult(r) \/ Deadline(r) \/ ClientCancel(r)
      BY <3>3 DEF Shed, ReceiveResult, Deadline, ClientCancel
    <3> QED BY <3>1, <3>2, <3>3 DEF HandlerStep
  <2> QED BY <1>2, <2>1, <2>2 DEF WaiterIsServed
<1> QED BY <1>3, <1>4

LEMMA LoopServes ==
  ASSUME TypeOK, ItemInv, WaiterIsServed, NEW b \in Requests, LoopStep(b)
  PROVE  WaiterIsServed'
<1>0. UNCHANGED <<pc, resultCh>>
  BY DEF LoopStep, CheckContext, DrainQueue, Dispatch, FinishBatch, AbandonBatch, callVars
<1>1. CASE DrainQueue(b)
  <2> DEFINE m == modelOf(b)
             D == DrainedItems(lanes[m], MaxBatchSize)
             R == Rest(lanes[m], MaxBatchSize)
  <2>0. m \in Models
    BY DEF TypeOK, modelOf
  <2>1. /\ loop[b] = "sleep" /\ loop' = [loop EXCEPT ![b] = IF D = {} THEN "check" ELSE "dial"]
        /\ lanes' = [lanes EXCEPT ![m] = R]
        /\ batch' = [batch EXCEPT ![b] = D]
        /\ pending' = pending
    BY <1>1 DEF DrainQueue, LoopGoto
  <2>2. Waiting(lanes[m]) = D \cup Waiting(R)
    <3>1. MaxBatchSize \in Nat
      OBVIOUS
    <3> QED BY <2>0, <3>1, WaitingType, DrainProperties
  <2>3. /\ lanes'[m] = R /\ \A n \in Models : n # m => lanes'[n] = lanes[n]
        /\ batch'[b] = D /\ (D # {} => loop'[b] = "dial")
        /\ \A a \in Requests : a # b => batch'[a] = batch[a] /\ loop'[a] = loop[a]
    BY <2>0, <2>1 DEF TypeOK
  <2> HIDE DEF m, D, R
  <2>4. ASSUME NEW x \in Requests, NEW n \in Models, x \in Waiting(lanes[n])
        PROVE  InHand(x)' \/ x \in Waiting(lanes'[n])
    BY <2>2, <2>3, <2>4 DEF InHand
  <2>5. ASSUME NEW x \in Requests, InHand(x) PROVE InHand(x)'
    <3>1. PICK a \in Requests : x \in batch[a] /\ (loop[a] = "dial" \/ x \in pending[a])
      BY <2>5 DEF InHand
    <3>2. a # b
      BY <2>1, <3>1 DEF ItemInv, BatchInv
    <3> QED BY <2>1, <2>3, <3>1, <3>2 DEF InHand
  <2> QED BY <1>0, <2>4, <2>5 DEF WaiterIsServed
<1>2. CASE CheckContext(b) \/ Dispatch(b) \/ FinishBatch(b) \/ AbandonBatch(b)
  <2>1. lanes' = lanes
    BY <1>2 DEF CheckContext, Dispatch, FinishBatch, AbandonBatch
  <2>2. ASSUME NEW x \in Requests, InHand(x) PROVE InHand(x)'
    <3>1. PICK a \in Requests : x \in batch[a] /\ (loop[a] = "dial" \/ x \in pending[a])
      BY <2>2 DEF InHand
    <3>2. CASE Dispatch(b)
      <4>1. batch' = batch
        BY <3>2 DEF Dispatch
      <4>2. a # b => pending'[a] = pending[a] /\ loop'[a] = loop[a]
        BY <3>2 DEF Dispatch, Dial, ReuseClient, CallNilClient, LoopGoto, TypeOK
      <4>3. \/ pending'[b] = batch[b]
            \/ UNCHANGED <<loop, pending>>
        BY <3>2 DEF Dispatch, Dial, ReuseClient, CallNilClient, TypeOK
      <4> QED BY <3>1, <4>1, <4>2, <4>3 DEF InHand
    <3>3. CASE ~Dispatch(b)
      <4>1. a # b
        <5>1. loop[b] = "check" \/ (loop[b] \in {"run", "fail"} /\ pending[b] = {})
          BY <1>2, <3>3 DEF CheckContext, FinishBatch, AbandonBatch, LoopGoto
        <5> QED BY <3>1, <5>1 DEF ItemInv, BatchInv
      <4>2. batch'[a] = batch[a] /\ pending' = pending /\ loop'[a] = loop[a]
        BY <1>2, <3>3, <4>1 DEF CheckContext, FinishBatch, AbandonBatch, LoopGoto, TypeOK
      <4> QED BY <3>1, <4>2 DEF InHand
    <3> QED BY <3>2, <3>3
  <2> QED BY <1>0, <2>1, <2>2 DEF WaiterIsServed
<1> QED BY <1>1, <1>2 DEF LoopStep

LEMMA SendServes ==
  ASSUME TypeOK, WaiterIsServed, NEW b \in Requests, NEW r \in Requests, ItemStep(b, r)
  PROVE  WaiterIsServed'
<1>1. UNCHANGED <<pc, lanes, loop, batch>>
  BY DEF ItemStep, ExecuteItem, SendDialError, callVars
<1>2. PICK result \in Results : Send(b, r, result)
  BY DEF ItemStep, ExecuteItem, SendDialError, Results
<1>3. /\ resultCh'[r] # "empty"
      /\ \A x \in Requests : x # r => resultCh'[x] = resultCh[x]
      /\ \A x, a \in Requests : x # r /\ x \in pending[a] => x \in pending'[a]
  BY <1>2 DEF Send, TypeOK, Results
<1>4. \A x \in Requests : x # r /\ InHand(x) => InHand(x)'
  BY <1>1, <1>3 DEF InHand
<1> QED BY <1>1, <1>3, <1>4 DEF WaiterIsServed

\* A call that waits is always in someone's hands: its queue's, its batch's or
\* its own channel's.
THEOREM NoWaiterForgotten == Spec => []WaiterIsServed
<1>1. Init => WaiterIsServed
  BY DEF Init, WaiterIsServed
<1>2. TypeOK /\ BatcherInv /\ ItemInv /\ WaiterIsServed /\ [Next]_vars => WaiterIsServed'
  <2> SUFFICES ASSUME TypeOK, BatcherInv, ItemInv, WaiterIsServed, [Next]_vars
               PROVE  WaiterIsServed'
    OBVIOUS
  <2>1. CASE Terminate \/ Stop \/ Exit \/ Halted \/ UNCHANGED vars
    <3>1. UNCHANGED <<pc, resultCh, lanes, loop, batch, pending>>
      BY <2>1 DEF Terminate, Stop, Exit, Halted, vars, callVars, loopVars
    <3> QED BY <3>1 DEF WaiterIsServed, InHand
  <2> QED BY <2>1, HandlerServes, LoopServes, SendServes DEF Next
<1> QED BY <1>1, <1>2, ItemsAlwaysPlaced, PTL DEF Spec
-----------------------------------------------------------------------------
(* The scheduler implements ScheduleContract.                               *)

\* What the channel and the answer of a call may hold: no answer before the
\* call is done, no result for a call that is being shed.
AnswerInv ==
  \A r \in Requests :
    /\ pc[r] # "done" => answer[r] = "none"
    /\ pc[r] = "shed" => resultCh[r] = "empty"

LEMMA StepAnswer == TypeOK /\ ItemInv /\ AnswerInv /\ [Next]_vars => AnswerInv'
<1> SUFFICES ASSUME TypeOK, ItemInv, AnswerInv, [Next]_vars PROVE AnswerInv'
  OBVIOUS
<1> USE DEF AnswerInv
<1>1. ASSUME NEW r \in Requests, Call(r) \/ HandlerStep(r) \/ Deadline(r) \/ ClientCancel(r)
      PROVE  AnswerInv'
  <2> USE DEF TypeOK, Goto, Return
  <2>1. CASE Call(r) \/ LookupBatcher(r) \/ CreateBatcher(r) \/ CountEnqueued(r)
    BY <2>1 DEF Call, LookupBatcher, CreateBatcher, CountEnqueued
  <2>2. CASE Enqueue(r)
    <3>1. pc[r] = "enqueue" /\ answer' = answer /\ resultCh' = resultCh
          /\ \E to \in {"shed", "count"} : pc' = [pc EXCEPT ![r] = to]
      BY <2>2 DEF Enqueue
    <3>2. resultCh[r] = "empty"
      BY <3>1 DEF ItemInv, FreshInv
    <3> QED BY <3>1, <3>2
  <2>3. CASE Shed(r) \/ ReceiveResult(r) \/ Deadline(r) \/ ClientCancel(r)
    BY <2>3 DEF Shed, ReceiveResult, Deadline, ClientCancel
  <2> QED BY <1>1, <2>1, <2>2, <2>3 DEF HandlerStep
<1>2. ASSUME NEW b \in Requests, LoopStep(b) PROVE AnswerInv'
  BY <1>2 DEF LoopStep, CheckContext, DrainQueue, Dispatch, FinishBatch, AbandonBatch, callVars
<1>3. ASSUME NEW b \in Requests, NEW r \in Requests, ItemStep(b, r) PROVE AnswerInv'
  <2>1. UNCHANGED <<pc, answer>> /\ \E result \in Results : Send(b, r, result)
    BY <1>3 DEF ItemStep, ExecuteItem, SendDialError, Results, callVars
  <2>2. r \in batch[b] /\ pc[r] # "shed"
    BY <2>1 DEF Send, ItemInv, BatchInv
  <2>3. \A x \in Requests : x # r => resultCh'[x] = resultCh[x]
    BY <2>1 DEF Send, TypeOK
  <2> QED BY <2>1, <2>2, <2>3
<1>4. CASE Terminate \/ Stop \/ Exit \/ Halted \/ UNCHANGED vars
  BY <1>4 DEF Terminate, Stop, Exit, Halted, vars, callVars, loopVars
<1> QED BY <1>1, <1>2, <1>3, <1>4 DEF Next

LEMMA AnswersAlwaysConsistent == Spec => [](TypeOK /\ BatcherInv /\ ItemInv /\ AnswerInv)
<1>1. Init => AnswerInv
  BY DEF Init, AnswerInv
<1> QED BY <1>1, StepAnswer, ItemsAlwaysPlaced, PTL DEF Spec

\* The contract sees the execution of x only through Executing and Sent.
LEMMA ExecutionOf ==
  ASSUME NEW x \in Requests
  PROVE  /\ execution[x] = IF Executing(x) THEN "running"
                           ELSE IF Sent(x) \in {"ok", "execErr"} THEN Sent(x) ELSE "none"
         /\ execution'[x] = IF Executing(x)' THEN "running"
                            ELSE IF Sent(x)' \in {"ok", "execErr"} THEN Sent(x)' ELSE "none"
BY DEF execution

LEMMA ExecutionFixed ==
  ASSUME \A x \in Requests : execution'[x] = execution[x]
  PROVE  execution' = execution
BY DEF execution

\* An item with no result yet runs exactly when its loop does.
LEMMA NotExecuting ==
  ASSUME TypeOK, BatcherInv, ItemInv, NEW b \in Requests, NEW r \in Requests,
         r \in batch[b], loop[b] # "run" \/ r \notin pending[b]
  PROVE  ~Executing(r)
<1>1. \A a \in Requests : r \in pending[a] => a = b
  BY BatchesDisjoint DEF ItemInv, BatchInv
<1> QED BY <1>1 DEF Executing

\* Handlers: an answer is given, or the contract sees nothing.
LEMMA HandlerRefines ==
  ASSUME TypeOK, BatcherInv, ItemInv, AnswerInv, NEW r \in Requests,
         Call(r) \/ HandlerStep(r) \/ Deadline(r) \/ ClientCancel(r)
  PROVE  Contract!Respond(r) \/ UNCHANGED <<execution, answer>>
<1>1. \A x \in Requests : Executing(x)' = Executing(x)
  <2>1. UNCHANGED pending /\ \A b \in Requests : loop[b] = "run" <=> loop'[b] = "run"
    <3>1. CASE CreateBatcher(r)
      <4>1. batchers[modelOf(r)] = {} => loop[r] = "none"
        BY DEF BatcherInv, OneLoopPerModel
      <4>2. \/ loop' = loop
            \/ batchers[modelOf(r)] = {} /\ loop' = [loop EXCEPT ![r] = "check"]
        BY <3>1 DEF CreateBatcher
      <4> QED BY <3>1, <4>1, <4>2 DEF CreateBatcher, TypeOK
    <3>2. CASE ~CreateBatcher(r)
      BY <3>2 DEF Call, HandlerStep, LookupBatcher, Enqueue, CountEnqueued, Shed,
              ReceiveResult, Deadline, ClientCancel, loopVars
    <3> QED BY <3>1, <3>2
  <2> QED BY <2>1 DEF Executing
<1>2. CASE Call(r) \/ LookupBatcher(r) \/ CreateBatcher(r) \/ Enqueue(r) \/ CountEnqueued(r)
  <2>1. UNCHANGED <<answer, resultCh>>
    BY <1>2 DEF Call, LookupBatcher, CreateBatcher, Enqueue, CountEnqueued
  <2>2. \A x \in Requests : Sent(x)' = Sent(x)
    BY <2>1 DEF Sent
  <2> QED BY <1>1, <2>1, <2>2, ExecutionOf, ExecutionFixed
<1>3. CASE Shed(r) \/ ReceiveResult(r) \/ Deadline(r) \/ ClientCancel(r)
  <2> DEFINE a == answer'[r]
  <2>1. /\ pc[r] \in {"shed", "wait"} /\ answer[r] = "none"
        /\ answer' = [answer EXCEPT ![r] = a]
        /\ \A x \in Requests : x # r => answer'[x] = answer[x] /\ resultCh'[x] = resultCh[x]
    BY <1>3 DEF Shed, ReceiveResult, Deadline, ClientCancel, Return, Goto, AnswerInv, TypeOK
  <2>2. \/ pc[r] = "shed" /\ a = "shed" /\ resultCh' = resultCh
        \/ a = resultCh[r] /\ a # "empty" /\ resultCh'[r] = "empty"
        \/ a \in {"deadline", "canceled"} /\ resultCh' = resultCh
    BY <1>3 DEF Shed, ReceiveResult, Deadline, ClientCancel, Return, Goto, TypeOK
  <2>3. a = "shed" => ~Executing(r) /\ resultCh[r] = "empty"
    <3> SUFFICES ASSUME a = "shed" PROVE pc[r] = "shed" /\ ~Executing(r) /\ resultCh[r] = "empty"
      OBVIOUS
    <3>1. pc[r] = "shed"
      BY <2>2 DEF TypeOK, Results
    <3> QED BY <3>1 DEF Executing, ItemInv, BatchInv, AnswerInv
  <2>4. resultCh[r] # "empty" => ~Executing(r)
    BY DEF Executing, ItemInv, BatchInv, Unanswered
  <2>5. resultCh[r] \in {"ok", "execErr", "dialErr", "empty"}
    BY DEF TypeOK, Results
  <2>6. a \in {"shed", "dialErr", "ok", "execErr", "deadline", "canceled"}
    BY <2>2, <2>5
  <2>7. /\ Sent(r) = IF resultCh[r] = "empty" THEN "none" ELSE resultCh[r]
        /\ Sent(r)' = IF resultCh'[r] = "empty" THEN a ELSE resultCh'[r]
        /\ \A x \in Requests : x # r => Sent(x)' = Sent(x)
    BY <2>1 DEF Sent
  <2> HIDE DEF a
  <2>8. execution'[r] = execution[r]
    BY <1>1, <2>2, <2>3, <2>4, <2>5, <2>7, ExecutionOf
  <2>9. execution' = execution
    BY <1>1, <2>7, <2>8, ExecutionOf, ExecutionFixed
  <2>10. a \in {"ok", "execErr"} => execution[r] = a
    BY <2>2, <2>4, <2>7, ExecutionOf
  <2>11. a \in {"shed", "dialErr"} => execution[r] = "none"
    BY <2>2, <2>3, <2>4, <2>7, ExecutionOf
  <2> QED BY <2>1, <2>6, <2>9, <2>10, <2>11
          DEF Contract!Respond, Contract!Refusals, Contract!Outcomes, Contract!GivenUp
<1> QED BY <1>2, <1>3 DEF HandlerStep

\* Loops: a batch of executions begins, or the contract sees nothing.
LEMMA LoopRefines ==
  ASSUME TypeOK, BatcherInv, ItemInv, NEW b \in Requests, LoopStep(b)
  PROVE  Contract!Begin(batch[b]) \/ UNCHANGED <<execution, answer>>
<1>1. UNCHANGED <<answer, resultCh>>
  BY DEF LoopStep, CheckContext, DrainQueue, Dispatch, FinishBatch, AbandonBatch, callVars
<1>2. \A x \in Requests : Sent(x)' = Sent(x)
  BY <1>1 DEF Sent
<1>3. CASE loop'[b] = "run" /\ loop[b] = "dial"
  <2>1. /\ loop' = [loop EXCEPT ![b] = "run"]
        /\ pending' = [pending EXCEPT ![b] = batch[b]]
    <3>1. Dispatch(b)
      BY <1>3 DEF LoopStep, CheckContext, DrainQueue, FinishBatch, AbandonBatch, LoopGoto
    <3> QED BY <1>3, <3>1 DEF Dispatch, Dial, ReuseClient, CallNilClient, LoopGoto, TypeOK
  <2>2. \A x \in Requests : Executing(x)' <=> Executing(x) \/ x \in batch[b]
    BY <1>3, <2>1 DEF Executing, TypeOK
  <2>3. batch[b] \subseteq Requests
    BY DEF TypeOK
  <2>4. ASSUME NEW x \in batch[b]
        PROVE  /\ execution[x] = "none" /\ execution'[x] = "running"
               /\ answer[x] \notin {"shed", "dialErr"}
    <3>1. Unanswered(x)
      BY <1>3 DEF ItemInv, BatchInv
    <3>2. ~Executing(x)
      BY <1>3, <2>3, NotExecuting
    <3> QED BY <2>2, <2>3, <3>1, <3>2, ExecutionOf DEF Unanswered, Sent
  <2>5. \A x \in Requests : x \notin batch[b] => execution'[x] = execution[x]
    BY <1>2, <2>2, ExecutionOf
  <2>6. execution' = [x \in Requests |-> IF x \in batch[b] THEN "running" ELSE execution[x]]
    <3>1. \A x \in Requests :
            execution'[x] = IF x \in batch[b] THEN "running" ELSE execution[x]
      BY <2>4, <2>5
    <3>2. execution' = [x \in Requests |-> execution'[x]]
      BY DEF execution
    <3> QED BY <3>1, <3>2
  <2> QED BY <1>1, <2>4, <2>6 DEF Contract!Begin, Contract!Refusals
<1>4. CASE ~(loop'[b] = "run" /\ loop[b] = "dial")
  <2>1. \A a \in Requests : a # b => loop'[a] = loop[a] /\ pending'[a] = pending[a]
    <3>1. CASE Dispatch(b)
      BY <3>1 DEF Dispatch, Dial, ReuseClient, CallNilClient, LoopGoto, TypeOK
    <3>2. CASE ~Dispatch(b)
      BY <3>2 DEF LoopStep, CheckContext, DrainQueue, FinishBatch, AbandonBatch, LoopGoto, TypeOK
    <3> QED BY <3>1, <3>2
  <2>2. /\ loop[b] = "run" => pending[b] = {}
        /\ loop'[b] = "run" => pending'[b] = {}
    <3>1. CASE Dispatch(b)
      BY <1>4, <3>1 DEF Dispatch, Dial, ReuseClient, CallNilClient, LoopGoto, TypeOK
    <3>2. CASE FinishBatch(b) \/ AbandonBatch(b)
      BY <3>2 DEF FinishBatch, AbandonBatch, LoopGoto, TypeOK
    <3>3. CASE CheckContext(b) \/ DrainQueue(b)
      <4>1. loop[b] \in {"check", "sleep"} /\ loop'[b] \in {"exited", "sleep", "check", "dial"}
        BY <3>3 DEF CheckContext, DrainQueue, LoopGoto, TypeOK
      <4> QED BY <4>1
    <3> QED BY <3>1, <3>2, <3>3 DEF LoopStep
  <2>3. \A x \in Requests : Executing(x)' = Executing(x)
    BY <2>1, <2>2 DEF Executing
  <2> QED BY <1>1, <1>2, <2>3, ExecutionOf, ExecutionFixed
<1> QED BY <1>3, <1>4

\* Items: an execution ends; the error of a failed dial is not one.
LEMMA ItemRefines ==
  ASSUME TypeOK, BatcherInv, ItemInv, NEW b \in Requests, NEW r \in Requests, ItemStep(b, r)
  PROVE  Contract!End(r) \/ UNCHANGED <<execution, answer>>
<1>1. UNCHANGED <<answer, loop>>
  BY DEF ItemStep, ExecuteItem, SendDialError, callVars
<1>2. PICK result \in Results :
        /\ Send(b, r, result)
        /\ \/ loop[b] = "run" /\ result \in {"ok", "execErr"}
           \/ loop[b] = "fail" /\ result = "dialErr"
  BY DEF ItemStep, ExecuteItem, SendDialError, Results
<1>3. /\ r \in pending[b] /\ r \in batch[b] /\ Unanswered(r)
      /\ resultCh'[r] = result /\ result # "empty"
      /\ \A x \in Requests : x # r => resultCh'[x] = resultCh[x]
      /\ pending'[b] = pending[b] \ {r}
      /\ \A a \in Requests : a # b => pending'[a] = pending[a]
  BY <1>2 DEF Send, ItemInv, BatchInv, TypeOK, Results
<1>4. \A a \in Requests : a # b => r \notin pending[a]
  BY <1>3, BatchesDisjoint DEF ItemInv, BatchInv
<1>5. ~Executing(r)' /\ (Executing(r) <=> loop[b] = "run")
  BY <1>1, <1>3, <1>4 DEF Executing
<1>6. \A x \in Requests : x # r => Executing(x)' = Executing(x) /\ Sent(x)' = Sent(x)
  BY <1>1, <1>3 DEF Executing, Sent
<1>7. Sent(r)' = result /\ Sent(r) \notin {"ok", "execErr"}
  BY <1>1, <1>3 DEF Sent, Unanswered
<1>8. \A x \in Requests : x # r => execution'[x] = execution[x]
  BY <1>6, ExecutionOf
<1>9. CASE loop[b] = "run"
  <2>1. execution[r] = "running" /\ execution'[r] = result /\ result \in {"ok", "execErr"}
    BY <1>2, <1>5, <1>7, <1>9, ExecutionOf
  <2>2. execution' = [execution EXCEPT ![r] = result]
    <3>1. /\ execution' = [x \in Requests |-> execution'[x]]
          /\ execution = [x \in Requests |-> execution[x]]
      BY DEF execution
    <3> QED BY <1>8, <2>1, <3>1
  <2> QED BY <1>1, <2>1, <2>2 DEF Contract!End, Contract!Outcomes
<1>10. CASE loop[b] = "fail"
  <2>1. execution'[r] = execution[r]
    BY <1>2, <1>5, <1>7, <1>10, ExecutionOf
  <2> QED BY <1>1, <1>8, <2>1, ExecutionFixed
<1> QED BY <1>2, <1>9, <1>10

\* The scheduler implements its contract: every step of handlers, loops and
\* item goroutines is a step of ScheduleContract or leaves it alone, so each
\* call is executed at most once, answered at most once, and never told an
\* outcome its execution did not have.
THEOREM SchedulerImplementsContract == Spec => ImplementsContract
<1>1. Init => Contract!Init
  <2> SUFFICES ASSUME Init PROVE Contract!Init
    OBVIOUS
  <2>1. \A x \in Requests : ~Executing(x) /\ Sent(x) = "none"
    BY DEF Init, Executing, Sent
  <2>2. \A x \in Requests : execution[x] = "none"
    BY <2>1, ExecutionOf
  <2>3. execution = [x \in Requests |-> execution[x]]
    BY DEF execution
  <2> QED BY <2>2, <2>3 DEF Init, Contract!Init
<1>2. TypeOK /\ BatcherInv /\ ItemInv /\ AnswerInv /\ [Next]_vars
        => [Contract!Next]_<<execution, answer>>
  <2> SUFFICES ASSUME TypeOK, BatcherInv, ItemInv, AnswerInv, [Next]_vars
               PROVE  Contract!Next \/ UNCHANGED <<execution, answer>>
    OBVIOUS
  <2>1. CASE Terminate \/ Stop \/ Exit \/ Halted \/ UNCHANGED vars
    <3>1. UNCHANGED <<answer, resultCh, loop, pending>>
      BY <2>1 DEF Terminate, Stop, Exit, Halted, vars, callVars, loopVars
    <3>2. \A x \in Requests : Executing(x)' = Executing(x) /\ Sent(x)' = Sent(x)
      BY <3>1 DEF Executing, Sent
    <3> QED BY <3>1, <3>2, ExecutionOf, ExecutionFixed
  <2>2. ASSUME NEW r \in Requests, Call(r) \/ HandlerStep(r) \/ Deadline(r) \/ ClientCancel(r)
        PROVE  Contract!Next \/ UNCHANGED <<execution, answer>>
    BY <2>2, HandlerRefines DEF Contract!Next
  <2>3. ASSUME NEW b \in Requests, LoopStep(b)
        PROVE  Contract!Next \/ UNCHANGED <<execution, answer>>
    <3>1. batch[b] \in SUBSET Requests
      BY DEF TypeOK
    <3> QED BY <2>3, <3>1, LoopRefines DEF Contract!Next
  <2>4. ASSUME NEW b \in Requests, NEW r \in Requests, ItemStep(b, r)
        PROVE  Contract!Next \/ UNCHANGED <<execution, answer>>
    BY <2>4, ItemRefines DEF Contract!Next
  <2> QED BY <2>1, <2>2, <2>3, <2>4 DEF Next
<1> QED BY <1>1, <1>2, AnswersAlwaysConsistent, PTL DEF Spec, ImplementsContract, Contract!Spec
-----------------------------------------------------------------------------
(* The counters account for every call and every item.                      *)

\* What is known of an item while it is in a batch: it was not shed, a batch
\* that runs holds no dial error, and one whose dial failed holds nothing else
\* than items that got it or are about to.
OutcomeInv ==
  \A b \in Requests : \A r \in batch[b] :
    /\ answer[r] # "shed"
    /\ loop[b] = "run" => "dialErr" \notin {resultCh[r], answer[r]}
    /\ loop[b] = "fail" => r \in pending[b] \/ "dialErr" \in {resultCh[r], answer[r]}

LEMMA HandlerOutcome ==
  ASSUME TypeOK, BatcherInv, ItemInv, AnswerInv, OutcomeInv, NEW r \in Requests,
         Call(r) \/ HandlerStep(r) \/ Deadline(r) \/ ClientCancel(r)
  PROVE  OutcomeInv'
<1>1. /\ UNCHANGED <<batch, pending>>
      /\ \A b \in Requests : batch[b] # {} => loop'[b] = loop[b]
  <2>1. CASE CreateBatcher(r)
    <3>1. \/ loop' = loop
          \/ batchers[modelOf(r)] = {} /\ loop' = [loop EXCEPT ![r] = "check"]
      BY <2>1 DEF CreateBatcher
    <3>2. batchers[modelOf(r)] = {} => batch[r] = {}
      BY DEF BatcherInv, OneLoopPerModel, ItemInv, BatchInv
    <3> QED BY <2>1, <3>1, <3>2 DEF CreateBatcher, TypeOK
  <2>2. CASE ~CreateBatcher(r)
    BY <2>2 DEF Call, HandlerStep, LookupBatcher, Enqueue, CountEnqueued, Shed,
            ReceiveResult, Deadline, ClientCancel, loopVars
  <2> QED BY <2>1, <2>2
<1>2. \A x \in Requests : x # r => answer'[x] = answer[x] /\ resultCh'[x] = resultCh[x]
  BY DEF Call, HandlerStep, LookupBatcher, CreateBatcher, Enqueue, CountEnqueued, Shed,
         ReceiveResult, Deadline, ClientCancel, Return, TypeOK
<1>3. ASSUME NEW b \in Requests, r \in batch[b]
      PROVE  /\ answer'[r] # "shed"
             /\ "dialErr" \in {resultCh'[r], answer'[r]} <=> "dialErr" \in {resultCh[r], answer[r]}
  <2>1. pc[r] \in {"count", "wait", "done"} /\ answer[r] # "shed"
    BY <1>3 DEF ItemInv, BatchInv, OutcomeInv
  <2>2. pc[r] # "done" => answer[r] = "none"
    BY DEF AnswerInv
  <2>3. CASE ReceiveResult(r) \/ Deadline(r) \/ ClientCancel(r)
    BY <2>2, <2>3 DEF ReceiveResult, Deadline, ClientCancel, Return, Goto, TypeOK, Results
  <2>4. CASE ~(ReceiveResult(r) \/ Deadline(r) \/ ClientCancel(r))
    BY <2>1, <2>4 DEF Call, HandlerStep, LookupBatcher, CreateBatcher, Enqueue,
            CountEnqueued, Shed, Return, Goto
  <2> QED BY <2>3, <2>4
<1>4. \A b \in Requests : batch[b] \subseteq Requests
  BY DEF TypeOK
<1> SUFFICES ASSUME NEW b \in Requests, NEW x \in batch[b]
             PROVE  /\ answer'[x] # "shed"
                    /\ loop[b] = "run" => "dialErr" \notin {resultCh'[x], answer'[x]}
                    /\ loop[b] = "fail" => x \in pending[b] \/ "dialErr" \in {resultCh'[x], answer'[x]}
  BY <1>1 DEF OutcomeInv
<1>5. /\ answer[x] # "shed"
      /\ loop[b] = "run" => "dialErr" \notin {resultCh[x], answer[x]}
      /\ loop[b] = "fail" => x \in pending[b] \/ "dialErr" \in {resultCh[x], answer[x]}
  BY DEF OutcomeInv
<1> QED BY <1>2, <1>3, <1>4, <1>5

LEMMA LoopOutcome ==
  ASSUME TypeOK, ItemInv, OutcomeInv, NEW b \in Requests, LoopStep(b)
  PROVE  OutcomeInv'
<1>1. UNCHANGED <<answer, resultCh>>
  BY DEF LoopStep, CheckContext, DrainQueue, Dispatch, FinishBatch, AbandonBatch, callVars
<1>2. \A a \in Requests : a # b =>
        batch'[a] = batch[a] /\ loop'[a] = loop[a] /\ pending'[a] = pending[a]
  <2>1. CASE Dispatch(b)
    BY <2>1 DEF Dispatch, Dial, ReuseClient, CallNilClient, LoopGoto, TypeOK
  <2>2. CASE ~Dispatch(b)
    BY <2>2 DEF LoopStep, CheckContext, DrainQueue, FinishBatch, AbandonBatch, LoopGoto, TypeOK
  <2> QED BY <2>1, <2>2
<1> SUFFICES ASSUME NEW x \in batch'[b]
             PROVE  /\ answer[x] # "shed"
                    /\ loop'[b] = "run" => "dialErr" \notin {resultCh[x], answer[x]}
                    /\ loop'[b] = "fail" => x \in pending'[b] \/ "dialErr" \in {resultCh[x], answer[x]}
  BY <1>1, <1>2 DEF OutcomeInv
<1>3. CASE Dispatch(b)
  <2>1. batch' = batch /\ loop[b] = "dial" /\ loop'[b] \in {"dial", "run", "fail"}
        /\ (loop'[b] # "dial" => pending'[b] = batch[b])
    BY <1>3 DEF Dispatch, Dial, ReuseClient, CallNilClient, LoopGoto, TypeOK
  <2>2. Unanswered(x)
    BY <2>1 DEF ItemInv, BatchInv
  <2> QED BY <2>1, <2>2 DEF Unanswered
<1>4. CASE DrainQueue(b)
  <2>1. /\ batch'[b] = DrainedItems(lanes[modelOf(b)], MaxBatchSize)
        /\ loop'[b] \in {"check", "dial"}
    BY <1>4 DEF DrainQueue, LoopGoto, TypeOK
  <2>2. modelOf(b) \in Models /\ lanes[modelOf(b)] \in Queues(Requests)
    BY DEF TypeOK, modelOf
  <2>3. x \in Waiting(lanes[modelOf(b)])
    BY <2>1, <2>2, DrainProperties
  <2>4. Unanswered(x)
    BY <2>2, <2>3 DEF ItemInv, QueueInv
  <2> QED BY <2>1, <2>4 DEF Unanswered
<1>5. CASE CheckContext(b) \/ FinishBatch(b) \/ AbandonBatch(b)
  <2>1. batch'[b] = {}
    BY <1>5 DEF CheckContext, FinishBatch, AbandonBatch, LoopGoto, ItemInv, BatchInv, TypeOK
  <2> QED BY <2>1
<1> QED BY <1>3, <1>4, <1>5 DEF LoopStep

LEMMA ItemOutcome ==
  ASSUME TypeOK, BatcherInv, ItemInv, OutcomeInv, NEW b \in Requests, NEW r \in Requests,
         ItemStep(b, r)
  PROVE  OutcomeInv'
<1>1. UNCHANGED <<answer, loop, batch>>
  BY DEF ItemStep, ExecuteItem, SendDialError, callVars
<1>2. PICK result \in Results :
        /\ Send(b, r, result)
        /\ \/ loop[b] = "run" /\ result \in {"ok", "execErr"}
           \/ loop[b] = "fail" /\ result = "dialErr"
  BY DEF ItemStep, ExecuteItem, SendDialError, Results
<1>3. /\ r \in pending[b] /\ r \in batch[b] /\ Unanswered(r)
      /\ resultCh'[r] = result
      /\ \A x \in Requests : x # r => resultCh'[x] = resultCh[x]
      /\ \A x, a \in Requests : x # r /\ x \in pending[a] => x \in pending'[a]
  BY <1>2 DEF Send, ItemInv, BatchInv, TypeOK
<1>4. \A a \in Requests : r \in batch[a] => a = b
  BY <1>3, BatchesDisjoint
<1>5. \A a \in Requests : batch[a] \subseteq Requests
  BY DEF TypeOK
<1> SUFFICES ASSUME NEW a \in Requests, NEW x \in batch[a]
             PROVE  /\ answer[x] # "shed"
                    /\ loop[a] = "run" => "dialErr" \notin {resultCh'[x], answer[x]}
                    /\ loop[a] = "fail" => x \in pending'[a] \/ "dialErr" \in {resultCh'[x], answer[x]}
  BY <1>1 DEF OutcomeInv
<1>6. CASE x = r
  BY <1>2, <1>3, <1>4, <1>6 DEF Unanswered
<1>7. CASE x # r
  BY <1>3, <1>5, <1>7 DEF OutcomeInv
<1> QED BY <1>6, <1>7

LEMMA OutcomesAlwaysKnown ==
  Spec => [](TypeOK /\ BatcherInv /\ ItemInv /\ AnswerInv /\ OutcomeInv)
<1>1. Init => OutcomeInv
  BY DEF Init, OutcomeInv
<1>2. TypeOK /\ BatcherInv /\ ItemInv /\ AnswerInv /\ OutcomeInv /\ [Next]_vars => OutcomeInv'
  <2> SUFFICES ASSUME TypeOK, BatcherInv, ItemInv, AnswerInv, OutcomeInv, [Next]_vars
               PROVE  OutcomeInv'
    OBVIOUS
  <2>1. CASE Terminate \/ Stop \/ Exit \/ Halted \/ UNCHANGED vars
    <3>1. UNCHANGED <<answer, resultCh, loop, batch, pending>>
      BY <2>1 DEF Terminate, Stop, Exit, Halted, vars, callVars, loopVars
    <3> QED BY <3>1 DEF OutcomeInv
  <2> QED BY <2>1, HandlerOutcome, LoopOutcome, ItemOutcome DEF Next
<1> QED BY <1>1, <1>2, AnswersAlwaysConsistent, PTL DEF Spec
\* The calls that are being served, and those that their clients canceled.
Serving  == {r \in Requests : pc[r] \in CallStates \ {"idle", "done"}}
Canceled == {r \in Requests : answer[r] = "canceled"}

\* The calls whose item is queued but not yet counted as such.
Uncounted(m) == {r \in Requests : pc[r] = "count" /\ modelOf(r) = m}

\* The items that have left the batcher with an outcome of their execution.
Settled(r) ==
  /\ pc[r] \in {"count", "wait", "done"} /\ answer[r] # "shed"
  /\ "dialErr" \notin {resultCh[r], answer[r]}
  /\ \A m \in Models : r \notin Waiting(lanes[m])
  /\ \A b \in Requests : r \notin batch[b]

CallBalance ==
  sMetrics["Enqueued"] = Cardinality(Serving) + sMetrics["Dispatched"] + sMetrics["LoadShedded"]
                         + sMetrics["Errors"] + Cardinality(Canceled)

QueueBalance ==
  \A m \in Models :
    qStats[m]["enqueued"] + Cardinality(Uncounted(m)) = qStats[m]["dispatched"] + Depth(lanes[m])

ItemBalance == processed = Cardinality({r \in Requests : Settled(r)})

\* CountersBalance is these three balances.
LEMMA BalanceParts == CallBalance /\ QueueBalance /\ ItemBalance => CountersBalance
<1> DEFINE InBatch   == UNION {batch[b] : b \in Requests}
           Queued    == UNION {Waiting(lanes[m]) : m \in Models}
           Undialled == {r \in Requests : "dialErr" \in {resultCh[r], answer[r]}}
           Admitted  == {r \in Requests : pc[r] \in {"count", "wait", "done"} /\ answer[r] # "shed"}
<1>1. {r \in Requests : Settled(r)} = Admitted \ (Queued \cup InBatch \cup Undialled)
  BY DEF Settled
<1> QED BY <1>1 DEF CountersBalance, CallBalance, QueueBalance, ItemBalance, Serving,
                    Canceled, Uncounted

\* Adding to one counter of a group changes that one only.
LEMMA BumpValue ==
  ASSUME NEW Names, NEW c \in [Names -> Nat], NEW k \in Names, NEW n \in Nat
  PROVE  /\ Bump(c, k, n)[k] = c[k] + n
         /\ \A l \in Names : l # k => Bump(c, k, n)[l] = c[l]
BY DEF Bump

\* A set of calls is finite; one call more or less changes its size by one.
LEMMA CallSets ==
  ASSUME NEW S, S \subseteq Requests
  PROVE  /\ IsFiniteSet(S) /\ Cardinality(S) \in Nat
         /\ \A x : x \notin S => Cardinality(S \cup {x}) = Cardinality(S) + 1
         /\ \A x : x \in S => Cardinality(S \ {x}) = Cardinality(S) - 1
<1>1. IsFiniteSet(S)
  BY FS_Subset
<1> QED BY <1>1, FS_CardinalityType, FS_AddElement, FS_RemoveElement

\* Every way a handler goes on or returns keeps the balance of the calls.
LEMMA HandlerCalls ==
  ASSUME TypeOK, AnswerInv, CallBalance, NEW r \in Requests,
         Call(r) \/ HandlerStep(r) \/ Deadline(r) \/ ClientCancel(r)
  PROVE  CallBalance'
<1> DEFINE E(s) == s["Enqueued"]
           D(s) == s["Dispatched"]
           L(s) == s["LoadShedded"]
           X(s) == s["Errors"]
           n == Cardinality(Serving)
           c == Cardinality(Canceled)
<1>0. Serving \subseteq Requests /\ Canceled \subseteq Requests
  BY DEF Serving, Canceled
<1>1. n \in Nat /\ c \in Nat
  BY <1>0, CallSets
<1>2. /\ sMetrics \in [ServiceCounters -> Nat]
      /\ E(sMetrics) \in Nat /\ D(sMetrics) \in Nat /\ L(sMetrics) \in Nat /\ X(sMetrics) \in Nat
  BY DEF TypeOK, ServiceCounters
<1>3. E(sMetrics) = n + D(sMetrics) + L(sMetrics) + X(sMetrics) + c
  BY DEF CallBalance
<1>4. ASSUME NEW k \in ServiceCounters, sMetrics' = Bump(sMetrics, k, 1)
      PROVE  /\ sMetrics'[k] = sMetrics[k] + 1
             /\ \A l \in ServiceCounters : l # k => sMetrics'[l] = sMetrics[l]
  BY <1>2, <1>4, BumpValue
<1>5. CASE Call(r)
  <2>1. Serving' = Serving \cup {r} /\ r \notin Serving /\ Canceled' = Canceled
    BY <1>5 DEF Call, Goto, Serving, Canceled, TypeOK, CallStates
  <2>2. Cardinality(Serving') = n + 1 /\ Cardinality(Canceled') = c
    BY <1>0, <2>1, CallSets
  <2>3. /\ E(sMetrics') = E(sMetrics) + 1 /\ D(sMetrics') = D(sMetrics)
        /\ L(sMetrics') = L(sMetrics) /\ X(sMetrics') = X(sMetrics)
    BY <1>4, <1>5 DEF Call, ServiceCounters
  <2> HIDE DEF n, c
  <2> QED BY <1>1, <1>2, <1>3, <2>2, <2>3 DEF CallBalance
<1>6. CASE LookupBatcher(r) \/ CreateBatcher(r) \/ Enqueue(r) \/ CountEnqueued(r)
  <2>1. Serving' = Serving /\ Canceled' = Canceled /\ sMetrics' = sMetrics
    BY <1>6 DEF LookupBatcher, CreateBatcher, Enqueue, CountEnqueued, Goto, Serving, Canceled,
            TypeOK, CallStates
  <2> QED BY <2>1 DEF CallBalance
<1>7. ASSUME pc[r] \in {"shed", "wait"}, pc' = [pc EXCEPT ![r] = "done"]
      PROVE  Cardinality(Serving') = n - 1
  <2>1. Serving' = Serving \ {r} /\ r \in Serving
    BY <1>7 DEF Serving, TypeOK, CallStates
  <2> QED BY <1>0, <2>1, CallSets
<1>8. ASSUME NEW a, a # "canceled", pc[r] \in {"shed", "wait"}, answer' = [answer EXCEPT ![r] = a]
      PROVE  Cardinality(Canceled') = c
  <2>1. answer[r] = "none"
    BY <1>8 DEF AnswerInv
  <2>2. Canceled' = Canceled
    BY <1>8, <2>1 DEF Canceled, TypeOK
  <2> QED BY <2>2
<1>9. CASE Shed(r) \/ ReceiveResult(r) \/ Deadline(r)
  <2>1. PICK a \in Answers : /\ a # "canceled" /\ pc[r] \in {"shed", "wait"}
                             /\ answer' = [answer EXCEPT ![r] = a]
                             /\ pc' = [pc EXCEPT ![r] = "done"]
    BY <1>9 DEF Shed, ReceiveResult, Deadline, Return, Goto, TypeOK, Answers, Results
  <2>2. Cardinality(Serving') = n - 1 /\ Cardinality(Canceled') = c
    BY <1>7, <1>8, <2>1
  <2>3. PICK k \in {"LoadShedded", "Dispatched", "Errors"} : sMetrics' = Bump(sMetrics, k, 1)
    BY <1>9 DEF Shed, ReceiveResult, Deadline
  <2>4. E(sMetrics') = E(sMetrics)
    BY <1>4, <2>3 DEF ServiceCounters
  <2>5. D(sMetrics') + L(sMetrics') + X(sMetrics') = D(sMetrics) + L(sMetrics) + X(sMetrics) + 1
    <3>1. /\ sMetrics'[k] = sMetrics[k] + 1
          /\ \A l \in ServiceCounters : l # k => sMetrics'[l] = sMetrics[l]
      BY <1>4, <2>3 DEF ServiceCounters
    <3> QED BY <1>2, <2>3, <3>1 DEF ServiceCounters
  <2>6. D(sMetrics') \in Nat /\ L(sMetrics') \in Nat /\ X(sMetrics') \in Nat
    BY <1>2, <1>4, <2>3 DEF ServiceCounters
  <2> HIDE DEF n, c
  <2>7. E(sMetrics') = (n - 1) + D(sMetrics') + L(sMetrics') + X(sMetrics') + c
    BY <1>1, <1>2, <1>3, <2>4, <2>5, <2>6
  <2> QED BY <2>2, <2>7 DEF CallBalance
<1>10. CASE ClientCancel(r)
  <2>1. /\ answer' = [answer EXCEPT ![r] = "canceled"] /\ sMetrics' = sMetrics
        /\ pc[r] = "wait" /\ pc' = [pc EXCEPT ![r] = "done"]
    BY <1>10 DEF ClientCancel, Return, Goto
  <2>2. Canceled' = Canceled \cup {r} /\ r \notin Canceled
    BY <2>1 DEF Canceled, AnswerInv, TypeOK
  <2>3. Cardinality(Serving') = n - 1 /\ Cardinality(Canceled') = c + 1
    BY <1>0, <1>7, <2>1, <2>2, CallSets
  <2> HIDE DEF n, c
  <2>4. E(sMetrics) = (n - 1) + D(sMetrics) + L(sMetrics) + X(sMetrics) + (c + 1)
    BY <1>1, <1>2, <1>3
  <2> QED BY <2>1, <2>3, <2>4 DEF CallBalance
<1> QED BY <1>5, <1>6, <1>9, <1>10 DEF HandlerStep
\* The step from Enqueue's unlock to its atomic add: the item is in the queue
\* and the call among the uncounted, then neither.
LEMMA HandlerQueues ==
  ASSUME TypeOK, QueueBalance, NEW r \in Requests,
         Call(r) \/ HandlerStep(r) \/ Deadline(r) \/ ClientCancel(r)
  PROVE  QueueBalance'
<1> SUFFICES ASSUME NEW m \in Models
             PROVE  qStats'[m]["enqueued"] + Cardinality(Uncounted(m)')
                      = qStats'[m]["dispatched"] + Depth(lanes'[m])
  BY DEF QueueBalance
<1> DEFINE e == qStats[m]["enqueued"]
           d == qStats[m]["dispatched"]
           u == Cardinality(Uncounted(m))
           k == Depth(lanes[m])
<1>0. \A x : modelOf(x)' = modelOf(x)
  BY ReqFixed DEF Next
<1>1. Uncounted(m) \subseteq Requests /\ modelOf(r) \in Models /\ lanes[m] \in Queues(Requests)
  BY DEF Uncounted, TypeOK, modelOf
<1>2. e \in Nat /\ d \in Nat /\ u \in Nat /\ k \in Nat
  BY <1>1, CallSets, QueueShape DEF TypeOK, QueueCounters
<1>3. e + u = d + k
  BY DEF QueueBalance
<1>4. CASE Enqueue(r) /\ ~Full(lanes[modelOf(r)], MaxDepth) /\ m = modelOf(r)
  <2>1. /\ pc[r] = "enqueue" /\ pc' = [pc EXCEPT ![r] = "count"] /\ qStats' = qStats
        /\ lanes'[m] = Push(lanes[m], req[r].priority, r)
    BY <1>4 DEF Enqueue, Goto, TypeOK
  <2>2. Uncounted(m)' = Uncounted(m) \cup {r} /\ r \notin Uncounted(m)
    BY <1>0, <1>4, <2>1 DEF Uncounted, TypeOK
  <2>3. Cardinality(Uncounted(m)') = u + 1 /\ Depth(lanes'[m]) = k + 1
    BY <1>1, <2>1, <2>2, CallSets, PushProperties
  <2> HIDE DEF u, k
  <2> QED BY <1>2, <1>3, <2>1, <2>3
<1>5. CASE CountEnqueued(r) /\ m = modelOf(r)
  <2>1. /\ pc[r] = "count" /\ pc' = [pc EXCEPT ![r] = "wait"] /\ lanes' = lanes
        /\ qStats'[m] = Bump(qStats[m], "enqueued", 1)
    BY <1>1, <1>5 DEF CountEnqueued, Goto, TypeOK
  <2>2. Uncounted(m)' = Uncounted(m) \ {r} /\ r \in Uncounted(m)
    BY <1>0, <1>5, <2>1 DEF Uncounted, TypeOK
  <2>3. Cardinality(Uncounted(m)') = u - 1
    BY <1>1, <2>2, CallSets
  <2>4. qStats'[m]["enqueued"] = e + 1 /\ qStats'[m]["dispatched"] = d
    <3>1. qStats[m] \in [QueueCounters -> Nat] /\ "enqueued" \in QueueCounters
          /\ "dispatched" \in QueueCounters
      BY DEF TypeOK, QueueCounters
    <3>2. /\ Bump(qStats[m], "enqueued", 1)["enqueued"] = qStats[m]["enqueued"] + 1
          /\ Bump(qStats[m], "enqueued", 1)["dispatched"] = qStats[m]["dispatched"]
      BY <3>1, BumpValue
    <3> QED BY <2>1, <3>2, Zenon
  <2>5. Depth(lanes'[m]) = k
    BY <2>1
  <2> HIDE DEF u, k, e, d
  <2>6. (e + 1) + (u - 1) = d + k
    BY <1>2, <1>3
  <2> QED BY <2>3, <2>4, <2>5, <2>6
<1>6. CASE ~(Enqueue(r) /\ ~Full(lanes[modelOf(r)], MaxDepth) /\ m = modelOf(r))
           /\ ~(CountEnqueued(r) /\ m = modelOf(r))
  <2>1. /\ lanes'[m] = lanes[m]
        /\ qStats'[m]["enqueued"] = e /\ qStats'[m]["dispatched"] = d
    <3>1. CASE Shed(r)
      <4>1. /\ lanes' = lanes
            /\ qStats'[m] = qStats[m] \/ qStats'[m] = Bump(qStats[m], "dropped", 1)
        BY <1>1, <3>1 DEF Shed, TypeOK
      <4>2. qStats[m] \in [QueueCounters -> Nat]
        BY DEF TypeOK
      <4>3. Bump(qStats[m], "dropped", 1)["enqueued"] = e
            /\ Bump(qStats[m], "dropped", 1)["dispatched"] = d
        BY <4>2, BumpValue DEF QueueCounters
      <4> QED BY <4>1, <4>3
    <3>2. CASE Enqueue(r)
      <4>1. qStats' = qStats /\ (lanes' = lanes \/ lanes' =
              [lanes EXCEPT ![modelOf(r)] = Push(@, req[r].priority, r)])
        BY <3>2 DEF Enqueue
      <4>2. m = modelOf(r) => lanes' = lanes
        BY <1>6, <3>2 DEF Enqueue
      <4> QED BY <4>1, <4>2 DEF TypeOK
    <3>3. CASE CountEnqueued(r)
      BY <1>1, <1>6, <3>3 DEF CountEnqueued, TypeOK
    <3>4. CASE ~(Shed(r) \/ Enqueue(r) \/ CountEnqueued(r))
      BY <3>4 DEF Call, HandlerStep, LookupBatcher, CreateBatcher, ReceiveResult, Deadline,
              ClientCancel
    <3> QED BY <3>1, <3>2, <3>3, <3>4
  <2>2. Uncounted(m)' = Uncounted(m)
    <3>1. \A x \in Requests : x # r => pc'[x] = pc[x]
      BY DEF Call, HandlerStep, LookupBatcher, CreateBatcher, Enqueue, CountEnqueued, Shed,
             ReceiveResult, Deadline, ClientCancel, Return, Goto, TypeOK
    <3>2. m = modelOf(r) => pc[r] # "count" /\ pc'[r] # "count"
      <4>1. CASE Enqueue(r)
        BY <1>6, <4>1 DEF Enqueue, Goto, TypeOK
      <4>2. CASE ~Enqueue(r)
        BY <1>6, <4>2 DEF Call, HandlerStep, LookupBatcher, CreateBatcher, CountEnqueued, Shed,
                ReceiveResult, Deadline, ClientCancel, Return, Goto, TypeOK
      <4> QED BY <4>1, <4>2
    <3> QED BY <1>0, <3>1, <3>2 DEF Uncounted
  <2> QED BY <1>3, <2>1, <2>2
<1> QED BY <1>4, <1>5, <1>6

\* A loop counts as dispatched exactly what its Drain took from the queue.
LEMMA LoopQueues ==
  ASSUME TypeOK, QueueBalance, NEW b \in Requests, LoopStep(b)
  PROVE  QueueBalance'
<1> SUFFICES ASSUME NEW m \in Models
             PROVE  qStats'[m]["enqueued"] + Cardinality(Uncounted(m)')
                      = qStats'[m]["dispatched"] + Depth(lanes'[m])
  BY DEF QueueBalance
<1>0. pc' = pc /\ \A x : modelOf(x)' = modelOf(x)
  BY ReqFixed DEF Next, LoopStep, CheckContext, DrainQueue, Dispatch, FinishBatch,
                  AbandonBatch, callVars
<1>1. Uncounted(m)' = Uncounted(m)
  BY <1>0 DEF Uncounted
<1>2. CASE DrainQueue(b) /\ m = modelOf(b)
  <2> DEFINE q == lanes[m]
             n == Len(Drained(q, MaxBatchSize))
             e == qStats[m]["enqueued"]
             d == qStats[m]["dispatched"]
             u == Cardinality(Uncounted(m))
             k == Depth(Rest(q, MaxBatchSize))
  <2>1. lanes'[m] = Rest(q, MaxBatchSize) /\ qStats'[m] = Bump(qStats[m], "dispatched", n)
    BY <1>2 DEF DrainQueue, TypeOK
  <2>2. q \in Queues(Requests) /\ MaxBatchSize \in Nat
    BY DEF TypeOK
  <2>3. n \in Nat /\ k \in Nat /\ k + n = Depth(q)
    <3>1. n \in Nat /\ k + n = Depth(q)
      BY <2>2, DrainedType, DrainAccounts
    <3>2. Rest(q, MaxBatchSize) \in Queues(Requests)
      BY <2>2, DrainProperties
    <3>3. k \in Nat
      BY <3>2, QueueShape
    <3> QED BY <3>1, <3>3
  <2>4. qStats'[m]["enqueued"] = e /\ qStats'[m]["dispatched"] = d + n
    <3>1. qStats[m] \in [QueueCounters -> Nat] /\ "enqueued" \in QueueCounters
          /\ "dispatched" \in QueueCounters
      BY DEF TypeOK, QueueCounters
    <3> HIDE DEF n
    <3>2. /\ Bump(qStats[m], "dispatched", n)["dispatched"] = qStats[m]["dispatched"] + n
          /\ Bump(qStats[m], "dispatched", n)["enqueued"] = qStats[m]["enqueued"]
      BY <2>3, <3>1, BumpValue
    <3> QED BY <2>1, <3>2
  <2>5. e \in Nat /\ d \in Nat /\ u \in Nat
    <3>1. Uncounted(m) \subseteq Requests
      BY DEF Uncounted
    <3> QED BY <3>1, CallSets DEF TypeOK, QueueCounters
  <2>6. e + u = d + Depth(q)
    BY DEF QueueBalance
  <2> HIDE DEF q, n, u, k
  <2>7. e + u = (d + n) + k
    BY <2>3, <2>5, <2>6
  <2> QED BY <1>1, <2>1, <2>4, <2>7 DEF u, k
<1>3. CASE ~(DrainQueue(b) /\ m = modelOf(b))
  <2>1. lanes'[m] = lanes[m] /\ qStats'[m] = qStats[m]
    BY <1>3 DEF LoopStep, CheckContext, DrainQueue, Dispatch, FinishBatch, AbandonBatch, TypeOK
  <2> QED BY <1>1, <2>1 DEF QueueBalance
<1> QED BY <1>2, <1>3
\* A handler never makes an item processed, nor undoes it: what it receives
\* as its answer is what was in the channel.
LEMMA HandlerSettles ==
  ASSUME TypeOK, AnswerInv, NEW r \in Requests,
         Call(r) \/ HandlerStep(r) \/ Deadline(r) \/ ClientCancel(r)
  PROVE  processed' = processed /\ \A x \in Requests : Settled(x)' <=> Settled(x)
<1>1. /\ processed' = processed /\ batch' = batch
      /\ \A x \in Requests : x # r =>
           pc'[x] = pc[x] /\ answer'[x] = answer[x] /\ resultCh'[x] = resultCh[x]
  BY DEF Call, HandlerStep, LookupBatcher, CreateBatcher, Enqueue, CountEnqueued, Shed,
         ReceiveResult, Deadline, ClientCancel, Return, Goto, TypeOK, loopVars
<1>2. CASE Enqueue(r)
  <2> DEFINE n == modelOf(r)
  <2>1. n \in Models /\ lanes[n] \in Queues(Requests) /\ pc[r] = "enqueue"
    BY <1>2 DEF TypeOK, modelOf, Enqueue, Goto
  <2>2. CASE Full(lanes[n], MaxDepth)
    <3>1. lanes' = lanes /\ pc'[r] = "shed"
      BY <1>2, <2>2 DEF Enqueue, Goto, TypeOK
    <3> QED BY <1>1, <2>1, <3>1 DEF Settled
  <2>3. CASE ~Full(lanes[n], MaxDepth)
    <3>1. /\ lanes'[n] = Push(lanes[n], req[r].priority, r)
          /\ \A m \in Models : m # n => lanes'[m] = lanes[m]
      BY <1>2, <2>1, <2>3 DEF Enqueue, TypeOK
    <3>2. Waiting(lanes'[n]) = Waiting(lanes[n]) \cup {r}
      BY <2>1, <3>1, PushProperties
    <3>3. ~Settled(r) /\ ~Settled(r)'
      BY <2>1, <3>2 DEF Settled
    <3>4. \A x \in Requests : x # r => \A m \in Models :
            x \in Waiting(lanes'[m]) <=> x \in Waiting(lanes[m])
      BY <3>1, <3>2
    <3> QED BY <1>1, <3>3, <3>4 DEF Settled
  <2> QED BY <2>2, <2>3
<1>3. CASE ~Enqueue(r)
  <2>1. lanes' = lanes
    BY <1>3 DEF Call, HandlerStep, LookupBatcher, CreateBatcher, CountEnqueued, Shed,
            ReceiveResult, Deadline, ClientCancel
  <2> DEFINE done(p) == p \in {"count", "wait", "done"}
  <2>2. pc[r] # "done" => answer[r] = "none"
    BY DEF AnswerInv
  <2>3. \/ ~done(pc[r]) /\ ~(done(pc'[r]) /\ answer'[r] # "shed")
        \/ /\ done(pc[r]) /\ done(pc'[r]) /\ answer[r] # "shed" /\ answer'[r] # "shed"
           /\ "dialErr" \in {resultCh'[r], answer'[r]} <=> "dialErr" \in {resultCh[r], answer[r]}
    <3>1. CASE Call(r) \/ LookupBatcher(r) \/ CreateBatcher(r) \/ CountEnqueued(r)
      BY <2>2, <3>1 DEF Call, LookupBatcher, CreateBatcher, CountEnqueued, Goto, TypeOK
    <3>2. CASE Shed(r)
      BY <3>2 DEF Shed, Return, Goto, TypeOK
    <3>3. CASE ReceiveResult(r) \/ Deadline(r) \/ ClientCancel(r)
      BY <2>2, <3>3 DEF ReceiveResult, Deadline, ClientCancel, Return, Goto, TypeOK, Results
    <3> QED BY <1>3, <3>1, <3>2, <3>3 DEF HandlerStep
  <2>4. Settled(r)' <=> Settled(r)
    BY <1>1, <2>1, <2>3 DEF Settled
  <2> QED BY <1>1, <2>1, <2>4 DEF Settled
<1> QED BY <1>2, <1>3

\* An item in a batch is in no queue, and in no other batch.
LEMMA BatchedElsewhere ==
  ASSUME TypeOK, BatcherInv, ItemInv, NEW b \in Requests, NEW x \in batch[b]
  PROVE  /\ \A m \in Models : x \notin Waiting(lanes[m])
         /\ \A a \in Requests : x \in batch[a] => a = b
<1>1. \A m \in Models : x \in Waiting(lanes[m]) => m = modelOf(x)
  BY DEF ItemInv, QueueInv
<1>2. modelOf(x) = modelOf(b) /\ x \notin Waiting(lanes[modelOf(b)])
  BY DEF ItemInv, BatchInv
<1> QED BY <1>1, <1>2, BatchesDisjoint

\* A loop settles a batch only when it finishes it, and then all of it.
LEMMA LoopSettles ==
  ASSUME TypeOK, BatcherInv, ItemInv, OutcomeInv, NEW b \in Requests, LoopStep(b)
  PROVE  \/ processed' = processed /\ \A x \in Requests : Settled(x)' <=> Settled(x)
         \/ /\ processed' = processed + Cardinality(batch[b])
            /\ \A x \in batch[b] : ~Settled(x)
            /\ \A x \in Requests : Settled(x)' <=> Settled(x) \/ x \in batch[b]
<1>1. UNCHANGED <<pc, answer, resultCh>>
  BY DEF LoopStep, CheckContext, DrainQueue, Dispatch, FinishBatch, AbandonBatch, callVars
<1>2. CASE CheckContext(b) \/ Dispatch(b)
  <2>1. UNCHANGED <<lanes, batch, processed>>
    BY <1>2 DEF CheckContext, Dispatch
  <2> QED BY <1>1, <2>1 DEF Settled
<1>3. CASE DrainQueue(b)
  <2> DEFINE n == modelOf(b)
  <2>1. /\ lanes'[n] = Rest(lanes[n], MaxBatchSize)
        /\ \A m \in Models : m # n => lanes'[m] = lanes[m]
        /\ batch'[b] = DrainedItems(lanes[n], MaxBatchSize)
        /\ \A a \in Requests : a # b => batch'[a] = batch[a]
        /\ batch[b] = {} /\ processed' = processed
        /\ n \in Models /\ lanes[n] \in Queues(Requests) /\ MaxBatchSize \in Nat
    BY <1>3 DEF DrainQueue, LoopGoto, TypeOK, modelOf, ItemInv, BatchInv
  <2>2. Waiting(lanes[n]) = batch'[b] \cup Waiting(lanes'[n])
    BY <2>1, DrainProperties
  <2> HIDE DEF n
  <2>3. ASSUME NEW x \in Requests PROVE Settled(x)' <=> Settled(x)
    <3> DEFINE Away == (\A m \in Models : x \notin Waiting(lanes[m])) /\ \A a \in Requests : x \notin batch[a]
               Gone == (\A m \in Models : x \notin Waiting(lanes'[m])) /\ \A a \in Requests : x \notin batch'[a]
    <3>1. Away <=> Gone
      <4>1. CASE x \in Waiting(lanes[n])
        BY <2>1, <2>2, <4>1
      <4>2. CASE x \notin Waiting(lanes[n])
        <5>1. x \notin Waiting(lanes'[n]) /\ x \notin batch'[b] /\ x \notin batch[b]
          BY <2>1, <2>2, <4>2
        <5> QED BY <2>1, <4>2, <5>1
      <4> QED BY <4>1, <4>2
    <3> QED BY <1>1, <3>1 DEF Settled
  <2> QED BY <2>1, <2>3
<1>4. CASE FinishBatch(b) \/ AbandonBatch(b)
  <2>1. /\ lanes' = lanes /\ batch' = [batch EXCEPT ![b] = {}] /\ pending[b] = {}
        /\ FinishBatch(b) => loop[b] = "run" /\ processed' = processed + Cardinality(batch[b])
        /\ AbandonBatch(b) => loop[b] = "fail" /\ processed' = processed
    BY <1>4 DEF FinishBatch, AbandonBatch, LoopGoto
  <2>2. batch'[b] = {} /\ \A a \in Requests : a # b => batch'[a] = batch[a]
    BY <2>1 DEF TypeOK
  <2>3. batch[b] \subseteq Requests /\ \A x \in batch[b] : ~Settled(x)
    BY DEF TypeOK, Settled
  <2>4. \A x \in Requests : x \notin batch[b] => (Settled(x)' <=> Settled(x))
    BY <1>1, <2>1, <2>2 DEF Settled
  <2>5. ASSUME NEW x \in batch[b]
        PROVE  /\ FinishBatch(b) => Settled(x)'
               /\ AbandonBatch(b) => ~Settled(x)'
    <3>1. pc[x] \in {"count", "wait", "done"} /\ answer[x] # "shed"
      BY DEF ItemInv, BatchInv, OutcomeInv
    <3>2. \A m \in Models : x \notin Waiting(lanes'[m])
      BY <2>1, BatchedElsewhere
    <3>3. \A a \in Requests : x \notin batch'[a]
      BY <2>2, BatchedElsewhere
    <3>4. /\ FinishBatch(b) => "dialErr" \notin {resultCh[x], answer[x]}
          /\ AbandonBatch(b) => "dialErr" \in {resultCh[x], answer[x]}
      BY <2>1 DEF OutcomeInv
    <3> QED BY <1>1, <3>1, <3>2, <3>3, <3>4 DEF Settled
  <2> QED BY <1>4, <2>1, <2>3, <2>4, <2>5
<1> QED BY <1>2, <1>3, <1>4 DEF LoopStep

\* A goroutine's send concerns an item that is still in its batch.
LEMMA SendSettles ==
  ASSUME TypeOK, ItemInv, NEW b \in Requests, NEW r \in Requests, ItemStep(b, r)
  PROVE  processed' = processed /\ \A x \in Requests : Settled(x)' <=> Settled(x)
<1>1. UNCHANGED <<pc, answer, lanes, batch, processed>> /\ \E result \in Results : Send(b, r, result)
  BY DEF ItemStep, ExecuteItem, SendDialError, Results, callVars
<1>2. r \in batch[b] /\ \A x \in Requests : x # r => resultCh'[x] = resultCh[x]
  BY <1>1 DEF Send, ItemInv, BatchInv, TypeOK
<1> QED BY <1>1, <1>2 DEF Settled

\* The counters, read at any time, account for every call and every item: the
\* service's for each call's fate, a queue's for what entered and left it, the
\* batcher's for the items whose execution it saw through.
THEOREM CountersAlwaysBalance == Spec => []CountersBalance
<1> DEFINE Inv == TypeOK /\ BatcherInv /\ ItemInv /\ AnswerInv /\ OutcomeInv
           Balance == CallBalance /\ QueueBalance /\ ItemBalance
<1>1. Init => Balance
  <2> SUFFICES ASSUME Init PROVE Balance
    OBVIOUS
  <2>1. Serving = {} /\ Canceled = {} /\ {r \in Requests : Settled(r)} = {}
        /\ \A m \in Models : Uncounted(m) = {}
    BY DEF Init, Serving, Canceled, Settled, Uncounted
  <2>2. Cardinality({}) = 0
    BY FS_EmptySet
  <2>3. \A m \in Models : Depth(lanes[m]) = 0
    <3>1. Len(EmptyQueue["high"]) = 0 /\ Len(EmptyQueue["normal"]) = 0 /\ Len(EmptyQueue["low"]) = 0
      BY DEF EmptyQueue, LaneNames
    <3>2. Depth(EmptyQueue) = 0 + 0 + 0
      BY <3>1, DepthIsSum
    <3> QED BY <3>2 DEF Init
  <2>4. /\ \A c \in ServiceCounters : sMetrics[c] = 0
        /\ \A m \in Models : \A c \in QueueCounters : qStats[m][c] = 0
        /\ processed = 0
    BY DEF Init
  <2>5. CallBalance
    <3>1. /\ sMetrics["Enqueued"] = 0 /\ sMetrics["Dispatched"] = 0
          /\ sMetrics["LoadShedded"] = 0 /\ sMetrics["Errors"] = 0
      BY <2>4 DEF ServiceCounters
    <3>2. Cardinality(Serving) = 0 /\ Cardinality(Canceled) = 0
      BY <2>1, <2>2, Zenon
    <3> QED BY <3>1, <3>2 DEF CallBalance
  <2>6. QueueBalance
    <3>1. \A m \in Models : qStats[m]["enqueued"] = 0 /\ qStats[m]["dispatched"] = 0
      BY <2>4 DEF QueueCounters
    <3>2. \A m \in Models : Cardinality(Uncounted(m)) = 0
      BY <2>1, <2>2, Zenon
    <3> QED BY <2>3, <3>1, <3>2 DEF QueueBalance
  <2>7. ItemBalance
    BY <2>1, <2>2, <2>4, Zenon DEF ItemBalance
  <2> QED BY <2>5, <2>6, <2>7
<1>2. Inv /\ Balance /\ [Next]_vars => Balance'
  <2> SUFFICES ASSUME Inv, Balance, [Next]_vars PROVE Balance'
    OBVIOUS
  <2> DEFINE Done == {x \in Requests : Settled(x)}
  <2>0. ASSUME processed' = processed, \A x \in Requests : Settled(x)' <=> Settled(x)
        PROVE  ItemBalance'
    <3>1. Done' = Done
      BY <2>0
    <3> QED BY <2>0, <3>1 DEF ItemBalance
  <2>1. ASSUME NEW r \in Requests, Call(r) \/ HandlerStep(r) \/ Deadline(r) \/ ClientCancel(r)
        PROVE  Balance'
    BY <2>0, <2>1, HandlerCalls, HandlerQueues, HandlerSettles
  <2>2. ASSUME NEW b \in Requests, LoopStep(b) PROVE Balance'
    <3>1. UNCHANGED <<pc, answer, sMetrics>>
      BY <2>2 DEF LoopStep, CheckContext, DrainQueue, Dispatch, FinishBatch, AbandonBatch, callVars
    <3>2. CallBalance'
      BY <3>1 DEF CallBalance, Serving, Canceled
    <3>3. ASSUME processed' = processed + Cardinality(batch[b]), \A x \in batch[b] : ~Settled(x),
                 \A x \in Requests : Settled(x)' <=> Settled(x) \/ x \in batch[b]
          PROVE  ItemBalance'
      <4>1. Done' = Done \cup batch[b] /\ Done \cap batch[b] = {}
        BY <3>3 DEF TypeOK
      <4>2. IsFiniteSet(Done) /\ IsFiniteSet(batch[b])
        <5>1. Done \subseteq Requests /\ batch[b] \subseteq Requests
          BY DEF TypeOK
        <5> QED BY <5>1, CallSets
      <4> HIDE DEF Done
      <4>3. Cardinality(Done \cup batch[b]) = Cardinality(Done) + Cardinality(batch[b])
        <5>1. Cardinality(Done \cup batch[b])
                = Cardinality(Done) + Cardinality(batch[b]) - Cardinality({})
          BY <4>1, <4>2, FS_Union, Zenon
        <5>2. Cardinality(Done) \in Nat /\ Cardinality(batch[b]) \in Nat /\ Cardinality({}) = 0
          BY <4>2, FS_CardinalityType, FS_EmptySet
        <5> QED BY <5>1, <5>2
      <4> QED BY <3>3, <4>1, <4>3 DEF ItemBalance, Done
    <3>4. ItemBalance'
      BY <2>0, <2>2, <3>3, LoopSettles
    <3> QED BY <2>2, <3>2, <3>4, LoopQueues
  <2>3. ASSUME NEW b \in Requests, NEW r \in Requests, ItemStep(b, r) PROVE Balance'
    <3>1. UNCHANGED <<req, pc, answer, sMetrics, qStats, lanes>>
      BY <2>3 DEF ItemStep, ExecuteItem, SendDialError, callVars
    <3>2. CallBalance' /\ QueueBalance'
      BY <3>1 DEF CallBalance, Serving, Canceled, QueueBalance, Uncounted, modelOf
    <3> QED BY <2>0, <2>3, <3>2, SendSettles
  <2>4. CASE Terminate \/ Stop \/ Exit \/ Halted \/ UNCHANGED vars
    <3>1. UNCHANGED <<req, pc, answer, resultCh, lanes, batch, sMetrics, qStats, processed>>
      BY <2>4 DEF Terminate, Stop, Exit, Halted, vars, callVars, loopVars
    <3>2. CallBalance' /\ QueueBalance'
      BY <3>1 DEF CallBalance, Serving, Canceled, QueueBalance, Uncounted, modelOf
    <3>3. \A x \in Requests : Settled(x)' <=> Settled(x)
      BY <3>1 DEF Settled
    <3> QED BY <2>0, <3>1, <3>2, <3>3
  <2> QED BY <2>1, <2>2, <2>3, <2>4 DEF Next
<1> QED BY <1>1, <1>2, BalanceParts, OutcomesAlwaysKnown, PTL DEF Spec
=============================================================================
