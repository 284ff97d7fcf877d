-------------------------------- MODULE Router --------------------------------
(***************************************************************************)
(* The second half of Route (services/router/cmd/main.go): concurrent      *)
(* calls filter the known models by their circuit breakers, rank the rest  *)
(* with the scorer (internal/scoring/scorer.go) and send the request to    *)
(* the first, whose outcome moves its breaker and its health record.  The  *)
(* breaker is the one of CircuitBreaker, one instance per model.           *)
(*                                                                         *)
(* Calls that DeadlineCheck or the limiter (TenantLimit) refuse touch      *)
(* nothing here; a client that gives up is in CircuitBreaker.  Every       *)
(* breaker and health record has a critical section of its own: a step     *)
(* asks or reads those of all models at once, and records an outcome in    *)
(* both at once.  Models are numbered in the order of their ids, scores    *)
(* are in thousandths and weights in hundredths.  The counters, the        *)
(* latencies of the health record, which nothing in the router reads, and  *)
(* the audit log are left out.                                             *)
(***************************************************************************)
EXTENDS Integers, FiniteSets, Sequences

CONSTANTS
  Calls,       \* Route calls that may be under way at once
  Catalog,     \* Catalog[m]: tier, cost, latency, tasks and tokens of model m
  Jobs,        \* requests: task, budget, target, length, and the policy's mode and models
  Tables,      \* what may be published: models, and weights (0 for a model without)
  Fragile,     \* models whose executor may be down
  Window,      \* length of the health record's ring (100)
  Threshold,   \* failures that open a breaker (3)
  SuccessReq,  \* successes that close a half-open one (2)
  Timeout      \* ticks a breaker stays open

Models == 1 .. Len(Catalog)

\* Models are of one of the three tiers; a breaker opens and closes after
\* one outcome or more, and the ring holds one or more.
ASSUME RouterAssumption ==
  /\ IsFiniteSet(Calls) /\ Calls # {}
  /\ Len(Catalog) \in Nat
  /\ \A m \in Models : Catalog[m].tier \in {"small", "medium", "large"} /\ Catalog[m].cost \in Nat
  /\ Tables \subseteq [models : SUBSET Models, weights : [Models -> Nat]]
  /\ Fragile \subseteq Models
  /\ Window \in Nat \ {0} /\ Threshold \in Nat \ {0} /\ SuccessReq \in Nat \ {0}
  /\ Timeout \in Nat

VARIABLES
  known,    \* RouterServer.models, as reloadLoop last published them
  canary,   \* the weights of canaryState's rollouts, last published
  breaker,  \* breaker[m]: the breaker's state and counters
  since,    \* since[m]: ticks since its last failure
  health,   \* health[m]: outcomes ring and the number of outcomes
  call,     \* call[c]: where Route call c is, and what it holds
  up,       \* models whose executor serves
  hit,      \* the calls whose model has gone down or come back under them
  asked,    \* the calls begun since the last tick, at least one per tick
  last,     \* how the last call ended
  recent,   \* history: recent[m]: up to Window outcomes, the latest last
  late      \* history: late[m]: failures recorded since the breaker opened

vars == <<known, canary, breaker, since, health, call, up, hit, asked, last, recent, late>>

B(m) == INSTANCE CircuitBreaker WITH
          cb <- breaker[m], sinceFail <- since[m], flight <- call, weather <- up,
          openFor <- 0, probes <- {}, wins <- 0, MaxFailures <- 0

Idle == [at |-> "idle"]

Init ==
  /\ \E t \in Tables : known = t.models /\ canary = t.weights
  /\ breaker = [m \in Models |-> [state |-> "closed", failures |-> 0, successes |-> 0]]
  /\ since = [m \in Models |-> Timeout + 1]
  /\ health = [m \in Models |-> [ring |-> [i \in 0 .. Window - 1 |-> 0], count |-> 0]]
  /\ call = [c \in Calls |-> Idle]
  /\ up = Models
  /\ hit = {}
  /\ asked = {}
  /\ last = "ok"
  /\ recent = [m \in Models |-> <<>>]
  /\ late = [m \in Models |-> 0]

-----------------------------------------------------------------------------
(* HealthTracker.                                                           *)

\* Outcomes counted so far, up to twice the ring: head % Window and
\* min(total, Window) are those of the code.
Up(n) == IF n + 1 = 2 * Window THEN Window ELSE n + 1

\* Mutant of Recorded: the ring starts over one slot too late.
RecordedLate(m, o) ==
  LET h == health[m]
  IN  [ring  |-> [h.ring EXCEPT ![IF h.count >= Window THEN Window - 1 ELSE h.count] = o],
       count |-> Up(h.count)]

\* Mutant of Recorded: the head is not reduced to the length of the ring.
RecordedBeyond(m, o) ==
  LET h == health[m]
  IN  [ring  |-> [i \in DOMAIN h.ring \cup {h.count} |-> IF i = h.count THEN o ELSE h.ring[i]],
       count |-> Up(h.count)]

\* RecordSuccess (1) and RecordFailure (0): the oldest outcome is replaced.
Recorded(m, o) ==
  LET h == health[m]
  IN  [ring |-> [h.ring EXCEPT ![h.count % Window] = o], count |-> Up(h.count)]

Filled(m) == IF health[m].count < Window THEN health[m].count ELSE Window
Errors(m) == Cardinality({i \in 0 .. Filled(m) - 1 : health[m].ring[i] = 0})

-----------------------------------------------------------------------------
(* Scorer.                                                                  *)

\* modeWeights; an unknown mode counts as balanced.
ModeWeights(mode) ==
  CASE mode = "latency_optimized" -> [latency |-> 50, cost |-> 10, health |-> 25, queue |-> 10, policy |-> 5]
    [] mode = "cost_optimized"    -> [latency |-> 10, cost |-> 50, health |-> 20, queue |-> 10, policy |-> 10]
    [] OTHER                      -> [latency |-> 25, cost |-> 25, health |-> 25, queue |-> 15, policy |-> 10]

LatencyScore(m, j) ==
  CASE j.target > 0 /\ Catalog[m].latency > j.target -> 0
    [] OTHER -> [small |-> 1000, medium |-> 600, large |-> 300][Catalog[m].tier]

\* cost is CostPer1k as thousandths of maxCost.
CostScore(m, j) ==
  CASE j.budget = "low"  -> [small |-> 1000, medium |-> 300, large |-> 0][Catalog[m].tier]
    [] j.budget = "high" -> [small |-> 300, medium |-> 700, large |-> 1000][Catalog[m].tier]
    [] OTHER -> IF Catalog[m].cost < 1000 THEN 1000 - Catalog[m].cost ELSE 0

\* 1 - 5 * ErrorRate, and no less than 0.
HealthScore(m) ==
  LET n == Filled(m)
      e == Errors(m)
  IN  CASE n = 0 -> 1000
        [] 5 * e >= n -> 0
        [] OTHER -> (1000 * (n - 5 * e)) \div n

\* NewRouterServer passes no queue reporter: every queue counts as empty.
QueueScore == 1000

\* A prompt is compared with twelve characters per token.
PolicyScore(m, j) == IF j.length > 12 * Catalog[m].tokens THEN 200 ELSE 1000

\* A weight of 0 is taken for a missing one.
RolloutPct(m, w) == IF w[m] = 0 THEN 100 ELSE w[m]

Total(m, j, w) ==
  LET k == ModeWeights(j.mode)
  IN  (k.latency * LatencyScore(m, j) + k.cost * CostScore(m, j) + k.health * HealthScore(m)
         + k.queue * QueueScore + k.policy * PolicyScore(m, j)) * RolloutPct(m, w)

\* The hard filters; LoadModels returns enabled models only.
Eligible(m, j) == j.task \in Catalog[m].tasks /\ (j.allowed = {} \/ m \in j.allowed)

\* The head of the ranking: the sort is stable, so the first of the best.
Best(ms, j, w) ==
  CHOOSE m \in ms : \A n \in ms \ {m} :
    IF m < n THEN Total(m, j, w) >= Total(n, j, w) ELSE Total(m, j, w) > Total(n, j, w)

-----------------------------------------------------------------------------
(* Route.                                                                   *)

\* Mutant of Candidates: the answer of Allow is not looked at.
CandidatesAll == known

\* Mutant of Candidates: half-open breakers are not probed.
CandidatesClosed == {m \in known : breaker[m].state = "closed"}

\* The known models whose breaker answers yes.
Candidates == {m \in known : B(m)!Allows}

\* Route reads the weights and the models, and asks every model's breaker,
\* which turns half-open when its time has come.
Filter(c) ==
  /\ call[c].at = "idle"
  /\ \E j \in Jobs :
       call' = [call EXCEPT ![c] = [at |-> "rank", job |-> j, weights |-> canary,
                                    candidates |-> Candidates]]
  /\ breaker' = [m \in Models |-> IF m \in known THEN B(m)!AfterAllow ELSE breaker[m]]
  /\ late' = [m \in Models |-> IF breaker'[m].state = "open" THEN late[m] ELSE 0]
  /\ asked' = {c}
  /\ UNCHANGED <<known, canary, since, health, up, hit, last, recent>>

\* Score, and dispatch to the head of the ranking; without one Route fails.
Rank(c) ==
  /\ call[c].at = "rank"
  /\ \E ms \in {{m \in call[c].candidates : Eligible(m, call[c].job)}} :
       \/ ms = {} /\ call' = [call EXCEPT ![c] = Idle] /\ last' = "error"
       \/ /\ ms # {}
          /\ \E m \in {Best(ms, call[c].job, call[c].weights)} :
               call' = [call EXCEPT ![c] = [at |-> "call", primary |-> m]]
          /\ UNCHANGED last
  /\ UNCHANGED <<known, canary, breaker, since, health, up, hit, asked, recent, late>>

\* The call ends with outcome o: the health record and its history follow.
End(c, m, o) ==
  /\ call[c].at = "call" /\ call[c].primary = m
  /\ call' = [call EXCEPT ![c] = Idle]
  /\ hit' = hit \ {c}
  /\ health' = [health EXCEPT ![m] = Recorded(m, o)]
  /\ recent' = [recent EXCEPT ![m] = IF Len(@) < Window THEN Append(@, o) ELSE Append(Tail(@), o)]
  /\ UNCHANGED <<known, canary, up, asked>>

Succeed(c, m) ==
  /\ m \in up
  /\ End(c, m, 1)
  /\ breaker' = [breaker EXCEPT ![m] = B(m)!AfterSuccess]
  /\ last' = "ok"
  /\ UNCHANGED <<since, late>>

\* Beyond the threshold the number of failures makes no difference.
Saturated(b) == [b EXCEPT !.failures = IF @ > Threshold THEN Threshold ELSE @]

\* Mutant of Fail: an error is returned before it is recorded.
FailUnrecorded(c, m) ==
  /\ m \notin up \/ c \in hit
  /\ call[c].at = "call" /\ call[c].primary = m
  /\ call' = [call EXCEPT ![c] = Idle]
  /\ hit' = hit \ {c}
  /\ last' = "error"
  /\ UNCHANGED <<known, canary, breaker, since, health, up, asked, recent, late>>

\* A failed dial, an executor error or the end of the 30 s: the executor is
\* down, or was so under the call, whose failure may come after the recovery.
Fail(c, m) ==
  /\ m \notin up \/ c \in hit
  /\ End(c, m, 0)
  /\ breaker' = [breaker EXCEPT ![m] = Saturated(B(m)!AfterFailure)]
  /\ since' = [since EXCEPT ![m] = 0]
  /\ last' = "error"
  /\ late' = [late EXCEPT ![m] = IF breaker[m].state = "open" THEN @ + 1 ELSE 0]

-----------------------------------------------------------------------------
(* The environment.                                                         *)

\* Requests come often enough for one in every tick, a fraction of Timeout.
Tick ==
  /\ asked # {}
  /\ asked' = {}
  /\ since' = [m \in Models |-> IF since[m] <= Timeout THEN since[m] + 1 ELSE since[m]]
  /\ UNCHANGED <<known, canary, breaker, health, call, up, hit, last, recent, late>>

Flip(m) ==
  /\ up' = IF m \in up THEN up \ {m} ELSE up \cup {m}
  /\ hit' = hit \cup {c \in Calls : call[c].at = "call" /\ call[c].primary = m}
  /\ UNCHANGED <<known, canary, breaker, since, health, call, asked, last, recent, late>>

\* Other models or weights are published (Reload has the steps of it).
Republish ==
  /\ \E t \in Tables : known' = t.models /\ canary' = t.weights
  /\ <<known, canary>>' # <<known, canary>>
  /\ UNCHANGED <<breaker, since, health, call, up, hit, asked, last, recent, late>>

Outcome(c) == \E m \in Models : Succeed(c, m) \/ Fail(c, m)
Route(c)   == Filter(c) \/ Rank(c) \/ Outcome(c)

Next ==
  \/ \E c \in Calls : Route(c)
  \/ \E m \in Fragile : Flip(m)
  \/ Tick \/ Republish

Spec == Init /\ [][Next]_vars

\* Requests keep coming, every call proceeds and ends, and time passes.
FairSpec == Spec /\ WF_vars(Tick) /\ \A c \in Calls : WF_vars(Route(c))

-----------------------------------------------------------------------------
(* Properties.                                                              *)

TypeOK ==
  /\ [models |-> known, weights |-> canary] \in Tables
  /\ known \subseteq Models
  /\ breaker \in [Models -> [state : {"closed", "open", "half-open"},
                             failures : 0 .. Threshold, successes : 0 .. SuccessReq]]
  /\ since \in [Models -> 0 .. Timeout + 1]
  /\ \A m \in Models : /\ health[m].ring \in [0 .. Window - 1 -> {0, 1}]
                       /\ health[m].count \in 0 .. 2 * Window - 1
  /\ \A c \in Calls : call[c].at \in {"idle", "rank", "call"}
  /\ up \subseteq Models
  /\ hit \subseteq {c \in Calls : call[c].at = "call"}
  /\ last \in {"ok", "error"}

\* The error rate that the scorer sees is that of the last Window outcomes of
\* the model, in whatever order calls end and however often the ring wraps.
HealthIsRecent ==
  \A m \in Models :
    /\ Filled(m) = Len(recent[m])
    /\ Errors(m) = Cardinality({i \in DOMAIN recent[m] : recent[m][i] = 0})

\* Once a model's breaker is open, only calls that had asked it before can
\* still fail on that model: fewer than may be under way at once.
LateFailuresBounded == \A m \in Models : late[m] < Cardinality(Calls)

\* README, "Per-model CBs allow routing around degraded models": while one
\* known model that can do every job stays up, requests are served again and
\* again, although the best-ranked model may be down or come and go.
RoutesAround ==
  (\E m \in Models : <>[](m \in up \cap known /\ \A j \in Jobs : Eligible(m, j)))
    => []<>(last = "ok")

\* The model every job goes to when all breakers let it.
Preferred(m) ==
  \A j \in Jobs : Eligible(m, j) /\ Best({n \in known : Eligible(n, j)}, j, canary) = m

\* Runbook executor-outage, "CB recovery timeline": once the executor of a
\* model is back for good, its breaker closes - provided the model is ranked
\* first again.  One that its failures have put behind another model gets no
\* request, and so neither probes nor better health: nothing else moves them.
RecoversWhenPreferred ==
  \A m \in Models :
    <>[](m \in up /\ Preferred(m)) => []<>(breaker[m].state = "closed")
=============================================================================
