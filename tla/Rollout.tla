------------------------------- MODULE Rollout -------------------------------
(***************************************************************************)
(* The control plane's rollout manager                                     *)
(* (services/control-plane/internal/rollout/rollout.go): canary            *)
(* configurations are kept in the rollouts table and in an in-memory map   *)
(* that RolloutWeights reads.  Upsert and Rollback write first the one,    *)
(* then the other; HTTP handlers and the evaluator that rolls back bad     *)
(* canaries run concurrently, and the process may be restarted.            *)
(*                                                                         *)
(* u stands for a POST request and for the Config object decoded from it,  *)
(* d for a DELETE request.  A request that fails Upsert's validation       *)
(* changes nothing and is left out.                                        *)
(***************************************************************************)
EXTENDS Naturals, FiniteSets

CONSTANTS
  Ids,         \* rollout ids, numbers because List orders by id
  Upserts,     \* POST /v1/rollouts requests
  Deletes,     \* DELETE /v1/rollouts/{id} requests
  Evaluator,   \* the goroutine of evaluateLoop
  MaxRestarts  \* bound: restarts of the process

ASSUME RolloutAssumption ==
  /\ Ids \subseteq Nat
  /\ Upserts \cap Deletes = {}
  /\ Evaluator \notin Upserts \cup Deletes
  /\ MaxRestarts \in Nat

Calls   == Upserts \cup Deletes
Writers == Calls \cup {Evaluator}

VARIABLES
  target,     \* target[c]: the rollout id in request c
  enabling,   \* the upserts with enabled = true
  auto,       \* the upserts with auto_rollback = true
  pc,         \* pc[w]: where writer w is
  row,        \* row[id]: the configuration in the table ({} if none)
  active,     \* ids whose row has enabled = 1
  configs,    \* configs[id]: the map entry ({} if none)
  live,       \* Config objects whose Enabled field is true
  listed,     \* configurations evaluateAll has yet to look at
  judged,     \* the one it is rolling back ({} if none)
  regressed,  \* configurations whose canary now exceeds its thresholds
  restarts,   \* number of restarts
  crossed     \* history: ids whose map entry may differ from their row

input == <<target, enabling, auto>>
store == <<row, active>>
vars  == <<input, pc, store, configs, live, listed, judged, regressed, restarts, crossed>>

Init ==
  /\ target \in [Calls -> Ids]
  /\ enabling \in SUBSET Upserts
  /\ auto \in SUBSET Upserts
  /\ pc = [w \in Writers |-> "idle"]
  /\ row = [id \in Ids |-> {}]
  /\ active = {}
  /\ configs = [id \in Ids |-> {}]
  /\ live = enabling
  /\ listed = {}
  /\ judged = {}
  /\ regressed = {}
  /\ restarts = 0
  /\ crossed = {}

Goto(w, from, to) == pc[w] = from /\ pc' = [pc EXCEPT ![w] = to]

\* The rollout that writer w works on is id.
WorksOn(w, id) == IF w = Evaluator THEN \E u \in judged : target[u] = id ELSE target[w] = id

\* Writers between their table write and their map write for id.
Halfway(id) == {w \in Writers : pc[w] = "cache" /\ WorksOn(w, id)}

-----------------------------------------------------------------------------
(* Upsert.                                                                  *)

\* INSERT OR REPLACE.
UpsertRow(u) ==
  LET id == target[u] IN
  /\ Goto(u, "idle", "cache")
  /\ row' = [row EXCEPT ![id] = {u}]
  /\ active' = IF u \in enabling THEN active \cup {id} ELSE active \ {id}
  /\ crossed' = IF Halfway(id) = {} THEN crossed \ {id} ELSE crossed \cup {id}
  /\ UNCHANGED <<input, configs, live, listed, judged, regressed, restarts>>

\* The statement fails: the map is left alone.
UpsertFails(u) ==
  /\ Goto(u, "idle", "done")
  /\ UNCHANGED <<input, store, configs, live, listed, judged, regressed, restarts, crossed>>

UpsertCache(u) ==
  /\ Goto(u, "cache", "done")
  /\ configs' = [configs EXCEPT ![target[u]] = {u}]
  /\ UNCHANGED <<input, store, live, listed, judged, regressed, restarts, crossed>>

-----------------------------------------------------------------------------
(* Rollback, for a DELETE request and for the evaluator.                    *)

\* UPDATE ... SET enabled=0: not an error when there is no such row.
DisableRow(id) ==
  /\ active' = active \ {id}
  /\ crossed' = IF \E u \in Upserts : u \in Halfway(id) THEN crossed \cup {id} ELSE crossed
  /\ UNCHANGED row

DisableConfig(id) == live' = live \ configs[id]

DeleteRow(d) ==
  /\ Goto(d, "idle", "cache")
  /\ DisableRow(target[d])
  /\ UNCHANGED <<input, configs, live, listed, judged, regressed, restarts>>

DeleteFails(d) ==
  /\ Goto(d, "idle", "done")
  /\ UNCHANGED <<input, store, configs, live, listed, judged, regressed, restarts, crossed>>

DeleteCache(d) ==
  /\ Goto(d, "cache", "done")
  /\ DisableConfig(target[d])
  /\ UNCHANGED <<input, store, configs, listed, judged, regressed, restarts, crossed>>

-----------------------------------------------------------------------------
(* evaluateLoop: one round every two minutes.                               *)

\* List: a snapshot of the table.  Those of its configurations that are not
\* enabled, or not to be rolled back automatically, are passed over.  A List
\* that fails ends the round at once.
List ==
  /\ Goto(Evaluator, "idle", "judge")
  /\ listed' = UNION {row[id] \cap auto : id \in active}
  /\ UNCHANGED <<input, store, configs, live, judged, regressed, restarts, crossed>>

\* The next configuration in order of rollout id.
Foremost == {u \in listed : \A v \in listed : target[u] <= target[v]}


\* shouldRollback is false: the canary is within its thresholds, or a query
\* for its metrics failed, which leaves zeros and reads as healthy.
Pass ==
  /\ pc[Evaluator] = "judge"
  /\ Foremost # {}
  /\ listed' = listed \ Foremost
  /\ UNCHANGED <<input, pc, store, configs, live, judged, regressed, restarts, crossed>>

\* shouldRollback is true: the error rate or the p99 ratio of the canary was
\* read and is exceeded.
Condemn ==
  /\ Foremost \cap regressed # {}
  /\ Goto(Evaluator, "judge", "rollback")
  /\ judged' = Foremost
  /\ listed' = listed \ Foremost
  /\ UNCHANGED <<input, store, configs, live, regressed, restarts, crossed>>

\* Rollback of the configuration's id, whatever that id's row is by now.
CondemnRow ==
  /\ Goto(Evaluator, "rollback", "cache")
  /\ \E u \in judged : DisableRow(target[u])
  /\ UNCHANGED <<input, configs, live, listed, judged, regressed, restarts>>

CondemnFails ==
  /\ Goto(Evaluator, "rollback", "judge")
  /\ judged' = {}
  /\ UNCHANGED <<input, store, configs, live, listed, regressed, restarts, crossed>>

\* Mutant of CondemnCache: the evaluator writes the table only.
CondemnCacheForgets ==
  /\ Goto(Evaluator, "cache", "judge")
  /\ judged' = {}
  /\ UNCHANGED <<input, store, configs, live, listed, regressed, restarts, crossed>>

CondemnCache ==
  /\ Goto(Evaluator, "cache", "judge")
  /\ \E u \in judged : DisableConfig(target[u])
  /\ judged' = {}
  /\ UNCHANGED <<input, store, configs, listed, regressed, restarts, crossed>>

\* The range loop is over: wait for the next tick.
EndRound ==
  /\ listed = {}
  /\ Goto(Evaluator, "judge", "idle")
  /\ UNCHANGED <<input, store, configs, live, listed, judged, regressed, restarts, crossed>>

-----------------------------------------------------------------------------
(* The environment.                                                         *)

\* RecordMetrics adds windows and old ones leave the last ten minutes.  It is
\* exported and nothing in the repository calls it: whoever reports a canary's
\* metrics is outside, and free.
Measure(u) ==
  /\ regressed' = IF u \in regressed THEN regressed \ {u} ELSE regressed \cup {u}
  /\ UNCHANGED <<input, pc, store, configs, live, listed, judged, restarts, crossed>>

\* Mutant of Restart: New does not start the evaluator.
RestartWithoutEvaluator ==
  /\ restarts < MaxRestarts
  /\ restarts' = restarts + 1
  /\ pc' = [w \in Writers |-> IF w = Evaluator \/ pc[w] = "cache" THEN "lost" ELSE pc[w]]
  /\ configs' = [id \in Ids |-> {}]
  /\ listed' = {}
  /\ judged' = {}
  /\ crossed' = Ids
  /\ UNCHANGED <<input, store, live, regressed>>

\* The process ends and New starts with an empty map; requests under way are
\* lost, the table is not.
Restart ==
  /\ restarts < MaxRestarts
  /\ restarts' = restarts + 1
  /\ pc' = [w \in Writers |-> IF w = Evaluator THEN "idle"
                              ELSE IF pc[w] = "cache" THEN "lost" ELSE pc[w]]
  /\ configs' = [id \in Ids |-> {}]
  /\ listed' = {}
  /\ judged' = {}
  /\ crossed' = Ids
  /\ UNCHANGED <<input, store, live, regressed>>

UpsertStep(u) == UpsertRow(u) \/ UpsertFails(u) \/ UpsertCache(u)
DeleteStep(d) == DeleteRow(d) \/ DeleteFails(d) \/ DeleteCache(d)

Evaluate == List \/ Pass \/ Condemn \/ CondemnRow \/ CondemnFails \/ CondemnCache \/ EndRound

Next ==
  \/ \E u \in Upserts : UpsertStep(u) \/ Measure(u)
  \/ \E d \in Deletes : DeleteStep(d)
  \/ Evaluate
  \/ Restart

Spec == Init /\ [][Next]_vars

(***************************************************************************)
(* The ticker ticks and the evaluator's goroutine runs; the database does  *)
(* not fail for ever, neither the queries for metrics nor the update.      *)
(* Nothing is assumed of requests and metrics.                             *)
(***************************************************************************)
FairSpec == Spec /\ WF_vars(Evaluate) /\ SF_vars(Condemn) /\ SF_vars(CondemnRow)

-----------------------------------------------------------------------------
(* Properties.                                                              *)

TypeOK ==
  /\ target \in [Calls -> Ids] /\ enabling \subseteq Upserts /\ auto \subseteq Upserts
  /\ pc \in [Writers -> {"idle", "judge", "rollback", "cache", "done", "lost"}]
  /\ pc[Evaluator] \notin {"done", "lost"}
  /\ \A c \in Calls : pc[c] \notin {"judge", "rollback"}
  /\ row \in [Ids -> SUBSET Upserts] /\ active \subseteq Ids
  /\ configs \in [Ids -> SUBSET Upserts] /\ live \subseteq Upserts
  /\ listed \subseteq Upserts /\ judged \subseteq Upserts /\ regressed \subseteq Upserts
  /\ restarts \in Nat /\ crossed \subseteq Ids

\* The rollout contributes to RolloutWeights.
Weighted(id) == configs[id] \cap live # {}

Agree(id) == configs[id] = row[id] /\ (Weighted(id) <=> id \in active)

\* Two copies, no transaction: table and map can differ at rest only if an
\* Upsert overlapped another write of the same id, or the process restarted,
\* and the next undisturbed Upsert repairs them.  Rollbacks, by requests and
\* by the evaluator, overlap each other freely.
CopiesAgree == \A id \in Ids : Halfway(id) = {} /\ id \notin crossed => Agree(id)


\* rollout.go: "RolloutWeights returns a map of model_id -> traffic weight for
\* active rollouts": with no write under way these are the table's.
WeightsOfActive == \A id \in Ids : Halfway(id) = {} => (Weighted(id) <=> id \in active)
=============================================================================
