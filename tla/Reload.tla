-------------------------------- MODULE Reload --------------------------------
(***************************************************************************)
(* How the router keeps its copies of the models and rollouts tables       *)
(* (services/router/cmd/main.go): reloadLoop loads and publishes both      *)
(* every 30 s, and each POST /v1/rollout writes the rollouts table, loads  *)
(* it and publishes it too.  Loading and publishing are separate steps, so *)
(* the older of two loads may be published last.                           *)
(*                                                                         *)
(* A table's contents are known by a number that counts its versions from  *)
(* 1.  LoadModels queries the tasks of each enabled model while its own    *)
(* rows are open.  On the only connection, which is how Open sets up the   *)
(* pool, it then waits for itself for ever, and everybody else for it: see *)
(* StorePool.  The pool is a parameter here, so that what a repaired store *)
(* gives can be stated too.  A query for a model's tasks that fails would  *)
(* panic and end the process; here a load fails as a whole or not at all.  *)
(***************************************************************************)
EXTENDS Naturals

CONSTANTS
  Posts,    \* POST /v1/rollout requests
  MaxEdits  \* bound: versions of the models table

Loop    == "loop"              \* the goroutine of reloadLoop
Loaders == Posts \cup {Loop}
Nil     == 0                   \* what LoadRollouts returns beside an error

VARIABLES
  rollouts,  \* the rollouts table
  models,    \* the models table
  enabled,   \* whether some model in it is enabled
  pool,      \* connections: "one" (the code's), "held" for good, or "ample"
  canary,    \* canaryState.configs
  known,     \* RouterServer.models
  at,        \* at[l]: where loader l is
  loaded,    \* loaded[l]: what it has loaded and not yet published
  disk       \* "down" while queries fail

tables == <<rollouts, models, enabled, pool>>
vars   == <<tables, canary, known, at, loaded, disk>>

\* NewRouterServer: LoadModels has returned, which on one connection it does
\* only if no model is enabled; LoadRollouts may have failed.
Init ==
  /\ rollouts = 1
  /\ models = 1
  /\ enabled \in BOOLEAN
  /\ pool \in {"one", "ample"}
  /\ pool = "one" => ~enabled
  /\ canary \in {1, Nil}
  /\ known = 1
  /\ at = [l \in Loaders |-> "idle"]
  /\ loaded = [l \in Loaders |-> Nil]
  /\ disk = "up"

-----------------------------------------------------------------------------
(* reloadLoop: models, then rollouts; a failed load publishes nothing.      *)

\* LoadModels meets an enabled model on the only connection, which from then
\* on nobody gets: neither the caller nor anyone else.
WaitForItself ==
  /\ disk = "up" /\ pool = "one" /\ enabled
  /\ pool' = "held"
  /\ UNCHANGED <<rollouts, models, enabled, canary, known, at, loaded, disk>>

LoadModels ==
  /\ at[Loop] = "idle"
  /\ \/ pool = "ample"
     \/ pool = "one" /\ (disk = "down" \/ ~enabled)
  /\ at' = [at EXCEPT ![Loop] = IF disk = "up" THEN "models" ELSE "between"]
  /\ loaded' = [loaded EXCEPT ![Loop] = IF disk = "up" THEN models ELSE Nil]
  /\ UNCHANGED <<tables, canary, known, disk>>

PublishModels ==
  /\ at[Loop] = "models"
  /\ at' = [at EXCEPT ![Loop] = "between"]
  /\ loaded' = [loaded EXCEPT ![Loop] = Nil]
  /\ known' = loaded[Loop]
  /\ UNCHANGED <<tables, canary, disk>>

\* Mutant of LoadRollouts: the loop looks at the models only.
LoadRolloutsNever ==
  /\ pool # "held"
  /\ at[Loop] = "between"
  /\ at' = [at EXCEPT ![Loop] = "idle"]
  /\ UNCHANGED <<tables, canary, known, loaded, disk>>

LoadRollouts ==
  /\ pool # "held"
  /\ at[Loop] = "between"
  /\ at' = [at EXCEPT ![Loop] = IF disk = "up" THEN "rollouts" ELSE "idle"]
  /\ loaded' = [loaded EXCEPT ![Loop] = IF disk = "up" THEN rollouts ELSE Nil]
  /\ UNCHANGED <<tables, canary, known, disk>>

\* canaryState.reload, by the loop or a handler.
PublishRollouts(l) ==
  /\ at[l] = "rollouts"
  /\ at' = [at EXCEPT ![l] = IF l = Loop THEN "idle" ELSE "done"]
  /\ loaded' = [loaded EXCEPT ![l] = Nil]
  /\ canary' = loaded[l]
  /\ UNCHANGED <<tables, known, disk>>

-----------------------------------------------------------------------------
(* POST /v1/rollout: a failed UpsertRollout ends it, the error of           *)
(* LoadRollouts is ignored and what it returned is published.               *)

Upsert(p) ==
  /\ pool # "held"
  /\ at[p] = "idle"
  /\ IF disk = "up"
       THEN at' = [at EXCEPT ![p] = "upserted"] /\ rollouts' = rollouts + 1
       ELSE at' = [at EXCEPT ![p] = "done"] /\ UNCHANGED rollouts
  /\ UNCHANGED <<models, enabled, pool, canary, known, loaded, disk>>

Reread(p) ==
  /\ pool # "held"
  /\ at[p] = "upserted"
  /\ at' = [at EXCEPT ![p] = "rollouts"]
  /\ loaded' = [loaded EXCEPT ![p] = IF disk = "up" THEN rollouts ELSE Nil]
  /\ UNCHANGED <<tables, canary, known, disk>>

-----------------------------------------------------------------------------
(* GET /v1/models, and the environment.                                     *)

\* The handler publishes nothing: its LoadModels matters when it hangs.
GetModels == WaitForItself

EditModels ==
  /\ models < MaxEdits
  /\ models' = models + 1
  /\ enabled' \in BOOLEAN
  /\ UNCHANGED <<rollouts, pool, canary, known, at, loaded, disk>>

Break ==
  /\ disk' = IF disk = "up" THEN "down" ELSE "up"
  /\ UNCHANGED <<tables, canary, known, at, loaded>>

LoopStep ==
  \/ at[Loop] = "idle" /\ WaitForItself
  \/ LoadModels \/ PublishModels \/ LoadRollouts \/ PublishRollouts(Loop)

Post(p) == Upsert(p) \/ Reread(p) \/ PublishRollouts(p)

Next == LoopStep \/ (\E p \in Posts : Post(p)) \/ GetModels \/ EditModels \/ Break

Spec == Init /\ [][Next]_vars

-----------------------------------------------------------------------------
(* Properties.                                                              *)

TypeOK ==
  /\ rollouts \in Nat /\ models \in Nat /\ known \in Nat
  /\ enabled \in BOOLEAN /\ pool \in {"one", "held", "ample"}
  /\ canary \in Nat
  /\ at \in [Loaders -> {"idle", "models", "between", "upserted", "rollouts", "done"}]
  /\ loaded \in [Loaders -> Nat]
  /\ disk \in {"up", "down"}

\* Provided no LoadModels waits for its own connection, the router ends up
\* with the tables as they are once the database answers again: a handler that
\* published an older load after a newer one, or the nothing of a failed load,
\* is put right by the loop.  An ample pool meets the proviso; the code's pool
\* of one does only as long as no model is enabled.
CopiesConverge ==
  [](pool # "held") /\ <>[](disk = "up") => <>[](canary = rollouts /\ known = models)
=============================================================================
