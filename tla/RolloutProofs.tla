---------------------------- MODULE RolloutProofs ----------------------------
(***************************************************************************)
(* When the table and the map of the rollout manager agree, for any number *)
(* of rollouts, requests and restarts.                                     *)
(***************************************************************************)
EXTENDS Rollout, TLAPS

USE RolloutAssumption

\* A Config object that is not in the map yet still has the Enabled flag it
\* was decoded with: only a Rollback that finds it in the map clears it.
FreshConfigs ==
  \A u \in Upserts : pc[u] \in {"idle", "cache"} =>
    /\ u \in live <=> u \in enabling
    /\ \A id \in Ids : u \notin configs[id]

\* A Config object is in the map under its own id only.
OwnConfigs == \A id \in Ids : \A u \in configs[id] : target[u] = id

\* The evaluator rolls back one rollout at a time.
OneVictim == \A u, v \in judged : target[u] = target[v]

(***************************************************************************)
(* The strengthening of CopiesAgree to states with writes under way.  As   *)
(* long as an id is not crossed, an Upsert is alone with it and its row is *)
(* the one the Upsert is about to put into the map; Rollbacks share it,    *)
(* the map already has its row, and the table's flag is already down.      *)
(***************************************************************************)
CopyInv(id) ==
  id \notin crossed =>
    /\ \A u \in Upserts : u \in Halfway(id) =>
         Halfway(id) = {u} /\ row[id] = {u} /\ (id \in active <=> u \in enabling)
    /\ (\A u \in Upserts : u \notin Halfway(id)) => configs[id] = row[id]
    /\ Halfway(id) = {} => (Weighted(id) <=> id \in active)
    /\ Halfway(id) # {} /\ (\A u \in Upserts : u \notin Halfway(id)) => id \notin active

RolloutInv == TypeOK /\ FreshConfigs /\ OwnConfigs /\ OneVictim /\ \A id \in Ids : CopyInv(id)

LEMMA RolloutInit == Init => RolloutInv
<1> SUFFICES ASSUME Init PROVE RolloutInv
  OBVIOUS
<1>1. TypeOK
  BY DEF Init, TypeOK, Calls, Writers
<1>2. FreshConfigs /\ OwnConfigs /\ OneVictim
  BY DEF Init, FreshConfigs, OwnConfigs, OneVictim
<1>3. \A id \in Ids : Halfway(id) = {}
  BY DEF Init, Halfway
<1>4. \A id \in Ids : CopyInv(id)
  BY <1>3 DEF Init, CopyInv, Weighted
<1> QED BY <1>1, <1>2, <1>4 DEF RolloutInv

\* A move of one writer keeps pc well typed.
LEMMA GotoType ==
  ASSUME TypeOK, NEW w \in Writers, NEW from, NEW to, Goto(w, from, to),
         to \in {"idle", "judge", "rollback", "cache", "done", "lost"},
         w = Evaluator => to \notin {"done", "lost"},
         w # Evaluator => to \notin {"judge", "rollback"}
  PROVE  /\ pc' \in [Writers -> {"idle", "judge", "rollback", "cache", "done", "lost"}]
         /\ pc'[Evaluator] \notin {"done", "lost"}
         /\ \A c \in Calls : pc'[c] \notin {"judge", "rollback"}
BY DEF Goto, TypeOK, Calls, Writers

LEMMA RolloutTypes == ASSUME TypeOK, [Next]_vars PROVE TypeOK'
<1> USE DEF input, store
<1>1. ASSUME NEW u \in Upserts, UpsertStep(u) \/ Measure(u) PROVE TypeOK'
  <2>1. u \in Writers /\ u # Evaluator /\ target[u] \in Ids
    BY DEF TypeOK, Calls, Writers
  <2>2. CASE UpsertRow(u)
    BY <2>1, <2>2, GotoType DEF UpsertRow, TypeOK
  <2>3. CASE UpsertFails(u)
    BY <2>1, <2>3, GotoType DEF UpsertFails, TypeOK
  <2>4. CASE UpsertCache(u)
    BY <2>1, <2>4, GotoType DEF UpsertCache, TypeOK
  <2>5. CASE Measure(u)
    BY <2>5 DEF Measure, TypeOK
  <2> QED BY <1>1, <2>2, <2>3, <2>4, <2>5 DEF UpsertStep
<1>2. ASSUME NEW d \in Deletes, DeleteStep(d) PROVE TypeOK'
  <2>1. d \in Writers /\ d # Evaluator /\ target[d] \in Ids
    BY DEF TypeOK, Calls, Writers
  <2>2. CASE DeleteRow(d)
    BY <2>1, <2>2, GotoType DEF DeleteRow, DisableRow, TypeOK
  <2>3. CASE DeleteFails(d)
    BY <2>1, <2>3, GotoType DEF DeleteFails, TypeOK
  <2>4. CASE DeleteCache(d)
    BY <2>1, <2>4, GotoType DEF DeleteCache, DisableConfig, TypeOK
  <2> QED BY <1>2, <2>2, <2>3, <2>4 DEF DeleteStep
<1>3. CASE Evaluate
  <2>1. Evaluator \in Writers
    BY DEF Writers
  <2>2. \A u \in judged : target[u] \in Ids
    BY DEF TypeOK, Calls
  <2>3. CASE List
    BY <2>1, <2>3, GotoType DEF List, TypeOK
  <2>4. CASE Pass
    BY <2>4 DEF Pass, TypeOK
  <2>5. CASE Condemn
    BY <2>1, <2>5, GotoType DEF Condemn, Foremost, TypeOK
  <2>6. CASE CondemnRow
    BY <2>1, <2>2, <2>6, GotoType DEF CondemnRow, DisableRow, TypeOK
  <2>7. CASE CondemnFails
    BY <2>1, <2>7, GotoType DEF CondemnFails, TypeOK
  <2>8. CASE CondemnCache
    BY <2>1, <2>8, GotoType DEF CondemnCache, DisableConfig, TypeOK
  <2>9. CASE EndRound
    BY <2>1, <2>9, GotoType DEF EndRound, TypeOK
  <2> QED BY <1>3, <2>3, <2>4, <2>5, <2>6, <2>7, <2>8, <2>9 DEF Evaluate
<1>4. CASE Restart
  BY <1>4 DEF Restart, TypeOK, Calls, Writers
<1>5. CASE UNCHANGED vars
  BY <1>5 DEF vars, TypeOK
<1> QED BY <1>1, <1>2, <1>3, <1>4, <1>5 DEF Next

(***************************************************************************)
(* How the set of halfway writers of an id changes: a table write adds its *)
(* writer, a map write removes it, and other ids see no difference.        *)
(***************************************************************************)
LEMMA Enter ==
  ASSUME TypeOK, NEW c \in Calls, NEW from, from # "cache", Goto(c, from, "cache"),
         UNCHANGED <<target, judged>>, NEW id \in Ids
  PROVE  Halfway(id)' = IF id = target[c] THEN Halfway(id) \cup {c} ELSE Halfway(id)
BY DEF Goto, TypeOK, Calls, Writers, Halfway, WorksOn

LEMMA Leave ==
  ASSUME TypeOK, NEW c \in Calls, NEW to, to # "cache", Goto(c, "cache", to),
         UNCHANGED <<target, judged>>, NEW id \in Ids
  PROVE  /\ Halfway(id)' = Halfway(id) \ {c}
         /\ c \in Halfway(id) <=> id = target[c]
BY DEF Goto, TypeOK, Calls, Writers, Halfway, WorksOn

LEMMA Stay ==
  ASSUME TypeOK, NEW w \in Writers, NEW from, NEW to, from # "cache", to # "cache",
         Goto(w, from, to), UNCHANGED target, w # Evaluator => UNCHANGED judged,
         NEW id \in Ids
  PROVE  Halfway(id)' = Halfway(id)
BY DEF Goto, TypeOK, Calls, Writers, Halfway, WorksOn

\* A step that moves nobody in or out and writes neither copy keeps the
\* invariant of id.
LEMMA Untouched ==
  ASSUME NEW id \in Ids, CopyInv(id), Halfway(id)' = Halfway(id),
         UNCHANGED <<enabling, row, active, configs, live, crossed>>
  PROVE  CopyInv(id)'
BY DEF CopyInv, Weighted

\* A Rollback's table write, by writer w, for the id victim.
LEMMA RollbackRow ==
  ASSUME RolloutInv, TypeOK', NEW w \in Writers, w \notin Upserts, NEW victim \in Ids,
         DisableRow(victim), UNCHANGED <<enabling, configs, live>>,
         NEW id \in Ids,
         Halfway(id)' = IF id = victim THEN Halfway(id) \cup {w} ELSE Halfway(id)
  PROVE  CopyInv(id)'
<1>1. CopyInv(id)
  BY DEF RolloutInv
<1>2. CASE id # victim
  BY <1>1, <1>2 DEF DisableRow, CopyInv, Weighted
<1>3. CASE id = victim
  <2>1. CASE \E u \in Upserts : u \in Halfway(id)
    BY <1>3, <2>1 DEF DisableRow, CopyInv
  <2>2. CASE \A u \in Upserts : u \notin Halfway(id)
    BY <1>1, <1>3, <2>2 DEF DisableRow, CopyInv
  <2> QED BY <2>1, <2>2
<1> QED BY <1>2, <1>3

\* A Rollback's map write, by writer w, for the id victim.
LEMMA RollbackCache ==
  ASSUME RolloutInv, TypeOK', NEW w \in Writers, w \notin Upserts, NEW victim \in Ids,
         DisableConfig(victim), UNCHANGED <<target, enabling, row, active, configs, crossed>>,
         \A u \in Upserts : pc'[u] = pc[u],
         \A id \in Ids : /\ Halfway(id)' = Halfway(id) \ {w}
                         /\ w \in Halfway(id) <=> id = victim
  PROVE  FreshConfigs' /\ \A id \in Ids : CopyInv(id)'
<1>1. FreshConfigs'
  BY DEF RolloutInv, FreshConfigs, DisableConfig
<1>2. ASSUME NEW id \in Ids PROVE CopyInv(id)'
  <2>1. CopyInv(id)
    BY DEF RolloutInv
  <2>2. CASE id # victim
    <3>1. Weighted(id)' <=> Weighted(id)
      <4>1. configs[id] \cap configs[victim] = {}
        BY <2>2 DEF RolloutInv, OwnConfigs
      <4> QED BY <4>1 DEF DisableConfig, Weighted
    <3>2. Halfway(id)' = Halfway(id)
      BY <2>2
    <3> QED BY <2>1, <3>1, <3>2 DEF CopyInv
  <2>3. CASE id = victim
    <3>1. ~Weighted(id)'
      BY <2>3 DEF DisableConfig, Weighted
    <3> QED BY <2>1, <2>3, <3>1 DEF CopyInv
  <2> QED BY <2>2, <2>3
<1> QED BY <1>1, <1>2

LEMMA RolloutStep == RolloutInv /\ [Next]_vars => RolloutInv'
<1> SUFFICES ASSUME RolloutInv, [Next]_vars PROVE RolloutInv'
  OBVIOUS
<1> USE DEF input, store
<1>1. TypeOK /\ TypeOK'
  BY RolloutTypes DEF RolloutInv
<1>2. SUFFICES FreshConfigs' /\ OwnConfigs' /\ OneVictim' /\ \A id \in Ids : CopyInv(id)'
  BY <1>1 DEF RolloutInv
<1>3. \A id \in Ids : CopyInv(id)
  BY DEF RolloutInv
<1>4. ASSUME NEW u \in Upserts, UpsertRow(u)
      PROVE  FreshConfigs' /\ OwnConfigs' /\ OneVictim' /\ \A id \in Ids : CopyInv(id)'
  <2>1. u \in Calls /\ u \in Writers /\ target[u] \in Ids
    BY <1>1 DEF TypeOK, Calls, Writers
  <2>2. FreshConfigs' /\ OwnConfigs' /\ OneVictim'
    BY <1>1, <1>4, <2>1 DEF UpsertRow, Goto, RolloutInv, TypeOK, FreshConfigs, OwnConfigs, OneVictim
  <2>3. ASSUME NEW id \in Ids PROVE CopyInv(id)'
    <3>1. Halfway(id)' = IF id = target[u] THEN Halfway(id) \cup {u} ELSE Halfway(id)
      BY <1>1, <1>4, <2>1, Enter DEF UpsertRow
    <3>2. CASE id # target[u]
      BY <1>1, <1>3, <1>4, <3>1, <3>2 DEF UpsertRow, TypeOK, CopyInv, Weighted
    <3>3. CASE id = target[u] /\ Halfway(id) = {}
      <4>1. Halfway(id)' = {u}
        BY <3>1, <3>3
      <4>2. row'[id] = {u} /\ (id \in active' <=> u \in enabling')
        BY <1>1, <1>4, <3>3 DEF UpsertRow, TypeOK
      <4> QED BY <4>1, <4>2 DEF CopyInv
    <3>4. CASE id = target[u] /\ Halfway(id) # {}
      BY <1>4, <3>4 DEF UpsertRow, CopyInv
    <3> QED BY <3>2, <3>3, <3>4
  <2> QED BY <2>2, <2>3
<1>5. ASSUME NEW u \in Upserts, UpsertFails(u)
      PROVE  FreshConfigs' /\ OwnConfigs' /\ OneVictim' /\ \A id \in Ids : CopyInv(id)'
  <2>1. u \in Writers /\ u # Evaluator
    BY DEF Calls, Writers
  <2>2. FreshConfigs' /\ OwnConfigs' /\ OneVictim'
    BY <1>1, <1>5, <2>1 DEF UpsertFails, Goto, RolloutInv, TypeOK, FreshConfigs, OwnConfigs, OneVictim
  <2>3. \A id \in Ids : Halfway(id)' = Halfway(id)
    BY <1>1, <1>5, <2>1, Stay DEF UpsertFails
  <2> QED BY <1>3, <1>5, <2>2, <2>3, Untouched DEF UpsertFails
<1>6. ASSUME NEW u \in Upserts, UpsertCache(u)
      PROVE  FreshConfigs' /\ OwnConfigs' /\ OneVictim' /\ \A id \in Ids : CopyInv(id)'
  <2>1. u \in Calls /\ u \in Writers /\ target[u] \in Ids
    BY <1>1 DEF TypeOK, Calls, Writers
  <2>2. FreshConfigs' /\ OwnConfigs' /\ OneVictim'
    BY <1>1, <1>6, <2>1 DEF UpsertCache, Goto, RolloutInv, TypeOK, FreshConfigs, OwnConfigs, OneVictim
  <2>3. ASSUME NEW id \in Ids PROVE CopyInv(id)'
    <3>1. Halfway(id)' = Halfway(id) \ {u} /\ (u \in Halfway(id) <=> id = target[u])
      BY <1>1, <1>6, <2>1, Leave DEF UpsertCache
    <3>2. CASE id # target[u]
      <4>1. Halfway(id)' = Halfway(id)
        BY <3>1, <3>2
      <4> QED BY <1>1, <1>3, <1>6, <3>2, <4>1 DEF UpsertCache, TypeOK, CopyInv, Weighted
    <3>3. CASE id = target[u] /\ id \in crossed
      BY <1>6, <3>3 DEF UpsertCache, CopyInv
    <3>4. CASE id = target[u] /\ id \notin crossed
      <4>1. Halfway(id) = {u} /\ row[id] = {u} /\ (id \in active <=> u \in enabling)
        BY <1>3, <3>1, <3>4 DEF CopyInv
      <4>2. Halfway(id)' = {} /\ row'[id] = {u} /\ configs'[id] = {u}
        BY <1>1, <1>6, <3>1, <3>4, <4>1 DEF UpsertCache, TypeOK
      <4>3. u \in live' <=> u \in enabling
        BY <1>6, <2>1 DEF UpsertCache, Goto, RolloutInv, FreshConfigs
      <4> QED BY <1>6, <4>1, <4>2, <4>3 DEF UpsertCache, CopyInv, Weighted
    <3> QED BY <3>2, <3>3, <3>4
  <2> QED BY <2>2, <2>3
<1>7. ASSUME NEW d \in Deletes, DeleteStep(d)
      PROVE  FreshConfigs' /\ OwnConfigs' /\ OneVictim' /\ \A id \in Ids : CopyInv(id)'
  <2>1. d \in Calls /\ d \in Writers /\ d \notin Upserts /\ d # Evaluator /\ target[d] \in Ids
    BY <1>1 DEF TypeOK, Calls, Writers
  <2>2. \A u \in Upserts : pc'[u] = pc[u]
    <3>1. PICK from, to : Goto(d, from, to)
      BY <1>7 DEF DeleteStep, DeleteRow, DeleteFails, DeleteCache
    <3> QED BY <1>1, <2>1, <3>1 DEF Goto, TypeOK
  <2>3. CASE DeleteRow(d)
    <3>1. FreshConfigs' /\ OwnConfigs' /\ OneVictim'
      BY <2>2, <2>3 DEF DeleteRow, RolloutInv, FreshConfigs, OwnConfigs, OneVictim
    <3>2. \A id \in Ids : Halfway(id)' = IF id = target[d] THEN Halfway(id) \cup {d} ELSE Halfway(id)
      BY <1>1, <2>1, <2>3, Enter DEF DeleteRow
    <3> QED BY <1>1, <2>1, <2>3, <3>1, <3>2, RollbackRow DEF DeleteRow
  <2>4. CASE DeleteFails(d)
    <3>1. FreshConfigs' /\ OwnConfigs' /\ OneVictim'
      BY <2>2, <2>4 DEF DeleteFails, RolloutInv, FreshConfigs, OwnConfigs, OneVictim
    <3>2. \A id \in Ids : Halfway(id)' = Halfway(id)
      BY <1>1, <2>1, <2>4, Stay DEF DeleteFails
    <3> QED BY <1>3, <2>4, <3>1, <3>2, Untouched DEF DeleteFails
  <2>5. CASE DeleteCache(d)
    <3>1. OwnConfigs' /\ OneVictim'
      BY <2>5 DEF DeleteCache, RolloutInv, OwnConfigs, OneVictim
    <3>2. \A id \in Ids : /\ Halfway(id)' = Halfway(id) \ {d}
                          /\ d \in Halfway(id) <=> id = target[d]
      BY <1>1, <2>1, <2>5, Leave DEF DeleteCache
    <3> QED BY <1>1, <2>1, <2>2, <2>5, <3>1, <3>2, RollbackCache DEF DeleteCache
  <2> QED BY <1>7, <2>3, <2>4, <2>5 DEF DeleteStep
<1>8. CASE Evaluate
  <2>1. Evaluator \in Writers /\ Evaluator \notin Upserts
    BY DEF Writers, Calls
  <2>2. \A u \in Upserts : pc'[u] = pc[u]
    <3>1. pc' = pc \/ \E from, to : Goto(Evaluator, from, to)
      BY <1>8 DEF Evaluate, List, Pass, Condemn, CondemnRow, CondemnFails, CondemnCache, EndRound
    <3>2. \A from, to : Goto(Evaluator, from, to) => \A u \in Upserts : pc'[u] = pc[u]
      BY <1>1, <2>1 DEF Goto, TypeOK, Writers, Calls
    <3> QED BY <3>1, <3>2
  <2>3. CASE List \/ EndRound
    <3>1. FreshConfigs' /\ OwnConfigs' /\ OneVictim'
      BY <2>2, <2>3 DEF List, EndRound, RolloutInv, FreshConfigs, OwnConfigs, OneVictim
    <3>2. \A id \in Ids : Halfway(id)' = Halfway(id)
      BY <1>1, <2>1, <2>3, Stay DEF List, EndRound
    <3>3. UNCHANGED <<enabling, row, active, configs, live, crossed>>
      BY <2>3 DEF List, EndRound
    <3> QED BY <1>3, <3>1, <3>2, <3>3, Untouched
  <2>4. CASE Pass
    <3>1. FreshConfigs' /\ OwnConfigs' /\ OneVictim'
      BY <2>4 DEF Pass, RolloutInv, FreshConfigs, OwnConfigs, OneVictim
    <3>2. \A id \in Ids : Halfway(id)' = Halfway(id)
      BY <2>4 DEF Pass, Halfway, WorksOn
    <3> QED BY <1>3, <2>4, <3>1, <3>2, Untouched DEF Pass
  <2>5. CASE Condemn
    <3>1. \A u \in listed : target[u] \in Nat
      BY <1>1 DEF TypeOK, Calls
    <3>2. OneVictim'
      BY <2>5, <3>1 DEF Condemn, Foremost, OneVictim
    <3>3. FreshConfigs' /\ OwnConfigs'
      BY <2>2, <2>5 DEF Condemn, RolloutInv, FreshConfigs, OwnConfigs
    <3>4. \A id \in Ids : Halfway(id)' = Halfway(id)
      BY <1>1, <2>1, <2>5, Stay DEF Condemn
    <3> QED BY <1>3, <2>5, <3>2, <3>3, <3>4, Untouched DEF Condemn
  <2>6. CASE CondemnRow
    <3>1. PICK u \in judged : DisableRow(target[u])
      BY <2>6 DEF CondemnRow
    <3>2. target[u] \in Ids /\ \A id \in Ids : WorksOn(Evaluator, id) <=> id = target[u]
      BY <1>1 DEF TypeOK, Calls, RolloutInv, OneVictim, WorksOn
    <3>3. FreshConfigs' /\ OwnConfigs' /\ OneVictim'
      BY <2>2, <2>6 DEF CondemnRow, RolloutInv, FreshConfigs, OwnConfigs, OneVictim
    <3>4. \A id \in Ids : \A w \in Writers : WorksOn(w, id)' <=> WorksOn(w, id)
      BY <2>6 DEF CondemnRow, WorksOn
    <3>5. \A id \in Ids :
            Halfway(id)' = IF id = target[u] THEN Halfway(id) \cup {Evaluator} ELSE Halfway(id)
      BY <1>1, <2>1, <2>6, <3>2, <3>4 DEF CondemnRow, Goto, TypeOK, Halfway
    <3> QED BY <1>1, <2>1, <2>6, <3>1, <3>2, <3>3, <3>5, RollbackRow DEF CondemnRow
  <2>7. CASE CondemnFails
    <3>1. FreshConfigs' /\ OwnConfigs' /\ OneVictim'
      BY <2>2, <2>7 DEF CondemnFails, RolloutInv, FreshConfigs, OwnConfigs, OneVictim
    <3>2. \A id \in Ids : Halfway(id)' = Halfway(id)
      BY <1>1, <2>1, <2>7, Stay DEF CondemnFails
    <3> QED BY <1>3, <2>7, <3>1, <3>2, Untouched DEF CondemnFails
  <2>8. CASE CondemnCache
    <3>1. PICK u \in judged : DisableConfig(target[u])
      BY <2>8 DEF CondemnCache
    <3>2. target[u] \in Ids /\ \A id \in Ids : WorksOn(Evaluator, id) <=> id = target[u]
      BY <1>1 DEF TypeOK, Calls, RolloutInv, OneVictim, WorksOn
    <3>3. OwnConfigs' /\ OneVictim'
      BY <2>8 DEF CondemnCache, RolloutInv, OwnConfigs, OneVictim
    <3>4. \A id \in Ids : \A w \in Writers : w # Evaluator => (WorksOn(w, id)' <=> WorksOn(w, id))
      BY <2>8 DEF CondemnCache, WorksOn
    <3>5. \A id \in Ids : /\ Halfway(id)' = Halfway(id) \ {Evaluator}
                          /\ Evaluator \in Halfway(id) <=> id = target[u]
      BY <1>1, <2>1, <2>8, <3>2, <3>4 DEF CondemnCache, Goto, TypeOK, Halfway
    <3> QED BY <1>1, <2>1, <2>2, <2>8, <3>1, <3>2, <3>3, <3>5, RollbackCache DEF CondemnCache
  <2> QED BY <1>8, <2>3, <2>4, <2>5, <2>6, <2>7, <2>8 DEF Evaluate
<1>9. CASE Restart
  <2>1. \A id \in Ids : CopyInv(id)'
    BY <1>9 DEF Restart, CopyInv
  <2>2. \A u \in Upserts : u \in Writers /\ u # Evaluator
    BY DEF Writers, Calls
  <2>3. \A u \in Upserts : pc'[u] \in {"idle", "cache"} => pc[u] = "idle"
    BY <1>9, <2>2 DEF Restart
  <2>4. FreshConfigs' /\ OwnConfigs' /\ OneVictim'
    BY <1>9, <2>3 DEF Restart, RolloutInv, FreshConfigs, OwnConfigs, OneVictim
  <2> QED BY <2>1, <2>4
<1>10. ASSUME UNCHANGED <<input, pc, store, configs, live, judged, crossed>>
       PROVE  FreshConfigs' /\ OwnConfigs' /\ OneVictim' /\ \A id \in Ids : CopyInv(id)'
  <2>1. FreshConfigs' /\ OwnConfigs' /\ OneVictim'
    BY <1>10 DEF RolloutInv, FreshConfigs, OwnConfigs, OneVictim
  <2>2. \A id \in Ids : Halfway(id)' = Halfway(id)
    BY <1>10 DEF Halfway, WorksOn
  <2> QED BY <1>3, <1>10, <2>1, <2>2, Untouched
<1>11. ASSUME NEW u \in Upserts, Measure(u)
       PROVE  FreshConfigs' /\ OwnConfigs' /\ OneVictim' /\ \A id \in Ids : CopyInv(id)'
  BY <1>10, <1>11 DEF Measure
<1>12. CASE UNCHANGED vars
  BY <1>10, <1>12 DEF vars
<1> QED BY <1>4, <1>5, <1>6, <1>7, <1>8, <1>9, <1>11, <1>12 DEF Next, UpsertStep

\* Every variable of the rollout manager keeps its type: in particular a
\* request's goroutine is never where only evaluateLoop can be, nor the other
\* way round.
THEOREM RolloutTypeCorrect == Spec => []TypeOK
<1>1. RolloutInv => TypeOK
  BY DEF RolloutInv
<1> QED BY <1>1, RolloutInit, RolloutStep, PTL DEF Spec

\* Upsert and Rollback write the table and the map without a transaction; at
\* rest the two agree on every rollout no Upsert of which overlapped another
\* write and which was written since the last restart.
THEOREM CopiesAgreeAtRest == Spec => []CopiesAgree
<1>1. ASSUME RolloutInv PROVE CopiesAgree
  <2>1. \A id \in Ids : CopyInv(id)
    BY <1>1 DEF RolloutInv
  <2> QED BY <2>1 DEF CopyInv, CopiesAgree, Agree
<1> QED BY <1>1, RolloutInit, RolloutStep, PTL DEF Spec
=============================================================================
