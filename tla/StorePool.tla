------------------------------ MODULE StorePool ------------------------------
(***************************************************************************)
(* The router's store and its database/sql connection pool                 *)
(* (services/router/internal/repo/store.go).  A query holds a connection   *)
(* from db.Query until its rows are exhausted or closed, and waits without *)
(* a deadline while the pool has none to give.  LoadModels issues one      *)
(* query per row (loadTasks) while its own rows are still open; every      *)
(* other method of the store is a single query or Exec.                    *)
(* registry.go List / loadCaps in the control plane has the same shape.    *)
(***************************************************************************)
EXTENDS Naturals

CONSTANTS
  Loaders,  \* calls of LoadModels: NewRouterServer and reloadLoop
  Users,    \* single-query calls: LogRequest, LoadTenantPolicy, LoadRollouts, ...
  MaxOpen,  \* db.SetMaxOpenConns
  Models    \* enabled rows of the models table

VARIABLES
  at,    \* at[c]: where call c is
  left,  \* left[c]: rows LoadModels call c has yet to scan
  free   \* connections the pool can still hand out

vars == <<at, left, free>>

Init ==
  /\ at = [c \in Loaders \cup Users |-> "called"]
  /\ left = [c \in Loaders |-> 0]
  /\ free = MaxOpen

Acquire == free > 0 /\ free' = free - 1
Release == free' = free + 1

Move(c, from, to) == at[c] = from /\ at' = [at EXCEPT ![c] = to]

\* LoadModels: db.Query over the models table; the rows stay open.
QueryModels(c) ==
  /\ Move(c, "called", "scanning")
  /\ Acquire
  /\ left' = [left EXCEPT ![c] = Models]

\* loadTasks for the row just scanned: a second db.Query.
QueryTasks(c) ==
  /\ left[c] > 0
  /\ Move(c, "scanning", "tasks")
  /\ Acquire
  /\ UNCHANGED left

\* loadTasks returns and closes its own rows.
CloseTasks(c) ==
  /\ Move(c, "tasks", "scanning")
  /\ Release
  /\ left' = [left EXCEPT ![c] = @ - 1]

\* rows.Next is false: the outer rows close and LoadModels returns.
CloseModels(c) ==
  /\ left[c] = 0
  /\ Move(c, "scanning", "returned")
  /\ Release
  /\ UNCHANGED left

\* Any other method of the store: one connection, given back on return.
BeginExec(c) ==
  /\ Move(c, "called", "executing")
  /\ Acquire
  /\ UNCHANGED left

EndExec(c) ==
  /\ Move(c, "executing", "returned")
  /\ Release
  /\ UNCHANGED left

LoaderStep(c) == QueryModels(c) \/ QueryTasks(c) \/ CloseTasks(c) \/ CloseModels(c)
UserStep(c)   == BeginExec(c) \/ EndExec(c)

Next == (\E c \in Loaders : LoaderStep(c)) \/ (\E c \in Users : UserStep(c))

\* The pool hands a returned connection to a waiter, so no waiter starves
\* while connections keep coming back.
FairSpec ==
  /\ Init /\ [][Next]_vars
  /\ \A c \in Loaders : SF_vars(LoaderStep(c))
  /\ \A c \in Users : SF_vars(UserStep(c))

\* store_test.go, TestStore_LoadModels_AfterSeed: after Seed, LoadModels
\* returns the models.
LoadModelsReturns ==
  \A c \in Loaders : at[c] = "called" ~> at[c] = "returned"
=============================================================================
