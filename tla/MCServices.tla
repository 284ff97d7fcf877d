------------------------------ MODULE MCServices ------------------------------
(***************************************************************************)
(* One instance of each of five components: the tenant's policy and bucket *)
(* in the router (TenantLimit), the router's tables (Reload), the control  *)
(* plane's quota enforcer (Quota), the gateway with its key cache          *)
(* (Gateway) and the model executor (Executor).  They share no state, so a *)
(* behaviour moves only one of them, chosen at the start, and leaves the   *)
(* others in their initial states.                                         *)
(***************************************************************************)
EXTENDS TenantLimit, FiniteSets

CONSTANTS
  Clients, QuotaDefault, QuotaConfigs, Estimates, Tokens, Contexts, Prices, QuotaTTL, DayMinutes, Horizon,
  MaxFaults,
  Posts, MaxEdits,
  Requests, Bodies, Limits, KeyTTL, MaxLookup, MaxWords,
  MaxTokens

\* The gateway's requests and times.
ASSUME GatewayAssumption ==
  /\ IsFiniteSet(Requests)
  /\ KeyTTL \in Nat \ {0} /\ MaxLookup \in Nat /\ MaxWords \in Nat

\* The quota enforcer's: estimates have a least one, uses are not negative and
\* have a largest one, and so have the day limits.
ASSUME QuotaAssumption ==
  /\ IsFiniteSet(Clients)
  /\ Estimates \subseteq Int /\ \E n \in Estimates : \A k \in Estimates : n <= k
  /\ Tokens \subseteq Nat /\ \E n \in Tokens : \A k \in Tokens : k <= n
  /\ Prices \subseteq Nat
  /\ QuotaConfigs \cup {QuotaDefault} \subseteq [minute : Nat, day : Nat, budget : Nat, context : Nat]
  /\ \E x \in QuotaConfigs \cup {QuotaDefault} : \A y \in QuotaConfigs \cup {QuotaDefault} : y.day <= x.day
  /\ QuotaTTL \in Nat /\ MaxFaults \in Nat
  /\ DayMinutes \in Nat \ {0} /\ Horizon \in Nat \ {0}

\* The executor's pool of threads is finite.
ASSUME PoolAssumption == IsFiniteSet(Calls) /\ MaxTokens \in Nat

VARIABLES
  mover,
  now, quotaRow, quotaEntry, usage, counter, quotaPc, cfg, minuteKey, amount, admin, faults, blind,
  rollouts, models, enabled, pool, canary, known, at, loaded, disk,
  key, off, expiry, requestPc, waited, words, status, finished, gone, m,
  serving, active, thread, sent, away

MCDefault  == [rate |-> 2, burst |-> 2]
MCPolicies == {MCDefault, [rate |-> 1, burst |-> 1]}

MCQuotaDefault == [minute |-> 1, day |-> 0, budget |-> 9, context |-> 1]
MCEstimates    == {-1, 1}
MCQuotaConfigs == {[minute |-> 0, day |-> 1, budget |-> 9, context |-> 1]}

Q == INSTANCE Quota WITH
       row <- quotaRow, entry <- quotaEntry, pc <- quotaPc, key <- minuteKey, TTL <- QuotaTTL,
       Default <- QuotaDefault, Configs <- QuotaConfigs

R == INSTANCE Reload

\* Bodies with and without what their task needs, and beyond each limit.
Shape(t, h, d) ==
  [task |-> t, has |-> h, documents |-> d, bytes |-> 1, tokens |-> 0, stream |-> FALSE]

Chat == Shape("chat", {"messages"}, 0)

MCBodies ==
  {Chat, [Chat EXCEPT !.stream = TRUE], [Chat EXCEPT !.bytes = 3], [Chat EXCEPT !.tokens = 3],
   Shape("rerank", {"query"}, 0), Shape("rerank", {"query"}, 1), Shape("rerank", {"query"}, 2),
   Shape("embed", {"query"}, 0), Shape("moderate", {"messages"}, 0),
   Shape("unspecified", {"prompt"}, 0), Shape("unknown", {}, 0)}

MCLimits == [bytes |-> 2, tokens |-> 2, documents |-> 1]

G == INSTANCE Gateway WITH pc <- requestPc, TTL <- KeyTTL

X == INSTANCE Executor

quotaVars    == <<now, quotaRow, quotaEntry, usage, counter, quotaPc, cfg, minuteKey, amount,
                  admin, faults, blind>>
reloadVars   == <<rollouts, models, enabled, pool, canary, known, at, loaded, disk>>
gatewayVars  == <<key, off, expiry, requestPc, waited, words, status, finished, gone, m>>
executorVars == <<serving, active, thread, sent, away>>
allVars      == <<mover, vars, quotaVars, reloadVars, gatewayVars, executorVars>>

MCInit ==
  /\ mover \in {"limit", "quota", "reload", "gateway", "executor"}
  /\ Init /\ Q!Init /\ R!Init /\ G!Init /\ X!Init
  /\ mover # "limit" => row = Default
  /\ mover # "reload" => canary = rollouts /\ enabled /\ pool = "ample"

Limit(A) ==
  mover = "limit" /\ A /\ UNCHANGED <<mover, quotaVars, reloadVars, gatewayVars, executorVars>>
Usage(A) ==
  mover = "quota" /\ A /\ UNCHANGED <<mover, vars, reloadVars, gatewayVars, executorVars>>
Copies(A) ==
  mover = "reload" /\ A /\ UNCHANGED <<mover, vars, quotaVars, gatewayVars, executorVars>>
Serve(A) ==
  mover = "gateway" /\ A /\ UNCHANGED <<mover, vars, quotaVars, reloadVars, executorVars>>
Work(A) ==
  mover = "executor" /\ A /\ UNCHANGED <<mover, vars, quotaVars, reloadVars, gatewayVars>>

MCNext == Limit(Next) \/ Usage(Q!Next) \/ Copies(R!Next) \/ Serve(G!Next) \/ Work(X!Next)

(***************************************************************************)
(* Time passes, calls keep coming and proceed; the reload loop goes on and *)
(* a handler that has written the table finishes; the threads of the       *)
(* executor run.  What is checked of the quota enforcer and of the gateway *)
(* is safety and needs no fairness.                                        *)
(***************************************************************************)
MCSpec ==
  /\ MCInit /\ [][MCNext]_allVars
  /\ WF_allVars(Limit(Tick))
  /\ \A c \in Calls : WF_allVars(Limit(Route(c)))
  /\ WF_allVars(Copies(R!LoopStep))
  /\ \A p \in Posts : WF_allVars(Copies(R!Reread(p) \/ R!PublishRollouts(p)))
  /\ \A c \in Calls : WF_allVars(Work(X!Proceed(c)))

\* The components keep to their types; of the gateway that includes that
\* every status it writes is one of its own.
ServicesTypeOK == TypeOK /\ Q!TypeOK /\ R!TypeOK /\ G!TypeOK /\ X!TypeOK

\* The in-memory minute count of the quota enforcer never exceeds what was
\* recorded for that minute.
NoOvercount == Q!NoOvercount

\* Concurrent inferences overrun a day's limit by no more than is in flight.
OverrunIsBounded == Q!OverrunIsBounded

\* The router's copies of its tables end up equal to the tables, unless a
\* LoadModels waits for its own connection.
CopiesConverge == R!CopiesConverge

\* The gateway's counters account for every request.
CountersBalance == G!CountersBalance

\* A stream counted as streamed has written that it is done.
StreamsEndWithDone == G!StreamsEndWithDone

\* A key that was turned off is refused within TTL and the longest lookup.
RevocationHolds == G!RevocationHolds

\* No response has its status written twice.
OneStatus == G!OneStatus

\* An executor that is down for good ends up with no work under way.
DrainsWhenDown == X!DrainsWhenDown
=============================================================================
