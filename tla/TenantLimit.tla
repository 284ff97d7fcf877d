----------------------------- MODULE TenantLimit -----------------------------
(***************************************************************************)
(* How the router limits a tenant: the policy cache and the token bucket   *)
(* of services/router/internal/policy/policy.go, used by the first half of *)
(* Route (services/router/cmd/main.go).  Route calls run concurrently; the *)
(* cache's lookup and fill are separate critical sections with a database  *)
(* read between them, and the tenant's row may change at any time.         *)
(*                                                                         *)
(* Tenants share nothing, so one is enough.  A tick is 1/Second of a       *)
(* second and tokens are counted in units of 1/Second, so that a bucket    *)
(* of rate r gains r units per tick and a request costs Second units.      *)
(***************************************************************************)
EXTENDS Integers

CONSTANTS
  Calls,     \* Route calls that may be under way at once
  Policies,  \* the policies a row may hold, as rate and burst
  Default,   \* policy.Default, also what a missing row stands for
  TTL,       \* policyTTL in ticks
  Second,    \* ticks per second
  MaxRate,   \* the largest rate of a policy
  MaxBurst,  \* the largest burst of a policy
  MaxIdle    \* ticks after which any bucket that refills at all is full

ASSUME LimitAssumption ==
  /\ MaxRate \in Nat
  /\ MaxBurst \in Nat
  /\ Policies \subseteq [rate : 0 .. MaxRate, burst : 0 .. MaxBurst]
  /\ Default \in Policies
  /\ TTL \in Nat
  /\ Second \in Nat \ {0}
  /\ MaxIdle \in Nat
  /\ MaxIdle >= MaxBurst * Second

VARIABLES
  row,     \* the policy in the tenants table
  db,      \* "down" while queries fail
  entry,   \* PolicyStore's entry: policy and age (past TTL when there is none)
  bucket,  \* the bucket: tokens, and idle = ticks since lastFill
  pc,      \* pc[c]: where Route call c is
  pol,     \* pol[c]: its tPolicy
  last,    \* what the limiter last answered
  credit   \* history: tokens of an ideal bucket with MaxRate and MaxBurst

vars == <<row, db, entry, bucket, pc, pol, last, credit>>

Full == MaxBurst * Second

AtMost(m, n) == IF m < n THEN m ELSE n

\* No entry is as good as one that is too old; no bucket as good as one that
\* the first policy's burst will cut down to a full one.
Init ==
  /\ row \in Policies
  /\ db = "up"
  /\ entry = [policy |-> Default, age |-> TTL + 1]
  /\ bucket = [tokens |-> Full, idle |-> MaxIdle]
  /\ pc = [c \in Calls |-> "idle"]
  /\ pol = [c \in Calls |-> Default]
  /\ last = "admitted"
  /\ credit = Full

-----------------------------------------------------------------------------
(* Route, up to the rate limit check.                                       *)

\* Mutant of Lookup: a hit makes the entry young again.
LookupRenews(c) ==
  /\ pc[c] = "idle"
  /\ IF entry.age <= TTL
       THEN /\ pc' = [pc EXCEPT ![c] = "limit"]
            /\ pol' = [pol EXCEPT ![c] = entry.policy]
            /\ entry' = [entry EXCEPT !.age = 0]
       ELSE pc' = [pc EXCEPT ![c] = "load"] /\ UNCHANGED <<pol, entry>>
  /\ UNCHANGED <<row, db, bucket, last, credit>>

\* PolicyStore.Get: an entry up to TTL old is used.
Lookup(c) ==
  /\ pc[c] = "idle"
  /\ IF entry.age <= TTL
       THEN /\ pc' = [pc EXCEPT ![c] = "limit"]
            /\ pol' = [pol EXCEPT ![c] = entry.policy]
       ELSE pc' = [pc EXCEPT ![c] = "load"] /\ UNCHANGED pol
  /\ UNCHANGED <<row, db, entry, bucket, last, credit>>

\* LoadTenantPolicy: a failed query counts as the default policy.
Load(c) ==
  /\ pc[c] = "load"
  /\ pc' = [pc EXCEPT ![c] = "set"]
  /\ pol' = [pol EXCEPT ![c] = IF db = "up" THEN row ELSE Default]
  /\ UNCHANGED <<row, db, entry, bucket, last, credit>>

\* PolicyStore.Set: stamped now, whenever the row was read.
Set(c) ==
  /\ pc[c] = "set"
  /\ pc' = [pc EXCEPT ![c] = "limit"]
  /\ entry' = [policy |-> pol[c], age |-> 0]
  /\ UNCHANGED <<row, db, bucket, pol, last, credit>>

\* The tokens after the refill, at the rate of the policy in hand.
Refilled(p) == AtMost(p.burst * Second, bucket.tokens + bucket.idle * p.rate)

\* Mutant of AfterAllow: a refused request leaves the refill unsaved.
AfterAllowForgets(p) ==
  [tokens |-> IF Refilled(p) >= Second THEN Refilled(p) - Second ELSE bucket.tokens,
   idle   |-> 0]

\* Mutant of AfterAllow: lastFill is not set.
AfterAllowUntimed(p) ==
  [tokens |-> IF Refilled(p) >= Second THEN Refilled(p) - Second ELSE Refilled(p),
   idle   |-> bucket.idle]

AfterAllow(p) ==
  [tokens |-> IF Refilled(p) >= Second THEN Refilled(p) - Second ELSE Refilled(p),
   idle   |-> 0]

\* RateLimiter.Allow; the rest of Route does not come back here.
Allow(c) ==
  /\ pc[c] = "limit"
  /\ pc' = [pc EXCEPT ![c] = "idle"]
  /\ bucket' = AfterAllow(pol[c])
  /\ last' = IF Refilled(pol[c]) >= Second THEN "admitted" ELSE "refused"
  /\ credit' = IF last' = "admitted" THEN credit - Second ELSE credit
  /\ pol' = [pol EXCEPT ![c] = Default]
  /\ UNCHANGED <<row, db, entry>>

-----------------------------------------------------------------------------
(* Time and the tenants table.                                              *)

\* Beyond TTL and MaxIdle ages make no difference.
Tick ==
  /\ entry' = [policy |-> entry.policy, age |-> AtMost(TTL + 1, entry.age + 1)]
  /\ bucket' = [tokens |-> bucket.tokens, idle |-> AtMost(MaxIdle, bucket.idle + 1)]
  /\ credit' = AtMost(Full, credit + MaxRate)
  /\ UNCHANGED <<row, db, pc, pol, last>>

\* An operator edits or removes the tenant's row.
UpdateRow ==
  /\ \E p \in Policies \ {row} : row' = p
  /\ UNCHANGED <<db, entry, bucket, pc, pol, last, credit>>

\* The database fails, or works again.
Flip ==
  /\ db' = IF db = "up" THEN "down" ELSE "up"
  /\ UNCHANGED <<row, entry, bucket, pc, pol, last, credit>>

Route(c) == Lookup(c) \/ Load(c) \/ Set(c) \/ Allow(c)

Next == (\E c \in Calls : Route(c)) \/ Tick \/ UpdateRow \/ Flip

Spec == Init /\ [][Next]_vars

-----------------------------------------------------------------------------
(* Properties.                                                              *)

TypeOK ==
  /\ row \in Policies
  /\ db \in {"up", "down"}
  /\ entry \in [policy : Policies, age : 0 .. TTL + 1]
  /\ bucket \in [tokens : 0 .. Full, idle : 0 .. MaxIdle]
  /\ pc \in [Calls -> {"idle", "load", "set", "limit"}]
  /\ pol \in [Calls -> Policies]
  /\ last \in {"admitted", "refused"}
  /\ credit \in Int

\* Over no period are more requests admitted than MaxBurst plus MaxRate per
\* second of it, however rates and bursts change between the calls and
\* whichever stale policy each call holds: an ideal bucket with the loosest
\* policy never runs out.
NeverOverspends == credit >= 0

\* Once the row stays as it is and can be read, every call ends up limited by
\* it: neither a default cached for a failed query nor an older read that was
\* cached last outlives its TTL.
PolicyConverges ==
  \A p \in Policies :
    <>[](row = p /\ db = "up") => <>[](\A c \in Calls : pc[c] = "limit" => pol[c] = p)

\* A tenant with a rate and a burst that keeps asking is let in again and
\* again: asking too often does not throw its refill away.
NotStarved ==
  (\E p \in Policies : p.rate > 0 /\ p.burst > 0 /\ <>[](row = p /\ db = "up"))
    => []<>(last = "admitted")
=============================================================================
