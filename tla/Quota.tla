-------------------------------- MODULE Quota --------------------------------
(***************************************************************************)
(* The control plane's quota enforcer                                      *)
(* (services/control-plane/internal/quota/quota.go) for one tenant: the    *)
(* cached configuration, the day's usage in the database and the minute's  *)
(* usage in memory.  A client asks Check before an inference and reports   *)
(* with Record after it; nothing is reserved in between.  No call of       *)
(* Record exists in the repository: clients are the environment here.      *)
(*                                                                         *)
(* A tick is a minute; minutes and days are numbered from 1.  An estimate  *)
(* is any int64 the caller sends, zero and negative ones included, so long *)
(* as its sum with what is used does not overflow.  Costs are counted in   *)
(* units in which the cheapest model's token costs one.                    *)
(***************************************************************************)
EXTENDS Integers, FiniteSets

CONSTANTS
  Clients,     \* inferences that may be under way at once
  Configs,     \* configurations: minute, day, budget and context limits
  Default,     \* DefaultConfig, used when there is no row or no answer
  Estimates,   \* tokens of an inference as its client estimates them
  Tokens,      \* tokens of an inference as they are recorded
  Contexts,    \* context lengths
  Prices,      \* what a token of some model costs, at least 1
  TTL,         \* age in ticks from which a cached configuration is read again
  DayMinutes,  \* minutes per day
  Horizon,     \* bound: the last minute
  MaxFaults    \* bound: statements of Check and Record that fail

VARIABLES
  now,      \* the minute
  row,      \* the quotas row; Default when there is none
  entry,    \* the cached configuration and its age (TTL when there is none)
  usage,    \* quota_usage: tokens and cost per day, tokens per minute
  counter,  \* the in-memory minuteCounter: window (0 if none) and used
  pc,       \* pc[c]: where the Check or Record of client c is
  cfg,      \* cfg[c]: the configuration Check works with
  key,      \* key[c]: the minute its dayKey or minuteKey was taken from
  amount,   \* amount[c]: estimatedTokens in Check, tokensUsed in Record
  admin,    \* UpsertConfig: the configuration it has yet to cache, as a set
  faults,   \* statements that failed
  blind     \* history: inferences allowed by a Check whose usage query failed

client == <<pc, cfg, key, amount>>
vars   == <<now, row, entry, usage, counter, client, admin, faults, blind>>

Day(m) == 1 + (m - 1) \div DayMinutes
Days   == 1 .. Day(Horizon)
Most(S)  == CHOOSE x \in S : \A y \in S : y <= x
Least(S) == CHOOSE x \in S : \A y \in S : x <= y

Init ==
  /\ now = 1
  /\ row = Default
  /\ entry = [config |-> Default, age |-> TTL]
  /\ usage = [tokens |-> [d \in Days |-> 0], cost |-> [d \in Days |-> 0],
              minute |-> [m \in 1 .. Horizon |-> 0]]
  /\ counter = [window |-> 0, used |-> 0]
  /\ pc = [c \in Clients |-> "idle"]
  /\ cfg = [c \in Clients |-> Default]
  /\ key = [c \in Clients |-> 0]
  /\ amount = [c \in Clients |-> 0]
  /\ admin = {}
  /\ faults = 0
  /\ blind = 0

-----------------------------------------------------------------------------
(* Check.                                                                   *)

\* A statement works, or fails within the bound.
Works == faults' = faults
Fails == faults < MaxFaults /\ faults' = faults + 1

\* A client is done with the enforcer, for now.
Leave(c) ==
  /\ pc' = [pc EXCEPT ![c] = "idle"]
  /\ cfg' = [cfg EXCEPT ![c] = Default]
  /\ key' = [key EXCEPT ![c] = 0]
  /\ amount' = [amount EXCEPT ![c] = 0]

\* loadConfig: from the cache, from the row, or the default.  A missing row
\* (row = Default) is not cached and no more is a failed query.  Lookup and
\* query are one step: what happens in between only makes the row newer.
LoadConfig(c) ==
  /\ pc[c] = "idle"
  /\ \/ /\ entry.age < TTL
        /\ cfg' = [cfg EXCEPT ![c] = entry.config]
        /\ pc' = [pc EXCEPT ![c] = "minute"]
        /\ Works
     \/ /\ entry.age >= TTL
        /\ \/ Works /\ cfg' = [cfg EXCEPT ![c] = row]
           \/ Fails /\ cfg' = [cfg EXCEPT ![c] = Default]
        /\ pc' = [pc EXCEPT ![c] = IF cfg'[c] = Default THEN "minute" ELSE "fill"]
  /\ UNCHANGED <<now, row, entry, usage, counter, key, amount, admin, blind>>

\* The row that was read goes into the cache, stamped now.
Fill(c) ==
  /\ pc[c] = "fill"
  /\ pc' = [pc EXCEPT ![c] = "minute"]
  /\ entry' = [config |-> cfg[c], age |-> 0]
  /\ UNCHANGED <<now, row, usage, counter, cfg, key, amount, admin, faults, blind>>

\* Too long a context is refused before the minute is looked at.
RefuseContext(c) ==
  /\ pc[c] = "minute"
  /\ \E n \in Contexts : n > cfg[c].context
  /\ Leave(c)
  /\ UNCHANGED <<now, row, entry, usage, counter, admin, faults, blind>>

\* checkMinute, dayUsage and Record read the clock before they wait for the
\* lock or the database, and use the keys they made from it after.
ReadClock(c) ==
  /\ \/ /\ pc[c] = "minute"
        /\ \E n \in Contexts : n <= cfg[c].context
        /\ pc' = [pc EXCEPT ![c] = "lock"]
     \/ pc[c] = "day" /\ pc' = [pc EXCEPT ![c] = "usage"]
     \/ pc[c] = "infer" /\ pc' = [pc EXCEPT ![c] = "record"]
  /\ key' = [key EXCEPT ![c] = now]
  /\ UNCHANGED <<now, row, entry, usage, counter, cfg, amount, admin, faults, blind>>

\* checkMinute begins a new count when the window is another one, be it a
\* later one.
CurrentCounter(minute) ==
  IF counter.window = minute THEN counter ELSE [window |-> minute, used |-> 0]

\* The estimate, an input of Check, is first looked at here.
CheckMinute(c) ==
  /\ pc[c] = "lock"
  /\ counter' = CurrentCounter(key[c])
  /\ \E n \in Estimates :
       IF counter'.used + n > cfg[c].minute
         THEN Leave(c)
         ELSE /\ pc' = [pc EXCEPT ![c] = "day"]
              /\ key' = [key EXCEPT ![c] = 0]
              /\ amount' = [amount EXCEPT ![c] = n]
              /\ UNCHANGED cfg
  /\ UNCHANGED <<now, row, entry, usage, admin, faults, blind>>

\* Mutant of WithinDay: only the budget is compared.
WithinBudget(c, tokens, cost) == cost + amount[c] <= cfg[c].budget

\* The two daily limits; a token is estimated at the cheapest price.
WithinDay(c, tokens, cost) ==
  /\ tokens + amount[c] <= cfg[c].day
  /\ cost + amount[c] <= cfg[c].budget

\* An inference that is allowed begins; what it was allowed by is forgotten.
Infer(c) ==
  /\ pc' = [pc EXCEPT ![c] = "infer"]
  /\ cfg' = [cfg EXCEPT ![c] = Default]
  /\ key' = [key EXCEPT ![c] = 0]
  /\ amount' = [amount EXCEPT ![c] = 0]

\* dayUsage and the verdict: usage that cannot be read counts as none.
CheckDay(c) ==
  /\ pc[c] = "usage"
  /\ \/ /\ Works
        /\ UNCHANGED blind
        /\ LET d == Day(key[c])
           IN  IF WithinDay(c, usage.tokens[d], usage.cost[d]) THEN Infer(c) ELSE Leave(c)
     \/ /\ Fails
        /\ IF WithinDay(c, 0, 0)
             THEN Infer(c) /\ blind' = blind + 1
             ELSE Leave(c) /\ UNCHANGED blind
  /\ UNCHANGED <<now, row, entry, usage, counter, admin>>

\* The inference fails: nothing is recorded.
Fail(c) ==
  /\ pc[c] = "infer"
  /\ Leave(c)
  /\ UNCHANGED <<now, row, entry, usage, counter, admin, faults, blind>>

-----------------------------------------------------------------------------
(* Record, with both keys from one reading of the clock: two statements     *)
(* whose errors are ignored and the in-memory count.                        *)

RecordDay(c) ==
  /\ pc[c] = "record"
  /\ pc' = [pc EXCEPT ![c] = "recorded"]
  /\ \E n \in Tokens, price \in Prices :
       /\ amount' = [amount EXCEPT ![c] = n]
       /\ \/ Works /\ usage' = [usage EXCEPT !.tokens[Day(key[c])] = @ + n,
                                             !.cost[Day(key[c])] = @ + n * price]
          \/ Fails /\ UNCHANGED usage
  /\ UNCHANGED <<now, row, entry, counter, cfg, key, admin, blind>>

RecordMinute(c) ==
  /\ pc[c] = "recorded"
  /\ pc' = [pc EXCEPT ![c] = "count"]
  /\ \/ Works /\ usage' = [usage EXCEPT !.minute[key[c]] = @ + amount[c]]
     \/ Fails /\ UNCHANGED usage
  /\ UNCHANGED <<now, row, entry, counter, cfg, key, amount, admin, blind>>

\* Mutant of Counted: the window of the counter is not compared.
CountedAnyway(c) == [counter EXCEPT !.used = @ + amount[c]]

\* Only the counter of the recorded minute is moved.
Counted(c) ==
  IF counter.window = key[c] THEN [counter EXCEPT !.used = @ + amount[c]] ELSE counter

Count(c) ==
  /\ pc[c] = "count"
  /\ counter' = Counted(c)
  /\ Leave(c)
  /\ UNCHANGED <<now, row, entry, usage, admin, faults, blind>>

-----------------------------------------------------------------------------
(* UpsertConfig, flushMinuteLoop and time.                                  *)

\* The row first; a failed statement ends it with nothing changed.
UpsertRow ==
  /\ admin = {}
  /\ \E config \in Configs \ {row} : row' = config /\ admin' = {config}
  /\ UNCHANGED <<now, entry, usage, counter, client, faults, blind>>

UpsertCache ==
  /\ \E config \in admin : entry' = [config |-> config, age |-> 0]
  /\ admin' = {}
  /\ UNCHANGED <<now, row, usage, counter, client, faults, blind>>

\* The loop makes its key before it waits for the lock, in this minute or,
\* when the minute turns while it waits, in an earlier one: then it deletes
\* the new minute's counter.
Flush ==
  /\ \E k \in 1 .. now : counter.window \notin {0, k}
  /\ counter' = [window |-> 0, used |-> 0]
  /\ UNCHANGED <<now, row, entry, usage, client, admin, faults, blind>>

Tick ==
  /\ now < Horizon
  /\ now' = now + 1
  /\ entry' = [entry EXCEPT !.age = IF @ < TTL THEN @ + 1 ELSE @]
  /\ UNCHANGED <<row, usage, counter, client, admin, faults, blind>>

Check(c)  == LoadConfig(c) \/ Fill(c) \/ RefuseContext(c) \/ CheckMinute(c) \/ CheckDay(c)
Record(c) == Fail(c) \/ RecordDay(c) \/ RecordMinute(c) \/ Count(c)

Next ==
  \/ \E c \in Clients : Check(c) \/ Record(c) \/ ReadClock(c)
  \/ UpsertRow \/ UpsertCache \/ Flush \/ Tick

Spec == Init /\ [][Next]_vars

-----------------------------------------------------------------------------
(* Properties.                                                              *)

TypeOK ==
  /\ now \in 1 .. Horizon
  /\ row \in Configs \cup {Default}
  /\ entry \in [config : Configs \cup {Default}, age : 0 .. TTL]
  /\ usage.tokens \in [Days -> Nat] /\ usage.cost \in [Days -> Nat]
  /\ usage.minute \in [1 .. Horizon -> Nat]
  /\ counter \in [window : 0 .. Horizon, used : Nat]
  /\ pc \in [Clients -> {"idle", "fill", "minute", "lock", "day", "usage", "infer",
                        "record", "recorded", "count"}]
  /\ cfg \in [Clients -> Configs \cup {Default}]
  /\ key \in [Clients -> 0 .. now]
  /\ amount \in [Clients -> {0} \cup Estimates \cup Tokens]
  /\ admin \subseteq Configs /\ Cardinality(admin) <= 1
  /\ faults \in 0 .. MaxFaults
  /\ blind \in 0 .. faults

\* The minute counter that Check trusts never exceeds what was recorded for
\* that minute, although a Record may be overtaken by the turn of the minute
\* between its statements: nobody is refused for somebody's earlier minute.
NoOvercount ==
  faults = 0 /\ counter.window # 0 => counter.used <= usage.minute[counter.window]

\* The most recorded tokens with which a Check still allows an inference.
Room ==
  LET open == Most({config.day : config \in Configs \cup {Default}}) - Least(Estimates)
  IN  IF open > 0 THEN open ELSE 0

\* However many clients check and record at once, a day's recorded tokens
\* exceed what a Check allows by no more than one inference for each client,
\* at its largest, and one for every usage query that failed; midnight,
\* changes of the limit and estimates of nothing or less included.
OverrunIsBounded ==
  \A d \in Days :
    usage.tokens[d] <= Room + (Cardinality(Clients) + blind) * Most(Tokens)
=============================================================================
