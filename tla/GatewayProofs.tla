---------------------------- MODULE GatewayProofs ----------------------------
(***************************************************************************)
(* Proofs about the gateway for any number of requests, any bodies and any *)
(* cache lifetime.                                                         *)
(***************************************************************************)
EXTENDS Gateway, FiniteSetTheorems, TLAPS

Labels == {"new", "query", "fill", "decode", "unary", "sse", "chunks", "write", "end", "broke"}

\* The types that the argument needs.
Clocks ==
  /\ key \in {"on", "off"}
  /\ off \in 0 .. TTL + MaxLookup
  /\ expiry \in 0 .. TTL
  /\ pc \in [Requests -> Labels]
  /\ waited \in [Requests -> 0 .. MaxLookup]
  /\ key = "on" => off = 0

\* Whoever still holds an answer from before the key was turned off has held
\* it ever since, and an entry made from one runs out in time.
Fading ==
  key = "off" =>
    /\ \A r \in Requests : pc[r] = "fill" => off <= waited[r]
    /\ expiry > 0 => expiry + off <= TTL + MaxLookup

Inv == Clocks /\ Fading

\* cacheTTL is positive, and no lookup takes forever.
Lifetimes == TTL \in Nat \ {0} /\ MaxLookup \in Nat

-----------------------------------------------------------------------------
(* Steps of a request that leave the cache and the key alone.               *)

\* How such a step moves one request: it may begin to fill the cache only on
\* an answer that the enabled key has just got, and passes Validate only if
\* it had passed or there is an entry.
Calm(r) ==
  /\ UNCHANGED <<key, off, expiry, waited>>
  /\ \E l \in Labels :
       /\ Goto(r, l)
       /\ l = "fill" => key = "on" /\ pc[r] = "query"
       /\ l = "decode" => expiry > 0

LEMMA AnswerIsCalm ==
  ASSUME NEW r, NEW code, NEW counted, Answer(r, code, counted), UNCHANGED auth
  PROVE  Calm(r)
BY DEF Answer, Goto, Calm, Labels, auth

LEMMA HandleIsCalm ==
  ASSUME NEW r \in Requests, Clocks, Handle(r)
  PROVE  Calm(r) \/ Fill(r) \/ (UNCHANGED <<key, off, expiry, waited, pc>>)
<1>1. CASE Lookup(r)
  <2>1. Goto(r, IF expiry > 0 THEN "decode" ELSE "query")
    BY <1>1 DEF Lookup
  <2>2. UNCHANGED <<key, off, expiry, waited>>
    BY <1>1 DEF Lookup, auth
  <2>3. CASE expiry > 0
    BY <2>1, <2>2, <2>3 DEF Calm, Labels
  <2>4. CASE ~ (expiry > 0)
    BY <2>1, <2>2, <2>4 DEF Calm, Labels
  <2> QED BY <2>3, <2>4
<1>2. CASE Query(r)
  <2>1. CASE key = "on" /\ Goto(r, "fill")
    BY <1>2, <2>1 DEF Query, Calm, Labels, auth
  <2>2. CASE Answer(r, 401, {"AuthFailed"})
    BY <1>2, <2>2, AnswerIsCalm DEF Query
  <2> QED BY <1>2, <2>1, <2>2 DEF Query
<1>3. CASE Fill(r)
  BY <1>3
<1>4. CASE Malformed(r)
  BY <1>4, AnswerIsCalm DEF Malformed
<1>5. CASE Refuse(r)
  BY <1>5, AnswerIsCalm DEF Refuse
<1>6. CASE Accept(r)
  <2>1. Goto(r, "unary") \/ Goto(r, "sse")
    BY <1>6 DEF Accept
  <2> QED BY <1>6, <2>1 DEF Accept, Calm, Labels, auth
<1>7. CASE Unary(r)
  <2>1. \E code, counted : Answer(r, code, counted)
    BY <1>7 DEF Unary
  <2> QED BY <1>7, <2>1, AnswerIsCalm DEF Unary
<1>8. CASE Stream(r)
  <2>1. Goto(r, "chunks") \/ Goto(r, "broke")
    BY <1>8 DEF Stream, Answered
  <2> QED BY <1>8, <2>1 DEF Stream, Calm, Labels, auth
<1>9. CASE Poll(r) \/ Send(r)
  <2>1. Goto(r, "broke") \/ Goto(r, "write") \/ Goto(r, "chunks")
    BY <1>9 DEF Poll, Send
  <2> QED BY <1>9, <2>1 DEF Poll, Send, Calm, Labels, auth
<1>10. CASE Close(r)
  BY <1>10 DEF Close, Calm, Labels, auth
<1> QED
  BY <1>1, <1>2, <1>3, <1>4, <1>5, <1>6, <1>7, <1>8, <1>9, <1>10 DEF Handle

-----------------------------------------------------------------------------
(* The inductive invariant.                                                 *)

LEMMA InitInv ==
  ASSUME Lifetimes, Init
  PROVE  Inv
BY DEF Lifetimes, Init, Inv, Clocks, Fading, Labels

LEMMA CalmKeepsInv ==
  ASSUME Lifetimes, Inv, NEW r \in Requests, Calm(r)
  PROVE  Inv'
<1>1. PICK l \in Labels :
        /\ pc' = [pc EXCEPT ![r] = l]
        /\ l = "fill" => key = "on"
  BY DEF Calm, Goto
<1>2. pc' \in [Requests -> Labels]
  BY <1>1 DEF Inv, Clocks
<1>3. UNCHANGED <<key, off, expiry, waited>>
  BY DEF Calm
<1>4. Clocks'
  BY <1>2, <1>3 DEF Inv, Clocks
<1>5. Fading'
  BY <1>1, <1>3 DEF Inv, Clocks, Fading
<1> QED BY <1>4, <1>5 DEF Inv

LEMMA FillKeepsInv ==
  ASSUME Lifetimes, Inv, NEW r \in Requests, Fill(r)
  PROVE  Inv'
<1>1. /\ pc' = [pc EXCEPT ![r] = "decode"]
      /\ waited' = [waited EXCEPT ![r] = 0]
      /\ expiry' = TTL
      /\ UNCHANGED <<key, off>>
      /\ pc[r] = "fill"
  BY DEF Fill, Goto
<1>2. Clocks'
  BY <1>1 DEF Inv, Clocks, Labels, Lifetimes
<1>3. key = "off" => off <= MaxLookup
  BY <1>1 DEF Inv, Clocks, Fading, Lifetimes
<1>4. \A q \in Requests : pc'[q] = "fill" => pc[q] = "fill" /\ waited'[q] = waited[q]
  BY <1>1 DEF Inv, Clocks
<1>5. Fading'
  BY <1>1, <1>3, <1>4 DEF Inv, Clocks, Fading, Lifetimes
<1> QED BY <1>2, <1>5 DEF Inv

LEMMA TickKeepsInv ==
  ASSUME Lifetimes, Inv, Tick
  PROVE  Inv'
<1>1. /\ \A r \in Requests : pc[r] = "fill" => waited[r] < MaxLookup
      /\ waited' = [r \in Requests |-> IF pc[r] = "fill" THEN waited[r] + 1 ELSE waited[r]]
      /\ expiry' = IF expiry > 0 THEN expiry - 1 ELSE 0
      /\ off' = IF key = "off" /\ off < TTL + MaxLookup THEN off + 1 ELSE off
      /\ UNCHANGED <<key, pc>>
  BY DEF Tick
<1>2. waited' \in [Requests -> 0 .. MaxLookup]
  BY <1>1 DEF Inv, Clocks, Lifetimes
<1>3. Clocks'
  BY <1>1, <1>2 DEF Inv, Clocks, Lifetimes
<1>4. Fading'
  BY <1>1 DEF Inv, Clocks, Fading, Lifetimes
<1> QED BY <1>3, <1>4 DEF Inv

LEMMA StepKeepsInv ==
  ASSUME Lifetimes, Inv, [Next]_vars
  PROVE  Inv'
<1>1. ASSUME NEW r \in Requests, Handle(r) PROVE Inv'
  <2>1. Calm(r) \/ Fill(r) \/ (UNCHANGED <<key, off, expiry, waited, pc>>)
    BY <1>1, HandleIsCalm DEF Inv
  <2>2. CASE UNCHANGED <<key, off, expiry, waited, pc>>
    BY <2>2 DEF Inv, Clocks, Fading
  <2> QED BY <2>1, <2>2, CalmKeepsInv, FillKeepsInv
<1>2. ASSUME NEW r \in Requests, Hangup(r) PROVE Inv'
  BY <1>2 DEF Hangup, auth, Inv, Clocks, Fading
<1>3. CASE Invalidate
  BY <1>3 DEF Invalidate, Inv, Clocks, Fading, Lifetimes
<1>4. CASE TurnOff
  BY <1>4 DEF TurnOff, Inv, Clocks, Fading, Lifetimes
<1>5. CASE Tick
  BY <1>5, TickKeepsInv
<1>6. CASE UNCHANGED vars
  BY <1>6 DEF vars, Inv, Clocks, Fading
<1> QED BY <1>1, <1>2, <1>3, <1>4, <1>5, <1>6 DEF Next

-----------------------------------------------------------------------------

\* A request gets past Validate when there is an entry, or when it has had an
\* answer from before; once the key has been off for long neither is there.
LEMMA NobodyPasses ==
  ASSUME Lifetimes, Inv, [Next]_vars, off = TTL + MaxLookup
  PROVE  In({"decode"})' \subseteq In({"decode"})
<1>1. key = "off" /\ off > MaxLookup
  BY DEF Inv, Clocks, Lifetimes
<1>2. ~ (expiry > 0) /\ \A r \in Requests : pc[r] # "fill"
  BY <1>1 DEF Inv, Clocks, Fading, Lifetimes
<1>3. ASSUME NEW r \in Requests, Handle(r)
      PROVE  In({"decode"})' \subseteq In({"decode"})
  <2>1. ~ Fill(r)
    BY <1>2 DEF Fill
  <2>2. CASE UNCHANGED pc
    BY <2>2 DEF In
  <2>3. CASE Calm(r)
    <3>1. PICK l \in Labels : pc' = [pc EXCEPT ![r] = l] /\ l # "decode"
      BY <1>2, <2>3, Zenon DEF Calm, Goto
    <3> QED BY <3>1 DEF In, Inv, Clocks
  <2> QED BY <1>3, <2>1, <2>2, <2>3, HandleIsCalm DEF Inv
<1>4. CASE UNCHANGED pc
  BY <1>4 DEF In
<1>5. ASSUME NEW r \in Requests, Hangup(r) PROVE UNCHANGED pc
  BY <1>5 DEF Hangup
<1>6. Invalidate \/ TurnOff \/ Tick \/ UNCHANGED vars => UNCHANGED pc
  BY DEF Invalidate, TurnOff, Tick, vars
<1> QED BY <1>3, <1>4, <1>5, <1>6 DEF Next

\* Validate (auth.go): a disabled key is refused for good once TTL and the
\* longest lookup have passed, for any number of concurrent requests.
THEOREM RevocationIsFinal ==
  Lifetimes => (Spec => RevocationHolds)
<1> SUFFICES ASSUME Lifetimes PROVE Spec => RevocationHolds
  OBVIOUS
<1>1. Init => Inv
  BY InitInv
<1>2. Inv /\ [Next]_vars => Inv'
  BY StepKeepsInv
<1>3. Inv /\ [Next]_vars
        => [off = TTL + MaxLookup => In({"decode"})' \subseteq In({"decode"})]_vars
  BY NobodyPasses
<1> QED BY <1>1, <1>2, <1>3, PTL DEF Spec, RevocationHolds

-----------------------------------------------------------------------------

\* handleInference and handleSSE write a status once: every step that writes
\* one starts at a label that no request reaches after having written.
Unanswered ==
  /\ pc \in [Requests -> Labels]
  /\ status \in [Requests -> Nat]
  /\ \A r \in Requests : pc[r] \in {"new", "query", "fill", "decode", "unary"} => status[r] = 0

LEMMA AnswerOnce ==
  ASSUME Unanswered, NEW r \in Requests, NEW code \in Nat, NEW counted, Answer(r, code, counted),
         pc[r] \in {"query", "decode", "unary"}
  PROVE  /\ Unanswered'
         /\ \A q \in Requests : status[q] # 0 => status'[q] = status[q]
<1>1. pc' = [pc EXCEPT ![r] = "end"] /\ status' = [status EXCEPT ![r] = code]
  BY DEF Answer, Goto
<1> QED BY <1>1 DEF Unanswered, Labels

LEMMA MoveOnce ==
  ASSUME Unanswered, NEW r \in Requests, NEW l \in Labels, Goto(r, l), UNCHANGED status,
         status[r] = 0 \/ l \in {"sse", "chunks", "write", "end", "broke"}
  PROVE  /\ Unanswered'
         /\ \A q \in Requests : status[q] # 0 => status'[q] = status[q]
BY DEF Unanswered, Goto

LEMMA HandleOnce ==
  ASSUME Unanswered, NEW r \in Requests, Handle(r)
  PROVE  /\ Unanswered'
         /\ \A q \in Requests : status[q] # 0 => status'[q] = status[q]
<1>1. CASE Lookup(r)
  <2>1. Goto(r, "decode") \/ Goto(r, "query")
    BY <1>1 DEF Lookup
  <2>2. status[r] = 0 /\ UNCHANGED status
    BY <1>1 DEF Lookup, Unanswered
  <2> QED BY <2>1, <2>2, MoveOnce DEF Labels
<1>2. CASE Query(r)
  <2>1. CASE Goto(r, "fill") /\ UNCHANGED status
    BY <1>2, <2>1, MoveOnce DEF Query, Unanswered, Labels
  <2>2. CASE Answer(r, 401, {"AuthFailed"})
    BY <1>2, <2>2, AnswerOnce DEF Query
  <2> QED BY <1>2, <2>1, <2>2 DEF Query
<1>3. CASE Fill(r)
  BY <1>3, MoveOnce DEF Fill, Unanswered, Labels
<1>4. CASE Malformed(r) \/ Refuse(r)
  BY <1>4, AnswerOnce DEF Malformed, Refuse
<1>5. CASE Accept(r)
  <2>1. CASE Goto(r, "unary") /\ UNCHANGED status
    BY <1>5, <2>1, MoveOnce DEF Accept, Unanswered, Labels
  <2>2. CASE Goto(r, "sse") /\ status' = [status EXCEPT ![r] = 200]
    BY <1>5, <2>2 DEF Accept, Goto, Unanswered, Labels
  <2> QED BY <1>5, <2>1, <2>2 DEF Accept
<1>6. CASE Unary(r)
  <2>1. pc[r] = "unary"
    BY <1>6 DEF Unary
  <2>2. \E code \in Nat : \E counted : Answer(r, code, counted)
    BY <1>6 DEF Unary, HTTPStatus
  <2> QED BY <2>1, <2>2, AnswerOnce
<1>7. CASE Stream(r)
  <2>1. UNCHANGED status /\ (Goto(r, "chunks") \/ Goto(r, "broke"))
    BY <1>7 DEF Stream, Answered
  <2> QED BY <2>1, MoveOnce DEF Labels
<1>8. CASE Poll(r) \/ Send(r)
  <2>1. UNCHANGED status /\ (Goto(r, "broke") \/ Goto(r, "write") \/ Goto(r, "chunks"))
    BY <1>8 DEF Poll, Send
  <2> QED BY <2>1, MoveOnce DEF Labels
<1>9. CASE Close(r)
  BY <1>9, MoveOnce DEF Close, Labels
<1> QED
  BY <1>1, <1>2, <1>3, <1>4, <1>5, <1>6, <1>7, <1>8, <1>9 DEF Handle

LEMMA StepOnce ==
  ASSUME Unanswered, [Next]_vars
  PROVE  /\ Unanswered'
         /\ \A q \in Requests : status[q] # 0 => status'[q] = status[q]
<1>1. CASE UNCHANGED <<pc, status>>
  BY <1>1 DEF Unanswered
<1>2. ASSUME NEW r \in Requests, Hangup(r) PROVE UNCHANGED <<pc, status>>
  BY <1>2 DEF Hangup
<1>3. Invalidate \/ TurnOff \/ Tick \/ UNCHANGED vars => UNCHANGED <<pc, status>>
  BY DEF Invalidate, TurnOff, Tick, vars
<1> QED BY <1>1, <1>2, <1>3, HandleOnce DEF Next

\* A response's status, once written, stays: no failure after the headers of
\* a stream (main.go, handleSSE) writes another.
THEOREM StatusIsFinal == Spec => OneStatus
<1>1. Init => Unanswered
  BY DEF Init, Unanswered, Labels
<1>2. Unanswered /\ [Next]_vars => Unanswered'
  BY StepOnce
<1>3. Unanswered /\ [Next]_vars
        => [\A r \in Requests : status[r] # 0 => status'[r] = status[r]]_vars
  BY StepOnce
<1> QED BY <1>1, <1>2, <1>3, PTL DEF Spec, OneStatus
-----------------------------------------------------------------------------
(* The counters.                                                            *)

\* A step that takes request r from one label to another and counts outcomes.
Move(r, from, to, counted) ==
  /\ pc[r] = from
  /\ pc' = [pc EXCEPT ![r] = to]
  /\ m' = [c \in Metrics |-> IF c \in counted THEN m[c] + 1 ELSE m[c]]

\* The paths through Validate and admission, and those of a routed request.
Admission(r) ==
  \/ Move(r, "new", "decode", {"Total"}) \/ Move(r, "new", "query", {"Total"})
  \/ Move(r, "query", "fill", {}) \/ Move(r, "query", "end", {"AuthFailed"})
  \/ Move(r, "fill", "decode", {}) \/ Move(r, "decode", "end", {"AdmitFailed"})
  \/ Move(r, "decode", "unary", {"Admitted"}) \/ Move(r, "decode", "sse", {"Admitted"})

Routing(r) ==
  \/ Move(r, "unary", "end", {"Routed"}) \/ Move(r, "unary", "end", {"Errors"})
  \/ Move(r, "sse", "chunks", {}) \/ Move(r, "sse", "broke", {})
  \/ Move(r, "chunks", "broke", {}) \/ Move(r, "chunks", "end", {"Streamed"})
  \/ Move(r, "chunks", "write", {}) \/ Move(r, "write", "chunks", {})

Counters == pc \in [Requests -> Labels] /\ m \in [Metrics -> Nat]

\* Bumping one counter, or none, is counting a set of outcomes.
LEMMA BumpCounts ==
  ASSUME Counters
  PROVE  /\ \A c \in Metrics :
              [m EXCEPT ![c] = @ + 1] = [d \in Metrics |-> IF d \in {c} THEN m[d] + 1 ELSE m[d]]
         /\ m = [d \in Metrics |-> IF d \in {} THEN m[d] + 1 ELSE m[d]]
BY DEF Counters

LEMMA AnswerMoves ==
  ASSUME NEW r, NEW from, NEW code, NEW counted, pc[r] = from, Answer(r, code, counted)
  PROVE  Move(r, from, "end", counted)
BY DEF Answer, Goto, Move

\* Every step of a handler takes one of the paths.
LEMMA HandleMoves ==
  ASSUME Counters, NEW r \in Requests, Handle(r)
  PROVE  Admission(r) \/ Routing(r)
<1> USE BumpCounts DEF Goto
<1>0. {"Total", "Admitted", "Streamed"} \subseteq Metrics
  BY DEF Metrics
<1>1. CASE Lookup(r)
  <2>1. /\ pc[r] = "new"
        /\ pc' = [pc EXCEPT ![r] = "decode"] \/ pc' = [pc EXCEPT ![r] = "query"]
    BY <1>1 DEF Lookup
  <2>2. m' = [m EXCEPT !["Total"] = @ + 1]
    BY <1>1 DEF Lookup
  <2> QED BY <1>0, <2>1, <2>2 DEF Admission, Move
<1>2. CASE Query(r)
  <2>1. CASE Goto(r, "fill") /\ m' = m
    BY <1>2, <2>1 DEF Query, Admission, Move
  <2>2. CASE Answer(r, 401, {"AuthFailed"})
    BY <1>2, <2>2, AnswerMoves DEF Query, Admission
  <2> QED BY <1>2, <2>1, <2>2 DEF Query
<1>3. CASE Fill(r)
  BY <1>3 DEF Fill, Admission, Move
<1>4. CASE Malformed(r) \/ Refuse(r)
  BY <1>4, AnswerMoves DEF Malformed, Refuse, Admission
<1>5. CASE Accept(r)
  <2>1. /\ pc[r] = "decode"
        /\ pc' = [pc EXCEPT ![r] = "unary"] \/ pc' = [pc EXCEPT ![r] = "sse"]
        /\ m' = [m EXCEPT !["Admitted"] = @ + 1]
    BY <1>5 DEF Accept
  <2> QED BY <1>0, <2>1 DEF Admission, Move
<1>6. CASE Unary(r)
  <2>1. /\ pc[r] = "unary"
        /\ \E code : Answer(r, code, {"Routed"}) \/ Answer(r, code, {"Errors"})
    BY <1>6 DEF Unary
  <2> QED BY <2>1, AnswerMoves DEF Routing
<1>7. CASE Stream(r)
  <2>1. /\ pc[r] = "sse" /\ m' = m
        /\ pc' = [pc EXCEPT ![r] = "chunks"] \/ pc' = [pc EXCEPT ![r] = "broke"]
    BY <1>7 DEF Stream, Answered
  <2> QED BY <2>1 DEF Routing, Move
<1>8. CASE Poll(r) \/ Send(r)
  <2>1. /\ m' = m
        /\ \/ /\ pc[r] = "chunks"
              /\ pc' = [pc EXCEPT ![r] = "broke"] \/ pc' = [pc EXCEPT ![r] = "write"]
           \/ pc[r] = "write" /\ pc' = [pc EXCEPT ![r] = "chunks"]
    BY <1>8 DEF Poll, Send
  <2> QED BY <2>1 DEF Routing, Move
<1>9. CASE Close(r)
  <2>1. /\ pc[r] = "chunks" /\ pc' = [pc EXCEPT ![r] = "end"]
        /\ m' = [m EXCEPT !["Streamed"] = @ + 1]
    BY <1>9 DEF Close
  <2> QED BY <1>0, <2>1 DEF Routing, Move
<1> QED
  BY <1>1, <1>2, <1>3, <1>4, <1>5, <1>6, <1>7, <1>8, <1>9 DEF Handle

\* A move takes one request out of the sets it leaves and into those it joins.
LEMMA MoveShifts ==
  ASSUME IsFiniteSet(Requests), Counters, NEW r \in Requests, NEW S, NEW from, NEW to,
         pc[r] = from, pc' = [pc EXCEPT ![r] = to]
  PROVE  /\ Cardinality(In(S)) \in Nat /\ Cardinality(In(S))' \in Nat
         /\ Cardinality(In(S))' = Cardinality(In(S)) + (IF to \in S THEN 1 ELSE 0)
                                                     - (IF from \in S THEN 1 ELSE 0)
<1>1. In(S) \in SUBSET Requests /\ In(S)' \in SUBSET Requests
  BY DEF In
<1>2. IsFiniteSet(In(S)) /\ IsFiniteSet(In(S)')
  BY <1>1, FS_Subset
<1>3. Cardinality(In(S)) \in Nat /\ Cardinality(In(S)') \in Nat
  BY <1>2, FS_CardinalityType
<1>4. In(S)' = IF to \in S THEN In(S) \cup {r} ELSE In(S) \ {r}
  BY DEF In, Counters
<1>5. r \in In(S) <=> from \in S
  BY DEF In
<1>6. Cardinality(In(S)') =
        IF to \in S THEN IF from \in S THEN Cardinality(In(S)) ELSE Cardinality(In(S)) + 1
                    ELSE IF from \in S THEN Cardinality(In(S)) - 1 ELSE Cardinality(In(S))
  BY <1>2, <1>4, <1>5, FS_AddElement, FS_RemoveElement
<1> QED BY <1>3, <1>6

\* 1 for an element, 0 for anything else.
Has(S, x) == IF x \in S THEN 1 ELSE 0

Early == {"query", "fill", "decode"}
Late  == {"unary", "sse", "chunks", "write", "broke"}

\* A move keeps the balance if what it counts is what it shifts.
LEMMA MoveBalances ==
  ASSUME IsFiniteSet(Requests), Counters, CountersBalance, NEW r \in Requests,
         NEW from, NEW to \in Labels, NEW counted, Move(r, from, to, counted),
         Has(counted, "Total") = Has(counted, "AuthFailed") + Has(counted, "AdmitFailed")
           + Has(counted, "Admitted") + Has(Early, to) - Has(Early, from),
         Has(counted, "Admitted") = Has(counted, "Routed") + Has(counted, "Errors")
           + Has(counted, "Streamed") + Has(Late, to) - Has(Late, from)
  PROVE  Counters' /\ CountersBalance'
<1>1. pc[r] = from /\ pc' = [pc EXCEPT ![r] = to]
  BY DEF Move
<1>2. \A S : /\ Cardinality(In(S)) \in Nat
             /\ Cardinality(In(S))' = Cardinality(In(S)) + Has(S, to) - Has(S, from)
  BY <1>1, MoveShifts DEF Has
<1>3. \A c \in Metrics : m[c] \in Nat /\ m'[c] = m[c] + Has(counted, c)
  BY DEF Move, Counters, Has
<1>4. Counters'
  BY DEF Counters, Move
<1> DEFINE e == Cardinality(In(Early))
           l == Cardinality(In(Late))
<1>5. /\ e \in Nat /\ e' = e + Has(Early, to) - Has(Early, from)
      /\ l \in Nat /\ l' = l + Has(Late, to) - Has(Late, from)
  BY <1>2
<1>6. /\ m["Total"] = m["AuthFailed"] + m["AdmitFailed"] + m["Admitted"] + e
      /\ m["Admitted"] = m["Routed"] + m["Errors"] + m["Streamed"] + l
  BY DEF CountersBalance, Early, Late
<1>7. \A S, x : Has(S, x) \in Int
  BY DEF Has
<1> HIDE DEF e, l
<1>8. /\ m["Total"] \in Nat /\ Has(counted, "Total") \in Int
      /\ m'["Total"] = m["Total"] + Has(counted, "Total")
      /\ m["AuthFailed"] \in Nat /\ Has(counted, "AuthFailed") \in Int
      /\ m'["AuthFailed"] = m["AuthFailed"] + Has(counted, "AuthFailed")
      /\ m["AdmitFailed"] \in Nat /\ Has(counted, "AdmitFailed") \in Int
      /\ m'["AdmitFailed"] = m["AdmitFailed"] + Has(counted, "AdmitFailed")
      /\ m["Admitted"] \in Nat /\ Has(counted, "Admitted") \in Int
      /\ m'["Admitted"] = m["Admitted"] + Has(counted, "Admitted")
      /\ m["Routed"] \in Nat /\ Has(counted, "Routed") \in Int
      /\ m'["Routed"] = m["Routed"] + Has(counted, "Routed")
      /\ m["Errors"] \in Nat /\ Has(counted, "Errors") \in Int
      /\ m'["Errors"] = m["Errors"] + Has(counted, "Errors")
      /\ m["Streamed"] \in Nat /\ Has(counted, "Streamed") \in Int
      /\ m'["Streamed"] = m["Streamed"] + Has(counted, "Streamed")
  BY <1>3, <1>7 DEF Metrics
<1>9. Has(Early, to) \in Int /\ Has(Early, from) \in Int /\ Has(Late, to) \in Int /\ Has(Late, from) \in Int
  BY <1>7
<1>10. m'["Total"] = m'["AuthFailed"] + m'["AdmitFailed"] + m'["Admitted"] + e'
  BY <1>5, <1>6, <1>8, <1>9
<1>11. m'["Admitted"] = m'["Routed"] + m'["Errors"] + m'["Streamed"] + l'
  BY <1>5, <1>6, <1>8, <1>9
<1>12. CountersBalance'
  BY <1>10, <1>11 DEF CountersBalance, Early, Late, e, l
<1> QED BY <1>4, <1>12

LEMMA StepBalances ==
  ASSUME IsFiniteSet(Requests), Counters, CountersBalance, [Next]_vars
  PROVE  Counters' /\ CountersBalance'
<1>1. CASE UNCHANGED <<pc, m>>
  BY <1>1 DEF Counters, CountersBalance, In
<1>2. ASSUME NEW r \in Requests, Admission(r) PROVE Counters' /\ CountersBalance'
  <2> USE MoveBalances DEF Has, Early, Late, Labels
  <2>1. Move(r, "new", "decode", {"Total"}) => Counters' /\ CountersBalance'
    BY SMTT(30)
  <2>2. Move(r, "new", "query", {"Total"}) => Counters' /\ CountersBalance'
    BY SMTT(30)
  <2>3. Move(r, "query", "fill", {}) => Counters' /\ CountersBalance'
    BY SMTT(30)
  <2>4. Move(r, "query", "end", {"AuthFailed"}) => Counters' /\ CountersBalance'
    BY SMTT(30)
  <2>5. Move(r, "fill", "decode", {}) => Counters' /\ CountersBalance'
    <3>1. /\ \A x : Has({}, x) = 0
          /\ Has(Early, "fill") = 1 /\ Has(Early, "decode") = 1
          /\ Has(Late, "fill") = 0 /\ Has(Late, "decode") = 0
      OBVIOUS
    <3> HIDE DEF Has, Early, Late
    <3> QED BY <3>1
  <2>6. Move(r, "decode", "end", {"AdmitFailed"}) => Counters' /\ CountersBalance'
    BY SMTT(30)
  <2>7. Move(r, "decode", "unary", {"Admitted"}) => Counters' /\ CountersBalance'
    BY SMTT(30)
  <2>8. Move(r, "decode", "sse", {"Admitted"}) => Counters' /\ CountersBalance'
    BY SMTT(30)
  <2> QED BY <1>2, <2>1, <2>2, <2>3, <2>4, <2>5, <2>6, <2>7, <2>8, Zenon DEF Admission
<1>3. ASSUME NEW r \in Requests, Routing(r) PROVE Counters' /\ CountersBalance'
  <2> USE MoveBalances DEF Has, Early, Late, Labels
  <2>1. Move(r, "unary", "end", {"Routed"}) => Counters' /\ CountersBalance'
    BY SMTT(30)
  <2>2. Move(r, "unary", "end", {"Errors"}) => Counters' /\ CountersBalance'
    BY SMTT(30)
  <2>3. Move(r, "sse", "chunks", {}) => Counters' /\ CountersBalance'
    BY SMTT(30)
  <2>4. Move(r, "sse", "broke", {}) => Counters' /\ CountersBalance'
    BY SMTT(30)
  <2>5. Move(r, "chunks", "broke", {}) => Counters' /\ CountersBalance'
    BY SMTT(30)
  <2>6. Move(r, "chunks", "end", {"Streamed"}) => Counters' /\ CountersBalance'
    BY SMTT(30)
  <2>7. Move(r, "chunks", "write", {}) => Counters' /\ CountersBalance'
    BY SMTT(30)
  <2>8. Move(r, "write", "chunks", {}) => Counters' /\ CountersBalance'
    BY SMTT(30)
  <2> QED BY <1>3, <2>1, <2>2, <2>3, <2>4, <2>5, <2>6, <2>7, <2>8, Zenon DEF Routing
<1>4. ASSUME NEW r \in Requests, Hangup(r) PROVE UNCHANGED <<pc, m>>
  BY <1>4 DEF Hangup
<1>5. Invalidate \/ TurnOff \/ Tick \/ UNCHANGED vars => UNCHANGED <<pc, m>>
  BY DEF Invalidate, TurnOff, Tick, vars
<1> QED BY <1>1, <1>2, <1>3, <1>4, <1>5, HandleMoves DEF Next

\* gatewayMetrics accounts for every request at any time, for any number of
\* requests in flight.
THEOREM CountersAccount == IsFiniteSet(Requests) => (Spec => []CountersBalance)
<1> SUFFICES ASSUME IsFiniteSet(Requests) PROVE Spec => []CountersBalance
  OBVIOUS
<1>1. Init => Counters /\ CountersBalance
  <2> SUFFICES ASSUME Init PROVE Counters /\ CountersBalance
    OBVIOUS
  <2>1. In({"query", "fill", "decode"}) = {} /\ In({"unary", "sse", "chunks", "write", "broke"}) = {}
    BY DEF Init, In
  <2> QED BY <2>1, FS_EmptySet DEF Init, Counters, CountersBalance, Metrics, Labels
<1>2. Counters /\ CountersBalance /\ [Next]_vars => (Counters /\ CountersBalance)'
  BY StepBalances
<1> QED BY <1>1, <1>2, PTL DEF Spec
-----------------------------------------------------------------------------
(* Streams.                                                                 *)

\* Streams that have sent their last chunk and are yet to be counted.
Delivered == {r \in Requests : pc[r] = "chunks" /\ words[r] = 0}

\* Every stream that wrote its last chunk is counted, or about to be: it gets
\* there by writing that chunk, and by nothing else.
DoneInv ==
  /\ Counters
  /\ words \in [Requests -> Nat]
  /\ \A r \in Requests : pc[r] = "write" => words[r] # 0
  /\ finished \subseteq {r \in Requests : r \in Delivered \/ pc[r] = "end"}
  /\ m["Streamed"] + Cardinality(Delivered) = Cardinality(finished)

\* Steps that leave what has been delivered alone.
LEMMA UndeliveredStep ==
  ASSUME DoneInv, Counters', words' \in [Requests -> Nat], UNCHANGED finished,
         m'["Streamed"] = m["Streamed"], Delivered' = Delivered,
         \A x \in Requests : pc'[x] = "write" => words'[x] # 0,
         \A x \in Requests : pc[x] = "end" => pc'[x] = "end"
  PROVE  DoneInv'
BY DEF DoneInv

LEMMA MovesType ==
  ASSUME Counters, NEW r \in Requests, Admission(r) \/ Routing(r)
  PROVE  Counters'
<1>1. \E l \in Labels : pc' = [pc EXCEPT ![r] = l]
  BY DEF Admission, Routing, Move, Labels
<1>2. \E from, to, counted : Move(r, from, to, counted)
  BY Zenon DEF Admission, Routing
<1>3. \E counted : m' = [c \in Metrics |-> IF c \in counted THEN m[c] + 1 ELSE m[c]]
  BY <1>2, Zenon DEF Move
<1> QED BY <1>1, <1>3 DEF Counters

LEMMA HandleDelivers ==
  ASSUME IsFiniteSet(Requests), DoneInv, NEW r \in Requests, Handle(r)
  PROVE  DoneInv'
<1>0. /\ Counters' /\ "Streamed" \in Metrics
      /\ pc \in [Requests -> Labels] /\ words \in [Requests -> Nat]
      /\ \A x \in Requests : pc[x] = "write" => words[x] # 0
  <2>1. Counters /\ words \in [Requests -> Nat]
        /\ \A x \in Requests : pc[x] = "write" => words[x] # 0
    BY DEF DoneInv
  <2>2. Admission(r) \/ Routing(r)
    BY <2>1, HandleMoves
  <2> QED BY <2>1, <2>2, MovesType DEF Counters, Metrics
<1>1. CASE Lookup(r) \/ Query(r) \/ Fill(r) \/ Malformed(r) \/ Refuse(r) \/ Accept(r) \/ Unary(r)
  <2>1. /\ pc[r] \notin {"chunks", "write", "end"}
        /\ UNCHANGED <<words, finished>>
    BY <1>1 DEF Lookup, Query, Fill, Malformed, Refuse, Accept, Unary, answer
  <2>2. ASSUME NEW from, NEW to, NEW counted, Move(r, from, to, counted),
               from # "chunks", to # "chunks", to # "write", "Streamed" \notin counted
        PROVE  DoneInv'
    <3>1. pc' = [pc EXCEPT ![r] = to] /\ m'["Streamed"] = m["Streamed"]
      BY <1>0, <2>2 DEF Move
    <3>2. Delivered' = Delivered
      BY <1>0, <2>1, <2>2, <3>1 DEF Delivered
    <3>3. \A x \in Requests : pc'[x] = "write" => words'[x] # 0
      BY <1>0, <2>1, <2>2, <3>1
    <3>4. words' \in [Requests -> Nat] /\ \A x \in Requests : pc[x] = "end" => pc'[x] = "end"
      BY <1>0, <2>1, <3>1
    <3> QED BY <1>0, <2>1, <3>1, <3>2, <3>3, <3>4, UndeliveredStep
  <2>3. CASE Admission(r)
    BY <2>2, <2>3 DEF Admission
  <2>4. CASE Routing(r)
    <3>1. pc[r] # "sse"
      BY <1>1 DEF Lookup, Query, Fill, Malformed, Refuse, Accept, Unary
    <3>2. Move(r, "unary", "end", {"Routed"}) \/ Move(r, "unary", "end", {"Errors"})
      BY <2>1, <2>4, <3>1 DEF Routing, Move
    <3> QED BY <2>2, <3>2
  <2> QED BY <1>1, <2>3, <2>4, HandleMoves DEF Handle, DoneInv
<1>2. CASE Stream(r)
  <2>1. /\ pc[r] = "sse" /\ UNCHANGED <<finished, m>>
        /\ \/ /\ pc' = [pc EXCEPT ![r] = "chunks"]
              /\ \E n \in Nat : n # 0 /\ words' = [words EXCEPT ![r] = n]
           \/ pc' = [pc EXCEPT ![r] = "broke"] /\ words' = words
    BY <1>2 DEF Stream, Answered, Chunks, Goto
  <2>2. words' \in [Requests -> Nat] /\ Delivered' = Delivered
    BY <1>0, <2>1 DEF Delivered
  <2>3. \A x \in Requests : pc'[x] = "write" => words'[x] # 0
    BY <1>0, <2>1
  <2>4. \A x \in Requests : pc[x] = "end" => pc'[x] = "end"
    BY <1>0, <2>1
  <2> QED BY <1>0, <2>1, <2>2, <2>3, <2>4, UndeliveredStep
<1>3. CASE Poll(r)
  <2>1. /\ pc[r] = "chunks" /\ words[r] # 0 /\ UNCHANGED <<finished, m>>
        /\ \/ pc' = [pc EXCEPT ![r] = "broke"] /\ words' = [words EXCEPT ![r] = 0]
           \/ pc' = [pc EXCEPT ![r] = "write"] /\ words' = words
    BY <1>0, <1>3 DEF Poll, Goto
  <2>2. words' \in [Requests -> Nat] /\ Delivered' = Delivered
    BY <1>0, <2>1 DEF Delivered
  <2>3. \A x \in Requests : pc'[x] = "write" => words'[x] # 0
    BY <1>0, <2>1
  <2>4. \A x \in Requests : pc[x] = "end" => pc'[x] = "end"
    BY <1>0, <2>1
  <2> QED BY <1>0, <2>1, <2>2, <2>3, <2>4, UndeliveredStep
<1>4. CASE Send(r)
  <2>1. /\ pc[r] = "write" /\ words[r] > 0 /\ UNCHANGED m
        /\ pc' = [pc EXCEPT ![r] = "chunks"]
        /\ words' = [words EXCEPT ![r] = words[r] - 1]
        /\ finished' = IF words[r] = 1 THEN finished \cup {r} ELSE finished
    BY <1>0, <1>4 DEF Send, Goto
  <2>5. \A x \in Requests : pc'[x] = "write" => words'[x] # 0
    BY <1>0, <2>1
  <2>6. \A x \in Requests : pc[x] = "end" => pc'[x] = "end"
    BY <1>0, <2>1
  <2>2. words' \in [Requests -> Nat]
    BY <1>0, <2>1
  <2>3. CASE words[r] # 1
    <3>1. Delivered' = Delivered
      BY <1>0, <2>1, <2>3 DEF Delivered
    <3> QED BY <1>0, <2>1, <2>2, <2>3, <2>5, <2>6, <3>1, UndeliveredStep
  <2>4. CASE words[r] = 1
    <3>1. r \notin Delivered /\ r \notin finished
      BY <2>1, <2>4 DEF Delivered, DoneInv
    <3>2. Delivered' = Delivered \cup {r} /\ finished' = finished \cup {r}
      BY <1>0, <2>1, <2>4 DEF Delivered
    <3>3. IsFiniteSet(Delivered) /\ IsFiniteSet(finished)
      <4>1. Delivered \in SUBSET Requests /\ finished \in SUBSET Requests
        BY DEF Delivered, DoneInv
      <4> QED BY <4>1, FS_Subset
    <3>4. /\ Cardinality(Delivered) \in Nat /\ Cardinality(finished) \in Nat
          /\ Cardinality(Delivered') = Cardinality(Delivered) + 1
          /\ Cardinality(finished') = Cardinality(finished) + 1
      BY <3>1, <3>2, <3>3, FS_AddElement, FS_CardinalityType
    <3>5. m["Streamed"] \in Nat /\ m'["Streamed"] = m["Streamed"]
      BY <1>0, <2>1 DEF DoneInv, Counters
    <3>6. m'["Streamed"] + Cardinality(Delivered') = Cardinality(finished')
      BY <3>4, <3>5 DEF DoneInv
    <3>7. finished' \subseteq {x \in Requests : x \in Delivered' \/ pc'[x] = "end"}
      BY <2>6, <3>2 DEF DoneInv
    <3> QED BY <1>0, <2>2, <2>5, <3>6, <3>7 DEF DoneInv
  <2> QED BY <2>3, <2>4
<1>5. CASE Close(r)
  <2>1. /\ pc[r] = "chunks" /\ words[r] = 0 /\ UNCHANGED <<words, finished>>
        /\ pc' = [pc EXCEPT ![r] = "end"]
        /\ m' = [m EXCEPT !["Streamed"] = @ + 1]
    BY <1>5 DEF Close, Goto
  <2>2. r \in Delivered /\ Delivered' = Delivered \ {r}
    BY <1>0, <2>1 DEF Delivered
  <2>3. IsFiniteSet(Delivered)
    <3>1. Delivered \in SUBSET Requests
      BY DEF Delivered
    <3> QED BY <3>1, FS_Subset
  <2>4. Cardinality(Delivered) \in Nat /\ Cardinality(Delivered') = Cardinality(Delivered) - 1
    BY <2>2, <2>3, FS_RemoveElement, FS_CardinalityType
  <2>5. m["Streamed"] \in Nat /\ m'["Streamed"] = m["Streamed"] + 1
    BY <1>0, <2>1 DEF DoneInv, Counters
  <2>6. finished' \subseteq {x \in Requests : x \in Delivered' \/ pc'[x] = "end"}
    BY <1>0, <2>1, <2>2 DEF DoneInv
  <2>7. m'["Streamed"] + Cardinality(Delivered') = Cardinality(finished')
    BY <2>1, <2>4, <2>5 DEF DoneInv
  <2>8. \A x \in Requests : pc'[x] = "write" => words'[x] # 0
    BY <1>0, <2>1
  <2> QED BY <1>0, <2>1, <2>6, <2>7, <2>8 DEF DoneInv
<1> QED BY <1>1, <1>2, <1>3, <1>4, <1>5 DEF Handle

LEMMA StepDelivers ==
  ASSUME IsFiniteSet(Requests), DoneInv, [Next]_vars
  PROVE  DoneInv'
<1>1. CASE UNCHANGED <<pc, words, finished, m>>
  BY <1>1 DEF DoneInv, Delivered, Counters
<1>2. ASSUME NEW r \in Requests, Hangup(r) PROVE UNCHANGED <<pc, words, finished, m>>
  BY <1>2 DEF Hangup, answer
<1>3. Invalidate \/ TurnOff \/ Tick \/ UNCHANGED vars => UNCHANGED <<pc, words, finished, m>>
  BY DEF Invalidate, TurnOff, Tick, vars, answer
<1> QED BY <1>1, <1>2, <1>3, HandleDelivers DEF Next

LEMMA InitDelivers == Init => DoneInv
<1> SUFFICES ASSUME Init PROVE DoneInv
  OBVIOUS
<1>1. Delivered = {} /\ finished = {}
  BY DEF Init, Delivered
<1> QED BY <1>1, FS_EmptySet DEF Init, DoneInv, Counters, Metrics, Labels

\* handleSSE: a stream that is counted as streamed has written the chunk
\* marked done, whether or not the answer had words.
THEOREM CountedStreamsAreDone == IsFiniteSet(Requests) => (Spec => []StreamsEndWithDone)
<1> SUFFICES ASSUME IsFiniteSet(Requests) PROVE Spec => []StreamsEndWithDone
  OBVIOUS
<1>1. DoneInv => StreamsEndWithDone
  <2> SUFFICES ASSUME DoneInv PROVE StreamsEndWithDone
    OBVIOUS
  <2>1. Delivered \in SUBSET Requests
    BY DEF Delivered
  <2>2. Cardinality(Delivered) \in Nat
    BY <2>1, FS_Subset, FS_CardinalityType
  <2>3. m["Streamed"] \in Nat
    BY DEF DoneInv, Counters, Metrics
  <2> QED BY <2>2, <2>3 DEF DoneInv, StreamsEndWithDone
<1>2. DoneInv /\ [Next]_vars => DoneInv'
  BY StepDelivers
<1> QED BY <1>1, <1>2, InitDelivers, PTL DEF Spec
-----------------------------------------------------------------------------
(* Type correctness.                                                        *)

Codes == {0, 200, 400, 401, 429, 500, 503}

RestInv ==
  /\ words \in [Requests -> 0 .. MaxWords + 1]
  /\ status \in [Requests -> Codes]
  /\ gone \subseteq Requests

LEMMA AnswerWrites ==
  ASSUME RestInv, NEW r \in Requests, NEW code \in Codes, NEW counted, Answer(r, code, counted)
  PROVE  status' \in [Requests -> Codes]
BY DEF RestInv, Answer

LEMMA HandleKeepsRest ==
  ASSUME MaxWords \in Nat, DoneInv, RestInv, NEW r \in Requests, Handle(r)
  PROVE  RestInv'
<1> USE DEF RestInv
<1>0. gone' = gone
  BY DEF Handle, Lookup, Query, Fill, Malformed, Refuse, Accept, Unary, Stream, Poll, Send, Close
<1>1. CASE Lookup(r) \/ Fill(r) \/ Close(r)
  BY <1>0, <1>1 DEF Lookup, Fill, Close, answer
<1>2. CASE Query(r) \/ Malformed(r) \/ Refuse(r) \/ Unary(r)
  <2>1. words' = words
    BY <1>2 DEF Query, Malformed, Refuse, Unary
  <2>2. status' = status \/ \E code \in Codes : \E counted : Answer(r, code, counted)
    BY <1>2 DEF Query, Malformed, Refuse, Unary, HTTPStatus, Codes
  <2> QED BY <1>0, <2>1, <2>2, AnswerWrites
<1>3. CASE Accept(r)
  <2>1. words' = words /\ (status' = status \/ status' = [status EXCEPT ![r] = 200])
    BY <1>3 DEF Accept
  <2> QED BY <1>0, <2>1 DEF Codes
<1>4. CASE Stream(r)
  <2>1. /\ status' = status
        /\ words' = words \/ \E n \in 0 .. MaxWords + 1 : words' = [words EXCEPT ![r] = n]
    BY <1>4 DEF Stream, Answered, Chunks
  <2> QED BY <1>0, <2>1
<1>5. CASE Poll(r)
  <2>1. status' = status /\ (words' = words \/ words' = [words EXCEPT ![r] = 0])
    BY <1>5 DEF Poll
  <2> QED BY <1>0, <2>1
<1>6. CASE Send(r)
  <2>1. /\ status' = status /\ words[r] # 0
        /\ words' = [words EXCEPT ![r] = words[r] - 1]
    BY <1>6 DEF Send, DoneInv
  <2> QED BY <1>0, <2>1
<1> QED BY <1>1, <1>2, <1>3, <1>4, <1>5, <1>6 DEF Handle

LEMMA StepKeepsRest ==
  ASSUME MaxWords \in Nat, DoneInv, RestInv, [Next]_vars
  PROVE  RestInv'
<1>1. CASE UNCHANGED <<words, status, gone>>
  BY <1>1 DEF RestInv
<1>2. ASSUME NEW r \in Requests, Hangup(r) PROVE RestInv'
  BY <1>2 DEF Hangup, answer, RestInv
<1>3. Invalidate \/ TurnOff \/ Tick \/ UNCHANGED vars => UNCHANGED <<words, status, gone>>
  BY DEF Invalidate, TurnOff, Tick, vars, answer
<1> QED BY <1>1, <1>2, <1>3, HandleKeepsRest DEF Next

\* The gateway's state keeps its type; in particular every HTTP status it
\* writes is one it means to write, whatever code the router returned.
THEOREM GatewayTypeCorrect ==
  Lifetimes /\ MaxWords \in Nat /\ IsFiniteSet(Requests) => (Spec => []TypeOK)
<1> SUFFICES ASSUME Lifetimes, MaxWords \in Nat, IsFiniteSet(Requests)
             PROVE  Spec => []TypeOK
  OBVIOUS
<1> DEFINE All == Inv /\ DoneInv /\ RestInv
<1>1. Init => All
  <2>1. Init => RestInv
    BY DEF Init, RestInv, Codes
  <2> QED BY <2>1, InitInv, InitDelivers
<1>2. All /\ [Next]_vars => All'
  BY StepKeepsInv, StepDelivers, StepKeepsRest
<1>3. All => TypeOK
  <2> SUFFICES ASSUME All PROVE TypeOK
    OBVIOUS
  <2>1. finished \subseteq Requests /\ m \in [Metrics -> Nat]
    BY DEF DoneInv, Counters
  <2> QED BY <2>1 DEF TypeOK, Inv, Clocks, Labels, RestInv, Codes
<1> QED BY <1>1, <1>2, <1>3, PTL DEF Spec
=============================================================================
