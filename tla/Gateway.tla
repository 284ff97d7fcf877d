------------------------------- MODULE Gateway -------------------------------
(***************************************************************************)
(* The API gateway: handleInference and handleSSE                          *)
(* (services/api-gateway/cmd/main.go) with the key cache they authenticate *)
(* against (internal/auth/auth.go) and the admission checks                *)
(* (internal/admission/admission.go).  Each HTTP request runs in its own   *)
(* goroutine; all of them use one key here, since keys share nothing but   *)
(* the lock.  The router is known by the status it returns.  The server's  *)
(* response writers can flush, so handleSSE's first check never fails.     *)
(***************************************************************************)
EXTENDS Integers, FiniteSets

CONSTANTS
  Requests,   \* HTTP requests, each served once
  Bodies,     \* decoded bodies with the task of their path: see Admit
  Limits,     \* admission.Config: bytes, tokens and documents
  TTL,        \* cacheTTL in ticks
  MaxLookup,  \* ticks a Validate may take from its query to its return
  MaxWords    \* bound: words of a streamed answer

VARIABLES
  key,       \* "on" while the key and its tenant are enabled in the database
  off,       \* history: ticks since the key was turned off
  expiry,    \* ticks until the cache entry expires; 0 when there is none
  pc,        \* pc[r]: where request r is
  waited,    \* waited[r]: ticks since its query was answered
  words,     \* words[r]: the chunks a stream has yet to send
  status,    \* status[r]: the HTTP status written, 0 before
  finished,  \* history: streams that have written the chunk marked done
  gone,      \* requests whose client has left
  m          \* gatewayMetrics

vars == <<key, off, expiry, pc, waited, words, status, finished, gone, m>>

auth   == <<key, off, expiry, waited>>
answer == <<words, finished>>

Metrics == {"Total", "AuthFailed", "AdmitFailed", "Admitted", "Routed", "Streamed", "Errors"}

Init ==
  /\ key = "on"
  /\ off = 0
  /\ expiry = 0
  /\ pc = [r \in Requests |-> "new"]
  /\ waited = [r \in Requests |-> 0]
  /\ words = [r \in Requests |-> 0]
  /\ status = [r \in Requests |-> 0]
  /\ finished = {}
  /\ gone = {}
  /\ m = [c \in Metrics |-> 0]

\* The handler goes on at l, or returns: "end", or "broke" for a stream that
\* was cut short.
Goto(r, l) == pc' = [pc EXCEPT ![r] = l]

\* The response is written and, where the code does so, an outcome counted.
Answer(r, code, counted) ==
  /\ Goto(r, "end")
  /\ status' = [status EXCEPT ![r] = code]
  /\ m' = [c \in Metrics |-> IF c \in counted THEN m[c] + 1 ELSE m[c]]

-----------------------------------------------------------------------------
(* auth.Store.Validate.                                                     *)

\* A request comes in; an entry that has not expired is used as it is.
Lookup(r) ==
  /\ pc[r] = "new"
  /\ m' = [m EXCEPT !["Total"] = @ + 1]
  /\ Goto(r, IF expiry > 0 THEN "decode" ELSE "query")
  /\ UNCHANGED <<auth, answer, status, gone>>

\* Mutant of Query: rows that are disabled are found too.
QueryUnfiltered(r) ==
  /\ pc[r] = "query"
  /\ \/ Goto(r, "fill") /\ UNCHANGED <<status, m>>
     \/ Answer(r, 401, {"AuthFailed"})
  /\ UNCHANGED <<auth, words, finished, gone>>

\* The row must have both the key and its tenant enabled.  A disabled or
\* unknown key and a failed query are refused alike, and neither is cached.
Query(r) ==
  /\ pc[r] = "query"
  /\ \/ key = "on" /\ Goto(r, "fill") /\ UNCHANGED <<status, m>>
     \/ Answer(r, 401, {"AuthFailed"})
  /\ UNCHANGED <<auth, words, finished, gone>>

\* The principal is cached for TTL from now, however old the answer is.
Fill(r) ==
  /\ pc[r] = "fill"
  /\ Goto(r, "decode")
  /\ expiry' = TTL
  /\ waited' = [waited EXCEPT ![r] = 0]
  /\ UNCHANGED <<key, off, answer, status, gone, m>>

\* Invalidate; cleanup only drops entries that have expired anyway.
Invalidate ==
  /\ expiry > 0
  /\ expiry' = 0
  /\ UNCHANGED <<key, off, waited, pc, answer, status, gone, m>>

-----------------------------------------------------------------------------
(* Decoding and admission.                                                  *)

\* validateTask: what each task needs to work on; one it does not know needs
\* nothing.
HasInput(b) ==
  CASE b.task \in {"chat", "summarize"}    -> "messages" \in b.has \/ "prompt" \in b.has
    [] b.task = "embed"                    -> "prompt" \in b.has \/ "query" \in b.has
    [] b.task = "rerank"                   -> "query" \in b.has /\ b.documents > 0
    [] b.task \in {"classify", "moderate"} -> "prompt" \in b.has
    [] b.task = "unspecified"              -> FALSE
    [] OTHER                               -> TRUE

\* Admit: the task's input, the size, the tokens, the documents.  The number
\* of tokens and the deadline that normalise fills in decide nothing here.
Admit(b) ==
  /\ HasInput(b)
  /\ b.bytes <= Limits.bytes
  /\ 0 <= b.tokens /\ b.tokens <= Limits.tokens
  /\ b.documents <= Limits.documents

\* A body that is not JSON, or one that is not admitted.
Malformed(r) ==
  /\ pc[r] = "decode"
  /\ Answer(r, 400, {"AdmitFailed"})
  /\ UNCHANGED <<auth, words, finished, gone>>

Refuse(r) ==
  /\ pc[r] = "decode"
  /\ \E b \in Bodies : ~ Admit(b)
  /\ Answer(r, 400, {"AdmitFailed"})
  /\ UNCHANGED <<auth, words, finished, gone>>

\* A stream's headers are sent, with status 200, before the router is asked.
Accept(r) ==
  /\ pc[r] = "decode"
  /\ \E b \in Bodies :
       /\ Admit(b)
       /\ \/ ~ b.stream /\ Goto(r, "unary") /\ UNCHANGED status
          \/ b.stream /\ Goto(r, "sse") /\ status' = [status EXCEPT ![r] = 200]
  /\ m' = [m EXCEPT !["Admitted"] = @ + 1]
  /\ UNCHANGED <<auth, words, finished, gone>>

-----------------------------------------------------------------------------
(* Routing.  The router answers, refuses, or the deadline passes.           *)

\* Mutant of HTTPStatus: codes without a case of their own pass through.
HTTPStatusRaw(code) ==
  CASE code = "ResourceExhausted" -> 429
    [] code = "Unavailable" -> 503
    [] OTHER -> 13

\* The gRPC code of a failed Route as an HTTP status.
HTTPStatus(code) ==
  CASE code = "ResourceExhausted" -> 429
    [] code = "Unavailable" -> 503
    [] OTHER -> 500

\* A client that leaves cancels the call, which may be over by then.
Failures(r) ==
  {"ResourceExhausted", "Unavailable", "Internal", "DeadlineExceeded"}
    \cup IF r \in gone THEN {"Canceled"} ELSE {}

\* Mutant of Unary: an error is reported without being counted.
UnaryUncounted(r) ==
  /\ pc[r] = "unary"
  /\ \/ Answer(r, 200, {"Routed"})
     \/ \E code \in Failures(r) : Answer(r, HTTPStatus(code), {})
  /\ UNCHANGED <<auth, words, finished, gone>>

Unary(r) ==
  /\ pc[r] = "unary"
  /\ \/ Answer(r, 200, {"Routed"})
     \/ \E code \in Failures(r) : Answer(r, HTTPStatus(code), {"Errors"})
  /\ UNCHANGED <<auth, words, finished, gone>>

\* Mutant of Chunks: an answer without words has no chunk.
ChunksRaw(n) == n

\* strings.Fields of the answer; without words one empty chunk is sent.
Chunks(n) == IF n = 0 THEN 1 ELSE n

\* The router answers a stream.
Answered(r) ==
  /\ \E n \in 0 .. MaxWords : words' = [words EXCEPT ![r] = Chunks(n)]
  /\ Goto(r, "chunks")
  /\ UNCHANGED status

\* Mutant of Stream: a failure sends an error status after the headers.
StreamWritesStatus(r) ==
  /\ pc[r] = "sse"
  /\ \/ Answered(r)
     \/ Goto(r, "broke") /\ status' = [status EXCEPT ![r] = 500] /\ UNCHANGED words
  /\ UNCHANGED <<auth, finished, gone, m>>

\* A failure ends a stream with an error event, which no metric counts.
Stream(r) ==
  /\ pc[r] = "sse"
  /\ \/ Answered(r)
     \/ Goto(r, "broke") /\ UNCHANGED <<words, status>>
  /\ UNCHANGED <<auth, finished, gone, m>>

\* A turn of the loop begins by asking whether the client has left.
Poll(r) ==
  /\ pc[r] = "chunks"
  /\ words[r] > 0
  /\ IF r \in gone
       THEN Goto(r, "broke") /\ words' = [words EXCEPT ![r] = 0]
       ELSE Goto(r, "write") /\ UNCHANGED words
  /\ UNCHANGED <<auth, finished, status, gone, m>>

\* The chunk is written, to a client that may have left since.
Send(r) ==
  /\ pc[r] = "write"
  /\ Goto(r, "chunks")
  /\ words' = [words EXCEPT ![r] = @ - 1]
  /\ finished' = IF words[r] = 1 THEN finished \cup {r} ELSE finished
  /\ UNCHANGED <<auth, status, gone, m>>

\* The loop is over: the stream is counted.
Close(r) ==
  /\ pc[r] = "chunks"
  /\ words[r] = 0
  /\ Goto(r, "end")
  /\ m' = [m EXCEPT !["Streamed"] = @ + 1]
  /\ UNCHANGED <<auth, words, finished, status, gone>>

Handle(r) ==
  \/ Lookup(r) \/ Query(r) \/ Fill(r) \/ Malformed(r) \/ Refuse(r)
  \/ Accept(r) \/ Unary(r) \/ Stream(r) \/ Poll(r) \/ Send(r) \/ Close(r)

-----------------------------------------------------------------------------
(* The environment.                                                         *)

Hangup(r) ==
  /\ pc[r] \in {"unary", "sse", "chunks", "write"}
  /\ r \notin gone
  /\ gone' = gone \cup {r}
  /\ UNCHANGED <<auth, pc, answer, status, m>>

\* An operator disables the key or its tenant.
TurnOff ==
  /\ key = "on"
  /\ key' = "off"
  /\ UNCHANGED <<off, expiry, waited, pc, answer, status, gone, m>>

\* Time passes; a Validate is over within MaxLookup of its query's answer.
Tick ==
  /\ \A r \in Requests : pc[r] = "fill" => waited[r] < MaxLookup
  /\ waited' = [r \in Requests |-> IF pc[r] = "fill" THEN waited[r] + 1 ELSE waited[r]]
  /\ expiry' = IF expiry > 0 THEN expiry - 1 ELSE 0
  /\ off' = IF key = "off" /\ off < TTL + MaxLookup THEN off + 1 ELSE off
  /\ UNCHANGED <<key, pc, answer, status, gone, m>>

Next ==
  \/ \E r \in Requests : Handle(r) \/ Hangup(r)
  \/ Invalidate \/ TurnOff \/ Tick

Spec == Init /\ [][Next]_vars

-----------------------------------------------------------------------------
(* Properties.                                                              *)

In(labels) == {r \in Requests : pc[r] \in labels}

TypeOK ==
  /\ key \in {"on", "off"}
  /\ off \in 0 .. TTL + MaxLookup
  /\ expiry \in 0 .. TTL
  /\ pc \in [Requests -> {"new", "query", "fill", "decode", "unary", "sse", "chunks", "write",
                          "end", "broke"}]
  /\ waited \in [Requests -> 0 .. MaxLookup]
  /\ words \in [Requests -> 0 .. MaxWords + 1]
  /\ status \in [Requests -> {0, 200, 400, 401, 429, 500, 503}]
  /\ finished \subseteq Requests /\ gone \subseteq Requests
  /\ m \in [Metrics -> Nat]

\* A key that was turned off is refused, at the latest TTL after the longest
\* lookup, although a Validate that had read the row before may fill the
\* cache after: no request gets past Validate from then on.
RevocationHolds ==
  [][off = TTL + MaxLookup => In({"decode"})' \subseteq In({"decode"})]_vars

\* The counters account for every request: each is counted once where it
\* stopped, and what is missing from the outcomes is exactly the work under
\* way and the streams that broke off.
CountersBalance ==
  /\ m["Total"] = m["AuthFailed"] + m["AdmitFailed"] + m["Admitted"]
                  + Cardinality(In({"query", "fill", "decode"}))
  /\ m["Admitted"] = m["Routed"] + m["Errors"] + m["Streamed"]
                     + Cardinality(In({"unary", "sse", "chunks", "write", "broke"}))

\* A stream that is counted as streamed has written the chunk that says it is
\* done, an answer without words included.
StreamsEndWithDone == m["Streamed"] <= Cardinality(finished)

\* A response has one status: once written, by a stream before the router is
\* even asked, no later outcome of the request writes another.
OneStatus ==
  [][\A r \in Requests : status[r] # 0 => status'[r] = status[r]]_vars
=============================================================================
