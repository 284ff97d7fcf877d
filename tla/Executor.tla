------------------------------- MODULE Executor -------------------------------
(***************************************************************************)
(* The model executor's servicer                                           *)
(* (services/model-executor/server/executor.py): unary and streamed calls, *)
(* each in a thread of the gRPC server's pool, and SetStatus, with which   *)
(* an operator takes the executor out of service.  A call reads the status *)
(* under the lock and works on without it.                                 *)
(*                                                                         *)
(* The backend is known by the tokens it yields and by whether it raises;  *)
(* the latency factor, which only Health reads, and the totals of          *)
(* ExecutorMetrics, which nothing acts on, are left out.  A call that      *)
(* finds the executor down changes nothing and is not shown.               *)
(***************************************************************************)
EXTENDS Integers, FiniteSets

CONSTANTS
  Calls,     \* threads of the pool, each serving one call after another
  MaxTokens  \* bound: tokens of a streamed answer

VARIABLES
  serving,  \* _status
  active,   \* ExecutorMetrics._active
  thread,   \* thread[c]: where the handler of c is
  sent,     \* sent[c]: tokens_out of its stream
  away      \* calls whose client has left: context.is_active() is false

vars == <<serving, active, thread, sent, away>>

Status == {"healthy", "degraded", "down"}

Init ==
  /\ serving = "healthy"
  /\ active = 0
  /\ thread = [c \in Calls |-> "idle"]
  /\ sent = [c \in Calls |-> 0]
  /\ away = {}

\* The handler of c returns.
Return(c) ==
  /\ thread' = [thread EXCEPT ![c] = "idle"]
  /\ sent' = [sent EXCEPT ![c] = 0]
  /\ away' = away \ {c}

-----------------------------------------------------------------------------
(* Execute.                                                                 *)

\* The status is read; all but "down" is served.
Execute(c) ==
  /\ thread[c] = "idle"
  /\ serving # "down"
  /\ thread' = [thread EXCEPT ![c] = "check"]
  /\ UNCHANGED <<serving, active, sent, away>>

\* _deadline_ok: the client has left, or deadline_ms has passed.
Expired(c) ==
  /\ thread[c] = "check"
  /\ Return(c)
  /\ UNCHANGED <<serving, active>>

\* _deadline_ok, and track_active is entered.
Enter(c) ==
  /\ thread[c] = "check"
  /\ c \notin away
  /\ thread' = [thread EXCEPT ![c] = "backend"]
  /\ active' = active + 1
  /\ UNCHANGED <<serving, sent, away>>

\* The backend answers or raises: track_active is left either way.
Leave(c) ==
  /\ thread[c] = "backend"
  /\ Return(c)
  /\ active' = active - 1
  /\ UNCHANGED serving

-----------------------------------------------------------------------------
(* ExecuteStream.                                                           *)

\* Mutant of ExecuteStream: streams are served whatever the status.
ExecuteStreamUnchecked(c) ==
  /\ thread[c] = "idle"
  /\ thread' = [thread EXCEPT ![c] = "stream"]
  /\ UNCHANGED <<serving, active, sent, away>>

\* The status is read; no deadline is looked at and nothing counted.
ExecuteStream(c) ==
  /\ thread[c] = "idle"
  /\ serving # "down"
  /\ thread' = [thread EXCEPT ![c] = "stream"]
  /\ UNCHANGED <<serving, active, sent, away>>

\* The backend yields a token, which goes to a client that is still there.
Token(c) ==
  /\ thread[c] = "stream"
  /\ c \notin away
  /\ sent[c] < MaxTokens
  /\ sent' = [sent EXCEPT ![c] = @ + 1]
  /\ UNCHANGED <<serving, active, thread, away>>

\* The client has left, the backend raises, or the last chunk is sent.
EndStream(c) ==
  /\ thread[c] = "stream"
  /\ Return(c)
  /\ UNCHANGED <<serving, active>>

-----------------------------------------------------------------------------
\* SetStatus, at any time.
SetStatus ==
  /\ \E s \in Status \ {serving} : serving' = s
  /\ UNCHANGED <<active, thread, sent, away>>

Hangup(c) ==
  /\ thread[c] # "idle" /\ c \notin away
  /\ away' = away \cup {c}
  /\ UNCHANGED <<serving, active, thread, sent>>

\* What a handler does on its own once it has begun.
Proceed(c) == Expired(c) \/ Enter(c) \/ Leave(c) \/ Token(c) \/ EndStream(c)

Next == SetStatus \/ \E c \in Calls : Execute(c) \/ ExecuteStream(c) \/ Proceed(c) \/ Hangup(c)

\* Threads run and the backend ends what it began.
FairSpec == Init /\ [][Next]_vars /\ \A c \in Calls : WF_vars(Proceed(c))

-----------------------------------------------------------------------------
(* Properties.                                                              *)

TypeOK ==
  /\ serving \in Status
  /\ active \in 0 .. Cardinality(Calls)
  /\ thread \in [Calls -> {"idle", "check", "backend", "stream"}]
  /\ sent \in [Calls -> 0 .. MaxTokens]
  /\ away \subseteq {c \in Calls : thread[c] # "idle"}

\* An executor that is down for good ends up with no work, and its gauge with
\* none either: calls that had read the status before are the last ones,
\* whether they succeed, fail, expire or lose their client on the way.
DrainsWhenDown ==
  <>[](serving = "down")
    => <>[](active = 0 /\ \A c \in Calls : thread[c] = "idle")
=============================================================================
