---------------------------- MODULE CircuitBreaker ----------------------------
(***************************************************************************)
(* The circuit breaker that the router keeps per model                     *)
(* (services/router/internal/policy/policy.go), driven the way Route in    *)
(* services/router/cmd/main.go drives it: Allow is asked for every known   *)
(* model, the best-ranked candidate alone is called, and the outcome of    *)
(* the call is recorded whenever it arrives, up to 30 s later, whatever    *)
(* state the breaker is in by then.                                        *)
(*                                                                         *)
(* Breakers of different models share nothing, so one model is enough.     *)
(***************************************************************************)
EXTENDS Naturals, FiniteSets

CONSTANTS
  Calls,       \* Route calls that may be under way at once
  Threshold,   \* failures before opening (3 in the code)
  SuccessReq,  \* successes in half-open before closing (2 in the code)
  Timeout,     \* ticks to stay open (20 s in the code)
  MaxFailures  \* bound on the failure counter of a checked instance

ASSUME BreakerAssumption ==
  /\ IsFiniteSet(Calls)
  /\ Threshold \in Nat \ {0}
  /\ SuccessReq \in Nat \ {0}
  /\ Timeout \in Nat
  /\ MaxFailures \in Nat

VARIABLES
  cb,         \* the breaker: state and its two counters
  sinceFail,  \* time.Since(lastFail) in ticks, up to just past the timeout
  flight,     \* flight[c]: Route c is past Allow, its executor call ahead or under way
  weather,    \* "calm" while the executor serves its calls and no client cancels one
  openFor,    \* history: ticks since the breaker last became open
  probes,     \* history: calls under way that the current half-open let in
  wins        \* history: successes of such calls in this half-open period

vars == <<cb, sinceFail, flight, weather, openFor, probes, wins>>

\* Past the timeout all elapsed times are alike.
Elapsed == 0 .. Timeout + 1
Later(t) == IF t > Timeout THEN t ELSE t + 1

Init ==
  /\ cb = [state |-> "closed", failures |-> 0, successes |-> 0]
  /\ sinceFail = Timeout + 1      \* lastFail is the zero time
  /\ flight = [c \in Calls |-> "none"]
  /\ weather = "calm"
  /\ openFor = 0
  /\ probes = {}
  /\ wins = 0

-----------------------------------------------------------------------------
(* The methods of CircuitBreaker, each one critical section of cb.mu.       *)

\* What Allow returns.
Allows == cb.state = "open" => sinceFail > Timeout

\* Mutant of AfterAllow: the open breaker lets the call in but stays open.
AfterAllowStaysOpen == cb

\* The breaker after Allow: an open one whose timeout is over turns half-open.
AfterAllow ==
  IF cb.state = "open" /\ sinceFail > Timeout
    THEN [state |-> "half-open", failures |-> cb.failures, successes |-> 0]
    ELSE cb

\* Mutant of AfterSuccess: the closing comparison is off by one.
AfterSuccessOffByOne ==
  IF cb.state = "half-open"
    THEN [state     |-> IF cb.successes >= SuccessReq THEN "closed" ELSE "half-open",
          failures  |-> 0,
          successes |-> cb.successes + 1]
    ELSE [cb EXCEPT !.failures = 0]

\* Mutant of AfterSuccess: a success takes one failure back instead of all.
AfterSuccessDecays == [cb EXCEPT !.failures = @ - 1]

\* RecordSuccess.
AfterSuccess ==
  IF cb.state = "half-open"
    THEN [state     |-> IF cb.successes + 1 >= SuccessReq THEN "closed" ELSE "half-open",
          failures  |-> 0,
          successes |-> cb.successes + 1]
    ELSE [cb EXCEPT !.failures = 0]

\* RecordFailure; lastFail is sinceFail's origin.
AfterFailure ==
  [state     |-> IF cb.state = "half-open" \/ cb.failures + 1 >= Threshold
                   THEN "open" ELSE cb.state,
   failures  |-> cb.failures + 1,
   successes |-> 0]

\* The history variables follow the breaker: a call that a half-open breaker
\* let in is a probe until it ends or the breaker leaves that state.
Observe(started, ended, succeeded) ==
  /\ openFor' = IF cb'.state = "open" /\ cb.state # "open" THEN 0 ELSE openFor
  /\ probes' = IF cb'.state = "half-open" THEN (probes \cup started) \ ended ELSE {}
  /\ wins' = IF cb.state = "half-open" THEN wins + Cardinality(succeeded \cap probes) ELSE 0

-----------------------------------------------------------------------------
(* Route.                                                                   *)

\* In rough times calls may fail, up to the bound MaxFailures.
Rough ==
  /\ weather = "rough"
  /\ cb.failures + Cardinality({c \in Calls : flight[c] = "bad"}) < MaxFailures

\* A call sent in rough times may be doomed, for longer than these last.
Fates == IF Rough THEN {"good", "bad"} ELSE {"good"}

MayFail(c) == flight[c] = "bad" \/ (flight[c] = "good" /\ Rough)

\* Allow lets the model in and the scorer ranks it first: Execute is called.
Send(c) ==
  /\ flight[c] = "none"
  /\ Allows
  /\ cb' = AfterAllow
  /\ \E fate \in Fates : flight' = [flight EXCEPT ![c] = fate]
  /\ Observe({c}, {}, {})
  /\ UNCHANGED <<sinceFail, weather>>

\* Allow lets the model in, the scorer ranks another one first: the breaker
\* may turn half-open without a probe.
PassOver ==
  /\ Allows
  /\ cb' = AfterAllow
  /\ Observe({}, {}, {})
  /\ UNCHANGED <<sinceFail, flight, weather>>

Succeed(c) ==
  /\ flight[c] = "good"
  /\ flight' = [flight EXCEPT ![c] = "none"]
  /\ cb' = AfterSuccess
  /\ Observe({}, {c}, {c})
  /\ UNCHANGED <<sinceFail, weather>>

\* Mutant of Fail: lastFail is not set.
FailUntimed(c) ==
  /\ MayFail(c)
  /\ flight' = [flight EXCEPT ![c] = "none"]
  /\ cb' = AfterFailure
  /\ Observe({}, {c}, {})
  /\ UNCHANGED <<sinceFail, weather>>

\* An executor error, the 30 s timeout, a failed dial, or the cancellation of
\* the client's own context, which execCtx derives from: all count alike.
Fail(c) ==
  /\ MayFail(c)
  /\ flight' = [flight EXCEPT ![c] = "none"]
  /\ cb' = AfterFailure
  /\ sinceFail' = 0
  /\ Observe({}, {c}, {})
  /\ UNCHANGED weather

Tick ==
  /\ sinceFail <= Timeout
  /\ sinceFail' = Later(sinceFail)
  /\ openFor' = Later(openFor)
  /\ UNCHANGED <<cb, flight, weather, probes, wins>>

\* An outage, or a wave of impatient clients, begins or ends.
Flip ==
  /\ weather' = IF weather = "calm" THEN "rough" ELSE "calm"
  /\ UNCHANGED <<cb, sinceFail, flight, openFor, probes, wins>>

Next ==
  \/ \E c \in Calls : Send(c) \/ Succeed(c) \/ Fail(c)
  \/ PassOver \/ Tick \/ Flip

Spec == Init /\ [][Next]_vars

(***************************************************************************)
(* Time passes, every executor call ends (it has a 30 s timeout), and      *)
(* requests that only this model can serve keep coming.                    *)
(***************************************************************************)
FairSpec ==
  /\ Spec
  /\ WF_vars(Tick)
  /\ WF_vars(\E c \in Calls : Send(c))
  /\ \A c \in Calls : WF_vars(Succeed(c) \/ Fail(c))

-----------------------------------------------------------------------------
(* Properties.                                                              *)

TypeOK ==
  /\ cb \in [state : {"closed", "open", "half-open"}, failures : Nat, successes : Nat]
  /\ sinceFail \in Elapsed
  /\ flight \in [Calls -> {"none", "good", "bad"}]
  /\ weather \in {"calm", "rough"}
  /\ openFor \in Elapsed
  /\ probes \subseteq Calls
  /\ wins \in Nat

\* The counters never contradict the state, however late outcomes arrive: a
\* closed breaker is short of the threshold, a half-open one is short of the
\* successes that close it.
BreakerShape ==
  /\ cb.state = "closed" => cb.failures < Threshold
  /\ cb.state = "half-open" => cb.successes < SuccessReq

\* Once open, a breaker lets nothing through for at least Timeout ticks,
\* whatever outcomes of earlier calls arrive meanwhile.
Quarantine ==
  [][cb.state = "open" /\ openFor <= Timeout =>
       \A c \in Calls : flight'[c] # "none" => flight[c] # "none"]_vars

\* If executor and clients behave from some time on, the breaker closes again,
\* and again after every late failure of the outage's calls.
Recovery == <>[](weather = "calm") => []<>(cb.state = "closed")

\* Runbook executor-outage: "2 successful probes close the CB".
ClosesOnProbes ==
  [][cb.state = "half-open" /\ cb'.state = "closed" => wins' >= SuccessReq]_vars
=============================================================================
