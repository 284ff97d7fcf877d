--------------------------- MODULE ScheduleContract ---------------------------
(***************************************************************************)
(* What the scheduler promises its callers, with no queue, batch, loop or  *)
(* channel: an execution runs at most once per call, a call is answered at *)
(* most once, an answer that claims an outcome of the execution is that    *)
(* outcome, and a call that was refused (RESOURCE_EXHAUSTED, or a failed   *)
(* dial) is never executed, before or after.  A call that gave up          *)
(* (deadline, cancellation) may still be executed.                         *)
(***************************************************************************)
CONSTANT Requests

VARIABLES
  exec,    \* exec[r]: the execution of call r on the model executor
  answer   \* answer[r]: what the caller of r was told

Refusals  == {"shed", "dialErr"}
Outcomes  == {"ok", "execErr"}
GivenUp   == {"deadline", "canceled"}

Init ==
  /\ exec = [r \in Requests |-> "none"]
  /\ answer = [r \in Requests |-> "none"]

\* A batch of executions begins.
Begin(S) ==
  /\ \A r \in S : exec[r] = "none" /\ answer[r] \notin Refusals
  /\ exec' = [r \in Requests |-> IF r \in S THEN "running" ELSE exec[r]]
  /\ UNCHANGED answer

End(r) ==
  /\ exec[r] = "running"
  /\ \E o \in Outcomes : exec' = [exec EXCEPT ![r] = o]
  /\ UNCHANGED answer

Respond(r) ==
  /\ answer[r] = "none"
  /\ \E a \in Refusals \cup Outcomes \cup GivenUp :
       /\ a \in Outcomes => exec[r] = a
       /\ a \in Refusals => exec[r] = "none"
       /\ answer' = [answer EXCEPT ![r] = a]
  /\ UNCHANGED exec

Next ==
  \/ \E S \in SUBSET Requests : Begin(S)
  \/ \E r \in Requests : End(r) \/ Respond(r)

Spec == Init /\ [][Next]_<<exec, answer>>
=============================================================================
