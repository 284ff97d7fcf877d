------------------------------ MODULE MCRouter -------------------------------
(***************************************************************************)
(* The seeded models gpt-medium (1) and gpt-small (2), chat requests, a    *)
(* rollout of gpt-medium and its end.                                      *)
(***************************************************************************)
EXTENDS Router

Chat == {"chat"}

MCCatalog ==
  <<[tier |-> "medium", cost |-> 100, latency |-> 500, tasks |-> Chat, tokens |-> 8192],
    [tier |-> "small", cost |-> 10, latency |-> 200, tasks |-> Chat, tokens |-> 4096]>>

MCJobs ==
  {[task |-> "chat", budget |-> "", target |-> 0, length |-> 10, mode |-> "balanced", allowed |-> {}]}

\* Both models, half and half in a rollout, and gpt-small alone without one.
MCTables ==
  {[models |-> {1, 2}, weights |-> <<50, 50>>], [models |-> {2}, weights |-> <<0, 0>>]}
=============================================================================
