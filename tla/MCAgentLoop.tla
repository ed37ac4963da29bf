------------------------------ MODULE MCAgentLoop ------------------------------
(* Small agent runs for TLC.                                                   *)
EXTENDS AgentLoop

\* A run with a plan, and one without a plan that must run the tests.
Opt(plan, enforce, test, change, audit) ==
  [plan |-> plan, enforce |-> enforce, test |-> test, change |-> change, audit |-> audit]
SomeOptions ==
  {Opt(TRUE, TRUE, FALSE, TRUE, TRUE), Opt(FALSE, TRUE, TRUE, FALSE, TRUE)}

SmallBatches ==
  {<<"read", "doc">>, <<"test">>, <<"complete">>, <<"code", "check">>, <<"delegate">>}

\* Code and then a document, with the run's end in the next reply.
CodeThenDoc == {<<"code", "doc">>, <<"complete">>}
================================================================================
