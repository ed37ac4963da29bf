------------------------------- MODULE MCTeamRun -------------------------------
(* Small team runs for TLC.                                                   *)
EXTENDS TeamRun, TLC

CONSTANTS r1, r2, fix, add, a, b, old, new, usr

\* One run with two lanes and another of the same task, without a coding model;
\* or two runs with tasks of their own and a lane each.
Plan(task, parts, ls) == [task |-> task, adaptive |-> parts, lanes |-> ls]
OneOrTwo ==
  {r1 :> Plan(fix, parts, {1, 2}) @@ r2 :> Plan(fix, FALSE, {}) : parts \in BOOLEAN}
    \cup {r1 :> Plan(fix, FALSE, {1}) @@ r2 :> Plan(add, FALSE, {1})}

OldTree == {[p \in Path |-> old]}
\* What is new in a needs what is new in b.
Fitting == {t \in Tree : t[a] = new => t[b] = new}
================================================================================
