----------------------------- MODULE MCRamWorkspace -----------------------------
(* Small workspaces for TLC.  d/ holds a, b and the cache v; h/ holds i; c    *)
(* lies beside them.                                                          *)
EXTENDS RamWorkspace, FiniteSets

CONSTANTS d, a, b, c, h, i, v, f1, f2, m0, m1, out, none

Parents == [p \in Path |-> CASE p \in {a, b, v} -> {d}
                             [] p = i -> {h}
                             [] OTHER -> {}]

Levels == [p \in Path |-> Cardinality(Parents[p])]

\* The trees in which every path holds one of the entries listed for it.
Trees(allowed) == {t \in Tree : \A p \in Path : t[p] \in allowed[p]}

\* Every kind of entry at d, with and without the child a, and with a cache that is
\* not copied.
KindSources == Trees([p \in Path |->
  CASE p = d -> {none, f1, m0, m1, out} [] OTHER -> {none, f1}])
KindCandidates == Trees([p \in Path |->
  CASE p = d -> {none, f1, m0, m1, out} [] p = v -> {none}
    [] OTHER -> {none, f1, f2}])

\* A directory that may be there or not, with files.
PlainSources == Trees([p \in Path |-> IF p = d THEN {none, m0} ELSE {none, f1}])
PlainCandidates == Trees([p \in Path |-> IF p = d THEN {none, m0, f2} ELSE {none, f1, f2}])
\* ... that the candidate may add but not remove.
GrowCandidates == Trees([p \in Path |-> IF p = d THEN {m0} ELSE {none, f1, f2}])

\* A file that may become a directory, beside a directory that stays.
SwapSources == Trees([p \in Path |->
  CASE p = d -> {f1, m0} [] p = h -> {m0} [] OTHER -> {none, f1}])
SwapCandidates == Trees([p \in Path |->
  CASE p = d -> {f1, m0} [] p = h -> {m0} [] OTHER -> {none, f1, f2}])

AllPhases == Phases \ RestPhases
=================================================================================
