------------------------------ MODULE AtomicCommit ------------------------------
(***************************************************************************)
(* What a transactional workspace promises (docs/architecture.md,          *)
(* "Transaktionale Team-Commits"): the agent works on a private view of    *)
(* the user's directory; its result is put in place as a whole, onto the   *)
(* paths it changed and only if they are as it saw them, or not at all.    *)
(* If the process dies or the rollback itself fails, each path is left     *)
(* with its old entry, its new one or none, and the run says so.           *)
(***************************************************************************)
EXTENDS WorkspaceTree

CONSTANTS Sources

VARIABLES
  store,  \* the user's directory, as seen when no commit is running
  seen,   \* the view the agent started from
  wish,   \* the tree the agent wants
  phase   \* "rest", "open", "busy" or "torn"

avars == <<store, seen, wish, phase>>

Differs == {p \in Path : wish[p] # seen[p]}

Init ==
  /\ store \in Sources
  /\ seen = EmptyTree /\ wish = EmptyTree
  /\ phase = "rest"

Begin ==
  /\ phase = "rest" /\ phase' = "open"
  /\ seen' = Manifest(store) /\ wish' \in Tree
  /\ UNCHANGED store

Rework ==
  /\ phase = "open" /\ wish' \in Tree
  /\ UNCHANGED <<store, seen, phase>>

Submit ==
  /\ phase = "open" /\ phase' = "busy"
  /\ UNCHANGED <<store, seen, wish>>

\* Commit the wish: no change of anyone else on these paths is overwritten.
Commit ==
  /\ phase = "busy" /\ phase' = "rest"
  /\ \A p \in Differs : store[p] = seen[p]
  /\ store' = [p \in Path |-> IF p \in Differs THEN wish[p] ELSE store[p]]
  /\ UNCHANGED <<seen, wish>>

\* Give up: a refusal, a rollback, a pause.
GiveUp ==
  /\ phase \in {"open", "busy"} /\ phase' = "rest"
  /\ UNCHANGED <<store, seen, wish>>

Tear ==
  /\ phase = "busy" /\ phase' = "torn"
  /\ store' \in Tree
  /\ \A p \in Path : store'[p] \in {store[p], Absent}
                                    \cup (IF p \in Differs THEN {wish[p]} ELSE {})
  /\ UNCHANGED <<seen, wish>>

Outside ==
  /\ phase \in {"rest", "open"}
  /\ store' \in Tree
  /\ UNCHANGED <<seen, wish, phase>>

Next == Begin \/ Rework \/ Submit \/ Commit \/ GiveUp \/ Tear \/ Outside

Spec == Init /\ [][Next]_avars
=================================================================================
