--------------------------------- MODULE TeamRun ---------------------------------
(***************************************************************************)
(* Team runs on one project directory (run_team and _run_team_pipeline of  *)
(* aicoder/team_orchestrator.py), from the run lock to the terminal event. *)
(* Lanes and the integration workspace copy the directory at different     *)
(* moments; the integration is seeded from the winning lane, merged,       *)
(* verified, repaired once, and committed.  Meanwhile the user edits the   *)
(* directory and other runs commit to it: the lock is taken per task.      *)
(*                                                                         *)
(* TeamCoding models how a lane reaches its verdict; here a lane that      *)
(* changed something may count as verified.  finalize() is one step that   *)
(* commits the delta or nothing, as AtomicCommit says of RamWorkspace.     *)
(***************************************************************************)
CONSTANTS
  Run,
  Task,      \* normalised tasks
  Lane,
  Schedules, \* each run's task and the lanes its code plan leads to, which are
             \* parts of the task (adaptive) or variants of it
  Path, Value,
  Sources,   \* trees the directory may hold at first
  Good,      \* trees that pass verification
  ByAgent, ByUser, \* what agents and the user write
  UserPaths  \* bound: the paths the user edits, each once

Tree == [Path -> Value]

ASSUME RunAssumption ==
  /\ Schedules \subseteq [Run -> [task : Task, adaptive : BOOLEAN, lanes : SUBSET Lane]]
  /\ Sources \subseteq Tree /\ Good \subseteq Tree
  /\ ByAgent \subseteq Value /\ ByUser \subseteq Value /\ UserPaths \subseteq Path

VARIABLES
  disk,         \* the persistent source directory
  at,           \* where each run is
  schedule,     \* the one of Schedules that is played
  lanes,        \* the lanes' isolated workspaces
  integration,  \* the integration workspace
  stop,         \* stop_requested()
  status,       \* TeamRunResult.status
  toEdit,       \* paths the user has yet to edit
  touched,      \* history: paths the agents of a run wrote
  skewed,       \* history: paths of the directory that changed between a run's
                \* first lane workspace and its integration workspace
  drifted,      \* history: ... between its integration workspace and its commit
  committed,    \* history: runs that changed the directory
  cutShort      \* history: runs that failed or were interrupted after the commit

runVars == <<at, schedule, lanes, integration, stop, status>>
history == <<touched, skewed, drifted, committed, cutShort>>
vars == <<disk, runVars, toEdit, history>>

Stages == {"code", "merge", "tests", "repair", "retest", "write", "persisted"}

NoTree == [p \in {} |-> p]
Workspace == [base : Tree, tree : Tree]
LaneState == [at : {"none", "open", "verified", "rejected"},
              base : Tree \cup {NoTree}, tree : Tree \cup {NoTree}]

TypeOK ==
  /\ disk \in Tree
  /\ at \in [Run -> {"idle", "done", "over"} \cup Stages] /\ schedule \in Schedules
  /\ lanes \in [Run -> [Lane -> LaneState]]
  /\ integration \in [Run -> Workspace \cup {NoTree}]
  /\ stop \in [Run -> BOOLEAN] /\ status \in [Run -> {"none", "completed", "failed", "cancelled"}]
  /\ toEdit \subseteq UserPaths
  /\ touched \in [Run -> SUBSET Path] /\ skewed \in [Run -> SUBSET Path]
  /\ drifted \in [Run -> SUBSET Path]
  /\ committed \subseteq Run /\ cutShort \subseteq committed

NoLane == [at |-> "none", base |-> NoTree, tree |-> NoTree]

Init ==
  /\ disk \in Sources
  /\ at = [r \in Run |-> "idle"] /\ schedule \in Schedules
  /\ lanes = [r \in Run |-> [l \in Lane |-> NoLane]]
  /\ integration = [r \in Run |-> NoTree]
  /\ stop = [r \in Run |-> FALSE] /\ status = [r \in Run |-> "none"]
  /\ toEdit = UserPaths
  /\ touched = [r \in Run |-> {}] /\ skewed = [r \in Run |-> {}] /\ drifted = [r \in Run |-> {}]
  /\ committed = {} /\ cutShort = {}

--------------------------------------------------------------------------------
LanesOf(r) == schedule[r].lanes
Goes(r, where) == at' = [at EXCEPT ![r] = where]
Ends(r, result) == Goes(r, "done") /\ status' = [status EXCEPT ![r] = result]
Delta(w) == {p \in Path : w.tree[p] # w.base[p]}

\* History: these paths of the directory change under the runs in `others'.
Changes(paths, others) ==
  /\ skewed' = [r \in Run |->
       IF r \in others /\ at[r] = "code" /\ \E l \in Lane : lanes[r][l].at # "none"
       THEN skewed[r] \cup paths ELSE skewed[r]]
  /\ drifted' = [r \in Run |->
       IF r \in others /\ at[r] \in Stages \ {"code", "persisted"}
       THEN drifted[r] \cup paths ELSE drifted[r]]

DiskUnchanged == UNCHANGED <<disk, skewed, drifted, committed>>
Held(r) == \E q \in Run \ {r} : schedule[q].task = schedule[r].task /\ at[q] \notin {"idle", "over"}

\* The lock of the directory and the run's task is free.
Start(r) ==
  /\ at[r] = "idle" /\ ~Held(r)
  /\ Goes(r, "code")
  /\ UNCHANGED <<schedule, lanes, integration, stop, status, toEdit, touched, cutShort>>
  /\ DiskUnchanged

Rejected(r) ==
  /\ at[r] = "idle" /\ Held(r)
  /\ Goes(r, "over") /\ status' = [status EXCEPT ![r] = "failed"]
  /\ UNCHANGED <<schedule, lanes, integration, stop, toEdit, touched, cutShort>>
  /\ DiskUnchanged

\* A lane's workspace is prepared: when its thread has its provider's slot.
OpenLane(r, l) ==
  /\ at[r] = "code" /\ lanes[r][l].at = "none"
  /\ lanes' = [lanes EXCEPT ![r][l] = [at |-> "open", base |-> disk, tree |-> disk]]
  /\ UNCHANGED <<at, schedule, integration, stop, status, toEdit, touched, cutShort>>
  /\ DiskUnchanged

LaneEdits(r, l, p, v) ==
  /\ at[r] = "code" /\ lanes[r][l].at = "open" /\ ~stop[r]
  /\ lanes[r][l].tree[p] # v
  /\ lanes' = [lanes EXCEPT ![r][l] = [@ EXCEPT !.tree[p] = v]]
  /\ touched' = [touched EXCEPT ![r] = @ \cup {p}]
  /\ UNCHANGED <<at, schedule, integration, stop, status, toEdit, cutShort>>
  /\ DiskUnchanged

EndLane(r, l, verdict) ==
  /\ at[r] = "code" /\ lanes[r][l].at = "open"
  /\ verdict = "verified" => Delta(lanes[r][l]) # {}
  /\ lanes' = [lanes EXCEPT ![r][l] = [@ EXCEPT !.at = verdict]]
  /\ UNCHANGED <<at, schedule, integration, stop, status, toEdit, touched, cutShort>>
  /\ DiskUnchanged

Viable(r) == {l \in LanesOf(r) : lanes[r][l].at = "verified"}
LanesOver(r) == at[r] = "code" /\ \A l \in LanesOf(r) : lanes[r][l].at # "open"

\* seed_from(): the winner's whole tree replaces the fresh copy; disjoint deltas of
\* the other parts are applied on top.
Seed(r, w) ==
  LET owners(p) == {l \in Viable(r) : p \in Delta(lanes[r][l])}
      disjoint == \A p \in Path : \A k, l \in owners(p) : k = l
  IN [p \in Path |-> IF schedule[r].adaptive /\ disjoint /\ owners(p) # {}
                     THEN lanes[r][CHOOSE l \in owners(p) : TRUE].tree[p]
                     ELSE lanes[r][w].tree[p]]

\* Select the winner; copy the directory as it is now; seed the copy.
Integrate(r, w) ==
  /\ LanesOver(r) /\ w \in Viable(r)
  /\ schedule[r].adaptive => Viable(r) = LanesOf(r)
  /\ Goes(r, "merge")
  /\ integration' = [integration EXCEPT ![r] = [base |-> disk, tree |-> Seed(r, w)]]
  /\ UNCHANGED <<schedule, lanes, stop, status, toEdit, touched, cutShort>>
  /\ DiskUnchanged

\* Mutant: the merge stage does not look at the stop.
Merged_IgnoresStop(r) ==
  /\ at[r] = "merge" /\ Goes(r, "tests")
  /\ UNCHANGED <<schedule, lanes, integration, stop, status, toEdit, touched, cutShort>>
  /\ DiskUnchanged

\* Merge plan and merge are complete, when their agents last looked at the stop:
\* an agent that sees it never completes.
Merged(r) ==
  /\ at[r] = "merge" /\ ~stop[r] /\ Goes(r, "tests")
  /\ UNCHANGED <<schedule, lanes, integration, stop, status, toEdit, touched, cutShort>>
  /\ DiskUnchanged

\* The merge agent or the repair agent writes to the integration workspace.
IntegrationEdits(r, p, v) ==
  /\ at[r] \in {"merge", "repair"} /\ ~stop[r]
  /\ integration[r].tree[p] # v
  /\ integration' = [integration EXCEPT ![r].tree[p] = v]
  /\ touched' = [touched EXCEPT ![r] = @ \cup {p}]
  /\ UNCHANGED <<at, schedule, lanes, stop, status, toEdit, cutShort>>
  /\ DiskUnchanged

\* execute_verification_plan() passes: this alone opens the gate to the disk.
Verify(r) ==
  /\ at[r] \in {"tests", "retest"} /\ integration[r].tree \in Good
  /\ Goes(r, "write")
  /\ UNCHANGED <<schedule, lanes, integration, stop, status, toEdit, touched, cutShort>>
  /\ DiskUnchanged

\* Mutant: every failure leads to a repair.
VerifyFails_Again(r) ==
  /\ at[r] \in {"tests", "retest"} /\ integration[r].tree \notin Good
  /\ Goes(r, "repair")
  /\ UNCHANGED <<schedule, lanes, integration, stop, status, toEdit, touched, cutShort>>
  /\ DiskUnchanged

\* The first failure leads to a repair, the second does not.
VerifyFails(r) ==
  /\ at[r] = "tests" /\ integration[r].tree \notin Good
  /\ Goes(r, "repair")
  /\ UNCHANGED <<schedule, lanes, integration, stop, status, toEdit, touched, cutShort>>
  /\ DiskUnchanged

\* Mutant: the repaired workspace goes to disk unverified.
Repaired_Trusted(r) ==
  /\ at[r] = "repair" /\ Goes(r, "write")
  /\ UNCHANGED <<schedule, lanes, integration, stop, status, toEdit, touched, cutShort>>
  /\ DiskUnchanged

\* However the repair's agent ended, the verification runs again.
Repaired(r) ==
  /\ at[r] = "repair" /\ Goes(r, "retest")
  /\ UNCHANGED <<schedule, lanes, integration, stop, status, toEdit, touched, cutShort>>
  /\ DiskUnchanged

\* Mutant: the whole workspace is put in place, not its delta.
Commit_WholeTree(r) ==
  /\ at[r] = "write"
  /\ \A p \in Delta(integration[r]) : disk[p] = integration[r].base[p]
  /\ disk' = integration[r].tree
  /\ Goes(r, "persisted")
  /\ committed' = committed \cup {r}
  /\ Changes(Delta(integration[r]), Run \ {r})
  /\ UNCHANGED <<schedule, lanes, integration, stop, status, toEdit, touched, cutShort>>

\* finalize(): what changed in the workspace must be on disk as it was copied.
Commit(r) ==
  /\ at[r] = "write"
  /\ \A p \in Delta(integration[r]) : disk[p] = integration[r].base[p]
  /\ disk' = [p \in Path |-> IF p \in Delta(integration[r]) THEN integration[r].tree[p]
                             ELSE disk[p]]
  /\ Goes(r, "persisted")
  /\ committed' = committed \cup {r}
  /\ Changes(Delta(integration[r]), Run \ {r})
  /\ UNCHANGED <<schedule, lanes, integration, stop, status, toEdit, touched, cutShort>>

\* The stage-off file is written and the last stage completed.
Complete(r) ==
  /\ at[r] = "persisted" /\ Ends(r, "completed")
  /\ UNCHANGED <<schedule, lanes, integration, stop, toEdit, touched, cutShort>>
  /\ DiskUnchanged

\* A stage fails: a planner, every lane, the merge, the second verification, a
\* conflict or a fault in finalize(); or the stage-off file cannot be written
\* after the commit.
Fail(r) ==
  /\ \/ at[r] \in {"merge", "write", "persisted"}
     \/ at[r] = "retest" /\ integration[r].tree \notin Good
     \/ LanesOver(r) /\ (Viable(r) = {} \/ (schedule[r].adaptive /\ Viable(r) # LanesOf(r)))
  /\ Ends(r, "failed")
  /\ cutShort' = cutShort \cup ({r} \cap committed)
  /\ UNCHANGED <<schedule, lanes, integration, stop, toEdit, touched>>
  /\ DiskUnchanged

\* KeyboardInterrupt; in finalize() it rolls the commit back first.
Interrupt(r) ==
  /\ at[r] \in Stages \cup {"done"}
  /\ Ends(r, "cancelled")
  /\ cutShort' = cutShort \cup ({r} \cap committed)
  /\ UNCHANGED <<schedule, lanes, integration, stop, toEdit, touched>>
  /\ DiskUnchanged

UserStops(r) ==
  /\ at[r] \in Stages \cup {"done"} /\ ~stop[r]
  /\ stop' = [stop EXCEPT ![r] = TRUE]
  /\ UNCHANGED <<at, schedule, lanes, integration, status, toEdit, touched, cutShort>>
  /\ DiskUnchanged

\* Mutant: whatever the result, a stopped run is cancelled.
Terminate_StopWins(r) ==
  /\ at[r] = "done" /\ Goes(r, "over")
  /\ status' = [status EXCEPT ![r] = IF stop[r] THEN "cancelled" ELSE @]
  /\ lanes' = [lanes EXCEPT ![r] = [l \in Lane |-> NoLane]]
  /\ integration' = [integration EXCEPT ![r] = NoTree]
  /\ UNCHANGED <<schedule, stop, toEdit, touched, cutShort>>
  /\ DiskUnchanged

\* The workspaces are removed, the lock is released and the terminal event
\* carries the status: a stopped run that did not complete is cancelled.
Terminate(r) ==
  /\ at[r] = "done" /\ Goes(r, "over")
  /\ status' = [status EXCEPT ![r] = IF stop[r] /\ @ # "completed" THEN "cancelled" ELSE @]
  /\ lanes' = [lanes EXCEPT ![r] = [l \in Lane |-> NoLane]]
  /\ integration' = [integration EXCEPT ![r] = NoTree]
  /\ UNCHANGED <<schedule, stop, toEdit, touched, cutShort>>
  /\ DiskUnchanged

\* The user writes to the directory.
UserEdits(p, v) ==
  /\ p \in toEdit /\ toEdit' = toEdit \ {p}
  /\ disk[p] # v /\ disk' = [disk EXCEPT ![p] = v]
  /\ Changes({p}, Run)
  /\ UNCHANGED <<runVars, touched, committed, cutShort>>

--------------------------------------------------------------------------------
LaneStep(r) ==
  \E l \in LanesOf(r) : OpenLane(r, l) \/ \E v \in {"verified", "rejected"} : EndLane(r, l, v)
Step(r) ==
  \/ Start(r) \/ Rejected(r) \/ (\E w \in LanesOf(r) : Integrate(r, w)) \/ Merged(r)
  \/ Verify(r) \/ VerifyFails(r) \/ Repaired(r) \/ Commit(r) \/ Complete(r) \/ Fail(r)
  \/ Terminate(r)
Edits(r) ==
  \E p \in Path, v \in ByAgent :
    IntegrationEdits(r, p, v) \/ \E l \in LanesOf(r) : LaneEdits(r, l, p, v)

Next ==
  \/ \E r \in Run : Step(r) \/ LaneStep(r) \/ Edits(r) \/ Interrupt(r) \/ UserStops(r)
  \/ \E p \in Path, v \in ByUser : UserEdits(p, v)

Spec == Init /\ [][Next]_vars

\* The run's threads go on; agents come to an end.
FairSpec == Spec /\ \A r \in Run : WF_vars(Step(r)) /\ WF_vars(LaneStep(r))

--------------------------------------------------------------------------------
(* Properties.                                                                *)

\* A commit changes what the run's agents wrote and nothing else, however lanes
\* were copied, merged and seeded and whoever edits or commits meanwhile; except
\* for paths that changed between the copies, which the winner's copy reverts.
CommitsOwnWork ==
  [][\A r \in Run, p \in Path :
       r \in committed' \ committed /\ disk'[p] # disk[p] => p \in touched[r] \cup skewed[r]]_vars

\* What a commit leaves on disk is the tree that passed verification, unless the
\* directory changed after it was copied.
VerifiedOnDisk ==
  [][\A r \in Run :
       r \in committed' \ committed /\ drifted[r] = {} => disk' \in Good]_vars

\* The terminal status tells whether the directory was changed, also when runs are
\* stopped late; only a failure or an interrupt after the commit is reported as if
\* it came before.
StatusTellsTheDisk ==
  \A r \in Run : at[r] = "over" /\ r \notin cutShort =>
    (status[r] = "completed" <=> r \in committed)

\* A run that is stopped before its merge is complete never touches the directory.
StoppedRunsStayOff ==
  \A r \in Run : [](stop[r] /\ at[r] \in {"code", "merge"} => [](r \notin committed))

\* Every run that got under way reports its end.
RunsEnd == \A r \in Run : at[r] \in Stages ~> at[r] = "over"
================================================================================
