------------------------------ MODULE RamWorkspace ------------------------------
(***************************************************************************)
(* One transactional workspace of aicoder/workspace_backend.py from        *)
(* prepare() to the end of finalize(), step by step: the isolated copy, the *)
(* checkpoint that carries an unfinished run to the next session, the      *)
(* optimistic check of the user's directory, the per-file commit, and the  *)
(* rollback.  Someone else (the user, an editor, another run: no lock      *)
(* covers the directory) may edit the source in the phases EditPhases      *)
(* names, at most MaxEdits times.  Any step of the commit may fail or be   *)
(* interrupted, and the process may be killed between any two steps.       *)
(***************************************************************************)
EXTENDS WorkspaceTree

CONSTANTS
  Sources,      \* the user's directory before the run
  Candidates,   \* the trees an agent may leave in its isolated copy
  EditPhases,   \* phases during which the source is edited from outside
  MaxEdits,     \* bound: outside edits per behaviour
  MaxSessions,  \* bound: prepare() calls, resumed ones included
  Faults        \* which faults happen: a step of the backup, of the commit proper
                \* or of the rollback fails or is interrupted; a SIGKILL

CommitPhases == {"backup", "dirs", "leaves", "deletes", "verify"}
RollbackPhases == {"undo", "restore"}
RestPhases == {"committed", "refused", "rolledback", "stuck", "killed"}
Phases == {"idle", "open", "direct", "snapshot"}
            \cup CommitPhases \cup RollbackPhases \cup RestPhases

\* No archive yet: a record no checkpoint() call can write, since only paths
\* of the base are ever recorded as deleted.
NoCheckpoint == [base |-> EmptyTree, delta |-> EmptyTree, deleted |-> Path]

ASSUME RamAssumption ==
  /\ Sources \subseteq Tree
  /\ Candidates \subseteq {t \in Tree : Manifest(t) = t}
  /\ EditPhases \subseteq Phases
  /\ MaxEdits \in Nat /\ MaxSessions \in Nat
  /\ Faults \subseteq {"backup", "commit", "rollback", "kill"}

VARIABLES
  src,       \* the user's directory, self._source
  exec,      \* the isolated copy, self._execution
  base,      \* self._baseline
  bak,       \* the backup directory of the transaction
  ckpt,      \* the checkpoint archive of this plan
  pc,        \* where the run stands
  todo,      \* paths the current loop has still to visit
  sessions,  \* prepare() calls so far
  edits,     \* outside edits so far
  pre,       \* history: the source when the conflict check passed
  user,      \* history: what the last outside edit since prepare() left at a path
  raced,     \* history: an outside edit came after the conflict check
  secured    \* history: _backup_affected has copied every affected path

vars == <<src, exec, base, bak, ckpt, pc, todo, sessions, edits, pre, user, raced,
          secured>>
history == <<pre, user, raced, secured>>

Untouched == "untouched"

Changed == ChangedIn(base, exec)
Deleted == DeletedIn(base, exec)
Affected == Changed \cup Deleted
ChangedDirs == {p \in Changed : exec[p] \in Dir}

Checkpoints ==
  [base : [Path -> Node], delta : [Path -> Node], deleted : SUBSET Path]

TypeOK ==
  /\ src \in Tree /\ pre \in Tree
  /\ exec \in Tree /\ base \in Tree
  /\ bak \in [Path -> Node]
  /\ ckpt \in Checkpoints
  /\ pc \in Phases
  /\ todo \in SUBSET Path
  /\ sessions \in 0..MaxSessions /\ edits \in 0..MaxEdits
  /\ user \in [Path -> Node \cup {Untouched}]
  /\ raced \in BOOLEAN /\ secured \in BOOLEAN

Init ==
  /\ src \in Sources
  /\ exec = EmptyTree /\ base = EmptyTree /\ bak = EmptyTree
  /\ ckpt = NoCheckpoint
  /\ pc = "idle" /\ todo = {}
  /\ sessions = 0 /\ edits = 0
  /\ pre = src
  /\ user = [p \in Path |-> Untouched]
  /\ raced = FALSE /\ secured = FALSE

--------------------------------------------------------------------------------
(* prepare(), the agent's work, checkpoint() and abort().                     *)

\* Mutant: the recorded deletions are forgotten.
Restored_KeepsDeleted(t, c) ==
  [p \in Path |-> IF c.delta[p] # Absent THEN c.delta[p] ELSE t[p]]

\* _restore_checkpoint on a fresh copy: the recorded deletions, then every
\* archive member in name order, each after _remove_path of its destination
\* and a mkdir of its parents.  A directory member is recreated with mkdir.
Restored(t, c) ==
  LET changed == Present(c.delta)
      dropped(p) == \/ t[p] = Absent
                    \/ Anc[p] \cap changed # {}
                    \/ (Anc[p] \cup {p}) \cap c.deleted # {}
  IN [p \in Path |->
        IF p \in changed THEN IF c.delta[p] \in Dir THEN DefaultDir ELSE c.delta[p]
        ELSE IF ~dropped(p) THEN t[p]
        ELSE IF Below(p) \cap changed # {} THEN DefaultDir ELSE Absent]

\* open_workspace_for_run of a run that has no checkpoint to resume from.
OpenFresh ==
  /\ pc = "idle" /\ sessions < MaxSessions
  /\ ckpt = NoCheckpoint
  /\ base' = Manifest(src) /\ exec' = Manifest(src)
  /\ pc' = "open" /\ sessions' = sessions + 1
  /\ user' = [p \in Path |-> Untouched]
  /\ UNCHANGED <<src, bak, ckpt, todo, edits, pre, raced, secured>>

\* ... of a resumed run whose checkpoint was taken from the same base.
OpenResumed ==
  /\ pc = "idle" /\ sessions < MaxSessions
  /\ ckpt # NoCheckpoint
  /\ ckpt.base = Manifest(src)
  /\ base' = Manifest(src) /\ exec' = Restored(Manifest(src), ckpt)
  /\ pc' = "open" /\ sessions' = sessions + 1
  /\ user' = [p \in Path |-> Untouched]
  /\ UNCHANGED <<src, bak, ckpt, todo, edits, pre, raced, secured>>

\* ... of a resumed run whose source has changed: prepare() raises
\* WorkspaceConflict and the run works on the user's directory itself.
OpenDirect ==
  /\ pc = "idle" /\ sessions < MaxSessions
  /\ ckpt # NoCheckpoint
  /\ ckpt.base # Manifest(src)
  /\ pc' = "direct" /\ sessions' = sessions + 1
  /\ UNCHANGED <<src, exec, base, bak, ckpt, todo, edits, history>>

Work ==
  /\ pc = "open"
  /\ exec' \in Candidates
  /\ UNCHANGED <<src, base, bak, ckpt, pc, todo, sessions, edits, history>>

\* preserve_workspace_for_resume: checkpoint(plan_id) writes the delta, then
\* the isolated copy is released.  exec keeps its last content for the
\* properties; every later use starts from a new prepare().
Preserve ==
  /\ pc \in {"open", "refused", "rolledback"}
  /\ ckpt' = [base |-> base,
              delta |-> [p \in Path |-> IF p \in Changed THEN exec[p] ELSE Absent],
              deleted |-> Deleted]
  /\ pc' = "idle"
  /\ UNCHANGED <<src, exec, base, bak, todo, sessions, edits, history>>

--------------------------------------------------------------------------------
(* finalize(verified=True).                                                   *)

\* The children of a file or symlink the candidate replaces by a directory.
Shadowed(p) ==
  \E a \in Anc[p] \cap Affected : base[a] \in File \cup Link /\ exec[a] \in Dir

Inspected == Affected \cup UNION {Anc[p] : p \in Affected}

\* Mutant: what the candidate deletes is not compared.
SourceUnchanged_NotDeleted ==
  \A p \in Inspected \ Deleted : ~Shadowed(p) => ~Blocked(src, p) /\ src[p] = base[p]

\* _assert_source_unchanged passes.
SourceUnchanged ==
  \A p \in Inspected : ~Shadowed(p) => ~Blocked(src, p) /\ src[p] = base[p]

FinalizeNothing ==
  /\ pc = "open" /\ Affected = {}
  /\ pc' = "committed"
  /\ pre' = src /\ raced' = FALSE /\ secured' = FALSE
  /\ UNCHANGED <<src, exec, base, bak, ckpt, todo, sessions, edits, user>>

FinalizeConflict ==
  /\ pc = "open" /\ Affected # {} /\ ~SourceUnchanged
  /\ pc' = "refused"
  /\ pre' = src /\ raced' = FALSE /\ secured' = FALSE
  /\ UNCHANGED <<src, exec, base, bak, ckpt, todo, sessions, edits, user>>

FinalizeStart ==
  /\ pc = "open" /\ Affected # {} /\ SourceUnchanged
  /\ pc' = "snapshot"
  /\ pre' = src /\ raced' = FALSE /\ secured' = FALSE
  /\ UNCHANGED <<src, exec, base, bak, ckpt, todo, sessions, edits, user>>

\* snapshot_workspace succeeds and the transaction directory is created ...
Snapshot ==
  /\ pc = "snapshot"
  /\ pc' = "backup" /\ todo' = Affected /\ bak' = EmptyTree
  /\ UNCHANGED <<src, exec, base, ckpt, sessions, edits, history>>

\* ... or raises (no space, a timeout), before anything was touched.
SnapshotFails ==
  /\ pc = "snapshot" /\ "backup" \in Faults
  /\ pc' = "refused"
  /\ UNCHANGED <<src, exec, base, bak, ckpt, todo, sessions, edits, history>>

\* Mutant: only what the backup holds is removed before it is put back.
EnterRollback_KeepsAdded ==
  /\ pc' = "undo" /\ todo' = Present(bak)
  /\ UNCHANGED <<exec, base, bak, ckpt, sessions, edits, history>>

\* The except clause of finalize(): every failure of a commit step, and every
\* KeyboardInterrupt, goes to _rollback.
EnterRollback ==
  /\ pc' = "undo" /\ todo' = Affected
  /\ UNCHANGED <<exec, base, bak, ckpt, sessions, edits, history>>

\* Mutant: symlinks are not backed up.
Backup_NoLinks(p) ==
  /\ pc = "backup" /\ p \in ShallowFirst(todo)
  /\ ~\E a \in Anc[p] : src[a] \in File
  /\ bak' = IF src[p] \in Link \cup {Absent} THEN bak
            ELSE [MkParents(bak, p) EXCEPT ![p] = src[p]]
  /\ todo' = todo \ {p}
  /\ UNCHANGED <<src, exec, base, ckpt, pc, sessions, edits, history>>

\* One step of _backup_affected.  Below a symlink, lstat sees whatever the
\* directory outside holds: usually nothing.
Backup(p) ==
  /\ pc = "backup" /\ p \in ShallowFirst(todo)
  /\ ~\E a \in Anc[p] : src[a] \in File
  /\ bak' = IF src[p] = Absent THEN bak ELSE [MkParents(bak, p) EXCEPT ![p] = src[p]]
  /\ todo' = todo \ {p}
  /\ UNCHANGED <<src, exec, base, ckpt, pc, sessions, edits, history>>

\* lstat below a regular file raises NotADirectoryError; below a symlink the
\* entry outside may exist and copying it onto itself raises.
BackupFails(p) ==
  /\ pc = "backup" /\ p \in ShallowFirst(todo)
  /\ Blocked(src, p)
  /\ UNCHANGED src
  /\ EnterRollback

BackupDone ==
  /\ pc = "backup" /\ todo = {}
  /\ pc' = "dirs" /\ todo' = ChangedDirs
  /\ secured' = TRUE
  /\ UNCHANGED <<src, exec, base, bak, ckpt, sessions, edits, pre, user, raced>>

InstallDir(p) ==
  /\ pc = "dirs" /\ p \in ShallowFirst(todo)
  /\ ~Blocked(src, p)
  /\ src' = Install(src, p, exec[p])
  /\ todo' = todo \ {p}
  /\ UNCHANGED <<exec, base, bak, ckpt, pc, sessions, edits, history>>

DirsDone ==
  /\ pc = "dirs" /\ todo = {}
  /\ pc' = "leaves" /\ todo' = Changed \ ChangedDirs
  /\ UNCHANGED <<src, exec, base, bak, ckpt, sessions, edits, history>>

InstallLeaf(p) ==
  /\ pc = "leaves" /\ p \in todo
  /\ ~Blocked(src, p) /\ exec[p] \in File
  /\ src' = Install(src, p, exec[p])
  /\ todo' = todo \ {p}
  /\ UNCHANGED <<exec, base, bak, ckpt, pc, sessions, edits, history>>

\* _target_in_root and mkdir refuse a blocked parent; a symlink that leaves
\* the workspace is refused, after a directory in its place was removed.
InstallRefused(p) ==
  /\ \/ pc = "dirs" /\ p \in ShallowFirst(todo)
     \/ pc = "leaves" /\ p \in todo
  /\ \/ Blocked(src, p) /\ UNCHANGED src
     \/ /\ ~Blocked(src, p) /\ exec[p] \in Link
        /\ src' = IF src[p] \in Dir THEN RemovePath(MkParents(src, p), p)
                                    ELSE MkParents(src, p)
  /\ EnterRollback

LeavesDone ==
  /\ pc = "leaves" /\ todo = {}
  /\ pc' = "deletes" /\ todo' = Deleted
  /\ UNCHANGED <<src, exec, base, bak, ckpt, sessions, edits, history>>

Delete(p) ==
  /\ pc = "deletes" /\ p \in DeepestFirst(todo)
  /\ ~ThroughLink(src, p)
  /\ src' = RemovePath(src, p)
  /\ todo' = todo \ {p}
  /\ UNCHANGED <<exec, base, bak, ckpt, pc, sessions, edits, history>>

DeleteRefused(p) ==
  /\ pc = "deletes" /\ p \in DeepestFirst(todo)
  /\ ThroughLink(src, p)
  /\ UNCHANGED src
  /\ EnterRollback

DeletesDone ==
  /\ pc = "deletes" /\ todo = {}
  /\ pc' = "verify"
  /\ UNCHANGED <<src, exec, base, bak, ckpt, todo, sessions, edits, history>>

\* _assert_committed: reading back a path below a file raises as well.
ReadBackAgrees ==
  \A p \in Affected : ~Blocked(src, p) /\ src[p] = exec[p]

CommitDone ==
  /\ pc = "verify" /\ ReadBackAgrees
  /\ pc' = "committed" /\ bak' = EmptyTree
  /\ ckpt' = IF sessions > 1 THEN NoCheckpoint ELSE ckpt
  /\ UNCHANGED <<src, exec, base, todo, sessions, edits, history>>

ReadBackFails ==
  /\ pc = "verify" /\ ~ReadBackAgrees
  /\ UNCHANGED src
  /\ EnterRollback

\* An OSError or KeyboardInterrupt in the middle of a commit step.  A file is
\* replaced in one os.replace; a removal may be cut short.
Interrupt ==
  /\ pc \in CommitPhases
  /\ (IF pc = "backup" THEN "backup" ELSE "commit") \in Faults
  /\ \/ UNCHANGED src
     \/ \E p \in todo :
          /\ \/ pc = "dirs" /\ p \in ShallowFirst(todo) /\ src[p] \in File \cup Link
             \/ pc = "leaves" /\ src[p] \in Dir
             \/ pc = "deletes" /\ p \in DeepestFirst(todo)
          /\ \E gone \in Erasures(src, p) : src' = Erase(src, gone)
  /\ EnterRollback

--------------------------------------------------------------------------------
(* _rollback.                                                                 *)

\* Mutant: a path below a symlink is tried again and again.
Undo_Retries(p) ==
  /\ pc = "undo" /\ p \in DeepestFirst(todo)
  /\ ~ThroughLink(src, p)
  /\ src' = RemovePath(src, p)
  /\ todo' = todo \ {p}
  /\ UNCHANGED <<exec, base, bak, ckpt, pc, sessions, edits, history>>

\* Below an affected symlink there is nothing of the workspace to remove.
Undo(p) ==
  /\ pc = "undo" /\ p \in DeepestFirst(todo)
  /\ \/ ~ThroughLink(src, p) /\ src' = RemovePath(src, p)
     \/ ThroughLink(src, p) /\ Anc[p] \cap Affected # {} /\ UNCHANGED src
  /\ todo' = todo \ {p}
  /\ UNCHANGED <<exec, base, bak, ckpt, pc, sessions, edits, history>>

UndoRefused ==
  /\ pc = "undo"
  /\ \E p \in DeepestFirst(todo) : ThroughLink(src, p) /\ Anc[p] \cap Affected = {}
  /\ pc' = "stuck"
  /\ UNCHANGED <<src, exec, base, bak, ckpt, todo, sessions, edits, history>>

UndoDone ==
  /\ pc = "undo" /\ todo = {}
  /\ pc' = "restore" /\ todo' = Present(bak)
  /\ UNCHANGED <<src, exec, base, bak, ckpt, sessions, edits, history>>

\* Mutant: the restore loop skips what lies below another restored path.
Restore_TopOnly(p) ==
  /\ pc = "restore" /\ p \in ShallowFirst(todo)
  /\ ~Blocked(src, p) /\ bak[p] \notin Link
  /\ src' = Install(src, p, bak[p])
  /\ todo' = todo \ Subtree(p)
  /\ UNCHANGED <<exec, base, bak, ckpt, pc, sessions, edits, history>>

Restore(p) ==
  /\ pc = "restore" /\ p \in ShallowFirst(todo)
  /\ ~Blocked(src, p) /\ bak[p] \notin Link
  /\ src' = Install(src, p, bak[p])
  /\ todo' = todo \ {p}
  /\ UNCHANGED <<exec, base, bak, ckpt, pc, sessions, edits, history>>

\* _atomic_install is called with root=self._source here too: it refuses to
\* put back a symlink that leaves the workspace.
RestoreRefused ==
  /\ pc = "restore"
  /\ \E p \in ShallowFirst(todo) : Blocked(src, p) \/ bak[p] \in Link
  /\ pc' = "stuck"
  /\ UNCHANGED <<src, exec, base, bak, ckpt, todo, sessions, edits, history>>

\* Mutant: the whole source is put back as it was at the conflict check.
RollbackDone_WholeTree ==
  /\ pc = "restore" /\ todo = {}
  /\ pc' = "rolledback" /\ bak' = EmptyTree /\ src' = pre
  /\ UNCHANGED <<exec, base, ckpt, todo, sessions, edits, history>>

RollbackDone ==
  /\ pc = "restore" /\ todo = {}
  /\ pc' = "rolledback" /\ bak' = EmptyTree
  /\ UNCHANGED <<src, exec, base, ckpt, todo, sessions, edits, history>>

\* The rollback itself fails or is interrupted: the backup is kept and named.
RollbackInterrupted ==
  /\ "rollback" \in Faults /\ pc \in RollbackPhases
  /\ pc' = "stuck"
  /\ UNCHANGED <<src, exec, base, bak, ckpt, todo, sessions, edits, history>>

Kill ==
  /\ "kill" \in Faults /\ pc \in CommitPhases \cup RollbackPhases
  /\ pc' = "killed"
  /\ UNCHANGED <<src, exec, base, bak, ckpt, todo, sessions, edits, history>>

--------------------------------------------------------------------------------
(* The world around the run.                                                  *)

\* Someone writes, re-modes or removes one path of the source.
UserEdit(p) ==
  /\ pc \in EditPhases /\ edits < MaxEdits
  /\ \E e \in Node \ {src[p]} :
       /\ src' = IF e \in Dir /\ src[p] \in Dir THEN [src EXCEPT ![p] = e]
                 ELSE [RemovePath(src, p) EXCEPT ![p] = e]
       /\ user' = [q \in Path |->
            IF src'[q] # src[q] THEN src'[q] ELSE user[q]]
  /\ \A a \in Anc[p] : src[a] \in Dir
  /\ edits' = edits + 1
  /\ raced' = TRUE
  /\ UNCHANGED <<exec, base, bak, ckpt, pc, todo, sessions, pre, secured>>

Prepare == OpenFresh \/ OpenResumed \/ OpenDirect
Gate == FinalizeNothing \/ FinalizeConflict \/ FinalizeStart
CommitStep(p) ==
  Backup(p) \/ BackupFails(p) \/ InstallDir(p) \/ InstallLeaf(p)
    \/ InstallRefused(p) \/ Delete(p) \/ DeleteRefused(p)
CommitTurn ==
  Snapshot \/ BackupDone \/ DirsDone \/ LeavesDone
    \/ DeletesDone \/ CommitDone \/ ReadBackFails
Rollback ==
  UndoRefused \/ UndoDone \/ RestoreRefused \/ RollbackDone
    \/ \E p \in Path : Undo(p) \/ Restore(p)

\* What the process does by itself once finalize() was called.
Finalizing == CommitTurn \/ (\E p \in Path : CommitStep(p)) \/ Rollback

Next ==
  \/ Prepare \/ Work \/ Preserve \/ Gate
  \/ Finalizing \/ SnapshotFails \/ Interrupt \/ RollbackInterrupted \/ Kill
  \/ \E p \in Path : UserEdit(p)

Spec == Init /\ [][Next]_vars
FairSpec == Spec /\ WF_vars(Finalizing)
--------------------------------------------------------------------------------
(* Properties.                                                                *)

InTransaction == CommitPhases \cup RollbackPhases \cup {"stuck", "killed"}

\* Everything the source held below an affected directory is itself affected.
\* It fails when something lies there the transaction does not know (a cache
\* directory, a file made after prepare), or does not touch.
NoBystanders(dirs) == \A p \in dirs : Below(p) \cap Present(pre) \subseteq Affected
AffectedDirs == {p \in Affected : pre[p] \in Dir}
RemovedDirs == {p \in AffectedDirs : exec[p] \notin Dir}

\* Every directory that is only a parent of the affected set has umask mode.
PlainParents ==
  \A p \in Affected : pre[p] # Absent =>
    \A a \in Anc[p] \ Affected : pre[a] = DefaultDir

\* The conflict check compares fewer paths than it commits (the children of a
\* replaced file or symlink are skipped), yet every path the commit is about to
\* touch was at its baseline when the check passed.
CommitsOntoBaseline ==
  pc \in {"snapshot"} \cup InTransaction => \A p \in Affected : pre[p] = base[p]

\* While the transaction runs, and where a kill or a failed rollback leaves it,
\* no file or symlink of the user is gone from both the source and the backup.
\* (A rollback out of an unfinished backup is the exception: see secured.)
ContentRecoverable ==
  /\ pc \in InTransaction /\ ~raced
  /\ secured \/ pc = "backup"
  /\ NoBystanders(AffectedDirs)
  => \A p \in Path : pre[p] \in File \cup Link => pre[p] \in {src[p], bak[p]}

\* A rollback that reports success has put the whole source back, whatever
\* step of the commit failed and however much a removal had deleted.
RollbackRestores ==
  /\ pc = "rolledback" /\ ~raced /\ secured
  /\ NoBystanders(AffectedDirs) /\ PlainParents
  => src = pre

\* A commit that reports success changed the affected paths to the verified
\* candidate and nothing else.
CommitIsExact ==
  pc = "committed" /\ ~raced /\ NoBystanders(RemovedDirs)
    => src = [p \in Path |-> IF p \in Affected THEN exec[p] ELSE pre[p]]

\* What finalize() reports of the user's directory is what became of it.
OutcomeIsExact == RollbackRestores /\ CommitIsExact

\* What someone else writes outside the reach of the delta, at any moment of the
\* run, is still there: neither commit nor rollback reverts it.
UnrelatedEditsSurvive ==
  pc # "idle" =>
    \A p \in Path :
      /\ user[p] # Untouched
      /\ (Subtree(p) \cup Anc[p]) \cap Affected = {}
      => src[p] = user[p]

\* A resumed run continues with the tree the paused run left, when the delta
\* holds no directory but new ones of default mode.
PlainDelta(c) ==
  \A p \in Path : c.delta[p] \in Dir => c.delta[p] = DefaultDir /\ c.base[p] \notin Dir
ResumeContinues == [][OpenResumed /\ PlainDelta(ckpt) => exec' = exec]_vars

\* Once the conflict check has passed, finalize() comes to an end.
FinalizeEnds == (pc = "snapshot") ~> (pc \in RestPhases)

--------------------------------------------------------------------------------
(* What a caller may rely on.                                                 *)

Promise == INSTANCE AtomicCommit WITH
  store <- IF pc \in CommitPhases \cup RollbackPhases THEN pre ELSE src,
  seen <- base,
  wish <- exec,
  phase <- CASE pc = "open" -> "open"
             [] pc \in {"snapshot"} \cup CommitPhases \cup RollbackPhases -> "busy"
             [] pc \in {"stuck", "killed"} -> "torn"
             [] OTHER -> "rest"

\* The step-by-step commit implements the one-step commit: whoever looks at the
\* source when no transaction runs sees the old tree or the new one, and a torn
\* tree only after a kill or a reported rollback failure.
ImplementsAtomicCommit == Promise!Spec
================================================================================
