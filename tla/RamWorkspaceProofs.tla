--------------------------- MODULE RamWorkspaceProofs ---------------------------
(***************************************************************************)
(* Theorems about RamWorkspace for every set of paths, every user tree and *)
(* every candidate.                                                        *)
(***************************************************************************)
EXTENDS RamWorkspace, TLAPS

--------------------------------------------------------------------------------
(* The file operations keep a tree a tree, and what each of them can and      *)
(* cannot change.                                                             *)

\* The manifest of a tree is a tree: a transient name hides what lies below it.
LEMMA ManifestIsTree ==
  ASSUME NEW t \in Tree
  PROVE  Manifest(t) \in Tree
  BY TreeAssumption DEF Manifest, Tree, Node, Entry

\* A removal that takes the children along leaves a tree, however far it got.
LEMMA EraseIsTree ==
  ASSUME NEW t \in Tree, NEW gone \in SUBSET Path,
         \A q \in gone : Below(q) \cap Present(t) \subseteq gone
  PROVE  Erase(t, gone) \in Tree
<1>1. Erase(t, gone) \in [Path -> Node]
  BY DEF Erase, Tree, Node
<1>2. ASSUME NEW p \in Path, Erase(t, gone)[p] # Absent, NEW a \in Anc[p]
      PROVE  Erase(t, gone)[a] \in Dir
  <2>1. p \notin gone /\ t[p] # Absent
    BY <1>2 DEF Erase
  <2>2. a \in Path /\ p \in Below(a)
    BY <1>2, TreeAssumption DEF Below
  <2>3. a \notin gone
    BY <2>1, <2>2 DEF Present
  <2>4. QED
    BY <2>1, <2>2, <2>3, <1>2 DEF Erase, Tree
<1>3. QED
  BY <1>1, <1>2 DEF Tree

\* _remove_path leaves a tree.
LEMMA RemoveIsTree ==
  ASSUME NEW t \in Tree, NEW p \in Path
  PROVE  RemovePath(t, p) \in Tree
<1>1. ASSUME NEW q \in Subtree(p) PROVE Below(q) \cap Present(t) \subseteq Subtree(p)
  BY <1>1, TreeAssumption DEF Subtree, Below
<1>2. Subtree(p) \in SUBSET Path
  BY DEF Subtree, Below
<1>3. QED
  BY <1>1, <1>2, EraseIsTree DEF RemovePath

\* A removal cut short leaves a tree.
LEMMA ErasuresLeaveTree ==
  ASSUME NEW t \in Tree, NEW p \in Path, NEW gone \in Erasures(t, p)
  PROVE  Erase(t, gone) \in Tree
<1>1. gone \in SUBSET Path /\ \A q \in gone : Below(q) \cap Present(t) \subseteq gone
  BY DEF Erasures, Subtree, Below, Present
<1>2. QED
  BY <1>1, EraseIsTree

\* mkdir(parents=True) below existing directories makes every ancestor one.
LEMMA MkParentsIsTree ==
  ASSUME NEW t \in Tree, NEW p \in Path, ~Blocked(t, p)
  PROVE  /\ MkParents(t, p) \in Tree
         /\ \A a \in Anc[p] : MkParents(t, p)[a] \in Dir
<1>1. ASSUME NEW a \in Anc[p] PROVE a \in Path /\ MkParents(t, p)[a] \in Dir
  <2>1. a \in Path /\ t[a] \in Node /\ t[a] \notin File \cup Link
    BY <1>1, TreeAssumption DEF Blocked, Tree
  <2>2. t[a] \in Dir \/ t[a] = Absent
    BY <2>1 DEF Node, Entry
  <2>3. QED
    BY <1>1, <2>1, <2>2, TreeAssumption DEF MkParents
<1>2. MkParents(t, p) \in [Path -> Node]
  BY TreeAssumption DEF MkParents, Tree, Node, Entry
<1>3. ASSUME NEW q \in Path, MkParents(t, p)[q] # Absent, NEW a \in Anc[q]
      PROVE  MkParents(t, p)[a] \in Dir
  <2>1. CASE q \in Anc[p]
    BY <2>1, <1>1, <1>3, TreeAssumption
  <2>2. CASE q \notin Anc[p]
    <3>1. t[q] # Absent /\ a \in Path /\ t[a] \in Dir
      BY <2>2, <1>3, TreeAssumption DEF MkParents, Tree
    <3>2. t[a] # Absent
      BY <3>1, TreeAssumption DEF Entry
    <3>3. QED
      BY <3>1, <3>2 DEF MkParents
  <2>3. QED
    BY <2>1, <2>2
<1>4. QED
  BY <1>1, <1>2, <1>3 DEF Tree

\* Putting an entry where the ancestors are directories keeps a tree, if a
\* file or symlink does not come to lie above something.
LEMMA PutIsTree ==
  ASSUME NEW t \in Tree, NEW p \in Path, NEW e \in Node,
         e # Absent => \A a \in Anc[p] : t[a] \in Dir,
         e \notin Dir => \A q \in Below(p) : t[q] = Absent
  PROVE  [t EXCEPT ![p] = e] \in Tree
<1>1. [t EXCEPT ![p] = e] \in [Path -> Node]
  BY DEF Tree
<1>2. ASSUME NEW q \in Path, [t EXCEPT ![p] = e][q] # Absent, NEW a \in Anc[q]
      PROVE  [t EXCEPT ![p] = e][a] \in Dir
  <2>0. a \in Path /\ a # q /\ t \in [Path -> Node]
    BY <1>2, TreeAssumption DEF Tree
  <2>1. CASE q = p
    BY <2>0, <2>1, <1>2
  <2>2. CASE q # p /\ a = p
    BY <2>0, <2>2, <1>2 DEF Below
  <2>3. CASE q # p /\ a # p
    BY <2>0, <2>3, <1>2 DEF Tree
  <2>4. QED
    BY <2>1, <2>2, <2>3
<1>3. QED
  BY <1>1, <1>2 DEF Tree

\* _atomic_install into a place that is not blocked keeps a tree.
LEMMA InstallIsTree ==
  ASSUME NEW t \in Tree, NEW p \in Path, NEW e \in Node, ~Blocked(t, p)
  PROVE  Install(t, p, e) \in Tree
<1>1. CASE e \in Dir
  <2>1. [MkParents(t, p) EXCEPT ![p] = e] \in Tree
    BY <1>1, MkParentsIsTree, PutIsTree
  <2>2. QED
    BY <1>1, <2>1 DEF Install
<1>2. CASE e \notin Dir
  <2> DEFINE u == RemovePath(t, p)
  <2>1. u \in Tree
    BY RemoveIsTree
  <2>2. ~Blocked(u, p)
    <3>1. ASSUME NEW a \in Anc[p] PROVE u[a] = t[a]
      BY <3>1, TreeAssumption DEF RemovePath, Erase, Subtree, Below
    <3>2. QED
      BY <3>1 DEF Blocked
  <2>3. \A q \in Below(p) : MkParents(u, p)[q] = Absent
    BY TreeAssumption DEF MkParents, RemovePath, Erase, Subtree, Below
  <2>4. MkParents(u, p) \in Tree /\ \A a \in Anc[p] : MkParents(u, p)[a] \in Dir
    BY <2>1, <2>2, MkParentsIsTree
  <2>5. [MkParents(u, p) EXCEPT ![p] = e] \in Tree
    BY <2>3, <2>4, PutIsTree
  <2>6. QED
    BY <1>2, <2>5 DEF Install
<1>3. QED
  BY <1>1, <1>2

\* An install leaves an entry alone that is neither at its target nor below a
\* target that becomes a file or symlink.
LEMMA InstallSpares ==
  ASSUME NEW t \in Tree, NEW p \in Path, NEW q \in Path, NEW e \in Node,
         t[p] # Absent, p # q, p \notin Below(q) \/ e \in Dir
  PROVE  Install(t, q, e)[p] = t[p]
<1>1. CASE e \in Dir
  BY <1>1 DEF Install, MkParents, Tree
<1>2. CASE e \notin Dir
  <2>1. RemovePath(t, q)[p] = t[p]
    BY <1>2 DEF RemovePath, Erase, Subtree
  <2>2. MkParents(RemovePath(t, q), q)[p] = t[p]
    BY <2>1 DEF MkParents
  <2>3. QED
    BY <1>2, <2>2 DEF Install, MkParents
<1>3. QED
  BY <1>1, <1>2

--------------------------------------------------------------------------------
(* Type correctness.                                                          *)

\* The checkpoint's directories: what lies above a recorded entry is recorded
\* as a directory or was one in the base.
CheckpointOK ==
  \A p \in Present(ckpt.delta) : \A a \in Anc[p] :
    \/ ckpt.delta[a] \in Dir
    \/ ckpt.delta[a] = Absent /\ ckpt.base[a] \in Dir

TypeInv == TypeOK /\ CheckpointOK

\* Restoring a checkpoint onto its own base gives a tree.
LEMMA RestoredIsTree ==
  ASSUME TypeInv, ckpt.base \in Tree
  PROVE  Restored(ckpt.base, ckpt) \in Tree
<1> DEFINE c == ckpt
           t == ckpt.base
           R == Restored(t, c)
           changed == Present(c.delta)
           dropped(p) == \/ t[p] = Absent
                         \/ Anc[p] \cap changed # {}
                         \/ (Anc[p] \cup {p}) \cap c.deleted # {}
<1>1. c.delta \in [Path -> Node] /\ t \in [Path -> Node]
  BY DEF TypeInv, TypeOK, Checkpoints
<1>2. ASSUME NEW p \in Path
      PROVE  R[p] = IF p \in changed
                     THEN IF c.delta[p] \in Dir THEN DefaultDir ELSE c.delta[p]
                     ELSE IF ~dropped(p) THEN t[p]
                     ELSE IF Below(p) \cap changed # {} THEN DefaultDir ELSE Absent
  BY DEF Restored
<1> HIDE DEF R
<1>3. R \in [Path -> Node]
  <2>1. \A p \in Path : R[p] \in Node
    BY <1>1, <1>2, TreeAssumption DEF Node, Entry, Present
  <2>2. R = [p \in Path |-> R[p]]
    BY DEF R, Restored
  <2>3. QED
    BY <2>1, <2>2
\* Whatever lies above a path that is changed comes out as a directory.
<1>4. ASSUME NEW q \in changed, NEW a \in Anc[q] PROVE R[a] \in Dir
  <2>1. q \in Path /\ a \in Path /\ Below(a) \cap changed # {}
    BY <1>4, TreeAssumption DEF Present, Below
  <2>2. c.delta[a] \in Dir \/ (c.delta[a] = Absent /\ t[a] \in Dir)
    BY <1>4 DEF TypeInv, CheckpointOK
  <2>3. CASE c.delta[a] \in Dir
    BY <1>2, <2>1, <2>3, TreeAssumption DEF Present, Entry
  <2>4. CASE c.delta[a] = Absent /\ t[a] \in Dir
    <3>1. a \notin changed
      BY <2>4 DEF Present
    <3>2. CASE dropped(a)
      BY <1>2, <2>1, <3>1, <3>2, TreeAssumption
    <3>3. CASE ~dropped(a)
      BY <1>2, <2>1, <2>4, <3>1, <3>3
    <3>4. QED
      BY <3>2, <3>3
  <2>5. QED
    BY <2>2, <2>3, <2>4
<1>5. ASSUME NEW p \in Path, R[p] # Absent, NEW a \in Anc[p] PROVE R[a] \in Dir
  <2>0. a \in Path /\ Anc[a] \subseteq Anc[p]
    BY <1>5, TreeAssumption
  <2>1. CASE p \in changed
    BY <1>4, <1>5, <2>1
  <2>2. CASE p \notin changed /\ ~dropped(p)
    <3>1. a \notin changed /\ Anc[a] \cap changed = {}
      BY <1>5, <2>0, <2>2
    <3>2. (Anc[a] \cup {a}) \cap c.deleted = {}
      BY <1>5, <2>0, <2>2
    <3>3. t[a] \in Dir /\ t[a] # Absent
      BY <1>5, <2>0, <2>2, TreeAssumption DEF Tree, Entry
    <3>4. QED
      BY <1>2, <2>0, <3>1, <3>2, <3>3
  <2>3. CASE p \notin changed /\ dropped(p)
    <3>1. PICK q \in Below(p) \cap changed : TRUE
      BY <1>2, <1>5, <2>3
    <3>2. a \in Anc[q]
      BY <1>5, <3>1, TreeAssumption DEF Below
    <3>3. QED
      BY <1>4, <3>1, <3>2
  <2>4. QED
    BY <2>1, <2>2, <2>3
<1>6. QED
  BY <1>3, <1>5 DEF Tree, R

\* The changed part of a copy makes a checkpoint whose directories are complete.
LEMMA PreserveKeepsType ==
  ASSUME TypeInv, Preserve
  PROVE  TypeInv'
<1>1. ckpt' \in Checkpoints
  BY DEF TypeInv, TypeOK, Preserve, Checkpoints, Deleted, DeletedIn, Tree, Node
<1>2. CheckpointOK'
  <2>1. ASSUME NEW p \in Path, ckpt'.delta[p] # Absent, NEW a \in Anc[p]
        PROVE  ckpt'.delta[a] \in Dir \/ (ckpt'.delta[a] = Absent /\ ckpt'.base[a] \in Dir)
    <3>1. a \in Path /\ exec[p] # Absent
      BY <2>1, TreeAssumption DEF Preserve, Changed, ChangedIn
    <3>2. exec[a] \in Dir /\ exec[a] # Absent
      BY <2>1, <3>1, TreeAssumption DEF TypeInv, TypeOK, Tree, Entry
    <3>3. QED
      BY <3>1, <3>2 DEF Preserve, Changed, ChangedIn
  <2>2. QED
    BY <2>1 DEF CheckpointOK, Present
<1>3. QED
  BY <1>1, <1>2 DEF TypeInv, TypeOK, Preserve, history, Phases

\* The source and the copies stay trees in every step.
LEMMA NextKeepsType ==
  ASSUME TypeInv, [Next]_vars
  PROVE  TypeInv'
<1> USE DEF TypeInv, CheckpointOK, history
<1> DEFINE TypeRest == /\ bak' \in [Path -> Node] /\ pc' \in Phases
                       /\ todo' \in SUBSET Path /\ sessions' \in 0..MaxSessions
                       /\ edits' \in 0..MaxEdits
                       /\ user' \in [Path -> Node \cup {Untouched}]
                       /\ raced' \in BOOLEAN /\ secured' \in BOOLEAN
<1>0. Affected \subseteq Path /\ EmptyTree \in Tree
  BY DEF Affected, Changed, Deleted, ChangedIn, DeletedIn, EmptyTree, Tree, Node
<1>1. ASSUME src' \in Tree, UNCHANGED <<exec, base, ckpt, pre>>, TypeRest
      PROVE  TypeInv'
  BY <1>1 DEF TypeOK
<1>2. \A p \in Path : src[p] \in Node /\ exec[p] \in Node
  BY DEF TypeOK, Tree
<1>3. CASE Prepare
  <2>1. Manifest(src) \in Tree
    BY ManifestIsTree DEF TypeOK
  <2>2. sessions' \in 0..MaxSessions
    BY <1>3, RamAssumption DEF Prepare, OpenFresh, OpenResumed, OpenDirect, TypeOK
  <2>3. pc' \in Phases
    BY <1>3 DEF Prepare, OpenFresh, OpenResumed, OpenDirect, Phases
  <2>4. user' \in [Path -> Node \cup {Untouched}]
    BY <1>3 DEF Prepare, OpenFresh, OpenResumed, OpenDirect, TypeOK
  <2>5. CASE OpenFresh
    BY <2>1, <2>2, <2>3, <2>4, <2>5 DEF OpenFresh, TypeOK
  <2>6. CASE OpenResumed
    <3>1. Restored(Manifest(src), ckpt) \in Tree
      BY <2>1, <2>6, RestoredIsTree DEF OpenResumed
    <3>2. QED
      BY <2>1, <2>2, <2>3, <2>4, <2>6, <3>1 DEF OpenResumed, TypeOK
  <2>7. CASE OpenDirect
    BY <2>2, <2>3, <2>4, <2>7 DEF OpenDirect, TypeOK
  <2>8. QED
    BY <1>3, <2>5, <2>6, <2>7 DEF Prepare
<1>4. CASE Work
  BY <1>4, RamAssumption DEF Work, TypeOK
<1>5. CASE Preserve
  BY <1>5, PreserveKeepsType
<1>6. CASE Gate
  BY <1>6 DEF Gate, FinalizeNothing, FinalizeConflict, FinalizeStart, TypeOK, Phases, RestPhases
<1>7. CASE CommitTurn
  <2>1. EmptyTree \in [Path -> Node] /\ NoCheckpoint \in Checkpoints
    BY <1>0 DEF Tree, NoCheckpoint, Checkpoints
  <2>2. CASE Snapshot
    BY <1>0, <1>1, <2>1, <2>2 DEF Snapshot, TypeOK, Phases, CommitPhases
  <2>3. CASE BackupDone \/ DirsDone \/ LeavesDone \/ DeletesDone
    BY <1>0, <2>3 DEF BackupDone, DirsDone, LeavesDone, DeletesDone, TypeOK, Phases,
      CommitPhases, ChangedDirs, Affected
  <2>4. CASE CommitDone
    <3>1. CASE ckpt' = ckpt
      BY <1>1, <2>1, <2>4, <3>1 DEF CommitDone, TypeOK, Phases, RestPhases
    <3>2. CASE ckpt' = NoCheckpoint
      BY <2>1, <2>4, <3>2 DEF CommitDone, TypeOK, Phases, RestPhases, NoCheckpoint,
        EmptyTree, Present
    <3>3. QED
      BY <2>4, <3>1, <3>2 DEF CommitDone
  <2>5. CASE ReadBackFails
    BY <1>0, <2>5 DEF ReadBackFails, EnterRollback, TypeOK, Phases, RollbackPhases
  <2>6. QED
    BY <1>7, <2>2, <2>3, <2>4, <2>5 DEF CommitTurn
<1>8. ASSUME NEW p \in Path, CommitStep(p) PROVE TypeInv'
  <2>1. CASE Backup(p)
    <3>1. bak' \in [Path -> Node]
      BY <1>2, <2>1, TreeAssumption DEF Backup, MkParents, TypeOK, Node, Entry
    <3>2. QED
      BY <2>1, <3>1 DEF Backup, TypeOK
  <2>2. CASE BackupFails(p) \/ DeleteRefused(p)
    BY <1>0, <2>2 DEF BackupFails, DeleteRefused, EnterRollback, TypeOK, Phases, RollbackPhases
  <2>3. CASE InstallDir(p) \/ InstallLeaf(p)
    <3>1. src' \in Tree
      BY <1>2, <2>3, InstallIsTree DEF InstallDir, InstallLeaf, TypeOK
    <3>2. QED
      BY <1>1, <2>3, <3>1 DEF InstallDir, InstallLeaf, TypeOK
  <2>4. CASE InstallRefused(p)
    <3>1. src' \in Tree
      <4>1. CASE UNCHANGED src
        BY <4>1 DEF TypeOK
      <4>2. CASE ~Blocked(src, p)
        <5>1. MkParents(src, p) \in Tree
          BY <4>2, MkParentsIsTree DEF TypeOK
        <5>2. RemovePath(MkParents(src, p), p) \in Tree
          BY <5>1, RemoveIsTree
        <5>3. QED
          BY <2>4, <4>2, <5>1, <5>2 DEF InstallRefused
      <4>3. QED
        BY <2>4, <4>1, <4>2 DEF InstallRefused
    <3>2. QED
      BY <1>0, <1>1, <2>4, <3>1 DEF InstallRefused, EnterRollback, TypeOK, Phases, RollbackPhases
  <2>5. CASE Delete(p)
    <3>1. src' \in Tree
      BY <2>5, RemoveIsTree DEF Delete, TypeOK
    <3>2. QED
      BY <1>1, <2>5, <3>1 DEF Delete, TypeOK
  <2>6. QED
    BY <1>8, <2>1, <2>2, <2>3, <2>4, <2>5 DEF CommitStep
<1>9. CASE Rollback
  <2>1. CASE UndoRefused \/ UndoDone \/ RestoreRefused \/ RollbackDone
    BY <1>0, <2>1 DEF UndoRefused, UndoDone, RestoreRefused, RollbackDone, TypeOK, Phases,
      RollbackPhases, RestPhases, Present, Tree
  <2>2. ASSUME NEW p \in Path, Undo(p) PROVE TypeInv'
    <3>1. src' \in Tree
      BY <2>2, RemoveIsTree DEF Undo, TypeOK
    <3>2. QED
      BY <1>1, <2>2, <3>1 DEF Undo, TypeOK
  <2>3. ASSUME NEW p \in Path, Restore(p) PROVE TypeInv'
    <3>1. src' \in Tree
      BY <2>3, InstallIsTree DEF Restore, TypeOK
    <3>2. QED
      BY <1>1, <2>3, <3>1 DEF Restore, TypeOK
  <2>4. QED
    BY <1>9, <2>1, <2>2, <2>3 DEF Rollback
<1>10. CASE SnapshotFails \/ RollbackInterrupted \/ Kill
  BY <1>10 DEF SnapshotFails, RollbackInterrupted, Kill, TypeOK, Phases, RestPhases
<1>11. CASE Interrupt
  <2>1. src' \in Tree
    BY <1>11, ErasuresLeaveTree DEF Interrupt, TypeOK
  <2>2. QED
    BY <1>0, <1>1, <1>11, <2>1 DEF Interrupt, EnterRollback, TypeOK, Phases, RollbackPhases
<1>12. ASSUME NEW p \in Path, UserEdit(p) PROVE TypeInv'
  <2>1. PICK e \in Node \ {src[p]} :
          src' = IF e \in Dir /\ src[p] \in Dir THEN [src EXCEPT ![p] = e]
                 ELSE [RemovePath(src, p) EXCEPT ![p] = e]
    BY <1>12 DEF UserEdit
  <2>2. \A a \in Anc[p] : src[a] \in Dir
    BY <1>12 DEF UserEdit
  <2>3. src' \in Tree
    <3>1. CASE e \in Dir /\ src[p] \in Dir
      BY <2>1, <2>2, <3>1, PutIsTree DEF TypeOK
    <3>2. CASE ~(e \in Dir /\ src[p] \in Dir)
      <4>1. RemovePath(src, p) \in Tree
        BY RemoveIsTree DEF TypeOK
      <4>2. \A a \in Anc[p] : RemovePath(src, p)[a] \in Dir
        BY <2>2, TreeAssumption DEF RemovePath, Erase, Subtree, Below
      <4>3. \A q \in Below(p) : RemovePath(src, p)[q] = Absent
        BY DEF RemovePath, Erase, Subtree, Below
      <4>4. QED
        BY <2>1, <3>2, <4>1, <4>2, <4>3, PutIsTree
    <3>3. QED
      BY <3>1, <3>2
  <2>4. user' \in [Path -> Node \cup {Untouched}]
    BY <1>12, <2>3 DEF UserEdit, TypeOK, Tree
  <2>5. edits' \in 0..MaxEdits
    BY <1>12, RamAssumption DEF UserEdit, TypeOK
  <2>6. QED
    BY <1>1, <1>12, <2>3, <2>4, <2>5 DEF UserEdit, TypeOK
<1>13. CASE UNCHANGED vars
  BY <1>13 DEF vars, TypeOK
<1>14. QED
  BY <1>3, <1>4, <1>5, <1>6, <1>7, <1>8, <1>9, <1>10, <1>11, <1>12, <1>13 DEF Next, Finalizing

LEMMA InitTyped == Init => TypeInv
<1>1. EmptyTree \in Tree /\ NoCheckpoint \in Checkpoints
  BY DEF EmptyTree, Tree, Node, NoCheckpoint, Checkpoints
<1>2. Init => CheckpointOK
  BY DEF Init, CheckpointOK, NoCheckpoint, EmptyTree, Present
<1>3. Init => bak \in [Path -> Node] /\ user \in [Path -> Node \cup {Untouched}]
  BY DEF Init, EmptyTree, Node
<1>4. Init => sessions \in 0..MaxSessions /\ edits \in 0..MaxEdits
  BY RamAssumption DEF Init
<1>5. QED
  BY <1>1, <1>2, <1>3, <1>4, RamAssumption DEF Init, TypeInv, TypeOK, Phases

\* Type correctness: in every reachable state the user's directory, the isolated
\* copy and the baseline are trees, and the bounded counters within their bounds.
THEOREM TypeCorrect == Spec => []TypeOK
<1>1. Init => TypeInv
  BY InitTyped
<1>2. TypeInv /\ [Next]_vars => TypeInv'
  BY NextKeepsType
<1>3. TypeInv => TypeOK
  BY DEF TypeInv
<1>4. QED
  BY <1>1, <1>2, <1>3, PTL DEF Spec

--------------------------------------------------------------------------------
(* The inductive invariant behind ContentRecoverable.                         *)

\* Every loop visits paths the transaction knows.
TodoInv ==
  /\ pc \in CommitPhases \cup {"undo"} => todo \subseteq Affected
  /\ pc = "restore" => todo \subseteq Present(bak)

\* Up to the end of the backup the source is as it was checked.
UntouchedInv ==
  pc \in {"snapshot", "backup"} => ~secured /\ (~raced => src = pre)

\* The backup holds what the affected paths held, and only their parents besides.
BackupInv ==
  pc \in InTransaction /\ ~raced =>
    /\ \A p \in Affected :
         pre[p] # Absent /\ (secured \/ (pc = "backup" /\ p \notin todo)) => bak[p] = pre[p]
    /\ \A q \in Present(bak) :
         \/ q \in Affected
         \/ bak[q] \in Dir /\ \E r \in Affected : q \in Anc[r] /\ pre[r] # Absent

\* What is not affected and lies below nothing affected has not moved.
ReachInv ==
  pc \in InTransaction /\ ~raced /\ secured /\ NoBystanders(AffectedDirs) =>
    \A p \in Path \ Affected : pre[p] \in File \cup Link => src[p] = pre[p]

SafeInv ==
  TypeInv /\ CommitsOntoBaseline /\ TodoInv /\ UntouchedInv /\ BackupInv /\ ReachInv

\* The conflict check compares every affected path with the baseline, the skipped
\* ones by way of the file or symlink above them.
LEMMA GateIsSound ==
  ASSUME TypeInv, SourceUnchanged
  PROVE  \A p \in Affected : src[p] = base[p]
<1>1. ASSUME NEW p \in Affected, Shadowed(p) PROVE src[p] = base[p]
  <2>1. PICK a \in Anc[p] \cap Affected : base[a] \in File \cup Link /\ exec[a] \in Dir
    BY <1>1 DEF Shadowed
  <2>2. p \in Path /\ a \in Path /\ Anc[p] \subseteq Path
    BY <2>1, TreeAssumption DEF Affected, Changed, Deleted, ChangedIn, DeletedIn
  <2>3. base[a] \notin Dir /\ base[a] # Absent
    BY <2>1, TreeAssumption DEF Entry
  <2>4. ~Shadowed(a)
    <3>1. ASSUME NEW b \in Anc[a] PROVE base[b] \in Dir
      BY <2>2, <2>3, <3>1 DEF TypeInv, TypeOK, Tree
    <3>2. QED
      BY <3>1, TreeAssumption DEF Shadowed
  <2>5. src[a] = base[a]
    BY <2>1, <2>4 DEF SourceUnchanged, Inspected
  <2>6. src[p] = Absent /\ base[p] = Absent
    BY <2>1, <2>2, <2>3, <2>5 DEF TypeInv, TypeOK, Tree
  <2>7. QED
    BY <2>6
<1>2. QED
  BY <1>1 DEF SourceUnchanged, Inspected

\* Nothing that is not affected lies below an affected path.
LEMMA NothingBelow ==
  ASSUME TypeInv, NoBystanders(AffectedDirs), NEW q \in Affected,
         NEW p \in Path \ Affected, pre[p] \in File \cup Link
  PROVE  p \notin Subtree(q)
<1>1. SUFFICES ASSUME p \in Below(q) PROVE FALSE
  BY DEF Subtree
<1>2. p \in Present(pre) /\ pre[q] \in Dir
  BY <1>1, TreeAssumption DEF Below, Present, TypeInv, TypeOK, Tree, Entry
<1>3. QED
  BY <1>1, <1>2 DEF NoBystanders, AffectedDirs

LEMMA AffectedFrame ==
  ASSUME UNCHANGED <<exec, base, pre>>
  PROVE  /\ Affected' = Affected /\ AffectedDirs' = AffectedDirs
         /\ NoBystanders(AffectedDirs)' <=> NoBystanders(AffectedDirs)
<1>1. Affected' = Affected
  BY DEF Affected, Changed, Deleted, ChangedIn, DeletedIn
<1>2. QED
  BY <1>1 DEF AffectedDirs, NoBystanders, Present

\* The step of the conflict check, and the steps that start and end the backup.
LEMMA OpeningKeepsSafe ==
  ASSUME SafeInv, TypeInv', FinalizeStart \/ Snapshot \/ BackupDone \/ \E p \in Path : Backup(p)
  PROVE  SafeInv'
<1> USE DEF history
<1>1. CASE FinalizeStart
  <2>1. \A p \in Affected : src[p] = base[p]
    BY <1>1, GateIsSound DEF SafeInv, FinalizeStart
  <2>2. Affected' = Affected
    BY <1>1 DEF FinalizeStart, Affected, Changed, Deleted, ChangedIn, DeletedIn
  <2>3. CommitsOntoBaseline'
    BY <1>1, <2>1, <2>2 DEF FinalizeStart, CommitsOntoBaseline
  <2>4. QED
    BY <1>1, <2>3 DEF SafeInv, FinalizeStart, TodoInv, UntouchedInv, BackupInv, ReachInv,
      InTransaction, CommitPhases, RollbackPhases
<1>2. CASE Snapshot
  <2>1. Affected' = Affected
    BY <1>2, AffectedFrame DEF Snapshot
  <2>2. CommitsOntoBaseline'
    BY <1>2, <2>1 DEF SafeInv, Snapshot, CommitsOntoBaseline
  <2>3. TodoInv' /\ UntouchedInv' /\ ReachInv'
    BY <1>2, <2>1 DEF SafeInv, Snapshot, TodoInv, UntouchedInv, ReachInv
  <2>4. BackupInv'
    BY <1>2, <2>1 DEF SafeInv, Snapshot, UntouchedInv, BackupInv, EmptyTree, Present
  <2>5. QED
    BY <2>2, <2>3, <2>4 DEF SafeInv
<1>3. CASE BackupDone
  <2>1. Affected' = Affected /\ (NoBystanders(AffectedDirs)' <=> NoBystanders(AffectedDirs))
    BY <1>3, AffectedFrame DEF BackupDone
  <2>2. CommitsOntoBaseline'
    BY <1>3, <2>1 DEF SafeInv, BackupDone, CommitsOntoBaseline, InTransaction, CommitPhases
  <2>3. TodoInv'
    BY <1>3, <2>1 DEF BackupDone, TodoInv, ChangedDirs, Affected
  <2>4. UntouchedInv' /\ ReachInv'
    BY <1>3, <2>1 DEF SafeInv, BackupDone, UntouchedInv, ReachInv
  <2>5. BackupInv'
    BY <1>3, <2>1 DEF SafeInv, BackupDone, BackupInv, InTransaction, CommitPhases, Present
  <2>6. QED
    BY <2>2, <2>3, <2>4, <2>5 DEF SafeInv
<1>4. ASSUME NEW p \in Path, Backup(p) PROVE SafeInv'
  <2>1. Affected' = Affected
    BY <1>4, AffectedFrame DEF Backup
  <2>2. CommitsOntoBaseline'
    BY <1>4, <2>1 DEF SafeInv, Backup, CommitsOntoBaseline
  <2>3. TodoInv' /\ UntouchedInv' /\ ReachInv'
    BY <1>4, <2>1 DEF SafeInv, Backup, TodoInv, UntouchedInv, ReachInv, CommitPhases
  <2>4. BackupInv'
    <3>1. SUFFICES ASSUME ~raced PROVE BackupInv'
      BY <1>4 DEF Backup, BackupInv
    <3>2. src = pre /\ ~secured /\ p \in Affected /\ pc = "backup" /\ pc \in InTransaction
      BY <1>4, <3>1 DEF SafeInv, UntouchedInv, TodoInv, Backup, ShallowFirst, CommitPhases,
        InTransaction
    <3>3. ASSUME NEW r \in Affected, pre[r] # Absent, r \notin todo' PROVE bak'[r] = pre[r]
      <4>1. r \in Path /\ bak \in [Path -> Node]
        BY <3>3 DEF Affected, Changed, Deleted, ChangedIn, DeletedIn, SafeInv, TypeInv, TypeOK
      <4>2. CASE r = p
        BY <1>4, <3>2, <3>3, <4>1, <4>2 DEF Backup, MkParents
      <4>3. CASE r # p
        <5>1. bak[r] = pre[r]
          BY <1>4, <3>1, <3>2, <3>3, <4>3 DEF SafeInv, BackupInv, Backup
        <5>2. QED
          BY <1>4, <3>3, <4>1, <4>3, <5>1 DEF Backup, MkParents
      <4>4. QED
        BY <4>2, <4>3
    <3>4. ASSUME NEW q \in Present(bak)', q \notin Affected
          PROVE  bak'[q] \in Dir /\ \E r \in Affected : q \in Anc[r] /\ pre[r] # Absent
      <4>1. q \in Path /\ q # p /\ bak \in [Path -> Node]
        BY <3>2, <3>4 DEF Present, SafeInv, TypeInv, TypeOK
      <4>2. CASE bak[q] # Absent
        <5>1. bak[q] \in Dir /\ \E r \in Affected : q \in Anc[r] /\ pre[r] # Absent
          BY <3>1, <3>2, <3>4, <4>1, <4>2 DEF SafeInv, BackupInv, Present
        <5>2. bak'[q] = bak[q]
          BY <1>4, <4>1, <4>2 DEF Backup, MkParents
        <5>3. QED
          BY <5>1, <5>2
      <4>3. CASE bak[q] = Absent
        BY <1>4, <3>2, <3>4, <4>1, <4>3, TreeAssumption DEF Backup, MkParents, Present
      <4>4. QED
        BY <4>2, <4>3
    <3>5. QED
      BY <1>4, <2>1, <3>2, <3>3, <3>4 DEF Backup, BackupInv
  <2>5. QED
    BY <2>2, <2>3, <2>4 DEF SafeInv
<1>5. QED
  BY <1>1, <1>2, <1>3, <1>4

\* At rest, and while the agent works, the invariant asks nothing.
LEMMA RestIsSafe ==
  ASSUME TypeInv', pc' \in {"idle", "open", "direct", "refused", "committed", "rolledback"}
  PROVE  SafeInv'
  BY DEF SafeInv, CommitsOntoBaseline, TodoInv, UntouchedInv, BackupInv, ReachInv,
    InTransaction, CommitPhases, RollbackPhases

\* A step inside the transaction that leaves the candidate, the backup and what
\* lies outside the affected set alone.
Spares ==
  (pc # "backup" /\ NoBystanders(AffectedDirs)) =>
    \A p \in Path \ Affected : pre[p] \in File \cup Link /\ src[p] = pre[p] => src'[p] = pre[p]

LEMMA TransactionStepIsSafe ==
  ASSUME SafeInv, TypeInv', TodoInv', Spares,
         pc \in InTransaction, pc' \in InTransaction \ {"backup"},
         UNCHANGED <<exec, base, bak, pre, raced, secured>>
  PROVE  SafeInv'
<1>1. Affected' = Affected /\ (NoBystanders(AffectedDirs)' <=> NoBystanders(AffectedDirs))
  BY AffectedFrame
<1>2. CommitsOntoBaseline'
  BY <1>1 DEF SafeInv, CommitsOntoBaseline
<1>3. UntouchedInv'
  BY DEF UntouchedInv, InTransaction, CommitPhases, RollbackPhases
<1>4. BackupInv'
  BY <1>1 DEF SafeInv, BackupInv, Present
<1>5. ReachInv'
  <2>1. pc = "backup" => ~secured
    BY DEF SafeInv, UntouchedInv
  <2>2. QED
    BY <1>1, <2>1 DEF SafeInv, ReachInv, Spares
<1>6. QED
  BY <1>2, <1>3, <1>4, <1>5 DEF SafeInv

\* A removal, whole or cut short, inside an affected subtree.
LEMMA RemovalSpares ==
  ASSUME TypeInv, NEW q \in Affected, NEW gone \in SUBSET Subtree(q),
         src' = Erase(src, gone)
  PROVE  Spares
<1>1. ASSUME NoBystanders(AffectedDirs), NEW p \in Path \ Affected,
             pre[p] \in File \cup Link, src[p] = pre[p]
      PROVE  src'[p] = pre[p]
  <2>1. p \notin gone
    BY <1>1, NothingBelow
  <2>2. QED
    BY <1>1, <2>1 DEF Erase
<1>2. QED
  BY <1>1 DEF Spares

\* An install at an affected path, or of a directory at the parent of one.
LEMMA InstallKeepsOutside ==
  ASSUME TypeInv, NEW q \in Path, NEW e \in Node, src' = Install(src, q, e),
         q \in Affected \/ (e \in Dir /\ pre[q] \in Dir)
  PROVE  Spares
<1>1. ASSUME NoBystanders(AffectedDirs), NEW p \in Path \ Affected,
             pre[p] \in File \cup Link, src[p] = pre[p]
      PROVE  src'[p] = pre[p]
  <2>1. src[p] # Absent /\ p # q /\ pre[p] \notin Dir
    BY <1>1, TreeAssumption DEF Entry
  <2>2. p \notin Below(q) \/ e \in Dir
    BY <1>1, NothingBelow DEF Subtree
  <2>3. src \in Tree
    BY DEF TypeInv, TypeOK
  <2>4. Install(src, q, e)[p] = src[p]
    BY <2>1, <2>2, <2>3, InstallSpares
  <2>5. QED
    BY <1>1, <2>4
<1>2. QED
  BY <1>1 DEF Spares

\* Every way into the rollback visits exactly the affected paths.
LEMMA EnterRollbackIsSafe ==
  ASSUME SafeInv, TypeInv', Spares, pc \in CommitPhases, EnterRollback
  PROVE  SafeInv'
<1>1. Affected' = Affected
  BY AffectedFrame DEF EnterRollback, history
<1>2. TodoInv'
  BY <1>1 DEF EnterRollback, TodoInv
<1>3. QED
  BY <1>2, TransactionStepIsSafe DEF EnterRollback, history, InTransaction, CommitPhases,
    RollbackPhases

\* The steps that touch the source.
LEMMA SourceStepIsSafe ==
  ASSUME SafeInv, TypeInv', NEW p \in Path,
         \/ InstallDir(p) \/ InstallLeaf(p) \/ InstallRefused(p)
         \/ Delete(p) \/ Undo(p) \/ Restore(p)
  PROVE  SafeInv'
<1> DEFINE Loop == InstallDir(p) \/ InstallLeaf(p) \/ Delete(p) \/ Undo(p)
<1>1. TypeInv /\ exec \in [Path -> Node] /\ bak \in [Path -> Node] /\ src \in [Path -> Node]
  BY DEF SafeInv, TypeInv, TypeOK, Tree
<1>2. CASE Loop
  <2>1. p \in Affected
    BY <1>2 DEF SafeInv, TodoInv, InstallDir, InstallLeaf, Delete, Undo, ShallowFirst,
      DeepestFirst, CommitPhases
  <2>2. Spares
    <3>1. CASE src' = Install(src, p, exec[p])
      BY <1>1, <2>1, <3>1, InstallKeepsOutside
    <3>2. CASE src' = RemovePath(src, p)
      BY <1>1, <2>1, <3>2, RemovalSpares DEF RemovePath
    <3>3. CASE src' = src
      BY <3>3 DEF Spares
    <3>4. QED
      BY <1>2, <3>1, <3>2, <3>3 DEF InstallDir, InstallLeaf, Delete, Undo
  <2>3. UNCHANGED <<exec, base, bak, pre, raced, secured, pc>> /\ todo' = todo \ {p}
    BY <1>2 DEF InstallDir, InstallLeaf, Delete, Undo, history
  <2>4. pc \in {"dirs", "leaves", "deletes", "undo"}
    BY <1>2 DEF InstallDir, InstallLeaf, Delete, Undo
  <2>5. TodoInv'
    BY <2>3, <2>4, AffectedFrame DEF SafeInv, TodoInv, CommitPhases
  <2>6. QED
    BY <2>2, <2>3, <2>4, <2>5, TransactionStepIsSafe DEF InTransaction, CommitPhases,
      RollbackPhases
<1>3. CASE InstallRefused(p)
  <2>1. p \in Affected
    BY <1>3 DEF SafeInv, TodoInv, InstallRefused, ShallowFirst, CommitPhases
  <2>2. Spares
    <3>1. CASE src' = src
      BY <3>1 DEF Spares
    <3>2. ASSUME src' \in {MkParents(src, p), RemovePath(MkParents(src, p), p)} PROVE Spares
      <4>1. ASSUME NoBystanders(AffectedDirs), NEW q \in Path \ Affected,
                   pre[q] \in File \cup Link, src[q] = pre[q]
            PROVE  src'[q] = pre[q]
        <5>1. src[q] # Absent /\ q \notin Subtree(p)
          BY <1>1, <2>1, <4>1, NothingBelow, TreeAssumption DEF Entry
        <5>2. QED
          BY <3>2, <4>1, <5>1 DEF MkParents, RemovePath, Erase
      <4>2. QED
        BY <4>1 DEF Spares
    <3>3. QED
      BY <1>3, <3>1, <3>2 DEF InstallRefused
  <2>3. QED
    BY <1>3, <2>2, EnterRollbackIsSafe DEF InstallRefused, CommitPhases
<1>4. CASE Restore(p)
  <2>1. bak[p] \in Node /\ p \in Present(bak) /\ pc = "restore" /\ pc \in InTransaction
    BY <1>1, <1>4 DEF SafeInv, TodoInv, Restore, ShallowFirst, InTransaction, RollbackPhases
  <2>2. CASE ~raced
    <3>1. p \in Affected \/ (bak[p] \in Dir /\ \E r \in Affected : p \in Anc[r] /\ pre[r] # Absent)
      BY <2>1, <2>2 DEF SafeInv, BackupInv
    <3>2. ASSUME NEW r \in Affected, p \in Anc[r], pre[r] # Absent PROVE pre[p] \in Dir
      <4>1. r \in Path
        BY DEF Affected, Changed, Deleted, ChangedIn, DeletedIn
      <4>2. QED
        BY <1>1, <3>2, <4>1 DEF TypeInv, TypeOK, Tree
    <3>3. Spares
      BY <1>1, <1>4, <2>1, <3>1, <3>2, InstallKeepsOutside DEF Restore
    <3>4. TodoInv'
      BY <1>4 DEF SafeInv, TodoInv, Restore, Present, CommitPhases
    <3>5. QED
      BY <1>4, <2>1, <3>3, <3>4, TransactionStepIsSafe DEF Restore, history
  <2>3. CASE raced
    BY <1>4, <2>3, AffectedFrame DEF SafeInv, Restore, history, CommitsOntoBaseline, TodoInv,
      UntouchedInv, BackupInv, ReachInv, Present, CommitPhases
  <2>4. QED
    BY <2>2, <2>3
<1>5. QED
  BY <1>2, <1>3, <1>4

\* The steps that only move from one loop to the next, or stop.
LEMMA TurnIsSafe ==
  ASSUME SafeInv, TypeInv',
         \/ DirsDone \/ LeavesDone \/ DeletesDone \/ UndoDone
         \/ UndoRefused \/ RestoreRefused \/ RollbackInterrupted \/ Kill
  PROVE  SafeInv'
<1> USE DEF InTransaction, CommitPhases, RollbackPhases, history
<1>1. Spares
  BY DEF Spares, DirsDone, LeavesDone, DeletesDone, UndoDone, UndoRefused, RestoreRefused,
    RollbackInterrupted, Kill
<1>2. UNCHANGED <<exec, base, bak, pre, raced, secured>>
  BY DEF DirsDone, LeavesDone, DeletesDone, UndoDone, UndoRefused, RestoreRefused,
    RollbackInterrupted, Kill
<1>3. pc \in InTransaction /\ pc' \in InTransaction \ {"backup"}
  BY DEF DirsDone, LeavesDone, DeletesDone, UndoDone, UndoRefused, RestoreRefused,
    RollbackInterrupted, Kill
<1>4. TodoInv'
  <2>1. Affected' = Affected
    BY <1>2, AffectedFrame
  <2>2. CASE DirsDone \/ LeavesDone \/ DeletesDone
    BY <2>1, <2>2 DEF SafeInv, TodoInv, DirsDone, LeavesDone, DeletesDone, Affected, ChangedDirs
  <2>3. CASE UndoDone \/ UndoRefused \/ RestoreRefused \/ RollbackInterrupted \/ Kill
    BY <2>1, <2>3 DEF TodoInv, UndoDone, UndoRefused, RestoreRefused, RollbackInterrupted, Kill
  <2>4. QED
    BY <2>2, <2>3
<1>5. QED
  BY <1>1, <1>2, <1>3, <1>4, TransactionStepIsSafe

LEMMA NextIsSafe ==
  ASSUME SafeInv, [Next]_vars
  PROVE  SafeInv'
<1> USE DEF history
<1>0. TypeInv'
  BY NextKeepsType DEF SafeInv
<1>1. CASE Prepare \/ Work \/ Preserve \/ FinalizeNothing \/ FinalizeConflict
             \/ SnapshotFails \/ CommitDone \/ RollbackDone
  <2>1. pc' \in {"idle", "open", "direct", "refused", "committed", "rolledback"}
    BY <1>1 DEF Prepare, OpenFresh, OpenResumed, OpenDirect, Work, Preserve, FinalizeNothing,
      FinalizeConflict, SnapshotFails, CommitDone, RollbackDone
  <2>2. QED
    BY <1>0, <2>1, RestIsSafe
<1>2. CASE FinalizeStart \/ Snapshot \/ BackupDone \/ \E p \in Path : Backup(p)
  BY <1>0, <1>2, OpeningKeepsSafe
<1>3. ASSUME NEW p \in Path,
             \/ InstallDir(p) \/ InstallLeaf(p) \/ InstallRefused(p)
             \/ Delete(p) \/ Undo(p) \/ Restore(p)
      PROVE  SafeInv'
  BY <1>0, <1>3, SourceStepIsSafe
<1>4. CASE DirsDone \/ LeavesDone \/ DeletesDone \/ UndoDone
             \/ UndoRefused \/ RestoreRefused \/ RollbackInterrupted \/ Kill
  BY <1>0, <1>4, TurnIsSafe
<1>5. CASE ReadBackFails \/ \E p \in Path : BackupFails(p) \/ DeleteRefused(p)
  <2>1. UNCHANGED src /\ pc \in CommitPhases /\ EnterRollback
    BY <1>5 DEF ReadBackFails, BackupFails, DeleteRefused, CommitPhases
  <2>2. QED
    BY <1>0, <2>1, EnterRollbackIsSafe DEF Spares
<1>6. CASE Interrupt
  <2>1. CASE UNCHANGED src
    BY <1>0, <1>6, <2>1, EnterRollbackIsSafe DEF Spares, Interrupt
  <2>2. ASSUME NEW p \in todo, NEW gone \in Erasures(src, p), src' = Erase(src, gone)
        PROVE  SafeInv'
    <3>1. p \in Affected /\ gone \in SUBSET Subtree(p)
      BY <1>6, <2>2 DEF SafeInv, TodoInv, Interrupt, Erasures
    <3>2. Spares
      BY <2>2, <3>1, RemovalSpares DEF SafeInv
    <3>3. QED
      BY <1>0, <1>6, <3>2, EnterRollbackIsSafe DEF Interrupt
  <2>3. QED
    BY <1>6, <2>1, <2>2 DEF Interrupt
<1>7. ASSUME NEW p \in Path, UserEdit(p) PROVE SafeInv'
  <2>1. Affected' = Affected
    BY <1>7, AffectedFrame DEF UserEdit
  <2>2. CommitsOntoBaseline' /\ TodoInv'
    BY <1>7, <2>1 DEF SafeInv, UserEdit, CommitsOntoBaseline, TodoInv, Present
  <2>3. UntouchedInv' /\ BackupInv' /\ ReachInv'
    BY <1>7 DEF SafeInv, UserEdit, UntouchedInv, BackupInv, ReachInv
  <2>4. QED
    BY <1>0, <2>2, <2>3 DEF SafeInv
<1>8. CASE UNCHANGED vars
  <2>1. Affected' = Affected /\ (NoBystanders(AffectedDirs)' <=> NoBystanders(AffectedDirs))
    BY <1>8, AffectedFrame DEF vars
  <2>2. CommitsOntoBaseline' /\ TodoInv' /\ UntouchedInv'
    BY <1>8, <2>1 DEF SafeInv, vars, CommitsOntoBaseline, TodoInv, UntouchedInv, Present
  <2>3. BackupInv' /\ ReachInv'
    BY <1>8, <2>1 DEF SafeInv, vars, BackupInv, ReachInv, Present
  <2>4. QED
    BY <1>0, <2>2, <2>3 DEF SafeInv
<1>9. QED
  BY <1>1, <1>2, <1>3, <1>4, <1>5, <1>6, <1>7, <1>8
    DEF Next, Gate, Finalizing, CommitTurn, CommitStep, Rollback

LEMMA SafeAlways == Spec => []SafeInv
<1>1. Init => SafeInv
  <2>1. Init => TypeInv
    BY InitTyped
  <2>2. Init => CommitsOntoBaseline /\ TodoInv /\ UntouchedInv /\ BackupInv /\ ReachInv
    BY DEF Init, CommitsOntoBaseline, TodoInv, UntouchedInv, BackupInv, ReachInv,
      InTransaction, CommitPhases, RollbackPhases
  <2>3. QED
    BY <2>1, <2>2 DEF SafeInv
<1>2. SafeInv /\ [Next]_vars => SafeInv'
  BY NextIsSafe
<1>3. QED
  BY <1>1, <1>2, PTL DEF Spec

\* The paths the conflict check does not compare (the children of a replaced
\* file or symlink) cannot differ: every path the commit will touch was at its
\* baseline when the check passed.
THEOREM GateIsComplete == Spec => []CommitsOntoBaseline
<1>1. SafeInv => CommitsOntoBaseline
  BY DEF SafeInv
<1>2. QED
  BY <1>1, SafeAlways, PTL

\* Whatever step fails, and wherever a kill or a failed rollback stops the
\* transaction, no file or symlink of the user is lost from both the source and
\* the backup.
THEOREM NothingIsLost == Spec => []ContentRecoverable
<1>1. SafeInv => ContentRecoverable
  <2>1. SUFFICES ASSUME SafeInv, pc \in InTransaction, ~raced, secured \/ pc = "backup",
                        NoBystanders(AffectedDirs), NEW p \in Path, pre[p] \in File \cup Link
                 PROVE  pre[p] \in {src[p], bak[p]}
    BY DEF ContentRecoverable
  <2>2. pre[p] # Absent
    BY <2>1, TreeAssumption DEF Entry
  <2>3. CASE ~secured
    BY <2>1, <2>3 DEF SafeInv, UntouchedInv
  <2>4. CASE secured /\ p \in Affected
    BY <2>1, <2>2, <2>4 DEF SafeInv, BackupInv
  <2>5. CASE secured /\ p \notin Affected
    BY <2>1, <2>5 DEF SafeInv, ReachInv
  <2>6. QED
    BY <2>3, <2>4, <2>5
<1>2. QED
  BY <1>1, SafeAlways, PTL
--------------------------------------------------------------------------------
(* The inductive invariant behind UnrelatedEditsSurvive.                      *)

\* Out of the reach of the delta: not affected, nor above or below what is.
Apart(p) == (Subtree(p) \cup Anc[p]) \cap Affected = {}

\* Before the first step of the commit proper nothing of the run has touched the source.
Unwritten == {"open", "snapshot", "backup"}

KeepsEdits ==
  \A p \in Path : user[p] # Untouched /\ (pc \in Unwritten \/ Apart(p)) => src[p] = user[p]

\* Whoever edits meanwhile, the backup holds affected paths and their parents.
BackupReach ==
  pc \in InTransaction =>
    \A q \in Present(bak) : q \in Affected \/ (bak[q] \in Dir /\ \E r \in Affected : q \in Anc[r])

EditInv == SafeInv /\ KeepsEdits /\ BackupReach

\* What an install can change: the target, what lies below it unless it becomes a
\* directory, and its parents.
LEMMA InstallReach ==
  ASSUME NEW t \in Tree, NEW p \in Path, NEW e \in Node, NEW q \in Path,
         q # p, q \notin Anc[p], q \notin Below(p) \/ e \in Dir
  PROVE  Install(t, p, e)[q] = t[q]
<1>1. CASE e \in Dir
  BY <1>1 DEF Install, MkParents, Tree
<1>2. CASE e \notin Dir
  BY <1>2 DEF Install, MkParents, RemovePath, Erase, Subtree, Tree
<1> QED BY <1>1, <1>2

\* What is apart from the affected paths is neither below nor above one of them.
LEMMA ApartFromAffected ==
  ASSUME NEW p \in Path, Apart(p), NEW r \in Affected
  PROVE  r \in Path /\ p # r /\ p \notin Anc[r] /\ p \notin Below(r) /\ r \notin Anc[p]
<1>1. r \in Path
  BY DEF Affected, Changed, Deleted, ChangedIn, DeletedIn
<1>2. r \notin Subtree(p) /\ r \notin Anc[p]
  BY DEF Apart
<1> QED BY <1>1, <1>2 DEF Subtree, Below

\* A step of the commit or the rollback leaves alone what is apart from the delta.
LEMMA StepsKeepApart ==
  ASSUME EditInv, NEW p \in Path, Apart(p),
         Interrupt \/ \E q \in Path : InstallDir(q) \/ InstallLeaf(q) \/ InstallRefused(q)
                                        \/ Delete(q) \/ Undo(q) \/ Restore(q)
  PROVE  src'[p] = src[p]
<1>1. src \in Tree /\ src \in [Path -> Node] /\ exec \in [Path -> Node] /\ bak \in [Path -> Node]
  BY DEF EditInv, SafeInv, TypeInv, TypeOK, Tree
<1>2. pc \in CommitPhases \cup {"undo"} => todo \subseteq Affected
  BY DEF EditInv, SafeInv, TodoInv
<1>3. CASE Interrupt
  <2>1. CASE UNCHANGED src
    BY <2>1
  <2>2. ASSUME NEW q \in todo, NEW gone \in Erasures(src, q), src' = Erase(src, gone)
        PROVE  src'[p] = src[p]
    <3>1. q \in Affected /\ gone \subseteq Subtree(q)
      BY <1>2, <1>3 DEF Interrupt, Erasures
    <3>2. p \notin gone
      BY <3>1, ApartFromAffected DEF Subtree
    <3> QED BY <2>2, <3>2 DEF Erase
  <2> QED BY <1>3, <2>1, <2>2 DEF Interrupt
<1>4. ASSUME NEW q \in Path, InstallDir(q) \/ InstallLeaf(q)
      PROVE  src'[p] = src[p]
  <2>1. q \in Affected /\ src' = Install(src, q, exec[q])
    BY <1>2, <1>4 DEF InstallDir, InstallLeaf, ShallowFirst, CommitPhases
  <2> QED BY <1>1, <2>1, ApartFromAffected, InstallReach
<1>5. ASSUME NEW q \in Path, InstallRefused(q)
      PROVE  src'[p] = src[p]
  <2>1. q \in Affected
    BY <1>2, <1>5 DEF InstallRefused, ShallowFirst, CommitPhases
  <2>2. src' \in {src, MkParents(src, q), RemovePath(MkParents(src, q), q)}
    BY <1>5 DEF InstallRefused
  <2>3. p # q /\ p \notin Anc[q] /\ p \notin Below(q)
    BY <2>1, ApartFromAffected
  <2> QED BY <2>2, <2>3 DEF MkParents, RemovePath, Erase, Subtree
<1>6. ASSUME NEW q \in Path, Delete(q) \/ Undo(q)
      PROVE  src'[p] = src[p]
  <2>1. q \in Affected /\ src' \in {src, RemovePath(src, q)}
    BY <1>2, <1>6 DEF Delete, Undo, DeepestFirst, CommitPhases
  <2>2. p # q /\ p \notin Below(q)
    BY <2>1, ApartFromAffected
  <2> QED BY <2>1, <2>2 DEF RemovePath, Erase, Subtree
<1>7. ASSUME NEW q \in Path, Restore(q)
      PROVE  src'[p] = src[p]
  <2>1. q \in Present(bak) /\ bak[q] \in Node /\ src' = Install(src, q, bak[q])
    BY <1>1, <1>7 DEF EditInv, SafeInv, TodoInv, Restore, ShallowFirst
  <2>2. CASE q \in Affected
    BY <1>1, <2>1, <2>2, ApartFromAffected, InstallReach
  <2>3. ASSUME NEW r \in Affected, q \in Anc[r], bak[q] \in Dir PROVE src'[p] = src[p]
    <3>1. r \in Path /\ p # r /\ p \notin Anc[r]
      BY ApartFromAffected
    <3>2. p # q /\ p \notin Anc[q]
      BY <2>3, <3>1, TreeAssumption
    <3> QED BY <1>1, <2>1, <2>3, <3>2, InstallReach
  <2>4. q \in Affected \/ (bak[q] \in Dir /\ \E r \in Affected : q \in Anc[r])
    BY <1>7, <2>1 DEF EditInv, BackupReach, Restore, InTransaction, RollbackPhases
  <2> QED BY <2>2, <2>3, <2>4
<1> QED BY <1>3, <1>4, <1>5, <1>6, <1>7

LEMMA BackupReachStays ==
  ASSUME EditInv, [Next]_vars
  PROVE  BackupReach'
<1> USE DEF history
<1>1. CASE UNCHANGED <<exec, base, bak>> /\ (pc' \in InTransaction => pc \in InTransaction)
  <2>1. Affected' = Affected
    BY <1>1 DEF Affected, Changed, Deleted, ChangedIn, DeletedIn
  <2> QED BY <1>1, <2>1 DEF EditInv, BackupReach, Present
<1>2. CASE Snapshot
  BY <1>2 DEF Snapshot, BackupReach, Present, EmptyTree
<1>3. ASSUME NEW p \in Path, Backup(p) PROVE BackupReach'
  <2>1. Affected' = Affected /\ p \in Affected /\ pc \in InTransaction
    BY <1>3, AffectedFrame DEF Backup, EditInv, SafeInv, TodoInv, ShallowFirst, InTransaction,
      CommitPhases
  <2>2. ASSUME NEW q \in Present(bak)', q \notin Affected
        PROVE  bak'[q] \in Dir /\ \E r \in Affected : q \in Anc[r]
    <3>1. q \in Path /\ q # p /\ bak \in [Path -> Node]
      BY <2>1, <2>2 DEF Present, EditInv, SafeInv, TypeInv, TypeOK
    <3>2. CASE bak[q] # Absent
      <4>1. bak[q] \in Dir /\ \E r \in Affected : q \in Anc[r]
        BY <2>1, <2>2, <3>1, <3>2 DEF EditInv, BackupReach, Present
      <4>2. bak'[q] = bak[q]
        BY <1>3, <3>1, <3>2 DEF Backup, MkParents
      <4> QED BY <4>1, <4>2
    <3>3. CASE bak[q] = Absent
      BY <1>3, <2>1, <2>2, <3>1, <3>3, TreeAssumption DEF Backup, MkParents, Present
    <3> QED BY <3>2, <3>3
  <2> QED BY <2>1, <2>2 DEF BackupReach
<1>4. CASE Prepare \/ Work \/ Preserve \/ Gate \/ SnapshotFails \/ CommitDone \/ RollbackDone
  <2>1. pc' \notin InTransaction
    BY <1>4 DEF Prepare, OpenFresh, OpenResumed, OpenDirect, Work, Preserve, Gate,
      FinalizeNothing, FinalizeConflict, FinalizeStart, SnapshotFails, CommitDone, RollbackDone,
      InTransaction, CommitPhases, RollbackPhases
  <2> QED BY <2>1 DEF BackupReach
<1>5. CASE \/ BackupDone \/ DirsDone \/ LeavesDone \/ DeletesDone \/ ReadBackFails \/ Interrupt
           \/ UndoRefused \/ UndoDone \/ RestoreRefused \/ RollbackInterrupted \/ Kill
  <2>1. UNCHANGED <<exec, base, bak>> /\ pc \in InTransaction
    BY <1>5 DEF BackupDone, DirsDone, LeavesDone, DeletesDone, ReadBackFails, Interrupt,
      UndoRefused, UndoDone, RestoreRefused, RollbackInterrupted, Kill, EnterRollback,
      InTransaction, CommitPhases, RollbackPhases
  <2> QED BY <1>1, <2>1
<1>6. ASSUME NEW p \in Path,
             \/ BackupFails(p) \/ InstallDir(p) \/ InstallLeaf(p) \/ InstallRefused(p)
             \/ Delete(p) \/ DeleteRefused(p) \/ Undo(p) \/ Restore(p) \/ UserEdit(p)
      PROVE  BackupReach'
  <2>1. UNCHANGED <<exec, base, bak>> /\ (pc' \in InTransaction => pc \in InTransaction)
    BY <1>6 DEF BackupFails, InstallDir, InstallLeaf, InstallRefused, Delete, DeleteRefused,
      Undo, Restore, UserEdit, EnterRollback, InTransaction, CommitPhases, RollbackPhases
  <2> QED BY <1>1, <2>1
<1>7. CASE UNCHANGED vars
  BY <1>1, <1>7 DEF vars
<1> QED BY <1>2, <1>3, <1>4, <1>5, <1>6, <1>7
    DEF Next, Finalizing, CommitTurn, CommitStep, Rollback

LEMMA EditsStay ==
  ASSUME EditInv, [Next]_vars
  PROVE  KeepsEdits'
<1> USE DEF history
\* A step of the run that leaves the candidate alone and spares what is apart.
<1>1. ASSUME UNCHANGED <<exec, base, user>>, pc' \notin Unwritten \/ pc \in Unwritten,
             src' = src \/ (pc' \notin Unwritten /\ \A p \in Path : Apart(p) => src'[p] = src[p])
      PROVE  KeepsEdits'
  <2>1. Affected' = Affected
    BY <1>1 DEF Affected, Changed, Deleted, ChangedIn, DeletedIn
  <2>2. \A p : Apart(p)' <=> Apart(p)
    BY <2>1 DEF Apart
  <2> QED BY <1>1, <2>2 DEF EditInv, KeepsEdits
<1>2. CASE OpenFresh \/ OpenResumed
  BY <1>2 DEF OpenFresh, OpenResumed, KeepsEdits
<1>3. CASE OpenDirect \/ Preserve \/ Gate \/ SnapshotFails \/ CommitTurn
           \/ UndoRefused \/ UndoDone \/ RestoreRefused \/ RollbackDone
           \/ RollbackInterrupted \/ Kill
  <2>1. UNCHANGED <<src, exec, base, user>> /\ (pc' \notin Unwritten \/ pc \in Unwritten)
    BY <1>3 DEF OpenDirect, Preserve, Gate, FinalizeNothing, FinalizeConflict, FinalizeStart,
      SnapshotFails, CommitTurn, Snapshot, BackupDone, DirsDone, LeavesDone, DeletesDone,
      CommitDone, ReadBackFails, UndoRefused, UndoDone, RestoreRefused, RollbackDone,
      RollbackInterrupted, Kill, EnterRollback, Unwritten
  <2> QED BY <1>1, <2>1
<1>4. CASE Work
  BY <1>4 DEF Work, EditInv, KeepsEdits, Unwritten
<1>5. ASSUME NEW p \in Path, Backup(p) \/ BackupFails(p) \/ DeleteRefused(p)
      PROVE  KeepsEdits'
  <2>1. UNCHANGED <<src, exec, base, user>> /\ (pc' \notin Unwritten \/ pc \in Unwritten)
    BY <1>5 DEF Backup, BackupFails, DeleteRefused, EnterRollback, Unwritten
  <2> QED BY <1>1, <2>1
<1>6. CASE Interrupt \/ \E q \in Path : InstallDir(q) \/ InstallLeaf(q) \/ InstallRefused(q)
                                        \/ Delete(q) \/ Undo(q) \/ Restore(q)
  <2>1. UNCHANGED <<exec, base, user>> /\ pc' \notin Unwritten
    BY <1>6 DEF Interrupt, InstallDir, InstallLeaf, InstallRefused, Delete, Undo, Restore,
      EnterRollback, Unwritten
  <2>2. \A p \in Path : Apart(p) => src'[p] = src[p]
    BY <1>6, StepsKeepApart
  <2> QED BY <1>1, <2>1, <2>2
<1>7. ASSUME NEW p \in Path, UserEdit(p) PROVE KeepsEdits'
  <2>1. Affected' = Affected /\ pc' = pc
    BY <1>7, AffectedFrame DEF UserEdit
  <2>2. user' = [q \in Path |-> IF src'[q] # src[q] THEN src'[q] ELSE user[q]]
    BY <1>7 DEF UserEdit
  <2>3. \A q : Apart(q)' <=> Apart(q)
    BY <2>1 DEF Apart
  <2> QED BY <2>1, <2>2, <2>3 DEF EditInv, KeepsEdits
<1>8. CASE UNCHANGED vars
  BY <1>1, <1>8 DEF vars
<1> QED BY <1>2, <1>3, <1>4, <1>5, <1>6, <1>7, <1>8
    DEF Next, Prepare, Finalizing, CommitStep, Rollback

\* What someone else writes apart from the delta stays, whatever the run does: neither
\* the commit, nor the rollback, nor a removal cut short reverts it.
THEOREM EditsSurvive == Spec => []UnrelatedEditsSurvive
<1>1. Init => KeepsEdits /\ BackupReach
  BY DEF Init, KeepsEdits, BackupReach, InTransaction, CommitPhases, RollbackPhases
<1>2. EditInv /\ [Next]_vars => KeepsEdits' /\ BackupReach'
  BY EditsStay, BackupReachStays
<1>3. EditInv <=> SafeInv /\ KeepsEdits /\ BackupReach
  BY DEF EditInv
<1>4. KeepsEdits => UnrelatedEditsSurvive
  BY DEF KeepsEdits, UnrelatedEditsSurvive, Apart
<1> QED BY <1>1, <1>2, <1>3, <1>4, SafeAlways, PTL DEF Spec
--------------------------------------------------------------------------------
(* The inductive invariant behind OutcomeIsExact.                             *)

\* What no step of the transaction may move.
Standing == \A q \in Path \ Affected : src[q] = pre[q]

\* The parents an install could make were there when the check passed.
ParentsStand ==
  pc \in {"snapshot"} \cup InTransaction =>
    \A p \in Changed : \A a \in Anc[p] \ Affected : pre[a] \in Dir

LoopKinds ==
  /\ pc \in {"dirs", "leaves"} => todo \subseteq Changed
  /\ pc = "deletes" => todo \subseteq Deleted

\* The backup holds no affected path that was not there, and of the others only
\* directories it made for itself.
BackupExact ==
  pc \in InTransaction /\ ~raced =>
    \A q \in Present(bak) : IF q \in Affected THEN pre[q] # Absent ELSE bak[q] = DefaultDir

CommitStands ==
  pc \in {"dirs", "leaves", "deletes", "verify"} /\ ~raced /\ NoBystanders(RemovedDirs)
    => Standing

\* RollbackRestores is about these transactions.
Restorable == ~raced /\ secured /\ NoBystanders(AffectedDirs) /\ PlainParents

\* The first loop of the rollback leaves nothing at the paths it has visited, the second
\* the old entry.
RollbackStands ==
  Restorable =>
    /\ pc \in {"undo", "restore"} => Standing
    /\ pc = "undo" => \A q \in Affected \ todo : src[q] = Absent
    /\ pc = "restore" => \A q \in Affected : src[q] = IF q \in todo THEN Absent ELSE pre[q]

ExactInv ==
  /\ SafeInv
  /\ ParentsStand /\ LoopKinds /\ BackupExact /\ CommitStands /\ RollbackStands
  /\ OutcomeIsExact

LEMMA ExactFrame ==
  ASSUME UNCHANGED <<exec, base, pre>>
  PROVE  /\ Changed' = Changed /\ Deleted' = Deleted /\ Affected' = Affected
         /\ ChangedDirs' = ChangedDirs
         /\ NoBystanders(AffectedDirs)' <=> NoBystanders(AffectedDirs)
         /\ NoBystanders(RemovedDirs)' <=> NoBystanders(RemovedDirs)
         /\ PlainParents' <=> PlainParents
         /\ (ParentsStand' <=> (pc' \in {"snapshot"} \cup InTransaction =>
              \A p \in Changed : \A a \in Anc[p] \ Affected : pre[a] \in Dir))
<1>1. Changed' = Changed /\ Deleted' = Deleted /\ Affected' = Affected
  BY DEF Affected, Changed, Deleted, ChangedIn, DeletedIn
<1>2. ChangedDirs' = ChangedDirs /\ AffectedDirs' = AffectedDirs /\ RemovedDirs' = RemovedDirs
  BY <1>1 DEF ChangedDirs, AffectedDirs, RemovedDirs
<1> QED BY <1>1, <1>2 DEF NoBystanders, PlainParents, ParentsStand, Present

\* What was there below an affected directory is affected: below an affected path nothing
\* else was.
LEMMA NothingStandsBelow ==
  ASSUME TypeInv, NEW p \in Affected, NEW q \in Path \ Affected, q \in Below(p),
         \/ NoBystanders(AffectedDirs)
         \/ NoBystanders(RemovedDirs) /\ exec[p] \notin Dir
  PROVE  pre[q] = Absent
<1>1. SUFFICES ASSUME pre[q] # Absent PROVE FALSE
  OBVIOUS
<1>2. pre[p] \in Dir /\ q \in Below(p) \cap Present(pre)
  BY <1>1 DEF TypeInv, TypeOK, Tree, Below, Present
<1> QED BY <1>2 DEF NoBystanders, AffectedDirs, RemovedDirs

\* A removal inside an affected subtree moves nothing else.
LEMMA RemovalStands ==
  ASSUME TypeInv, Standing, NEW p \in Affected, NEW gone \in SUBSET Subtree(p),
         \/ NoBystanders(AffectedDirs)
         \/ NoBystanders(RemovedDirs) /\ exec[p] \notin Dir,
         NEW q \in Path \ Affected
  PROVE  Erase(src, gone)[q] = pre[q]
<1>1. CASE q \notin gone
  BY <1>1 DEF Standing, Erase
<1>2. CASE q \in gone
  <2>1. q \in Below(p)
    BY <1>2 DEF Subtree
  <2>2. pre[q] = Absent
    BY <2>1, NothingStandsBelow
  <2> QED BY <1>2, <2>2 DEF Erase
<1> QED BY <1>1, <1>2

\* The parents of a changed path that are not affected are there: mkdir makes none.
LEMMA ParentsMadeAreAffected ==
  ASSUME TypeInv, Standing, NEW p \in Changed,
         \A a \in Anc[p] \ Affected : pre[a] \in Dir, NEW q \in Path \ Affected
  PROVE  MkParents(src, p)[q] = pre[q]
<1>1. q \in Anc[p] => src[q] # Absent
  BY TreeAssumption DEF Standing, Entry
<1> QED BY <1>1 DEF Standing, MkParents

LEMMA InstallStands ==
  ASSUME TypeInv, Standing, NEW p \in Changed,
         \A a \in Anc[p] \ Affected : pre[a] \in Dir, NoBystanders(RemovedDirs),
         NEW q \in Path \ Affected
  PROVE  Install(src, p, exec[p])[q] = pre[q]
<1>1. p \in Affected /\ p \in Path /\ q # p
  BY DEF Affected, Changed, ChangedIn
<1>2. CASE exec[p] \in Dir
  <2>1. MkParents(src, p)[q] = pre[q]
    BY ParentsMadeAreAffected
  <2> QED BY <1>1, <1>2, <2>1 DEF Install, MkParents
<1>3. CASE exec[p] \notin Dir
  <2>1. Subtree(p) \in SUBSET Subtree(p)
    OBVIOUS
  <2>2. RemovePath(src, p)[q] = pre[q]
    BY <1>1, <1>3, <2>1, RemovalStands DEF RemovePath
  <2>3. q \in Anc[p] => pre[q] # Absent
    BY TreeAssumption DEF Entry
  <2> QED BY <1>1, <1>3, <2>2, <2>3 DEF Install, MkParents
<1> QED BY <1>2, <1>3

LEMMA GateKeepsExact ==
  ASSUME ExactInv, SafeInv', Gate
  PROVE  ExactInv'
<1>1. TypeInv /\ src \in [Path -> Node] /\ exec \in Tree /\ base \in Tree
  BY DEF ExactInv, SafeInv, TypeInv, TypeOK, Tree
<1>2. LoopKinds' /\ BackupExact' /\ CommitStands' /\ RollbackStands'
  BY DEF Gate, FinalizeNothing, FinalizeConflict, FinalizeStart, LoopKinds, BackupExact,
    CommitStands, RollbackStands, InTransaction, CommitPhases, RollbackPhases
<1>3. ParentsStand'
  <2>1. CASE FinalizeStart
    <3>1. Changed' = Changed /\ Affected' = Affected /\ pre' = src
      BY <2>1 DEF FinalizeStart, Affected, Changed, Deleted, ChangedIn, DeletedIn
    <3>2. ASSUME NEW p \in Changed, NEW a \in Anc[p] \ Affected PROVE src[a] \in Dir
      <4>1. a \in Path /\ p \in Path /\ p \in Affected /\ exec[p] # Absent
        BY <3>2, TreeAssumption DEF Affected, Changed, ChangedIn
      <4>2. exec[a] \in Dir /\ exec[a] # Absent
        BY <1>1, <4>1, <3>2, TreeAssumption DEF Tree, Entry
      <4>3. base[a] = exec[a]
        BY <4>1, <4>2, <3>2 DEF Affected, Changed, ChangedIn
      <4>4. \A b \in Anc[a] : base[b] \in Dir
        BY <1>1, <4>1, <4>2, <4>3 DEF Tree
      <4>5. ~Shadowed(a)
        BY <4>4, TreeAssumption DEF Shadowed
      <4>6. a \in Inspected
        BY <4>1 DEF Inspected
      <4> QED BY <2>1, <4>2, <4>3, <4>5, <4>6 DEF FinalizeStart, SourceUnchanged
    <3> QED BY <3>1, <3>2 DEF ParentsStand
  <2>2. CASE FinalizeNothing \/ FinalizeConflict
    BY <2>2 DEF FinalizeNothing, FinalizeConflict, ParentsStand, InTransaction, CommitPhases,
      RollbackPhases
  <2> QED BY <2>1, <2>2 DEF Gate
<1>4. OutcomeIsExact'
  <2>1. CASE FinalizeNothing
    <3>1. Affected' = {} /\ src' = src /\ pre' = src
      BY <2>1 DEF FinalizeNothing, Affected, Changed, Deleted, ChangedIn, DeletedIn
    <3>2. CommitIsExact'
      BY <1>1, <3>1 DEF CommitIsExact
    <3> QED BY <2>1, <3>2 DEF FinalizeNothing, OutcomeIsExact, RollbackRestores
  <2>2. CASE FinalizeConflict \/ FinalizeStart
    BY <2>2 DEF FinalizeConflict, FinalizeStart, OutcomeIsExact, RollbackRestores, CommitIsExact
  <2> QED BY <2>1, <2>2 DEF Gate
<1> QED BY <1>2, <1>3, <1>4 DEF ExactInv

LEMMA BackupKeepsExact ==
  ASSUME ExactInv, SafeInv', NEW p \in Path, Backup(p)
  PROVE  ExactInv'
<1>1. UNCHANGED <<src, exec, base, pre, pc, raced, secured>> /\ pc = "backup"
  BY DEF Backup, history
<1>2. /\ Changed' = Changed /\ Deleted' = Deleted /\ Affected' = Affected
      /\ ParentsStand'
  BY <1>1, ExactFrame DEF ExactInv, ParentsStand
<1>3. LoopKinds' /\ CommitStands' /\ RollbackStands' /\ OutcomeIsExact'
  BY <1>1 DEF LoopKinds, CommitStands, RollbackStands, OutcomeIsExact, RollbackRestores,
    CommitIsExact
<1>4. BackupExact'
  <2>1. SUFFICES ASSUME ~raced, NEW q \in Present(bak)'
                 PROVE  IF q \in Affected THEN pre[q] # Absent ELSE bak'[q] = DefaultDir
    BY <1>1, <1>2 DEF BackupExact
  <2>2. /\ src = pre /\ p \in Affected /\ pc \in InTransaction
        /\ q \in Path /\ bak \in [Path -> Node] /\ pre \in Tree
    BY <1>1, <2>1 DEF ExactInv, SafeInv, UntouchedInv, TodoInv, TypeInv, TypeOK, Backup,
      ShallowFirst, InTransaction, CommitPhases, Present
  <2>3. CASE bak[q] # Absent
    <3>1. IF q \in Affected THEN pre[q] # Absent ELSE bak[q] = DefaultDir
      BY <2>1, <2>2, <2>3 DEF ExactInv, BackupExact, Present
    <3>2. q # p => bak'[q] = bak[q]
      BY <2>2, <2>3 DEF Backup, MkParents
    <3> QED BY <2>2, <3>1, <3>2
  <2>4. CASE bak[q] = Absent
    <3>1. src[p] # Absent /\ (q = p \/ q \in Anc[p])
      BY <2>1, <2>2, <2>4 DEF Backup, MkParents, Present
    <3>2. q \in Anc[p] => pre[q] # Absent
      BY <2>2, <3>1, TreeAssumption DEF Tree, Entry
    <3>3. q # p => bak'[q] = DefaultDir
      BY <2>2, <2>4, <3>1 DEF Backup, MkParents
    <3> QED BY <2>2, <3>1, <3>2, <3>3
  <2> QED BY <2>3, <2>4
<1> QED BY <1>2, <1>3, <1>4 DEF ExactInv

\* The parts that a step inside the transaction keeps when it leaves the backup alone.
LEMMA ExactCore ==
  ASSUME ExactInv, UNCHANGED <<exec, base, bak, pre, raced>>,
         pc \in InTransaction, pc' \in InTransaction
  PROVE  ParentsStand' /\ BackupExact' /\ OutcomeIsExact'
<1>1. Affected' = Affected /\ ParentsStand'
  BY ExactFrame DEF ExactInv, ParentsStand
<1>2. BackupExact'
  BY <1>1 DEF ExactInv, BackupExact, Present
<1>3. OutcomeIsExact'
  BY DEF OutcomeIsExact, RollbackRestores, CommitIsExact, InTransaction, CommitPhases,
    RollbackPhases
<1> QED BY <1>1, <1>2, <1>3

\* The installs and removals of the commit, each of its loops over its own paths.
LEMMA CommitStepKeepsExact ==
  ASSUME ExactInv, SafeInv', NEW p \in Path, InstallDir(p) \/ InstallLeaf(p) \/ Delete(p)
  PROVE  ExactInv'
<1>1. /\ UNCHANGED <<exec, base, bak, pre, raced, secured, pc>> /\ todo' = todo \ {p}
      /\ pc \in {"dirs", "leaves", "deletes"} /\ pc \in InTransaction
  BY DEF InstallDir, InstallLeaf, Delete, history, InTransaction, CommitPhases
<1>2. ParentsStand' /\ BackupExact' /\ OutcomeIsExact'
  BY <1>1, ExactCore
<1>3. LoopKinds' /\ RollbackStands'
  BY <1>1, ExactFrame DEF ExactInv, LoopKinds, RollbackStands
<1>4. CommitStands'
  <2>1. SUFFICES ASSUME ~raced, NoBystanders(RemovedDirs), NEW q \in Path \ Affected
                 PROVE  src'[q] = pre[q]
    BY <1>1, ExactFrame DEF CommitStands, Standing
  <2>2. Standing /\ TypeInv
    BY <1>1, <2>1 DEF ExactInv, CommitStands, SafeInv
  <2>3. CASE InstallDir(p) \/ InstallLeaf(p)
    <3>1. p \in Changed /\ src' = Install(src, p, exec[p])
      BY <2>3 DEF ExactInv, LoopKinds, InstallDir, InstallLeaf, ShallowFirst
    <3>2. \A a \in Anc[p] \ Affected : pre[a] \in Dir
      BY <1>1, <3>1 DEF ExactInv, ParentsStand
    <3> QED BY <2>1, <2>2, <3>1, <3>2, InstallStands
  <2>4. CASE Delete(p)
    <3>1. p \in Deleted /\ src' = RemovePath(src, p)
      BY <2>4 DEF ExactInv, LoopKinds, Delete, DeepestFirst
    <3>2. p \in Affected /\ exec[p] \notin Dir /\ Subtree(p) \in SUBSET Subtree(p)
      BY <3>1, TreeAssumption DEF Affected, Deleted, DeletedIn, Entry
    <3> QED BY <2>1, <2>2, <3>1, <3>2, RemovalStands DEF RemovePath
  <2> QED BY <2>3, <2>4
<1> QED BY <1>2, <1>3, <1>4 DEF ExactInv

\* A failure between two steps, or in the middle of one, moves nothing but affected paths.
LEMMA EnteringKeepsExact ==
  ASSUME ExactInv, SafeInv', pc \in CommitPhases, EnterRollback,
         pc # "backup" /\ NoBystanders(AffectedDirs) /\ Standing
           => \A q \in Path \ Affected : src'[q] = pre[q]
  PROVE  ExactInv'
<1>1. /\ UNCHANGED <<exec, base, bak, pre, raced, secured>> /\ pc' = "undo" /\ todo' = Affected
      /\ pc \in InTransaction /\ pc' \in InTransaction
  BY DEF EnterRollback, history, InTransaction, CommitPhases, RollbackPhases
<1>2. ParentsStand' /\ BackupExact' /\ OutcomeIsExact'
  BY <1>1, ExactCore
<1>3. LoopKinds' /\ CommitStands'
  BY <1>1 DEF LoopKinds, CommitStands
<1>4. RollbackStands'
  <2>1. SUFFICES ASSUME Restorable' PROVE Standing'
    BY <1>1, ExactFrame DEF RollbackStands
  <2>2. ~raced /\ secured /\ NoBystanders(AffectedDirs) /\ pc # "backup"
    BY <1>1, <2>1, ExactFrame DEF Restorable, ExactInv, SafeInv, UntouchedInv
  <2>3. NoBystanders(RemovedDirs)
    BY <2>2 DEF NoBystanders, RemovedDirs
  <2>4. Standing
    BY <2>2, <2>3 DEF ExactInv, CommitStands, CommitPhases
  <2> QED BY <1>1, <2>2, <2>4, ExactFrame DEF Standing
<1> QED BY <1>2, <1>3, <1>4 DEF ExactInv

LEMMA FailureKeepsExact ==
  ASSUME ExactInv, SafeInv',
         \/ ReadBackFails \/ Interrupt
         \/ \E p \in Path : BackupFails(p) \/ DeleteRefused(p) \/ InstallRefused(p)
  PROVE  ExactInv'
<1>1. TypeInv /\ (pc \in CommitPhases => todo \subseteq Affected)
  BY DEF ExactInv, SafeInv, TodoInv
<1>2. CASE UNCHANGED src /\ EnterRollback /\ pc \in CommitPhases
  BY <1>2, EnteringKeepsExact DEF Standing
<1>3. CASE ReadBackFails \/ \E p \in Path : BackupFails(p) \/ DeleteRefused(p)
  BY <1>2, <1>3 DEF ReadBackFails, BackupFails, DeleteRefused, CommitPhases
<1>4. CASE Interrupt
  <2>1. EnterRollback /\ pc \in CommitPhases
    BY <1>4 DEF Interrupt
  <2>2. ASSUME NEW p \in todo, NEW gone \in Erasures(src, p), src' = Erase(src, gone)
        PROVE  ExactInv'
    <3>1. p \in Affected /\ gone \in SUBSET Subtree(p)
      BY <1>1, <2>1 DEF Erasures
    <3>2. NoBystanders(AffectedDirs) /\ Standing => \A q \in Path \ Affected : src'[q] = pre[q]
      BY <1>1, <2>2, <3>1, RemovalStands
    <3> QED BY <2>1, <3>2, EnteringKeepsExact
  <2> QED BY <1>2, <1>4, <2>1, <2>2 DEF Interrupt
<1>5. ASSUME NEW p \in Path, InstallRefused(p) PROVE ExactInv'
  <2>1. EnterRollback /\ pc \in {"dirs", "leaves"} /\ pc \in CommitPhases /\ pc \in InTransaction
    BY <1>5 DEF InstallRefused, CommitPhases, InTransaction
  <2>2. p \in Changed /\ p \in Affected
    BY <1>5, <2>1 DEF ExactInv, LoopKinds, InstallRefused, ShallowFirst, Affected
  <2>3. \A a \in Anc[p] \ Affected : pre[a] \in Dir
    BY <2>1, <2>2 DEF ExactInv, ParentsStand
  <2>4. src' \in {src, MkParents(src, p), RemovePath(MkParents(src, p), p)}
    BY <1>5 DEF InstallRefused
  <2>5. ASSUME NoBystanders(AffectedDirs), Standing, NEW q \in Path \ Affected
        PROVE  src'[q] = pre[q]
    <3>1. MkParents(src, p)[q] = pre[q] /\ src[q] = pre[q]
      BY <1>1, <2>2, <2>3, <2>5, ParentsMadeAreAffected DEF Standing
    <3>2. q \in Below(p) => pre[q] = Absent
      BY <1>1, <2>2, <2>5, NothingStandsBelow
    <3>3. q # p
      BY <2>2
    <3>4. RemovePath(MkParents(src, p), p)[q] = pre[q]
      BY <3>1, <3>2, <3>3 DEF RemovePath, Erase, Subtree
    <3> QED BY <2>4, <3>1, <3>4
  <2> QED BY <2>1, <2>5, EnteringKeepsExact
<1> QED BY <1>3, <1>4, <1>5

LEMMA UndoKeepsExact ==
  ASSUME ExactInv, SafeInv', NEW p \in Path, Undo(p)
  PROVE  ExactInv'
<1>1. /\ UNCHANGED <<exec, base, bak, pre, raced, secured, pc>> /\ todo' = todo \ {p}
      /\ pc = "undo" /\ pc \in InTransaction /\ p \in todo /\ p \in Affected
  BY DEF Undo, history, InTransaction, RollbackPhases, DeepestFirst, ExactInv, SafeInv, TodoInv
<1>2. ParentsStand' /\ BackupExact' /\ OutcomeIsExact'
  BY <1>1, ExactCore
<1>3. LoopKinds' /\ CommitStands'
  BY <1>1 DEF LoopKinds, CommitStands
<1>4. RollbackStands'
  <2>1. SUFFICES ASSUME Restorable
                 PROVE  /\ \A q \in Path \ Affected : src'[q] = pre[q]
                        /\ \A q \in Affected \ todo' : src'[q] = Absent
    BY <1>1, ExactFrame DEF RollbackStands, Standing, Restorable
  <2>2. /\ Standing /\ TypeInv /\ NoBystanders(AffectedDirs)
        /\ \A q \in Affected \ todo : src[q] = Absent
        /\ Affected \subseteq Path /\ src \in Tree
    BY <1>1, <2>1 DEF ExactInv, SafeInv, TypeInv, TypeOK, RollbackStands, Restorable, Affected,
      Changed, Deleted, ChangedIn, DeletedIn
  <2>3. CASE src' = RemovePath(src, p)
    <3>1. Subtree(p) \in SUBSET Subtree(p) /\ p \in Subtree(p)
      BY DEF Subtree
    <3>2. \A q \in Path \ Affected : src'[q] = pre[q]
      BY <1>1, <2>2, <2>3, <3>1, RemovalStands DEF RemovePath
    <3>3. \A q \in Affected \ todo' : src'[q] = Absent
      BY <1>1, <2>2, <2>3, <3>1 DEF RemovePath, Erase
    <3> QED BY <3>2, <3>3
  <2>4. CASE ThroughLink(src, p) /\ UNCHANGED src
    <3>1. PICK a \in Anc[p] : src[a] \in Link
      BY <2>4 DEF ThroughLink
    <3>2. src[p] = Absent
      BY <2>2, <3>1, TreeAssumption DEF Tree
    <3> QED BY <1>1, <2>2, <2>4, <3>2 DEF Standing
  <2> QED BY <2>3, <2>4 DEF Undo
<1> QED BY <1>2, <1>3, <1>4 DEF ExactInv

\* The parents of a path come before it: they stand again when it is put back, and what
\* was no directory had nothing below it.
LEMMA RestoreKeepsExact ==
  ASSUME ExactInv, SafeInv', NEW p \in Path, Restore(p)
  PROVE  ExactInv'
<1>1. /\ UNCHANGED <<exec, base, bak, pre, raced, secured, pc>> /\ todo' = todo \ {p}
      /\ pc = "restore" /\ pc \in InTransaction /\ p \in ShallowFirst(todo)
      /\ p \in todo /\ p \in Present(bak) /\ todo \subseteq Present(bak)
      /\ src' = Install(src, p, bak[p])
  BY DEF Restore, history, InTransaction, RollbackPhases, ShallowFirst, ExactInv, SafeInv, TodoInv
<1>2. ParentsStand' /\ BackupExact' /\ OutcomeIsExact'
  BY <1>1, ExactCore
<1>3. LoopKinds' /\ CommitStands'
  BY <1>1 DEF LoopKinds, CommitStands
<1>4. RollbackStands'
  <2>1. SUFFICES ASSUME Restorable
                 PROVE  /\ \A q \in Path \ Affected : src'[q] = pre[q]
                        /\ \A q \in Affected : src'[q] = IF q \in todo' THEN Absent ELSE pre[q]
    BY <1>1, ExactFrame DEF RollbackStands, Standing, Restorable
  <2>2. /\ \A q \in Path \ Affected : src[q] = pre[q]
        /\ \A q \in Affected : src[q] = IF q \in todo THEN Absent ELSE pre[q]
        /\ Affected \subseteq Path
        /\ src \in [Path -> Node] /\ bak \in [Path -> Node] /\ pre \in Tree
    BY <1>1, <2>1 DEF ExactInv, SafeInv, TypeInv, TypeOK, Tree, RollbackStands, Standing,
      Affected, Changed, Deleted, ChangedIn, DeletedIn
  \* The backup agrees with the tree it was taken from.
  <2>3. \A q \in Present(bak) : bak[q] = pre[q] /\ pre[q] # Absent
    <3>1. ASSUME NEW q \in Present(bak), q \in Affected PROVE bak[q] = pre[q] /\ pre[q] # Absent
      BY <1>1, <2>1, <3>1 DEF ExactInv, SafeInv, BackupExact, BackupInv, Restorable
    <3>2. ASSUME NEW q \in Present(bak), q \notin Affected
          PROVE  bak[q] = pre[q] /\ pre[q] # Absent
      <4>1. bak[q] = DefaultDir
        BY <1>1, <2>1, <3>2 DEF ExactInv, BackupExact, Restorable
      <4>2. PICK r \in Affected : q \in Anc[r] /\ pre[r] # Absent
        BY <1>1, <2>1, <3>2 DEF ExactInv, SafeInv, BackupInv, Restorable
      <4>3. pre[q] = DefaultDir
        BY <2>1, <3>2, <4>2 DEF Restorable, PlainParents
      <4> QED BY <4>1, <4>3, TreeAssumption DEF Entry
    <3> QED BY <3>1, <3>2
  <2>4. ASSUME NEW a \in Anc[p] PROVE src[a] \in Dir /\ src[a] # Absent
    <3>1. a \in Path /\ pre[a] \in Dir /\ pre[a] # Absent
      BY <1>1, <2>2, <2>3, TreeAssumption DEF Tree, Entry
    <3>2. a \notin todo
      <4>1. Depth[a] < Depth[p] /\ Depth[a] \in Nat /\ Depth[p] \in Nat
        BY <3>1, TreeAssumption
      <4>2. a \in todo => Depth[p] <= Depth[a]
        BY <1>1 DEF ShallowFirst
      <4> QED BY <4>1, <4>2
    <3>3. src[a] = pre[a]
      BY <2>2, <3>1, <3>2
    <3> QED BY <3>1, <3>3
  <2>5. ASSUME NEW q \in Path, q # p PROVE src'[q] = src[q]
    <3>1. CASE bak[p] \in Dir
      BY <1>1, <2>2, <2>4, <2>5, <3>1 DEF Install, MkParents
    <3>2. CASE bak[p] \notin Dir
      <4>1. q \in Below(p) => pre[q] = Absent
        BY <1>1, <2>2, <2>3, <3>2 DEF Below, Tree
      <4>2. q \in Below(p) => src[q] = Absent
        BY <2>2, <2>5, <4>1
      <4>3. RemovePath(src, p)[q] = src[q]
        BY <2>2, <2>5, <4>2 DEF RemovePath, Erase, Subtree
      <4>4. q \in Anc[p] => src[q] # Absent
        BY <2>4
      <4> QED BY <1>1, <2>2, <2>5, <3>2, <4>3, <4>4 DEF Install, MkParents
    <3> QED BY <3>1, <3>2
  <2>6. src'[p] = pre[p]
    <3>1. src'[p] = bak[p]
      BY <1>1 DEF Install, MkParents
    <3> QED BY <1>1, <2>3, <3>1
  <2> QED BY <1>1, <2>2, <2>5, <2>6
<1> QED BY <1>2, <1>3, <1>4 DEF ExactInv

\* The steps that only move from one loop to the next, or stop.
LEMMA TurnKeepsExact ==
  ASSUME ExactInv, SafeInv',
         \/ Snapshot \/ BackupDone \/ DirsDone \/ LeavesDone \/ DeletesDone \/ UndoDone
         \/ UndoRefused \/ RestoreRefused \/ RollbackInterrupted \/ Kill
  PROVE  ExactInv'
<1> USE DEF history
<1>1. UNCHANGED <<src, exec, base, pre, raced>>
  BY DEF Snapshot, BackupDone, DirsDone, LeavesDone, DeletesDone, UndoDone, UndoRefused,
    RestoreRefused, RollbackInterrupted, Kill
<1>2. pc \in {"snapshot"} \cup InTransaction /\ pc' \in InTransaction
  BY DEF Snapshot, BackupDone, DirsDone, LeavesDone, DeletesDone, UndoDone, UndoRefused,
    RestoreRefused, RollbackInterrupted, Kill, InTransaction, CommitPhases, RollbackPhases
<1>3. ParentsStand' /\ BackupExact' /\ OutcomeIsExact'
  <2>1. CASE Snapshot
    <3>1. ParentsStand'
      BY <1>1, <1>2, ExactFrame DEF ExactInv, ParentsStand
    <3>2. BackupExact' /\ OutcomeIsExact'
      BY <2>1 DEF Snapshot, BackupExact, Present, EmptyTree, OutcomeIsExact, RollbackRestores,
        CommitIsExact
    <3> QED BY <3>1, <3>2
  <2>2. CASE ~Snapshot
    <3>1. bak' = bak /\ pc \in InTransaction
      BY <2>2 DEF BackupDone, DirsDone, LeavesDone, DeletesDone, UndoDone, UndoRefused,
        RestoreRefused, RollbackInterrupted, Kill, InTransaction, CommitPhases, RollbackPhases
    <3> QED BY <1>1, <1>2, <3>1, ExactCore
  <2> QED BY <2>1, <2>2
<1>4. LoopKinds'
  <2>1. Changed' = Changed /\ Deleted' = Deleted
    BY <1>1, ExactFrame
  <2> QED BY <2>1 DEF LoopKinds, Snapshot, BackupDone, DirsDone, LeavesDone, DeletesDone,
        UndoDone, UndoRefused, RestoreRefused, RollbackInterrupted, Kill, ChangedDirs
<1>5. CommitStands'
  <2>1. SUFFICES ASSUME pc' \in {"dirs", "leaves", "deletes", "verify"}, ~raced,
                        NoBystanders(RemovedDirs)
                 PROVE  Standing
    BY <1>1, ExactFrame DEF CommitStands, Standing
  <2>2. CASE BackupDone
    BY <2>1, <2>2 DEF BackupDone, ExactInv, SafeInv, UntouchedInv, Standing
  <2>3. CASE DirsDone \/ LeavesDone \/ DeletesDone
    BY <2>1, <2>3 DEF DirsDone, LeavesDone, DeletesDone, ExactInv, CommitStands
  <2>4. CASE \/ Snapshot \/ UndoDone \/ UndoRefused \/ RestoreRefused
             \/ RollbackInterrupted \/ Kill
    BY <2>1, <2>4 DEF Snapshot, UndoDone, UndoRefused, RestoreRefused, RollbackInterrupted, Kill
  <2> QED BY <2>2, <2>3, <2>4
<1>6. RollbackStands'
  <2>1. CASE UndoDone
    <3>1. SUFFICES ASSUME Restorable
                   PROVE  /\ Standing
                          /\ \A q \in Affected : src[q] = IF q \in Present(bak) THEN Absent
                                                                                ELSE pre[q]
      BY <1>1, <2>1, ExactFrame DEF UndoDone, RollbackStands, Restorable, Standing
    <3>2. Standing /\ \A q \in Affected : src[q] = Absent
      BY <2>1, <3>1 DEF UndoDone, ExactInv, RollbackStands
    <3>3. ASSUME NEW q \in Affected, q \notin Present(bak) PROVE pre[q] = Absent
      <4>1. q \in Path /\ bak[q] = Absent
        BY <3>3 DEF Present, Affected, Changed, Deleted, ChangedIn, DeletedIn
      <4>2. pc \in InTransaction
        BY <2>1 DEF UndoDone, InTransaction, RollbackPhases
      <4> QED BY <3>1, <4>1, <4>2 DEF ExactInv, SafeInv, BackupInv, Restorable
    <3> QED BY <3>2, <3>3
  <2>2. CASE ~UndoDone
    BY <2>2 DEF RollbackStands, Snapshot, BackupDone, DirsDone, LeavesDone, DeletesDone,
      UndoRefused, RestoreRefused, RollbackInterrupted, Kill
  <2> QED BY <2>1, <2>2
<1> QED BY <1>3, <1>4, <1>5, <1>6 DEF ExactInv

\* The two ends: a read-back that agrees, and an empty list of what is to be put back.
LEMMA EndKeepsExact ==
  ASSUME ExactInv, SafeInv', CommitDone \/ RollbackDone
  PROVE  ExactInv'
<1> USE DEF history
<1>1. UNCHANGED <<src, exec, base, pre, raced, secured>> /\ src \in [Path -> Node]
      /\ pre \in [Path -> Node]
  BY DEF CommitDone, RollbackDone, ExactInv, SafeInv, TypeInv, TypeOK, Tree
<1>2. ParentsStand' /\ LoopKinds' /\ BackupExact' /\ CommitStands' /\ RollbackStands'
  BY DEF CommitDone, RollbackDone, ParentsStand, LoopKinds, BackupExact, CommitStands,
    RollbackStands, InTransaction, CommitPhases, RollbackPhases
<1>3. CASE CommitDone
  <2>1. ASSUME ~raced, NoBystanders(RemovedDirs)
        PROVE  src = [p \in Path |-> IF p \in Affected THEN exec[p] ELSE pre[p]]
    <3>1. Standing /\ \A p \in Affected : src[p] = exec[p]
      BY <1>3, <2>1 DEF CommitDone, ExactInv, CommitStands, ReadBackAgrees
    <3>2. \A p \in Path : src[p] = IF p \in Affected THEN exec[p] ELSE pre[p]
      BY <3>1 DEF Standing
    <3> QED BY <1>1, <3>2
  <2>2. CommitIsExact'
    BY <1>1, <2>1, ExactFrame DEF CommitIsExact
  <2> QED BY <1>2, <1>3, <2>2 DEF CommitDone, ExactInv, OutcomeIsExact, RollbackRestores
<1>4. CASE RollbackDone
  <2>1. ASSUME Restorable PROVE src = pre
    <3>1. \A q \in Path : src[q] = pre[q]
      BY <1>4, <2>1 DEF RollbackDone, ExactInv, RollbackStands, Standing
    <3> QED BY <1>1, <3>1
  <2>2. RollbackRestores'
    BY <1>1, <2>1, ExactFrame DEF RollbackRestores, Restorable
  <2> QED BY <1>2, <1>4, <2>2 DEF RollbackDone, ExactInv, OutcomeIsExact, CommitIsExact
<1> QED BY <1>3, <1>4

LEMMA NextIsExact ==
  ASSUME ExactInv, [Next]_vars
  PROVE  ExactInv'
<1>0. SafeInv'
  BY NextIsSafe DEF ExactInv
<1>1. CASE Prepare \/ Work \/ Preserve \/ SnapshotFails
  <2>1. pc' \in {"idle", "open", "direct", "refused"}
    BY <1>1 DEF Prepare, OpenFresh, OpenResumed, OpenDirect, Work, Preserve, SnapshotFails
  <2> QED BY <1>0, <2>1 DEF ExactInv, ParentsStand, LoopKinds, BackupExact, CommitStands,
        RollbackStands, OutcomeIsExact, RollbackRestores, CommitIsExact, InTransaction,
        CommitPhases, RollbackPhases
<1>2. CASE Gate
  BY <1>0, <1>2, GateKeepsExact
<1>3. CASE \/ Snapshot \/ BackupDone \/ DirsDone \/ LeavesDone \/ DeletesDone \/ UndoDone
           \/ UndoRefused \/ RestoreRefused \/ RollbackInterrupted \/ Kill
  BY <1>0, <1>3, TurnKeepsExact
<1>4. ASSUME NEW p \in Path, \/ Backup(p) \/ InstallDir(p) \/ InstallLeaf(p) \/ Delete(p)
                             \/ Undo(p) \/ Restore(p)
      PROVE  ExactInv'
  BY <1>0, <1>4, BackupKeepsExact, CommitStepKeepsExact, UndoKeepsExact, RestoreKeepsExact
<1>5. CASE \/ ReadBackFails \/ Interrupt
           \/ \E p \in Path : BackupFails(p) \/ DeleteRefused(p) \/ InstallRefused(p)
  BY <1>0, <1>5, FailureKeepsExact
<1>6. CASE CommitDone \/ RollbackDone
  BY <1>0, <1>6, EndKeepsExact
<1>7. ASSUME NEW p \in Path, UserEdit(p) PROVE ExactInv'
  <2>1. UNCHANGED <<exec, base, pre, pc, todo>> /\ raced' = TRUE
    BY <1>7 DEF UserEdit
  <2>2. Changed' = Changed /\ Deleted' = Deleted /\ ParentsStand'
    BY <2>1, ExactFrame DEF ExactInv, ParentsStand, InTransaction
  <2> QED BY <1>0, <2>1, <2>2 DEF ExactInv, LoopKinds, BackupExact, CommitStands, RollbackStands,
        Restorable, OutcomeIsExact, RollbackRestores, CommitIsExact
<1>8. CASE UNCHANGED vars
  <2>1. UNCHANGED <<src, exec, base, bak, pre, pc, todo, raced, secured>>
    BY <1>8 DEF vars
  <2>2. /\ ParentsStand' /\ LoopKinds' /\ BackupExact'
    BY <2>1, ExactFrame DEF ExactInv, ParentsStand, LoopKinds, BackupExact, InTransaction, Present
  <2>3. CommitStands' /\ RollbackStands'
    BY <2>1, ExactFrame DEF ExactInv, CommitStands, RollbackStands, Restorable, Standing
  <2>4. OutcomeIsExact'
    BY <2>1, ExactFrame DEF ExactInv, OutcomeIsExact, RollbackRestores, CommitIsExact
  <2> QED BY <1>0, <2>2, <2>3, <2>4 DEF ExactInv
<1> QED BY <1>1, <1>2, <1>3, <1>4, <1>5, <1>6, <1>7, <1>8
    DEF Next, Finalizing, CommitTurn, CommitStep, Rollback

\* What finalize() reports is what became of the user's directory: after a commit every
\* affected path holds the candidate's entry and nothing else moved, after a rollback
\* everything is as the conflict check saw it, whichever step failed.
THEOREM OutcomeIsTrue == Spec => []OutcomeIsExact
<1>1. Init => ParentsStand /\ LoopKinds /\ BackupExact /\ CommitStands /\ RollbackStands
              /\ OutcomeIsExact
  BY DEF Init, ParentsStand, LoopKinds, BackupExact, CommitStands, RollbackStands,
    OutcomeIsExact, RollbackRestores, CommitIsExact, InTransaction, CommitPhases, RollbackPhases
<1>2. ExactInv /\ [Next]_vars => /\ ParentsStand' /\ LoopKinds' /\ BackupExact'
                                 /\ CommitStands' /\ RollbackStands' /\ OutcomeIsExact'
  <2>1. ASSUME ExactInv, [Next]_vars PROVE ExactInv'
    BY <2>1, NextIsExact
  <2> QED BY <2>1 DEF ExactInv
<1>3. ExactInv <=> /\ SafeInv /\ ParentsStand /\ LoopKinds /\ BackupExact /\ CommitStands
                   /\ RollbackStands /\ OutcomeIsExact
  BY DEF ExactInv
<1> QED BY <1>1, <1>2, <1>3, SafeAlways, PTL DEF Spec
--------------------------------------------------------------------------------
(* The checkpoint and the run that resumes from it.                           *)

\* While the plan waits, the checkpoint is the difference of the two copies it was made of.
CheckpointMatches ==
  pc = "idle" /\ ckpt # NoCheckpoint =>
    ckpt = [base |-> base,
            delta |-> [p \in Path |-> IF p \in Changed THEN exec[p] ELSE Absent],
            deleted |-> Deleted]

\* Putting a plain difference back onto its base gives the tree it was taken of.
LEMMA RestoredIsWhatWasLeft ==
  ASSUME TypeOK, PlainDelta(ckpt),
         ckpt = [base |-> base,
                 delta |-> [p \in Path |-> IF p \in Changed THEN exec[p] ELSE Absent],
                 deleted |-> Deleted]
  PROVE  Restored(base, ckpt) = exec
<1> DEFINE changed == Present(ckpt.delta)
           dropped(p) == \/ base[p] = Absent
                         \/ Anc[p] \cap changed # {}
                         \/ (Anc[p] \cup {p}) \cap ckpt.deleted # {}
<1>1. exec \in Tree /\ base \in Tree /\ exec \in [Path -> Node]
  BY DEF TypeOK, Tree
<1>2. changed = Changed /\ ckpt.deleted = Deleted
  BY DEF Present, Changed, ChangedIn
<1>3. ASSUME NEW p \in Path
      PROVE  Restored(base, ckpt)[p] =
               IF p \in changed
               THEN IF ckpt.delta[p] \in Dir THEN DefaultDir ELSE ckpt.delta[p]
               ELSE IF ~dropped(p) THEN base[p]
               ELSE IF Below(p) \cap changed # {} THEN DefaultDir ELSE Absent
  BY DEF Restored
<1>4. ASSUME NEW p \in Path PROVE Restored(base, ckpt)[p] = exec[p]
  <2>1. CASE p \in Changed
    <3>1. ckpt.delta[p] = exec[p]
      BY <2>1 DEF Changed
    <3>2. exec[p] \in Dir => exec[p] = DefaultDir
      BY <3>1 DEF PlainDelta
    <3> QED BY <1>2, <1>3, <2>1, <3>1, <3>2
  <2>2. CASE p \notin Changed /\ exec[p] # Absent
    <3>1. base[p] = exec[p] /\ p \notin Deleted
      BY <2>2 DEF Changed, ChangedIn, Deleted, DeletedIn
    <3>2. ASSUME NEW a \in Anc[p] PROVE a \notin Changed /\ a \notin Deleted
      <4>1. a \in Path /\ exec[a] \in Dir /\ base[a] \in Dir /\ exec[a] # Absent
        BY <1>1, <2>2, <3>1, TreeAssumption DEF Tree, Entry
      <4>2. a \in Changed => ckpt.delta[a] = exec[a] /\ ckpt.base[a] = base[a]
        BY <4>1
      <4> QED BY <4>1, <4>2 DEF PlainDelta, Deleted, DeletedIn
    <3>3. ~dropped(p)
      BY <1>2, <2>2, <3>1, <3>2
    <3> QED BY <1>2, <1>3, <2>2, <3>1, <3>3
  <2>3. CASE p \notin Changed /\ exec[p] = Absent
    <3>1. base[p] = Absent \/ p \in Deleted
      BY <2>3 DEF Deleted, DeletedIn
    <3>2. dropped(p)
      BY <1>2, <3>1
    <3>3. ASSUME NEW q \in Below(p) PROVE q \notin Changed
      <4>1. q \in Path /\ exec[q] = Absent
        BY <1>1, <2>3, TreeAssumption DEF Below, Tree, Entry
      <4> QED BY <4>1 DEF Changed, ChangedIn
    <3> QED BY <1>2, <1>3, <2>3, <3>2, <3>3
  <2> QED BY <2>1, <2>2, <2>3
<1>5. Restored(base, ckpt) = [p \in Path |-> Restored(base, ckpt)[p]]
  BY DEF Restored
<1> QED BY <1>1, <1>4, <1>5

LEMMA CheckpointStays ==
  ASSUME CheckpointMatches, [Next]_vars
  PROVE  CheckpointMatches'
<1> USE DEF history
<1>1. CASE UNCHANGED <<exec, base, ckpt>> /\ (pc' = "idle" => pc = "idle")
  <2>1. Changed' = Changed /\ Deleted' = Deleted
    BY <1>1 DEF Changed, Deleted, ChangedIn, DeletedIn
  <2> QED BY <1>1, <2>1 DEF CheckpointMatches
<1>2. CASE Preserve
  BY <1>2 DEF Preserve, CheckpointMatches, Changed, Deleted, ChangedIn, DeletedIn
<1>3. CASE Prepare \/ Work \/ Gate \/ SnapshotFails \/ CommitTurn \/ Interrupt
           \/ UndoRefused \/ UndoDone \/ RestoreRefused \/ RollbackDone
           \/ RollbackInterrupted \/ Kill
  <2>1. pc' # "idle"
    BY <1>3 DEF Prepare, OpenFresh, OpenResumed, OpenDirect, Work, Gate, FinalizeNothing,
      FinalizeConflict, FinalizeStart, SnapshotFails, CommitTurn, Snapshot, BackupDone, DirsDone,
      LeavesDone, DeletesDone, CommitDone, ReadBackFails, Interrupt, EnterRollback, UndoRefused,
      UndoDone, RestoreRefused, RollbackDone, RollbackInterrupted, Kill
  <2> QED BY <2>1 DEF CheckpointMatches
<1>4. ASSUME NEW p \in Path, CommitStep(p) \/ Undo(p) \/ Restore(p) \/ UserEdit(p)
      PROVE  CheckpointMatches'
  <2>1. UNCHANGED <<exec, base, ckpt>> /\ (pc' = "idle" => pc = "idle")
    BY <1>4 DEF CommitStep, Backup, BackupFails, InstallDir, InstallLeaf, InstallRefused, Delete,
      DeleteRefused, Undo, Restore, UserEdit, EnterRollback
  <2> QED BY <1>1, <2>1
<1>5. CASE UNCHANGED vars
  BY <1>1, <1>5 DEF vars
<1> QED BY <1>2, <1>3, <1>4, <1>5 DEF Next, Finalizing, Rollback

\* A resumed run starts from the very tree the paused run left, whatever was added, replaced
\* or deleted, when the difference holds no directory but new ones of default mode.
THEOREM ResumedContinues == Spec => ResumeContinues
<1>1. Init => CheckpointMatches
  BY DEF Init, CheckpointMatches
<1>2. CheckpointMatches /\ [Next]_vars => CheckpointMatches'
  BY CheckpointStays
<1>3. TypeOK /\ CheckpointMatches => (OpenResumed /\ PlainDelta(ckpt) => exec' = exec)
  <2>1. SUFFICES ASSUME TypeOK, CheckpointMatches, OpenResumed, PlainDelta(ckpt)
                 PROVE  exec' = exec
    OBVIOUS
  <2>2. ckpt = [base |-> base,
                delta |-> [p \in Path |-> IF p \in Changed THEN exec[p] ELSE Absent],
                deleted |-> Deleted]
    BY <2>1 DEF OpenResumed, CheckpointMatches
  <2>3. exec' = Restored(base, ckpt)
    BY <2>1, <2>2 DEF OpenResumed
  <2> QED BY <2>1, <2>2, <2>3, RestoredIsWhatWasLeft
<1> QED BY <1>1, <1>2, <1>3, TypeCorrect, PTL DEF Spec, ResumeContinues
--------------------------------------------------------------------------------
(* The step-by-step commit implements the one-step commit.  What is new is that a      *)
(* transaction that is cut short leaves parts of two trees and nothing else.           *)

\* The transactions of which the promise is kept: nobody edits the source while they run,
\* they know all there is below the directories they touch, the parents they may have to
\* make again are as mkdir makes them, and what they roll back was backed up.
Undisturbed ==
  pc \in {"snapshot"} \cup InTransaction =>
    /\ ~raced /\ NoBystanders(AffectedDirs) /\ PlainParents
    /\ pc \in RollbackPhases => secured

\* A directory that was visited is there.
DirsStand ==
  ~raced /\ NoBystanders(RemovedDirs) =>
    /\ pc = "dirs" => \A a \in ChangedDirs \ todo : src[a] = exec[a]
    /\ pc = "leaves" => \A a \in ChangedDirs : src[a] = exec[a]

\* At every affected path is its old entry, its new one or none.
Mixed == \A q \in Affected : src[q] \in {pre[q], Absent, exec[q]}
MixedStands ==
  pc \in {"dirs", "leaves", "deletes", "verify", "undo"} /\ ~raced /\ NoBystanders(AffectedDirs)
    => Mixed

PartsInv == ExactInv /\ DirsStand /\ MixedStands

\* The parents of what is installed next stand as the candidate has them.
LEMMA ParentsWereVisited ==
  ASSUME ExactInv, DirsStand, ~raced, NoBystanders(RemovedDirs), pc \in {"dirs", "leaves"},
         NEW p \in Changed, pc = "dirs" => p \in ShallowFirst(todo), NEW a \in Anc[p]
  PROVE  src[a] \in Dir /\ src[a] # Absent
<1>1. p \in Path /\ a \in Path /\ exec[p] # Absent /\ exec \in Tree /\ pc \in InTransaction
  BY TreeAssumption DEF Changed, ChangedIn, ExactInv, SafeInv, TypeInv, TypeOK, InTransaction,
    CommitPhases
<1>2. exec[a] \in Dir /\ exec[a] # Absent
  BY <1>1, TreeAssumption DEF Tree, Entry
<1>3. CASE a \in Affected
  <2>1. a \in ChangedDirs
    BY <1>2, <1>3 DEF Affected, Deleted, DeletedIn, ChangedDirs
  <2>2. pc = "dirs" => a \notin todo
    <3>1. Depth[a] < Depth[p] /\ Depth[a] \in Nat /\ Depth[p] \in Nat
      BY <1>1, TreeAssumption
    <3>2. pc = "dirs" /\ a \in todo => Depth[p] <= Depth[a]
      BY DEF ShallowFirst
    <3> QED BY <3>1, <3>2
  <2>3. src[a] = exec[a]
    BY <2>1, <2>2 DEF DirsStand
  <2> QED BY <1>2, <2>3
<1>4. CASE a \notin Affected
  <2>1. pre[a] \in Dir
    BY <1>1, <1>4 DEF ExactInv, ParentsStand
  <2>2. src[a] = pre[a]
    BY <1>1, <1>4 DEF ExactInv, CommitStands, Standing
  <2> QED BY <2>1, <2>2, TreeAssumption DEF Entry
<1> QED BY <1>3, <1>4

\* So an installation makes no parent; it removes what lies below a path that is no directory.
LEMMA InstallMixes ==
  ASSUME TypeInv, NEW p \in Path, NEW e \in Entry, \A a \in Anc[p] : src[a] # Absent
  PROVE  /\ MkParents(src, p) = src
         /\ Install(src, p, e)[p] = e
         /\ \A q \in Path \ {p} :
              \/ Install(src, p, e)[q] = src[q]
              \/ Install(src, p, e)[q] = Absent /\ p \in Anc[q] /\ e \notin Dir
<1>1. src \in [Path -> Node]
  BY DEF TypeInv, TypeOK, Tree
<1>2. MkParents(src, p) = src
  <2>1. \A q \in Path : MkParents(src, p)[q] = src[q]
    BY DEF MkParents
  <2>2. MkParents(src, p) = [q \in Path |-> MkParents(src, p)[q]]
    BY DEF MkParents
  <2>3. src = [q \in Path |-> src[q]]
    BY <1>1
  <2> QED BY <2>1, <2>2, <2>3
<1>3. CASE e \in Dir
  <2>1. Install(src, p, e) = [src EXCEPT ![p] = e]
    BY <1>2, <1>3 DEF Install
  <2> QED BY <1>1, <1>2, <2>1
<1>4. CASE e \notin Dir
  <2> DEFINE r == RemovePath(src, p)
  <2>1. \A q \in Path : r[q] = IF q \in Subtree(p) THEN Absent ELSE src[q]
    BY DEF RemovePath, Erase
  <2>2. \A q \in Anc[p] : q \in Path /\ q \notin Subtree(p)
    BY TreeAssumption DEF Subtree, Below
  <2>3. \A q \in Path : MkParents(r, p)[q] = r[q]
    BY <2>1, <2>2 DEF MkParents
  <2>4. Install(src, p, e) = [MkParents(r, p) EXCEPT ![p] = e]
    BY <1>4 DEF Install
  <2>5. MkParents(r, p) = [q \in Path |-> MkParents(r, p)[q]]
    BY DEF MkParents
  <2> HIDE DEF r
  <2>6. /\ Install(src, p, e)[p] = e
        /\ \A q \in Path \ {p} : Install(src, p, e)[q] = r[q]
    BY <2>3, <2>4, <2>5
  <2>7. \A q \in Path \ {p} : r[q] = src[q] \/ (r[q] = Absent /\ p \in Anc[q])
    BY <2>1 DEF Subtree, Below
  <2> QED BY <1>2, <1>4, <2>6, <2>7
<1> QED BY <1>3, <1>4

\* The installations.
LEMMA InstallKeepsParts ==
  ASSUME PartsInv, ExactInv', NEW p \in Path, InstallDir(p) \/ InstallLeaf(p)
  PROVE  PartsInv'
<1>1. /\ UNCHANGED <<exec, base, bak, pre, raced, secured, pc>> /\ todo' = todo \ {p}
      /\ pc \in {"dirs", "leaves"} /\ p \in Changed /\ src' = Install(src, p, exec[p])
      /\ pc = "dirs" => p \in ShallowFirst(todo)
      /\ pc = "leaves" => exec[p] \in File
  BY DEF InstallDir, InstallLeaf, history, PartsInv, ExactInv, LoopKinds, ShallowFirst
<1>2. /\ Changed' = Changed /\ Affected' = Affected /\ ChangedDirs' = ChangedDirs
      /\ NoBystanders(AffectedDirs)' <=> NoBystanders(AffectedDirs)
      /\ NoBystanders(RemovedDirs)' <=> NoBystanders(RemovedDirs)
  BY <1>1, ExactFrame
<1>3. exec[p] \in Entry /\ exec \in Tree /\ TypeInv
  <2>1. exec \in Tree /\ TypeInv
    BY DEF PartsInv, ExactInv, SafeInv, TypeInv, TypeOK
  <2>2. exec[p] \in Node /\ exec[p] # Absent
    BY <1>1, <2>1 DEF Tree, Changed, ChangedIn
  <2> QED BY <2>1, <2>2 DEF Node
<1>4. ASSUME ~raced, NoBystanders(RemovedDirs)
      PROVE  /\ src'[p] = exec[p]
             /\ \A q \in Path \ {p} :
                  src'[q] = src[q] \/ (src'[q] = Absent /\ p \in Anc[q] /\ exec[p] \notin Dir)
  <2>1. \A a \in Anc[p] : src[a] # Absent
    BY <1>1, <1>4, ParentsWereVisited DEF PartsInv
  <2> QED BY <1>1, <1>3, <2>1, InstallMixes
<1>5. DirsStand'
  <2>1. SUFFICES ASSUME ~raced, NoBystanders(RemovedDirs), NEW a \in ChangedDirs,
                        pc = "dirs" => a \notin todo \ {p}
                 PROVE  src'[a] = exec[a]
    BY <1>1, <1>2 DEF DirsStand
  <2>2. a \in Path /\ exec[a] \in Dir /\ exec[a] # Absent
    BY TreeAssumption DEF ChangedDirs, Changed, ChangedIn, Entry
  <2>3. CASE a = p
    BY <1>4, <2>1, <2>3
  <2>4. CASE a # p
    <3>1. src[a] = exec[a]
      BY <1>1, <2>1, <2>4 DEF PartsInv, DirsStand
    <3>2. p \in Anc[a] => exec[p] \in Dir
      BY <1>3, <2>2 DEF Tree
    <3> QED BY <1>4, <2>1, <2>2, <2>4, <3>1, <3>2
  <2> QED BY <2>3, <2>4
<1>6. MixedStands'
  <2>1. SUFFICES ASSUME ~raced, NoBystanders(AffectedDirs), NEW q \in Affected
                 PROVE  src'[q] \in {pre[q], Absent, exec[q]}
    BY <1>1, <1>2 DEF MixedStands, Mixed
  <2>2. NoBystanders(RemovedDirs) /\ q \in Path
    BY <2>1 DEF NoBystanders, RemovedDirs, Affected, Changed, Deleted, ChangedIn, DeletedIn
  <2>3. src[q] \in {pre[q], Absent, exec[q]}
    BY <1>1, <2>1 DEF PartsInv, MixedStands, Mixed
  <2> QED BY <1>4, <2>1, <2>2, <2>3
<1> QED BY <1>5, <1>6 DEF PartsInv

\* Removals, and the steps that only enter the rollback: what was there is there or gone.
LEMMA RemovalKeepsParts ==
  ASSUME PartsInv, ExactInv', pc \in {"backup", "dirs", "leaves", "deletes", "verify", "undo"},
         UNCHANGED <<exec, base, pre, raced>>, pc' \in {"deletes", "undo"},
         pc # "backup" /\ ~raced /\ NoBystanders(AffectedDirs) =>
           \A q \in Path : src'[q] \in {src[q], Absent},
         pc = "backup" => UNCHANGED src
  PROVE  PartsInv'
<1>1. DirsStand'
  BY DEF DirsStand
<1>2. MixedStands'
  <2>1. /\ Affected' = Affected
        /\ NoBystanders(AffectedDirs)' <=> NoBystanders(AffectedDirs)
    BY ExactFrame
  <2>2. SUFFICES ASSUME ~raced, NoBystanders(AffectedDirs), NEW q \in Affected
                 PROVE  src'[q] \in {pre[q], Absent, exec[q]}
    BY <2>1 DEF MixedStands, Mixed
  <2>3. q \in Path
    BY DEF Affected, Changed, Deleted, ChangedIn, DeletedIn
  <2>4. CASE pc = "backup"
    BY <2>2, <2>4 DEF PartsInv, ExactInv, SafeInv, UntouchedInv
  <2>5. CASE pc # "backup"
    <3>1. src[q] \in {pre[q], Absent, exec[q]}
      BY <2>2, <2>5 DEF PartsInv, MixedStands, Mixed
    <3> QED BY <2>2, <2>3, <2>5, <3>1
  <2> QED BY <2>4, <2>5
<1> QED BY <1>1, <1>2 DEF PartsInv

\* Failures, and the removals of the commit and of the rollback.
LEMMA ShrinkingKeepsParts ==
  ASSUME PartsInv, ExactInv',
         \/ ReadBackFails \/ Interrupt
         \/ \E p \in Path : \/ BackupFails(p) \/ DeleteRefused(p) \/ InstallRefused(p)
                            \/ Delete(p) \/ Undo(p)
  PROVE  PartsInv'
<1>1. src \in [Path -> Node] /\ TypeInv
  BY DEF PartsInv, ExactInv, SafeInv, TypeInv, TypeOK, Tree
<1>2. \A gone : \A q \in Path : Erase(src, gone)[q] \in {src[q], Absent}
  BY DEF Erase
<1>3. CASE ReadBackFails \/ \E p \in Path : BackupFails(p) \/ DeleteRefused(p)
  <2>1. /\ UNCHANGED <<src, exec, base, pre, raced>> /\ pc' = "undo"
        /\ pc \in {"backup", "dirs", "leaves", "deletes", "verify", "undo"}
    BY <1>3 DEF ReadBackFails, BackupFails, DeleteRefused, EnterRollback, history
  <2> QED BY <2>1, RemovalKeepsParts
<1>4. CASE Interrupt
  <2>1. /\ UNCHANGED <<exec, base, pre, raced>> /\ pc' = "undo"
        /\ pc \in {"backup", "dirs", "leaves", "deletes", "verify", "undo"}
    BY <1>4 DEF Interrupt, EnterRollback, history, CommitPhases
  <2>2. \/ UNCHANGED src
        \/ pc # "backup" /\ \E gone : src' = Erase(src, gone)
    BY <1>4 DEF Interrupt
  <2>3. \A q \in Path : src'[q] \in {src[q], Absent}
    BY <1>2, <2>2
  <2> QED BY <2>1, <2>2, <2>3, RemovalKeepsParts
<1>5. ASSUME NEW p \in Path, InstallRefused(p) PROVE PartsInv'
  <2>1. /\ UNCHANGED <<exec, base, pre, raced>> /\ pc' = "undo"
        /\ pc \in {"dirs", "leaves"} /\ p \in Changed
        /\ pc = "dirs" => p \in ShallowFirst(todo)
    BY <1>5 DEF InstallRefused, EnterRollback, history, PartsInv, ExactInv, LoopKinds, ShallowFirst
  <2>2. src' \in {src, MkParents(src, p), RemovePath(MkParents(src, p), p)}
    BY <1>5 DEF InstallRefused
  <2>3. ASSUME ~raced, NoBystanders(AffectedDirs)
        PROVE  \A q \in Path : src'[q] \in {src[q], Absent}
    <3>1. NoBystanders(RemovedDirs)
      BY <2>3 DEF NoBystanders, RemovedDirs
    <3>2. \A a \in Anc[p] : src[a] # Absent
      BY <2>1, <2>3, <3>1, ParentsWereVisited DEF PartsInv
    <3>3. DefaultDir \in Entry
      BY TreeAssumption DEF Entry
    <3>4. MkParents(src, p) = src
      BY <1>1, <3>2, <3>3, InstallMixes
    <3>5. \A q \in Path : RemovePath(src, p)[q] \in {src[q], Absent}
      BY DEF RemovePath, Erase
    <3> QED BY <2>2, <3>4, <3>5
  <2> QED BY <2>1, <2>3, RemovalKeepsParts
<1>6. ASSUME NEW p \in Path, Delete(p) \/ Undo(p) PROVE PartsInv'
  <2>1. /\ UNCHANGED <<exec, base, pre, raced, pc>> /\ pc \in {"deletes", "undo"}
        /\ UNCHANGED src \/ src' = RemovePath(src, p)
    BY <1>6 DEF Delete, Undo, history
  <2>2. \A q \in Path : RemovePath(src, p)[q] \in {src[q], Absent}
    BY DEF RemovePath, Erase
  <2>3. \A q \in Path : src'[q] \in {src[q], Absent}
    BY <2>1, <2>2
  <2> QED BY <2>1, <2>3, RemovalKeepsParts
<1> QED BY <1>3, <1>4, <1>5, <1>6

\* Between the loops of the commit nothing moves.
LEMMA TurnKeepsParts ==
  ASSUME PartsInv, ExactInv', BackupDone \/ DirsDone \/ LeavesDone \/ DeletesDone
  PROVE  PartsInv'
<1>1. UNCHANGED <<src, exec, base, pre, raced>>
  BY DEF BackupDone, DirsDone, LeavesDone, DeletesDone, history
<1>2. /\ Affected' = Affected /\ ChangedDirs' = ChangedDirs
      /\ NoBystanders(AffectedDirs)' <=> NoBystanders(AffectedDirs)
      /\ NoBystanders(RemovedDirs)' <=> NoBystanders(RemovedDirs)
  BY <1>1, ExactFrame
<1>3. DirsStand'
  BY <1>1, <1>2 DEF PartsInv, DirsStand, BackupDone, DirsDone, LeavesDone, DeletesDone
<1>4. CASE BackupDone
  <2>1. ~raced => src = pre
    BY <1>4 DEF BackupDone, PartsInv, ExactInv, SafeInv, UntouchedInv
  <2>2. MixedStands'
    BY <1>1, <1>2, <2>1 DEF MixedStands, Mixed
  <2> QED BY <1>3, <2>2 DEF PartsInv
<1>5. CASE DirsDone \/ LeavesDone \/ DeletesDone
  <2>1. pc \in {"dirs", "leaves", "deletes", "verify", "undo"}
    BY <1>5 DEF DirsDone, LeavesDone, DeletesDone
  <2>2. MixedStands'
    BY <1>1, <1>2, <2>1 DEF PartsInv, MixedStands, Mixed
  <2> QED BY <1>3, <2>2 DEF PartsInv
<1> QED BY <1>4, <1>5

\* Every step keeps the parts.
LEMMA NextKeepsParts ==
  ASSUME PartsInv, [Next]_vars
  PROVE  PartsInv'
<1>1. ExactInv'
  BY NextIsExact DEF PartsInv
<1>2. CASE pc' \notin {"dirs", "leaves", "deletes", "verify", "undo"}
  BY <1>1, <1>2 DEF PartsInv, DirsStand, MixedStands
<1>3. CASE \/ Prepare \/ Work \/ Preserve \/ Gate \/ SnapshotFails \/ Snapshot
           \/ UndoRefused \/ RestoreRefused \/ RollbackInterrupted \/ Kill
           \/ CommitDone \/ RollbackDone \/ UndoDone \/ \E p \in Path : Backup(p) \/ Restore(p)
  <2>1. pc' \notin {"dirs", "leaves", "deletes", "verify", "undo"}
    BY <1>3 DEF Prepare, OpenFresh, OpenResumed, OpenDirect, Work, Preserve, Gate,
      FinalizeNothing, FinalizeConflict, FinalizeStart, SnapshotFails, Snapshot, UndoRefused,
      RestoreRefused, RollbackInterrupted, Kill, CommitDone, RollbackDone, UndoDone, Backup,
      Restore
  <2> QED BY <1>2, <2>1
<1>4. CASE BackupDone \/ DirsDone \/ LeavesDone \/ DeletesDone
  BY <1>1, <1>4, TurnKeepsParts
<1>5. ASSUME NEW p \in Path, InstallDir(p) \/ InstallLeaf(p) PROVE PartsInv'
  BY <1>1, <1>5, InstallKeepsParts
<1>6. CASE \/ ReadBackFails \/ Interrupt
           \/ \E p \in Path : \/ BackupFails(p) \/ DeleteRefused(p) \/ InstallRefused(p)
                              \/ Delete(p) \/ Undo(p)
  BY <1>1, <1>6, ShrinkingKeepsParts
<1>7. ASSUME NEW p \in Path, UserEdit(p) PROVE PartsInv'
  <2>1. raced' = TRUE
    BY <1>7 DEF UserEdit
  <2> QED BY <1>1, <2>1 DEF PartsInv, DirsStand, MixedStands
<1>8. CASE UNCHANGED vars
  <2>1. UNCHANGED <<src, exec, base, pre, pc, todo, raced>>
    BY <1>8 DEF vars
  <2>2. /\ Affected' = Affected /\ ChangedDirs' = ChangedDirs
        /\ NoBystanders(AffectedDirs)' <=> NoBystanders(AffectedDirs)
        /\ NoBystanders(RemovedDirs)' <=> NoBystanders(RemovedDirs)
    BY <2>1, ExactFrame
  <2> QED BY <1>1, <2>1, <2>2 DEF PartsInv, DirsStand, MixedStands, Mixed
<1> QED BY <1>3, <1>4, <1>5, <1>6, <1>7, <1>8
    DEF Next, Finalizing, CommitTurn, CommitStep, Rollback

\* A tree of the promise is a tree.
LEMMA PromisedTrees ==
  /\ Promise!Tree = Tree /\ Promise!EmptyTree = EmptyTree
  /\ \A t : Promise!Manifest(t) = Manifest(t)
BY DEF Promise!Tree, Tree, Promise!EmptyTree, EmptyTree, Promise!Manifest, Manifest,
  Promise!Node, Node, Promise!Entry, Entry

\* What differs for the promise is what the commit is about.
LEMMA PromisedDifference ==
  ASSUME TypeInv
  PROVE  Promise!Differs = Affected
BY DEF Promise!Differs, Affected, Changed, Deleted, ChangedIn, DeletedIn

\* Around the transaction: the agent's private view, and the end of a run without a commit.
LEMMA OutsideImplements ==
  ASSUME PartsInv, TypeInv', Undisturbed', 
         Prepare \/ Work \/ Preserve \/ Gate \/ SnapshotFails \/ \E p \in Path : UserEdit(p)
  PROVE  [Promise!Next]_(Promise!avars)
<1>1. TypeInv /\ exec' \in Tree /\ src' \in Tree
  BY DEF PartsInv, ExactInv, SafeInv, TypeInv, TypeOK
<1>2. CASE OpenFresh \/ OpenResumed
  <2>1. /\ pc = "idle" /\ pc' = "open" /\ base' = Manifest(src) /\ UNCHANGED src
    BY <1>2 DEF OpenFresh, OpenResumed
  <2>2. Promise!Begin
    BY <1>1, <2>1, PromisedTrees DEF Promise!Begin, CommitPhases, RollbackPhases
  <2> QED BY <2>2 DEF Promise!Next
<1>3. CASE OpenDirect
  <2>1. pc = "idle" /\ pc' = "direct" /\ UNCHANGED <<src, exec, base, pre>>
    BY <1>3 DEF OpenDirect, history
  <2> QED BY <2>1 DEF Promise!avars, CommitPhases, RollbackPhases
<1>4. CASE Work
  <2>1. pc = "open" /\ pc' = "open" /\ UNCHANGED <<src, base, pre>>
    BY <1>4 DEF Work, history
  <2>2. Promise!Rework
    BY <1>1, <2>1, PromisedTrees DEF Promise!Rework, CommitPhases, RollbackPhases
  <2> QED BY <2>2 DEF Promise!Next
<1>5. CASE Preserve
  <2>1. /\ pc \in {"open", "refused", "rolledback"} /\ pc' = "idle"
        /\ UNCHANGED <<src, exec, base, pre>>
    BY <1>5 DEF Preserve, history
  <2>2. CASE pc = "open"
    <3>1. Promise!GiveUp
      BY <2>1, <2>2 DEF Promise!GiveUp, CommitPhases, RollbackPhases
    <3> QED BY <3>1 DEF Promise!Next
  <2>3. CASE pc # "open"
    BY <2>1, <2>3 DEF Promise!avars, CommitPhases, RollbackPhases
  <2> QED BY <2>2, <2>3
<1>6. CASE FinalizeNothing \/ FinalizeConflict \/ SnapshotFails
  <2>1. /\ pc \in {"open", "snapshot"} /\ pc' \in {"committed", "refused"}
        /\ UNCHANGED <<src, exec, base>>
    BY <1>6 DEF FinalizeNothing, FinalizeConflict, SnapshotFails
  <2>2. Promise!GiveUp
    BY <2>1 DEF Promise!GiveUp, CommitPhases, RollbackPhases
  <2> QED BY <2>2 DEF Promise!Next
<1>7. CASE FinalizeStart
  <2>1. pc = "open" /\ pc' = "snapshot" /\ UNCHANGED <<src, exec, base>>
    BY <1>7 DEF FinalizeStart
  <2>2. Promise!Submit
    BY <2>1 DEF Promise!Submit, CommitPhases, RollbackPhases
  <2> QED BY <2>2 DEF Promise!Next
<1>8. ASSUME NEW p \in Path, UserEdit(p) PROVE Promise!Outside
  <2>1. raced' = TRUE /\ UNCHANGED <<pc, exec, base>> /\ pc \in Phases
    BY <1>1, <1>8 DEF UserEdit, TypeInv, TypeOK
  <2>2. pc \notin {"snapshot"} \cup InTransaction
    BY <2>1 DEF Undisturbed, InTransaction
  <2> QED
    BY <1>1, <2>1, <2>2, PromisedTrees DEF Promise!Outside, InTransaction, CommitPhases,
      RollbackPhases, Phases, RestPhases
<1> QED BY <1>2, <1>3, <1>4, <1>5, <1>6, <1>7, <1>8 DEF Prepare, Gate, Promise!Next

\* Inside the transaction nothing is seen, ...
LEMMA InsideImplements ==
  ASSUME UNCHANGED <<exec, base, pre>>, pc \in CommitPhases \cup RollbackPhases,
         pc' \in CommitPhases \cup RollbackPhases
  PROVE  UNCHANGED Promise!avars
BY DEF Promise!avars, CommitPhases, RollbackPhases

\* ... and when it is cut short there are parts of the two trees.
LEMMA TearImplements ==
  ASSUME PartsInv, Undisturbed, Kill \/ UndoRefused \/ RestoreRefused \/ RollbackInterrupted
  PROVE  Promise!Tear
<1>1. /\ UNCHANGED <<src, exec, base, pre>> /\ pc' \in {"stuck", "killed"}
      /\ pc \in CommitPhases \cup RollbackPhases
  BY DEF Kill, UndoRefused, RestoreRefused, RollbackInterrupted, history, RollbackPhases
<1>2. TypeInv /\ src \in Tree
  BY DEF PartsInv, ExactInv, SafeInv, TypeInv, TypeOK
<1>3. /\ ~raced /\ NoBystanders(AffectedDirs) /\ NoBystanders(RemovedDirs)
      /\ pc \in RollbackPhases => Restorable
  <2>1. ~raced /\ NoBystanders(AffectedDirs) /\ (pc \in RollbackPhases => Restorable)
    BY <1>1 DEF Undisturbed, InTransaction, Restorable
  <2> QED BY <2>1 DEF NoBystanders, RemovedDirs
<1>4. ASSUME NEW q \in Path
      PROVE  src[q] \in {pre[q], Absent} \cup (IF q \in Affected THEN {exec[q]} ELSE {})
  <2>1. CASE pc = "backup"
    BY <1>3, <2>1 DEF PartsInv, ExactInv, SafeInv, UntouchedInv
  <2>2. CASE pc = "restore"
    BY <1>3, <2>2 DEF PartsInv, ExactInv, RollbackStands, RollbackPhases, Standing
  <2>3. CASE pc \in {"dirs", "leaves", "deletes", "verify", "undo"}
    <3>1. q \in Affected => src[q] \in {pre[q], Absent, exec[q]}
      BY <1>3, <2>3 DEF PartsInv, MixedStands, Mixed
    <3>2. Standing
      BY <1>3, <2>3 DEF PartsInv, ExactInv, CommitStands, RollbackStands, RollbackPhases
    <3> QED BY <3>1, <3>2 DEF Standing
  <2> QED BY <1>1, <2>1, <2>2, <2>3 DEF CommitPhases, RollbackPhases
<1>5. Promise!Differs = Affected
  BY <1>2, PromisedDifference
<1> QED
  BY <1>1, <1>2, <1>4, <1>5, PromisedTrees DEF Promise!Tear, CommitPhases, RollbackPhases

\* The ends: all of the difference is there, or nothing of it.
LEMMA EndImplements ==
  ASSUME PartsInv, PartsInv', Undisturbed, CommitDone \/ RollbackDone
  PROVE  Promise!Commit \/ Promise!GiveUp
<1>1. /\ UNCHANGED <<src, exec, base, pre, raced, secured>>
      /\ pc \in CommitPhases \cup RollbackPhases /\ pc \in InTransaction
  BY DEF CommitDone, RollbackDone, history, CommitPhases, RollbackPhases, InTransaction
<1>2. /\ Affected' = Affected
      /\ NoBystanders(AffectedDirs)' <=> NoBystanders(AffectedDirs)
      /\ NoBystanders(RemovedDirs)' <=> NoBystanders(RemovedDirs)
      /\ PlainParents' <=> PlainParents
  BY <1>1, ExactFrame
<1>3. /\ ~raced /\ NoBystanders(AffectedDirs) /\ NoBystanders(RemovedDirs) /\ PlainParents
      /\ pc \in RollbackPhases => secured
  BY <1>1 DEF Undisturbed, NoBystanders, RemovedDirs
<1>4. CASE CommitDone
  <2>1. pc = "verify" /\ pc' = "committed"
    BY <1>4 DEF CommitDone
  <2>2. src' = [p \in Path |-> IF p \in Affected THEN exec[p] ELSE pre[p]]
    BY <1>1, <1>2, <1>3, <2>1 DEF PartsInv, ExactInv, OutcomeIsExact, CommitIsExact
  <2>3. \A p \in Affected : pre[p] = base[p]
    BY <1>1 DEF PartsInv, ExactInv, SafeInv, CommitsOntoBaseline
  <2>4. Promise!Differs = Affected
    BY PromisedDifference DEF PartsInv, ExactInv, SafeInv
  <2>5. Promise!Commit
    BY <1>1, <2>1, <2>2, <2>3, <2>4 DEF Promise!Commit, CommitPhases, RollbackPhases
  <2> QED BY <2>5
<1>5. CASE RollbackDone
  <2>1. pc = "restore" /\ pc' = "rolledback"
    BY <1>5 DEF RollbackDone
  <2>2. src' = pre
    BY <1>1, <1>2, <1>3, <2>1 DEF PartsInv, ExactInv, OutcomeIsExact, RollbackRestores,
      RollbackPhases
  <2>3. Promise!GiveUp
    BY <1>1, <2>1, <2>2 DEF Promise!GiveUp, CommitPhases, RollbackPhases
  <2> QED BY <2>3
<1> QED BY <1>4, <1>5

\* Every step of an undisturbed run is a step of the promise, or none.
LEMMA StepImplements ==
  ASSUME PartsInv, PartsInv', Undisturbed, Undisturbed', [Next]_vars
  PROVE  [Promise!Next]_(Promise!avars)
<1>1. TypeInv'
  BY DEF PartsInv, ExactInv, SafeInv
<1>2. CASE Prepare \/ Work \/ Preserve \/ Gate \/ SnapshotFails \/ \E p \in Path : UserEdit(p)
  BY <1>1, <1>2, OutsideImplements
<1>3. CASE Kill \/ UndoRefused \/ RestoreRefused \/ RollbackInterrupted
  BY <1>3, TearImplements DEF Promise!Next
<1>4. CASE CommitDone \/ RollbackDone
  BY <1>4, EndImplements DEF Promise!Next
<1>5. CASE Snapshot
  <2>1. pc = "snapshot" /\ pc' = "backup" /\ UNCHANGED <<src, exec, base, pre>>
    BY <1>5 DEF Snapshot, history
  <2>2. src = pre
    BY <2>1 DEF PartsInv, ExactInv, SafeInv, UntouchedInv, Undisturbed
  <2> QED BY <2>1, <2>2 DEF Promise!avars, CommitPhases, RollbackPhases
<1>6. CASE \/ BackupDone \/ DirsDone \/ LeavesDone \/ DeletesDone \/ UndoDone
           \/ ReadBackFails \/ Interrupt
           \/ \E p \in Path : \/ Backup(p) \/ BackupFails(p) \/ InstallDir(p) \/ InstallLeaf(p)
                              \/ InstallRefused(p) \/ Delete(p) \/ DeleteRefused(p)
                              \/ Undo(p) \/ Restore(p)
  <2>1. UNCHANGED <<exec, base, pre>> /\ pc \in CommitPhases \cup RollbackPhases
        /\ pc' \in CommitPhases \cup RollbackPhases
    BY <1>6 DEF BackupDone, DirsDone, LeavesDone, DeletesDone, UndoDone, ReadBackFails, Interrupt,
      Backup, BackupFails, InstallDir, InstallLeaf, InstallRefused, Delete, DeleteRefused, Undo,
      Restore, EnterRollback, history, CommitPhases, RollbackPhases
  <2> QED BY <2>1, InsideImplements
<1>7. CASE UNCHANGED vars
  BY <1>7 DEF vars, Promise!avars
<1> QED BY <1>2, <1>3, <1>4, <1>5, <1>6, <1>7
    DEF Next, Finalizing, CommitTurn, CommitStep, Rollback

\* At the start nothing runs.
LEMMA InitHasParts ==
  ASSUME Init, SafeInv
  PROVE  PartsInv
BY DEF Init, PartsInv, DirsStand, MixedStands, ExactInv, ParentsStand, LoopKinds, BackupExact,
  CommitStands, RollbackStands, InTransaction, CommitPhases, RollbackPhases, OutcomeIsExact,
  CommitIsExact, RollbackRestores

\* As long as a transaction is undisturbed, whoever looks at the directory when none runs sees
\* the old tree or the new one: finalize() of workspace_backend.py, for all its steps, puts
\* the difference in place at once and onto what the agent saw, or leaves everything as it
\* was; and where it is killed, or the rollback fails, each path has its old entry, its new
\* one or none.
THEOREM CommitIsAtomic == Spec /\ []Undisturbed => ImplementsAtomicCommit
<1>1. Init => Promise!Init
  BY PromisedTrees DEF Init, Promise!Init, CommitPhases, RollbackPhases
<1>2. Init /\ SafeInv => PartsInv
  BY InitHasParts
<1>3. PartsInv /\ [Next]_vars => PartsInv'
  BY NextKeepsParts
<1>4. PartsInv /\ PartsInv' /\ Undisturbed /\ Undisturbed' /\ [Next]_vars
        => [Promise!Next]_(Promise!avars)
  BY StepImplements
<1>5. Spec => []SafeInv
  BY SafeAlways
<1> QED BY <1>1, <1>2, <1>3, <1>4, <1>5, PTL DEF Spec, ImplementsAtomicCommit, Promise!Spec
================================================================================
