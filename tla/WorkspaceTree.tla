----------------------------- MODULE WorkspaceTree -----------------------------
(***************************************************************************)
(* A directory tree as a function from workspace-relative paths to what    *)
(* lies there, and the file operations aicoder/workspace_backend.py is     *)
(* built from.  A path is a model value; Anc gives its strict ancestors    *)
(* below the workspace root.  What `_Entry` distinguishes is kept: a File  *)
(* value stands for one content and mode, a Dir value for a directory with *)
(* one mode, a Link value for a symlink whose target lies outside the      *)
(* workspace.  A symlink that stays inside is replaced and compared as a   *)
(* file is, so it is a File value.                                         *)
(***************************************************************************)
EXTENDS Naturals

CONSTANTS
  Path,        \* the workspace-relative paths of the instance
  Anc,         \* Anc[p]: the strict ancestors of p below the root
  Depth,       \* Depth[p]: how many there are, p.count("/")
  File,        \* regular files, one value per content and mode
  Dir,         \* directories, one value per mode
  Link,        \* symlinks that leave the workspace
  Absent,      \* nothing lies at the path
  DefaultDir,  \* the directory mkdir makes under the process's umask
  Transient    \* paths _iter_tree never yields (caches, virtual environments)

Entry == File \cup Dir \cup Link
Node == Entry \cup {Absent}

ASSUME TreeAssumption ==
  /\ Anc \in [Path -> SUBSET Path]
  /\ \A p \in Path : p \notin Anc[p] /\ \A q \in Anc[p] : Anc[q] \subseteq Anc[p]
  /\ Depth \in [Path -> Nat]
  /\ \A p \in Path : \A q \in Anc[p] : Depth[q] < Depth[p]
  /\ File \cap Dir = {} /\ File \cap Link = {} /\ Dir \cap Link = {}
  /\ Absent \notin Entry
  /\ DefaultDir \in Dir
  /\ Transient \subseteq Path
  /\ \A p \in Path : Anc[p] \cap Transient # {} => p \in Transient

Below(p) == {q \in Path : p \in Anc[q]}
Subtree(p) == Below(p) \cup {p}

\* The trees a file system can hold: whatever exists lies in directories.
Tree == {t \in [Path -> Node] :
           \A p \in Path : t[p] # Absent => \A a \in Anc[p] : t[a] \in Dir}

Present(t) == {p \in Path : t[p] # Absent}

EmptyTree == [p \in Path |-> Absent]

\* What _manifest records of a tree: everything but the transient names.
Manifest(t) == [p \in Path |-> IF p \in Transient THEN Absent ELSE t[p]]

\* The paths whose entry differs, as _delta classifies them.
ChangedIn(base, now) == {p \in Path : now[p] # Absent /\ now[p] # base[p]}
DeletedIn(base, now) == {p \in Path : base[p] # Absent /\ now[p] = Absent}

\* A file or an escaping symlink occupies the place of an ancestor directory.
Blocked(t, p) == \E a \in Anc[p] : t[a] \in File \cup Link
ThroughLink(t, p) == \E a \in Anc[p] : t[a] \in Link

Erase(t, gone) == [p \in Path |-> IF p \in gone THEN Absent ELSE t[p]]

\* _remove_path: unlink a file or symlink, rmtree a directory.
RemovePath(t, p) == Erase(t, Subtree(p))

\* What an rmtree or unlink that is cut short may have removed: children go
\* before the directory that holds them.
Erasures(t, p) ==
  {gone \in SUBSET (Subtree(p) \cap Present(t)) :
     \A q \in gone : Below(q) \cap Present(t) \subseteq gone}

\* target.parent.mkdir(parents=True, exist_ok=True)
MkParents(t, p) ==
  [q \in Path |-> IF q \in Anc[p] /\ t[q] = Absent THEN DefaultDir ELSE t[q]]

\* _atomic_install of an entry that it accepts: a directory is created or
\* re-moded with its children kept, anything else replaces what was there.
Install(t, p, e) ==
  IF e \in Dir THEN [MkParents(t, p) EXCEPT ![p] = e]
               ELSE [MkParents(RemovePath(t, p), p) EXCEPT ![p] = e]

\* The loops sorted by item.count("/") and the reversed ones.  Paths of one depth
\* come in name order, which is any order here.
ShallowFirst(todo) == {p \in todo : \A q \in todo : Depth[p] <= Depth[q]}
DeepestFirst(todo) == {p \in todo : \A q \in todo : Depth[q] <= Depth[p]}
================================================================================
