--------------------------- MODULE RamWorkspaceClaims ---------------------------
(***************************************************************************)
(* What the repository's documents and comments say of the transaction     *)
(* without the conditions RamWorkspace attaches to it.  A behaviour of the *)
(* code contradicts it; README.md explains the run.                        *)
(***************************************************************************)
EXTENDS MCRamWorkspace

\* README.md "rolls the affected set back if persistence fails or is
\* interrupted": after a rollback every affected path is as it was.
AffectedSetRolledBack ==
  pc = "rolledback" /\ ~raced => \A p \in Affected : src[p] = pre[p]
================================================================================
