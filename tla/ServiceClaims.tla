------------------------------ MODULE ServiceClaims ------------------------------
(***************************************************************************)
(* What the repository says of its services, and the code contradicts.     *)
(***************************************************************************)
EXTENDS MCServices

\* aicoder/privileges.py:309 "destructive operations always require explicit approval": a
\* call that deletes runs only when the user was asked about it and said yes.
DeletionsAreConfirmed ==
  \A r \in DOMAIN ran : "delete" \in made[r].call => said[r] = "yes"

\* aicoder/settings.py:14 "guarded by an advisory file lock so that a concurrent CLI and GUI
\* process cannot lose each other's update": while nobody damages it, the file holds the
\* last value written to each setting.
NoUpdateIsLost ==
  damage = 0 => file = wanted \/ (file = Missing /\ wanted = Defaults)

\* aicoder/gui/settings_widget.py:750 "Make CLI/REPL changes visible in a running GUI without
\* a restart.": when the tab has compared the file with what it last took from it, every
\* control the user has not touched shows what the file holds; a list with a text field whose
\* text and item came apart aside.
ExternalChangesShow ==
  polled => \A k \in WindowKeys \ (entered \cup slipped) : shows[k] = saved[k]
=================================================================================
