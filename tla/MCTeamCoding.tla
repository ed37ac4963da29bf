----------------------------- MODULE MCTeamCoding -----------------------------
(* Small CODE stages for TLC.                                                *)
EXTENDS TeamCoding

CONSTANTS p1, p2

\* The lanes share a provider, or do not.
SharedOrNot == {[l \in Lane |-> p1], [l \in Lane |-> IF l = 1 THEN p1 ELSE p2]}
================================================================================
