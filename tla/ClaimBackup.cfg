SPECIFICATION Spec
CONSTANTS
  d = d
  a = a
  b = b
  c = c
  h = h
  i = i
  v = v
  f1 = f1
  f2 = f2
  m0 = m0
  m1 = m1
  out = out
  none = none
  Path = {d, a, h, i}
  Anc <- Parents
  Depth <- Levels
  File = {f1, f2}
  Dir = {m0, m1}
  Link = {out}
  Absent = none
  DefaultDir = m0
  Transient = {}
  Sources <- SwapSources
  Candidates <- SwapCandidates
  EditPhases = {}
  MaxEdits = 0
  MaxSessions = 1
  Faults = {}
INVARIANTS
  AffectedSetRolledBack
CHECK_DEADLOCK FALSE
