SPECIFICATION Spec
CONSTANTS
  d = d
  a = a
  b = b
  c = c
  h = h
  i = i
  v = v
  f1 = f1
  f2 = f2
  m0 = m0
  m1 = m1
  out = out
  none = none
  Path = {d, a, b, c}
  Anc <- Parents
  Depth <- Levels
  File = {f1, f2}
  Dir = {m0}
  Link = {}
  Absent = none
  DefaultDir = m0
  Transient = {}
  Sources <- PlainSources
  Candidates <- GrowCandidates
  EditPhases = {"open"}
  MaxEdits = 1
  MaxSessions = 1
  Faults = {"commit", "rollback", "kill"}
PROPERTIES
  ImplementsAtomicCommit
CHECK_DEADLOCK FALSE
