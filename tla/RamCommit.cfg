SPECIFICATION FairSpec
CONSTANTS
  d = d
  a = a
  b = b
  c = c
  h = h
  i = i
  v = v
  f1 = f1
  f2 = f2
  m0 = m0
  m1 = m1
  out = out
  none = none
  Path = {d, a, v}
  Anc <- Parents
  Depth <- Levels
  File = {f1, f2}
  Dir = {m0, m1}
  Link = {out}
  Absent = none
  DefaultDir = m0
  Transient = {v}
  Sources <- KindSources
  Candidates <- KindCandidates
  EditPhases <- AllPhases
  MaxEdits = 1
  MaxSessions = 2
  Faults = {"backup", "commit", "rollback", "kill"}
INVARIANTS
  ContentRecoverable
  OutcomeIsExact
  UnrelatedEditsSurvive
  CommitsOntoBaseline
PROPERTIES
  FinalizeEnds
  ResumeContinues
CHECK_DEADLOCK FALSE
