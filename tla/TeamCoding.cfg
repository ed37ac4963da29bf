SPECIFICATION FairSpec
CONSTANTS
  p1 = p1
  p2 = p2
  Lanes = 2
  Provider = {p1, p2}
  Assignments <- SharedOrNot
  Coders = 1
  Limit = 1
  TeamQuorum = 1
  MaxResumes = 1
INVARIANTS
  MergeInputsVerified
  LanesAreClosed
PROPERTIES
  StageEnds
CHECK_DEADLOCK FALSE
