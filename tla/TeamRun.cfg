SPECIFICATION FairSpec
CONSTANTS
  r1 = r1
  r2 = r2
  fix = fix
  add = add
  a = a
  b = b
  old = old
  new = new
  usr = usr
  Run = {r1, r2}
  Task = {fix, add}
  Schedules <- OneOrTwo
  Lane = {1, 2}
  Path = {a, b}
  Value = {old, new, usr}
  Sources <- OldTree
  Good <- Fitting
  ByAgent = {new}
  ByUser = {usr}
  UserPaths = {a}
INVARIANTS
  StatusTellsTheDisk
PROPERTIES
  CommitsOwnWork
  VerifiedOnDisk
  StoppedRunsStayOff
  RunsEnd
CHECK_DEADLOCK FALSE
