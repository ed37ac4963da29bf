SPECIFICATION FairSpec
CONSTANTS
  Options <- SomeOptions
  Batches <- SmallBatches
  Limit = 1
  MaxPlans = 2
  MaxCrashes = 1
  MaxStarts = 2
INVARIANTS
  CompletedIsSound
  PlanTellsTheEnd
  StopIsPrompt
  CurrentIsBehind
PROPERTIES
  RunEnds
CHECK_DEADLOCK FALSE
