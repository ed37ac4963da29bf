SPECIFICATION Spec
CONSTANTS
  Options <- SomeOptions
  Batches <- CodeThenDoc
  Limit = 1
  MaxPlans = 1
  MaxCrashes = 0
  MaxStarts = 1
INVARIANTS CodeIsChecked
CHECK_DEADLOCK FALSE
