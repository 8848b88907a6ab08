CONSTANTS
  Tools = {"t1"}
  Outputs = {0, 1}
  PreviewLimit = 1
  MaxItems = 3
  MaxEvents = 4
  MaxTurns = 1
  MaxSnapshots = 0
SPECIFICATION Spec
INVARIANTS SameOutput
CHECK_DEADLOCK FALSE
