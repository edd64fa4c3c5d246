SPECIFICATION Spec
CONSTANTS
  Budget = 2
  Room = 2
  MaxText = 2
  MaxBatch = 1
  MaxTasks = 1
PROPERTY ChildReturns
CHECK_DEADLOCK FALSE
