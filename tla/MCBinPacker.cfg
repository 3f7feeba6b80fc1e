CONSTANTS
  Nodes = {n1, n2}
  Idle = Idle
  Absent = Absent
  Priorities = {0, 1, 2}
  MaxTasks = 4
  Reports <- MCReports
  Requests <- MCRequests
SPECIFICATION Spec
SYMMETRY Symmetry
INVARIANTS
  FailsOnlyWhenNothingFits
  PlacedWhereReconciled
  WeightsAreUsed
  SliceIsBestOfNode
PROPERTIES
  EvictsLeastImportant
