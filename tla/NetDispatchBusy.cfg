CONSTANTS
  n1 = n1  n2 = n2
  Nodes <- MCNodes
  Reports <- MCReports
  Configs <- MCConfigs
  nullptr = nullptr
  TaskFactor = 75
  MaxCrashes = 0
  MaxEmpty = 1
SPECIFICATION Spec
INVARIANT OneJobPerNode
CHECK_DEADLOCK FALSE
