CONSTANTS
  n1 = n1  n2 = n2
  Nodes <- MCNodes
  Reports <- MCReports
  Configs <- MCConfigs
  nullptr = nullptr
  TaskFactor = 75
  MaxCrashes = 1
  MaxEmpty = 1
SPECIFICATION FairSpec
INVARIANTS TypeOK EachConfigOnce ResultAccounted 
PROPERTY RequestEnds
CHECK_DEADLOCK FALSE
