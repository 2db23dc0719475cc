SPECIFICATION FairTxSpec
CONSTANTS
  s1 = s1
  s2 = s2
  s3 = s3
  other = other
  p = p
  x = x
  absent = absent
  torn = torn
  binary = binary
  directory = directory
  Tasks <- MCTasks
  Slot <- MCSlot
  MaxActions = 3
  Batches <- MCBatches
  Paths <- MCPaths
  Texts <- MCTexts
  Absent = absent
  Torn = torn
  Binary = binary
  Directory = directory
  Configs <- MCConfigs
  CustomPlans <- MCCustomPlans
  Actions <- MCActions
  OtherActions <- MCOtherActions
INVARIANTS
  FailureCompensates
CHECK_DEADLOCK FALSE
