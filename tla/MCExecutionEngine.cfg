SPECIFICATION FairSpec
CONSTANTS
  t1 = t1
  t2 = t2
  p = p
  x = x
  y = y
  absent = absent
  torn = torn
  binary = binary
  directory = directory
  Tasks <- MCTasks
  Paths <- MCPaths
  Texts <- MCTexts
  Absent = absent
  Torn = torn
  Binary = binary
  Directory = directory
  Configs <- MCConfigs
  CustomPlans <- MCCustomPlans
  Actions <- MCActions
INVARIANTS
  TypeOK
  EffectsAuthorised
  GrantsEarned
  OpenApprovalsExact
  
  
  OneRecordEach
CHECK_DEADLOCK FALSE
