SPECIFICATION FairSpec
CONSTANTS
  t1 = t1
  t2 = t2
  p = p
  x = x
  y = y
  absent = absent
  torn = torn
  binary = binary
  directory = directory
  Tasks <- MCTasks
  Paths <- MCPaths
  Texts <- MCTexts
  Absent = absent
  Torn = torn
  Binary = binary
  Directory = directory
  Configs <- MCFewConfigs
  CustomPlans <- MCCustomPlans
  Actions <- MCFewActions
PROPERTIES
  
  ImplementsPipeline
CHECK_DEADLOCK FALSE
