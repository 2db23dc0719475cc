SPECIFICATION FairSpec
CONSTANTS
  c1 = c1
  c2 = c2
  t1 = t1
  t2 = t2
  t3 = t3
  t4 = t4
  t5 = t5
  p = p
  q = q
  x = x
  y = y
  absent = absent
  torn = torn
  binary = binary
  Callers <- MCCallers
  Tasks <- MCTasks
  Batch <- MCBatch
  Roster <- MCRoster
  Score <- MCScore
  Forced <- MCForced
  NoAgent = NoAgent
  MinSuitability = 10
  Plans <- MCPlans
  Thoughts <- MCThoughts
  Judges <- MCJudges
  MaxPlanSteps = 3
  RollbackOnFailure = TRUE
  Handled <- MCHandled
  Paths <- MCPaths
  Contents <- MCContents
  InitialWorld <- MCWorld
  Absent = absent
  Unreadable <- MCUnreadable
  Torn = torn
  NoUndo = NoUndo
  Idle = Idle
  None = None
  HasExecution = TRUE
  SearchRoots <- MCSearchRoots
  Drafts <- MCDrafts
  Nothing = absent

  
PROPERTIES
  Accounted
CHECK_DEADLOCK FALSE
