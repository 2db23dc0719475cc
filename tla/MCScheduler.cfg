SPECIFICATION FairSpec
CONSTANTS
  hourly = hourly
  deploy = deploy
  nightly = nightly
  Rules <- MCRules
  TriggerOf <- MCTriggers
  Edits <- MCEdits
  Requested <- MCRequested
  Interval = 1
  Day = 2
  Target = 1
  MaxConcurrentRuns = 1
  HistoryLimit = 1
  MaxLive = 3
INVARIANTS
  SchedulerTypeOK
  NoOverlap
  
PROPERTIES
  OncePerSignal
  
  RulesKeepFiring
CHECK_DEADLOCK FALSE
