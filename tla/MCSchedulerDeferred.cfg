SPECIFICATION FairSpec
CONSTANTS
  hourly = hourly
  deploy = deploy
  nightly = nightly
  Rules <- MCDeferredRules
  TriggerOf <- MCDeferredTriggers
  Edits <- MCDeferredEdits
  Requested <- MCDeferredRules
  Interval = 1
  Day = 2
  Target = 1
  MaxConcurrentRuns = 1
  HistoryLimit = 1
  MaxLive = 3
PROPERTIES
  DeferredFires
CHECK_DEADLOCK FALSE
