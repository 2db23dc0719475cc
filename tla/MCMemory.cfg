SPECIFICATION Spec
CONSTANTS
  c1 = c1
  c2 = c2
  Clients <- MCClients
  Files <- MCFiles
  MaxTurns = 5
  FactTurns <- MCFactTurns
  TurnLimit = 3
  ConsolidateAfter = 2
  KeepTurns = 1
  MaxRecords = 1
  MaxAsides = 1
  MaxMishaps = 1
  NoCache = NoCache
SYMMETRY MCSymmetry
INVARIANTS
  MemoryTypeOK
  
  
  CeilingOverrun
  FactFollows
CHECK_DEADLOCK FALSE
