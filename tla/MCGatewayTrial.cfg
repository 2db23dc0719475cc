SPECIFICATION FairSpec
CONSTANTS
  p1 = p1
  p2 = p2
  c1 = c1
  c2 = c2
  Providers <- MCProviders
  Calls <- MCCalls
  Requests <- MCRequests
  FailureThreshold = 2
  HalfOpenSuccesses = 2
  Policies <- MCPolicies
INVARIANTS
  SingleTrial
CHECK_DEADLOCK FALSE
