\* Two scans contending for one permit and a command over a pool of one.
SPECIFICATION FairSpec
CONSTANTS
  s1 = s1
  s2 = s2
  g1 = g1
  Calls <- MCCalls
  Discovery <- MCDiscovery
  MaxConcurrent = 1
  MaxDiscovery = 1
INVARIANTS
  PermitsConserved
  ProgramsBounded
  ResultIsComplete
PROPERTIES
  AcceptedCallReturns
  GateSpec
CHECK_DEADLOCK FALSE
