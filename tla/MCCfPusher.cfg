\* Three apps, two goroutines at a time, one retry, three faults.
CONSTANTS
  registry = registry
  tick0 = tick0
  tick1 = tick1
  Absent = Absent
  Groups <- MCGroups
  Desired <- MCDesired
  Concurrency = 2
  MaxRetries = 1
  MaxInstances = 2
  MaxFaults = 3
SPECIFICATION FairSpec
CHECK_DEADLOCK FALSE
INVARIANTS
  SuccessMeansReady
PROPERTIES
  RunEnds
  RerunsConverge
