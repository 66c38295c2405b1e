\* Two containers; a write of the state file may be cut short.
CONSTANTS
  c1 = c1
  c2 = c2
  p1 = p1
  p2 = p2
  Handles = {c1, c2}
  Procs = {p1, p2}
  NONE = NONE
  StartPort = 5
  Capacity = 2
  NetIns <- MCNetIns
  MaxFailures = 2
  MaxTorn = 1
SPECIFICATION FairSpec
INVARIANTS
  NoSharedPort
  PortsAllocated
  DownCleansUp
PROPERTY
  EveryCallReturns
