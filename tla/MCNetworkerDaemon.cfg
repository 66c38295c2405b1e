\* Two requests, two agents of the cell; a fault and a stop.
CONSTANTS
  h1 = h1
  h2 = h2
  host = host
  meta = meta
  r1 = r1
  agent1 = agent1
  agent2 = agent2
  NONE = NONE
  NoCaller = NoCaller
  Absent = Absent
  Daemon = daemon
  RedirectRule = redirect
  Callers = {daemon, agent1, agent2}
  Spaces = {host, h1, h2}
  Clients = {k1, k2}
  Handles = {h1, h2}
  Properties <- MCProperties
  AgentCalls <- MCAgentCalls
  Redirects = TRUE
  MaxChain = 1
  MaxFDs = 2
  MaxFaults = 1
  MaxStops = 1
SPECIFICATION FairSpec
CHECK_DEADLOCK FALSE
INVARIANTS
  AddGetsOwnConfig
PROPERTIES
  CallsAreAtomic
  AnsweredMeansDone
  EveryConnectionEnds
  ListensAgain
