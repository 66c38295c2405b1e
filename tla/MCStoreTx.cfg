\* Two overlapping sessions; three calls are enough to fill the tables and
\* then have two calls race on them.
CONSTANTS
  a = a
  b = b
  tcp80 = tcp80
  s1 = s1
  s2 = s2
  Guids = {a, b}
  Services = {tcp80}
  NumTags = 2
  NULL = NULL
  Drivers = {"postgres", "mysql"}
  Sessions = {s1, s2}
  Lists <- MCLists
  MaxCalls = 3
SPECIFICATION FairSpec
INVARIANTS
  GuidHasOneTag
  DestinationsConsistent
PROPERTIES
  EveryCallReturns
