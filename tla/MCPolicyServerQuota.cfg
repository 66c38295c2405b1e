\* Two developers' creates at the same time.
CONSTANTS
  a = a
  b = b
  c = c
  s1 = s1
  s2 = s2
  Apps = {a, b, c}
  Spaces = {s1, s2}
  SpaceOf <- MCSpaceOf
  DevSpaces = {s1}
  Threads = {t1, t2}
  Cleaners = {poller}
  Bodies <- MCBodies
  MaxPolicies = 1
  ChunkSize = 2
  MaxRequests = 2
  MaxErrors = 1
SPECIFICATION Spec
INVARIANTS
  QuotaIsALimit
