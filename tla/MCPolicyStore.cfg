\* Three guids on two tags: Create runs out of tags, Delete gives them back
\* and they are handed to another guid.
CONSTANTS
  a = a
  b = b
  c = c
  Guids <- MCGuids
  Services = {tcp80}
  NumTags = 2
  NULL = NULL
  MaxBatch = 2
SPECIFICATION Spec
SYMMETRY Symmetry
INVARIANTS
  TypeOK
  GuidHasOneTag
  PoliciesResolve
  NothingLeaks
PROPERTIES
  AtomicStore
