\* Two requests at a time and the poller, whose runs may fail, in chunks of two
\* of three apps; two clients whose requests overlap, over both versions.
CONSTANTS
  a = a
  b = b
  c = c
  s1 = s1
  s2 = s2
  Apps = {a, b, c}
  Spaces = {s1, s2}
  SpaceOf <- MCSpaceOf
  DevSpaces = {s1}
  Threads = {t1, t2}
  Cleaners = {poller}
  Bodies <- MCBodies
  MaxPolicies = 1
  ChunkSize = 2
  MaxRequests = 2
  MaxErrors = 1
  admin = admin
  developer = developer
  Ids = {a, b}
  NoId = NoId
  Clients = {c1, c2}
  Users = {admin, developer}
  ScopesOf <- MCScopes
  NetworkAdmin = NetworkAdmin
  NetworkWrite = NetworkWrite
  SelfService = FALSE
  Lists <- MCLists
  Queries <- MCQueries
  ChunkerSize = 2
  DefaultMaxPolicies = 100
SPECIFICATION MCSpec
INVARIANTS
  CleanerDeletesOnlyStale
  ChangesStayInOwnSpaces
  IndexStaysInOwnSpaces
  QuotaHolds
  ViewsAgree
PROPERTIES
  StaleEventuallyDeleted
  SuccessMeansDone
  ListedIsAccepted
