\* Two policy servers and an internal one; one outage, two failures or signals.
CONSTANTS
  server1 = server1
  server2 = server2
  internal1 = internal1
  NoProcess = NoProcess
  Processes = {server1, server2, internal1}
  Pools <- MCPools
  Members <- MCMembers
  StoreUsers <- MCStoreUsers
  MaxRetries = 1
  TagRows = 3
  NumMigrations = 3
  MaxOutages = 1
  MaxFailures = 2
SPECIFICATION FairSpec
INVARIANTS
  UpMeansUsable
  PoolOutlivesMembers
PROPERTIES
  AllComeUp
