\* Entries age independently of each other; a scan and its prune are apart.
CONSTANTS
  app = app
  appDot = appDot
  dbDot = dbDot
  i1 = i1
  i2 = i2
  Names = {app, appDot, dbDot}
  Hosts = {appDot, dbDot}
  Fqdn <- MCFqdn
  IPs = {i1, i2}
  Threshold = 1
  ResumeDelay = 2
SPECIFICATION TableFairSpec
INVARIANTS
  TableTypeOK
  IpOnce
PROPERTIES
  PruneTakesOnlyStale
  StaleEntryGoes
