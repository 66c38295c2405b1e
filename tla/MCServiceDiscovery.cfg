\* One instance; outages, restarts and lost messages.
CONSTANTS
  app = app
  i1 = i1
  noIP = noIP
  NoName = NoName
  Names = {app}
  Hosts = {app}
  Fqdn <- MCFqdn
  IPs = {i1}
  Endpoints <- MCEndpoints
  Malformed <- MCMalformed
  Interval = 1
  ResumeDelay = 1
  Threshold = 2
  WarmDuration = 1
  MaxQueue = 1
  MaxCallbacks = 2
SPECIFICATION Spec
INVARIANTS
  PauseFollowsConnection
PROPERTIES
  LiveNotPruned
  AnswersComplete
