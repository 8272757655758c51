CONSTANTS
  Hosts = {h1}
  Initial = {h1}
  InitialConnections = 1
  EarlyHosts = 1
  EarlyNum = 3
  EarlyDen = 4
  Weak = TRUE
  Holders = {h1}
  MaxLosses = 2
  MaxChan = 1
  None = None
SPECIFICATION FairSpec
CHECK_DEADLOCK FALSE
PROPERTIES UploadEnds KeepsTrying
