CONSTANTS
  Hosts = {h1, h2}
  Initial = {h1}
  InitialConnections = 2
  EarlyHosts = 1
  EarlyNum = 3
  EarlyDen = 4
  Weak = FALSE
  Holders = {h2}
  MaxLosses = 1
  MaxChan = 1
  None = None
SPECIFICATION Spec
INVARIANTS OkIsSound ConnectionsCounted
CHECK_DEADLOCK FALSE
