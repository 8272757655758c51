CONSTANTS
  n1 = n1
  n2 = n2
  n3 = n3
  d1 = d1
  d2 = d2
  i1 = i1
  i2 = i2
  i3 = i3
  Nodes = {n1, n2, n3}
  Names = {d1, d2}
  Images = {i1, i2, i3}
  Requests <- MCRequests
  Scenarios <- MCScenarios
  AppendOnly = FALSE
  Throttle = 1
  MaxDownloading = 1
  Retries = 1
  None = None
SPECIFICATION FairSpec
INVARIANTS EntryHasTask AdvertisedIsCurrent
PROPERTIES NewestWins Converges Settles
CHECK_DEADLOCK FALSE
