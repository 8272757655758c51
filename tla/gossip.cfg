CONSTANTS
  Nodes = {a, b}
  Paths = {p1}
  Images = {i1, i2}
  i1 = i1
  k1 = k1
  Keys = {k1}
  KeyOf <- MCKeyOf
  None = None
  Uploaders = {a}
  Requests <- MCRequests
  Storers = {b}
  Restarting = {b}
  PacketsAtOnce = 4
  MaxEvents = 2
  MaxPackets = 1
SPECIFICATION FairSpec
PROPERTIES ConfigsLearned ViewsConverge WatcherNotified StallSeen
INVARIANTS ConfigMapInverse NotifiedIsTrue
