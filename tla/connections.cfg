CONSTANTS
  Conns = {c1, c2}
  Addrs = {a1}
  Images = {i1}
  Requests = {r1, r2, r3}
  IdSpace = 2
  MaxFailures = 1
  None = None
SPECIFICATION FairSpec
INVARIANTS NoOrphan ReplyMatches SourceIsReal OutgoingLive
PROPERTIES EveryRequestResolves
CHECK_DEADLOCK FALSE
