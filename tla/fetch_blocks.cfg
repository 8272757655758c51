CONSTANTS
  LastBlock = 4
  Linkable <- MCLinkable
  ChunkSize = 1
  MaxSlices = 2
  Concurrency = 2
  IoErrors = TRUE
SPECIFICATION FairSpec
INVARIANTS ProgressHonest DoneIsComplete Bounded WillWake
PROPERTY Ends
