CONSTANTS
  Paths = {p1}
  Images = {i1, i2}
  Sigs = {s1, s2}
  Trusted = {s1}
  Configured = {p1}
  AppendOnly = {p1}
  Scanners = {c1}
  IoErrors = FALSE
  None = None
  Tasks = {t1}
  AutoClean = {p1}
  Wipeable = {p1}
  MaxCrashes = 1
SPECIFICATION FairSpec
INVARIANT Vouched
PROPERTIES AppendOnlyKept SignaturesGrow UploadsEnd ImplementsPathLife
