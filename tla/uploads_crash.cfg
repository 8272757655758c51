CONSTANTS
  Paths = {p1}
  Images = {i1, i2}
  Sigs = {s1}
  Trusted = {s1}
  Configured = {p1}
  AppendOnly = {}
  Scanners = {c1}
  IoErrors = TRUE
  None = None
  Tasks = {t1, t2}
  AutoClean = {}
  Wipeable = {p1}
  MaxCrashes = 1
SPECIFICATION Spec
SYMMETRY Symmetry
INVARIANTS OneWriter StateDescribesDir UploadIntact InProgressIsLive
