CONSTANTS
  Paths = {p1}
  Images = {i1, i2}
  Sigs = {s1}
  Trusted = {s1}
  Configured = {p1}
  AppendOnly = {}
  Scanners = {c1}
  IoErrors = FALSE
  None = None
  Tasks = {t1}
  AutoClean = {}
  Wipeable = {}
  MaxCrashes = 0
SPECIFICATION Spec
INVARIANT RescanLoopLives
