CONSTANTS
  Paths = {p1}
  Images = {i1, i2}
  Requests = {r1, r2}
  Wipeable = {p1}
  None = None
SPECIFICATION GcSpec
SYMMETRY Symmetry
PROPERTY PinnedKept
