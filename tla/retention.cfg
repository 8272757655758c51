CONSTANTS
  Names = {a, b, c, d}
  MaxTime = 2
  KeepMin = 1
  KeepMax = 2
  KeepRecent = 1
SPECIFICATION Spec
SYMMETRY Symmetry
PROPERTIES PolicyKept FetchedIsKept
