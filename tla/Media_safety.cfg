SPECIFICATION Spec
CONSTANTS
  Urls = {u}
  Tasks = {s, t}
  Inodes = {i, j, k}
  Chunks = 2
  MaxStarts = 2
  None = None
SYMMETRY Symmetry
INVARIANTS TypeOK WholeUnlessRacedOrCut MarksAreLive
CHECK_DEADLOCK FALSE
