SPECIFICATION Spec
CONSTANTS
  Urls = {u}
  Tasks = {s, t}
  Inodes = {i, j, k}
  Chunks = 2
  MaxStarts = 1
  None = None
PROPERTIES GoodEntriesStay
CHECK_DEADLOCK FALSE
