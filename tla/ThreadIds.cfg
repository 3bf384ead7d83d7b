SPECIFICATION Spec
CONSTANTS
  Threads = {a, b, c}
  MaxThreads = 3
  Reserved = {0, 1}
  Starts = 7
SYMMETRY Symmetry
INVARIANTS
  LiveIdsDistinct
  NoIdLost
