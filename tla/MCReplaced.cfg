\* A file replaced by a directory, and a directory by a file.
SPECIFICATION FairLoopSpec
CONSTANTS
  a = a
  ab = ab
  b = b
  c1 = c1
  c2 = c2
  Absent = Absent
  Dir = Dir
  Unreadable = Unreadable
  NoMap = NoMap
  Loop = Loop
  Path = {a, ab}
  Content = {c1}
  Writer = {Loop}
  MaxSeq = 3
  Root <- MCRoot
  Above <- Nested
  Editable <- FilesAndDirs
  StartTrees <- StartEmpty
  Budget <- MCBudget
  edits = 4
  flushes = 0
  pauses = 0
  stales = 0
  forces = 0
  faults = 0
  vanishes = 0
  crashes = 0
  stops = 0
CHECK_DEADLOCK FALSE
INVARIANT
  TreeShape
PROPERTY
  Converges
