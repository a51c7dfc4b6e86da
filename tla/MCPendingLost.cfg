\* A crash or a graceful shutdown with pending paths: tlc -continue.
SPECIFICATION LoopSpec
CONSTANTS
  a = a
  ab = ab
  b = b
  c1 = c1
  c2 = c2
  Absent = Absent
  Dir = Dir
  Unreadable = Unreadable
  NoMap = NoMap
  Loop = Loop
  Path = {a, ab}
  Content = {c1}
  Writer = {Loop}
  MaxSeq = 4
  Root <- MCRoot
  Above <- Flat
  Editable <- FilesOnly
  StartTrees <- StartEmpty
  Budget <- MCBudget
  edits = 2
  flushes = 0
  pauses = 0
  stales = 0
  forces = 0
  faults = 0
  vanishes = 0
  crashes = 1
  stops = 1
CHECK_DEADLOCK FALSE
PROPERTIES
  PendingSurvives
  ShutdownFlushes
