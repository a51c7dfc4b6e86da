\* The loop alone: edits of two paths while a checkpoint is made, flushes, a stale map, failing steps.
SPECIFICATION LoopSpec
CONSTANTS
  a = a
  ab = ab
  b = b
  c1 = c1
  c2 = c2
  Absent = Absent
  Dir = Dir
  Unreadable = Unreadable
  NoMap = NoMap
  Loop = Loop
  Path = {a, ab}
  Content = {c1}
  Writer = {Loop}
  MaxSeq = 4
  Root <- MCRoot
  Above <- Nested
  Editable <- FilesAndDirs
  StartTrees <- StartEmpty
  Budget <- MCBudget
  edits = 3
  flushes = 1
  pauses = 0
  stales = 1
  forces = 0
  faults = 1
  vanishes = 0
  crashes = 0
  stops = 0
CHECK_DEADLOCK FALSE
INVARIANTS
  LoopTypeOK
  NoLostChange
  HeadComplete
  DeltaTouched
PROPERTIES
  NothingToFlush
