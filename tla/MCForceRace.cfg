\* ForceCheckpoint beside a checkpoint of the loop.
SPECIFICATION LoopSpec
CONSTANTS
  a = a
  ab = ab
  b = b
  c1 = c1
  c2 = c2
  Absent = Absent
  Dir = Dir
  Unreadable = Unreadable
  NoMap = NoMap
  Loop = Loop
  Path = {a, ab}
  Content = {c1}
  Writer = {Loop, Task}
  MaxSeq = 4
  Root <- MCRoot
  Above <- Flat
  Editable <- FilesOnly
  StartTrees <- StartEmpty
  Budget <- MCBudget
  edits = 2
  flushes = 0
  pauses = 0
  stales = 0
  forces = 1
  faults = 0
  vanishes = 0
  crashes = 0
  stops = 0
CHECK_DEADLOCK FALSE
INVARIANTS
  HeadComplete
