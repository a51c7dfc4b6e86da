\* Crashes, stops, starts and failing steps beside a forced checkpoint, with two files.
SPECIFICATION LoopSpec
CONSTANTS
  a = a
  ab = ab
  b = b
  c1 = c1
  c2 = c2
  Absent = Absent
  Dir = Dir
  Unreadable = Unreadable
  NoMap = NoMap
  Loop = Loop
  Path = {a, ab}
  Content = {c1}
  Writer = {Loop, Task}
  MaxSeq = 3
  Root <- MCRoot
  Above <- Flat
  Editable <- AnyFile
  StartTrees <- StartEither
  Budget <- MCBudget
  edits = 1
  flushes = 2
  pauses = 0
  stales = 0
  forces = 1
  faults = 1
  vanishes = 1
  crashes = 1
  stops = 1
CHECK_DEADLOCK FALSE
INVARIANTS
  MapFileRecorded
PROPERTIES
  SavedUntilRecorded
