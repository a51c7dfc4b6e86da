\* Two files; everything that may go wrong on the way to the loop.
SPECIFICATION FromOneFile
CONSTANTS
  a = a
  b = b
  c1 = c1
  c2 = c2
  Absent = Absent
  Path = {a, b}
  Content = {c1, c2}
  Deletes = TRUE
  Edits = 3
  Flushes = 1
  Overflows = 1
CHECK_DEADLOCK FALSE
INVARIANTS
  WatchTypeOK
  EntryHasTimer
  OnlyKnownGaps
PROPERTIES
  Settles
