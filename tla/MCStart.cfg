\* One client at a time, which waits for the daemon; kills and stops.
SPECIFICATION FairSpec
CONSTANTS
  p1 = p1
  p2 = p2
  q1 = q1
  i1 = i1
  i2 = i2
  i3 = i3
  None = None
  Process = {p1, p2}
  Client = {q1}
  Inode = {i1, i2, i3}
  MaxRestarts = 2
  Kills = 1
  RunErrors = 0
  Impatient = FALSE
  StartToo = FALSE
CHECK_DEADLOCK FALSE
INVARIANTS
  ServerOwnsLockFile
PROPERTIES
  EnsureStarts
