\* A failed event loop; a lock file removed under its holder: tlc -continue.
SPECIFICATION Spec
CONSTANTS
  p1 = p1
  p2 = p2
  q1 = q1
  i1 = i1
  i2 = i2
  i3 = i3
  None = None
  Process = {p1, p2}
  Client = {q1}
  Inode = {i1, i2, i3}
  MaxRestarts = 5
  Kills = 0
  RunErrors = 1
  Impatient = FALSE
  StartToo = FALSE
CHECK_DEADLOCK FALSE
PROPERTIES
  Restarted
  HeldLockKept
