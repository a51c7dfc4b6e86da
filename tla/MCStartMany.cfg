\* Two clients that may give up, kills, a failing daemon, and tl start.
SPECIFICATION Spec
CONSTANTS
  p1 = p1
  p2 = p2
  q1 = q1
  q2 = q2
  i1 = i1
  i2 = i2
  i3 = i3
  None = None
  Process = {p1, p2}
  Client = {q1, q2}
  Inode = {i1, i2, i3}
  MaxRestarts = 2
  Kills = 1
  RunErrors = 1
  Impatient = TRUE
  StartToo = TRUE
CHECK_DEADLOCK FALSE
SYMMETRY Symmetry
INVARIANTS
  OneDaemon
