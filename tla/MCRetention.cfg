\* Checkpoints that share a subtree, one collection, a crash, a pin, a restore.
SPECIFICATION Spec
CONSTANTS
  b = b
  b2 = b2
  s = s
  t1 = t1
  t2 = t2
  n1 = n1
  None = None
  Object = {b, s, t1, t2}
  Tree = {s, t1, t2}
  Children <- Lists
  Name = {n1}
  MaxSeq = 2
  RetainCount = 1
  RetainPins = TRUE
  Collections = 2
  Kills = 1
  Pinnings = 2
  Restores = 1
CHECK_DEADLOCK FALSE
INVARIANTS
  RetTypeOK
  NoDangling
  PinsKept
  RestoreFailsOnlyIfDropped
PROPERTIES
  HeadKept
  TreesCollected
