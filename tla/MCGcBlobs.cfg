\* A collection of a checkpoint that has a blob of its own.
SPECIFICATION Spec
CONSTANTS
  b = b
  b2 = b2
  s = s
  t1 = t1
  t2 = t2
  n1 = n1
  None = None
  Object = {b, b2, s, t1, t2}
  Tree = {s, t1, t2}
  Children <- Lists
  Name = {n1}
  MaxSeq = 2
  RetainCount = 1
  RetainPins = TRUE
  Collections = 1
  Kills = 0
  Pinnings = 0
  Restores = 0
CHECK_DEADLOCK FALSE
PROPERTIES
  BlobsCollected
