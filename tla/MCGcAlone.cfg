\* A collection beside a pin command, or killed: both invariants fail (-continue).
SPECIFICATION Spec
CONSTANTS
  b = b
  b2 = b2
  s = s
  t1 = t1
  t2 = t2
  n1 = n1
  None = None
  Object = {b, s, t1, t2}
  Tree = {s, t1, t2}
  Children <- Lists
  Name = {n1}
  MaxSeq = 2
  RetainCount = 1
  RetainPins = TRUE
  Collections = 1
  Kills = 1
  Pinnings = 1
  Restores = 0
CHECK_DEADLOCK FALSE
INVARIANTS
  AllPinsKept
  NothingDangling
