\* Two tasks of the daemon append in parallel; crash and reopen at any point.
SPECIFICATION Spec
CONSTANTS
  w1 = w1
  w2 = w2
  r1 = r1
  r2 = r2
  Writer = {w1, w2}
  Root = {r1, r2}
  MaxSeq = 4
SYMMETRY Symmetry
INVARIANTS
  JournalTypeOK
  ParentsPrecede
  DurableAncestry
  CountExact
PROPERTIES
  ImplementsDurableLog
