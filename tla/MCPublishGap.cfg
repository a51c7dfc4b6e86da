\* Publishing after a collection, or a pull under the loop's map.
SPECIFICATION Spec
CONSTANTS
  a = a
  b = b
  x = x
  Path = {a, b}
  Content = {x}
  Absent = Absent
  MaxCheckpoint = 3
  MaxCommit = 5
  MaxChainGap = 2
  StartTrees <- OneFile
  RemoteTree <- OtherFile
  Seeds = {"same"}
  Budgets <- Mix
INVARIANTS
  MappedTreeAlways
CHECK_DEADLOCK FALSE
