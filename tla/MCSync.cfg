\* Publishing, pulling, pushing, deaths and a collection: five mixtures of them.
SPECIFICATION Spec
CONSTANTS
  a = a
  b = b
  x = x
  Path = {a, b}
  Content = {x}
  Absent = Absent
  MaxCheckpoint = 3
  MaxCommit = 5
  MaxChainGap = 2
  StartTrees <- OneFile
  RemoteTree <- OtherFile
  Seeds = {"none", "same"}
  Budgets <- Mix
INVARIANTS
  SyncTypeOK
  MappedTree
  OneCheckpointPerCommit
  CommitLineage
  MappingSafe
  AnswersAgree
PROPERTY RemoteNeverRewound
CHECK_DEADLOCK FALSE
