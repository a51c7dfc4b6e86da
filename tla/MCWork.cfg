\* Two commands upon the working tree, and the daemon: ten mixtures of events.
SPECIFICATION Spec
CONSTANTS
  a = a
  b = b
  x = x
  y = y
  Path = {a, b}
  Content = {x, y}
  Absent = Absent
  Command = {c1, c2}
  None = None
  Inode = {i1, i2}
  MaxCheckpoint = 5
  StartTree <- OneFile
  RemoteTree <- BothFiles
  StashName = {"wip"}
  Workspace = {"ws"}
  Budgets <- Mix
SYMMETRY Symmetry
INVARIANTS
  HeadShowsTree
  AutoStashListed
PROPERTY SyncDestroysNothing
CHECK_DEADLOCK FALSE
