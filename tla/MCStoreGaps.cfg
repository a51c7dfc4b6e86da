\* The machine fails; a file becomes a link whose target reads like the file.
SPECIFICATION Spec
CONSTANTS
  Torn = Torn
  Corrupt = Corrupt
  Loop = Loop
  Import = Import
  Scan = Scan
  Writer = {Loop, Import, Scan}
  Path = {1, 2}
  Data = {0, 1, 2}
  StartFiles <- FilesAtFirst
  Values <- BecomesLink
  Target <- ToPath1
  Commit <- ACommit
  GitEnabled = TRUE
  PowerFails = TRUE
  FineClock = TRUE
  MaxTries = 3
  Budgets <- Mix
CHECK_DEADLOCK FALSE
INVARIANTS
  RecordedReadable
  TreeFaithful
  TreeOfFiles
