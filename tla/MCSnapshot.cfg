\* Two paths; the loop beside an import or a scan, with edits, errors and deaths.
SPECIFICATION Spec
CONSTANTS
  Torn = Torn
  Corrupt = Corrupt
  Loop = Loop
  Import = Import
  Scan = Scan
  Writer = {Loop, Import, Scan}
  Path = {1, 2}
  Data = {0, 1, 2}
  StartFiles <- FilesAtFirst
  Values <- BecomesAny
  Target <- ToPath1
  Commit <- ACommit
  GitEnabled = TRUE
  PowerFails = FALSE
  FineClock = TRUE
  MaxTries = 3
  Budgets <- Mix
CHECK_DEADLOCK FALSE
INVARIANTS
  ObjectsWhole
  RecordedReadable
  TreeFaithful
