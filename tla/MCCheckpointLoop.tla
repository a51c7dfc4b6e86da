--------------------------- MODULE MCCheckpointLoop ---------------------------
(* CheckpointLoop.tla for TLC: small repositories and budgets of events.   *)
EXTENDS CheckpointLoop

CONSTANTS a, ab, b, c1, c2, edits, flushes, pauses, stales, forces, faults, vanishes, crashes, stops

MCRoot == [Path -> Content \cup {Absent}]

MCBudget == [k \in EventKind |->
  CASE k = "edit"  -> edits  [] k = "flush" -> flushes [] k = "pause" -> pauses
    [] k = "stale" -> stales [] k = "force" -> forces  [] k = "fault" -> faults
    [] k = "vanish" -> vanishes [] k = "crash" -> crashes [] k = "stop" -> stops]

Flat == [p \in Path |-> {}]
Nested == [p \in Path |-> IF p = ab THEN {a} ELSE {}]

StartEmpty == {[p \in Path |-> Absent]}
StartFull == {[p \in Path |-> c1]}
StartEither == StartEmpty \cup StartFull

FilesOnly == Content \cup {Absent}
FilesAndDirs == Content \cup {Absent, Dir}
AnyFile == Content \cup {Absent, Unreadable}
===============================================================================
