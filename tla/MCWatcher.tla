------------------------------- MODULE MCWatcher -------------------------------
(* Watcher.tla for TLC.                                                    *)
EXTENDS Watcher

CONSTANTS a, b, c1, c2

(* A repository with one file.                                             *)
OneFile == Init /\ wd = [p \in Path |-> IF p = a THEN c1 ELSE Absent]

(* From there; the loop and the timers are fair.                           *)
FromOneFile == OneFile /\ [][Next]_vars /\ Fairness
===============================================================================
