-------------------------------- MODULE MCSync ---------------------------------
(* Instances of Sync for TLC.                                              *)
EXTENDS Sync
CONSTANTS a, b, x

OneFile == {[p \in Path |-> IF p = a THEN x ELSE Absent]}
OtherFile == [p \in Path |-> IF p = b THEN x ELSE Absent]
Events(edit, others, branch, publish, pulls, pushes, death) ==
  [edit |-> edit, others |-> others, branch |-> branch, publish |-> publish,
   pull |-> pulls, push |-> pushes, death |-> death]
Mix == {Events(1, 0, 0, 1, 2, 0, 1), Events(1, 0, 0, 2, 2, 0, 0), Events(2, 0, 0, 2, 0, 0, 1),
        Events(0, 1, 1, 1, 0, 2, 1), Events(0, 1, 0, 1, 1, 1, 1)}
===============================================================================
