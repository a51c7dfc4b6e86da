------------------------------ MODULE MCSnapshot -------------------------------
(* Snapshot.tla for TLC: a file, and a path that is a file or a link.      *)
EXTENDS Snapshot, TLC

Nothing == [kind |-> "none", mode |-> 0, data |-> <<0, 0>>]
File(mode, x, y) == [kind |-> "file", mode |-> mode, data |-> <<x, y>>]
LinkTo(x, y) == [kind |-> "link", mode |-> Link, data |-> <<x, y>>]
At(p, v) == [kind |-> v.kind, mode |-> v.mode, data |-> v.data, mtime |-> 0 - p]

(* Path 2 holds what a torn read of path 1 may find.                       *)
FilesAtFirst == {[p \in Path |->
  At(p, IF p = 1 THEN File(\o100644, 0, 0) ELSE File(\o100664, 0, 1))]}
ToPath1 == [d \in Data \X Data |-> 1]
BecomesAny == [p \in Path |->
  IF p = 1 THEN {File(\o100644, 1, 1), File(\o100755, 1, 1), Nothing}
           ELSE {LinkTo(2, 0), File(\o100644, 1, 1)}]
BecomesLink == [p \in Path |-> {LinkTo(0, 0)}]
ACommit == [p \in {1} |-> File(\o100755, 0, 0)]

NoEvents == [e \in Event |-> 0]
Mix == {("edit" :> 2 @@ "loop" :> 2 @@ "error" :> 1) @@ NoEvents,
        ("edit" :> 1 @@ "loop" :> 2 @@ "error" :> 1 @@ "death" :> 1) @@ NoEvents,
        ("edit" :> 2 @@ "loop" :> 1 @@ "scan" :> 1 @@ "death" :> 1) @@ NoEvents,
        ("edit" :> 1 @@ "loop" :> 1 @@ "import" :> 1 @@ "error" :> 1) @@ NoEvents,
        ("loop" :> 2 @@ "import" :> 1 @@ "death" :> 1) @@ NoEvents,
        ("loop" :> 1 @@ "import" :> 1 @@ "error" :> 1 @@ "rebuild" :> 1) @@ NoEvents}
===============================================================================
