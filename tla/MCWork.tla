-------------------------------- MODULE MCWork ---------------------------------
(* Instances of Work for TLC.                                              *)
EXTENDS Work, TLC
CONSTANTS a, b, x, y

NoEvents == [e \in Event |-> 0]
OneFile == [p \in Path |-> IF p = a THEN x ELSE Absent]
BothFiles == [p \in Path |-> IF p = a THEN y ELSE x]
Symmetry == Permutations(Command)

Mix == {("edit" :> 2 @@ "pull" :> 1 @@ "death" :> 1) @@ NoEvents,
        ("edit" :> 1 @@ "pull" :> 2 @@ "error" :> 1) @@ NoEvents,
        ("pull" :> 4 @@ "error" :> 1) @@ NoEvents,
        ("edit" :> 1 @@ "pull" :> 1 @@ "fetch" :> 1) @@ NoEvents,
        ("edit" :> 1 @@ "fetch" :> 1 @@ "error" :> 1) @@ NoEvents,
        ("edit" :> 1 @@ "restore" :> 2) @@ NoEvents,
        ("edit" :> 1 @@ "stash" :> 1 @@ "take" :> 1 @@ "error" :> 1) @@ NoEvents,
        ("edit" :> 1 @@ "restore" :> 1 @@ "death" :> 1) @@ NoEvents,
        ("restore" :> 1 @@ "pull" :> 1) @@ NoEvents,
        ("edit" :> 1 @@ "worktree" :> 2 @@ "death" :> 2) @@ NoEvents}
===============================================================================
