------------------------------ MODULE MCJournal -------------------------------
(* Journal.tla for TLC: symmetry of its writers and of its root trees.     *)
EXTENDS Journal, TLC

Symmetry == Permutations(Writer) \cup Permutations(Root)
===============================================================================
