---------------------------- MODULE MCDaemonStart -----------------------------
(* DaemonStart.tla for TLC: symmetry of processes, clients and inodes.     *)
EXTENDS DaemonStart, TLC

Symmetry == Permutations(Process) \cup Permutations(Client) \cup Permutations(Inode)
===============================================================================
