--------------------------------- MODULE Work ----------------------------------
(***************************************************************************)
(* The working tree with all that write to it or record it: the user, the  *)
(* daemon, `tl restore`, `tl stash`, `tl pull`, `tl fetch`, `tl worktree`. *)
(***************************************************************************)
EXTENDS Restore, AutoStash, Worktrees

vars == <<treeVars, daemonVars, journalVars, lockVars, cmd, left, stash, stashVars, wsVars>>

WorkTypeOK == TreeTypeOK /\ RestoreTypeOK /\ AutoStashTypeOK /\ WorktreesTypeOK

Init == TreeInit /\ RestoreInit /\ AutoStashInit /\ WorktreesInit

Next ==
  \/ TreeNext /\ UNCHANGED <<stash, stashVars, wsVars>>
  \/ RestoreNext /\ UNCHANGED <<stashVars, wsVars>>
  \/ AutoStashNext /\ UNCHANGED <<stash, wsVars>>
  \/ WorktreesNext /\ UNCHANGED <<stash, stashVars>>

Spec == Init /\ [][Next]_vars
===============================================================================
