-------------------------------- MODULE Restore --------------------------------
(***************************************************************************)
(* `tl restore` (crates/cli/src/cmd/restore.rs) and `tl stash`             *)
(* (crates/cli/src/cmd/stash.rs), whose entries are pins stash/<name> and  *)
(* which restores through the former.                                      *)
(***************************************************************************)
EXTENDS WorkTree

VARIABLE stash        \* the pins stash/<name>: a checkpoint, 0 if there is none

RestoreInit == stash = [name \in StashName |-> 0]
RestoreTypeOK == stash \in [StashName -> 0..Len(cps)]

Begin(c, new) ==
  /\ ~Running(c)
  /\ cmd' = [cmd EXCEPT ![c] = new]

(* The lock is taken before anything is resolved.                          *)
RestoreBegin(c, i) ==
  /\ Spend("restore")
  /\ Begin(c, NewCmd("restore", "open", None, i))
  /\ UNCHANGED <<treeVars, daemonVars, journalVars, lockVars, stash>>

(* apply and pop have resolved the name.                                   *)
StashApply(c, name, pop) ==
  /\ Spend("take")
  /\ up /\ stash[name] # 0
  /\ Begin(c, NewCmd(IF pop THEN "pop" ELSE "restore", "open", name, stash[name]))
  /\ UNCHANGED <<treeVars, daemonVars, journalVars, lockVars, stash>>

(* The daemon runs, the tree is read; the user may say no.                 *)
RestoreReads(c) ==
  /\ cmd[c].step = "read" /\ up
  /\ \/ cmd' = [cmd EXCEPT ![c].step = "write", ![c].todo = Files(cps[cmd[c].cp])]
     \/ cmd[c].kind = "restore" /\ Goes(c, "unlock")
  /\ UNCHANGED <<treeVars, daemonVars, journalVars, lockVars, left, stash>>

RestoreWrites(c, p) ==
  /\ cmd[c].step = "write"
  /\ WriteFile(c, p, cps[cmd[c].cp]) \/ SkipFile(c, p)
  /\ UNCHANGED stash

RestoreInvalidates(c) ==
  /\ cmd[c].step = "write" /\ cmd[c].todo = {}
  /\ Invalidate
  /\ Goes(c, "unlock")
  /\ UNCHANGED <<treeVars, pending, map, loop, up, journalVars, lockVars, left, stash>>

RestoreEnds(c) ==
  /\ cmd[c].step = "unlock"
  /\ DropLock(c, IF cmd[c].kind = "pop" THEN "unpin" ELSE "idle")
  /\ UNCHANGED stash

(* pop removes the name, whatever could not be written.                    *)
StashUnpin(c) ==
  /\ cmd[c].step = "unpin"
  /\ stash' = [stash EXCEPT ![cmd[c].on] = 0]
  /\ Ends(c)
  /\ UNCHANGED <<treeVars, daemonVars, journalVars, lockVars, left>>

(* The working tree stays as it is.                                        *)
StashPush(c, name) ==
  /\ Spend("stash")
  /\ up
  /\ Begin(c, NewCmd("push", "flush", name, 0))
  /\ UNCHANGED <<treeVars, daemonVars, journalVars, lockVars, stash>>

StashPin(c) ==
  /\ cmd[c].step = "pin" /\ cmd[c].kind = "push"
  /\ stash' = [stash EXCEPT ![cmd[c].on] = cmd[c].cp]
  /\ Ends(c)
  /\ UNCHANGED <<treeVars, daemonVars, journalVars, lockVars, left>>

StashDrop(name) ==
  /\ Spend("take")
  /\ stash[name] # 0
  /\ stash' = [stash EXCEPT ![name] = 0]
  /\ UNCHANGED <<treeVars, daemonVars, journalVars, lockVars, cmd>>

StashClear ==
  /\ Spend("take")
  /\ stash' = [name \in StashName |-> 0] /\ stash' # stash
  /\ UNCHANGED <<treeVars, daemonVars, journalVars, lockVars, cmd>>

RestoreNext ==
  \/ \E c \in Command :
       \/ \E i \in Checkpoints : RestoreBegin(c, i)
       \/ \E name \in StashName : \/ StashPush(c, name)
                                  \/ \E pop \in BOOLEAN : StashApply(c, name, pop)
       \/ RestoreReads(c) \/ RestoreInvalidates(c) \/ RestoreEnds(c)
       \/ \E p \in Path : RestoreWrites(c, p)
       \/ StashUnpin(c) \/ StashPin(c)
       \/ (OpenLock(c) \/ TakeLock(c)) /\ UNCHANGED stash
  \/ \E name \in StashName : StashDrop(name)
  \/ StashClear
===============================================================================
