------------------------------- MODULE Worktrees -------------------------------
(***************************************************************************)
(* `tl worktree add`, `switch` and `remove` (crates/cli/src/cmd/           *)
(* worktree_*.rs, crates/jj/src/workspace.rs) from the default workspace.  *)
(* add and switch first make sure that the daemon runs, and then open the  *)
(* journal themselves, which they can only if it is gone again.            *)
(***************************************************************************)
EXTENDS WorkTree

VARIABLES
  wsState,    \* state/workspace-state: None, 0 (no checkpoint) or a checkpoint
  wsJJ,       \* the workspaces of the JJ repository
  wsPin       \* the pins ws-<name>: a checkpoint, or 0

wsVars == <<wsState, wsJJ, wsPin>>

Default == "default"
Workspaces == Workspace \cup {Default}

WorktreesInit ==
  /\ wsState = [w \in Workspaces |-> None]
  /\ wsJJ = {Default}
  /\ wsPin = [w \in Workspaces |-> 0]

WorktreesTypeOK ==
  /\ wsState \in [Workspaces -> {None} \cup 0..Len(cps)]
  /\ wsJJ \subseteq Workspaces
  /\ wsPin \in [Workspaces -> 0..Len(cps)]

OnWorktree == {"add", "from", "switch", "remove"}

(* The state database is open until the command ends: another fails.       *)
WorktreeBegin(c, kind, w) ==
  /\ Spend("worktree")
  /\ up /\ ~Running(c) /\ \A d \in Command : cmd[d].kind \notin OnWorktree
  /\ kind = "remove" => wsState[w] # None
  /\ \E step \in IF kind = "remove" THEN {"forget"} ELSE {"journal"} :
       cmd' = [cmd EXCEPT ![c] = NewCmd(kind, step, w, 0)]
  /\ UNCHANGED <<treeVars, daemonVars, journalVars, lockVars, wsVars>>

(* The command ends, and lets go of the journal.                           *)
Leaves(c) == Ends(c) /\ journalBy' = IF journalBy = c THEN None ELSE journalBy

OpensJournal(c) ==
  /\ cmd[c].step = "journal"
  /\ IF up \/ journalBy # None THEN Leaves(c)
     ELSE /\ journalBy' = c
          /\ IF cmd[c].kind = "switch" /\ cmd[c].on \notin wsJJ THEN Leaves(c)
             ELSE \E step \in IF cmd[c].kind = "switch" THEN {"save"} ELSE {"save", "jj"} :
                    Goes(c, step)
  /\ UNCHANGED <<treeVars, daemonVars, cps, lockVars, left, wsVars>>

(* auto_checkpoint_current: all files are read, unless nothing is new.     *)
SavesTree(c) ==
  /\ cmd[c].step = "save"
  /\ IF HeadTree = disk THEN UNCHANGED cps
     ELSE Len(cps) < MaxCheckpoint /\ cps' = Append(cps, disk)
  /\ cmd' = [cmd EXCEPT ![c].step = "state", ![c].cp = Len(cps')]
  /\ UNCHANGED <<treeVars, daemonVars, journalBy, lockVars, left, wsVars>>

(* The pin that switch wants, ws:default, is not a valid name: it ends     *)
(* there, with an error, before it has restored anything.                  *)
SavesState(c) ==
  /\ cmd[c].step = "state"
  /\ wsState' = [wsState EXCEPT ![Default] = cmd[c].cp]
  /\ IF cmd[c].kind = "switch" THEN Leaves(c) /\ UNCHANGED wsPin
     ELSE /\ wsPin' = [wsPin EXCEPT ![Default] = cmd[c].cp]
          /\ Goes(c, "jj") /\ UNCHANGED journalBy
  /\ UNCHANGED <<treeVars, daemonVars, cps, lockVars, left, wsJJ>>

AddsWorkspace(c) ==
  /\ cmd[c].step = "jj"
  /\ IF cmd[c].on \in wsJJ THEN Leaves(c) /\ UNCHANGED wsJJ
     ELSE wsJJ' = wsJJ \cup {cmd[c].on} /\ Goes(c, "known") /\ UNCHANGED journalBy
  /\ UNCHANGED <<treeVars, daemonVars, cps, lockVars, left, wsState, wsPin>>

(* With --from, what is restored is the checkpoint of the state of that    *)
(* name, and it is an error that there is none, or none with a checkpoint. *)
KnowsWorkspace(c) ==
  /\ cmd[c].step = "known"
  /\ LET old == wsState[cmd[c].on] IN
     IF cmd[c].kind = "add"
     THEN wsState' = [wsState EXCEPT ![cmd[c].on] = 0]
     ELSE IF old \in {None, 0} THEN UNCHANGED wsState
     ELSE \E i \in Checkpoints : wsState' = [wsState EXCEPT ![cmd[c].on] = i]
  /\ Leaves(c)
  /\ UNCHANGED <<treeVars, daemonVars, cps, lockVars, left, wsJJ, wsPin>>

(* The files may not be removable: an error.                               *)
ForgetsWorkspace(c) ==
  /\ cmd[c].step = "forget"
  /\ wsJJ' = wsJJ \ {cmd[c].on}
  /\ Goes(c, "clean") \/ Ends(c)
  /\ UNCHANGED <<treeVars, daemonVars, journalVars, lockVars, left, wsState, wsPin>>

CleansWorkspace(c) ==
  /\ cmd[c].step = "clean"
  /\ wsState' = [wsState EXCEPT ![cmd[c].on] = None]
  /\ wsPin' = [wsPin EXCEPT ![cmd[c].on] = 0]
  /\ Ends(c)
  /\ UNCHANGED <<treeVars, daemonVars, journalVars, lockVars, left, wsJJ>>

WorktreesNext ==
  \E c \in Command :
    \/ \E kind \in OnWorktree, w \in Workspace : WorktreeBegin(c, kind, w)
    \/ OpensJournal(c) \/ SavesTree(c) \/ SavesState(c) \/ AddsWorkspace(c)
    \/ KnowsWorkspace(c) \/ ForgetsWorkspace(c) \/ CleansWorkspace(c)
===============================================================================
