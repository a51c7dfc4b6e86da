-------------------------------- MODULE WorkTree -------------------------------
(***************************************************************************)
(* The working tree and those who share it: the user, the daemon that      *)
(* makes checkpoints of it, and the commands that write to it file by      *)
(* file.  The daemon's loop is that of CheckpointLoop.tla, with the steps  *)
(* that matter to commands: it looks at the restore lock, then it reads    *)
(* the files.                                                              *)
(***************************************************************************)
EXTENDS Naturals, Sequences, FiniteSets

CONSTANTS
  Path, Content, Absent,
  Command, None,                \* commands that run at the same time
  MaxCheckpoint, Inode,         \* bounds of the model
  StartTree, RemoteTree,        \* trees of the first checkpoint, of the remote branch
  StashName, Workspace,
  Budgets                       \* how often each kind of event may happen

Event == {"edit", "restore", "stash", "take", "pull", "fetch", "worktree", "death", "error"}

Tree == [Path -> Content \cup {Absent}]

ASSUME WorkAssumption ==
  /\ Absent \notin Content /\ None \notin Command /\ None \notin Inode
  /\ MaxCheckpoint \in Nat \ {0}
  /\ StartTree \in Tree /\ RemoteTree \in Tree
  /\ Budgets \subseteq [Event -> Nat]

Files(t) == {p \in Path : t[p] # Absent}

VARIABLES
  disk,         \* the working tree
  inflight,     \* changed paths whose event the loop has not had yet
  pending,      \* pending_paths
  map, stale,   \* the path map, state/pathmap_stale
  loop,         \* what the loop does, and for which command
  up,           \* the daemon runs
  cps,          \* the trees of the checkpoints, HEAD last
  journalBy,    \* the command that has the journal open
  lockFile,     \* the inode at locks/restore.lock, or None
  opened, holds,  \* the lock file each command has opened, and locked
  cmd,          \* the commands
  left,         \* what is left of the budget
  unseen        \* history: paths with a change the loop gets no event of

treeVars == <<disk, inflight, unseen>>
daemonVars == <<pending, map, stale, loop, up>>
journalVars == <<cps, journalBy>>
lockVars == <<lockFile, opened, holds>>

NewCmd(kind, step, on, cp) ==
  [kind |-> kind, step |-> step, on |-> on, cp |-> cp, entry |-> 0, todo |-> {}, risk |-> {}]
NoCmd == NewCmd("none", "idle", None, 0)
Idle == [step |-> "idle", for |-> None]

Checkpoints == 1..Len(cps)
HeadTree == cps[Len(cps)]
Running(c) == cmd[c].step # "idle"
Goes(c, step) == cmd' = [cmd EXCEPT ![c].step = step]
Ends(c) == cmd' = [cmd EXCEPT ![c] = NoCmd]
Spend(kind) == left[kind] > 0 /\ left' = [left EXCEPT ![kind] = @ - 1]

TreeTypeOK ==
  /\ disk \in Tree /\ map \in Tree /\ cps \in Seq(Tree)
  /\ {inflight, pending, unseen} \subseteq SUBSET Path
  /\ {stale, up} \subseteq BOOLEAN
  /\ loop \in [step : {"idle", "make"}, for : Command \cup {None}]
  /\ journalBy \in Command \cup {None} /\ (up => journalBy = None)
  /\ lockFile \in Inode \cup {None}
  /\ {opened, holds} \subseteq [Command -> Inode \cup {None}]
  /\ \A i \in Inode : Cardinality({c \in Command : holds[c] = i}) <= 1
  /\ \A c \in Command :
       /\ {cmd[c].cp, cmd[c].entry} \subseteq 0..Len(cps)
       /\ {cmd[c].todo, cmd[c].risk} \subseteq SUBSET Path
  /\ left \in [Event -> Nat]

TreeInit ==
  /\ disk = StartTree /\ map = StartTree /\ cps = <<StartTree>>
  /\ inflight = {} /\ pending = {} /\ unseen = {}
  /\ stale = FALSE /\ up = TRUE /\ loop = Idle
  /\ journalBy = None
  /\ lockFile = None
  /\ opened = [c \in Command |-> None] /\ holds = opened
  /\ cmd = [c \in Command |-> NoCmd]
  /\ left \in Budgets

-----------------------------------------------------------------------------
(* Files change.                                                           *)

(* A path has changed: the loop will have an event, if it runs.            *)
Changed(p) ==
  IF up THEN inflight' = inflight \cup {p} /\ UNCHANGED unseen
        ELSE unseen' = unseen \cup {p} /\ UNCHANGED inflight

(* The user; what he changes beside a pull, the pull knows nothing of.     *)
Edit(p, v) ==
  /\ Spend("edit")
  /\ v # disk[p]
  /\ disk' = [disk EXCEPT ![p] = v]
  /\ Changed(p)
  /\ cmd' = [c \in Command |-> IF Running(c) THEN [cmd[c] EXCEPT !.risk = @ \cup {p}]
                                             ELSE cmd[c]]
  /\ UNCHANGED <<daemonVars, journalVars, lockVars>>

(* restore_file: a command writes a file of a tree, or cannot and goes on.  *)
WriteFile(c, p, tree) ==
  /\ p \in cmd[c].todo
  /\ cmd' = [cmd EXCEPT ![c].todo = @ \ {p}]
  /\ disk' = [disk EXCEPT ![p] = tree[p]]
  /\ Changed(p)
  /\ UNCHANGED <<daemonVars, journalVars, lockVars, left>>

SkipFile(c, p) ==
  /\ p \in cmd[c].todo
  /\ Spend("error")
  /\ cmd' = [cmd EXCEPT ![c].todo = @ \ {p}]
  /\ UNCHANGED <<treeVars, daemonVars, journalVars, lockVars>>

-----------------------------------------------------------------------------
(* The restore lock.  An flock belongs to the open file, and its holder    *)
(* removes the path when it is done: see locks.rs.                         *)

LockHeld == lockFile # None /\ \E c \in Command : holds[c] = lockFile

Fresh == CHOOSE i \in Inode : i # lockFile /\ \A c \in Command : opened[c] # i

OpenLock(c) ==
  /\ cmd[c].step = "open"
  /\ lockFile' = IF lockFile = None THEN Fresh ELSE lockFile
  /\ opened' = [opened EXCEPT ![c] = lockFile']
  /\ Goes(c, "lock")
  /\ UNCHANGED <<treeVars, daemonVars, journalVars, holds, left>>

TakeLock(c) ==
  /\ cmd[c].step = "lock"
  /\ IF \E d \in Command : holds[d] = opened[c]
     THEN opened' = [opened EXCEPT ![c] = None] /\ Ends(c) /\ UNCHANGED holds
     ELSE holds' = [holds EXCEPT ![c] = opened[c]] /\ Goes(c, "read") /\ UNCHANGED opened
  /\ UNCHANGED <<treeVars, daemonVars, journalVars, lockFile, left>>

CloseLock(c) ==
  /\ opened' = [opened EXCEPT ![c] = None]
  /\ holds' = [holds EXCEPT ![c] = None]

DropLock(c, after) ==
  /\ lockFile' = None
  /\ CloseLock(c)
  /\ IF after = "idle" THEN Ends(c) ELSE Goes(c, after)
  /\ UNCHANGED <<treeVars, daemonVars, journalVars, left>>

-----------------------------------------------------------------------------
(* The daemon's loop.                                                      *)

LoopFree == up /\ loop.step = "idle"

Notice(p) ==
  /\ LoopFree /\ p \in inflight
  /\ inflight' = inflight \ {p}
  /\ pending' = pending \cup {p}
  /\ UNCHANGED <<disk, unseen, map, stale, loop, up, journalVars, lockVars, cmd, left>>

(* A mistake: the rebuilt map knows no files, as after `tl init`.          *)
RebuiltEmpty == IF stale THEN [p \in Path |-> Absent] ELSE map

(* rebuild_pathmap_from_head, if the marker is there.                      *)
Rebuilt == IF stale THEN HeadTree ELSE map

PeriodicCheckpoint ==
  /\ LoopFree /\ pending # {} /\ ~LockHeld
  /\ map' = Rebuilt /\ stale' = FALSE
  /\ loop' = [step |-> "make", for |-> None]
  /\ UNCHANGED <<treeVars, pending, up, journalVars, lockVars, cmd, left>>

(* What a command does when its flush has made checkpoint i, or none (0).  *)
(* A change that the loop had no event of, or that a lock kept it from     *)
(* recording, is at risk.                                                  *)
Answered(c, i, missed) ==
  cmd' = CASE c = None -> cmd
           [] c # None /\ cmd[c].kind = "push" ->
                [cmd EXCEPT ![c] = IF i = 0 THEN NoCmd ELSE [@ EXCEPT !.step = "pin", !.cp = i]]
           [] c # None /\ cmd[c].kind \in {"pull", "fetch"} ->
                [cmd EXCEPT ![c].step = IF i # 0 THEN "stash"
                                        ELSE IF cmd[c].kind = "pull" THEN "import" ELSE "remote",
                            ![c].entry = i, ![c].risk = missed]

(* The flush branch: what is pending or, if nothing is, what the watcher   *)
(* has, or what a scan finds (FlushCheckpoint, for `tl stash`, not         *)
(* FlushCheckpointFast).                                                   *)
TakeFlush(c) ==
  /\ LoopFree /\ cmd[c].step = "flush"
  /\ IF LockHeld
     THEN Answered(c, 0, inflight \cup unseen \cup pending) /\ UNCHANGED <<inflight, pending, loop>>
     ELSE \E polled \in SUBSET inflight :
            LET found == pending \cup polled
                dirty == IF found = {} /\ cmd[c].kind = "push"
                         THEN {p \in Path : disk[p] # map[p]} ELSE found
            IN  /\ pending # {} => polled = {}
                /\ inflight' = inflight \ polled
                /\ pending' = dirty
                /\ IF dirty = {} THEN Answered(c, 0, inflight' \cup unseen) /\ UNCHANGED loop
                   ELSE loop' = [step |-> "make", for |-> c] /\ UNCHANGED cmd
  /\ UNCHANGED <<disk, unseen, map, stale, up, journalVars, lockVars, left>>

(* The files are read, the checkpoint is appended, the map saved.          *)
MakeCheckpoint ==
  /\ loop.step = "make"
  /\ Len(cps) < MaxCheckpoint
  /\ map' = [p \in Path |-> IF p \in pending THEN disk[p] ELSE map[p]]
  /\ cps' = Append(cps, map')
  /\ pending' = {}
  /\ unseen' = unseen \ pending
  /\ loop' = Idle
  /\ Answered(loop.for, Len(cps'), inflight \cup unseen')
  /\ UNCHANGED <<disk, inflight, stale, up, journalBy, lockVars, left>>

(* What it knew of changes goes with it, but for the pending paths it had  *)
(* saved (see CheckpointLoop).                                             *)
DaemonDies ==
  /\ up /\ Spend("death")
  /\ up' = FALSE /\ loop' = Idle /\ pending' = {} /\ inflight' = {}
  /\ unseen' = unseen \cup inflight \cup pending
  /\ UNCHANGED <<disk, map, stale, journalVars, lockVars, cmd>>

(* ensure_daemon_running: the journal must be free.                        *)
DaemonStarts ==
  /\ ~up /\ journalBy = None
  /\ up' = TRUE
  /\ UNCHANGED <<treeVars, pending, map, stale, loop, journalVars, lockVars, cmd, left>>

(* InvalidatePathmap, if there is a daemon to be told.                     *)
Invalidate == stale' = (stale \/ up)

(* The loop finds nobody at the other end.                                 *)
Unasked(c) == loop' = IF loop.for = c THEN [loop EXCEPT !.for = None] ELSE loop

(* A command is killed: the kernel releases its locks, the path stays.     *)
CommandDies(c) ==
  /\ Running(c) /\ Spend("death")
  /\ CloseLock(c)
  /\ Unasked(c)
  /\ journalBy' = IF journalBy = c THEN None ELSE journalBy
  /\ Ends(c)
  /\ UNCHANGED <<treeVars, pending, map, stale, up, cps, lockFile>>

(* A command gives up: the daemon is down, or five seconds pass without an *)
(* answer.  While the daemon is merely restarting, it asks again.          *)
GiveUp(c) ==
  /\ cmd[c].step \in {"flush", "import", "reapply"} /\ cmd[c].kind \in {"push", "pull", "fetch"}
  /\ IF up THEN Spend("error") ELSE UNCHANGED left
  /\ Unasked(c)
  /\ Ends(c)
  /\ UNCHANGED <<treeVars, pending, map, stale, up, journalVars, lockVars>>

TreeNext ==
  \/ \E p \in Path : (\E v \in Content \cup {Absent} : Edit(p, v)) \/ Notice(p)
  \/ PeriodicCheckpoint \/ MakeCheckpoint \/ DaemonDies \/ DaemonStarts
  \/ \E c \in Command : TakeFlush(c) \/ CommandDies(c) \/ GiveUp(c)

-----------------------------------------------------------------------------
(* When nothing is under way, HEAD is the working tree: whatever has been  *)
(* restored, stashed, pulled and fetched, in whatever order the loop had   *)
(* the events of it, with the map rebuilt at any moment.  Excepted are     *)
(* changes the loop can have no event of: those made while it was down,    *)
(* and what an import put into HEAD that is not in the working tree.       *)
Quiet ==
  /\ LoopFree /\ inflight = {} /\ pending = {}
  /\ \A c \in Command : ~Running(c)
HeadShowsTree == Quiet => \A p \in Path \ unseen : HeadTree[p] = disk[p]
===============================================================================
