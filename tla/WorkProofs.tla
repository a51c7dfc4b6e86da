-------------------------------- MODULE WorkProofs -------------------------------
(***************************************************************************)
(* Proofs about Work.tla: what HEAD shows when all is quiet, what pull and *)
(* fetch may write over, and what stays on the list of auto-stashes.  None *)
(* of them depends on the number of commands, paths, trees or events.      *)
(*                                                                         *)
(* The actions are classified first by what they do to the files (FileStep)*)
(* and by what they do to the commands (CmdStep); each part of the         *)
(* invariant is then preserved by each class of steps:                     *)
(*   TypeInv    types, and which steps and fields go with which command    *)
(*   HeadInv    what the loop knows it has recorded is in HEAD             *)
(*   KeepInv    what a pull or fetch may write over is kept                *)
(*   StashInv   the files of auto-stashes that commands write or take off *)
(***************************************************************************)
EXTENDS Work, FiniteSetTheorems, TLAPS

-----------------------------------------------------------------------------
(* Types and shapes.                                                       *)

Locking == {"open", "lock", "read", "write", "unlock"}
Journaling == {"journal", "save", "state", "jj", "known", "forget", "clean"}
Step == Locking \cup Journaling \cup
  {"idle", "flush", "stash", "file", "import", "remote", "sync", "reapply", "back", "pin",
   "unpin"}
Kind == {"none", "restore", "pop", "push", "pull", "fetch", "direct"} \cup OnWorktree

(* A command x while there are n checkpoints.                              *)
Cmd(n) == [kind : Kind, step : Step, on : {None} \cup StashName \cup Workspace, cp : 0..n,
           entry : 0..n, todo : SUBSET Path, risk : SUBSET Path]
CommandOK(x, n) ==
  /\ x \in Cmd(n)
  /\ x.step = "idle" => x = NoCmd
  /\ x.step \in Locking => x.kind \in {"restore", "pop"} /\ x.cp # 0
  /\ x.step = "unpin" => x.kind = "pop"
  /\ x.step = "pin" => x.kind = "push"
  /\ x.step \in Journaling => x.kind \in OnWorktree
  /\ x.step = "flush" => x.kind \in {"push", "pull", "fetch"}
  /\ x.step \in {"stash", "file", "reapply", "back"} =>
       x.kind \in {"pull", "fetch"} /\ x.entry # 0
  /\ x.step = "import" => x.kind \in {"pull", "direct"}
  /\ x.step = "remote" => x.kind = "fetch"
  /\ x.step = "sync" => x.kind \in {"pull", "fetch", "direct"}
  /\ x.kind = "direct" => x.entry = 0

FilesOK ==
  /\ disk \in Tree /\ map \in Tree
  /\ cps \in Seq(Tree) /\ cps # <<>> /\ cps[1] = StartTree
  /\ inflight \subseteq Path /\ pending \subseteq Path /\ unseen \subseteq Path
CmdOK ==
  /\ cmd \in [Command -> Cmd(Len(cps))]
  /\ \A c \in Command : CommandOK(cmd[c], Len(cps))
LoopOK ==
  /\ loop \in [step : {"idle", "make"}, for : Command \cup {None}]
  /\ loop.step = "idle" => loop.for = None
  /\ loop.for # None => cmd[loop.for].step = "flush"
StashOK == stash \in [StashName -> 0..Len(cps)]

TypeInv == FilesOK /\ CmdOK /\ LoopOK /\ StashOK

-----------------------------------------------------------------------------
(* What a step may do to the files and to what is known of them.           *)

Untouched == UNCHANGED <<disk, inflight, unseen, pending, map, cps>>
Writes(p, v) ==
  /\ disk' = [disk EXCEPT ![p] = v] /\ Changed(p) /\ UNCHANGED <<pending, map, cps>>
Edits(p, v) ==
  /\ Writes(p, v)
  /\ cmd' = [c \in Command |-> IF Running(c) THEN [cmd[c] EXCEPT !.risk = @ \cup {p}]
                                             ELSE cmd[c]]
  /\ UNCHANGED <<loop, stash, list, slot, owed>>
Restores(p, v) ==
  /\ Writes(p, v)
  /\ v = RemoteTree[p] \/ \E i \in Checkpoints : v = cps[i][p]

FileStep ==
  \/ Untouched
  \/ \E p \in Path, v \in Content \cup {Absent} : Edits(p, v)
  \/ \E p \in Path : \E v : Restores(p, v)
  \/ \E p \in Path : Notice(p)
  \/ PeriodicCheckpoint
  \/ \E c \in Command : TakeFlush(c)
  \/ MakeCheckpoint
  \/ DaemonDies
  \/ \E c \in Command : ImportRemote(c) /\ UNCHANGED stash
  \/ \E c \in Command : SavesTree(c) /\ UNCHANGED stash

LEMMA FileSteps ==
  ASSUME TypeInv, Next
  PROVE  FileStep
<1>1. CASE TreeNext /\ UNCHANGED <<stash, stashVars, wsVars>>
  <2>1. CASE \E p \in Path, v \in Content \cup {Absent} : Edit(p, v)
    BY <1>1, <2>1 DEF Edit, FileStep, Edits, Writes, daemonVars, journalVars, stashVars
  <2>2. CASE DaemonStarts \/ \E c \in Command : CommandDies(c) \/ GiveUp(c)
    BY <2>2 DEF DaemonStarts, CommandDies, GiveUp, FileStep, Untouched, treeVars, journalVars
  <2> QED
    BY <1>1, <2>1, <2>2 DEF TreeNext, FileStep
<1>2. ASSUME NEW c \in Command, NEW p \in Path, NEW tree, WriteFile(c, p, tree),
             tree = RemoteTree \/ \E i \in Checkpoints : tree = cps[i]
      PROVE  FileStep
  <2>1. Writes(p, tree[p])
    BY <1>2 DEF WriteFile, Writes, daemonVars, journalVars
  <2>2. Restores(p, tree[p])
    BY <1>2, <2>1 DEF Restores
  <2> QED
    BY <2>2 DEF FileStep
<1>3. ASSUME NEW c \in Command, NEW p, SkipFile(c, p)
      PROVE  FileStep
  BY <1>3 DEF SkipFile, FileStep, Untouched, treeVars, daemonVars, journalVars
<1>4. \A c \in Command : /\ cmd[c].step = "write" => cmd[c].cp \in Checkpoints
                         /\ cmd[c].step = "back" => cmd[c].entry \in Checkpoints
  BY DEF TypeInv, CmdOK, CommandOK, Cmd, Locking, Checkpoints, FilesOK
<1>5. CASE RestoreNext
  <2>1. CASE \E c \in Command, p \in Path : RestoreWrites(c, p)
    BY <1>2, <1>3, <1>4, <2>1 DEF RestoreWrites
  <2>2. CASE \E name \in StashName : StashDrop(name)
    BY <2>2 DEF StashDrop, FileStep, Untouched, treeVars, daemonVars, journalVars
  <2>3. CASE StashClear
    BY <2>3 DEF StashClear, FileStep, Untouched, treeVars, daemonVars, journalVars
  <2>4. ASSUME NEW c \in Command,
               \/ \E i \in Checkpoints : RestoreBegin(c, i)
               \/ \E name \in StashName : \/ StashPush(c, name)
                                          \/ \E pop \in BOOLEAN : StashApply(c, name, pop)
        PROVE  Untouched
    BY <2>4 DEF RestoreBegin, StashPush, StashApply, Untouched, treeVars, daemonVars, journalVars
  <2>5. ASSUME NEW c \in Command,
               \/ RestoreReads(c) \/ RestoreInvalidates(c) \/ RestoreEnds(c)
               \/ StashUnpin(c) \/ StashPin(c) \/ OpenLock(c) \/ TakeLock(c)
        PROVE  Untouched
    BY <2>5 DEF RestoreReads, RestoreInvalidates, RestoreEnds, DropLock, StashUnpin, StashPin,
      OpenLock, TakeLock, Untouched, treeVars, daemonVars, journalVars
  <2> QED
    BY <1>5, <2>1, <2>2, <2>3, <2>4, <2>5 DEF RestoreNext, FileStep
<1>6. CASE AutoStashNext /\ UNCHANGED <<stash, wsVars>>
  <2>1. CASE \E c \in Command, p \in Path : SyncWrites(c, p) \/ BackWrites(c, p)
    BY <1>2, <1>3, <1>4, <2>1 DEF SyncWrites, BackWrites
  <2>2. CASE \E c \in Command : ImportRemote(c)
    BY <1>6, <2>2 DEF FileStep
  <2>3. ASSUME NEW c \in Command,
               \/ PullBegin(c) \/ FetchBegin(c) \/ NumbersStash(c) \/ WritesStash(c)
               \/ DirectFails(c) \/ FetchRemote(c) \/ FetchStops(c)
        PROVE  Untouched
    BY <2>3 DEF PullBegin, FetchBegin, SyncBegin, NumbersStash, WritesStash, DirectFails,
      FetchRemote, FetchStops, Untouched, treeVars, daemonVars, journalVars
  <2>4. ASSUME NEW c \in Command,
               SyncInvalidates(c) \/ PullReads(c) \/ FetchPops(c) \/ BackStops(c) \/ BackEnds(c)
        PROVE  Untouched
    BY <2>4 DEF SyncInvalidates, PullReads, FetchPops, BackStops, BackEnds,
      Untouched, treeVars, daemonVars, journalVars
  <2> QED
    BY <1>6, <2>1, <2>2, <2>3, <2>4 DEF AutoStashNext, FileStep
<1>7. CASE WorktreesNext /\ UNCHANGED <<stash, stashVars>>
  <2>1. CASE \E c \in Command : SavesTree(c)
    BY <1>7, <2>1 DEF FileStep
  <2>2. ASSUME NEW c \in Command,
               \/ \E kind \in OnWorktree, w \in Workspace : WorktreeBegin(c, kind, w)
               \/ OpensJournal(c) \/ SavesState(c) \/ AddsWorkspace(c)
               \/ KnowsWorkspace(c) \/ ForgetsWorkspace(c) \/ CleansWorkspace(c)
        PROVE  Untouched
    BY <2>2 DEF WorktreeBegin, OpensJournal, SavesState, AddsWorkspace, KnowsWorkspace,
      ForgetsWorkspace, CleansWorkspace, Untouched, treeVars, daemonVars, journalVars
  <2> QED
    BY <1>7, <2>1, <2>2 DEF WorktreesNext, FileStep
<1> QED
  BY <1>1, <1>5, <1>6, <1>7 DEF Next

-----------------------------------------------------------------------------
(* What a step may do to the commands.                                     *)

(* c has its entry on the list, and will take one off.                     *)
Pushed(x) ==
  /\ x.entry # 0
  /\ x.step \in {"import", "remote", "sync", "reapply"} \/ (x.step = "back" /\ x.kind = "pull")
(* c has had the answer to its flush, and has not written all its files.   *)
Syncing(x) ==
  /\ x.kind \in {"pull", "fetch", "direct"}
  /\ x.step \in {"stash", "file", "import", "remote", "sync"}
AsksFor(x) == x.kind \in {"pull", "fetch"}

Listed == <<list, slot, owed>>

Plainly(old, x) ==
  /\ old.step # "flush" /\ x.step # "file"
  /\ x.kind = old.kind /\ x.entry = old.entry /\ x.risk = old.risk
  /\ Pushed(x) <=> Pushed(old)
  /\ Syncing(x) => Syncing(old)
(* A command begins that is no pull and no fetch.                          *)
Begins(old, x) == old.step = "idle" /\ ~AsksFor(x) /\ ~Syncing(x) /\ x.entry = 0
BeginsSync(c, x) ==
  /\ cmd[c].step = "idle" /\ x.entry = 0 /\ (Syncing(x) => disk' = StartTree)
  /\ UNCHANGED <<list, slot>> /\ owed' \in {owed, {}}
  /\ AsksFor(x) /\ (\E d \in Command : AsksFor(cmd[d])) => owed' = {}
(* A flush is answered: what may be missing in HEAD is at risk.            *)
Answer(old, x) ==
  /\ old.step = "flush" /\ x.kind \in {old.kind, "none"} /\ ~Pushed(x) /\ x.step # "file"
  /\ Syncing(x) => inflight' \cup unseen' \cup pending' \subseteq x.risk

Moves(c, x) ==
  /\ cmd' = [cmd EXCEPT ![c] = x] /\ CommandOK(x, Len(cps'))
  /\ cmd[c].step = "flush" => loop'.for # c
  /\ \/ (x = NoCmd \/ Plainly(cmd[c], x) \/ Begins(cmd[c], x) \/ Answer(cmd[c], x))
          /\ UNCHANGED Listed
     \/ BeginsSync(c, x)
     \/ NumbersStash(c) /\ x.kind = cmd[c].kind /\ x.risk = cmd[c].risk /\ ~Pushed(x)
     \/ WritesStash(c) /\ x.kind = cmd[c].kind /\ x.entry = cmd[c].entry
          /\ x.risk = cmd[c].risk /\ Pushed(x)
     \/ FetchPops(c) /\ ~Pushed(x) /\ ~Syncing(x)
          /\ x.step # "file" /\ (AsksFor(x) => AsksFor(cmd[c]))
     \/ BackEnds(c) /\ x = NoCmd
CmdStep ==
  \/ cmd' = cmd /\ UNCHANGED Listed
  \/ \E p \in Path, v \in Content \cup {Absent} : Edits(p, v)
  \/ \E c \in Command : \E x : Moves(c, x)

(* The number of checkpoints.                                              *)
LEMMA CpsGrow ==
  ASSUME TypeInv, Next
  PROVE  /\ Len(cps) \in Nat \ {0} /\ Len(cps') \in Nat /\ Len(cps') >= Len(cps)
         /\ \A i \in Checkpoints : i \in Checkpoints' /\ cps'[i] = cps[i]
         /\ cps' \in Seq(Tree)
<1>1. cps \in Seq(Tree) /\ cps # <<>> /\ map \in Tree /\ disk \in Tree /\ RemoteTree \in Tree
  BY WorkAssumption DEF TypeInv, FilesOK
<1>2. cps' = cps \/ \E t \in Tree : cps' = Append(cps, t)
  <2>1. CASE MakeCheckpoint
    <3>1. [p \in Path |-> IF p \in pending THEN disk[p] ELSE map[p]] \in Tree
      BY <1>1 DEF Tree
    <3> QED
      BY <2>1, <3>1 DEF MakeCheckpoint
  <2>2. CASE \E c \in Command : ImportRemote(c)
    BY <1>1, <2>2 DEF ImportRemote
  <2>3. CASE \E c \in Command : SavesTree(c)
    BY <1>1, <2>3 DEF SavesTree
  <2> QED
    BY <2>1, <2>2, <2>3, FileSteps DEF FileStep, Untouched, Edits, Restores, Writes, Notice,
      PeriodicCheckpoint, TakeFlush, DaemonDies, journalVars
<1>3. \A t \in Tree : LET u == Append(cps, t) IN
        /\ u \in Seq(Tree) /\ Len(u) = Len(cps) + 1
        /\ \A i \in 1..Len(cps) : u[i] = cps[i]
  BY <1>1
<1> QED
  BY <1>1, <1>2, <1>3 DEF Checkpoints

(* The last conjunct of Moves for the commonest kinds of steps.            *)
LEMMA MovesPlainly ==
  ASSUME NEW c \in Command, NEW x, cmd' = [cmd EXCEPT ![c] = x],
         CommandOK(x, Len(cps')), Plainly(cmd[c], x), UNCHANGED Listed
  PROVE  CmdStep
BY DEF CmdStep, Moves, Plainly

LEMMA MovesEnd ==
  ASSUME TypeInv, NEW c \in Command, cmd' = [cmd EXCEPT ![c] = NoCmd],
         Len(cps') \in Nat, cmd[c].step = "flush" => loop'.for # c, UNCHANGED Listed
  PROVE  CmdStep
<1>1. CommandOK(NoCmd, Len(cps'))
  BY DEF CommandOK, NoCmd, NewCmd, Cmd, Kind, Step, Locking, Journaling
<1> QED
  BY <1>1 DEF CmdStep, Moves

(* What a command that is well formed looks like after a step of its own.  *)
LEMMA StepOK ==
  ASSUME NEW n \in Nat, NEW m \in Nat, n <= m, NEW old, CommandOK(old, n), NEW step \in Step,
         step # "idle",
         step \in Locking => old.kind \in {"restore", "pop"} /\ old.cp # 0,
         step = "unpin" => old.kind = "pop",
         step = "pin" => old.kind = "push",
         step \in Journaling => old.kind \in OnWorktree,
         step = "flush" => old.kind \in {"push", "pull", "fetch"},
         step \in {"stash", "file", "reapply", "back"} =>
           old.kind \in {"pull", "fetch"} /\ old.entry # 0,
         step = "import" => old.kind \in {"pull", "direct"},
         step = "remote" => old.kind = "fetch",
         step = "sync" => old.kind \in {"pull", "fetch", "direct"}
  PROVE  /\ CommandOK([old EXCEPT !.step = step], m)
         /\ \A S \in SUBSET Path : CommandOK([old EXCEPT !.step = step, !.todo = S], m)
<1>1. old \in Cmd(n) /\ (old.kind = "direct" => old.entry = 0)
  BY DEF CommandOK
<1>2. [old EXCEPT !.step = step] \in Cmd(m)
  BY <1>1 DEF Cmd
<1>3. ASSUME NEW S \in SUBSET Path
      PROVE  [old EXCEPT !.step = step, !.todo = S] \in Cmd(m)
  <2> DEFINE y == [old EXCEPT !.step = step]
  <2>1. y \in Cmd(m)
    BY <1>2
  <2>2. [old EXCEPT !.step = step, !.todo = S] = [y EXCEPT !.todo = S]
    BY Zenon
  <2> HIDE DEF y
  <2>3. [y EXCEPT !.todo = S] \in Cmd(m)
    BY <2>1 DEF Cmd
  <2> QED
    BY <2>2, <2>3
<1>4. CommandOK([old EXCEPT !.step = step], m)
  BY <1>1, <1>2 DEF CommandOK, Cmd
<1>5. \A S \in SUBSET Path : CommandOK([old EXCEPT !.step = step, !.todo = S], m)
  BY <1>1, <1>3 DEF CommandOK, Cmd
<1> QED
  BY <1>4, <1>5

LEMMA TodoOK ==
  ASSUME NEW n \in Nat, NEW m \in Nat, n <= m, NEW old, CommandOK(old, n), NEW p,
         old.step # "idle"
  PROVE  CommandOK([old EXCEPT !.todo = @ \ {p}], m)
<1>1. old \in Cmd(n)
  BY DEF CommandOK
<1>2. [old EXCEPT !.todo = @ \ {p}] \in Cmd(m)
  BY <1>1 DEF Cmd
<1> QED
  BY <1>1, <1>2 DEF CommandOK, Cmd

(* The steps of a command that has begun and that does not end yet.        *)
Allowed(old, to) ==
  \/ old.step \in Locking /\ to \in Locking
  \/ old.step = "unlock" /\ to = "unpin" /\ old.kind = "pop"
  \/ old.step \in Journaling /\ to \in Journaling
  \/ old.step \in {"import", "sync"} /\ to = "reapply" /\ old.entry # 0
  \/ old.step \in {"import", "remote"} /\ to = "sync"
  \/ old.step = "reapply" /\ to = "back" /\ old.kind = "pull"

LEMMA StepMoves ==
  ASSUME TypeInv, Next, NEW c \in Command, NEW to, Allowed(cmd[c], to), NEW x,
         \/ x = [cmd[c] EXCEPT !.step = to]
         \/ \E S \in SUBSET Path : x = [cmd[c] EXCEPT !.step = to, !.todo = S],
         cmd' = [cmd EXCEPT ![c] = x], UNCHANGED Listed
  PROVE  CmdStep
<1>1. PICK old : old = cmd[c]
  OBVIOUS
<1>2. CommandOK(old, Len(cps)) /\ old \in Cmd(Len(cps))
  BY <1>1 DEF TypeInv, CmdOK, CommandOK
<1>3. /\ to \in Step /\ to \notin {"idle", "flush", "pin", "stash", "file", "remote"}
      /\ to = "unpin" => old.kind = "pop"
  BY <1>1 DEF Allowed, Step, Locking, Journaling
<1>4. /\ to \in Locking => old.kind \in {"restore", "pop"} /\ old.cp # 0
      /\ to \in Journaling => old.kind \in OnWorktree
      /\ to \in {"reapply", "back"} => old.kind \in {"pull", "fetch"} /\ old.entry # 0
      /\ to = "import" => FALSE
      /\ to = "sync" => old.kind \in {"pull", "fetch", "direct"}
  BY <1>1, <1>2 DEF Allowed, CommandOK, Locking, Journaling
<1>5. CommandOK(x, Len(cps'))
  <2>1. Len(cps) \in Nat /\ Len(cps') \in Nat /\ Len(cps) <= Len(cps')
    BY CpsGrow
  <2>2. /\ to = "pin" => old.kind = "push"
        /\ to = "flush" => old.kind \in {"push", "pull", "fetch"}
        /\ to \in {"stash", "file", "reapply", "back"} =>
             old.kind \in {"pull", "fetch"} /\ old.entry # 0
        /\ to = "import" => old.kind \in {"pull", "direct"}
        /\ to = "remote" => old.kind = "fetch"
    BY <1>3, <1>4
  <2>3. /\ CommandOK([old EXCEPT !.step = to], Len(cps'))
        /\ \A S \in SUBSET Path : CommandOK([old EXCEPT !.step = to, !.todo = S], Len(cps'))
    BY <1>2, <1>3, <1>4, <2>1, <2>2, StepOK
  <2> QED
    BY <1>1, <2>3
<1>6. x.step = to /\ x.kind = old.kind /\ x.entry = old.entry /\ x.risk = old.risk
  <2>1. CASE x = [cmd[c] EXCEPT !.step = to]
    BY <1>1, <1>2, <2>1 DEF Cmd
  <2>2. ASSUME NEW S, x = [cmd[c] EXCEPT !.step = to, !.todo = S]
        PROVE  x.step = to /\ x.kind = old.kind /\ x.entry = old.entry /\ x.risk = old.risk
    BY <1>1, <1>2, <2>2 DEF Cmd
  <2> QED
    BY <2>1, <2>2
<1>7. Plainly(old, x)
  BY <1>1, <1>2, <1>6
  DEF Plainly, Allowed, Pushed, Syncing, Locking, Journaling, CommandOK
<1> QED
  BY <1>1, <1>5, <1>7, MovesPlainly

(* The answer to a flush.                                                  *)
AnswerFor(old, step, i, missed) ==
  [[[old EXCEPT !.step = step] EXCEPT !.entry = i] EXCEPT !.risk = missed]
GoodAnswer(old, i, missed, m) ==
  \A step \in {"stash", "import", "remote"} :
    LET x == AnswerFor(old, step, i, missed) IN
    /\ x.step = step /\ x.entry = i /\ x.risk = missed /\ x.kind = old.kind
    /\ (step = "stash" => old.kind \in {"pull", "fetch"} /\ i # 0)
         /\ (step = "import" => old.kind = "pull")
         /\ (step = "remote" => old.kind = "fetch")
         => CommandOK(x, m)

LEMMA AnswerOK ==
  ASSUME NEW n \in Nat, NEW m \in Nat, n <= m, NEW old, CommandOK(old, n),
         old.step = "flush", NEW i \in 0..m, NEW missed \in SUBSET Path
  PROVE  /\ old.kind = "push" /\ i # 0 => CommandOK([old EXCEPT !.step = "pin", !.cp = i], m)
         /\ GoodAnswer(old, i, missed, m)
<1>1. old \in Cmd(n) /\ (old.kind = "direct" => old.entry = 0)
      /\ old.kind \in {"push", "pull", "fetch"}
  BY DEF CommandOK
<1>2. old.kind = "push" /\ i # 0 => CommandOK([old EXCEPT !.step = "pin", !.cp = i], m)
  <2> DEFINE y == [old EXCEPT !.step = "pin"]
  <2>1. y \in Cmd(m) /\ y.kind = old.kind /\ y.step = "pin"
    BY <1>1 DEF Cmd, Step
  <2>2. [old EXCEPT !.step = "pin", !.cp = i] = [y EXCEPT !.cp = i]
    BY Zenon
  <2> HIDE DEF y
  <2> DEFINE x == [y EXCEPT !.cp = i]
  <2>3. x \in Cmd(m) /\ x.kind = old.kind /\ x.step = "pin"
    BY <2>1 DEF Cmd
  <2> HIDE DEF x
  <2>4. old.kind = "push" => CommandOK(x, m)
    BY <2>3 DEF CommandOK, Locking, Journaling
  <2> QED
    BY <2>2, <2>4 DEF x
<1>3. ASSUME NEW step \in {"stash", "import", "remote"}
      PROVE  LET x == AnswerFor(old, step, i, missed) IN
             /\ x.step = step /\ x.entry = i /\ x.risk = missed /\ x.kind = old.kind
             /\ (step = "stash" => old.kind \in {"pull", "fetch"} /\ i # 0)
                  /\ (step = "import" => old.kind = "pull")
                  /\ (step = "remote" => old.kind = "fetch")
                  => CommandOK(x, m)
  <2> DEFINE y == [old EXCEPT !.step = step]
             z == [y EXCEPT !.entry = i]
             x == [z EXCEPT !.risk = missed]
  <2>1. y \in Cmd(m) /\ y.kind = old.kind /\ y.step = step
    BY <1>1 DEF Cmd, Step
  <2> HIDE DEF y
  <2>2. z \in Cmd(m) /\ z.kind = old.kind /\ z.step = step /\ z.entry = i
    BY <2>1 DEF Cmd
  <2> HIDE DEF z
  <2>3. /\ x \in Cmd(m) /\ x.kind = old.kind /\ x.step = step /\ x.entry = i
        /\ x.risk = missed
    BY <2>2 DEF Cmd
  <2> HIDE DEF x
  <2>4. (step = "stash" => old.kind \in {"pull", "fetch"} /\ i # 0)
          /\ (step = "import" => old.kind = "pull")
          /\ (step = "remote" => old.kind = "fetch")
          => CommandOK(x, m)
    BY <1>1, <2>3 DEF CommandOK, Locking, Journaling
  <2> QED
    BY <2>3, <2>4, Zenon DEF x, y, z, AnswerFor
<1> QED
  BY <1>2, <1>3 DEF GoodAnswer

LEMMA ThreeFields ==
  ASSUME NEW n, NEW f \in [Command -> Cmd(n)], NEW c \in Command, NEW s, NEW e, NEW r
  PROVE  [f EXCEPT ![c].step = s, ![c].entry = e, ![c].risk = r] =
           [f EXCEPT ![c] = [[[f[c] EXCEPT !.step = s] EXCEPT !.entry = e] EXCEPT !.risk = r]]
OBVIOUS

LEMMA AnsweredMoves ==
  ASSUME TypeInv, Next, NEW c \in Command, cmd[c].step = "flush", NEW i \in 0..Len(cps'),
         NEW missed \in SUBSET Path, Answered(c, i, missed), loop'.for # c,
         inflight' \cup unseen' \cup pending' \subseteq missed, UNCHANGED Listed
  PROVE  CmdStep
<1>1. /\ CommandOK(cmd[c], Len(cps)) /\ c # None /\ cmd \in [Command -> Cmd(Len(cps))]
      /\ cmd[c].kind \in {"push", "pull", "fetch"} /\ cmd[c] \in Cmd(Len(cps))
  BY WorkAssumption DEF TypeInv, CmdOK, CommandOK
<1>2. Len(cps) \in Nat /\ Len(cps') \in Nat /\ Len(cps) <= Len(cps')
  BY CpsGrow
<1>3. CASE cmd[c].kind = "push" /\ i = 0
  <2>1. cmd' = [cmd EXCEPT ![c] = NoCmd]
    BY <1>1, <1>3 DEF Answered
  <2> QED
    BY <1>2, <2>1, MovesEnd
<1>4. CASE cmd[c].kind = "push" /\ i # 0
  <2>1. PICK x : x = [cmd[c] EXCEPT !.step = "pin", !.cp = i]
    OBVIOUS
  <2>2. cmd' = [cmd EXCEPT ![c] = x]
    BY <1>1, <1>4, <2>1 DEF Answered
  <2>3. CommandOK(x, Len(cps'))
    BY <1>1, <1>2, <1>4, <2>1, AnswerOK
  <2>4. x.step = "pin" /\ x.kind = "push"
    BY <1>1, <1>4, <2>1 DEF Cmd
  <2>5. Answer(cmd[c], x)
    BY <1>4, <2>4 DEF Answer, Pushed, Syncing
  <2> QED
    BY <2>2, <2>3, <2>5 DEF CmdStep, Moves
<1>5. CASE cmd[c].kind \in {"pull", "fetch"}
  <2>1. PICK step : step = IF i # 0 THEN "stash"
                           ELSE IF cmd[c].kind = "pull" THEN "import" ELSE "remote"
    OBVIOUS
  <2>2. PICK x : x = AnswerFor(cmd[c], step, i, missed)
    OBVIOUS
  <2>3. cmd' = [cmd EXCEPT ![c].step = step, ![c].entry = i, ![c].risk = missed]
    BY <1>1, <1>5, <2>1 DEF Answered
  <2>4. cmd' = [cmd EXCEPT ![c] = x]
    BY <1>1, <2>2, <2>3, ThreeFields DEF AnswerFor
  <2>5. /\ x.step = step /\ x.entry = i /\ x.risk = missed /\ x.kind = cmd[c].kind
        /\ CommandOK(x, Len(cps'))
    <3>1. /\ step \in {"stash", "import", "remote"}
          /\ step = "stash" => cmd[c].kind \in {"pull", "fetch"} /\ i # 0
          /\ step = "import" => cmd[c].kind = "pull"
          /\ step = "remote" => cmd[c].kind = "fetch"
      BY <1>5, <2>1
    <3>2. GoodAnswer(cmd[c], i, missed, Len(cps'))
      BY <1>1, <1>2, AnswerOK
    <3> QED
      BY <2>2, <3>1, <3>2 DEF GoodAnswer
  <2>6. Answer(cmd[c], x)
    BY <2>1, <2>5 DEF Answer, Pushed
  <2> QED
    BY <2>4, <2>5, <2>6 DEF CmdStep, Moves
<1> QED
  BY <1>1, <1>3, <1>4, <1>5

LEMMA TreeMoves ==
  ASSUME TypeInv, Next, TreeNext, UNCHANGED <<stash, stashVars>>
  PROVE  CmdStep
<1>1. UNCHANGED Listed /\ UNCHANGED stash /\ Len(cps) \in Nat /\ Len(cps') \in Nat
      /\ Len(cps) <= Len(cps')
  BY CpsGrow DEF Listed, stashVars
<1>2. CASE \E p \in Path, v \in Content \cup {Absent} : Edit(p, v)
  BY <1>1, <1>2 DEF Edit, CmdStep, Edits, Writes, Listed, daemonVars, journalVars
<1>3. CASE (\E p \in Path : Notice(p)) \/ PeriodicCheckpoint \/ DaemonDies \/ DaemonStarts
  BY <1>1, <1>3 DEF Notice, PeriodicCheckpoint, DaemonDies, DaemonStarts, CmdStep
<1>4. ASSUME NEW c \in Command, CommandDies(c) \/ GiveUp(c)
      PROVE  CmdStep
  <2>1. c # None /\ loop \in [step : {"idle", "make"}, for : Command \cup {None}]
    BY WorkAssumption DEF TypeInv, LoopOK
  <2>2. Unasked(c) /\ cmd' = [cmd EXCEPT ![c] = NoCmd]
    BY <1>4 DEF CommandDies, GiveUp, Ends
  <2>3. loop'.for # c
    BY <2>1, <2>2 DEF Unasked
  <2> QED
    BY <1>1, <2>2, <2>3, MovesEnd
<1>5. ASSUME NEW c \in Command, TakeFlush(c)
      PROVE  CmdStep
  <2>1. cmd[c].step = "flush" /\ c # None /\ loop.for = None
    BY <1>5, WorkAssumption DEF TakeFlush, LoopFree, TypeInv, LoopOK
  <2>2. inflight \subseteq Path /\ unseen \subseteq Path /\ pending \subseteq Path
    BY DEF TypeInv, FilesOK
  <2>3. 0 \in 0..Len(cps')
    BY <1>1
  <2>4. CASE LockHeld
    <3>1. /\ Answered(c, 0, inflight \cup unseen \cup pending)
          /\ UNCHANGED <<inflight, unseen, pending, loop>>
      BY <1>5, <2>4 DEF TakeFlush
    <3> QED
      BY <1>1, <2>1, <2>2, <2>3, <3>1, AnsweredMoves
  <2>5. CASE ~LockHeld
    <3>1. PICK polled \in SUBSET inflight, dirty \in SUBSET Path :
            /\ inflight' = inflight \ polled /\ pending' = dirty /\ unseen' = unseen
            /\ IF dirty = {} THEN Answered(c, 0, inflight' \cup unseen) /\ UNCHANGED loop
               ELSE UNCHANGED cmd
      <4>1. PICK polled, dirty :
              /\ polled \in SUBSET inflight
              /\ dirty \in {{p \in Path : disk[p] # map[p]}, pending \cup polled}
              /\ inflight' = inflight \ polled /\ pending' = dirty
              /\ IF dirty = {} THEN Answered(c, 0, inflight' \cup unseen) /\ UNCHANGED loop
                 ELSE UNCHANGED cmd
        BY <1>5, <2>5 DEF TakeFlush
      <4>2. dirty \in SUBSET Path /\ unseen' = unseen
        BY <1>5, <2>2, <4>1 DEF TakeFlush
      <4> QED
        BY <4>1, <4>2
    <3>2. CASE dirty = {}
      <4>1. inflight' \cup unseen \in SUBSET Path
        BY <2>2, <3>1
      <4> QED
        BY <1>1, <2>1, <2>3, <3>1, <3>2, <4>1, AnsweredMoves
    <3>3. CASE dirty # {}
      BY <1>1, <3>1, <3>3 DEF CmdStep
    <3> QED
      BY <3>2, <3>3
  <2> QED
    BY <2>4, <2>5
<1>6. CASE MakeCheckpoint
  <2>1. /\ Answered(loop.for, Len(cps'), inflight \cup unseen') /\ loop' = Idle
        /\ inflight' = inflight /\ unseen' = unseen \ pending /\ pending' = {}
    BY <1>6 DEF MakeCheckpoint
  <2>2. loop \in [step : {"idle", "make"}, for : Command \cup {None}]
        /\ (loop.for # None => cmd[loop.for].step = "flush")
    BY DEF TypeInv, LoopOK
  <2>3. CASE loop.for = None
    BY <1>1, <2>1, <2>3 DEF Answered, CmdStep
  <2>4. CASE loop.for # None
    <3>1. PICK c \in Command : c = loop.for
      BY <2>2, <2>4
    <3>2. loop'.for # c /\ cmd[c].step = "flush"
      BY <2>1, <2>2, <2>4, <3>1 DEF Idle
    <3>3. inflight \cup unseen' \in SUBSET Path
      BY <2>1 DEF TypeInv, FilesOK
    <3>4. Len(cps') \in 0..Len(cps')
      BY <1>1
    <3> QED
      BY <1>1, <2>1, <3>1, <3>2, <3>3, <3>4, AnsweredMoves
  <2> QED
    BY <2>3, <2>4
<1> QED
  BY <1>2, <1>3, <1>4, <1>5, <1>6 DEF TreeNext

LEMMA TwoFields ==
  ASSUME NEW n, NEW f \in [Command -> Cmd(n)], NEW c \in Command, NEW s, NEW t
  PROVE  [f EXCEPT ![c].step = s, ![c].todo = t] =
           [f EXCEPT ![c] = [f[c] EXCEPT !.step = s, !.todo = t]]
OBVIOUS

LEMMA TodoMoves ==
  ASSUME TypeInv, Next, NEW c \in Command, cmd[c].step \in {"write", "sync", "back"}, NEW p,
         cmd' = [cmd EXCEPT ![c].todo = @ \ {p}], UNCHANGED Listed
  PROVE  CmdStep
<1>1. PICK old : old = cmd[c]
  OBVIOUS
<1>2. CommandOK(old, Len(cps)) /\ old \in Cmd(Len(cps))
  BY <1>1 DEF TypeInv, CmdOK, CommandOK
<1>3. PICK x : x = [old EXCEPT !.todo = @ \ {p}]
  OBVIOUS
<1>4. cmd' = [cmd EXCEPT ![c] = x]
  BY <1>1, <1>3
<1>5. CommandOK(x, Len(cps'))
  BY <1>1, <1>2, <1>3, CpsGrow, TodoOK
<1>6. x.step = old.step /\ x.kind = old.kind /\ x.entry = old.entry /\ x.risk = old.risk
  BY <1>2, <1>3 DEF Cmd
<1>7. Plainly(old, x)
  BY <1>1, <1>6 DEF Plainly, Pushed, Syncing
<1> QED
  BY <1>1, <1>4, <1>5, <1>7, MovesPlainly

(* A new command.                                                          *)
LEMMA NewOK ==
  ASSUME NEW n \in Nat, NEW kind \in Kind, NEW step \in Step \ {"idle"},
         NEW on \in {None} \cup StashName \cup Workspace, NEW cp \in 0..n,
         \/ kind \in {"restore", "pop"} /\ step = "open" /\ cp # 0
         \/ kind \in {"push", "pull", "fetch"} /\ step = "flush"
         \/ kind = "direct" /\ step = "import"
         \/ kind \in OnWorktree /\ step \in Journaling
  PROVE  LET x == NewCmd(kind, step, on, cp) IN
         /\ CommandOK(x, n) /\ ~Pushed(x) /\ x.entry = 0 /\ x.kind = kind /\ x.step = step
         /\ Syncing(x) => kind = "direct"
<1> DEFINE x == NewCmd(kind, step, on, cp)
<1>1. /\ x \in Cmd(n) /\ x.entry = 0 /\ x.kind = kind /\ x.step = step /\ x.cp = cp
  BY DEF NewCmd, Cmd
<1> HIDE DEF x
<1>2. CommandOK(x, n)
  BY <1>1 DEF CommandOK, Locking, Journaling, OnWorktree
<1>3. ~Pushed(x) /\ (Syncing(x) => kind = "direct")
  BY <1>1 DEF Pushed, Syncing, Journaling
<1> QED
  BY <1>1, <1>2, <1>3 DEF x

LEMMA NewMoves ==
  ASSUME TypeInv, Next, NEW c \in Command, ~Running(c), NEW x,
         cmd' = [cmd EXCEPT ![c] = x], CommandOK(x, Len(cps')), x.entry = 0,
         ~AsksFor(x), ~Syncing(x), UNCHANGED Listed
  PROVE  CmdStep
BY DEF CmdStep, Moves, Begins, Running

LEMMA RestoreMoves ==
  ASSUME TypeInv, Next, RestoreNext, UNCHANGED stashVars
  PROVE  CmdStep
<1>1. UNCHANGED Listed /\ Len(cps) \in Nat /\ Len(cps') \in Nat /\ Len(cps) <= Len(cps')
  BY CpsGrow DEF Listed, stashVars
<1>2. ASSUME NEW c \in Command, NEW i \in Checkpoints, RestoreBegin(c, i)
      PROVE  CmdStep
  <2>1. PICK x : x = NewCmd("restore", "open", None, i)
    OBVIOUS
  <2>2. ~Running(c) /\ cmd' = [cmd EXCEPT ![c] = x]
    BY <1>2, <2>1 DEF RestoreBegin, Begin
  <2>3. i \in 0..Len(cps') /\ i # 0 /\ "restore" \in Kind /\ "open" \in Step \ {"idle"}
    BY <1>1 DEF Checkpoints, Kind, Step, Locking
  <2>4. /\ CommandOK(x, Len(cps')) /\ x.entry = 0 /\ x.kind = "restore"
        /\ Syncing(x) => "restore" = "direct"
    BY <1>1, <2>1, <2>3, NewOK
  <2> QED
    BY <1>1, <2>2, <2>4, NewMoves DEF AsksFor
<1>3. ASSUME NEW c \in Command, NEW name \in StashName, NEW pop \in BOOLEAN,
             StashApply(c, name, pop)
      PROVE  CmdStep
  <2>1. PICK kind : kind = IF pop THEN "pop" ELSE "restore"
    OBVIOUS
  <2>2. PICK x : x = NewCmd(kind, "open", name, stash[name])
    OBVIOUS
  <2>3. ~Running(c) /\ cmd' = [cmd EXCEPT ![c] = x] /\ stash[name] # 0
    BY <1>3, <2>1, <2>2 DEF StashApply, Begin
  <2>4. stash[name] \in 0..Len(cps') /\ kind \in Kind /\ "open" \in Step \ {"idle"}
        /\ kind \in {"restore", "pop"}
    BY <1>1, <2>1 DEF TypeInv, StashOK, Kind, Step, Locking
  <2>5. /\ CommandOK(x, Len(cps')) /\ x.entry = 0 /\ x.kind = kind
        /\ Syncing(x) => kind = "direct"
    BY <1>1, <2>2, <2>3, <2>4, NewOK
  <2> QED
    BY <1>1, <2>3, <2>4, <2>5, NewMoves DEF AsksFor
<1>4. ASSUME NEW c \in Command, NEW name \in StashName, StashPush(c, name)
      PROVE  CmdStep
  <2>1. PICK x : x = NewCmd("push", "flush", name, 0)
    OBVIOUS
  <2>2. ~Running(c) /\ cmd' = [cmd EXCEPT ![c] = x]
    BY <1>4, <2>1 DEF StashPush, Begin
  <2>3. 0 \in 0..Len(cps') /\ "push" \in Kind /\ "flush" \in Step \ {"idle"}
    BY <1>1 DEF Kind, Step
  <2>4. /\ CommandOK(x, Len(cps')) /\ x.entry = 0 /\ x.kind = "push"
        /\ Syncing(x) => "push" = "direct"
    BY <1>1, <2>1, <2>3, NewOK
  <2> QED
    BY <1>1, <2>2, <2>4, NewMoves DEF AsksFor
<1>5. CASE (\E name \in StashName : StashDrop(name)) \/ StashClear
  BY <1>1, <1>5 DEF StashDrop, StashClear, CmdStep
<1>6. ASSUME NEW c \in Command, TakeLock(c) \/ RestoreEnds(c) \/ StashUnpin(c) \/ StashPin(c),
             Ends(c)
      PROVE  CmdStep
  <2>1. cmd[c].step # "flush"
    BY <1>6 DEF TakeLock, RestoreEnds, StashUnpin, StashPin
  <2> QED
    BY <1>1, <1>6, <2>1, MovesEnd DEF Ends
<1>7. ASSUME NEW c \in Command, NEW to, Goes(c, to), Allowed(cmd[c], to)
      PROVE  CmdStep
  BY <1>1, <1>7, StepMoves DEF Goes
<1>8. ASSUME NEW c \in Command, OpenLock(c) \/ TakeLock(c)
      PROVE  CmdStep
  <2>1. \/ Ends(c) /\ TakeLock(c)
        \/ Goes(c, "lock") /\ cmd[c].step = "open"
        \/ Goes(c, "read") /\ cmd[c].step = "lock"
    BY <1>8 DEF OpenLock, TakeLock
  <2> QED
    BY <1>6, <1>7, <2>1 DEF Allowed, Locking
<1>9. ASSUME NEW c \in Command, RestoreReads(c)
      PROVE  CmdStep
  <2>1. CASE Goes(c, "unlock")
    BY <1>7, <1>9, <2>1 DEF RestoreReads, Allowed, Locking
  <2>2. CASE cmd' = [cmd EXCEPT ![c].step = "write", ![c].todo = Files(cps[cmd[c].cp])]
    <3>1. PICK S : S = Files(cps[cmd[c].cp]) /\ S \in SUBSET Path
      BY DEF Files
    <3>2. PICK x : x = [cmd[c] EXCEPT !.step = "write", !.todo = S]
      OBVIOUS
    <3>3. cmd' = [cmd EXCEPT ![c] = x]
      BY <2>2, <3>1, <3>2, TwoFields DEF TypeInv, CmdOK
    <3>4. Allowed(cmd[c], "write")
      BY <1>9 DEF RestoreReads, Allowed, Locking
    <3> QED
      BY <1>1, <3>1, <3>2, <3>3, <3>4, StepMoves
  <2> QED
    BY <1>9, <2>1, <2>2 DEF RestoreReads
<1>10. ASSUME NEW c \in Command, NEW p \in Path, RestoreWrites(c, p)
      PROVE  CmdStep
  BY <1>1, <1>10, TodoMoves DEF RestoreWrites, WriteFile, SkipFile
<1>11. ASSUME NEW c \in Command, RestoreInvalidates(c)
      PROVE  CmdStep
  BY <1>7, <1>11 DEF RestoreInvalidates, Allowed, Locking
<1>12. ASSUME NEW c \in Command, RestoreEnds(c)
      PROVE  CmdStep
  <2>1. Ends(c) \/ (Goes(c, "unpin") /\ cmd[c].kind = "pop")
    BY <1>12 DEF RestoreEnds, DropLock
  <2>2. cmd[c].step = "unlock"
    BY <1>12 DEF RestoreEnds
  <2> QED
    BY <1>6, <1>7, <1>12, <2>1, <2>2 DEF Allowed
<1>13. ASSUME NEW c \in Command, StashUnpin(c) \/ StashPin(c)
      PROVE  CmdStep
  BY <1>6, <1>13 DEF StashUnpin, StashPin
<1> QED
  BY <1>2, <1>3, <1>4, <1>5, <1>8, <1>9, <1>10, <1>11, <1>12, <1>13 DEF RestoreNext

LEMMA FilesMove ==
  ASSUME TypeInv, Next, NEW c \in Command, NEW to, NEW S \in SUBSET Path, Allowed(cmd[c], to),
         cmd' = [cmd EXCEPT ![c].step = to, ![c].todo = S], UNCHANGED Listed
  PROVE  CmdStep
<1>1. PICK x : x = [cmd[c] EXCEPT !.step = to, !.todo = S]
  OBVIOUS
<1>2. cmd' = [cmd EXCEPT ![c] = x]
  BY <1>1, TwoFields DEF TypeInv, CmdOK
<1>3. \E T \in SUBSET Path : x = [cmd[c] EXCEPT !.step = to, !.todo = T]
  BY <1>1, Zenon
<1> QED
  BY <1>2, <1>3, StepMoves

LEMMA StashMoves ==
  ASSUME TypeInv, Next, AutoStashNext
  PROVE  CmdStep
<1>1. Len(cps) \in Nat /\ Len(cps') \in Nat /\ Len(cps) <= Len(cps')
  BY CpsGrow
<1>2. \A c \in Command : CommandOK(cmd[c], Len(cps)) /\ cmd[c] \in Cmd(Len(cps))
  BY DEF TypeInv, CmdOK, CommandOK
<1>3. ASSUME NEW c \in Command, NEW kind, NEW step, SyncBegin(c, kind, step),
             \/ kind \in {"pull", "fetch"} /\ step = "flush"
             \/ kind = "direct" /\ step = "import" /\ disk = StartTree
      PROVE  CmdStep
  <2>1. PICK x : x = NewCmd(kind, step, None, 0)
    OBVIOUS
  <2>2. /\ ~Running(c) /\ cmd' = [cmd EXCEPT ![c] = x] /\ disk' = disk
        /\ UNCHANGED <<list, slot>> /\ owed' \in {owed, {}}
        /\ kind # "direct" /\ (\E d \in Command : AsksFor(cmd[d])) => owed' = {}
    BY <1>3, <2>1 DEF SyncBegin, treeVars, Asking, AsksFor
  <2>3. 0 \in 0..Len(cps') /\ kind \in Kind /\ step \in Step \ {"idle"}
        /\ None \in {None} \cup StashName \cup Workspace
    BY <1>1, <1>3 DEF Kind, Step
  <2>4. /\ CommandOK(x, Len(cps')) /\ x.entry = 0 /\ x.kind = kind
        /\ Syncing(x) => kind = "direct"
    BY <1>1, <1>3, <2>1, <2>3, NewOK
  <2>5. BeginsSync(c, x)
    <3>1. Syncing(x) => disk' = StartTree
      BY <1>3, <2>2, <2>4
    <3>2. AsksFor(x) => kind # "direct"
      BY <2>4 DEF AsksFor
    <3> QED
      BY <2>2, <2>4, <3>1, <3>2 DEF BeginsSync, Running
  <2>6. cmd[c].step # "flush"
    BY <2>2 DEF Running
  <2> QED
    BY <2>2, <2>4, <2>5, <2>6 DEF CmdStep, Moves
<1>4. ASSUME NEW c \in Command, PullBegin(c) \/ FetchBegin(c)
      PROVE  CmdStep
  BY <1>3, <1>4 DEF PullBegin, FetchBegin
<1>5. ASSUME NEW c \in Command, NumbersStash(c) \/ WritesStash(c)
      PROVE  CmdStep
  <2>1. PICK to : to = IF cmd[c].step = "stash" THEN "file"
                       ELSE IF cmd[c].kind = "pull" THEN "import" ELSE "remote"
    OBVIOUS
  <2>2. PICK old, x : old = cmd[c] /\ x = [cmd[c] EXCEPT !.step = to]
    OBVIOUS
  <2>3. cmd' = [cmd EXCEPT ![c] = x] /\ old.step \in {"stash", "file"}
    BY <1>5, <2>1, <2>2 DEF NumbersStash, WritesStash, Goes
  <2>4. CommandOK(old, Len(cps)) /\ old \in Cmd(Len(cps))
    BY <1>2, <2>2
  <2>5. old.kind \in {"pull", "fetch"} /\ old.entry # 0
    BY <2>3, <2>4 DEF CommandOK
  <2>6. /\ to \in Step /\ to \in {"file", "import", "remote"}
        /\ to = "import" => old.kind = "pull"
        /\ to = "remote" => old.kind = "fetch"
    BY <2>1, <2>2, <2>5 DEF Step
  <2>7. CommandOK(x, Len(cps'))
    <3>1. /\ to \notin {"idle", "unpin", "pin", "flush", "stash", "reapply", "back", "sync"}
          /\ to \notin Locking /\ to \notin Journaling
      BY <2>6 DEF Locking, Journaling
    <3> QED
      BY <1>1, <2>2, <2>4, <2>5, <2>6, <3>1, StepOK
  <2>8. x.step = to /\ x.kind = old.kind /\ x.entry = old.entry /\ x.risk = old.risk
    BY <2>2, <2>4 DEF Cmd
  <2>9. CASE NumbersStash(c)
    <3>1. ~Pushed(x)
      BY <2>1, <2>8, <2>9 DEF NumbersStash, Pushed
    <3>2. cmd[c].step # "flush"
      BY <2>9 DEF NumbersStash
    <3> QED
      BY <2>2, <2>3, <2>7, <2>8, <2>9, <3>1, <3>2 DEF CmdStep, Moves
  <2>10. CASE WritesStash(c)
    <3>1. Pushed(x)
      BY <2>1, <2>5, <2>6, <2>8, <2>10 DEF WritesStash, Pushed
    <3>2. cmd[c].step # "flush"
      BY <2>10 DEF WritesStash
    <3> QED
      BY <2>2, <2>3, <2>7, <2>8, <2>10, <3>1, <3>2 DEF CmdStep, Moves
  <2> QED
    BY <1>5, <2>9, <2>10
<1>6. ASSUME NEW c \in Command, AfterSync(c), cmd[c].step \in {"import", "sync"},
             UNCHANGED Listed
      PROVE  CmdStep
  <2>1. CASE cmd[c].entry = 0
    BY <1>1, <1>6, <2>1, MovesEnd DEF AfterSync, Ends
  <2>2. CASE cmd[c].entry # 0
    <3>1. cmd' = [cmd EXCEPT ![c] = [cmd[c] EXCEPT !.step = "reapply"]]
      BY <1>6, <2>2 DEF AfterSync, Goes
    <3>2. Allowed(cmd[c], "reapply")
      BY <1>6, <2>2 DEF Allowed
    <3> QED
      BY <1>6, <3>1, <3>2, StepMoves
  <2> QED
    BY <2>1, <2>2
<1>7. ASSUME NEW c \in Command, SyncsRemote(c), cmd[c].step \in {"import", "remote"},
             UNCHANGED Listed
      PROVE  CmdStep
  <2>1. Files(RemoteTree) \in SUBSET Path /\ Allowed(cmd[c], "sync")
    BY <1>7 DEF Files, Allowed
  <2> QED
    BY <1>7, <2>1, FilesMove DEF SyncsRemote
<1>8. ASSUME NEW c \in Command, ImportRemote(c)
      PROVE  CmdStep
  BY <1>6, <1>7, <1>8 DEF ImportRemote, Listed
<1>9. ASSUME NEW c \in Command, FetchRemote(c) \/ SyncInvalidates(c)
      PROVE  CmdStep
  BY <1>6, <1>7, <1>9 DEF FetchRemote, SyncInvalidates, Listed, stashVars
<1>10. ASSUME NEW c \in Command, DirectFails(c) \/ BackStops(c)
       PROVE  CmdStep
  BY <1>1, <1>10, MovesEnd DEF DirectFails, BackStops, Listed, stashVars, Ends
<1>11. ASSUME NEW c \in Command, FetchStops(c)
       PROVE  CmdStep
  <2>1. UNCHANGED Listed /\ cmd[c].step = "sync" /\ {} \in SUBSET Path
    BY <1>11 DEF FetchStops, Listed, stashVars
  <2>2. CASE cmd[c].entry = 0
    <3>1. cmd' = [cmd EXCEPT ![c] = NoCmd]
      BY <1>11, <2>2 DEF FetchStops
    <3> QED
      BY <1>1, <2>1, <3>1, MovesEnd
  <2>3. CASE cmd[c].entry # 0
    <3>1. PICK x : x = [cmd[c] EXCEPT !.step = "reapply", !.todo = {}]
      OBVIOUS
    <3>2. cmd' = [cmd EXCEPT ![c] = x]
      BY <1>11, <2>3, <3>1 DEF FetchStops
    <3>3. Allowed(cmd[c], "reapply")
      BY <2>1, <2>3 DEF Allowed
    <3> QED
      BY <2>1, <3>1, <3>2, <3>3, StepMoves
  <2> QED
    BY <2>2, <2>3
<1>12. ASSUME NEW c \in Command, NEW p \in Path, SyncWrites(c, p) \/ BackWrites(c, p)
       PROVE  CmdStep
  <2>1. /\ cmd' = [cmd EXCEPT ![c].todo = @ \ {p}] /\ cmd[c].step \in {"sync", "back"}
        /\ UNCHANGED Listed
    BY <1>12 DEF SyncWrites, BackWrites, WriteFile, SkipFile, Listed, stashVars
  <2> QED
    BY <2>1, TodoMoves
<1>13. ASSUME NEW c \in Command, PullReads(c)
       PROVE  CmdStep
  <2>1. Files(cps[cmd[c].entry]) \in SUBSET Path /\ Allowed(cmd[c], "back")
    BY <1>13 DEF PullReads, Files, Allowed
  <2> QED
    BY <1>13, <2>1, FilesMove DEF PullReads, GivesBack, Listed, stashVars
<1>14. ASSUME NEW c \in Command, FetchPops(c)
       PROVE  CmdStep
  <2>1. PICK old : old = cmd[c] /\ old.step = "reapply" /\ old.kind = "fetch"
    BY <1>14 DEF FetchPops
  <2>2. CASE Ends(c)
    <3>1. /\ CommandOK(NoCmd, Len(cps')) /\ ~Pushed(NoCmd) /\ ~Syncing(NoCmd)
          /\ NoCmd.step # "file" /\ ~AsksFor(NoCmd)
      BY <1>1 DEF CommandOK, NoCmd, NewCmd, Cmd, Kind, Step, Locking, Journaling, Pushed, Syncing,
        AsksFor
    <3> QED
      BY <1>14, <2>1, <2>2, <3>1 DEF CmdStep, Moves, Ends
  <2>3. CASE GivesBack(c)
    <3>1. PICK S, x : S = Files(cps[cmd[c].entry]) /\ x = [old EXCEPT !.step = "back", !.todo = S]
      OBVIOUS
    <3>2. cmd' = [cmd EXCEPT ![c] = x]
      BY <2>1, <2>3, <3>1, TwoFields DEF GivesBack, TypeInv, CmdOK
    <3>3. CommandOK(old, Len(cps)) /\ old \in Cmd(Len(cps)) /\ S \in SUBSET Path
      BY <1>2, <2>1, <3>1 DEF Files
    <3>4. "back" \in Step /\ "back" \notin Locking /\ "back" \notin Journaling /\ old.entry # 0
      BY <2>1, <3>3 DEF Step, Locking, Journaling, CommandOK
    <3>5. CommandOK(x, Len(cps'))
      BY <1>1, <2>1, <3>1, <3>3, <3>4, StepOK
    <3>6. x.step = "back" /\ x.kind = "fetch"
      BY <2>1, <3>1, <3>3 DEF Cmd
    <3>7. ~Pushed(x) /\ ~Syncing(x) /\ x.step # "file" /\ (AsksFor(x) => AsksFor(cmd[c]))
      BY <2>1, <3>6 DEF Pushed, Syncing, AsksFor
    <3> QED
      BY <1>14, <2>1, <3>2, <3>5, <3>7 DEF CmdStep, Moves
  <2> QED
    BY <1>14, <2>2, <2>3 DEF FetchPops
<1>15. ASSUME NEW c \in Command, BackEnds(c)
       PROVE  CmdStep
  <2>1. cmd' = [cmd EXCEPT ![c] = NoCmd] /\ cmd[c].step = "back"
    BY <1>15 DEF BackEnds, Ends
  <2>2. CommandOK(NoCmd, Len(cps'))
    BY <1>1 DEF CommandOK, NoCmd, NewCmd, Cmd, Kind, Step, Locking, Journaling
  <2> QED
    BY <1>15, <2>1, <2>2 DEF CmdStep, Moves
<1> QED
  BY <1>4, <1>5, <1>8, <1>9, <1>10, <1>11, <1>12, <1>13, <1>14, <1>15 DEF AutoStashNext

LEMMA WorktreeMoves ==
  ASSUME TypeInv, Next, WorktreesNext, UNCHANGED stashVars
  PROVE  CmdStep
<1>1. UNCHANGED Listed /\ Len(cps) \in Nat /\ Len(cps') \in Nat /\ Len(cps) <= Len(cps')
  BY CpsGrow DEF Listed, stashVars
<1>2. ASSUME NEW c \in Command, NEW kind \in OnWorktree, NEW w \in Workspace,
             WorktreeBegin(c, kind, w)
      PROVE  CmdStep
  <2>1. PICK step \in {"forget", "journal"} : cmd' = [cmd EXCEPT ![c] = NewCmd(kind, step, w, 0)]
    BY <1>2 DEF WorktreeBegin
  <2>2. PICK x : x = NewCmd(kind, step, w, 0)
    OBVIOUS
  <2>3. 0 \in 0..Len(cps') /\ kind \in Kind /\ step \in Step \ {"idle"} /\ step \in Journaling
    BY <1>1 DEF Kind, Step, Journaling
  <2>4. /\ CommandOK(x, Len(cps')) /\ x.entry = 0 /\ x.kind = kind
        /\ Syncing(x) => kind = "direct"
    BY <1>1, <2>2, <2>3, NewOK
  <2>5. kind \notin {"pull", "fetch", "direct"} /\ ~Running(c)
    BY <1>2 DEF OnWorktree, WorktreeBegin
  <2> QED
    BY <1>1, <2>1, <2>2, <2>4, <2>5, NewMoves DEF AsksFor
<1>3. ASSUME NEW c \in Command, Ends(c), cmd[c].step # "flush"
      PROVE  CmdStep
  BY <1>1, <1>3, MovesEnd DEF Ends
<1>4. ASSUME NEW c \in Command, NEW to \in Journaling, Goes(c, to), cmd[c].step \in Journaling
      PROVE  CmdStep
  <2>1. Allowed(cmd[c], to) /\ cmd' = [cmd EXCEPT ![c] = [cmd[c] EXCEPT !.step = to]]
    BY <1>4 DEF Allowed, Goes
  <2> QED
    BY <1>1, <2>1, StepMoves
<1>5. ASSUME NEW c \in Command,
             \/ OpensJournal(c) \/ SavesState(c) \/ AddsWorkspace(c) \/ KnowsWorkspace(c)
             \/ ForgetsWorkspace(c) \/ CleansWorkspace(c)
      PROVE  CmdStep
  <2>1. cmd[c].step # "flush" /\ cmd[c].step \in Journaling
    BY <1>5 DEF OpensJournal, SavesState, AddsWorkspace, KnowsWorkspace, ForgetsWorkspace,
      CleansWorkspace, Journaling
  <2>2. Ends(c) \/ \E to \in Journaling : Goes(c, to)
    BY <1>5 DEF OpensJournal, SavesState, AddsWorkspace, KnowsWorkspace, ForgetsWorkspace,
      CleansWorkspace, Leaves, Journaling
  <2> QED
    BY <1>3, <1>4, <2>1, <2>2
<1>6. ASSUME NEW c \in Command, SavesTree(c)
      PROVE  CmdStep
  <2>1. PICK old : old = cmd[c] /\ old.step = "save" /\ CommandOK(old, Len(cps))
    BY <1>6 DEF SavesTree, TypeInv, CmdOK
  <2>2. PICK y : y = [old EXCEPT !.step = "state"]
    OBVIOUS
  <2>3. PICK x : x = [y EXCEPT !.cp = Len(cps')]
    OBVIOUS
  <2>4. cmd' = [cmd EXCEPT ![c] = x]
    BY <1>6, <2>1, <2>2, <2>3 DEF SavesTree, TypeInv, CmdOK
  <2>5. /\ y \in Cmd(Len(cps')) /\ y.kind = old.kind /\ y.entry = old.entry
        /\ y.risk = old.risk /\ y.step = "state" /\ old.kind \in OnWorktree
    BY <1>1, <2>1, <2>2 DEF CommandOK, Cmd, Step, Journaling
  <2>6. /\ x \in Cmd(Len(cps')) /\ x.kind = old.kind /\ x.entry = old.entry
        /\ x.risk = old.risk /\ x.step = "state"
    BY <1>1, <2>3, <2>5 DEF Cmd
  <2>7. CommandOK(x, Len(cps'))
    BY <2>5, <2>6 DEF CommandOK, Locking, Journaling, OnWorktree
  <2>8. Plainly(old, x)
    BY <2>1, <2>6 DEF Plainly, Pushed, Syncing
  <2> QED
    BY <1>1, <2>1, <2>4, <2>7, <2>8, MovesPlainly
<1> QED
  BY <1>2, <1>5, <1>6 DEF WorktreesNext

LEMMA CmdSteps ==
  ASSUME TypeInv, Next
  PROVE  CmdStep
<1>1. CASE TreeNext /\ UNCHANGED <<stash, stashVars, wsVars>>
  BY <1>1, TreeMoves
<1>2. CASE RestoreNext /\ UNCHANGED <<stashVars, wsVars>>
  BY <1>2, RestoreMoves
<1>3. CASE AutoStashNext /\ UNCHANGED <<stash, wsVars>>
  BY <1>3, StashMoves
<1>4. CASE WorktreesNext /\ UNCHANGED <<stash, stashVars>>
  BY <1>4, WorktreeMoves
<1> QED
  BY <1>1, <1>2, <1>3, <1>4 DEF Next

-----------------------------------------------------------------------------
(* The invariant of types and shapes.                                      *)

LoopKind == [step : {"idle", "make"}, for : Command \cup {None}]

LEMMA LoopSteps ==
  ASSUME TypeInv, Next
  PROVE  \/ loop' = loop
         \/ loop' \in LoopKind /\ loop'.for = None
         \/ \E c \in Command : /\ loop' = [step |-> "make", for |-> c]
                               /\ cmd[c].step = "flush" /\ cmd' = cmd
<1>1. loop \in LoopKind
  BY DEF TypeInv, LoopOK, LoopKind
<1>2. CASE TreeNext /\ UNCHANGED <<stash, stashVars, wsVars>>
  <2>1. CASE \E p \in Path : Notice(p) \/ \E v \in Content \cup {Absent} : Edit(p, v)
    BY <2>1 DEF Notice, Edit, daemonVars
  <2>2. CASE PeriodicCheckpoint \/ MakeCheckpoint \/ DaemonDies \/ DaemonStarts
    BY <2>2 DEF PeriodicCheckpoint, MakeCheckpoint, DaemonDies, DaemonStarts, Idle, LoopKind
  <2>3. ASSUME NEW c \in Command, CommandDies(c) \/ GiveUp(c)
        PROVE  loop' = loop \/ (loop' \in LoopKind /\ loop'.for = None)
    <3>1. loop' = loop \/ loop' = [loop EXCEPT !.for = None]
      BY <2>3 DEF CommandDies, GiveUp, Unasked
    <3> QED
      BY <1>1, <3>1 DEF LoopKind
  <2>4. ASSUME NEW c \in Command, TakeFlush(c)
        PROVE  \/ loop' = loop
               \/ /\ loop' = [step |-> "make", for |-> c]
                  /\ cmd[c].step = "flush" /\ cmd' = cmd
    BY <2>4 DEF TakeFlush
  <2> QED
    BY <1>2, <2>1, <2>2, <2>3, <2>4 DEF TreeNext
<1>3. CASE RestoreNext /\ UNCHANGED <<stashVars, wsVars>>
  BY <1>3 DEF RestoreNext, RestoreBegin, StashPush, StashApply, RestoreReads, RestoreInvalidates,
    RestoreEnds, DropLock, RestoreWrites, WriteFile, SkipFile, StashUnpin, StashPin, OpenLock,
    TakeLock, StashDrop, StashClear, daemonVars
<1>4. CASE AutoStashNext /\ UNCHANGED <<stash, wsVars>>
  BY <1>4 DEF AutoStashNext, PullBegin, FetchBegin, SyncBegin, NumbersStash, WritesStash,
    ImportRemote, DirectFails, FetchRemote, FetchStops, SyncWrites, BackWrites, WriteFile, SkipFile,
    SyncInvalidates, PullReads, FetchPops, BackStops, BackEnds, daemonVars
<1>5. CASE WorktreesNext /\ UNCHANGED <<stash, stashVars>>
  BY <1>5 DEF WorktreesNext, WorktreeBegin, OpensJournal, SavesTree, SavesState, AddsWorkspace,
    KnowsWorkspace, ForgetsWorkspace, CleansWorkspace, daemonVars
<1> QED
  BY <1>2, <1>3, <1>4, <1>5 DEF Next

LEMMA StashSteps ==
  ASSUME TypeInv, Next
  PROVE  stash' \in [StashName -> 0..Len(cps)]
<1>1. stash \in [StashName -> 0..Len(cps)] /\ Len(cps) \in Nat
  BY CpsGrow DEF TypeInv, StashOK
<1>2. ASSUME NEW c \in Command
      PROVE  cmd[c].cp \in 0..Len(cps)
  BY DEF TypeInv, CmdOK, Cmd
<1>3. CASE RestoreNext
  <2>1. CASE \E c \in Command : StashUnpin(c) \/ StashPin(c)
    BY <1>1, <1>2, <2>1 DEF StashUnpin, StashPin
  <2>2. CASE (\E name \in StashName : StashDrop(name)) \/ StashClear
    BY <1>1, <2>2 DEF StashDrop, StashClear
  <2>3. CASE UNCHANGED stash
    BY <1>1, <2>3
  <2> QED
    BY <1>3, <2>1, <2>2, <2>3 DEF RestoreNext, RestoreBegin, StashPush, StashApply, RestoreReads,
      RestoreInvalidates, RestoreEnds, RestoreWrites
<1> QED
  BY <1>1, <1>3 DEF Next

LEMMA TypeInit ==
  ASSUME Init
  PROVE  TypeInv
<1>1. FilesOK
  BY WorkAssumption DEF Init, TreeInit, FilesOK
<1>2. CommandOK(NoCmd, Len(cps))
  BY DEF Init, TreeInit, CommandOK, NoCmd, NewCmd, Cmd, Kind, Step, Locking, Journaling
<1>3. CmdOK
  BY <1>2 DEF Init, TreeInit, CmdOK, CommandOK
<1>4. LoopOK /\ StashOK
  BY DEF Init, TreeInit, RestoreInit, LoopOK, StashOK, Idle
<1> QED
  BY <1>1, <1>3, <1>4 DEF TypeInv

LEMMA CommandGrows ==
  ASSUME NEW n \in Nat, NEW m \in Nat, n <= m, NEW old, CommandOK(old, n)
  PROVE  CommandOK(old, m)
BY DEF CommandOK, Cmd

LEMMA EditedOK ==
  ASSUME NEW n \in Nat, NEW old, CommandOK(old, n), NEW p \in Path, old.step # "idle"
  PROVE  CommandOK([old EXCEPT !.risk = @ \cup {p}], n)
<1>1. old \in Cmd(n)
  BY DEF CommandOK
<1>2. PICK x : x = [old EXCEPT !.risk = @ \cup {p}]
  OBVIOUS
<1>3. x \in Cmd(n) /\ x.step = old.step /\ x.kind = old.kind /\ x.cp = old.cp
      /\ x.entry = old.entry
  BY <1>1, <1>2 DEF Cmd
<1>4. CommandOK(x, n)
  BY <1>3 DEF CommandOK
<1> QED
  BY <1>2, <1>4

LEMMA FilesStep ==
  ASSUME TypeInv, Next
  PROVE  FilesOK'
<1>1. FilesOK /\ Len(cps) \in Nat \ {0}
  BY CpsGrow DEF TypeInv
<1>2. cps' \in Seq(Tree) /\ cps' # <<>> /\ cps'[1] = StartTree
  BY <1>1, CpsGrow DEF FilesOK, Checkpoints
<1>3. CASE Untouched
  BY <1>1, <1>2, <1>3 DEF Untouched, FilesOK
<1>4. ASSUME NEW p \in Path, NEW v \in Content \cup {Absent}, Writes(p, v)
      PROVE  FilesOK'
  BY <1>1, <1>2, <1>4 DEF Writes, Changed, FilesOK, Tree
<1>5. ASSUME NEW p \in Path, NEW v, Restores(p, v)
      PROVE  FilesOK'
  <2>1. v \in Content \cup {Absent}
    BY <1>1, <1>5, WorkAssumption DEF Restores, FilesOK, Checkpoints, Tree
  <2> QED
    BY <1>4, <1>5, <2>1 DEF Restores
<1>6. ASSUME NEW p \in Path, Notice(p)
      PROVE  FilesOK'
  BY <1>1, <1>2, <1>6 DEF Notice, FilesOK
<1>7. CASE PeriodicCheckpoint
  BY <1>1, <1>2, <1>7 DEF PeriodicCheckpoint, Rebuilt, HeadTree, treeVars, FilesOK
<1>8. ASSUME NEW c \in Command, TakeFlush(c)
      PROVE  FilesOK'
  BY <1>1, <1>2, <1>8 DEF TakeFlush, FilesOK
<1>9. CASE MakeCheckpoint
  <2>1. map' \in Tree
    BY <1>1, <1>9 DEF MakeCheckpoint, FilesOK, Tree
  <2> QED
    BY <1>1, <1>2, <1>9, <2>1 DEF MakeCheckpoint, FilesOK
<1>10. CASE DaemonDies
  BY <1>1, <1>2, <1>10 DEF DaemonDies, FilesOK
<1>11. ASSUME NEW c \in Command, ImportRemote(c)
      PROVE  FilesOK'
  BY <1>1, <1>2, <1>11 DEF ImportRemote, daemonVars, FilesOK
<1>12. ASSUME NEW c \in Command, SavesTree(c)
      PROVE  FilesOK'
  BY <1>1, <1>2, <1>12 DEF SavesTree, treeVars, daemonVars, FilesOK
<1> QED
  BY <1>3, <1>4, <1>5, <1>6, <1>7, <1>8, <1>9, <1>10, <1>11, <1>12, FileSteps
  DEF FileStep, Edits

LEMMA CmdsStep ==
  ASSUME TypeInv, Next
  PROVE  CmdOK'
<1>1. /\ Len(cps) \in Nat /\ Len(cps') \in Nat /\ Len(cps) <= Len(cps')
      /\ cmd \in [Command -> Cmd(Len(cps))]
  BY CpsGrow DEF TypeInv, CmdOK
<1>2. \A c \in Command : CommandOK(cmd[c], Len(cps'))
  BY <1>1, CommandGrows DEF TypeInv, CmdOK
<1>3. ASSUME cmd' \in [Command -> Cmd(Len(cps'))], \A c \in Command : CommandOK(cmd'[c], Len(cps'))
      PROVE  CmdOK'
  BY <1>3 DEF CmdOK
<1>4. cmd \in [Command -> Cmd(Len(cps'))]
  BY <1>1, <1>2 DEF CommandOK
<1>5. CASE cmd' = cmd
  BY <1>2, <1>3, <1>4, <1>5
<1>6. ASSUME NEW p \in Path, NEW v, Edits(p, v)
      PROVE  CmdOK'
  <2>1. \A c \in Command : CommandOK(cmd'[c], Len(cps'))
    <3> SUFFICES ASSUME NEW c \in Command
                 PROVE  CommandOK(cmd'[c], Len(cps'))
      OBVIOUS
    <3>1. CASE Running(c)
      <4>1. cmd'[c] = [cmd[c] EXCEPT !.risk = @ \cup {p}] /\ cmd[c].step # "idle"
        BY <1>6, <3>1 DEF Edits, Running
      <4> QED
        BY <1>1, <1>2, <4>1, EditedOK
    <3>2. CASE ~Running(c)
      BY <1>2, <1>6, <3>2 DEF Edits
    <3> QED
      BY <3>1, <3>2
  <2>2. \A c \in Command : cmd'[c] \in Cmd(Len(cps'))
    BY <2>1 DEF CommandOK
  <2>3. cmd' = [c \in Command |-> cmd'[c]]
    BY <1>6 DEF Edits
  <2> QED
    BY <1>3, <2>1, <2>2, <2>3
<1>7. ASSUME NEW c \in Command, NEW x, cmd' = [cmd EXCEPT ![c] = x], CommandOK(x, Len(cps'))
      PROVE  CmdOK'
  <2>1. x \in Cmd(Len(cps'))
    BY <1>7 DEF CommandOK
  <2> QED
    BY <1>2, <1>3, <1>4, <1>7, <2>1
<1> QED
  BY <1>5, <1>6, <1>7, CmdSteps DEF CmdStep, Moves

LEMMA LoopOKStep ==
  ASSUME TypeInv, Next
  PROVE  LoopOK'
<1>1. LoopOK /\ None \notin Command /\ cmd \in [Command -> Cmd(Len(cps))]
  BY WorkAssumption DEF TypeInv, CmdOK
<1>2. CASE loop' \in LoopKind /\ loop'.for = None
  BY <1>2 DEF LoopOK, LoopKind
<1>3. ASSUME NEW c \in Command, loop' = [step |-> "make", for |-> c], cmd[c].step = "flush",
             cmd' = cmd
      PROVE  LoopOK'
  BY <1>3 DEF LoopOK
<1>4. ASSUME loop' = loop, loop.for # None
      PROVE  cmd'[loop.for].step = "flush"
  <2>1. PICK d \in Command : d = loop.for /\ cmd[d].step = "flush"
    BY <1>1, <1>4 DEF LoopOK
  <2>2. CASE cmd' = cmd
    BY <2>1, <2>2
  <2>3. ASSUME NEW p, NEW v, Edits(p, v)
        PROVE  cmd'[d].step = "flush"
    <3>1. cmd[d] \in Cmd(Len(cps))
      BY <1>1
    <3>2. cmd'[d] = cmd[d] \/ cmd'[d] = [cmd[d] EXCEPT !.risk = @ \cup {p}]
      BY <2>3 DEF Edits
    <3> QED
      BY <2>1, <3>1, <3>2 DEF Cmd
  <2>4. ASSUME NEW c \in Command, NEW x, Moves(c, x)
        PROVE  cmd'[d].step = "flush"
    <3>1. d # c /\ cmd' = [cmd EXCEPT ![c] = x]
      BY <1>4, <2>1, <2>4 DEF Moves
    <3> QED
      BY <1>1, <2>1, <3>1
  <2> QED
    BY <2>1, <2>2, <2>3, <2>4, CmdSteps DEF CmdStep
<1>5. CASE loop' = loop
  BY <1>1, <1>4, <1>5 DEF LoopOK
<1> QED
  BY <1>2, <1>3, <1>5, LoopSteps

LEMMA TypeStep ==
  ASSUME TypeInv, [Next]_vars
  PROVE  TypeInv'
<1>1. CASE Next
  <2>1. Len(cps) \in Nat /\ Len(cps') \in Nat /\ Len(cps) <= Len(cps')
    BY <1>1, CpsGrow
  <2>2. StashOK'
    <3>1. stash' \in [StashName -> 0..Len(cps)] /\ 0..Len(cps) \subseteq 0..Len(cps')
      BY <1>1, <2>1, StashSteps
    <3> QED
      BY <3>1 DEF StashOK
  <2> QED
    BY <1>1, <2>2, FilesStep, CmdsStep, LoopOKStep DEF TypeInv
<1>2. CASE UNCHANGED vars
  BY <1>2 DEF vars, treeVars, daemonVars, journalVars, TypeInv, FilesOK, CmdOK, LoopOK, StashOK
<1> QED
  BY <1>1, <1>2

-----------------------------------------------------------------------------
(* A path whose last change the loop has recorded is in HEAD, and in the   *)
(* map, as it is in the working tree.                                      *)

HeadInv ==
  \A p \in Path \ (unseen \cup inflight \cup pending) : HeadTree[p] = disk[p] /\ map[p] = disk[p]

LEMMA HeadInit ==
  ASSUME Init
  PROVE  HeadInv
BY DEF Init, TreeInit, HeadInv, HeadTree

LEMMA HeadStep ==
  ASSUME TypeInv, HeadInv, [Next]_vars
  PROVE  HeadInv'
<1>1. FilesOK /\ Len(cps) \in Nat \ {0}
  <2>1. cps \in Seq(Tree) /\ cps # <<>> /\ FilesOK
    BY DEF TypeInv, FilesOK
  <2> QED
    BY <2>1
<1>2. \A t \in Tree : Append(cps, t)[Len(Append(cps, t))] = t
  BY <1>1 DEF FilesOK
<1>3. CASE Untouched
  BY <1>3 DEF Untouched, HeadInv, HeadTree
<1>4. ASSUME NEW p \in Path, NEW v, Writes(p, v)
      PROVE  HeadInv'
  BY <1>1, <1>4 DEF Writes, Changed, HeadInv, HeadTree, FilesOK, Tree
<1>5. ASSUME NEW p \in Path, Notice(p)
      PROVE  HeadInv'
  BY <1>5 DEF Notice, HeadInv, HeadTree, journalVars
<1>6. CASE PeriodicCheckpoint
  BY <1>6 DEF PeriodicCheckpoint, Rebuilt, HeadInv, HeadTree, treeVars, journalVars
<1>7. ASSUME NEW c \in Command, TakeFlush(c)
      PROVE  HeadInv'
  <2>1. UNCHANGED <<disk, unseen, map, cps>>
    BY <1>7 DEF TakeFlush, journalVars
  <2>2. unseen \cup inflight \cup pending \subseteq unseen' \cup inflight' \cup pending'
    BY <1>7 DEF TakeFlush
  <2> QED
    BY <2>1, <2>2 DEF HeadInv, HeadTree
<1>8. CASE MakeCheckpoint
  <2>1. map' \in Tree
    BY <1>1, <1>8 DEF MakeCheckpoint, FilesOK, Tree
  <2>2. HeadTree' = map'
    BY <1>2, <1>8, <2>1 DEF MakeCheckpoint, HeadTree
  <2> QED
    BY <1>8, <2>2 DEF MakeCheckpoint, HeadInv
<1>9. CASE DaemonDies
  BY <1>9 DEF DaemonDies, HeadInv, HeadTree, journalVars
<1>10. ASSUME NEW c \in Command, ImportRemote(c)
       PROVE  HeadInv'
  <2>1. UNCHANGED <<disk, map, inflight, pending>>
    BY <1>10 DEF ImportRemote, daemonVars
  <2>2. CASE UNCHANGED <<cps, unseen>>
    BY <2>1, <2>2 DEF HeadInv, HeadTree
  <2>3. CASE /\ cps' = Append(cps, RemoteTree)
             /\ unseen' = unseen \cup {p \in Path : disk[p] # RemoteTree[p]}
    <3>1. HeadTree' = RemoteTree
      BY <1>2, <2>3, WorkAssumption DEF HeadTree
    <3> QED
      BY <2>1, <2>3, <3>1 DEF HeadInv
  <2> QED
    BY <1>10, <2>2, <2>3 DEF ImportRemote
<1>11. ASSUME NEW c \in Command, SavesTree(c)
       PROVE  HeadInv'
  <2>1. UNCHANGED <<disk, map, inflight, unseen, pending>>
    BY <1>11 DEF SavesTree, treeVars, daemonVars
  <2>2. HeadTree' = disk \/ cps' = cps
    BY <1>1, <1>2, <1>11 DEF SavesTree, HeadTree, FilesOK
  <2> QED
    BY <2>1, <2>2 DEF HeadInv, HeadTree
<1>12. CASE UNCHANGED vars
  BY <1>12 DEF vars, treeVars, daemonVars, journalVars, HeadInv, HeadTree
<1> QED
  BY <1>3, <1>4, <1>5, <1>6, <1>7, <1>8, <1>9, <1>10, <1>11, <1>12, FileSteps
  DEF FileStep, Edits, Restores

-----------------------------------------------------------------------------
(* What is in a file that a pull or fetch may write over is kept.          *)

Kept(p) ==
  disk[p] \in {Absent, RemoteTree[p]} \/ \E i \in Checkpoints : cps[i][p] = disk[p]
KeepInv ==
  \A c \in Command : Syncing(cmd[c]) => \A p \in Path \ cmd[c].risk : Kept(p)

LEMMA KeepInit ==
  ASSUME Init
  PROVE  KeepInv
BY DEF Init, TreeInit, KeepInv, Syncing, NoCmd, NewCmd

LEMMA KeptStep ==
  ASSUME TypeInv, Next, NEW p \in Path, Kept(p),
         ~\E v \in Content \cup {Absent} : Edits(p, v)
  PROVE  Kept(p)'
<1>1. disk \in Tree /\ \A i \in Checkpoints : i \in Checkpoints' /\ cps'[i] = cps[i]
  BY CpsGrow DEF TypeInv, FilesOK
<1>2. CASE disk'[p] = disk[p]
  BY <1>1, <1>2 DEF Kept
<1>3. ASSUME NEW q \in Path, NEW v, Restores(q, v)
      PROVE  Kept(p)'
  BY <1>1, <1>2, <1>3 DEF Restores, Writes, Kept, Tree
<1>4. ASSUME NEW q \in Path, NEW v \in Content \cup {Absent}, Edits(q, v)
      PROVE  disk'[p] = disk[p]
  <2>1. q # p
    BY <1>4
  <2> QED
    BY <1>1, <1>4, <2>1 DEF Edits, Writes, Tree
<1>5. disk' = disk \/ (\E q \in Path : \E v : Restores(q, v))
        \/ \E q \in Path, v \in Content \cup {Absent} : Edits(q, v)
  BY FileSteps DEF FileStep, Untouched, Notice, PeriodicCheckpoint, TakeFlush, MakeCheckpoint,
    DaemonDies, ImportRemote, SavesTree, treeVars
<1> QED
  BY <1>2, <1>3, <1>4, <1>5

LEMMA KeepStep ==
  ASSUME TypeInv, TypeInv', HeadInv', KeepInv, [Next]_vars
  PROVE  KeepInv'
<1>1. CASE UNCHANGED vars
  BY <1>1 DEF vars, treeVars, journalVars, KeepInv, Kept, Checkpoints
<1>2. CASE Next
  <2>1. ASSUME NEW p \in Path, NEW v \in Content \cup {Absent}, Edits(p, v)
        PROVE  KeepInv'
    <3> SUFFICES ASSUME NEW c \in Command, Syncing(cmd'[c]), NEW q \in Path, q \notin cmd'[c].risk
                 PROVE  Kept(q)'
      BY DEF KeepInv
    <3>1. cmd[c] \in Cmd(Len(cps)) /\ disk \in Tree
      BY DEF TypeInv, CmdOK, FilesOK
    <3>2. CASE cmd[c].step = "idle"
      BY <2>1, <3>1, <3>2 DEF Edits, Running, Syncing
    <3>3. CASE cmd[c].step # "idle"
      <4>1. cmd'[c] = [cmd[c] EXCEPT !.risk = @ \cup {p}]
        BY <2>1, <3>3 DEF Edits, Running
      <4>2. /\ cmd'[c].risk = cmd[c].risk \cup {p} /\ cmd'[c].step = cmd[c].step
            /\ cmd'[c].kind = cmd[c].kind
        BY <3>1, <4>1 DEF Cmd
      <4>3. q # p /\ Syncing(cmd[c]) /\ q \notin cmd[c].risk
        BY <4>2 DEF Syncing
      <4>4. disk'[q] = disk[q] /\ cps' = cps
        BY <2>1, <3>1, <4>3 DEF Edits, Writes, Tree
      <4>5. Kept(q)
        BY <4>3 DEF KeepInv
      <4> QED
        BY <4>4, <4>5 DEF Kept, Checkpoints
    <3> QED
      BY <3>2, <3>3
  <2>2. CASE ~\E p \in Path, v \in Content \cup {Absent} : Edits(p, v)
    <3>1. \A p \in Path : Kept(p) => Kept(p)'
      BY <1>2, <2>2, KeptStep
    <3>2. CASE cmd' = cmd
      BY <3>1, <3>2 DEF KeepInv
    <3>3. ASSUME NEW c \in Command, NEW x, Moves(c, x)
          PROVE  KeepInv'
      <4>1. /\ cmd' = [cmd EXCEPT ![c] = x] /\ cmd \in [Command -> Cmd(Len(cps))]
            /\ CommandOK(cmd[c], Len(cps))
        BY <3>3 DEF Moves, TypeInv, CmdOK
      <4>2. ASSUME Syncing(x), NEW p \in Path, p \notin x.risk
            PROVE  Kept(p)'
        <5>1. CASE Syncing(cmd[c]) /\ x.risk = cmd[c].risk
          BY <3>1, <4>2, <5>1 DEF KeepInv
        <5>2. CASE Answer(cmd[c], x)
          <6>1. HeadTree'[p] = disk'[p]
            BY <4>2, <5>2 DEF Answer, HeadInv
          <6>2. Len(cps') \in Checkpoints'
            <7>1. cps' \in Seq(Tree) /\ cps' # <<>>
              BY DEF TypeInv, FilesOK
            <7> QED
              BY <7>1 DEF Checkpoints
          <6> QED
            BY <6>1, <6>2 DEF Kept, HeadTree
        <5>3. CASE BeginsSync(c, x)
          <6>1. disk' = StartTree
            BY <4>2, <5>3 DEF BeginsSync
          <6>2. cps'[1] = StartTree /\ 1 \in Checkpoints'
            <7>1. cps' \in Seq(Tree) /\ cps' # <<>> /\ cps'[1] = StartTree
              BY DEF TypeInv, FilesOK
            <7> QED
              BY <7>1 DEF Checkpoints
          <6> QED
            BY <6>1, <6>2 DEF Kept
        <5>4. CASE (NumbersStash(c) \/ WritesStash(c)) /\ x.risk = cmd[c].risk
          <6>1. Syncing(cmd[c])
            BY <4>1, <5>4 DEF NumbersStash, WritesStash, CommandOK, Syncing
          <6> QED
            BY <5>1, <5>4, <6>1
        <5>5. ~Syncing(NoCmd)
          BY DEF NoCmd, NewCmd, Syncing
        <5> QED
          BY <3>3, <4>2, <5>1, <5>2, <5>3, <5>4, <5>5 DEF Moves, Plainly, Begins
      <4>3. cmd'[c] = x /\ \A d \in Command \ {c} : cmd'[d] = cmd[d]
        BY <4>1
      <4> QED
        BY <3>1, <4>2, <4>3 DEF KeepInv
    <3> QED
      BY <1>2, <2>2, <3>2, <3>3, CmdSteps DEF CmdStep
  <2> QED
    BY <2>1, <2>2
<1> QED
  BY <1>1, <1>2

-----------------------------------------------------------------------------

WorkInv == TypeInv /\ HeadInv /\ KeepInv

LEMMA WorkInvariant == Spec => []WorkInv
<1>1. Init => WorkInv
  BY TypeInit, HeadInit, KeepInit DEF WorkInv
<1>2. WorkInv /\ [Next]_vars => WorkInv'
  <2> SUFFICES ASSUME WorkInv, [Next]_vars
               PROVE  WorkInv'
    OBVIOUS
  <2>1. TypeInv'
    BY TypeStep DEF WorkInv
  <2>2. HeadInv'
    BY HeadStep DEF WorkInv
  <2> QED
    BY <2>1, <2>2, KeepStep DEF WorkInv
<1> QED
  BY <1>1, <1>2, PTL DEF Spec

(* When the loop has nothing left to do and no command runs, HEAD is the   *)
(* working tree but for changes that the loop can have had no event of,    *)
(* with any number of commands and any trees: maybe_create_checkpoint      *)
(* records what it reads, and what it does not know it has is in unseen.   *)
THEOREM QuietHeadIsTree == Spec => []HeadShowsTree
<1>1. WorkInv => HeadShowsTree
  BY DEF WorkInv, HeadInv, HeadShowsTree, Quiet
<1> QED
  BY <1>1, WorkInvariant, PTL

(* A file that a pull or a fetch writes over, and that was not at risk, is *)
(* in a checkpoint or in the remote tree as it was (pull.rs, fetch.rs).    *)
THEOREM SyncKeepsFiles == Spec => SyncDestroysNothing
<1>1. WorkInv /\ [Next]_vars =>
        [\A c \in Command, p \in Path :
           \/ disk'[p] = disk[p] \/ cmd[c].step # "sync" \/ p \in cmd[c].risk
           \/ p \in cmd'[c].todo \/ p \notin cmd[c].todo
           \/ disk[p] \in {Absent, RemoteTree[p]}
           \/ \E i \in Checkpoints : cps[i][p] = disk[p]]_<<disk, cmd>>
  <2> SUFFICES ASSUME WorkInv, NEW c \in Command, NEW p \in Path, cmd[c].step = "sync",
                      p \notin cmd[c].risk
               PROVE  Kept(p)
    BY DEF Kept
  <2>1. Syncing(cmd[c])
    BY DEF WorkInv, TypeInv, CmdOK, CommandOK, Syncing
  <2> QED
    BY <2>1 DEF WorkInv, KeepInv
<1> QED
  BY <1>1, WorkInvariant, PTL DEF Spec, SyncDestroysNothing

-----------------------------------------------------------------------------
(* The list of auto-stashes.  While something is owed, the numbers of the  *)
(* files are 0, 1, ..., n - 1 and no two commands ask: a pull or fetch has *)
(* chosen n for its entry or has it in the last file, which is the one it  *)
(* takes off.  What is owed is then not in the file that a fetch takes off;*)
(* what a pull takes off is its own, and no longer owed.                   *)

Alone == \A c, d \in Command : AsksFor(cmd[c]) /\ AsksFor(cmd[d]) => c = d
Holds(i, n) == \E k \in 0..(n - 1) :
  /\ list[k] = i
  /\ \A c \in Command : Pushed(cmd[c]) /\ cmd[c].kind = "fetch" => k < n - 1
OwedIn(n) ==
  /\ DOMAIN list = 0..(n - 1)
  /\ \A c \in Command : /\ cmd[c].step = "file" => slot[c] = n
                        /\ Pushed(cmd[c]) => n > 0 /\ list[n - 1] = cmd[c].entry
  /\ \A i \in owed : Holds(i, n)
StashInv ==
  /\ IsFiniteSet(DOMAIN list) /\ slot \in [Command -> Nat]
  /\ owed # {} => Alone /\ \E n \in Nat : OwedIn(n)

LEMMA StashInit ==
  ASSUME Init
  PROVE  StashInv
<1>1. DOMAIN list = {} /\ owed = {} /\ slot \in [Command -> Nat]
  BY DEF Init, AutoStashInit
<1> QED
  BY <1>1, FS_EmptySet DEF StashInv

LEMMA PushedAsk ==
  ASSUME TypeInv, NEW c \in Command, Pushed(cmd[c]) \/ cmd[c].step = "file"
  PROVE  AsksFor(cmd[c])
<1>1. CommandOK(cmd[c], Len(cps))
  BY DEF TypeInv, CmdOK
<1> QED
  BY <1>1 DEF CommandOK, Pushed, AsksFor

(* No command gets nearer to the list.                                     *)
LEMMA UnlistedStep ==
  ASSUME StashInv, UNCHANGED <<list, slot>>, owed' \in {owed, {}},
         \A c \in Command :
           /\ cmd'[c].step = "file" => cmd[c].step = "file"
           /\ Pushed(cmd'[c]) => /\ Pushed(cmd[c]) /\ cmd'[c].kind = cmd[c].kind
                                 /\ cmd'[c].entry = cmd[c].entry,
         owed' # {} => (Alone => Alone')
  PROVE  StashInv'
<1>1. IsFiniteSet(DOMAIN list') /\ slot' \in [Command -> Nat]
  BY DEF StashInv
<1>2. ASSUME owed' # {}
      PROVE  Alone' /\ \E n \in Nat : OwedIn(n)'
  <2>1. owed' = owed /\ Alone'
    BY <1>2 DEF StashInv
  <2>2. PICK n \in Nat : OwedIn(n)
    BY <1>2, <2>1 DEF StashInv
  <2>3. ASSUME NEW i \in owed
        PROVE  Holds(i, n)'
    <3>1. PICK k \in 0..(n - 1) :
            /\ list[k] = i
            /\ \A c \in Command : Pushed(cmd[c]) /\ cmd[c].kind = "fetch" => k < n - 1
      BY <2>2, <2>3 DEF OwedIn, Holds
    <3>2. \A c \in Command : Pushed(cmd'[c]) /\ cmd'[c].kind = "fetch" => k < n - 1
      BY <3>1
    <3> QED
      BY <3>1, <3>2 DEF Holds
  <2>4. \A c \in Command : /\ cmd'[c].step = "file" => slot'[c] = n
                           /\ Pushed(cmd'[c]) => n > 0 /\ list'[n - 1] = cmd'[c].entry
    BY <2>2 DEF OwedIn
  <2>5. OwedIn(n)'
    BY <2>1, <2>2, <2>3, <2>4 DEF OwedIn
  <2> QED
    BY <2>1, <2>5
<1> QED
  BY <1>1, <1>2 DEF StashInv

(* The number that a command chooses is the next one.                      *)
LEMMA NumbersStep ==
  ASSUME TypeInv, StashInv, NEW c \in Command, NEW x, cmd' = [cmd EXCEPT ![c] = x],
         NumbersStash(c), x.kind = cmd[c].kind, ~Pushed(x)
  PROVE  StashInv'
<1>1. /\ cmd \in [Command -> Cmd(Len(cps))] /\ list' = list /\ owed' = owed
      /\ slot' = [slot EXCEPT ![c] = Cardinality(DOMAIN list)]
  BY DEF TypeInv, CmdOK, NumbersStash
<1>2. IsFiniteSet(DOMAIN list') /\ slot' \in [Command -> Nat]
  BY <1>1, FS_CardinalityType DEF StashInv
<1>3. ASSUME owed' # {}
      PROVE  Alone' /\ \E n \in Nat : OwedIn(n)'
  <2>1. Alone
    BY <1>1, <1>3 DEF StashInv
  <2>2. \A d \in Command : AsksFor(cmd'[d]) <=> AsksFor(cmd[d])
    BY <1>1 DEF AsksFor
  <2>3. PICK n \in Nat : OwedIn(n)
    BY <1>1, <1>3 DEF StashInv
  <2>4. Cardinality(DOMAIN list) = n
    <3>1. DOMAIN list = 0..(n - 1)
      BY <2>3 DEF OwedIn
    <3>2. CASE n = 0
      <4>1. DOMAIN list = {}
        BY <3>1, <3>2
      <4> QED
        BY <3>2, <4>1, FS_EmptySet
    <3>3. CASE n > 0
      <4>1. 0 \in Int /\ n - 1 \in Int /\ ~(0 > n - 1) /\ (n - 1) - 0 + 1 = n
        BY <3>3
      <4> QED
        BY <3>1, <4>1, FS_Interval
    <3> QED
      BY <3>2, <3>3
  <2>5. \A d \in Command : cmd'[d].step = "file" => slot'[d] = n
    BY <1>1, <2>3, <2>4 DEF StashInv, OwedIn
  <2>6. \A d \in Command : Pushed(cmd'[d]) => d # c /\ Pushed(cmd[d]) /\ cmd'[d] = cmd[d]
    BY <1>1
  <2>7. \A d \in Command : Pushed(cmd'[d]) => n > 0 /\ list'[n - 1] = cmd'[d].entry
    BY <1>1, <2>3, <2>6 DEF OwedIn
  <2>8. ASSUME NEW i \in owed
        PROVE  Holds(i, n)'
    <3>1. PICK k \in 0..(n - 1) :
            /\ list[k] = i
            /\ \A d \in Command : Pushed(cmd[d]) /\ cmd[d].kind = "fetch" => k < n - 1
      BY <2>3, <2>8 DEF OwedIn, Holds
    <3>2. \A d \in Command : Pushed(cmd'[d]) /\ cmd'[d].kind = "fetch" => k < n - 1
      BY <2>6, <3>1
    <3> QED
      BY <1>1, <3>1, <3>2 DEF Holds
  <2>9. OwedIn(n)'
    BY <1>1, <2>3, <2>5, <2>7, <2>8 DEF OwedIn
  <2> QED
    BY <2>1, <2>2, <2>9 DEF Alone
<1> QED
  BY <1>2, <1>3 DEF StashInv

(* The entry is in the next file, and a pull owes it if it is alone.       *)
LEMMA WritesStep ==
  ASSUME TypeInv, StashInv, NEW c \in Command, NEW x, cmd' = [cmd EXCEPT ![c] = x],
         WritesStash(c), x.kind = cmd[c].kind, x.entry = cmd[c].entry, Pushed(x)
  PROVE  StashInv'
<1>1. /\ cmd \in [Command -> Cmd(Len(cps))] /\ slot' = slot /\ slot[c] \in Nat
      /\ DOMAIN list' = DOMAIN list \cup {slot[c]}
      /\ \A k \in DOMAIN list' : list'[k] = IF k = slot[c] THEN cmd[c].entry ELSE list[k]
  BY DEF TypeInv, CmdOK, StashInv, WritesStash
<1>2. IsFiniteSet(DOMAIN list') /\ slot' \in [Command -> Nat]
  BY <1>1, FS_AddElement DEF StashInv
<1>3. AsksFor(cmd[c]) /\ cmd[c].kind \in {"pull", "fetch"} /\ cmd[c].step = "file"
      /\ x.step # "file"
  BY PushedAsk DEF WritesStash, AsksFor, Pushed
<1>4. ASSUME owed' # {}
      PROVE  Alone' /\ \E n \in Nat : OwedIn(n)'
  <2>1. PICK n \in Nat : n = slot[c]
    BY <1>1
  <2>2. /\ \A d \in Command \ {c} : ~AsksFor(cmd[d])
        /\ DOMAIN list = 0..(n - 1)
        /\ \A i \in owed : \E k \in 0..(n - 1) : list[k] = i
    <3>1. CASE owed # {}
      <4>1. Alone
        BY <3>1 DEF StashInv
      <4>2. PICK m \in Nat : OwedIn(m)
        BY <3>1 DEF StashInv
      <4>3. m = n
        BY <1>3, <2>1, <4>2 DEF OwedIn
      <4>4. DOMAIN list = 0..(n - 1) /\ \A i \in owed : \E k \in 0..(n - 1) : list[k] = i
        BY <4>2, <4>3 DEF OwedIn, Holds
      <4>5. \A d \in Command \ {c} : ~AsksFor(cmd[d])
        BY <1>3, <4>1 DEF Alone
      <4> QED
        BY <4>4, <4>5
    <3>2. CASE owed = {}
      <4>1. \A d \in Command \ {c} : ~Asking(d)
        BY <1>4, <3>2 DEF WritesStash
      <4>2. DOMAIN list = 0..(n - 1)
        BY <1>4, <2>1, <3>2 DEF WritesStash
      <4> QED
        BY <3>2, <4>1, <4>2 DEF Asking, AsksFor
    <3> QED
      BY <3>1, <3>2
  <2>3. owed' \subseteq owed \cup {cmd[c].entry} /\ (cmd[c].kind = "fetch" => owed' = owed)
    BY DEF WritesStash
  <2>4. DOMAIN list' = 0..n
    BY <1>1, <2>1, <2>2
  <2>5. \A d \in Command \ {c} : cmd'[d] = cmd[d] /\ ~AsksFor(cmd[d])
    BY <1>1, <2>2
  <2>6. \A d \in Command \ {c} : ~Pushed(cmd'[d]) /\ cmd'[d].step # "file"
    BY <2>5, PushedAsk
  <2>7. cmd'[c] = x
    BY <1>1
  <2>8. list'[n] = cmd[c].entry /\ \A k \in 0..(n - 1) : list'[k] = list[k]
    BY <1>1, <2>1, <2>4
  <2>9. ASSUME NEW i \in owed'
        PROVE  Holds(i, n + 1)'
    <3>1. CASE i \in owed
      <4>1. PICK k \in 0..(n - 1) : list[k] = i
        BY <2>2, <3>1
      <4>2. k \in 0..((n + 1) - 1) /\ list'[k] = i /\ k < (n + 1) - 1
        BY <2>8, <4>1
      <4> QED
        BY <4>2 DEF Holds
    <3>2. CASE i \notin owed
      <4>1. i = cmd[c].entry /\ cmd[c].kind # "fetch"
        BY <2>3, <2>9, <3>2
      <4>2. n \in 0..((n + 1) - 1) /\ list'[n] = i
        BY <2>8, <4>1
      <4>3. \A d \in Command : ~(Pushed(cmd'[d]) /\ cmd'[d].kind = "fetch")
        BY <2>6, <2>7, <4>1
      <4> QED
        BY <4>2, <4>3 DEF Holds
    <3> QED
      BY <3>1, <3>2
  <2>10. \A d \in Command :
           /\ cmd'[d].step = "file" => slot'[d] = n + 1
           /\ Pushed(cmd'[d]) => n + 1 > 0 /\ list'[(n + 1) - 1] = cmd'[d].entry
    <3>1. (n + 1) - 1 = n /\ n + 1 > 0
      OBVIOUS
    <3> QED
      BY <1>3, <2>6, <2>7, <2>8, <3>1
  <2>11. DOMAIN list' = 0..((n + 1) - 1)
    BY <2>4
  <2>12. OwedIn(n + 1)' /\ n + 1 \in Nat
    BY <2>9, <2>10, <2>11 DEF OwedIn
  <2>13. Alone'
    <3>1. \A d \in Command : AsksFor(cmd'[d]) => d = c
      BY <2>5
    <3> QED
      BY <3>1 DEF Alone
  <2> QED
    BY <2>12, <2>13
<1> QED
  BY <1>2, <1>4 DEF StashInv

(* A command takes the last file off: it is the one with its entry.        *)
LEMMA PopsStep ==
  ASSUME TypeInv, StashInv, NEW c \in Command, NEW x, cmd' = [cmd EXCEPT ![c] = x],
         Pushed(cmd[c]), ~Pushed(x), x.step # "file", AsksFor(x) => AsksFor(cmd[c]),
         list' = Popped, slot' = slot, owed' \subseteq owed,
         cmd[c].kind = "fetch" \/ cmd[c].entry \notin owed'
  PROVE  StashInv'
<1>1. /\ cmd \in [Command -> Cmd(Len(cps))] /\ slot' \in [Command -> Nat]
      /\ DOMAIN list' = DOMAIN list \ Highest
      /\ \A k \in DOMAIN list' : list'[k] = list[k]
  BY DEF TypeInv, CmdOK, StashInv, Popped
<1>2. IsFiniteSet(DOMAIN list')
  BY <1>1, FS_Subset DEF StashInv
<1>3. AsksFor(cmd[c]) /\ cmd[c].kind \in {"pull", "fetch"}
  BY PushedAsk DEF AsksFor
<1>4. ASSUME owed' # {}
      PROVE  Alone' /\ \E n \in Nat : OwedIn(n)'
  <2>1. Alone
    BY <1>4 DEF StashInv
  <2>2. PICK n \in Nat : OwedIn(n)
    BY <1>4 DEF StashInv
  <2>3. n > 0 /\ list[n - 1] = cmd[c].entry /\ DOMAIN list = 0..(n - 1)
    BY <2>2 DEF OwedIn
  <2>4. Highest = {n - 1}
    <3>1. n - 1 \in 0..(n - 1) /\ \A m \in 0..(n - 1) : m <= n - 1
      BY <2>3
    <3>2. \A m \in 0..(n - 1) : n - 1 <= m => m = n - 1
      OBVIOUS
    <3>3. \A m \in Highest : m \in 0..(n - 1) /\ n - 1 <= m
      BY <2>3, <3>1 DEF Highest
    <3>4. n - 1 \in Highest
      BY <2>3, <3>1 DEF Highest
    <3> QED
      BY <3>2, <3>3, <3>4
  <2>5. DOMAIN list' = 0..((n - 1) - 1) /\ n - 1 \in Nat
    BY <1>1, <2>3, <2>4
  <2>6. \A d \in Command \ {c} : cmd'[d] = cmd[d] /\ ~AsksFor(cmd[d])
    BY <1>1, <1>3, <2>1 DEF Alone
  <2>7. \A d \in Command : ~Pushed(cmd'[d]) /\ cmd'[d].step # "file"
    BY <1>1, <2>6, PushedAsk
  <2>8. ASSUME NEW i \in owed'
        PROVE  Holds(i, n - 1)'
    <3>1. PICK k \in 0..(n - 1) :
            /\ list[k] = i
            /\ \A d \in Command : Pushed(cmd[d]) /\ cmd[d].kind = "fetch" => k < n - 1
      BY <2>2, <2>8 DEF OwedIn, Holds
    <3>2. k # n - 1
      BY <2>3, <2>8, <3>1
    <3>3. k \in 0..((n - 1) - 1) /\ list'[k] = i
      BY <1>1, <2>5, <3>1, <3>2
    <3> QED
      BY <2>7, <3>3 DEF Holds
  <2>9. OwedIn(n - 1)'
    BY <2>5, <2>7, <2>8 DEF OwedIn
  <2>10. Alone'
    <3>1. \A d \in Command : AsksFor(cmd'[d]) => AsksFor(cmd[d])
      BY <1>1, <2>6
    <3> QED
      BY <2>1, <3>1 DEF Alone
  <2> QED
    BY <2>5, <2>9, <2>10
<1> QED
  BY <1>1, <1>2, <1>4 DEF StashInv

LEMMA StashStep ==
  ASSUME TypeInv, StashInv, [Next]_vars
  PROVE  StashInv'
<1>1. ASSUME cmd' = cmd, UNCHANGED Listed
      PROVE  StashInv'
  BY <1>1, UnlistedStep DEF Listed, Alone
<1>2. CASE UNCHANGED vars
  BY <1>1, <1>2 DEF vars, stashVars, Listed
<1>3. ASSUME NEW p \in Path, NEW v, Edits(p, v)
      PROVE  StashInv'
  <2>1. \A c \in Command : /\ cmd'[c].step = cmd[c].step /\ cmd'[c].kind = cmd[c].kind
                           /\ cmd'[c].entry = cmd[c].entry
    <3> SUFFICES ASSUME NEW c \in Command
                 PROVE  /\ cmd'[c].step = cmd[c].step /\ cmd'[c].kind = cmd[c].kind
                        /\ cmd'[c].entry = cmd[c].entry
      OBVIOUS
    <3>1. cmd[c] \in Cmd(Len(cps))
      BY DEF TypeInv, CmdOK
    <3>2. cmd'[c] = cmd[c] \/ cmd'[c] = [cmd[c] EXCEPT !.risk = @ \cup {p}]
      BY <1>3 DEF Edits
    <3> QED
      BY <3>1, <3>2 DEF Cmd
  <2>2. \A c \in Command : /\ Pushed(cmd'[c]) <=> Pushed(cmd[c])
                           /\ AsksFor(cmd'[c]) <=> AsksFor(cmd[c])
    BY <2>1 DEF Pushed, AsksFor
  <2>3. UNCHANGED <<list, slot, owed>> /\ (Alone => Alone')
    BY <1>3, <2>2 DEF Edits, Alone
  <2> QED
    BY <2>1, <2>2, <2>3, UnlistedStep
<1>4. ASSUME NEW c \in Command, NEW x, Next, Moves(c, x)
      PROVE  StashInv'
  <2>1. /\ cmd' = [cmd EXCEPT ![c] = x] /\ CommandOK(cmd[c], Len(cps))
        /\ cmd \in [Command -> Cmd(Len(cps))] /\ CommandOK(x, Len(cps'))
    BY <1>4 DEF Moves, TypeInv, CmdOK
  <2>2. ~Pushed(NoCmd) /\ ~AsksFor(NoCmd) /\ NoCmd.step # "file"
    BY DEF NoCmd, NewCmd, Pushed, AsksFor
  <2>3. cmd'[c] = x /\ \A d \in Command \ {c} : cmd'[d] = cmd[d]
    BY <2>1
  <2>4. ASSUME UNCHANGED Listed,
               x = NoCmd \/ Plainly(cmd[c], x) \/ Begins(cmd[c], x) \/ Answer(cmd[c], x)
        PROVE  StashInv'
    <3>1. x.step # "file"
      BY <2>1, <2>2, <2>4 DEF Plainly, Begins, Answer, CommandOK, AsksFor
    <3>2. Pushed(x) => /\ Pushed(cmd[c]) /\ x.kind = cmd[c].kind /\ x.entry = cmd[c].entry
      BY <2>2, <2>4 DEF Plainly, Begins, Answer, Pushed
    <3>3. AsksFor(x) => AsksFor(cmd[c])
      BY <2>2, <2>4 DEF Plainly, Begins, Answer, AsksFor
    <3>4. Alone => Alone'
      BY <2>3, <3>3 DEF Alone
    <3> QED
      BY <2>3, <2>4, <3>1, <3>2, <3>4, UnlistedStep DEF Listed
  <2>5. ASSUME BeginsSync(c, x)
        PROVE  StashInv'
    <3>1. x.step # "file" /\ ~Pushed(x)
      BY <2>1, <2>5 DEF BeginsSync, Pushed, CommandOK
    <3>2. owed' # {} => (Alone => Alone')
      BY <2>3, <2>5 DEF BeginsSync, Alone
    <3> QED
      BY <2>3, <2>5, <3>1, <3>2, UnlistedStep DEF BeginsSync
  <2>6. ASSUME FetchPops(c), ~Pushed(x), x.step # "file", AsksFor(x) => AsksFor(cmd[c])
        PROVE  StashInv'
    <3>1. /\ Pushed(cmd[c]) /\ list' = Popped /\ UNCHANGED <<slot, owed>>
          /\ cmd[c].kind = "fetch"
      BY <2>1, <2>6 DEF FetchPops, Pushed, CommandOK
    <3> QED
      BY <2>1, <2>6, <3>1, PopsStep
  <2>7. ASSUME BackEnds(c), x = NoCmd
        PROVE  StashInv'
    <3>1. CASE cmd[c].kind = "pull"
      <4>1. /\ Pushed(cmd[c]) /\ list' = Popped /\ owed' = owed \ {cmd[c].entry}
            /\ slot' = slot
        BY <2>1, <2>7, <3>1 DEF BackEnds, Pushed, CommandOK
      <4> QED
        BY <2>1, <2>2, <2>7, <4>1, PopsStep
    <3>2. CASE cmd[c].kind # "pull"
      <4>1. UNCHANGED Listed
        BY <2>7, <3>2 DEF BackEnds, Listed
      <4> QED
        BY <2>4, <2>7, <4>1
    <3> QED
      BY <3>1, <3>2
  <2> QED
    BY <1>4, <2>1, <2>4, <2>5, <2>6, <2>7, NumbersStep, WritesStep DEF Moves
<1> QED
  BY <1>1, <1>2, <1>3, <1>4, CmdSteps DEF CmdStep

(* What a pull has auto-stashed and not put back is in a file of the list, *)
(* for any number of commands: a pull or fetch that has chosen a number    *)
(* and not yet written its file, and one that takes the last file off,     *)
(* meets none of what is owed there, as long as no two of them overlap:    *)
(* "If pop() fails, stash is preserved and user can retry" (pull.rs).      *)
THEOREM OwedIsListed == Spec => []AutoStashListed
<1>1. Init => TypeInv /\ StashInv
  BY TypeInit, StashInit
<1>2. TypeInv /\ StashInv /\ [Next]_vars => (TypeInv /\ StashInv)'
  BY TypeStep, StashStep
<1>3. StashInv => AutoStashListed
  BY DEF StashInv, OwedIn, Holds, AutoStashListed
<1> QED
  BY <1>1, <1>2, <1>3, PTL DEF Spec
===============================================================================
