------------------------------- MODULE AutoStash -------------------------------
(***************************************************************************)
(* `tl pull` and `tl fetch` (crates/cli/src/cmd/pull.rs, fetch.rs) upon    *)
(* the working tree: what is uncommitted becomes a checkpoint on the list  *)
(* of auto-stashes, the files of the remote branch are written over the    *)
(* tree, and then those of the auto-stash.  The import itself, and what a  *)
(* crash makes of it, is in Import.tla.                                    *)
(***************************************************************************)
EXTENDS WorkTree

VARIABLES
  list,       \* state/stash: the entry in each file stash-n of the StashManager
  slot,       \* the number each command has chosen for its file
  imported,   \* the checkpoint that the remote commit is mapped to, or 0
  owed        \* history: entries whose files are not yet put back

stashVars == <<list, slot, imported, owed>>

AutoStashInit ==
  list = [n \in {} |-> 0] /\ slot = [c \in Command |-> 0] /\ imported = 0 /\ owed = {}

AutoStashTypeOK ==
  /\ DOMAIN list \subseteq Nat /\ list \in [DOMAIN list -> Checkpoints]
  /\ slot \in [Command -> Nat]
  /\ imported \in 0..Len(cps) /\ (imported # 0 => cps[imported] = RemoteTree)
  /\ owed \subseteq Checkpoints

Asking(c) == cmd[c].kind \in {"pull", "fetch"}

(* Two that stash at a time may write one file, and pop others' entries.   *)
SyncBegin(c, kind, step) ==
  /\ ~Running(c)
  /\ cmd' = [cmd EXCEPT ![c] = NewCmd(kind, step, None, 0)]
  /\ owed' = IF kind # "direct" /\ \E d \in Command : Asking(d) THEN {} ELSE owed
  /\ UNCHANGED <<treeVars, daemonVars, journalVars, lockVars, list, slot, imported>>

(* A mistake: the tree is clean for git, so the daemon is not asked.       *)
PullBeginUnasked(c) ==
  Spend("pull") /\ SyncBegin(c, IF up THEN "pull" ELSE "direct", "import")

(* The daemon is started if git sees changes, since only it can stash them.*)
PullBegin(c) ==
  /\ Spend("pull")
  /\ IF up \/ disk # StartTree THEN up /\ SyncBegin(c, "pull", "flush")
                               ELSE SyncBegin(c, "direct", "import")

FetchBegin(c) ==
  /\ Spend("fetch")
  /\ up
  /\ SyncBegin(c, "fetch", "flush")

(* StashManager::push: the file's number is that of the entries there are. *)
NumbersStash(c) ==
  /\ cmd[c].step = "stash"
  /\ slot' = [slot EXCEPT ![c] = Cardinality(DOMAIN list)]
  /\ Goes(c, "file")
  /\ UNCHANGED <<treeVars, daemonVars, journalVars, lockVars, left, list, imported, owed>>

(* An entry in a file of that number is gone.  Where the files have other  *)
(* numbers than 0, 1, ..., the next entry may be written over this one.    *)
WritesStash(c) ==
  /\ cmd[c].step = "file"
  /\ list' = [n \in DOMAIN list \cup {slot[c]} |->
                IF n = slot[c] THEN cmd[c].entry ELSE list[n]]
  /\ owed' = IF /\ cmd[c].kind = "pull" /\ \A d \in Command \ {c} : ~Asking(d)
                /\ DOMAIN list = 0..(slot[c] - 1)
             THEN owed \cup {cmd[c].entry} ELSE owed
  /\ Goes(c, IF cmd[c].kind = "pull" THEN "import" ELSE "remote")
  /\ UNCHANGED <<treeVars, daemonVars, journalVars, lockVars, left, slot, imported>>

AfterSync(c) == IF cmd[c].entry = 0 THEN Ends(c) ELSE Goes(c, "reapply")

SyncsRemote(c) ==
  cmd' = [cmd EXCEPT ![c].step = "sync", ![c].todo = Files(RemoteTree)]

(* By the daemon, or by the command while there is none.  If the commit    *)
(* has been imported before, its files are taken to be there.              *)
ImportRemote(c) ==
  /\ cmd[c].step = "import"
  /\ IF cmd[c].kind = "direct" THEN ~up /\ journalBy = None ELSE up
  /\ IF imported # 0
     THEN AfterSync(c) /\ UNCHANGED <<cps, imported, unseen>>
     ELSE /\ Len(cps) < MaxCheckpoint
          /\ cps' = Append(cps, RemoteTree)
          /\ imported' = Len(cps')
          /\ unseen' = unseen \cup {p \in Path : disk[p] # RemoteTree[p]}
          /\ SyncsRemote(c)
  /\ UNCHANGED <<disk, inflight, daemonVars, journalBy, lockVars, left, list, slot, owed>>

(* The journal is taken.                                                   *)
DirectFails(c) ==
  /\ cmd[c].step = "import" /\ cmd[c].kind = "direct"
  /\ up \/ journalBy # None
  /\ Ends(c)
  /\ UNCHANGED <<treeVars, daemonVars, journalVars, lockVars, left, stashVars>>

(* fetch imports nothing.                                                  *)
FetchRemote(c) ==
  /\ cmd[c].step = "remote"
  /\ SyncsRemote(c)
  /\ UNCHANGED <<treeVars, daemonVars, journalVars, lockVars, left, stashVars>>

(* fetch stops at the first file it cannot write, and then does not tell   *)
(* the daemon.                                                             *)
FetchStops(c) ==
  /\ cmd[c].step = "sync" /\ cmd[c].kind = "fetch" /\ cmd[c].todo # {}
  /\ Spend("error")
  /\ cmd' = [cmd EXCEPT ![c] = IF @.entry = 0 THEN NoCmd
                               ELSE [@ EXCEPT !.step = "reapply", !.todo = {}]]
  /\ UNCHANGED <<treeVars, daemonVars, journalVars, lockVars, stashVars>>

SyncWrites(c, p) ==
  /\ cmd[c].step = "sync"
  /\ WriteFile(c, p, RemoteTree) \/ (cmd[c].kind # "fetch" /\ SkipFile(c, p))
  /\ UNCHANGED stashVars

SyncInvalidates(c) ==
  /\ cmd[c].step = "sync" /\ cmd[c].todo = {}
  /\ IF cmd[c].kind = "direct" THEN UNCHANGED stale ELSE Invalidate
  /\ AfterSync(c)
  /\ UNCHANGED <<treeVars, pending, map, loop, up, journalVars, lockVars, left, stashVars>>

-----------------------------------------------------------------------------
(* reapply_stash: every file of the auto-stash is written, changed or not. *)
(* StashManager::pop, which lists the files and then removes the one with  *)
(* the highest number, is one step here: only an overlapping command could *)
(* come between.  (So is File::create with the write after it: list passes *)
(* over a file that is no entry.)                                          *)

Highest == {n \in DOMAIN list : \A m \in DOMAIN list : m <= n}
Popped == [n \in DOMAIN list \ Highest |-> list[n]]
GivesBack(c) ==
  cmd' = [cmd EXCEPT ![c].step = "back", ![c].todo = Files(cps[cmd[c].entry])]

(* A mistake: pull, like fetch, takes the entry off the list first.        *)
PullReadsAndPops(c) ==
  /\ cmd[c].step = "reapply" /\ cmd[c].kind = "pull" /\ up
  /\ GivesBack(c)
  /\ list' = Popped
  /\ UNCHANGED <<treeVars, daemonVars, journalVars, lockVars, left, slot, imported, owed>>

PullReads(c) ==
  /\ cmd[c].step = "reapply" /\ cmd[c].kind = "pull" /\ up
  /\ GivesBack(c)
  /\ UNCHANGED <<treeVars, daemonVars, journalVars, lockVars, left, stashVars>>

(* fetch takes the last entry, and fails if that is not its own.           *)
FetchPops(c) ==
  /\ cmd[c].step = "reapply" /\ cmd[c].kind = "fetch"
  /\ list' = Popped
  /\ IF \E n \in Highest : list[n] = cmd[c].entry THEN GivesBack(c) ELSE Ends(c)
  /\ UNCHANGED <<treeVars, daemonVars, journalVars, lockVars, left, slot, imported, owed>>

BackWrites(c, p) ==
  /\ cmd[c].step = "back"
  /\ WriteFile(c, p, cps[cmd[c].entry]) \/ (cmd[c].kind = "fetch" /\ SkipFile(c, p))
  /\ UNCHANGED stashVars

(* pull stops at the first file it cannot write; the entry stays.          *)
BackStops(c) ==
  /\ cmd[c].step = "back" /\ cmd[c].kind = "pull" /\ cmd[c].todo # {}
  /\ Spend("error")
  /\ Ends(c)
  /\ UNCHANGED <<treeVars, daemonVars, journalVars, lockVars, stashVars>>

BackEnds(c) ==
  /\ cmd[c].step = "back" /\ cmd[c].todo = {}
  /\ IF cmd[c].kind = "pull" THEN list' = Popped /\ owed' = owed \ {cmd[c].entry}
                             ELSE UNCHANGED <<list, owed>>
  /\ Ends(c)
  /\ UNCHANGED <<treeVars, daemonVars, journalVars, lockVars, left, slot, imported>>

AutoStashNext ==
  \E c \in Command :
    \/ PullBegin(c) \/ FetchBegin(c) \/ NumbersStash(c) \/ WritesStash(c)
    \/ ImportRemote(c) \/ DirectFails(c) \/ FetchRemote(c) \/ FetchStops(c)
    \/ \E p \in Path : SyncWrites(c, p) \/ BackWrites(c, p)
    \/ SyncInvalidates(c) \/ PullReads(c) \/ FetchPops(c) \/ BackStops(c) \/ BackEnds(c)

-----------------------------------------------------------------------------
(* "If pop() fails, stash is preserved and user can retry": the auto-stash *)
(* of a pull is in a file until all its files are back, whenever the pull  *)
(* ends, dies or fails and whatever pulls and fetches follow - until two   *)
(* of them overlap, and after that unless they have left numbers unused.   *)
AutoStashListed == \A i \in owed : \E n \in DOMAIN list : list[n] = i

(* Writing the remote tree over a file destroys nothing: what was in the   *)
(* file is in a checkpoint, or in the remote tree.  At risk are, and it is *)
(* said in cmd[c].risk, files that have changed since the flush, and those *)
(* whose change the loop had no event of or was kept from recording.       *)
SyncDestroysNothing ==
  [][\A c \in Command, p \in Path :
       \/ disk'[p] = disk[p] \/ cmd[c].step # "sync" \/ p \in cmd[c].risk
       \/ p \in cmd'[c].todo \/ p \notin cmd[c].todo
       \/ disk[p] \in {Absent, RemoteTree[p]}
       \/ \E i \in Checkpoints : cps[i][p] = disk[p]]_<<disk, cmd>>
===============================================================================
