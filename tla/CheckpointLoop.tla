---------------------------- MODULE CheckpointLoop ----------------------------
(***************************************************************************)
(* The event loop of the daemon (crates/cli/src/daemon.rs): how a change   *)
(* of the working tree becomes a checkpoint.                               *)
(*                                                                         *)
(*   working tree --> watcher --> pending paths --> draft map --> journal  *)
(*        wd          inflight      pending           draft        db      *)
(*                                                                         *)
(* The loop itself is sequential, but the working tree changes under it at *)
(* every step, other tasks append to the journal in parallel, locks come   *)
(* and go, and the process may die anywhere.  What survives is the journal,*)
(* the saved path map and the saved pending paths.                         *)
(*                                                                         *)
(* The watcher is idealised here: every change puts its path in inflight,  *)
(* and a path leaves inflight only towards pending, at any later time.     *)
(***************************************************************************)
EXTENDS Journal

CONSTANTS
  Path,         \* repository paths
  Above,        \* the directories on the way to each path
  Content,      \* contents (and modes) of files
  Absent,       \* no file at a path
  Dir,          \* a directory at a path, or a path that may not be looked at
  Unreadable,   \* a file that cannot be read
  NoMap,        \* there is no state/pathmap.bin
  Editable,     \* what an edit may leave at a path
  StartTrees,   \* the working trees in which `tl init` may be run
  Loop,         \* the event loop, one of the writers of the journal
  Budget        \* bounds of the model: how often each kind of event happens

EventKind ==
  {"edit", "flush", "pause", "stale", "force", "fault", "vanish", "crash", "stop"}

FileState == Content \cup {Absent, Dir, Unreadable}

ASSUME LoopAssumption ==
  /\ Loop \in Writer
  /\ Root = [Path -> Content \cup {Absent}]
  /\ Editable \subseteq FileState
  /\ StartTrees \subseteq Root
  /\ Above \in [Path -> SUBSET Path]
  /\ Budget \in [EventKind -> Nat]
  /\ {Absent, Dir, Unreadable} \cap Content = {}
  /\ Absent # Dir /\ Absent # Unreadable /\ Dir # Unreadable
  /\ NoMap \notin Root

VARIABLES
  wd,           \* the working tree
  inflight,     \* paths with an event on its way through the watcher
  alive,        \* the daemon is running
  pathmap,      \* Daemon.pathmap
  pending,      \* pending_paths of run(), or the batch of shutdown()
  mapFile,      \* state/pathmap.bin
  saved,        \* state/pending_paths.json
  stale,        \* state/pathmap_stale
  paused,       \* the restore lock or the GC lock is held
  lpc,          \* where the loop is
  serving,      \* what the checkpoint under way is for
  todo,         \* paths still to be scanned or reconciled
  draft,        \* new_map of incremental_update
  request,      \* the flush request waiting in flush_rx
  owed,         \* history: paths changed before that request and not since
  touched,      \* Checkpoint.touched_paths, by sequence number
  left          \* what is left of the budget

watchVars == <<wd, inflight>>
diskVars == <<mapFile, saved>>
stepVars == <<lpc, serving, todo, draft>>
flushVars == <<request, owed>>
loopVars == <<watchVars, alive, pathmap, pending, diskVars, stale, paused,
              stepVars, flushVars, touched, left>>
vars == <<journalVars, loopVars>>

EmptyTree == [p \in Path |-> Absent]
IsFile(v) == v \in Content \cup {Unreadable}

(* A path can only be occupied when everything above it is a directory.    *)
WellFormed(t) ==
  \A p \in Path : t[p] # Absent => \A q \in Above[p] : t[q] = Dir

(* What a tree should hold for a path in state v.                          *)
AsEntry(v) == IF v = Dir THEN Absent ELSE v

(* The tree of the latest checkpoint.                                      *)
HeadRoots == {IF h = NoParent THEN EmptyTree ELSE db[h].root : h \in Latest}

Spend(kind) ==
  /\ left[kind] > 0
  /\ left' = [left EXCEPT ![kind] = @ - 1]

-------------------------------------------------------------------------------
LoopTypeOK ==
  /\ JournalTypeOK
  /\ wd \in [Path -> FileState]
  /\ WellFormed(wd)
  /\ inflight \subseteq Path /\ pending \subseteq Path /\ saved \subseteq Path
  /\ todo \subseteq Path /\ owed \subseteq Path
  /\ alive \in BOOLEAN /\ stale \in BOOLEAN /\ paused \in BOOLEAN
  /\ pathmap \in Root /\ draft \in Root
  /\ mapFile \in Root \cup {NoMap}
  /\ lpc \in {"select", "scan", "reconcile", "append", "clear", "exit"}
  /\ serving \in {"none", "tick", "fast", "reliable", "shutdown"}
  /\ request \in {"none", "fast", "reliable"}
  /\ DOMAIN touched \subseteq Nat /\ \A s \in DOMAIN touched : touched[s] \subseteq Path
  /\ left \in [EventKind -> Nat]

(* The daemon has just been started in a repository made by `tl init`:     *)
(* init records the files it finds as a first checkpoint, if there is any, *)
(* but writes no path map, so the daemon starts with an empty one.         *)
LoopInit ==
  \E tree \in StartTrees :
    /\ IF tree = EmptyTree
         THEN JournalOpen(EmptyHistory)
         ELSE JournalOpen([s \in {1} |-> [parent |-> NoParent, root |-> tree]])
    /\ wd \in [Path -> FileState] /\ WellFormed(wd)
    /\ \A p \in Path : wd[p] # Unreadable /\ AsEntry(wd[p]) = tree[p]
    /\ touched = [s \in DOMAIN db |-> {p \in Path : tree[p] # Absent}]
    /\ inflight = {} /\ pending = {} /\ saved = {}
    /\ alive = TRUE /\ stale = FALSE /\ paused = FALSE
    /\ pathmap = EmptyTree /\ mapFile = NoMap
    /\ lpc = "select" /\ serving = "none" /\ todo = {} /\ draft = EmptyTree
    /\ request = "none" /\ owed = {}
    /\ left = Budget

-------------------------------------------------------------------------------
(* The environment.                                                        *)

(* A file is created, changed or removed, a directory made or removed.     *)
Edit(p, v) ==
  /\ Spend("edit")
  /\ v # wd[p]
  /\ wd' = [wd EXCEPT ![p] = v]
  /\ WellFormed(wd')
  /\ inflight' = IF alive THEN inflight \cup {p} ELSE inflight
  /\ owed' = owed \ {p}
  /\ UNCHANGED <<journalVars, alive, pathmap, pending, diskVars, stale, paused,
                 stepVars, request, touched>>

(* A restore or a garbage collection takes its lock, and releases it.      *)
Pause ==
  /\ ~paused
  /\ Spend("pause")
  /\ paused' = TRUE
  /\ UNCHANGED <<journalVars, watchVars, alive, pathmap, pending, diskVars,
                 stale, stepVars, flushVars, touched>>

Resume ==
  /\ paused
  /\ paused' = FALSE
  /\ UNCHANGED <<journalVars, watchVars, alive, pathmap, pending, diskVars,
                 stale, stepVars, flushVars, touched, left>>

(* The IPC task of InvalidatePathmap writes the marker file.               *)
InvalidatePathmap ==
  /\ alive
  /\ Spend("stale")
  /\ stale' = TRUE
  /\ UNCHANGED <<journalVars, watchVars, alive, pathmap, pending, diskVars,
                 paused, stepVars, flushVars, touched>>

(* The IPC task of FlushCheckpoint or FlushCheckpointFast queues a request *)
(* and waits for the answer.                                               *)
RequestFlush(mode) ==
  /\ alive
  /\ request = "none" /\ serving \notin {"fast", "reliable"}
  /\ Spend("flush")
  /\ request' = mode
  /\ owed' = {p \in Path : AsEntry(wd[p]) # pathmap[p]}
  /\ UNCHANGED <<journalVars, watchVars, alive, pathmap, pending, diskVars,
                 stale, paused, stepVars, touched>>

(* The IPC task of ForceCheckpoint: a new checkpoint with the tree of the  *)
(* one it finds latest, appended next to the loop.                         *)
ForceCheckpoint(w) ==
  /\ alive
  /\ Spend("force")
  /\ \E h \in Latest \ {NoParent} : ReadLatest(w, h, db[h].root)
  /\ UNCHANGED <<watchVars, alive, pathmap, pending, diskVars, stale, paused,
                 stepVars, flushVars, touched>>

ForceStep(w) ==
  /\ alive
  /\ \/ TakeNumber(w) /\ touched' = [s \in DOMAIN touched \cup {wseq'[w]} |->
                                       IF s = wseq'[w] THEN {} ELSE touched[s]]
     \/ (InsertRecord(w) \/ InsertIndex(w) \/ Flush(w) \/ CountOne(w))
          /\ UNCHANGED touched
  /\ UNCHANGED <<watchVars, alive, pathmap, pending, diskVars, stale, paused,
                 stepVars, flushVars, left>>

(* Its append fails: the client is told, and nothing else happens.         *)
ForceFails(w) ==
  /\ alive
  /\ Spend("fault")
  /\ AppendFails(w)
  /\ UNCHANGED <<watchVars, alive, pathmap, pending, diskVars, stale, paused,
                 stepVars, flushVars, touched>>

-------------------------------------------------------------------------------
(* The loop.                                                               *)

(* The loop is back at the top of its select, the request it was serving   *)
(* answered.                                                               *)
ToSelect ==
  /\ lpc' = "select"
  /\ serving' = "none"
  /\ todo' = {}
  /\ draft' = EmptyTree

(* run() has returned; the process ends once its tasks are done.           *)
ToExit ==
  /\ lpc' = "exit"
  /\ serving' = "none"
  /\ todo' = {}
  /\ draft' = EmptyTree

(* create_checkpoint(paths) begins with a copy of the path map.            *)
Begin(paths, map, for) ==
  /\ lpc' = "reconcile"
  /\ serving' = for
  /\ todo' = paths
  /\ draft' = map

(* Watcher events: a batch becomes pending; every 2 s the pending paths    *)
(* are saved as well.                                                      *)
PollBranch ==
  /\ alive /\ lpc = "select"
  /\ \E batch \in SUBSET inflight \ {{}} :
       /\ inflight' = inflight \ batch
       /\ pending' = pending \cup batch
       /\ saved' \in {saved, pending'}
  /\ UNCHANGED <<journalVars, wd, alive, pathmap, mapFile, stale, paused,
                 stepVars, flushVars, touched, left>>

(* rebuild_pathmap_from_head, if the marker is there.  It fails when there *)
(* is no checkpoint; the loop goes on with the map it has.                 *)
Rebuild ==
  IF stale /\ index # {}
    THEN /\ pathmap' \in HeadRoots
         /\ mapFile' = pathmap'
         /\ stale' = FALSE
    ELSE UNCHANGED <<pathmap, mapFile, stale>>

(* A mistake: the pending paths are dropped while a lock is held.          *)
PeriodicDrops ==
  /\ alive /\ lpc = "select" /\ pending # {}
  /\ IF paused
       THEN pending' = {} /\ UNCHANGED <<pathmap, mapFile, stale, stepVars>>
       ELSE Rebuild /\ Begin(pending, pathmap', "tick") /\ UNCHANGED pending
  /\ UNCHANGED <<journalVars, watchVars, alive, saved, paused, flushVars, touched, left>>

(* Periodic checkpoint creation; skipped while a lock is held.             *)
PeriodicBranch ==
  /\ alive /\ lpc = "select" /\ pending # {}
  /\ ~paused
  /\ Rebuild
  /\ Begin(pending, pathmap', "tick")
  /\ UNCHANGED <<journalVars, watchVars, alive, pending, saved, paused,
                 flushVars, touched, left>>

(* A mistake: a request waits for a change that may never come.            *)
FlushWaits ==
  /\ alive /\ lpc = "select" /\ request # "none"
  /\ ~paused /\ pending # {}
  /\ request' = "none"
  /\ Begin(pending, pathmap, request)
  /\ UNCHANGED <<journalVars, watchVars, alive, pending, pathmap, diskVars, stale,
                 paused, owed, touched, left>>

(* A flush request: answered at once while a lock is held; otherwise, when *)
(* nothing is pending, the watcher is pumped and flushed, and a reliable   *)
(* flush that still has nothing scans the working tree.                    *)
FlushBranch ==
  /\ alive /\ lpc = "select" /\ request # "none"
  /\ request' = "none"
  /\ \/ /\ paused
        /\ UNCHANGED <<inflight, pending, stepVars>>
     \/ /\ ~paused /\ pending # {}
        /\ Begin(pending, pathmap, request)
        /\ UNCHANGED <<inflight, pending>>
     \/ /\ ~paused /\ pending = {}
        /\ \E batch \in SUBSET inflight :
             /\ inflight' = inflight \ batch
             /\ pending' = batch
             /\ \/ batch # {} /\ Begin(batch, pathmap, request)
                \/ batch = {} /\ request = "fast" /\ UNCHANGED stepVars
                \/ /\ batch = {} /\ request = "reliable"
                   /\ lpc' = "scan" /\ serving' = request /\ todo' = Path
                   /\ UNCHANGED draft
  /\ UNCHANGED <<journalVars, wd, alive, pathmap, diskVars, stale, paused,
                 owed, touched, left>>

(* A mistake: a scan that sees only the files that are there.              *)
ScanFilesOnly(p) ==
  /\ alive /\ lpc = "scan" /\ p \in todo
  /\ ~(wd[p] = Unreadable /\ pathmap[p] # Absent)
  /\ todo' = todo \ {p}
  /\ pending' = IF IsFile(wd[p]) /\ wd[p] # pathmap[p] THEN pending \cup {p}
                                                       ELSE pending
  /\ UNCHANGED <<journalVars, watchVars, alive, pathmap, diskVars, stale, paused,
                 lpc, serving, draft, flushVars, touched, left>>

(* scan_dirty_paths_from_working_tree looks at one path after the other.   *)
(* A path of the map that is no file now is dirty, and so is a file that   *)
(* the map does not know, or knows with another content.                   *)
ScanPath(p) ==
  /\ alive /\ lpc = "scan" /\ p \in todo
  /\ ~(wd[p] = Unreadable /\ pathmap[p] # Absent)
  /\ todo' = todo \ {p}
  /\ pending' = IF AsEntry(wd[p]) # pathmap[p] THEN pending \cup {p} ELSE pending
  /\ UNCHANGED <<journalVars, watchVars, alive, pathmap, diskVars, stale, paused,
                 lpc, serving, draft, flushVars, touched, left>>

ScanDone ==
  /\ alive /\ lpc = "scan" /\ todo = {}
  /\ IF pending = {} THEN ToSelect ELSE Begin(pending, pathmap, serving)
  /\ UNCHANGED <<journalVars, watchVars, alive, pathmap, pending, diskVars, stale,
                 paused, flushVars, touched, left>>

(* reconcile_path: a file is recorded, a missing one removed; a directory, *)
(* or a path that may not be looked at, leaves the entry as it was.        *)
BlockedByFile(p) == \E q \in Above[p] : IsFile(wd[q])

(* A mistake: whatever is at the path is recorded, a directory too.        *)
ReconcileAny(p) ==
  /\ alive /\ lpc = "reconcile" /\ p \in todo
  /\ ~BlockedByFile(p) /\ wd[p] # Unreadable
  /\ todo' = todo \ {p}
  /\ draft' = [draft EXCEPT ![p] = wd[p]]
  /\ UNCHANGED <<journalVars, watchVars, alive, pathmap, pending, diskVars, stale,
                 paused, lpc, serving, flushVars, touched, left>>

ReconcilePath(p) ==
  /\ alive /\ lpc = "reconcile" /\ p \in todo
  /\ ~BlockedByFile(p) /\ wd[p] # Unreadable
  /\ todo' = todo \ {p}
  /\ draft' = IF wd[p] = Dir THEN draft ELSE [draft EXCEPT ![p] = wd[p]]
  /\ UNCHANGED <<journalVars, watchVars, alive, pathmap, pending, diskVars, stale,
                 paused, lpc, serving, flushVars, touched, left>>

(* create_checkpoint returned an error: the pending paths are saved and    *)
(* stay pending.  After shutdown() nothing is saved.                       *)
GiveUp ==
  IF serving = "shutdown"
    THEN ToExit /\ UNCHANGED saved
    ELSE ToSelect /\ saved' = pending

(* A mistake: a path that cannot be reconciled is left out.                *)
ReconcileSkips ==
  /\ alive /\ lpc = "reconcile"
  /\ \E p \in todo : /\ BlockedByFile(p) \/ wd[p] = Unreadable
                     /\ todo' = todo \ {p}
  /\ UNCHANGED <<journalVars, watchVars, alive, pathmap, pending, diskVars, stale,
                 paused, lpc, serving, draft, flushVars, touched, left>>

(* A path cannot be reconciled: it lies below what is now a file (lstat    *)
(* fails with ENOTDIR), cannot be read, or is being changed while read.    *)
ReconcileFails ==
  /\ alive /\ lpc = "reconcile"
  /\ \E p \in todo : BlockedByFile(p) \/ wd[p] = Unreadable
                       \/ (wd[p] \in Content /\ p \in inflight)
  /\ GiveUp
  /\ UNCHANGED <<journalVars, watchVars, alive, pathmap, pending, mapFile, stale,
                 paused, flushVars, touched, left>>

(* A mistake: the path map is saved before the checkpoint is appended.     *)
SaveMapFirst ==
  /\ alive /\ lpc = "reconcile" /\ todo = {} /\ wpc[Loop] = "idle"
  /\ \E h \in Latest : ReadLatest(Loop, h, draft)
  /\ lpc' = "append"
  /\ mapFile' = draft
  /\ UNCHANGED <<watchVars, alive, pathmap, pending, saved, stale, paused,
                 serving, todo, draft, flushVars, touched, left>>

(* journal.latest() and Checkpoint::new.                                   *)
ReadParent ==
  /\ alive /\ lpc = "reconcile" /\ todo = {} /\ wpc[Loop] = "idle"
  /\ \E h \in Latest : ReadLatest(Loop, h, draft)
  /\ lpc' = "append"
  /\ UNCHANGED <<watchVars, alive, pathmap, pending, diskVars, stale, paused,
                 serving, todo, draft, flushVars, touched, left>>

(* A mistake: the touched paths are those of the next batch.               *)
AppendsUntouched ==
  /\ alive /\ lpc = "append"
  /\ \/ TakeNumber(Loop)
          /\ touched' = [s \in DOMAIN touched \cup {wseq'[Loop]} |->
                           IF s = wseq'[Loop] THEN todo ELSE touched[s]]
     \/ (InsertRecord(Loop) \/ InsertIndex(Loop) \/ Flush(Loop))
          /\ UNCHANGED touched
  /\ UNCHANGED <<watchVars, alive, pathmap, pending, diskVars, stale, paused,
                 stepVars, flushVars, left>>

LoopAppends ==
  /\ alive /\ lpc = "append"
  /\ \/ TakeNumber(Loop)
          /\ touched' = [s \in DOMAIN touched \cup {wseq'[Loop]} |->
                           IF s = wseq'[Loop] THEN pending ELSE touched[s]]
     \/ (InsertRecord(Loop) \/ InsertIndex(Loop) \/ Flush(Loop))
          /\ UNCHANGED touched
  /\ UNCHANGED <<watchVars, alive, pathmap, pending, diskVars, stale, paused,
                 stepVars, flushVars, left>>

LoopAppendFails ==
  /\ alive /\ lpc = "append"
  /\ Spend("fault")
  /\ AppendFails(Loop)
  /\ GiveUp
  /\ UNCHANGED <<watchVars, alive, pathmap, pending, mapFile, stale, paused,
                 flushVars, touched>>

(* A mistake: only the file gets the new map.                              *)
PublishFileOnly ==
  /\ alive /\ lpc = "append"
  /\ CountOne(Loop)
  /\ mapFile' = draft
  /\ lpc' = "clear"
  /\ UNCHANGED <<watchVars, alive, pathmap, pending, saved, stale, paused, serving,
                 todo, draft, flushVars, touched, left>>

(* append() has returned: the count, the path map, and its file.           *)
Publish ==
  /\ alive /\ lpc = "append"
  /\ CountOne(Loop)
  /\ pathmap' = draft
  /\ mapFile' = draft
  /\ lpc' = "clear"
  /\ UNCHANGED <<watchVars, alive, pending, saved, stale, paused, serving, todo,
                 draft, flushVars, touched, left>>

PublishFails ==
  /\ alive /\ lpc = "append"
  /\ Spend("fault")
  /\ CountOne(Loop)
  /\ pathmap' = draft
  /\ GiveUp
  /\ UNCHANGED <<watchVars, alive, pending, mapFile, stale, paused, flushVars,
                 touched>>

(* A mistake: after shutdown() too the file of pending paths is removed.   *)
ClearsAlways ==
  /\ alive /\ lpc = "clear"
  /\ pending' = {} /\ saved' = {}
  /\ IF serving = "shutdown" THEN ToExit ELSE ToSelect
  /\ UNCHANGED <<journalVars, watchVars, alive, pathmap, mapFile, stale, paused,
                 flushVars, touched, left>>

(* pending_paths.clear() and clear_pending_paths(); shutdown() does not    *)
(* touch the file.                                                         *)
Clear ==
  /\ alive /\ lpc = "clear"
  /\ pending' = {}
  /\ IF serving = "shutdown" THEN ToExit /\ UNCHANGED saved
                            ELSE ToSelect /\ saved' = {}
  /\ UNCHANGED <<journalVars, watchVars, alive, pathmap, mapFile, stale, paused,
                 flushVars, touched, left>>

-------------------------------------------------------------------------------
(* The process.                                                            *)

(* A signal or the Shutdown request ends the loop; shutdown() checkpoints  *)
(* what the watcher still holds.  The pending paths of run() are dropped.  *)
Shutdown ==
  /\ alive /\ lpc = "select"
  /\ Spend("stop")
  /\ \E batch \in SUBSET inflight :
       /\ pending' = batch
       /\ inflight' = inflight \ batch
       /\ IF batch = {} THEN ToExit ELSE Begin(batch, pathmap, "shutdown")
  /\ UNCHANGED <<journalVars, wd, alive, pathmap, diskVars, stale, paused,
                 flushVars, touched>>

(* The scan of a reliable flush fails on a file it knows but cannot read,  *)
(* or that vanishes or keeps changing while it is hashed: run() returns    *)
(* the error, without a shutdown().                                        *)
ScanFails ==
  /\ alive /\ lpc = "scan"
  /\ \E p \in todo :
       /\ pathmap[p] # Absent
       /\ \/ wd[p] = Unreadable /\ UNCHANGED left
          \/ p \in inflight /\ Spend("vanish")
  /\ ToExit
  /\ UNCHANGED <<journalVars, watchVars, alive, pathmap, pending, diskVars, stale,
                 paused, flushVars, touched>>

(* All that is in memory is gone.                                          *)
Vanish ==
  /\ alive' = FALSE
  /\ inflight' = {} /\ pending' = {}
  /\ ToSelect
  /\ request' = "none" /\ owed' = {}
  /\ UNCHANGED <<journalVars, wd, pathmap, mapFile, stale, paused, touched>>

(* The process ends after run(); no IPC task is stopped half way, since    *)
(* none of them awaits anything between latest() and append().             *)
Exit ==
  /\ alive /\ lpc = "exit"
  /\ \A w \in Writer : wpc[w] = "idle"
  /\ Vanish
  /\ UNCHANGED <<saved, left>>

(* The process is killed, or the machine fails.  The saved paths have been *)
(* written without an fsync: a power failure may have emptied their file.  *)
Crash ==
  /\ alive
  /\ Spend("crash")
  /\ Vanish
  /\ saved' \in {saved, {}}

(* The daemon starts: Journal::open, load_or_create_pathmap and            *)
(* load_pending_paths.  A missing path map is replaced by an empty one.    *)
Start ==
  /\ ~alive
  /\ CrashAndOpen
  /\ alive' = TRUE
  /\ pathmap' = IF mapFile = NoMap THEN EmptyTree ELSE mapFile
  /\ pending' = saved
  /\ UNCHANGED <<watchVars, diskVars, stale, paused, stepVars, flushVars, touched,
                 left>>

LoopStep ==
  \/ ReadParent \/ LoopAppends \/ LoopAppendFails \/ Publish \/ PublishFails
  \/ Clear \/ ScanDone \/ ScanFails \/ ReconcileFails
  \/ \E p \in Path : ScanPath(p) \/ ReconcilePath(p)

LoopNext ==
  \/ \E p \in Path, v \in Editable : Edit(p, v)
  \/ Pause \/ Resume \/ InvalidatePathmap
  \/ \E mode \in {"fast", "reliable"} : RequestFlush(mode)
  \/ \E w \in Writer \ {Loop} : ForceCheckpoint(w) \/ ForceStep(w) \/ ForceFails(w)
  \/ PollBranch \/ PeriodicBranch \/ FlushBranch
  \/ LoopStep
  \/ Shutdown \/ Exit \/ Crash \/ Start

LoopSpec == LoopInit /\ [][LoopNext]_vars

(* Each select branch that is ready again and again is taken: tokio picks  *)
(* among the ready branches at random.  The loop and the tasks go on when  *)
(* they can, and a lock is released in the end.  Nothing forces an edit, a *)
(* request, a fault, a crash or a start.                                   *)
Fairness ==
  /\ SF_vars(PollBranch) /\ SF_vars(PeriodicBranch) /\ SF_vars(FlushBranch)
  /\ WF_vars(LoopStep) /\ WF_vars(Resume)
  /\ \A w \in Writer \ {Loop} : WF_vars(ForceStep(w))

FairLoopSpec == LoopSpec /\ Fairness

-------------------------------------------------------------------------------
(* Between the watcher, the pending paths and the path map no change of    *)
(* the working tree is forgotten, whatever is edited while a checkpoint is *)
(* being made, and whichever step of making it fails.  (A directory in the *)
(* place of a file is left out: see TreeShape.)                            *)
NoLostChange ==
  alive /\ lpc # "exit" =>
    \A p \in Path :
      wd[p] # Dir /\ wd[p] # pathmap[p] => p \in inflight \cup pending

(* What has neither been delivered by the watcher nor is pending is in the *)
(* tree of HEAD: the latest checkpoint and the path map from which the     *)
(* next one is computed do not part.                                       *)
HeadComplete ==
  alive /\ lpc # "exit" =>
    \A root \in HeadRoots : \A p \in Path :
      wd[p] # Dir /\ wd[p] # root[p] => p \in inflight \cup pending

(* A checkpoint differs from its parent only in the paths it says it has   *)
(* touched: log, diff and restore of single paths can be believed.         *)
DeltaTouched ==
  \A s \in index : \A p \in Path :
    LET before == IF db[s].parent = NoParent THEN EmptyTree
                                             ELSE db[db[s].parent].root
    IN  db[s].root[p] # before[p] => p \in touched[s]

(* The saved path map is never ahead of the journal: it is the tree of a   *)
(* durable checkpoint, so that a daemon started from it reads a tree whose *)
(* checkpoint exists, wherever the crash came.                             *)
MapFileRecorded ==
  mapFile # NoMap => \E s \in durable : db[s].root = mapFile

(* Once saved, a pending path stays in the file, through failing           *)
(* checkpoints, shutdowns, errors and starts, until a durable checkpoint   *)
(* has been made for it whose tree is the daemon's map: what a restart     *)
(* takes up is all that was saved and is not recorded.  (A crash may empty *)
(* the file, which is written without an fsync.)                           *)
SavedUntilRecorded ==
  [][\A p \in saved \ saved' :
       ~alive' \/ \E s \in durable : p \in touched[s] /\ db[s].root = pathmap]_vars

(* No file has an entry of the tree below it.                              *)
TreeShape ==
  \A s \in index : \A p \in Path :
    db[s].root[p] # Absent => \A q \in Above[p] : db[s].root[q] = Absent

(* A reliable flush answers that there is nothing to do only when all that *)
(* was changed before the request is recorded.  (A daemon that dies at     *)
(* that point answers nothing.)                                            *)
NothingToFlush ==
  [][(alive /\ alive' /\ lpc = "scan" /\ todo = {} /\ lpc' = "select") =>
       \A p \in owed : AsEntry(wd[p]) = pathmap[p]]_vars

(* A reliable flush that reports a checkpoint has recorded all that was    *)
(* changed before the request.                                             *)
FlushComplete ==
  [][(lpc = "clear" /\ serving = "reliable" /\ lpc' = "select") =>
       \A p \in owed : AsEntry(wd[p]) = pathmap[p]]_vars

(* The paths of a checkpoint under way survive a crash of the daemon.      *)
PendingSurvives ==
  [][(alive /\ ~alive' /\ lpc \in {"reconcile", "append"}) =>
       pending \subseteq saved']_vars

(* What shutdown() checkpoints includes the pending paths.                 *)
ShutdownFlushes ==
  [][(lpc = "select" /\ (serving' = "shutdown" \/ lpc' = "exit")) =>
       pending \subseteq pending']_vars

(* A flush request is always answered.                                     *)
FlushAnswered ==
  (request # "none" \/ serving \in {"fast", "reliable"}) ~>
    (request = "none" /\ serving \notin {"fast", "reliable"})

(* Once the edits stop, HEAD becomes and stays the working tree.           *)
Converges == <>[](HeadRoots = {[p \in Path |-> AsEntry(wd[p])]})
===============================================================================
