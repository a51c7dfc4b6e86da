# Timelapse (`tl`): a verification development

Timelapse watches a working tree and turns every batch of file changes into a *checkpoint*:
a tree of content-addressed objects with a parent, kept in an append-only journal. A daemon
per repository does the work; short-lived commands talk to it over a Unix socket, or work on
the `.tl` directory beside it.

This directory holds TLA+ specifications of that program, the TLC configurations that
model-check them, and TLAPS proofs about them. `PROJECT.json` relates every definition to
the lines it models, and lists runs, mutants, findings, hazards and theorems. Paths below
are relative to `src/crates/`.

## 1. The system

| Part | Source | State it keeps | Operations |
|---|---|---|---|
| Checkpoint journal | `journal/src/journal.rs`, `checkpoint.rs` | sled tree `seq -> checkpoint`; in-memory index; counter | open, latest, append, get, last_n, since, delete, verify, repair |
| Event loop of the daemon | `cli/src/daemon.rs`, `journal/src/incremental.rs`, `pathmap.rs` | path map (memory and `state/pathmap.bin`), pending paths (memory and `state/pending_paths.json`), stale marker, count cache | watcher batch, periodic checkpoint, flush, auto-GC, shutdown |
| IPC tasks of the daemon | `cli/src/daemon.rs` 138-577, `ipc.rs` | none of their own: journal, flush channel, stale marker | flush requests, ForceCheckpoint, ImportRemoteCommit, InvalidatePathmap, Shutdown, reads |
| Start, lock, supervisor | `cli/src/daemon.rs`, `locks.rs`, `ipc.rs` | `locks/daemon.lock` (inode, flock, pid), socket, sled's lock, restart times | start, ensure running, stop, restart |
| Watcher pipeline | `watcher/src/*` | kernel queue, coalescing window, debounce table, checkpoint time | poll, coalesce, debounce, flush, overflow recovery |
| Restore and stash | `cli/src/cmd/restore.rs`, `stash.rs` | restore lock, stash pins | restore, push, apply, pop, drop, clear |
| Retention | `journal/src/retention.rs`, `cli/src/cmd/gc.rs`, daemon auto-GC | pins, GC lock, stash files | pin, unpin, mark, sweep |
| Import, fetch, pull | `cli/src/cmd/pull.rs`, `fetch.rs`, `jj/src/mapping.rs`, `export.rs` | checkpoint <-> commit mapping (sled), list of auto-stashes | auto-stash, import, sync the tree, give back |
| Publishing, pushing | `cli/src/cmd/publish.rs`, `push.rs`, `branch.rs`, `jj/src/materialize.rs`, `git_ops.rs` | jj repository, mapping, bookmarks | choose the chain, convert, squash, bookmark, push |
| Queries | `cli/src/daemon.rs` 254-447, `data_access.rs`, `util.rs` | none | resolve references, log, state of branches |
| Workspaces | `jj/src/workspace.rs`, `cli/src/cmd/worktree_*.rs` | workspace records, pins | add, switch, remove |
| Object store | `core/src/store.rs`, `blob.rs`, `tree.rs`, `hash.rs` | loose objects, caches, `tmp/ingest` | write and read blobs and trees |
| Merge, conflicts | `jj/src/merge.rs`, `conflicts.rs` | conflict files | merge, resolve |

How they interact. The loop owns the path map and is sequential, but it shares the journal
with the IPC tasks, which run in parallel and append without a common lock. Commands ask for
flushes through a channel and wait for the answer; restore and GC exclude the loop by lock
files that the loop looks at before a checkpoint begins; restore, pull and fetch tell the
daemon by a marker file that the map is stale. The working tree is changed by anyone at any
time. Publish and import share the mapping, which only one process can open at a time, and
nothing but a flush makes durable. The object store is shared by all, without a lock. A
supervisor restarts the daemon inside its own process.

What is hard here: edits during a checkpoint; two appenders between `latest()` and
`append()`; a crash between the append and each of the state files; failures half-way
through `create_checkpoint`; paths that change between file and directory; lock files that
are deleted while somebody holds them; commands that write the tree file by file under a
loop that reads it; commits that are made of a parent and a list of paths, which a pull, a
collection or a death may have taken apart; requests that are sent again. The list, each at
its line, is `hazards` in `PROJECT.json`.

What makes each part correct:

* journal: history is well-founded and durable history stays so across crashes;
* loop: no change is forgotten; HEAD is the working tree up to what is in flight or pending;
  a flush says the truth; everything converges when edits stop;
* start: one event loop per repository; commands and daemon agree on who is running;
* watcher: each change leads to its path being delivered after it, or is found again;
* restore, pull, fetch: once all is quiet HEAD is the working tree; what is written over is
  recorded somewhere; an auto-stash is kept until it is back;
* retention: nothing reachable from a checkpoint of the journal is deleted; HEAD and what is
  pinned is kept; what nobody needs is deleted;
* import and publish: a remote commit is imported once, a commit has the tree of its
  checkpoint, the mapping is never behind what others can see;
* push: the work of others is only dropped by `--force`;
* store: no object is ever partial, a checkpoint can be read, and says what the files were.

## 2. Modules

| Module | Models |
|---|---|
| `DurableLog` | abstract: the durable checkpoints only grow, are never changed, and have durable parents with smaller numbers |
| `Journal` | `Journal::open`, `latest`, `append` step by step, for any set of parallel writers, with failures and crashes |
| `CheckpointLoop` | the event loop on top of `Journal` (EXTENDS it: the loop and the ForceCheckpoint tasks are its writers) |
| `DaemonStart` | lock file, socket, journal lock, supervisor, commands that start a daemon |
| `Watcher` | from the event of a changed file to the loop: queue, coalescer, debounce table and its timer tasks, flush, overflow recovery |
| `Retention` | `tl gc` with its mark and sweep, beside the daemon, commands that pin, restores, crashes |
| `JjRepo` | what publish, import and push share: checkpoints, commits, bookmarks, the mapping with its unflushed writes |
| `Publish`, `Import`, `Push`, `Queries` | each one command (or family of reads) upon `JjRepo` |
| `Sync` | composes these four |
| `WorkTree` | the working tree, the loop as commands see it, the restore lock |
| `Restore`, `AutoStash`, `Worktrees` | restore and stash; pull and fetch; `tl worktree` upon `WorkTree` |
| `Work` | composes these three |
| `TreeCodec` | trees, blobs and path maps as values and as files |
| `ObjectStore` | writing and reading objects, step by step, for any writers at the same time |
| `Snapshot` | from files to a checkpoint: update by the loop, import of a commit, scan by a command |
| `MC...` | instances for TLC, one for each of `Journal`, `CheckpointLoop`, `DaemonStart`, `Watcher`, `Retention`, `Sync`, `Work`, `Snapshot` |
| `JournalProofs`, `CheckpointLoopProofs`, `DaemonStartProofs`, `WatcherProofs`, `RetentionProofs`, `SyncProofs`, `WorkProofs`, `SnapshotProofs` | theorems |

**Journal.** `append()` is four steps because other tasks and crashes can come between them:
`TakeNumber` (`fetch_add`), `InsertRecord` (`db.insert`), `InsertIndex`, `Flush`.
`AppendFails` leaves things as they are at each point where the code returns an error; after
`InsertIndex` this means a checkpoint whose creator believes it does not exist. A checkpoint
is named by its number: ULIDs are unique and `latest()` orders by number. `CrashAndOpen`
keeps a subset of the records that holds every flushed record and is closed under parents:
sled's log keeps a prefix in insertion order. `acked` and `disowned` are history variables,
which no guard reads.

**CheckpointLoop.** `lpc` is where the loop is: `select`, `scan` (reliable flush),
`reconcile` (one path of `incremental_update` at a time), `append`, `clear`, `exit`. The
environment edits the tree between any two of these steps. `draft` is `new_map`, `serving`
says which branch the checkpoint is for, and so what happens when it fails (`GiveUp`) or
ends (`Clear`). A content stands for hash, mode and kind of a file. `Dir` is a directory (or
something lstat may not look at), `Unreadable` a file that can be stat'ed but not read.
`Above` gives for each path the repository paths it lies under, so that a path can be a file
at one time and a directory at another. Two restrictions: the watcher is idealised as
`Watcher` without gaps (each change puts its path `inflight`; it leaves only to the loop, at
any time), and at most one flush request waits at a time (the channel holds 10).

**DaemonStart.** flock belongs to an open file: `flock`, `content` and `opened` are about
inodes, `file` is the inode at the path. `zombie` is a process whose accept task has
outlived its `run()`. Two calls of `is_unlocked_file` are modelled as what they are: a lock
taken for an instant. The restart window of 60 s is left out, since attempts are 100 ms
apart.

**Watcher.** The loop calls `poll_events`, `next_batch` and `flush` one after the other
(`LoopFree`), while each timer is a tokio task that shares the debounce table with it. Hence
the table is touched in steps: a first timer removes the entry (`TakeEntry`), finds that its
time was put off, and inserts it again with a second timer (`PutBack`); a flush iterates
over the table (`FlushCollects`) and then clears it (`FlushClears`). `timers` counts the
tasks of each path by what they may still do. There is no clock: an event may be ready, and
a timer may wake, at any moment. `Look` and `Mark` are what a checkpoint does to the
watcher: it reads the file, and sets the time from which the overflow recovery looks for
changes (`fresh`, `dirTouched`: what `modified()` says of files and of the one directory).
`gaps` is a history variable: the paths of which a change may have been missed, and where.
Left out: renames, the ignore rules, events of directories, an error of notify, the macOS
back end.

**Retention.** `pc` is where `tl gc` is, `holder` the process that has the journal open. The
command asks the daemon to stop, waits half a second, and fails if the journal is still open
(`OpenFails`). Between `OpenJournal` and `SweepDone` it reads the pins one by one, marks one
object at a time (`todo` is what the recursion has still to visit), and deletes one
checkpoint or tree at a time; a kill can come at each step, and brings back any part of the
deletions that sled had not flushed. `Object` is any set of trees and blobs and `Children`
says what a tree lists: the daemon makes flat trees, but the mark follows nested ones, so
the model does too. A checkpoint in the making (`draft`) writes objects one by one, children
first, and none that is there. Any number of daemons may come and go, but one at a time:
that is `DaemonStart`'s `OneDaemon`. The time window is any final part of the history. The
pin file is created empty and then written. Left out: the automatic GC (it opens the journal
in a process that has it open, and always fails), checkpoints of workspaces, the numbered
stash entries of `pull` (which no collection reads), probes of the GC lock.

**JjRepo, Publish, Import, Push, Queries, Sync.** The journal is here a sequence `cps` of
all checkpoints ever made with an `index` of those that are left (a collection takes some),
the graph of commits a sequence `commits`. `states` are the states of the mapping since its
last flush: a death leaves any one of them; `holder` is the process that has it open.
`Publish` follows the code from the choice of the checkpoints (`CheckpointRange`, `Chain`,
`WithAncestors`, `Accumulated`, as recursive functions over parents) to one commit at a time
(`PublishOne`): which parent it gets, which paths are said to have changed, and `Convert`,
the parent's tree with those paths replaced. Then flush, bookmark, pin. `Import` has the
request and the import as separate processes, since the one may give up, die or ask again
while the other goes on. `Push` is fetch, compare, send, record, with other people at the
remote between any two; or, if git's HEAD is the bookmark, `git push` alone (`PushHead`).
`Queries` has no variables: it defines what the daemon, the command and `util.rs` answer,
over the same history. Left out: several branches, tags, messages.

**WorkTree, Restore, AutoStash, Worktrees, Work.** `disk` is the working tree, `inflight`
the events the loop has not had yet, `unseen` (history) paths whose change has no event:
those made while the daemon was down, and files only HEAD has after an import. The loop has
the two steps that matter here: it looks at the lock, stale marker and pending paths, and
then, in `MakeCheckpoint`, reads the files. `cmd` says where each of the commands is that
run at the same time; files are written one by one. `risk` is history: paths a flush cannot
have recorded. `list` has the entry in each file `stash-n` (an auto-stash gets the number of
files there are, `NumbersStash`, and is then written there, `WritesStash`), `owed` (history)
those that are not put back yet. A command may die at any step, and a file may fail to be
written. `Worktrees` only gets as far as the code does: `add` and `switch` start the daemon
and then open the journal, so that they go on only if the daemon is gone again; `switch`
ends at the pin `ws:default`, whose name is not valid.

**TreeCodec, ObjectStore, Snapshot.** A hash is modelled by the object it is the hash of.
What the encodings keep of kind and mode is modelled as what the code does: a tree lists the
git mode and derives the kind from it, a path map keeps both. A file that was cut off is
`Torn`. A write is `Probe`, `Create`, `Fill`, `Rename`, `Settle` (the directory is synced),
`GitPut` (the copy in `.git/objects`), `FillCache`, and may fail or die at each step; `io`
is the write each of the three writers is at. `Snapshot` drives it: `Lstat`, hash (the file
is read in two parts, its mtime looked at before and after), look-up, read again, write,
next path; tree, journal, map. Files change between any two steps, in place or replaced by
another, which whoever has the old one open does not see; `Opened` is the file that stat and
open find at a path, at the end of its links. The first stat and the opening of the file are
one step: a change between the two shows in the mtime, unless a link is changed and changed
back. `hash_file_mmap` is `hash_file` for the large files of a workspace scan; the loop
never uses it. `Loop` is the event loop,
`Import` the task that exports a commit into the store meanwhile, `Scan` a command without a
daemon, which compares nothing. `of` is history: what each path has been since the writer
began. Which paths are visited is any non-empty set: their choice is `CheckpointLoop`'s.

The models also contain *mistakes*: variants of an action with a plausible bug, used by no
specification. Each property of the passing runs is violated when the variant `PROJECT.json`
names takes the action's place.

## 3. Runs

All bounds are CONSTANTS: `MaxSeq` numbers, a `Budget` for each kind of event, `Kills`,
`RunErrors`, `Collections`, `Pinnings`, `Restores`, `MaxCheckpoint`, `MaxCommit`. The last
three runs start from several budgets (`Mix` of the MC module): a mixture says how often
each kind of event may happen, so that events meet in pairs and triples without all of them
at once.

| Run | Instance | States | Shows |
|---|---|---|---|
| `journal` | 2 writers, 2 trees, 4 numbers, crashes anywhere | 915 k | history well-founded and durable; count exact; `DurableLog` implemented |
| `loop` | 2 paths, one below the other; files and directories; 3 edits, 1 flush, 1 rebuild of the map, 1 failing step | 1.5 M | nothing forgotten, HEAD complete, deltas as said, a flush that finds nothing is right |
| `loop_live` | 2 paths, 2 edits, 1 flush, 1 lock, 1 failing step; fair | 278 k | convergence, flushes answered |
| `loop_crash` | 2 paths that may be unreadable, 1 edit; 2 flushes, a crash, a stop, a failing step, a vanishing file, a ForceCheckpoint task | 4.6 M | the saved map is recorded; a saved pending path stays saved until a checkpoint is made for it |
| `retention` | 2 trees over a third, a blob, 2 numbers, retain 1; 2 collections, 1 kill, 2 pins, 1 restore | 1.6 M | no checkpoint of the journal dangles; HEAD and pins kept; the rest collected |
| `start` | 2 processes, 1 client, 1 kill; fair | 11 k | the server owns the lock file; a command gets its daemon |
| `start_many` | 2 processes, 2 impatient clients, `tl start`, kill, failing loop | 1.1 M | never two loops |
| `watch` | 2 files, one of which is there; 3 edits, deletions, 1 dropped event, 1 flush; fair | 457 k | no entry without a timer; changes are missed in three known places only; every other file comes to be known |
| `sync` | 2 paths, 3 checkpoints, 5 commits, chain gap 2; five mixtures of edits, publishes, pulls, pushes, others, collections, deaths | 909 k | trees and lineage of commits, one import, no commit ahead of its mapping, one answer to a question, the remote rewound by `--force` alone |
| `work` | 2 paths, 2 contents, 2 commands at a time, 5 checkpoints; ten mixtures of edits, restores, stashes, up to four pulls, fetches, worktrees, deaths, errors | 3.2 M | HEAD becomes the tree; auto-stashes are kept; a sync destroys nothing recorded |
| `store` | 2 paths, the second a file or a link that shares content with the first; 3 writers; six mixtures of edits, updates, imports, scans, rebuilds, errors, deaths | 1.7 M | objects whole, checkpoints readable, the loop's trees faithful |

Why the bounds suffice. Two writers meet in every step of `append`; four numbers allow a
gap, a sibling, a crash and a number handed out after it. One edit while a path waits, one
after it was reconciled and one after the append are the three places where a change could
be forgotten: hence three edits; one flush finds or does not find each of them. In
`loop_crash` a first flush records files, a second one meets them changed or gone. Another
flush, crash or fault would begin from a state that one already reaches. Two paths are
needed: one that a checkpoint is made for, and one above it, or one that is saved meanwhile
and must not be forgotten with it. Two processes and two clients suffice for every race
about one lock file, which is always between an owner and one other; three inodes hold the
present file and two unlinked ones. For the watcher, three edits of a path are one that
starts a timer, one that puts it off and one while the entry is taken out; the second path
is there for what flush and recovery do to the table as a whole. For the collection, two
checkpoints are one that goes and one that stays, with a subtree and a blob in common; the
second collection meets what a killed one has left. For `sync`, a pull and a publish between
two others, or a death between them, are what takes parent, paths and mapping apart; three
checkpoints make a chain with a gap, five commits two of others and one of each. For `work`,
two commands are what one lock, one list or one map is contended by; the ten mixtures pair
the commands that contend for the same one, with an edit, an error or a death between them.
For `store`, two writers meet at each step of one write; a third adds nothing to a pair; two
parts of a file are what a torn read needs. `CHECK_DEADLOCK FALSE` is there where budgets
run out, and where a repository may have no daemon.

Fairness (`CheckpointLoop`): `select!` picks at random among ready branches, so each branch
that is ready again and again is taken (SF); the loop and the tasks, once in a step, go on
(WF); a lock is released in the end, because its owner finishes or dies. Nothing obliges the
environment to edit, fail or crash. (`DaemonStart`): processes and commands go on, and a
command that finds no daemon is given again. (`Watcher`): the loop polls again and again,
timers wake, and a checkpoint that has begun ends; an event that is pushed back into its
window again and again is collected in the end (SF), since edits are finitely many. Nothing
obliges anybody to flush, since reliable flushes only come from commands: `Settles` holds
without. `sync`, `work` and `store` state no fairness: their properties are about states and
steps, those of quiescence (`HeadShowsTree`) about states where nothing is under way.

One run finds a **violation**, of what a comment says (quoted under `findings`):
`init_then_edit`. `tl init` writes no path map, the daemon starts from an empty one: the
first checkpoint drops every file that did not change.

More configurations show further disagreements with comments or the README of the
repository, or consequences of them. They are no runs of `PROJECT.json`; `tlc -config <cfg>
<module>` finds each violation:

| Configuration | Property | What happens |
|---|---|---|
| *with `MCCheckpointLoop`* | | |
| `MCForceRace.cfg` | `HeadComplete` | `flush --force` racing the loop becomes HEAD with the older tree |
| `MCPendingLost.cfg` | `PendingSurvives`, `ShutdownFlushes` (`-continue`) | pending paths are not saved before a checkpoint is made; a graceful stop drops the paths pending in the loop, although `shutdown()` says "Flush any pending paths" |
| `MCFlush.cfg` | `FlushComplete`, `NoLostChange` (`-continue`) | with anything pending, a reliable flush does not ask the watcher; a file that vanishes under the scan of a flush ends the loop through `?`, without a shutdown |
| `MCReplaced.cfg` | `TreeShape`, `Converges` (`-continue`) | a file replaced by a directory stays in the tree beside its children; a directory replaced by a file makes every checkpoint fail (ENOTDIR) |
| *with `MCDaemonStart`* | | |
| `MCRestart.cfg` | `Restarted`, `HeldLockKept` (`-continue`) | the supervisor cannot restart: its own process still holds the journal; a command removes a lock file that a starting daemon has just locked |
| *with `MCWatcher`* | | |
| `MCWatchCancel.cfg` | `NothingMissed` | a file is created and deleted within a window, which leaves no event; but a checkpoint due to an earlier event of it read it between the two: HEAD keeps the deleted file |
| *with `MCRetention`* | | |
| `MCGcBlobs.cfg` | `BlobsCollected` | the sweep says "Delete unreferenced blobs" and looks for them in `objects/blobs/xx`, where the store keeps none: no blob is ever collected |
| `MCGcAlone.cfg` | `AllPinsKept`, `NothingDangling` (`-continue`) | a checkpoint is pinned, successfully, while a collection deletes it; after a crash in the sweep deleted checkpoints are back, without their trees |
| *with `MCSync`* | | |
| `MCPublishGap.cfg` | `MappedTreeAlways` | a commit made upon the seed from accumulated paths lacks what changed before a gap, although `publish.rs:341` says "Parent not found (possibly GC'd) - use tree-diff fallback": the accumulated paths are used instead |
| *with `MCSnapshot`* | | |
| `MCStoreGaps.cfg` | `RecordedReadable`, `TreeFaithful`, `TreeOfFiles` (`-continue`) | an object that another writer has renamed, but not synced, is taken to be there: when the machine fails the checkpoint lacks it, although each write is said to "Fsync parent directory for durability"; a file becomes a link whose target reads like the file: only hashes are compared, the entry stays that of a file; a file becomes a link between lstat and its hashing: `fs::metadata` and `fs::read` follow it, and the path is recorded as a file with the content of another |

The passing runs of the loop therefore state their assumptions in their instance: `loop`
starts from an empty tree (no `init_then_edit`), without tasks (`MCForceRace.cfg`), stops or
vanishing files; `HeadComplete` and `NoLostChange` speak of paths that are not directories
(`MCReplaced.cfg`). `loop_crash` rebuilds no map: a rebuild saves the map of HEAD even if
HEAD is a checkpoint whose flush failed, and `MapFileRecorded` asks for a durable one.
`NoDangling` and `PinsKept` except what `MCGcAlone.cfg` shows, by the history variables
`returned` and `overlapped`, which no guard reads; `OneCheckpointPerCommit` excepts commits
whose mapping a death has lost (`lost`), `MappedTree` those of `MCPublishGap.cfg`
(`guessed`). `RemoteNeverRewound` excepts the lease of `--force`, and all that `--force` may
replace where git pushes its HEAD: there the push neither fetches nor compares, although
`BENCH.md` says that push "refreshes remote-tracking state before push". `HeadShowsTree` and
`SyncDestroysNothing` except what the loop can have no event of (`unseen`, `risk`): the code
does overwrite changes made while the daemon was down, and edits that a flush refused under
the restore lock. `AutoStashListed` speaks of pulls. A fetch pops before it writes. When a
pull or fetch begins while another runs, nothing is owed from then on: the two may choose
one number and write one file (`StashManager::push` counts the files and then creates the
next), and their two pops then take off an older entry that is nobody's. (`work` has the
four pulls that this takes: without the exception TLC finds the entry lost.) Nor is an entry
owed that is written when overlapping commands have left numbers unused, since a later one
may be written over it. `TreeFaithful` speaks of the loop, with mtimes that tell two
changes, and two files, apart (`FineClock`): with a coarser clock, and in scans, which
compare nothing, half of a file may be of one version and half of the next. And it speaks of
what is read *at* a path, through the link that it may have become since lstat: that the
path itself held it is `TreeOfFiles`, which is violated (the event of the link then makes
the next checkpoint put it right).

Seen while modelling, and part of the models, but denied by no property: giving back an
auto-stash writes all its files, also over those that only the remote has changed; a pull
killed between import and sync is never completed, since the commit is known then; a direct
pull leaves no stale marker; `stash pop` unpins what it could not write; temporary files of
killed writers stay in `tmp/ingest`; a file of mode 0664 is always dirty for the scan of a
reliable flush, since an entry keeps 0644 only.

## 4. Proofs

`JournalProofs` (about `Journal`, for every set of writers and trees, and every bound):

* The inductive invariant `JournalInv` adds to the properties what a step needs: every
  number in use is below the counter (`NumbersInUse`), a writer's parent is indexed and
  below the counter from when it is read, and below the number once taken (`HeldParent`), a
  writer's number is its own and unused until it inserts (`HeldNumber`, `DistinctNumbers`).
  Without these `ParentsPrecede` is not inductive, since parent and number are read at
  different times.
* `TypeCorrect`, `ParentsAlwaysPrecede`, `DurableAncestryAlways` follow from it;
  `DurableAlwaysKept` is the action property; `RefinesDurableLog` maps the records in
  `durable` to the abstract log, each step to `Grow` or a stutter.
* `CountAlwaysExact` needs cardinalities and has its own invariant, with the finiteness of
  sets.
* `LinearIfOneWriter` (not model-checked: it speaks of one writer, and `journal` has two)
  assumes that all writers are equal, with the invariant `SoloInv`: the writer's parent is
  still HEAD when it appends.

`CheckpointLoopProofs` (about `CheckpointLoop`, every set of paths and any budget):

* `LoopTypeCorrect`, and `JournalUnderLoop`: what is proved of the journal holds of it under
  the loop and its tasks, through forced checkpoints, crashes and restarts.
* `SavedKeptUntilRecorded` assumes nothing: failing steps, rebuilds, crashes, stops and
  tasks are allowed. Its invariant says that what is saved is pending (`SavedPending`),
  and that the record after which it is cleared touches all that is pending, has the draft
  for a tree, and is durable (`RecordTouches`, `RecordsDraft`, `ClearsRecorded`).
* `NoChangeLost` assumes `Undisturbed` (no crash, stop or vanishing file in the budget, all
  files readable, an empty tree at the start: what the violations show to be needed) and
  that no map is rebuilt. Its invariant says of every path of `draft` already reconciled
  that it agrees with the tree or has an event in flight.
* `HeadAlwaysComplete` assumes `Undisturbed` and that the loop is the only writer: the tree
  of HEAD is the path map, or the draft once it is indexed. Rebuilds are allowed, and it
  says `NoLostChange` once more, with them: a map rebuilt from such a HEAD forgets nothing.
* `FlushTellsTruth` assumes nothing. While a reliable flush scans, what it has looked at is
  pending, or agrees with the path map, or was changed after the request (`Scanned`).
* `MapFileAlwaysRecorded` assumes that no map is rebuilt; crashes, stops, faults and forced
  checkpoints are allowed. The record that the loop appends has the draft for a tree, and is
  durable before the draft becomes the map (`RecordsDraft`).
* `DeltaAlwaysTouched` has the assumptions of `HeadAlwaysComplete`. HEAD differs from the
  path map in pending paths only, also after an append that failed half way
  (`DeltaPending`), and what the next checkpoint says it touched is what is pending
  (`TouchedIsPending`).

`DaemonStartProofs` (about `DaemonStart`, any number of processes, commands, kills,
failures):

* `StartTypeCorrect`, one step per action.
* `NeverTwoDaemons`, from `HolderInv`: from before a process listens until it ends it is the
  one that has the journal open. No fact about lock files is needed: it is sled's lock, and
  not `locks/daemon.lock`, that excludes a second loop.
* `ServerAlwaysOwnsLockFile` assumes `OnePatientClient`, as run `start` does: with a second
  command, `tl start` or a failing loop, a lock file can be removed under its owner
  (`MCRestart.cfg`). At most one process is active, and only while the command waits for it
  or has seen it serve (`OneActive`); what an active process has opened is still at the path
  (`Owner`). Any process may be killed.

`WatcherProofs` (about `Watcher`, every set of files and any number of edits):

* `WatchTypeCorrect` and `EveryEntryHasTimer`, from `TimerInv`: the counts of timers are
  numbers that are never taken below zero, and each entry has a timer that will find it.
* `NothingMissedWithoutGaps` assumes `NoGaps` (no deletion, dropped event or flush). Its
  invariant says besides that only creations and modifications are in queue and window
  (`OnlyWrites`), since a pair that cancels out is the one way a path leaves the window
  without entering the table.
* `GapsAreKnown` assumes nothing: deletions, drops, recoveries and flushes are allowed.
  `GapInv` says where the event of each path is that the daemon does not know (kernel queue,
  window, table, a timer that holds it, what a recovery or a flush has collected), or that a
  recovery is due, or that the path is in `gaps`.

`RetentionProofs` (about `Retention`, every set of objects and pins, any `Children` and any
bound: all six properties of run `retention`):

* `NothingDangles` and `RestoresSucceed`, from `GcInv`. The draft has written what its trees
  list, and nobody makes a draft while a collection has the journal (`DraftInv`); what is
  marked exists, and what it lists is marked or still to visit (`MarkInv`, the invariant of
  any graph traversal), so that at the sweep the marked part of what a checkpoint needs is
  closed, and survives. `HeadInv` is needed because ForceCheckpoint copies the tree of HEAD:
  HEAD must not be one of the checkpoints that a crash brought back. It says that these are
  all older than some checkpoint that never was deleted.
* `HeadAlwaysKept`: fewer than `RetainCount` checkpoints are newer than HEAD, namely none,
  from when the live checkpoints are chosen until the last one is dropped (`LiveInv`).
* `TreesAlwaysCollected`: marking visits only what every closed set with a live root
  contains (`ReachInv`).
* `PinsAlwaysKept` assumes `retain_pins`. Its invariant says of each pin that has been read
  that it is live, or that its command is known to overlap the collection.

`SnapshotProofs` (about `Snapshot`, any files, values, commits, edits, errors and deaths).
All three assume `MarksAreNoValues`: `Torn` and `Corrupt`, which a `.cfg` gives model
values, are no functions and so differ from every object.

* `ObjectsAlwaysWhole`, from `SnapshotInv`: what a writer is about to rename is whole and is
  what its name says, since its temporary file is its own; and what writers have read,
  hashed and drafted is of something a file may have been.
* `RecordedAlwaysReadable` assumes that the machine itself does not fail (`~PowerFails`;
  `MCStoreGaps.cfg` shows why). Whatever map, drafts, map file and checkpoints name is on
  disk (`KeptInv`).
* `LoopTreesFaithful` assumes `FineClock` and `LinksApart` (no link has for a text what may
  be read in a file: the second case of `MCStoreGaps.cfg`); run `store` keeps to both. Links
  are followed. `FaithInv` relates what the loop has read, part by part and of whatever file
  the path led to, to what each path was, and what was read there, since the update began:
  if the mtime is still that of before, the open file is still the one found at the path,
  and both parts are of one version of it.

`SyncProofs` (about `Sync`: all seven properties of run `sync`, for any trees and bounds).
The model walks over parents with recursive functions. What one computes for every input is
an induction over data, which the prover cannot do; but two lemmas take it a long way:
`Upwards` says that a definition by smaller numbers has a solution, so that it can be
unfolded, and `LeastNumber` gives the least number for which a claim fails, whose parent
does not.

* `TypesHold`, from `TypeInv`: parents have smaller numbers, and fields fit their steps.
* `RemoteOnlyAdvances`: an action property, from the types and the ancestors of a commit;
  what a forced push replaces is what its fetch has seen, or, in git's own push, anything.
* `ImportsAreIdempotent`, from `KnownInv`: every checkpoint made of a commit is found by the
  reverse key of that commit, but for the one an import is about to enter and for keys that
  a death has lost; what an import is at was not found.
* `PublishedIsMapped`, from `SafeInv`: in each state that a death may leave of the mapping,
  a key leads to commits that all have keys, and so do bookmark, remote and what is pulled
  in the first of these states, which is on disk.
* `CommitsFollowParents`: a publish goes along the line of parents, what it makes next has
  for a parent what it made last (`Chained`); keys lead to commits of their checkpoint
  (`KeysLead`).
* `CommitsHaveTheirTrees` assumes, as the run does, that a seed commit has the tree of the
  first checkpoint. `TreeInv` says that a checkpoint differs from its parent only in what it
  has touched, and from the first one only in all that was accumulated since (`WholePaths`).
* `OneAnswer`: what `pulled` names is in the journal (`PinInv`), and a history is read place
  by place, along `Walk`.

`WorkProofs` (about `Work`: all three properties of run `work`, for any number of commands,
paths and events). The actions are first classified by what they do to files (`FileSteps`)
and to commands (`CmdSteps`), so that each invariant needs one step per class.

* `QuietHeadIsTree`, from `HeadInv`: a path with nothing unseen, in flight or pending is in
  HEAD, and in the map, as it is in the tree. A map rebuilt, or not, needs both halves.
* `SyncKeepsFiles`: an action property, from `KeepInv`: from the answer to its flush on,
  what is in a file that is not at risk for a pull or fetch is in a checkpoint or the remote
  tree.
* `OwedIsListed`, from `StashInv`: while something is owed, the files are numbered from 0 to
  n - 1, so that a number chosen is n until its file is written, and the file that a command
  takes off is n - 1 and its own; a fetch finds nothing owed in it.

`DurableAlwaysKept`, `NothingMissedWithoutGaps` and `LinearIfOneWriter` state properties
that no passing run has: the first is what `ImplementsDurableLog` checks too, the second
speaks of watchers without deletions, drops and flushes, which `watch` has.

Only model-checked: liveness (`Converges`, `FlushAnswered`, `EnsureStarts`, `Settles`),
since TLAPS proves none under fairness. Every safety property that a passing run checks is
stated by a theorem; those with assumptions name them, and the runs keep to them.

## 5. Not modelled, and the plan

To be proved next: `MapFileRecorded` with rebuilds, for which it must be said which HEAD
they read; what is left of `ServerOwnsLockFile` with `tl start` or a second command; the
loop under restarts, with what `MCPendingLost.cfg` shows excepted.

Not modelled, in decreasing order of what it could show:

* `Watcher` in place of the idealised `inflight` of `CheckpointLoop` and `WorkTree`: the
  product of both state spaces is beyond TLC. What links them is `Settles` with
  `OnlyKnownGaps` on one side (a change comes to be known, but for three gaps) and the
  environment's delivery on the other; `unseen` in `WorkTree` is one of those gaps.
* Ignore rules, atomic-save names, events of directories; the macOS watcher, which shares
  the coalescer and the debounce table. The reconciler is never started.
* `Retention` beside `Sync`: `Sync` has a collection as one step that takes any checkpoints
  no pin keeps, `Retention` has it step by step. Collections of stash entries and
  checkpoints of workspaces. The automatic collection opens a journal that its own process
  has open, so that it fails before it does anything (`daemon.rs:1655`).
* Several branches, tags, remotes and conflicted bookmarks in `Push`.
* Merge and conflicts: the merge itself is jj's; what remains is the text of conflict
  markers.
* The steps of `tl init`, of which only the outcome is modelled: it runs before there is
  anybody to race with.
* Byte layouts, formatting, diffs, configuration, progress output; `verify_integrity`,
  `repair` and `recovery.rs`, which the program never calls; jj and git, which are external.

The hazards without a property each have a note in `PROJECT.json`: most are losses that the
code does suffer, shown by one of the further configurations.
