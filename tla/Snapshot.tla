------------------------------- MODULE Snapshot --------------------------------
(***************************************************************************)
(* From files to a checkpoint in the journal: the event loop's update of   *)
(* the changed paths (crates/journal/src/incremental.rs), the import of a  *)
(* commit (crates/jj/src/export.rs), which a task of the same process may  *)
(* do meanwhile, and the scan of all files by a command that finds no      *)
(* daemon (crates/jj/src/workspace.rs, cmd/init.rs).                       *)
(*                                                                         *)
(* Files change at any time, also while they are read.  The journal is     *)
(* modelled in Journal.tla, the choice of the paths in CheckpointLoop.tla. *)
(***************************************************************************)
EXTENDS ObjectStore, Sequences, Integers

CONSTANTS
  Path, Data,       \* what a part of a file may hold; a file or a link has two
  Loop, Import, Scan,   \* the writers
  StartFiles,       \* what the files may be at first
  Values,           \* what a path may become
  Target,           \* the path that the text of a link leads to
  Commit,           \* the tree of the commit to import
  FineClock,        \* every change gives a file an mtime of its own
  MaxTries,         \* hash_file_stable's max_retries
  Budgets           \* how often each kind of event may happen

Event == {"edit", "loop", "import", "scan", "rebuild", "error", "death"}

(* What a path may be: lstat gives the mode of a link to links only.       *)
Value ==
  {v \in [kind : {"none", "file", "link"}, mode : Nat, data : Data \X Data] :
     v.mode = Link <=> v.kind = "link"}

Seen(f) == [kind |-> f.kind, mode |-> f.mode, data |-> f.data]

ASSUME SnapshotAssumption ==
  /\ Writer = {Loop, Import, Scan} /\ Loop # Import /\ Loop # Scan /\ Import # Scan
  /\ {Torn, Corrupt} \cap (Data \X Data) = {}
  /\ \A p \in Path : Values[p] \subseteq Value
  /\ StartFiles \subseteq [Path -> [kind : {"none", "file", "link"}, mode : Nat,
                                   data : Data \X Data, mtime : Int]]
  /\ \A fs \in StartFiles, p \in Path : Seen(fs[p]) \in Value /\ fs[p].mtime <= 0
  /\ Target \in [Data \X Data -> Path]
  /\ DOMAIN Commit \subseteq Path
  /\ \A p \in DOMAIN Commit : Commit[p] \in Value /\ Commit[p].kind # "none"
  /\ FineClock \in BOOLEAN
  /\ FineClock => \A fs \in StartFiles, p, q \in Path : fs[p].mtime = fs[q].mtime => p = q
  /\ MaxTries \in Nat \ {0}
  /\ Budgets \subseteq [Event -> Nat]

VARIABLES
  files,        \* kind, mode, data and mtime of what is at each path
  clock,
  proc,         \* who has the journal open: "none", "daemon", "command"
  map,          \* the daemon's path map
  checkpoints,  \* trees of the journal's checkpoints, the newest last
  job,          \* what each writer is at
  left          \* what is left of the budget

fileVars == <<files, clock>>
vars == <<storeVars, fileVars, proc, map, checkpoints, job, left>>

Spend(e) == left[e] > 0 /\ left' = [left EXCEPT ![e] = @ - 1]

Nowhere == CHOOSE p \in Path : TRUE

(* open: the path of the file that is open, {} if it is at none any more;  *)
(* part: what has been read of it; rest: what is still to read.  draft:    *)
(* the new map.  of: what the paths to visit were when they were chosen,   *)
(* and all they have been since (history).                                 *)
NoJob == [step |-> "none", todo |-> {}, path |-> Nowhere, mode |-> 0, tries |-> 0,
          open |-> {}, part |-> 0, rest |-> 0, mtime |-> 0,
          hash |-> Corrupt, draft |-> NoEntries, of |-> NoEntries]
OfFile == {"open", "part", "rest", "mtime"}

Init ==
  /\ StoreInit
  /\ files \in StartFiles /\ clock = 0
  /\ proc = "none" /\ map = NoEntries /\ checkpoints = <<>>
  /\ job = [w \in Writer |-> NoJob]
  /\ left \in Budgets

-----------------------------------------------------------------------------
(* Files.  A part of a file may be written alone, before the next.         *)

(* stat and open follow links, from one to the next but not in circles:    *)
(* the file that p leads to, itself if it is one.                          *)
Opened(fs, p) ==
  LET hop[n \in 0..Cardinality(Path)] ==
        IF n = 0 THEN p
        ELSE IF fs[hop[n - 1]].kind = "link" THEN Target[fs[hop[n - 1]].data] ELSE hop[n - 1]
  IN  {q \in Path : q = hop[Cardinality(Path)] /\ fs[q].kind = "file"}

(* What p is, and what is read there if it is a link.                      *)
ReadsAs(fs, p) ==
  {Seen(fs[p])} \cup
  {[kind |-> "through", mode |-> fs[q].mode, data |-> fs[q].data] : q \in Opened(fs, p) \ {p}}

(* A file is written in place, or another one is put there: whoever had    *)
(* the old one open goes on reading that.                                  *)
Edit(p, v) ==
  /\ Spend("edit")
  /\ Seen(files[p]) # v
  /\ clock' = clock + 1
  /\ \E t \in (IF FineClock \/ files[p].kind # v.kind THEN {clock'} ELSE {clock', files[p].mtime}) :
       files' = [files EXCEPT ![p] =
                   [kind |-> v.kind, mode |-> v.mode, data |-> v.data, mtime |-> t]]
  /\ \E inPlace \in {files[p].kind = "file" /\ v.kind = "file", FALSE} :
       job' = [w \in Writer |-> [job[w] EXCEPT
         !.open = IF inPlace THEN @ ELSE @ \ {p},
         !.rest = IF inPlace /\ p \in job[w].open THEN v.data[2] ELSE @,
         !.of = [q \in DOMAIN @ |-> @[q] \cup ReadsAs(files', q)]]]
  /\ UNCHANGED <<storeVars, proc, map, checkpoints>>

-----------------------------------------------------------------------------
(* A writer begins.                                                        *)

Visit(w, paths, draft) ==
  job' = [job EXCEPT ![w] = [NoJob EXCEPT !.step = "visit", !.todo = paths, !.draft = draft,
                                          !.of = [p \in paths |-> ReadsAs(files, p)]]]

(* load_or_create_pathmap: without a map file that can be read, no paths.  *)
StartDaemon ==
  /\ proc = "none" /\ proc' = "daemon"
  /\ map' = IF PathMap \in DOMAIN disk /\ MapIn(disk[PathMap]) # Corrupt
            THEN MapIn(disk[PathMap]) ELSE NoEntries
  /\ UNCHANGED <<storeVars, fileVars, checkpoints, job, left>>

BeginUpdate ==
  /\ proc = "daemon" /\ job[Loop].step = "none"
  /\ Spend("loop")
  /\ \E paths \in SUBSET Path \ {{}} : Visit(Loop, paths, map)
  /\ UNCHANGED <<storeVars, fileVars, proc, map, checkpoints>>

BeginImport ==
  /\ proc = "daemon" /\ job[Import].step = "none"
  /\ Spend("import")
  /\ Visit(Import, DOMAIN Commit, NoEntries)
  /\ UNCHANGED <<storeVars, fileVars, proc, map, checkpoints>>

BeginScan ==
  /\ proc = "none" /\ proc' = "command"
  /\ Spend("scan")
  /\ Visit(Scan, Path, NoEntries)
  /\ UNCHANGED <<storeVars, fileVars, map, checkpoints>>

(* rebuild_pathmap_from_head, after a command has changed files and HEAD.  *)
(* Without a tree that can be read the map stays.                          *)
BeginRebuild ==
  /\ proc = "daemon" /\ job[Loop].step = "none" /\ checkpoints # <<>>
  /\ Spend("rebuild")
  /\ LET head == checkpoints[Len(checkpoints)]
         tree == ReadTree(head)
     IN  /\ tree # Corrupt
         /\ cached' = cached \cup {head}
         /\ StartWrite(Loop, PathMap, MapObject(tree))
         /\ job' = [job EXCEPT ![Loop].step = "rebuild", ![Loop].draft = tree]
  /\ UNCHANGED <<disk, git, tmp, unsynced, fileVars, proc, map, checkpoints>>

-----------------------------------------------------------------------------
(* One path.  No step leaves a file open, but the one that opens it.       *)

Becomes(w, fields) ==
  job' = [job EXCEPT ![w] = [x \in DOMAIN @ |-> IF x \in DOMAIN fields THEN fields[x]
                                               ELSE IF x \in OfFile THEN NoJob[x]
                                               ELSE @[x]]]
Put(w, p, entry) ==
  Becomes(w, [step |-> "visit", todo |-> job[w].todo \ {p}, draft |-> With(job[w].draft, p, entry)])
Skip(w, p) == Becomes(w, [step |-> "visit", todo |-> job[w].todo \ {p}])

EntryOf(mode, hash) == IF mode = Link THEN LinkEntry(hash) ELSE FileEntry(mode, hash)

(* The blob is written unless the store has it; then the entry is made.    *)
Store(w, p, mode, data) ==
  LET hash == BlobOf(data)
  IN  IF HasBlob(hash)
      THEN Put(w, p, EntryOf(mode, hash)) /\ UNCHANGED io
      ELSE /\ Becomes(w, [step |-> "blob", path |-> p, mode |-> mode, hash |-> hash])
           /\ StartWrite(w, hash, hash)

(* What lstat says.  A link is compared by the hash of its target alone    *)
(* with the entry of the path.                                             *)
Lstat(w, p) ==
  /\ w # Import /\ job[w].step = "visit" /\ p \in job[w].todo
  /\ LET f == files[p]
         hash == BlobOf(f.data)
         draft == job[w].draft
     IN  \/ /\ f.kind = "none"
            /\ Becomes(w, [todo |-> job[w].todo \ {p}, draft |-> Without(draft, p)])
            /\ UNCHANGED io
         \/ /\ f.kind = "link"
            /\ IF w = Loop /\ p \in DOMAIN draft /\ draft[p].hash = hash
               THEN Skip(w, p) /\ UNCHANGED io
               ELSE Store(w, p, Link, f.data)
         \/ /\ f.kind = "file"
            /\ Becomes(w, [step |-> "hash", path |-> p, mode |-> f.mode, tries |-> 0])
            /\ UNCHANGED io
  /\ UNCHANGED <<disk, git, tmp, unsynced, cached, fileVars, proc, map, checkpoints, left>>

(* A file is read in two parts; its mtime is looked at before and after.   *)
(* The path may be a link by now, and is read all the same.  The first     *)
(* stat and the opening of the file are taken together.                    *)
ReadFirst(w) ==
  /\ job[w].step \in {"hash", "read"}
  /\ LET opened == Opened(files, job[w].path)
     IN  \/ opened = {} /\ Becomes(w, [step |-> "failed"])
         \/ \E q \in opened :
              Becomes(w, [step |-> IF job[w].step = "hash" THEN "hashing" ELSE "reading",
                          open |-> opened, part |-> files[q].data[1], rest |-> files[q].data[2],
                          mtime |-> files[q].mtime])
  /\ UNCHANGED <<storeVars, fileVars, proc, map, checkpoints, left>>

ReadBlobOf(w) == BlobOf(<<job[w].part, job[w].rest>>)

(* The mtime that stat gives now is that of before.                        *)
SameTime(w) == \E q \in Opened(files, job[w].path) : files[q].mtime = job[w].mtime

(* The entry is made, unless it would say the same, or the blob is read.   *)
Hashed(w) ==
  LET j == job[w]
      hash == ReadBlobOf(w)
  IN  IF ~HasBlob(hash) THEN Becomes(w, [step |-> "read", hash |-> hash])
      ELSE IF w = Loop /\ j.path \in DOMAIN j.draft /\ j.draft[j.path].hash = hash
                /\ j.draft[j.path].mode = j.mode
      THEN Skip(w, j.path)
      ELSE Put(w, j.path, FileEntry(j.mode, hash))

(* A mistake: what was read is taken, whatever happened meanwhile.         *)
HashUnstable(w) ==
  /\ job[w].step = "hashing"
  /\ Hashed(w)
  /\ UNCHANGED <<storeVars, fileVars, proc, map, checkpoints, left>>

(* hash_file_stable; hash_file for the scan, which compares nothing.  It   *)
(* is tried again, after a while, if the file has changed.                 *)
HashFile(w) ==
  /\ job[w].step = "hashing"
  /\ LET n == job[w].tries + 1
     IN  IF w # Loop \/ SameTime(w) THEN Hashed(w)
         ELSE IF Opened(files, job[w].path) # {} /\ n < MaxTries
         THEN Becomes(w, [step |-> "hash", tries |-> n])
         ELSE Becomes(w, [step |-> "failed"])
  /\ UNCHANGED <<storeVars, fileVars, proc, map, checkpoints, left>>

(* verify_stable_read, which compares the inode too; fs::read for the      *)
(* scan.  write_blob compares what is read now with the hash.              *)
ReadFile(w) ==
  /\ job[w].step = "reading"
  /\ IF w # Loop \/ (SameTime(w) /\ Opened(files, job[w].path) = job[w].open)
     THEN Becomes(w, [step |-> "blob"]) /\ StartWrite(w, job[w].hash, ReadBlobOf(w))
     ELSE Becomes(w, [step |-> "failed"]) /\ UNCHANGED io
  /\ UNCHANGED <<disk, git, tmp, unsynced, cached, fileVars, proc, map, checkpoints, left>>

(* The import has the data at hand.  Paths of other kinds, and those in    *)
(* conflict, are not in Commit: they are left out.                         *)
ImportPath(p) ==
  /\ job[Import].step = "visit" /\ p \in job[Import].todo
  /\ Store(Import, p, Commit[p].mode, Commit[p].data)
  /\ UNCHANGED <<disk, git, tmp, unsynced, cached, fileVars, proc, map, checkpoints, left>>

-----------------------------------------------------------------------------
(* Blob, tree, journal, map file, in this order.                           *)

BlobWritten(w) ==
  /\ job[w].step = "blob" /\ io[w].step = "done"
  /\ Put(w, job[w].path, EntryOf(job[w].mode, job[w].hash))
  /\ Step(w, "none")
  /\ UNCHANGED <<disk, git, tmp, unsynced, cached, fileVars, proc, map, checkpoints, left>>

WriteTree(w) ==
  /\ job[w].step = "visit" /\ job[w].todo = {}
  /\ LET tree == TreeObject(job[w].draft)
     IN  StartWrite(w, tree, tree) /\ Becomes(w, [step |-> "tree", hash |-> tree])
  /\ UNCHANGED <<disk, git, tmp, unsynced, cached, fileVars, proc, map, checkpoints, left>>

(* append; the scan makes no second checkpoint of the tree of HEAD.  The   *)
(* loop goes on with the map, which replaces the old one.                  *)
AppendCheckpoint(w) ==
  /\ job[w].step = "tree" /\ io[w].step = "done"
  /\ LET tree == job[w].hash
         known == w = Scan /\ checkpoints # <<>> /\ checkpoints[Len(checkpoints)] = tree
     IN  checkpoints' = IF known THEN checkpoints ELSE Append(checkpoints, tree)
  /\ IF w = Loop
     THEN /\ map' = job[w].draft
          /\ StartWrite(w, PathMap, MapObject(job[w].draft))
          /\ job' = [job EXCEPT ![w] = [NoJob EXCEPT !.step = "save"]]
          /\ UNCHANGED proc
     ELSE /\ Step(w, "none")
          /\ job' = [job EXCEPT ![w] = NoJob]
          /\ proc' = IF w = Scan THEN "none" ELSE proc
          /\ UNCHANGED map
  /\ UNCHANGED <<disk, git, tmp, unsynced, cached, fileVars, left>>

(* A rebuilt map is used once it is saved.                                 *)
MapSaved ==
  /\ job[Loop].step \in {"save", "rebuild"} /\ io[Loop].step = "done"
  /\ map' = IF job[Loop].step = "rebuild" THEN job[Loop].draft ELSE map
  /\ Step(Loop, "none")
  /\ job' = [job EXCEPT ![Loop] = NoJob]
  /\ UNCHANGED <<disk, git, tmp, unsynced, cached, fileVars, proc, checkpoints, left>>

(* An error: nothing is recorded, what has been written stays.             *)
GiveUp(w) ==
  /\ job[w].step = "failed" \/ io[w].step = "failed"
  /\ Step(w, "none")
  /\ job' = [job EXCEPT ![w] = NoJob]
  /\ proc' = IF w = Scan THEN "none" ELSE proc
  /\ UNCHANGED <<disk, git, tmp, unsynced, cached, fileVars, map, checkpoints, left>>

Write(w) ==
  /\ WriteStep(w)
  /\ UNCHANGED <<fileVars, proc, map, checkpoints, job, left>>

Error(w) ==
  /\ Spend("error")
  /\ WriteFails(w)
  /\ UNCHANGED <<fileVars, proc, map, checkpoints, job>>

(* The daemon stops, at rest.                                              *)
StopDaemon ==
  /\ proc = "daemon" /\ proc' = "none"
  /\ \A w \in Writer : job[w].step = "none"
  /\ cached' = {} /\ map' = NoEntries
  /\ UNCHANGED <<disk, git, tmp, unsynced, io, fileVars, checkpoints, job, left>>

(* append flushes the journal: its checkpoints are all kept.               *)
Dies ==
  /\ proc # "none" /\ proc' = "none"
  /\ Spend("death")
  /\ StoreDies
  /\ job' = [w \in Writer |-> NoJob] /\ map' = NoEntries
  /\ UNCHANGED <<fileVars, checkpoints>>

Next ==
  \/ \E p \in Path : \E v \in Values[p] : Edit(p, v)
  \/ StartDaemon \/ BeginUpdate \/ BeginImport \/ BeginScan \/ BeginRebuild
  \/ MapSaved \/ StopDaemon \/ Dies
  \/ \E p \in DOMAIN Commit : ImportPath(p)
  \/ \E w \in Writer :
       \/ \E p \in Path : Lstat(w, p)
       \/ ReadFirst(w) \/ HashFile(w) \/ ReadFile(w)
       \/ BlobWritten(w) \/ WriteTree(w) \/ AppendCheckpoint(w) \/ GiveUp(w)
       \/ Write(w) \/ Error(w)

Spec == Init /\ [][Next]_vars

-----------------------------------------------------------------------------
(* A checkpoint of the journal can be restored: its tree and all its blobs *)
(* are on disk, complete and right, though a writer may have passed over   *)
(* an object because another one was writing it or had failed to.          *)
RecordedReadable ==
  \A i \in 1..Len(checkpoints) :
    LET tree == ReadTreeFile(checkpoints[i])
    IN  /\ tree # Corrupt
        /\ \A p \in DOMAIN tree : ReadBlob(tree[p].hash) # Corrupt

(* p was as the entry says: a link with that text; or a file of that mode  *)
(* when it was looked at, and what was read there when it was read.        *)
Held(seen, entry) ==
  \E v, u \in seen :
    /\ BlobOf(v.data) = entry.hash
    /\ \/ v.kind = "link" /\ entry = LinkEntry(entry.hash)
       \/ /\ v.kind \in {"file", "through"} /\ u.kind = "file"
          /\ entry = FileEntry(u.mode, entry.hash)

(* The checkpoint that the loop is about to record says of each path it    *)
(* was made for what has been there since the checkpoint began: never the  *)
(* one half of a file before and the other after a change, never an entry  *)
(* left over from before.  A file that becomes a link before it is read    *)
(* has the content of what it leads to: see TreeOfFiles.                   *)
TreeFaithful ==
  job[Loop].step = "tree" =>
    \A p \in DOMAIN job[Loop].of :
      IF p \in DOMAIN job[Loop].draft
      THEN Held(job[Loop].of[p], job[Loop].draft[p])
      ELSE \E v \in job[Loop].of[p] : v.kind = "none"

(* Not so: the content of a file, in the checkpoint, was at its path.  The *)
(* path is lstat'ed, but read through the link that it has become.         *)
TreeOfFiles ==
  job[Loop].step = "tree" =>
    \A p \in DOMAIN job[Loop].of \cap DOMAIN job[Loop].draft :
      job[Loop].draft[p].kind # "Symlink" =>
        \E v \in job[Loop].of[p] :
          v.kind = "file" /\ BlobOf(v.data) = job[Loop].draft[p].hash
===============================================================================
