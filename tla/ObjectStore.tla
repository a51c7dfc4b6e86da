------------------------------ MODULE ObjectStore ------------------------------
(***************************************************************************)
(* The object store: BlobStore (crates/core/src/blob.rs) and Store         *)
(* (crates/core/src/store.rs).                                             *)
(*                                                                         *)
(* An object is written to a file of its own under tmp/ingest, synced,     *)
(* renamed to its place, and the directory synced.  Tasks of one process   *)
(* share the caches, through which has_blob answers; nothing excludes two  *)
(* writers of the same object.  `tl gc`, which deletes trees, is in        *)
(* Retention.tla.                                                          *)
(***************************************************************************)
EXTENDS TreeCodec, FiniteSets

CONSTANTS
  Writer,
  GitEnabled,   \* .git/objects was there when the store was opened
  PowerFails    \* a crash may take the whole machine down

ASSUME StoreAssumption == GitEnabled \in BOOLEAN /\ PowerFails \in BOOLEAN

VARIABLES
  disk,         \* files at their final place: objects, by hash, and the path map
  git,          \* blobs in .git/objects
  tmp,          \* files under tmp/ingest
  unsynced,     \* files whose directory has not been synced since the rename
  cached,       \* keys of the two caches of the process that runs
  io            \* the write each writer is at

storeVars == <<disk, git, tmp, unsynced, cached, io>>

PathMap == [kind |-> "PMV2"]      \* state/pathmap.bin
Idle == [step |-> "none", name |-> PathMap, bytes |-> Corrupt, onGit |-> FALSE]

StoreInit ==
  /\ disk = NoEntries /\ git = {} /\ tmp = NoEntries /\ unsynced = {} /\ cached = {}
  /\ io = [w \in Writer |-> Idle]

StoreTypeOK ==
  /\ unsynced \subseteq DOMAIN disk
  /\ cached \subseteq DOMAIN disk
  /\ \A w \in Writer : io[w].step \in {"none", "probe", "create", "fill", "rename", "settle",
                                       "git", "cache", "done", "failed"}

(* A mistake: a file under tmp/ingest is named for its object alone.       *)
TmpForObject(w) == io[w].name

(* "<uuid>-<hash>": no two writes share a file.                            *)
TmpFile(w) == w

IsBlob(name) == name.kind = "blob"

(* has_blob.                                                               *)
HasBlob(hash) == hash \in cached \/ hash \in DOMAIN disk

-----------------------------------------------------------------------------
(* Reading.  The hash is computed anew, and must be the one asked for.     *)

ReadBlob(hash) ==
  IF hash \notin DOMAIN disk THEN Corrupt
  ELSE LET data == BlobIn(disk[hash])
       IN  IF data # Corrupt /\ BlobOf(data) = hash THEN data ELSE Corrupt

ReadTreeFile(hash) ==
  IF hash \notin DOMAIN disk THEN Corrupt
  ELSE LET tree == TreeIn(disk[hash])
       IN  IF tree # Corrupt /\ TreeObject(tree) = hash THEN tree ELSE Corrupt

(* The cache is asked first.                                               *)
ReadTree(hash) == IF hash \in cached THEN Parsed(hash.body) ELSE ReadTreeFile(hash)

-----------------------------------------------------------------------------
(* Writing: write_blob, write_tree, and atomic_write for the path map.     *)

StartWrite(w, name, bytes) ==
  io' = [io EXCEPT ![w] = [step |-> IF name = PathMap THEN "create" ELSE "probe",
                           name |-> name, bytes |-> bytes, onGit |-> FALSE]]

Step(w, step) == io' = [io EXCEPT ![w].step = step]

(* A mistake: the cache knows the blob before the disk does.               *)
ProbeCaches(w) ==
  /\ io[w].step = "probe"
  /\ Step(w, "create")
  /\ cached' = cached \cup {io[w].name}
  /\ UNCHANGED <<disk, git, tmp, unsynced>>

(* Nothing is done if the object is there, and in .git for a blob.  A blob *)
(* must have the hash it is to be stored under.                            *)
Probe(w) ==
  /\ io[w].step = "probe"
  /\ LET name  == io[w].name
         onGit == ~IsBlob(name) \/ ~GitEnabled \/ name \in git
     IN  io' = [io EXCEPT
                  ![w].onGit = onGit,
                  ![w].step = IF name \in DOMAIN disk /\ onGit THEN "done"
                              ELSE IF io[w].bytes # name THEN "failed"
                              ELSE IF name \in DOMAIN disk THEN "git" ELSE "create"]
  /\ UNCHANGED <<disk, git, tmp, unsynced, cached>>

(* File::create truncates what has that name.                              *)
Create(w) ==
  /\ io[w].step = "create"
  /\ tmp' = With(tmp, TmpFile(w), Torn)
  /\ Step(w, "fill")
  /\ UNCHANGED <<disk, git, unsynced, cached>>

(* write_all, sync_all.                                                    *)
Fill(w) ==
  /\ io[w].step = "fill"
  /\ tmp' = With(tmp, TmpFile(w), io[w].bytes)
  /\ Step(w, "rename")
  /\ UNCHANGED <<disk, git, unsynced, cached>>

Rename(w) ==
  /\ io[w].step = "rename" /\ TmpFile(w) \in DOMAIN tmp
  /\ disk' = With(disk, io[w].name, tmp[TmpFile(w)])
  /\ tmp' = Without(tmp, TmpFile(w))
  /\ unsynced' = unsynced \cup {io[w].name}
  /\ Step(w, "settle")
  /\ UNCHANGED <<git, cached>>

(* The directory is synced; an error is ignored.                           *)
Settle(w) ==
  /\ io[w].step = "settle"
  /\ unsynced' = unsynced \ {io[w].name}
  /\ Step(w, IF io[w].name = PathMap THEN "done" ELSE IF io[w].onGit THEN "cache" ELSE "git")
  /\ UNCHANGED <<disk, git, tmp, cached>>

(* The same into .git/objects, by way of tmp_tl; git may have been faster. *)
GitPut(w) ==
  /\ io[w].step = "git"
  /\ git' = git \cup {io[w].name}
  /\ Step(w, "cache")
  /\ UNCHANGED <<disk, tmp, unsynced, cached>>

FillCache(w) ==
  /\ io[w].step = "cache"
  /\ cached' = cached \cup {io[w].name}
  /\ Step(w, "done")
  /\ UNCHANGED <<disk, git, tmp, unsynced>>

(* Any of these may fail, for want of space or of permission.              *)
WriteFails(w) ==
  /\ io[w].step \in {"create", "fill", "rename", "git"}
  /\ tmp' = Without(tmp, TmpFile(w))
  /\ Step(w, "failed")
  /\ UNCHANGED <<disk, git, unsynced, cached>>

WriteStep(w) ==
  \/ Probe(w) \/ Create(w) \/ Fill(w) \/ Rename(w) \/ Settle(w) \/ GitPut(w) \/ FillCache(w)

(* The process dies, alone or with the machine, which may lose a rename.   *)
(* Nobody looks at what it leaves under tmp/ingest.                        *)
StoreDies ==
  /\ io' = [w \in Writer |-> Idle]
  /\ cached' = {} /\ tmp' = NoEntries
  /\ \E gone \in (IF PowerFails THEN SUBSET unsynced ELSE {{}}) :
       /\ disk' = [n \in DOMAIN disk \ gone |-> disk[n]]
       /\ unsynced' = unsynced \ gone
  /\ UNCHANGED git

-----------------------------------------------------------------------------
(* What is at its final place is complete and is what its name says, so    *)
(* that no reader ever gives up: whoever writes the same object at the     *)
(* same time, and whenever a writer fails or dies.                         *)
ObjectsWhole ==
  \A n \in DOMAIN disk :
    IF n = PathMap THEN MapIn(disk[n]) # Corrupt
    ELSE IF IsBlob(n) THEN ReadBlob(n) # Corrupt
    ELSE ReadTreeFile(n) # Corrupt
===============================================================================
