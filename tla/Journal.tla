-------------------------------- MODULE Journal --------------------------------
(***************************************************************************)
(* The checkpoint journal (crates/journal/src/journal.rs): a sled tree     *)
(* from sequence numbers to checkpoints, an in-memory index of the         *)
(* checkpoints that can be seen, and the counter that numbers them.        *)
(*                                                                         *)
(* Every writer runs the same protocol, as the event loop of the daemon    *)
(* and its IPC tasks do, in parallel and without a common lock:            *)
(*                                                                         *)
(*     latest()  ->  Checkpoint::new(parent, root)  ->  append()           *)
(*                                                                         *)
(* and append() itself takes a number, inserts into sled, inserts into the *)
(* index and flushes.  A checkpoint is named by its sequence number: ULIDs *)
(* are unique and a checkpoint keeps its number for life.                  *)
(***************************************************************************)
EXTENDS Naturals, FiniteSets

CONSTANTS
  Writer,       \* tasks that append checkpoints
  Root,         \* root trees
  MaxSeq        \* bound of the model: sequence numbers taken (u64 in the code)

ASSUME MaxSeqAssumption == MaxSeq \in Nat

VARIABLES
  db,           \* sled tree: sequence number -> checkpoint
  index,        \* sequence numbers that latest() and get() can see
  nextSeq,      \* seq_counter
  durable,      \* sequence numbers whose sled record has reached the disk
  count,        \* checkpoint_count_cache of the daemon
  wpc,          \* where each writer is
  wparent,      \* the head each writer has read
  wroot,        \* the root tree each writer is about to record
  wseq,         \* the number each writer has taken
  acked,        \* history: checkpoints whose append() has returned Ok
  disowned      \* history: indexed checkpoints whose append() returned Err

writerVars == <<wpc, wparent, wroot, wseq>>
journalVars ==
  <<db, index, nextSeq, durable, count, writerVars, acked, disowned>>

NoParent == 0

Checkpoint == [parent : Nat, root : Root]

(* The steps of a writer: idle, "parented" once latest() has returned,     *)
(* "numbered" after fetch_add, "stored" after db.insert, "indexed" after   *)
(* index.insert, "flushed" once append() has returned Ok.                  *)
WriterStep == {"idle", "parented", "numbered", "stored", "indexed", "flushed"}

(* The largest element of S, as a set: {} if there is none.                *)
Greatest(S) == {s \in S : \A t \in S : t <= s}

(* What latest() returns for an index S: its largest number, or NoParent.  *)
LatestIn(S) == IF S = {} THEN {NoParent} ELSE Greatest(S)

Latest == LatestIn(index)

-------------------------------------------------------------------------------
JournalTypeOK ==
  /\ DOMAIN db \subseteq Nat \ {0}
  /\ db \in [DOMAIN db -> Checkpoint]
  /\ index \subseteq DOMAIN db
  /\ nextSeq \in Nat \ {0}
  /\ durable \subseteq DOMAIN db
  /\ count \in Nat
  /\ wpc \in [Writer -> WriterStep]
  /\ wparent \in [Writer -> Nat]
  /\ wroot \in [Writer -> Root]
  /\ wseq \in [Writer -> Nat]
  /\ acked \subseteq durable
  /\ disowned \subseteq index

(* A journal holding the history h, as Journal::open leaves it.            *)
JournalOpen(h) ==
  /\ db = h
  /\ index = DOMAIN h
  /\ durable = DOMAIN h
  /\ acked = DOMAIN h
  /\ disowned = {}
  /\ \E m \in LatestIn(DOMAIN h) : nextSeq = m + 1
  /\ count = Cardinality(DOMAIN h)
  /\ wpc = [w \in Writer |-> "idle"]
  /\ wparent = [w \in Writer |-> NoParent]
  /\ wroot \in {[w \in Writer |-> r] : r \in Root}
  /\ wseq = [w \in Writer |-> 0]

EmptyHistory == [s \in {} |-> [parent |-> NoParent, root |-> CHOOSE r \in Root : TRUE]]

Init == JournalOpen(EmptyHistory)

-------------------------------------------------------------------------------
(* A mistake: the parent is the last number given out, seen or not.        *)
ReadLastNumber(w, p, r) ==
  /\ wpc[w] = "idle"
  /\ wpc' = [wpc EXCEPT ![w] = "parented"]
  /\ wparent' = [wparent EXCEPT ![w] = nextSeq - 1]
  /\ wroot' = [wroot EXCEPT ![w] = r]
  /\ UNCHANGED <<db, index, nextSeq, durable, count, wseq, acked, disowned>>

(* latest() and Checkpoint::new: the parent and the root are now fixed.    *)
ReadLatest(w, p, r) ==
  /\ wpc[w] = "idle"
  /\ p \in Latest
  /\ wpc' = [wpc EXCEPT ![w] = "parented"]
  /\ wparent' = [wparent EXCEPT ![w] = p]
  /\ wroot' = [wroot EXCEPT ![w] = r]
  /\ UNCHANGED <<db, index, nextSeq, durable, count, wseq, acked, disowned>>

(* A mistake: the number is in the index before there is a record.         *)
TakeAndIndex(w) ==
  /\ wpc[w] = "parented"
  /\ nextSeq <= MaxSeq
  /\ wpc' = [wpc EXCEPT ![w] = "numbered"]
  /\ wseq' = [wseq EXCEPT ![w] = nextSeq]
  /\ nextSeq' = nextSeq + 1
  /\ index' = index \cup {nextSeq}
  /\ UNCHANGED <<db, durable, count, wparent, wroot, acked, disowned>>

(* seq_counter.fetch_add(1).                                               *)
TakeNumber(w) ==
  /\ wpc[w] = "parented"
  /\ nextSeq <= MaxSeq
  /\ wpc' = [wpc EXCEPT ![w] = "numbered"]
  /\ wseq' = [wseq EXCEPT ![w] = nextSeq]
  /\ nextSeq' = nextSeq + 1
  /\ UNCHANGED <<db, index, durable, count, wparent, wroot, acked, disowned>>

(* db.insert(seq, checkpoint).                                             *)
InsertRecord(w) ==
  /\ wpc[w] = "numbered"
  /\ db' = [s \in DOMAIN db \cup {wseq[w]} |->
              IF s = wseq[w] THEN [parent |-> wparent[w], root |-> wroot[w]]
                             ELSE db[s]]
  /\ wpc' = [wpc EXCEPT ![w] = "stored"]
  /\ UNCHANGED <<index, nextSeq, durable, count, wparent, wroot, wseq,
                 acked, disowned>>

(* index.write().insert(id, seq): from here on the checkpoint can be HEAD. *)
InsertIndex(w) ==
  /\ wpc[w] = "stored"
  /\ index' = index \cup {wseq[w]}
  /\ wpc' = [wpc EXCEPT ![w] = "indexed"]
  /\ UNCHANGED <<db, nextSeq, durable, count, wparent, wroot, wseq,
                 acked, disowned>>

(* A mistake: only the record of the caller is made durable.               *)
FlushOwn(w) ==
  /\ wpc[w] = "indexed"
  /\ durable' = durable \cup {wseq[w]}
  /\ acked' = acked \cup {wseq[w]}
  /\ wpc' = [wpc EXCEPT ![w] = "flushed"]
  /\ UNCHANGED <<db, index, nextSeq, count, wparent, wroot, wseq, disowned>>

(* db.flush() makes every record of the tree durable; append() returns Ok. *)
Flush(w) ==
  /\ wpc[w] = "indexed"
  /\ durable' = DOMAIN db
  /\ acked' = acked \cup {wseq[w]}
  /\ wpc' = [wpc EXCEPT ![w] = "flushed"]
  /\ UNCHANGED <<db, index, nextSeq, count, wparent, wroot, wseq, disowned>>

(* A mistake: a failed append gives its number back.                       *)
FailAndReturnNumber(w) ==
  /\ wpc[w] \in {"numbered", "indexed"}
  /\ wpc' = [wpc EXCEPT ![w] = "idle"]
  /\ disowned' = IF wpc[w] = "indexed" THEN disowned \cup {wseq[w]} ELSE disowned
  /\ nextSeq' = nextSeq - 1
  /\ UNCHANGED <<db, index, durable, count, wparent, wroot, wseq, acked>>

(* append() returns Err: db.insert failed, or db.flush failed after the    *)
(* checkpoint had entered the index.  Nothing is taken back.               *)
AppendFails(w) ==
  /\ wpc[w] \in {"numbered", "indexed"}
  /\ wpc' = [wpc EXCEPT ![w] = "idle"]
  /\ disowned' = IF wpc[w] = "indexed" THEN disowned \cup {wseq[w]} ELSE disowned
  /\ UNCHANGED <<db, index, nextSeq, durable, count, wparent, wroot, wseq, acked>>

(* A mistake: the records are counted afresh.                              *)
CountOf(w) ==
  /\ wpc[w] = "flushed"
  /\ count' = Cardinality(durable)
  /\ wpc' = [wpc EXCEPT ![w] = "idle"]
  /\ UNCHANGED <<db, index, nextSeq, durable, wparent, wroot, wseq, acked, disowned>>

(* checkpoint_count_cache.fetch_add(1), after append() has returned.       *)
CountOne(w) ==
  /\ wpc[w] = "flushed"
  /\ count' = count + 1
  /\ wpc' = [wpc EXCEPT ![w] = "idle"]
  /\ UNCHANGED <<db, index, nextSeq, durable, wparent, wroot, wseq, acked, disowned>>

(* A mistake: the counter starts behind the number of records, as if there *)
(* were no gaps in the numbers.                                            *)
OpenByCount ==
  \E kept \in SUBSET DOMAIN db :
    /\ durable \subseteq kept
    /\ \A s \in kept : db[s].parent \in kept \cup {NoParent}
    /\ db' = [s \in kept |-> db[s]]
    /\ index' = kept
    /\ durable' = kept
    /\ nextSeq' = Cardinality(kept) + 1
    /\ count' = Cardinality(kept)
    /\ wpc' = [w \in Writer |-> "idle"]
    /\ disowned' = {}
    /\ UNCHANGED <<wparent, wroot, wseq, acked>>

(* The process dies and a later one calls Journal::open, which rebuilds    *)
(* index and counter from sled.  Records that were not flushed may be      *)
(* gone; sled's log keeps a prefix, so no record outlives one that was     *)
(* inserted before it, in particular not its parent.                       *)
CrashAndOpen ==
  \E kept \in SUBSET DOMAIN db :
    /\ durable \subseteq kept
    /\ \A s \in kept : db[s].parent \in kept \cup {NoParent}
    /\ db' = [s \in kept |-> db[s]]
    /\ index' = kept
    /\ durable' = kept
    /\ \E m \in LatestIn(kept) : nextSeq' = m + 1
    /\ count' = Cardinality(kept)
    /\ wpc' = [w \in Writer |-> "idle"]
    /\ disowned' = {}
    /\ UNCHANGED <<wparent, wroot, wseq, acked>>

Append(w) ==
  \/ TakeNumber(w)
  \/ InsertRecord(w)
  \/ InsertIndex(w)
  \/ Flush(w)
  \/ AppendFails(w)

Next ==
  \/ \E w \in Writer :
       \/ \E p \in Latest, r \in Root : ReadLatest(w, p, r)
       \/ Append(w)
       \/ CountOne(w)
  \/ CrashAndOpen

Spec == Init /\ [][Next]_journalVars

-------------------------------------------------------------------------------
(* Checkpoints that are in the index but not in the count: counted only    *)
(* after append() has returned, and never when it returned an error.       *)
Uncounted ==
  {wseq[w] : w \in {v \in Writer : wpc[v] \in {"indexed", "flushed"}}}
    \cup disowned

(* The parent of a checkpoint is an indexed checkpoint with a smaller      *)
(* number, although parent and number are read at different times while    *)
(* other writers append: the parent walks of log, HEAD~n and the publish   *)
(* chain end at a checkpoint without parent.                               *)
ParentsPrecede ==
  \A s \in DOMAIN db :
    /\ db[s].parent < s
    /\ db[s].parent # NoParent => db[s].parent \in index

(* A crash can strike between any two steps of any writers and still finds *)
(* every durable checkpoint with its whole ancestry.                       *)
DurableAncestry ==
  \A s \in durable : db[s].parent \in durable \cup {NoParent}

(* The cached count shown by status and compared with the threshold of the *)
(* automatic GC lags behind the index by exactly the appends that have not *)
(* been reported yet and those reported as failed after the insert; it     *)
(* never drifts otherwise.                                                 *)
CountExact == count = Cardinality(index \ Uncounted)

(* No step, a crash included, loses or overwrites a durable checkpoint: in *)
(* particular a number handed out after a restart is never one in use.     *)
DurableKept ==
  [][\A s \in durable : s \in DOMAIN db' /\ db'[s] = db[s]]_journalVars

(* The checkpoints that are durable form a DurableLog.                     *)
Durable == INSTANCE DurableLog WITH log <- [s \in durable |-> db[s]]
ImplementsDurableLog == Durable!LogSpec

(* The history is linear: no two checkpoints have the same parent, and the *)
(* parent walk from HEAD shows every one of them.                          *)
Linear ==
  \A s, t \in index : s # t => db[s].parent # db[t].parent
===============================================================================
