------------------------------- MODULE Retention -------------------------------
(***************************************************************************)
(* Garbage collection: `tl gc` (crates/cli/src/cmd/gc.rs) and the mark and *)
(* sweep of crates/journal/src/retention.rs, beside the daemon, commands   *)
(* that pin a checkpoint, and restores.                                    *)
(*                                                                         *)
(* What excludes the daemon from a collection is sled's lock on the        *)
(* journal: one process has it open.  Pins are plain files that commands   *)
(* write under no lock.  Crashes may come between any two steps.           *)
(***************************************************************************)
EXTENDS Naturals, FiniteSets

CONSTANTS
  Object, Tree,     \* trees and blobs; the trees among them
  Children,         \* the objects a tree lists
  Name,             \* names of pins
  None,
  MaxSeq,           \* numbers of the journal
  RetainCount,      \* retain_dense_count
  RetainPins,       \* retain_pins
  Collections, Kills, Pinnings, Restores      \* bounds of the model

ASSUME RetentionAssumption ==
  /\ Tree \subseteq Object
  /\ Children \in [Object -> SUBSET Object]
  /\ \A o \in Object \ Tree : Children[o] = {}
  /\ MaxSeq \in Nat /\ RetainCount \in Nat \ {0}
  /\ RetainPins \in BOOLEAN
  /\ None \notin Object /\ None \notin Nat
  /\ Collections \in Nat /\ Kills \in Nat /\ Pinnings \in Nat /\ Restores \in Nat

VARIABLES
  index,        \* the checkpoints of the journal, by number
  root,         \* root_tree of each checkpoint
  store,        \* objects on disk
  holder,       \* the process that has the journal open
  draft,        \* the checkpoint the daemon is making, and the trees it wrote
  stopAsked,    \* the daemon has been sent Shutdown
  pc,           \* where `tl gc` is
  wasUp,        \* daemon_was_running
  unread,       \* pins not yet listed
  live,         \* live_checkpoints
  todo,         \* objects the recursion has still to visit
  marked,       \* live_trees and live_blobs
  unflushed,    \* deletions sled may not have flushed
  returned,     \* history: deleted checkpoints that a crash brought back
  pins,         \* content of the pin files; None if there is none
  pinning,      \* checkpoint a pin command has resolved
  overlapped,   \* history: pins whose command overlapped a collection
  restore,      \* checkpoint a restore has resolved, and whether it failed
  spent         \* how often each bounded event has happened

journalVars == <<index, root, store, holder>>
daemonVars == <<draft, stopAsked>>
scanVars == <<unread, live, todo, marked>>
lostVars == <<unflushed, returned>>
gcVars == <<pc, wasUp, scanVars, lostVars>>
pinVars == <<pins, pinning, overlapped>>
vars == <<journalVars, daemonVars, gcVars, pinVars, restore, spent>>

Id == 1..MaxSeq
Empty == 0              \* a pin file that has been created but not written

Event == {"gc", "kill", "pin", "restore"}
Budget == [gc |-> Collections, kill |-> Kills, pin |-> Pinnings, restore |-> Restores]

Spend(e) == spent[e] < Budget[e] /\ spent' = [spent EXCEPT ![e] = @ + 1]

NoDraft == [for |-> "none", trees |-> {}]
NoRestore == [of |-> None, failed |-> FALSE]

(* latest(): the checkpoint with the largest number.                       *)
IsHead(c) == c \in index /\ \A d \in index : d <= c

(* A mistake: the newest checkpoint counts twice.                          *)
LastNLessOne(n) == {c \in index : Cardinality({d \in index : d > c}) + 1 < n}

(* last_n: fewer than n checkpoints have a larger number.                  *)
LastN(n) == {c \in index : Cardinality({d \in index : d > c}) < n}

(* All that a checkpoint needs is on disk: a set of objects that holds its *)
(* tree and, with a tree, what the tree lists.                             *)
Closed(S) == \A o \in S : Children[o] \subseteq S
Complete(c) == \E S \in SUBSET store : root[c] \in S /\ Closed(S)

-------------------------------------------------------------------------------
RetTypeOK ==
  /\ index \subseteq Id
  /\ root \in [Id -> Tree \cup {None}] /\ \A c \in index : root[c] \in Tree
  /\ store \subseteq Object
  /\ holder \in {"none", "daemon", "gc"}
  /\ draft \in [for : {"none", "loop", "task"}, trees : SUBSET Tree]
  /\ stopAsked \in BOOLEAN /\ wasUp \in BOOLEAN
  /\ pc \in {"idle", "stop", "open", "pins", "mark", "sweep", "restart"}
  /\ pc \in {"pins", "mark", "sweep"} <=> holder = "gc"
  /\ unread \subseteq Name
  /\ live \subseteq Nat
  /\ todo \subseteq Object /\ marked \subseteq Object
  /\ unflushed \subseteq Id /\ returned \subseteq Id
  /\ \A c \in unflushed : root[c] \in Tree
  /\ pins \in [Name -> Id \cup {Empty, None}]
  /\ pinning \in [Name -> Id \cup {None}]
  /\ overlapped \subseteq Name
  /\ restore \in [of : Id \cup {None}, failed : BOOLEAN]
  /\ spent \in [Event -> Nat]

(* `tl init` has made no checkpoint yet, no daemon runs.                   *)
Init ==
  /\ index = {} /\ root = [c \in Id |-> None] /\ store = {}
  /\ holder = "none" /\ draft = NoDraft /\ stopAsked = FALSE
  /\ pc = "idle" /\ wasUp = FALSE
  /\ unread = {} /\ live = {} /\ todo = {} /\ marked = {}
  /\ unflushed = {} /\ returned = {}
  /\ pins = [n \in Name |-> None] /\ pinning = [n \in Name |-> None]
  /\ overlapped = {}
  /\ restore = NoRestore
  /\ spent = [e \in Event |-> 0]

-------------------------------------------------------------------------------
(* The daemon.                                                             *)

StartDaemon ==
  /\ holder = "none"
  /\ holder' = "daemon"
  /\ stopAsked' = FALSE
  /\ UNCHANGED <<index, root, store, draft, gcVars, pinVars, restore, spent>>

(* The loop looks at the GC lock before a checkpoint, except for the last  *)
(* one, in shutdown().  IPC tasks (ImportRemoteCommit) do not look.        *)
BeginCheckpoint ==
  /\ holder = "daemon" /\ draft.for = "none"
  /\ \/ (pc = "idle" \/ stopAsked) /\ draft' = [for |-> "loop", trees |-> {}]
     \/ draft' = [for |-> "task", trees |-> {}]
  /\ UNCHANGED <<journalVars, stopAsked, gcVars, pinVars, restore, spent>>

(* write_blob, write_tree: nothing happens if the object is there.  What a *)
(* tree lists is written before it; a blob may have been there already, as *)
(* that of a file that did not change.                                     *)
WriteObject(o) ==
  /\ draft.for # "none"
  /\ Children[o] \subseteq draft.trees \cup (store \ Tree)
  /\ store' = store \cup {o}
  /\ draft' = [draft EXCEPT !.trees = @ \cup ({o} \cap Tree)]
  /\ UNCHANGED <<index, root, holder, stopAsked, gcVars, pinVars, restore,
                 spent>>

(* append(): the number after that of HEAD.                                *)
Append(t) ==
  \E n \in Id :
    /\ \A c \in index : c < n
    /\ n = 1 \/ n - 1 \in index
    /\ index' = index \cup {n}
    /\ root' = [root EXCEPT ![n] = t]

AppendCheckpoint ==
  /\ \E t \in draft.trees : Append(t)
  /\ draft' = NoDraft
  /\ UNCHANGED <<store, holder, stopAsked, gcVars, pinVars, restore, spent>>

(* ForceCheckpoint: the tree of HEAD again.                                *)
ForceCheckpoint ==
  /\ holder = "daemon"
  /\ \E c \in index : IsHead(c) /\ Append(root[c])
  /\ UNCHANGED <<store, holder, daemonVars, gcVars, pinVars, restore, spent>>

(* The process ends, and with it a task that was still under way.          *)
StopDaemon ==
  /\ holder = "daemon" /\ stopAsked /\ draft.for # "loop"
  /\ holder' = "none" /\ draft' = NoDraft /\ stopAsked' = FALSE
  /\ UNCHANGED <<index, root, store, gcVars, pinVars, restore, spent>>

KillDaemon ==
  /\ Spend("kill")
  /\ holder = "daemon"
  /\ holder' = "none" /\ draft' = NoDraft /\ stopAsked' = FALSE
  /\ UNCHANGED <<index, root, store, gcVars, pinVars, restore>>

-------------------------------------------------------------------------------
(* `tl gc`.                                                                *)

(* The command ends, at its end or with an error.                          *)
GcEnds ==
  /\ pc' = "idle" /\ wasUp' = FALSE
  /\ unread' = {} /\ live' = {} /\ todo' = {} /\ marked' = {}

(* GcLock::acquire.                                                        *)
StartGc ==
  /\ pc = "idle" /\ Spend("gc")
  /\ pc' = "stop"
  /\ UNCHANGED <<journalVars, daemonVars, wasUp, scanVars, lostVars, pinVars,
                 restore>>

(* Shutdown is sent; half a second later the journal is opened..           *)
AskStop ==
  /\ pc = "stop"
  /\ pc' = "open"
  /\ wasUp' = (holder = "daemon")
  /\ stopAsked' = (holder = "daemon")
  /\ UNCHANGED <<journalVars, draft, scanVars, lostVars, pinVars, restore,
                 spent>>

(* .. which fails if the daemon has not ended by then.                     *)
OpenJournal ==
  /\ pc = "open" /\ holder = "none"
  /\ holder' = "gc"
  /\ pc' = "pins" /\ live' = {}
  /\ unread' = IF RetainPins THEN Name ELSE {}
  /\ UNCHANGED <<index, root, store, daemonVars, wasUp, todo, marked,
                 lostVars, pinVars, restore, spent>>

OpenFails ==
  /\ pc = "open" /\ holder = "daemon"
  /\ GcEnds
  /\ UNCHANGED <<journalVars, daemonVars, lostVars, pinVars, restore, spent>>

(* A mistake: a pin in a subdirectory is not found.                        *)
PinOverlooked(n) ==
  /\ pc = "pins" /\ n \in unread
  /\ unread' = unread \ {n}
  /\ overlapped' = IF pinning[n] # None THEN overlapped \cup {n} ELSE overlapped
  /\ UNCHANGED <<journalVars, daemonVars, pc, wasUp, live, todo, marked, lostVars,
                 pins, pinning, restore, spent>>

(* get_pinned_checkpoints reads one file after the other, and skips those  *)
(* that hold no checkpoint id.                                             *)
ReadPin(n) ==
  /\ pc = "pins" /\ n \in unread
  /\ unread' = unread \ {n}
  /\ live' = live \cup ({pins[n]} \cap Id)
  /\ overlapped' = IF pinning[n] # None THEN overlapped \cup {n} ELSE overlapped
  /\ UNCHANGED <<journalVars, daemonVars, pc, wasUp, todo, marked, lostVars,
                 pins, pinning, restore, spent>>

(* The last N checkpoints, and those of the time window: all from some     *)
(* number on, since ids are made in the order of their numbers.            *)
MarkCheckpoints ==
  /\ pc = "pins" /\ unread = {}
  /\ \E first \in 1..(MaxSeq + 1) :
       live' = live \cup LastN(RetainCount) \cup {c \in index : c >= first}
  /\ todo' = {root[c] : c \in live' \cap index}
  /\ marked' = {}
  /\ pc' = "mark"
  /\ UNCHANGED <<journalVars, daemonVars, wasUp, unread, lostVars, pinVars,
                 restore, spent>>

(* A mistake: what a tree lists is marked, but not visited.                *)
MarkFlat(o) ==
  /\ pc = "mark" /\ o \in todo
  /\ o \in Tree => o \in store
  /\ marked' = marked \cup ((Children[o] \ Tree) \cup ({o} \cap store))
  /\ todo' = todo \ {o}
  /\ UNCHANGED <<journalVars, daemonVars, pc, wasUp, unread, live, lostVars,
                 pinVars, restore, spent>>

(* mark_tree_recursive.  A blob that is not there is passed over.          *)
Mark(o) ==
  /\ pc = "mark" /\ o \in todo
  /\ o \in Tree => o \in store
  /\ marked' = marked \cup ({o} \cap store)
  /\ todo' = (todo \ {o}) \cup (Children[o] \ marked')
  /\ UNCHANGED <<journalVars, daemonVars, pc, wasUp, unread, live, lostVars,
                 pinVars, restore, spent>>

(* A tree that is not there ends the command; the daemon stays down.       *)
MarkFails(o) ==
  /\ pc = "mark" /\ o \in todo \cap Tree /\ o \notin store
  /\ GcEnds /\ holder' = "none"
  /\ UNCHANGED <<index, root, store, daemonVars, lostVars, pinVars, restore,
                 spent>>

MarkDone ==
  /\ pc = "mark" /\ todo = {}
  /\ pc' = "sweep"
  /\ UNCHANGED <<journalVars, daemonVars, wasUp, scanVars, lostVars, pinVars,
                 restore, spent>>

(* First the checkpoints, one by one..                                     *)
DropCheckpoint(c) ==
  /\ pc = "sweep" /\ c \in index \ live
  /\ index' = index \ {c}
  /\ unflushed' = unflushed \cup {c}
  /\ UNCHANGED <<root, store, holder, daemonVars, pc, wasUp, scanVars,
                 returned, pinVars, restore, spent>>

(* A mistake: trees are swept before the checkpoints.                      *)
SweepEarly(o) ==
  /\ pc = "sweep" /\ o \in (store \cap Tree) \ marked
  /\ store' = store \ {o}
  /\ UNCHANGED <<index, root, holder, daemonVars, gcVars, pinVars, restore,
                 spent>>

(* .. then the trees.  Blobs are looked for in objects/blobs, where there  *)
(* are none: BlobStore keeps them in objects/xx.                           *)
SweepTree(o) ==
  /\ pc = "sweep" /\ index \subseteq live
  /\ o \in (store \cap Tree) \ marked
  /\ store' = store \ {o}
  /\ UNCHANGED <<index, root, holder, daemonVars, gcVars, pinVars, restore,
                 spent>>

(* A mistake: the journal stays open while the daemon is restarted.        *)
SweepHoldsJournal ==
  /\ pc = "sweep" /\ index \subseteq live /\ store \cap Tree \subseteq marked
  /\ pc' = "restart"
  /\ UNCHANGED <<journalVars, daemonVars, wasUp, scanVars, lostVars, pinVars, restore,
                 spent>>

(* A mistake: the sweep ends with the checkpoints.                         *)
SweepSkipsTrees ==
  /\ pc = "sweep" /\ index \subseteq live
  /\ holder' = "none"
  /\ unflushed' = {}
  /\ pc' = "restart"
  /\ UNCHANGED <<index, root, store, daemonVars, wasUp, scanVars, returned,
                 pinVars, restore, spent>>

(* drop(journal) flushes and releases it.                                  *)
SweepDone ==
  /\ pc = "sweep" /\ index \subseteq live /\ store \cap Tree \subseteq marked
  /\ holder' = "none"
  /\ unflushed' = {}
  /\ pc' = "restart"
  /\ UNCHANGED <<index, root, store, daemonVars, wasUp, scanVars, returned,
                 pinVars, restore, spent>>

RestartDaemon ==
  /\ pc = "restart"
  /\ GcEnds
  /\ holder' = IF wasUp /\ holder = "none" THEN "daemon" ELSE holder
  /\ stopAsked' = (stopAsked /\ holder = "daemon")
  /\ UNCHANGED <<index, root, store, draft, lostVars, pinVars, restore, spent>>

(* `tl gc` is killed, or everything stops.                                 *)
KillGc ==
  /\ Spend("kill")
  /\ pc # "idle"
  /\ GcEnds
  /\ holder' = IF holder = "gc" THEN "none" ELSE holder
  /\ \E back \in SUBSET unflushed :
       index' = index \cup back /\ returned' = returned \cup back
  /\ unflushed' = {}
  /\ UNCHANGED <<root, store, daemonVars, pinVars, restore>>

-------------------------------------------------------------------------------
(* Commands that pin: `tl pin`, `tl stash push`.                           *)

(* The daemon has found the checkpoint, or has just made it.               *)
PinResolves(n, c) ==
  /\ Spend("pin")
  /\ holder = "daemon" /\ c \in index
  /\ pinning[n] = None
  /\ pinning' = [pinning EXCEPT ![n] = c]
  /\ UNCHANGED <<journalVars, daemonVars, gcVars, pins, overlapped, restore>>

(* File::create leaves the file empty..                                    *)
PinCreates(n) ==
  /\ pinning[n] # None /\ pins[n] # Empty
  /\ pins' = [pins EXCEPT ![n] = Empty]
  /\ UNCHANGED <<journalVars, daemonVars, gcVars, pinning, overlapped,
                 restore, spent>>

(* .. until write_all.                                                     *)
PinWrites(n) ==
  /\ pinning[n] # None /\ pins[n] = Empty
  /\ pins' = [pins EXCEPT ![n] = pinning[n]]
  /\ pinning' = [pinning EXCEPT ![n] = None]
  /\ UNCHANGED <<journalVars, daemonVars, gcVars, overlapped, restore, spent>>

Unpin(n) ==
  /\ pins[n] \in Id /\ pinning[n] = None
  /\ pins' = [pins EXCEPT ![n] = None]
  /\ overlapped' = overlapped \ {n}
  /\ UNCHANGED <<journalVars, daemonVars, gcVars, pinning, restore, spent>>

-------------------------------------------------------------------------------
(* Restores.  The files come from blobs, which no collection deletes: only *)
(* reading the tree can fail.                                              *)

RestoreResolves(c) ==
  /\ Spend("restore")
  /\ restore.of = None
  /\ holder = "daemon" /\ c \in index
  /\ restore' = [of |-> c, failed |-> FALSE]
  /\ UNCHANGED <<journalVars, daemonVars, gcVars, pinVars>>

RestoreReadsTree ==
  /\ restore.of # None /\ ~restore.failed
  /\ restore' = IF root[restore.of] \in store THEN NoRestore ELSE [restore EXCEPT !.failed = TRUE]
  /\ UNCHANGED <<journalVars, daemonVars, gcVars, pinVars, spent>>

-------------------------------------------------------------------------------
Daemon ==
  \/ StartDaemon \/ BeginCheckpoint \/ AppendCheckpoint \/ ForceCheckpoint
  \/ StopDaemon \/ KillDaemon
  \/ \E o \in Object : WriteObject(o)

Gc ==
  \/ StartGc \/ AskStop \/ OpenJournal \/ OpenFails \/ MarkCheckpoints \/ MarkDone
  \/ SweepDone \/ RestartDaemon \/ KillGc
  \/ \E n \in Name : ReadPin(n)
  \/ \E o \in Object : Mark(o) \/ MarkFails(o) \/ SweepTree(o)
  \/ \E c \in Id : DropCheckpoint(c)

Commands ==
  \/ \E n \in Name : PinCreates(n) \/ PinWrites(n) \/ Unpin(n)
  \/ \E c \in Id : RestoreResolves(c) \/ \E n \in Name : PinResolves(n, c)
  \/ RestoreReadsTree

Next == Daemon \/ Gc \/ Commands

Spec == Init /\ [][Next]_vars

-------------------------------------------------------------------------------
(* Every checkpoint of the journal can be restored: its tree and all that  *)
(* the tree lists is on disk, also in the middle of a collection, and      *)
(* whatever it shares with checkpoints that are collected.  The exception  *)
(* are deleted checkpoints that a crash brought back: their trees may have *)
(* been deleted before sled flushed the deletion.                          *)
NoDangling == \A c \in index \ returned : Complete(c)

(* A pinned checkpoint is never collected, unless the command that pins it *)
(* was under way when the collection read the pin.                         *)
PinsKept == \A n \in Name : pins[n] \in Id /\ n \notin overlapped => pins[n] \in index

(* A collection never takes the newest checkpoint, from which the daemon   *)
(* goes on and after which the next number is chosen.                      *)
HeadKept == [][\A c \in index : IsHead(c) => c \in index']_vars

(* A collection that comes to its end has left no tree that no checkpoint  *)
(* needs, those of failed checkpoints and earlier, killed collections      *)
(* included.                                                               *)
Needed == {o \in Object :
  \E c \in index : \A S \in SUBSET Object : root[c] \in S /\ Closed(S) => o \in S}

TreesCollected ==
  [][pc = "sweep" /\ pc' = "restart" => store \cap Tree \subseteq Needed]_vars

(* sweep_dead_objects says the same of the blobs.                          *)
BlobsCollected ==
  [][pc = "sweep" /\ pc' = "restart" => store \subseteq Needed]_vars

(* A restore fails for want of its tree only if its checkpoint has been    *)
(* collected since it was resolved.                                        *)
RestoreFailsOnlyIfDropped == restore.failed => restore.of \notin index \ returned

(* ... with no exception for crashes.                                      *)
NothingDangling == \A c \in index : Complete(c)

(* "Always retain pinned checkpoints", with no exception.                  *)
AllPinsKept == \A n \in Name : pins[n] \in Id => pins[n] \in index
===============================================================================
