---------------------------- MODULE RetentionProofs ----------------------------
(***************************************************************************)
(* Proofs about Retention.tla, for any objects, pins and bounds.           *)
(***************************************************************************)
EXTENDS Retention, FiniteSetTheorems, TLAPS

-------------------------------------------------------------------------------
(* The inductive invariant, in parts.                                      *)

(* What a checkpoint in the making has written, with what its trees list.  *)
DraftInv ==
  /\ draft.for = "none" => draft.trees = {}
  /\ draft.for # "none" => holder = "daemon"
  /\ draft.trees \subseteq store
  /\ \A t \in draft.trees : Children[t] \subseteq draft.trees \cup (store \ Tree)

(* The newest checkpoint has never been deleted, and all that have been, or*)
(* that a restore has resolved, are not newer.                             *)
Newest(h) ==
  /\ IsHead(h)
  /\ \A c \in unflushed \cup returned : c < h
  /\ restore.of # None => restore.of <= h

HeadInv ==
  index # {} \/ unflushed # {} \/ returned # {} \/ restore.of # None => \E h \in Id : Newest(h)

Marking == pc \in {"mark", "sweep"}

LiveInv == Marking => \A h \in Id : IsHead(h) => h \in live

(* Marking goes on from todo, and has visited what is marked.              *)
MarkInv ==
  Marking =>
    /\ marked \subseteq store
    /\ \A c \in live \cap index : root[c] \in marked \cup todo
    /\ \A o \in marked : Children[o] \cap store \subseteq marked \cup todo
    /\ pc = "sweep" => todo = {}

GcInv ==
  /\ RetTypeOK /\ DraftInv /\ HeadInv /\ LiveInv /\ MarkInv
  /\ NoDangling /\ RestoreFailsOnlyIfDropped

(* Marking visits no more than a live checkpoint needs.                    *)
NeededBy(c) ==
  {o \in Object : \A S \in SUBSET Object : root[c] \in S /\ Closed(S) => o \in S}

ReachInv == Marking => \A o \in marked \cup todo : \E c \in live \cap index : o \in NeededBy(c)

(* A pin that has been read is live; of one that is written meanwhile this *)
(* is known.                                                               *)
PinSafe(n) ==
  /\ pins[n] \in Id /\ n \notin overlapped => pins[n] \in index
  /\ pinning[n] # None /\ n \notin overlapped => pinning[n] \in index
  /\ holder = "gc" /\ n \notin unread =>
       /\ pins[n] \in Id /\ n \notin overlapped => pins[n] \in live
       /\ pinning[n] # None => n \in overlapped
  /\ Marking => unread = {}

PinInv == \A n \in Name : PinSafe(n)

-------------------------------------------------------------------------------
(* The types.                                                              *)

LEMMA SpendTypes ==
  ASSUME RetTypeOK, NEW e \in Event, Spend(e)
  PROVE  spent' \in [Event -> Nat]
BY DEF RetTypeOK, Spend

LEMMA AppendTypes ==
  ASSUME RetTypeOK, NEW t \in Tree, Append(t)
  PROVE  /\ index' \subseteq Id
         /\ root' \in [Id -> Tree \cup {None}]
         /\ \A c \in index' \cup unflushed : root'[c] \in Tree
BY DEF RetTypeOK, Append

LEMMA InitTypes == Init => RetTypeOK
<1> SUFFICES ASSUME Init PROVE RetTypeOK
  OBVIOUS
<1>1. root \in [Id -> Tree \cup {None}]
  BY DEF Init
<1>2. spent \in [Event -> Nat]
  BY DEF Init
<1>3. draft \in [for : {"none", "loop", "task"}, trees : SUBSET Tree]
  BY DEF Init, NoDraft
<1>4. restore \in [of : Id \cup {None}, failed : BOOLEAN]
  BY DEF Init, NoRestore
<1>5. pins \in [Name -> Id \cup {Empty, None}] /\ pinning \in [Name -> Id \cup {None}]
  BY DEF Init
<1> QED
  BY <1>1, <1>2, <1>3, <1>4, <1>5 DEF Init, RetTypeOK

LEMMA StepTypes == RetTypeOK /\ [Next]_vars => RetTypeOK'
<1> SUFFICES ASSUME RetTypeOK, [Next]_vars PROVE RetTypeOK'
  OBVIOUS
<1> USE DEF vars, journalVars, daemonVars, scanVars, lostVars, gcVars, pinVars
<1>1. CASE UNCHANGED vars
  BY <1>1 DEF RetTypeOK
<1>2. CASE StartDaemon
  BY <1>2 DEF RetTypeOK, StartDaemon
<1>3. CASE BeginCheckpoint
  BY <1>3 DEF RetTypeOK, BeginCheckpoint
<1>4. CASE AppendCheckpoint
  <2>1. PICK t \in draft.trees : Append(t)
    BY <1>4 DEF AppendCheckpoint
  <2>2. t \in Tree
    BY <2>1 DEF RetTypeOK
  <2> QED
    BY <1>4, <2>1, <2>2, AppendTypes DEF RetTypeOK, AppendCheckpoint, NoDraft
<1>5. CASE ForceCheckpoint
  <2>1. PICK c \in index : Append(root[c])
    BY <1>5 DEF ForceCheckpoint
  <2>2. root[c] \in Tree
    BY <2>1 DEF RetTypeOK
  <2> QED
    BY <1>5, <2>1, <2>2, AppendTypes DEF RetTypeOK, ForceCheckpoint
<1>6. CASE StopDaemon
  BY <1>6 DEF RetTypeOK, StopDaemon, NoDraft
<1>7. CASE KillDaemon
  BY <1>7, SpendTypes DEF RetTypeOK, KillDaemon, NoDraft, Event
<1>8. ASSUME NEW o \in Object, WriteObject(o) PROVE RetTypeOK'
  BY <1>8 DEF RetTypeOK, WriteObject
<1>9. CASE StartGc
  BY <1>9, SpendTypes DEF RetTypeOK, StartGc, Event
<1>10. CASE AskStop
  BY <1>10 DEF RetTypeOK, AskStop
<1>11. CASE OpenJournal
  BY <1>11 DEF RetTypeOK, OpenJournal
<1>12. CASE OpenFails
  BY <1>12 DEF RetTypeOK, OpenFails, GcEnds
<1>13. ASSUME NEW n \in Name, ReadPin(n) PROVE RetTypeOK'
  <2>1. live' \subseteq Nat
    <3>1. Id \subseteq Nat
      BY DEF Id
    <3> QED
      BY <1>13, <3>1 DEF RetTypeOK, ReadPin
  <2> QED
    BY <1>13, <2>1 DEF RetTypeOK, ReadPin
<1>14. CASE MarkCheckpoints
  <2>1. live' \subseteq Nat
    <3>1. PICK first \in 1..(MaxSeq + 1) :
            live' = live \cup LastN(RetainCount) \cup {c \in index : c >= first}
      BY <1>14 DEF MarkCheckpoints
    <3>2. index \subseteq Nat
      BY DEF RetTypeOK, Id
    <3>3. LastN(RetainCount) \subseteq index
      BY DEF LastN
    <3> QED
      BY <3>1, <3>2, <3>3 DEF RetTypeOK
  <2>2. todo' \subseteq Object
    BY <1>14, RetentionAssumption DEF MarkCheckpoints, RetTypeOK
  <2> QED
    BY <1>14, <2>1, <2>2 DEF MarkCheckpoints, RetTypeOK
<1>15. ASSUME NEW o \in Object, Mark(o) PROVE RetTypeOK'
  <2>1. Children[o] \subseteq Object
    BY RetentionAssumption
  <2> QED
    BY <1>15, <2>1 DEF RetTypeOK, Mark
<1>16. ASSUME NEW o \in Object, MarkFails(o) PROVE RetTypeOK'
  BY <1>16 DEF RetTypeOK, MarkFails, GcEnds
<1>17. CASE MarkDone
  BY <1>17 DEF RetTypeOK, MarkDone
<1>18. ASSUME NEW c \in Id, DropCheckpoint(c) PROVE RetTypeOK'
  BY <1>18 DEF RetTypeOK, DropCheckpoint
<1>19. ASSUME NEW o \in Object, SweepTree(o) PROVE RetTypeOK'
  BY <1>19 DEF RetTypeOK, SweepTree
<1>20. CASE SweepDone
  BY <1>20 DEF RetTypeOK, SweepDone
<1>21. CASE RestartDaemon
  BY <1>21 DEF RetTypeOK, RestartDaemon, GcEnds
<1>22. CASE KillGc
  <2>1. PICK back \in SUBSET unflushed : index' = index \cup back /\ returned' = returned \cup back
    BY <1>22 DEF KillGc
  <2>2. spent' \in [Event -> Nat]
    BY <1>22, SpendTypes DEF KillGc, Event
  <2>3. index' \subseteq Id /\ returned' \subseteq Id /\ \A c \in index' : root[c] \in Tree
    BY <2>1 DEF RetTypeOK
  <2> QED
    BY <1>22, <2>2, <2>3 DEF RetTypeOK, KillGc, GcEnds
<1>23. ASSUME NEW n \in Name, NEW c \in Id, PinResolves(n, c) PROVE RetTypeOK'
  BY <1>23, SpendTypes DEF RetTypeOK, PinResolves, Event
<1>24. ASSUME NEW n \in Name, PinCreates(n) PROVE RetTypeOK'
  BY <1>24 DEF RetTypeOK, PinCreates
<1>25. ASSUME NEW n \in Name, PinWrites(n) PROVE RetTypeOK'
  BY <1>25 DEF RetTypeOK, PinWrites
<1>26. ASSUME NEW n \in Name, Unpin(n) PROVE RetTypeOK'
  BY <1>26 DEF RetTypeOK, Unpin
<1>27. ASSUME NEW c \in Id, RestoreResolves(c) PROVE RetTypeOK'
  BY <1>27, SpendTypes DEF RetTypeOK, RestoreResolves, Event
<1>28. CASE RestoreReadsTree
  BY <1>28 DEF RetTypeOK, RestoreReadsTree, NoRestore
<1> QED
  BY <1>1, <1>2, <1>3, <1>4, <1>5, <1>6, <1>7, <1>8, <1>9, <1>10, <1>11, <1>12,
     <1>13, <1>14, <1>15, <1>16, <1>17, <1>18, <1>19, <1>20, <1>21, <1>22, <1>23,
     <1>24, <1>25, <1>26, <1>27, <1>28
  DEF Next, Daemon, Gc, Commands

(* Every variable keeps its type; while a collection marks and sweeps, the *)
(* journal is its own.                                                     *)
THEOREM RetTypeCorrect == Spec => []RetTypeOK
BY InitTypes, StepTypes, PTL DEF Spec

-------------------------------------------------------------------------------
(* Which steps matter.                                                     *)

LEMMA HistorySteps ==
  [Next]_vars =>
    \/ UNCHANGED <<index, unflushed, returned, restore>>
    \/ AppendCheckpoint \/ ForceCheckpoint \/ SweepDone \/ KillGc \/ RestoreReadsTree
    \/ \E c \in Id : DropCheckpoint(c) \/ RestoreResolves(c)
BY DEF Next, Daemon, Gc, Commands, vars, journalVars, daemonVars, scanVars, lostVars, gcVars,
  pinVars, StartDaemon, BeginCheckpoint, StopDaemon, KillDaemon, WriteObject, StartGc, AskStop,
  OpenJournal, OpenFails, ReadPin, MarkCheckpoints, Mark, MarkFails, MarkDone, SweepTree,
  RestartDaemon, PinResolves, PinCreates, PinWrites, Unpin

LEMMA StoreSteps ==
  [Next]_vars =>
    \/ UNCHANGED <<index, root, store, returned>>
    \/ AppendCheckpoint \/ ForceCheckpoint \/ KillGc
    \/ \E o \in Object : WriteObject(o) \/ SweepTree(o)
    \/ \E c \in Id : DropCheckpoint(c)
BY DEF Next, Daemon, Gc, Commands, vars, journalVars, daemonVars, scanVars, lostVars, gcVars,
  pinVars, StartDaemon, BeginCheckpoint, StopDaemon, KillDaemon, StartGc, AskStop,
  OpenJournal, OpenFails, ReadPin, MarkCheckpoints, Mark, MarkFails, MarkDone, SweepDone,
  RestartDaemon, PinResolves, PinCreates, PinWrites, Unpin, RestoreResolves, RestoreReadsTree

(* While a collection has the journal, no checkpoint is being made.        *)
LEMMA DaemonIsOut ==
  ASSUME DraftInv, holder = "gc"
  PROVE  /\ ~AppendCheckpoint /\ ~ForceCheckpoint
         /\ \A o \in Object : ~WriteObject(o)
BY DEF DraftInv, AppendCheckpoint, ForceCheckpoint, WriteObject

LEMMA MarkingSteps ==
  ASSUME RetTypeOK, DraftInv, [Next]_vars, Marking'
  PROVE  \/ Marking /\ UNCHANGED <<index, root, store, pc, live, todo, marked>>
         \/ MarkCheckpoints \/ MarkDone
         \/ \E o \in Object : Mark(o) \/ SweepTree(o)
         \/ \E c \in Id : DropCheckpoint(c)
<1>1. Marking => holder = "gc"
  BY DEF RetTypeOK, Marking
<1>2. CASE AppendCheckpoint \/ ForceCheckpoint \/ \E o \in Object : WriteObject(o)
  <2>1. ~Marking
    BY <1>1, <1>2, DaemonIsOut
  <2>2. pc' = pc
    BY <1>2 DEF AppendCheckpoint, ForceCheckpoint, WriteObject, gcVars
  <2> QED
    BY <2>1, <2>2 DEF Marking
<1>3. CASE ~(AppendCheckpoint \/ ForceCheckpoint \/ \E o \in Object : WriteObject(o))
  BY <1>3 DEF Marking, Next, Daemon, Gc, Commands, vars, journalVars, daemonVars, scanVars,
    lostVars, gcVars, pinVars, StartDaemon, BeginCheckpoint, StopDaemon, KillDaemon, StartGc,
    AskStop, OpenJournal, OpenFails, GcEnds, ReadPin, MarkFails, SweepDone, RestartDaemon,
    KillGc, PinResolves, PinCreates, PinWrites, Unpin, RestoreResolves, RestoreReadsTree
<1> QED
  BY <1>2, <1>3

-------------------------------------------------------------------------------
(* The newest checkpoint.                                                  *)

LEMMA AppendMakesHead ==
  ASSUME RetTypeOK, HeadInv, NEW t \in Tree, Append(t),
         UNCHANGED <<unflushed, returned, restore>>
  PROVE  HeadInv'
<1>1. PICK n \in Id : (\A c \in index : c < n) /\ index' = index \cup {n}
  BY DEF Append
<1>2. index \subseteq Nat /\ n \in Nat /\ unflushed \cup returned \subseteq Nat
  BY <1>1 DEF RetTypeOK, Id
<1>3. restore.of # None => restore.of \in Nat
  BY DEF RetTypeOK, Id
<1>4. IsHead(n)'
  BY <1>1, <1>2 DEF IsHead
<1>5. ASSUME NEW c \in unflushed \cup returned PROVE c < n
  <2>1. PICK h \in Id : IsHead(h) /\ c < h
    BY <1>5 DEF HeadInv, Newest
  <2>2. h < n /\ h \in Nat
    BY <1>1, <2>1 DEF IsHead, Id
  <2> QED
    BY <1>2, <2>1, <2>2
<1>6. ASSUME restore.of # None PROVE restore.of <= n
  <2>1. PICK h \in Id : IsHead(h) /\ restore.of <= h
    BY <1>6 DEF HeadInv, Newest
  <2>2. h < n /\ h \in Nat
    BY <1>1, <2>1 DEF IsHead, Id
  <2> QED
    BY <1>2, <1>3, <1>6, <2>1, <2>2
<1>7. Newest(n)'
  BY <1>4, <1>5, <1>6 DEF Newest
<1> QED
  BY <1>7 DEF HeadInv

LEMMA HeadStep ==
  ASSUME RetTypeOK, DraftInv, HeadInv, LiveInv, [Next]_vars
  PROVE  HeadInv'
<1> USE DEF journalVars, daemonVars, scanVars, lostVars, gcVars, pinVars
<1>1. CASE UNCHANGED <<index, unflushed, returned, restore>>
  BY <1>1 DEF HeadInv, Newest, IsHead
<1>2. CASE AppendCheckpoint
  <2>1. PICK t \in draft.trees : Append(t)
    BY <1>2 DEF AppendCheckpoint
  <2>2. t \in Tree
    BY <2>1 DEF RetTypeOK
  <2> QED
    BY <1>2, <2>1, <2>2, AppendMakesHead DEF AppendCheckpoint
<1>3. CASE ForceCheckpoint
  <2>1. PICK c \in index : Append(root[c])
    BY <1>3 DEF ForceCheckpoint
  <2>2. root[c] \in Tree
    BY <2>1 DEF RetTypeOK
  <2> QED
    BY <1>3, <2>1, <2>2, AppendMakesHead DEF ForceCheckpoint
<1>4. CASE SweepDone
  BY <1>4 DEF HeadInv, Newest, IsHead, SweepDone
<1>5. CASE KillGc
  <2>1. PICK back \in SUBSET unflushed : index' = index \cup back /\ returned' = returned \cup back
    BY <1>5 DEF KillGc
  <2>2. unflushed' = {} /\ restore' = restore
    BY <1>5 DEF KillGc
  <2>3. SUFFICES ASSUME index # {} \/ unflushed # {} \/ returned # {} \/ restore.of # None
                 PROVE  \E h \in Id : Newest(h)'
    BY <2>1, <2>2 DEF HeadInv
  <2>4. PICK h \in Id : Newest(h)
    BY <2>3 DEF HeadInv
  <2>5. Newest(h)'
    <3>1. \A c \in back : c \in Nat /\ h \in Nat /\ c < h
      BY <2>4 DEF Newest, RetTypeOK, Id
    <3>2. IsHead(h)'
      BY <2>1, <2>4, <3>1 DEF Newest, IsHead
    <3> QED
      BY <2>1, <2>2, <2>4, <3>2 DEF Newest
  <2> QED
    BY <2>5
<1>6. CASE RestoreReadsTree
  BY <1>6 DEF HeadInv, Newest, IsHead, RestoreReadsTree, NoRestore, RetTypeOK
<1>7. ASSUME NEW c \in Id, DropCheckpoint(c) PROVE HeadInv'
  <2>1. c \in index \ live /\ index' = index \ {c} /\ unflushed' = unflushed \cup {c}
        /\ UNCHANGED <<returned, restore>>
    BY <1>7 DEF DropCheckpoint
  <2>2. PICK h \in Id : Newest(h)
    BY <2>1 DEF HeadInv
  <2>3. h \in live
    BY <1>7, <2>2 DEF LiveInv, Marking, DropCheckpoint, Newest
  <2>4. c < h
    BY <2>1, <2>2, <2>3 DEF Newest, IsHead, Id
  <2>5. Newest(h)'
    BY <2>1, <2>2, <2>3, <2>4 DEF Newest, IsHead
  <2> QED
    BY <2>5 DEF HeadInv
<1>8. ASSUME NEW c \in Id, RestoreResolves(c) PROVE HeadInv'
  <2>1. c \in index /\ restore'.of = c /\ UNCHANGED <<index, unflushed, returned>>
    BY <1>8 DEF RestoreResolves
  <2>2. PICK h \in Id : Newest(h)
    BY <2>1 DEF HeadInv
  <2>3. Newest(h)'
    BY <2>1, <2>2 DEF Newest, IsHead
  <2> QED
    BY <2>3 DEF HeadInv
<1> QED
  BY <1>1, <1>2, <1>3, <1>4, <1>5, <1>6, <1>7, <1>8, HistorySteps

(* A collection keeps it: nothing is newer, and one at least is retained.  *)
LEMMA LiveStep ==
  ASSUME RetTypeOK, DraftInv, HeadInv, LiveInv, [Next]_vars
  PROVE  LiveInv'
<1> SUFFICES ASSUME Marking', NEW h \in Id, IsHead(h)' PROVE h \in live'
  BY DEF LiveInv
<1>1. CASE Marking /\ UNCHANGED <<index, root, store, pc, live, todo, marked>>
  BY <1>1 DEF LiveInv, IsHead
<1>2. CASE MarkCheckpoints
  <2>1. index' = index /\ LastN(RetainCount) \subseteq live'
    BY <1>2 DEF MarkCheckpoints, journalVars
  <2>2. index \subseteq Nat /\ h \in index /\ \A d \in index : d <= h
    BY <2>1 DEF IsHead, RetTypeOK, Id
  <2>3. {d \in index : d > h} = {}
    <3>1. \A d \in index : d \in Nat /\ h \in Nat /\ ~(d > h)
      BY <2>2
    <3> QED
      BY <3>1
  <2>4. Cardinality({d \in index : d > h}) < RetainCount
    BY <2>3, FS_EmptySet, RetentionAssumption
  <2>5. h \in LastN(RetainCount)
    BY <2>2, <2>4 DEF LastN
  <2> QED
    BY <2>1, <2>5
<1>3. CASE MarkDone
  BY <1>3 DEF MarkDone, LiveInv, Marking, IsHead, journalVars, scanVars
<1>4. ASSUME NEW o \in Object, Mark(o) \/ SweepTree(o) PROVE h \in live'
  BY <1>4 DEF Mark, SweepTree, LiveInv, Marking, IsHead, journalVars, gcVars, scanVars
<1>5. ASSUME NEW c \in Id, DropCheckpoint(c) PROVE h \in live'
  <2>1. Marking /\ c \in index \ live /\ index' = index \ {c} /\ live' = live
    BY <1>5 DEF DropCheckpoint, Marking, scanVars
  <2>2. PICK g \in Id : IsHead(g)
    BY <2>1 DEF HeadInv, Newest
  <2>3. g \in live
    BY <2>1, <2>2 DEF LiveInv
  <2>4. g \in index' /\ h \in index
    BY <2>1, <2>2, <2>3 DEF IsHead
  <2>5. g <= h /\ h <= g /\ g \in Nat /\ h \in Nat
    BY <2>2, <2>4 DEF IsHead, Id
  <2> QED
    BY <2>1, <2>3, <2>5
<1> QED
  BY <1>1, <1>2, <1>3, <1>4, <1>5, MarkingSteps

-------------------------------------------------------------------------------
(* What checkpoints need.                                                  *)

LEMMA DraftStep ==
  ASSUME RetTypeOK, DraftInv, [Next]_vars
  PROVE  DraftInv'
<1> USE DEF DraftInv, journalVars, daemonVars, scanVars, lostVars, gcVars, pinVars
<1>1. CASE UNCHANGED <<draft, holder, store>>
  BY <1>1
<1>2. CASE StartDaemon
  BY <1>2 DEF StartDaemon
<1>3. CASE BeginCheckpoint
  BY <1>3 DEF BeginCheckpoint
<1>4. CASE AppendCheckpoint \/ StopDaemon \/ KillDaemon
  BY <1>4 DEF AppendCheckpoint, StopDaemon, KillDaemon, NoDraft
<1>5. ASSUME NEW o \in Object, WriteObject(o) PROVE DraftInv'
  <2>1. /\ draft.for # "none" /\ draft'.for = draft.for /\ holder' = holder
        /\ Children[o] \subseteq draft.trees \cup (store \ Tree)
        /\ store' = store \cup {o}
        /\ draft'.trees = draft.trees \cup ({o} \cap Tree)
    BY <1>5 DEF WriteObject, RetTypeOK
  <2>2. draft'.trees \subseteq store'
    BY <2>1
  <2>3. ASSUME NEW t \in draft'.trees PROVE Children[t] \subseteq draft'.trees \cup (store' \ Tree)
    BY <2>1
  <2> QED
    BY <2>1, <2>2, <2>3
<1>6. CASE OpenJournal
  BY <1>6 DEF OpenJournal
<1>7. ASSUME NEW o \in Object, MarkFails(o) PROVE DraftInv'
  BY <1>7 DEF MarkFails, RetTypeOK
<1>8. ASSUME NEW o \in Object, SweepTree(o) PROVE DraftInv'
  <2>1. draft.trees = {}
    BY <1>8 DEF SweepTree, RetTypeOK
  <2> QED
    BY <1>8, <2>1 DEF SweepTree
<1>9. CASE SweepDone
  BY <1>9 DEF SweepDone, RetTypeOK
<1>10. CASE RestartDaemon
  BY <1>10 DEF RestartDaemon, RetTypeOK
<1>11. CASE KillGc
  BY <1>11 DEF KillGc, RetTypeOK
<1>12. \/ UNCHANGED <<draft, holder, store>>
       \/ StartDaemon \/ BeginCheckpoint \/ AppendCheckpoint \/ StopDaemon \/ KillDaemon
       \/ OpenJournal \/ SweepDone \/ RestartDaemon \/ KillGc
       \/ \E o \in Object : WriteObject(o) \/ MarkFails(o) \/ SweepTree(o)
  BY DEF Next, Daemon, Gc, Commands, vars, ForceCheckpoint, StartGc, AskStop, OpenFails, ReadPin,
    MarkCheckpoints, Mark, MarkDone, DropCheckpoint, PinResolves, PinCreates, PinWrites, Unpin,
    RestoreResolves, RestoreReadsTree
<1> QED
  BY <1>1, <1>2, <1>3, <1>4, <1>5, <1>6, <1>7, <1>8, <1>9, <1>10, <1>11, <1>12

LEMMA MarkStep ==
  ASSUME RetTypeOK, DraftInv, MarkInv, [Next]_vars
  PROVE  MarkInv'
<1> SUFFICES ASSUME Marking'
             PROVE  /\ marked' \subseteq store'
                    /\ \A c \in live' \cap index' : root'[c] \in marked' \cup todo'
                    /\ \A o \in marked' : Children[o] \cap store' \subseteq marked' \cup todo'
                    /\ pc' = "sweep" => todo' = {}
  BY DEF MarkInv
<1> USE DEF journalVars, daemonVars, scanVars, lostVars, gcVars, pinVars
<1>1. CASE Marking /\ UNCHANGED <<index, root, store, pc, live, todo, marked>>
  BY <1>1 DEF MarkInv
<1>2. CASE MarkCheckpoints
  BY <1>2 DEF MarkCheckpoints
<1>3. CASE MarkDone
  BY <1>3 DEF MarkDone, MarkInv, Marking
<1>4. ASSUME NEW o \in Object, Mark(o) PROVE MarkInv'
  <2>1. /\ pc = "mark" /\ pc' = "mark" /\ UNCHANGED <<index, root, store, live>>
        /\ o \in todo /\ (o \in Tree => o \in store)
        /\ marked' = marked \cup ({o} \cap store)
        /\ todo' = (todo \ {o}) \cup (Children[o] \ marked')
    BY <1>4 DEF Mark
  <2>2. marked' \subseteq store'
    BY <2>1 DEF MarkInv, Marking
  <2>3. ASSUME NEW c \in live \cap index PROVE root[c] \in marked' \cup todo'
    <3>1. root[c] \in marked \cup todo /\ root[c] \in Tree
      BY <2>1 DEF MarkInv, Marking, RetTypeOK
    <3> QED
      BY <2>1, <3>1
  <2>4. ASSUME NEW p \in marked', NEW x \in Children[p] \cap store PROVE x \in marked' \cup todo'
    <3>1. CASE p = o
      BY <2>1, <2>4, <3>1
    <3>2. CASE p # o
      <4>1. x \in marked \cup todo
        BY <2>1, <2>4, <3>2 DEF MarkInv, Marking
      <4> QED
        BY <2>1, <2>4, <4>1
    <3> QED
      BY <3>1, <3>2
  <2> QED
    BY <2>1, <2>2, <2>3, <2>4 DEF MarkInv
<1>5. ASSUME NEW o \in Object, SweepTree(o) PROVE MarkInv'
  BY <1>5 DEF SweepTree, MarkInv, Marking
<1>6. ASSUME NEW c \in Id, DropCheckpoint(c) PROVE MarkInv'
  BY <1>6 DEF DropCheckpoint, MarkInv, Marking
<1> QED
  BY <1>1, <1>2, <1>3, <1>4, <1>5, <1>6, MarkingSteps DEF MarkInv

LEMMA AppendComplete ==
  ASSUME RetTypeOK, NoDangling, NEW t \in Tree, Append(t), UNCHANGED <<store, returned>>,
         NEW S \in SUBSET store, t \in S, Closed(S)
  PROVE  NoDangling'
<1> SUFFICES ASSUME NEW c \in index' \ returned' PROVE Complete(c)'
  BY DEF NoDangling
<1>1. PICK n \in Id : /\ \A d \in index : d < n
                      /\ index' = index \cup {n} /\ root' = [root EXCEPT ![n] = t]
  BY DEF Append
<1>2. CASE c = n
  <2>1. root'[c] = t
    BY <1>1, <1>2 DEF RetTypeOK
  <2> QED
    BY <2>1 DEF Complete, Closed
<1>3. CASE c # n
  <2>1. c \in index \ returned /\ root'[c] = root[c]
    BY <1>1, <1>3 DEF RetTypeOK
  <2>2. Complete(c)
    BY <2>1 DEF NoDangling
  <2> QED
    BY <2>1, <2>2 DEF Complete, Closed
<1> QED
  BY <1>2, <1>3

LEMMA CompleteStep ==
  ASSUME RetTypeOK, DraftInv, HeadInv, MarkInv, NoDangling, [Next]_vars
  PROVE  NoDangling'
<1> USE DEF journalVars, daemonVars, scanVars, lostVars, gcVars, pinVars
<1>1. CASE UNCHANGED <<index, root, store, returned>>
  BY <1>1 DEF NoDangling, Complete, Closed
<1>2. CASE AppendCheckpoint
  <2>1. PICK t \in draft.trees : Append(t)
    BY <1>2 DEF AppendCheckpoint
  <2>2. t \in Tree
    BY <2>1 DEF RetTypeOK
  <2> DEFINE S == draft.trees \cup (store \ Tree)
  <2>3. S \in SUBSET store /\ t \in S
    BY <2>1 DEF DraftInv
  <2>4. Closed(S)
    <3>1. \A o \in draft.trees : Children[o] \subseteq S
      BY DEF DraftInv
    <3>2. \A o \in store \ Tree : Children[o] = {}
      BY RetentionAssumption DEF RetTypeOK
    <3> QED
      BY <3>1, <3>2 DEF Closed
  <2>5. UNCHANGED <<store, returned>>
    BY <1>2 DEF AppendCheckpoint
  <2> HIDE DEF S
  <2> QED
    BY <2>1, <2>2, <2>3, <2>4, <2>5, AppendComplete
<1>3. CASE ForceCheckpoint
  <2>1. PICK c \in index : IsHead(c) /\ Append(root[c])
    BY <1>3 DEF ForceCheckpoint
  <2>2. c \notin returned
    <3>1. PICK h \in Id : Newest(h)
      BY <2>1 DEF HeadInv
    <3>2. c \in Nat /\ h \in Nat /\ h <= c
      BY <2>1, <3>1 DEF Newest, IsHead, RetTypeOK, Id
    <3> QED
      BY <3>1, <3>2 DEF Newest
  <2>3. PICK S \in SUBSET store : root[c] \in S /\ Closed(S)
    BY <2>1, <2>2 DEF NoDangling, Complete
  <2>4. root[c] \in Tree /\ UNCHANGED <<store, returned>>
    BY <1>3, <2>1 DEF RetTypeOK, ForceCheckpoint
  <2> QED
    BY <2>1, <2>3, <2>4, AppendComplete
<1>4. CASE KillGc
  <2>1. PICK back \in SUBSET unflushed : index' = index \cup back /\ returned' = returned \cup back
    BY <1>4 DEF KillGc
  <2>2. UNCHANGED <<root, store>> /\ index' \ returned' \subseteq index \ returned
    BY <1>4, <2>1 DEF KillGc
  <2> QED
    BY <2>2 DEF NoDangling, Complete, Closed
<1>5. ASSUME NEW o \in Object, WriteObject(o) PROVE NoDangling'
  <2>1. UNCHANGED <<index, root, returned>> /\ store \subseteq store'
    BY <1>5 DEF WriteObject
  <2> QED
    BY <2>1 DEF NoDangling, Complete, Closed
<1>6. ASSUME NEW o \in Object, SweepTree(o) PROVE NoDangling'
  <2>1. /\ pc = "sweep" /\ index \subseteq live /\ o \notin marked
        /\ store' = store \ {o} /\ UNCHANGED <<index, root, returned>>
    BY <1>6 DEF SweepTree
  <2>2. /\ marked \subseteq store'
        /\ \A c \in index : root[c] \in marked
        /\ \A p \in marked : Children[p] \cap store \subseteq marked
    BY <2>1 DEF MarkInv, Marking
  <2> SUFFICES ASSUME NEW c \in index \ returned PROVE Complete(c)'
    BY <2>1 DEF NoDangling
  <2>3. PICK S \in SUBSET store : root[c] \in S /\ Closed(S)
    BY DEF NoDangling, Complete
  <2>4. S \cap marked \subseteq store' /\ root'[c] \in S \cap marked
    BY <2>1, <2>2, <2>3
  <2>5. Closed(S \cap marked)
    BY <2>2, <2>3 DEF Closed
  <2> QED
    BY <2>4, <2>5 DEF Complete, Closed
<1>7. ASSUME NEW c \in Id, DropCheckpoint(c) PROVE NoDangling'
  BY <1>7 DEF DropCheckpoint, NoDangling, Complete, Closed
<1> QED
  BY <1>1, <1>2, <1>3, <1>4, <1>5, <1>6, <1>7, StoreSteps

LEMMA RestoreStep ==
  ASSUME RetTypeOK, HeadInv, NoDangling, RestoreFailsOnlyIfDropped, [Next]_vars
  PROVE  RestoreFailsOnlyIfDropped'
<1> USE DEF journalVars, daemonVars, scanVars, lostVars, gcVars, pinVars
<1>1. CASE UNCHANGED <<index, unflushed, returned, restore>>
  BY <1>1 DEF RestoreFailsOnlyIfDropped
<1>2. ASSUME NEW t, Append(t), UNCHANGED <<returned, restore>> PROVE RestoreFailsOnlyIfDropped'
  <2>1. PICK n \in Id : (\A d \in index : d < n) /\ index' = index \cup {n}
    BY <1>2 DEF Append
  <2>2. ASSUME restore.of # None PROVE restore.of # n
    <3>1. PICK h \in Id : IsHead(h) /\ restore.of <= h
      BY <2>2 DEF HeadInv, Newest
    <3>2. h \in Nat /\ n \in Nat /\ h < n
      BY <2>1, <3>1 DEF IsHead, Id
    <3> QED
      BY <3>1, <3>2
  <2>3. n # None
    BY RetentionAssumption DEF Id
  <2> QED
    BY <1>2, <2>1, <2>2, <2>3 DEF RestoreFailsOnlyIfDropped
<1>3. CASE AppendCheckpoint \/ ForceCheckpoint
  <2>1. \E t : Append(t)
    BY <1>3 DEF AppendCheckpoint, ForceCheckpoint
  <2> QED
    BY <1>2, <1>3, <2>1 DEF AppendCheckpoint, ForceCheckpoint
<1>4. CASE SweepDone
  BY <1>4 DEF SweepDone, RestoreFailsOnlyIfDropped
<1>5. CASE KillGc
  BY <1>5 DEF KillGc, RestoreFailsOnlyIfDropped
<1>6. CASE RestoreReadsTree
  <2>1. CASE root[restore.of] \in store
    BY <1>6, <2>1 DEF RestoreReadsTree, RestoreFailsOnlyIfDropped, NoRestore
  <2>2. CASE root[restore.of] \notin store
    <3>1. restore.of \notin index \ returned
      BY <2>2 DEF NoDangling, Complete
    <3> QED
      BY <1>6, <2>2, <3>1 DEF RestoreReadsTree, RestoreFailsOnlyIfDropped, RetTypeOK
  <2> QED
    BY <2>1, <2>2
<1>7. ASSUME NEW c \in Id, DropCheckpoint(c) \/ RestoreResolves(c)
      PROVE  RestoreFailsOnlyIfDropped'
  BY <1>7 DEF DropCheckpoint, RestoreResolves, RestoreFailsOnlyIfDropped
<1> QED
  BY <1>1, <1>3, <1>4, <1>5, <1>6, <1>7, HistorySteps

LEMMA InitGcInv == Init => GcInv
<1> SUFFICES ASSUME Init PROVE GcInv
  OBVIOUS
<1>1. DraftInv
  <2>1. draft.for = "none" /\ draft.trees = {}
    BY DEF Init, NoDraft
  <2> QED
    BY <2>1 DEF DraftInv
<1>2. HeadInv
  <2>1. index = {} /\ unflushed = {} /\ returned = {} /\ restore.of = None
    BY DEF Init, NoRestore
  <2> QED
    BY <2>1 DEF HeadInv
<1>3. LiveInv /\ MarkInv
  BY DEF Init, LiveInv, MarkInv, Marking
<1>4. NoDangling /\ RestoreFailsOnlyIfDropped
  BY DEF Init, NoDangling, RestoreFailsOnlyIfDropped, NoRestore
<1> QED
  BY <1>1, <1>2, <1>3, <1>4, InitTypes DEF GcInv

LEMMA StepGcInv == GcInv /\ [Next]_vars => GcInv'
BY StepTypes, DraftStep, HeadStep, LiveStep, MarkStep, CompleteStep, RestoreStep DEF GcInv

LEMMA SpecGcInv == Spec => []GcInv
BY InitGcInv, StepGcInv, PTL DEF Spec

(* The mark finds whatever a retained checkpoint needs, and the daemon     *)
(* makes no checkpoint that refers to objects a collection is deleting: a  *)
(* checkpoint of the journal can always be restored, for any trees and any *)
(* interleaving, unless a crash brought it back.                           *)
THEOREM NothingDangles == Spec => []NoDangling
<1>1. GcInv => NoDangling
  BY DEF GcInv
<1> QED
  BY <1>1, SpecGcInv, PTL

(* A restore beside a collection fails only if that collection deleted the *)
(* checkpoint between the resolution and the read.                         *)
THEOREM RestoresSucceed == Spec => []RestoreFailsOnlyIfDropped
<1>1. GcInv => RestoreFailsOnlyIfDropped
  BY DEF GcInv
<1> QED
  BY <1>1, SpecGcInv, PTL

(* HEAD survives every collection, whatever the policy.                    *)
THEOREM HeadAlwaysKept == Spec => HeadKept
<1>1. ASSUME GcInv, [Next]_vars, NEW c \in index, IsHead(c) PROVE c \in index'
  <2>1. CASE UNCHANGED <<index, unflushed, returned, restore>>
    BY <2>1
  <2>2. CASE AppendCheckpoint \/ ForceCheckpoint
    BY <2>2 DEF AppendCheckpoint, ForceCheckpoint, Append
  <2>3. CASE SweepDone \/ KillGc \/ RestoreReadsTree
    BY <2>3 DEF SweepDone, KillGc, RestoreReadsTree, journalVars
  <2>4. ASSUME NEW d \in Id, DropCheckpoint(d) \/ RestoreResolves(d) PROVE c \in index'
    <3>1. c \in Id /\ (Marking => c \in live)
      BY <1>1 DEF GcInv, RetTypeOK, LiveInv
    <3> QED
      BY <2>4, <3>1 DEF DropCheckpoint, RestoreResolves, Marking, journalVars
  <2> QED
    BY <1>1, <2>1, <2>2, <2>3, <2>4, HistorySteps
<1>2. GcInv /\ [Next]_vars => [\A c \in index : IsHead(c) => c \in index']_vars
  BY <1>1
<1> QED
  BY <1>2, SpecGcInv, PTL DEF Spec, HeadKept

-------------------------------------------------------------------------------
(* What a collection leaves behind.                                        *)

LEMMA ReachStep ==
  ASSUME RetTypeOK, DraftInv, ReachInv, [Next]_vars
  PROVE  ReachInv'
<1> USE DEF journalVars, daemonVars, scanVars, lostVars, gcVars, pinVars
<1>1. CASE Marking /\ UNCHANGED <<index, root, store, pc, live, todo, marked>>
  BY <1>1 DEF ReachInv, NeededBy, Closed
<1>2. CASE MarkCheckpoints
  <2>1. marked' = {} /\ todo' = {root[c] : c \in live' \cap index} /\ UNCHANGED <<index, root>>
    BY <1>2 DEF MarkCheckpoints
  <2>2. ASSUME NEW c \in live' \cap index PROVE root[c] \in NeededBy(c)'
    <3>1. root[c] \in Object
      BY RetentionAssumption DEF RetTypeOK
    <3> QED
      BY <2>1, <3>1 DEF NeededBy
  <2> QED
    BY <2>1, <2>2 DEF ReachInv
<1>3. CASE MarkDone
  BY <1>3 DEF MarkDone, ReachInv, Marking, NeededBy, Closed
<1>4. ASSUME NEW o \in Object, Mark(o) PROVE ReachInv'
  <2>1. /\ pc = "mark" /\ UNCHANGED <<index, root, live>>
        /\ o \in todo /\ marked' \subseteq marked \cup {o}
        /\ todo' \subseteq todo \cup Children[o]
    BY <1>4 DEF Mark
  <2>2. ASSUME NEW p \in marked \cup todo PROVE \E c \in live \cap index : p \in NeededBy(c)
    BY <2>1 DEF ReachInv, Marking
  <2>3. ASSUME NEW p \in Children[o] PROVE \E c \in live \cap index : p \in NeededBy(c)
    <3>1. PICK c \in live \cap index : o \in NeededBy(c)
      BY <2>1, <2>2
    <3>2. p \in Object
      BY RetentionAssumption
    <3>3. ASSUME NEW S \in SUBSET Object, root[c] \in S, Closed(S) PROVE p \in S
      BY <3>1, <3>3 DEF NeededBy, Closed
    <3> QED
      BY <3>2, <3>3 DEF NeededBy
  <2>4. ASSUME NEW p \in marked' \cup todo' PROVE \E c \in live \cap index : p \in NeededBy(c)
    BY <2>1, <2>2, <2>3
  <2> QED
    BY <2>1, <2>4 DEF ReachInv, NeededBy
<1>5. ASSUME NEW o \in Object, SweepTree(o) PROVE ReachInv'
  BY <1>5 DEF SweepTree, ReachInv, Marking, NeededBy, Closed
<1>6. ASSUME NEW c \in Id, DropCheckpoint(c) PROVE ReachInv'
  <2>1. Marking /\ live' \cap index' = live \cap index /\ UNCHANGED <<root, marked, todo>>
    BY <1>6 DEF DropCheckpoint, Marking
  <2> QED
    BY <2>1 DEF ReachInv, NeededBy, Closed
<1> QED
  BY <1>1, <1>2, <1>3, <1>4, <1>5, <1>6, MarkingSteps DEF ReachInv

(* A collection that comes to its end has deleted every tree that the      *)
(* checkpoints it keeps do not need, for any shape of trees.               *)
THEOREM TreesAlwaysCollected == Spec => TreesCollected
<1>1. Init => ReachInv
  BY DEF Init, ReachInv, Marking
<1>2. GcInv /\ ReachInv /\ [Next]_vars => ReachInv'
  BY ReachStep DEF GcInv
<1>3. ASSUME GcInv, ReachInv, [Next]_vars, pc = "sweep", pc' = "restart"
      PROVE  store \cap Tree \subseteq Needed
  <2>1. SweepDone
    BY <1>3 DEF Next, Daemon, Gc, Commands, vars, journalVars, daemonVars, scanVars, lostVars,
      gcVars, pinVars, StartDaemon, BeginCheckpoint, WriteObject, AppendCheckpoint,
      ForceCheckpoint, StopDaemon, KillDaemon, StartGc, AskStop, OpenJournal, OpenFails, GcEnds,
      ReadPin, MarkCheckpoints, Mark, MarkFails, MarkDone, DropCheckpoint, SweepTree,
      RestartDaemon, KillGc, PinResolves, PinCreates, PinWrites, Unpin, RestoreResolves,
      RestoreReadsTree
  <2>2. store \cap Tree \subseteq marked /\ pc = "sweep"
    BY <2>1 DEF SweepDone
  <2>3. ASSUME NEW o \in marked PROVE \E c \in index : o \in NeededBy(c)
    BY <1>3, <2>2 DEF ReachInv, Marking
  <2>4. \A c \in index : NeededBy(c) \subseteq Needed
    BY DEF NeededBy, Needed
  <2> QED
    BY <2>2, <2>3, <2>4
<1>4. GcInv /\ ReachInv /\ [Next]_vars
        => [pc = "sweep" /\ pc' = "restart" => store \cap Tree \subseteq Needed]_vars
  BY <1>3
<1> QED
  BY <1>1, <1>2, <1>4, SpecGcInv, PTL DEF Spec, TreesCollected

-------------------------------------------------------------------------------
(* Pins.                                                                   *)

LEMMA PinSteps ==
  RetTypeOK /\ [Next]_vars =>
    \/ /\ index \subseteq index' /\ UNCHANGED <<pins, pinning, overlapped>>
       /\ \/ holder' # "gc"
          \/ UNCHANGED <<holder, unread, live>> /\ (Marking' => Marking)
    \/ OpenJournal \/ MarkCheckpoints \/ \E c \in Id : DropCheckpoint(c)
    \/ \E n \in Name : ReadPin(n) \/ PinCreates(n) \/ PinWrites(n) \/ Unpin(n)
    \/ \E n \in Name : \E c \in Id : PinResolves(n, c)
<1> USE DEF vars, journalVars, daemonVars, scanVars, lostVars, gcVars, pinVars
<1>1. ASSUME NEW t, Append(t) PROVE index \subseteq index'
  BY <1>1 DEF Append
<1>2. CASE AppendCheckpoint \/ ForceCheckpoint
  BY <1>1, <1>2 DEF AppendCheckpoint, ForceCheckpoint, Marking
<1>3. CASE RestartDaemon \/ KillGc
  BY <1>3 DEF RestartDaemon, KillGc, GcEnds, Marking, RetTypeOK
<1>4. CASE ~(AppendCheckpoint \/ ForceCheckpoint \/ RestartDaemon \/ KillGc)
  BY <1>4 DEF Next, Daemon, Gc, Commands, StartDaemon, BeginCheckpoint, WriteObject, StopDaemon,
    KillDaemon, StartGc, AskStop, OpenFails, GcEnds, Mark, MarkFails, MarkDone, SweepTree,
    SweepDone, RestoreResolves, RestoreReadsTree, Marking
<1> QED
  BY <1>2, <1>3, <1>4

LEMMA PinStep ==
  ASSUME RetainPins, RetTypeOK, RetTypeOK', PinInv, [Next]_vars
  PROVE  PinInv'
<1> SUFFICES ASSUME NEW n \in Name PROVE PinSafe(n)'
  BY DEF PinInv
<1> USE DEF journalVars, daemonVars, scanVars, lostVars, gcVars, pinVars
<1>1. PinSafe(n) /\ pins[n] \in Id \cup {Empty, None} /\ pinning[n] \in Id \cup {None}
  BY DEF PinInv, RetTypeOK
<1>2. (Marking => holder = "gc") /\ (Marking' => holder' = "gc")
  BY DEF RetTypeOK, Marking
<1>3. Empty \notin Id /\ None \notin Id
  BY RetentionAssumption DEF Id, Empty
<1>4. CASE /\ index \subseteq index' /\ UNCHANGED <<pins, pinning, overlapped>>
           /\ \/ holder' # "gc"
              \/ UNCHANGED <<holder, unread, live>> /\ (Marking' => Marking)
  <2>1. CASE holder' # "gc"
    <3>1. ~Marking'
      BY <1>2, <2>1
    <3> QED
      BY <1>1, <1>4, <2>1, <3>1 DEF PinSafe
  <2>2. CASE UNCHANGED <<holder, unread, live>> /\ (Marking' => Marking)
    BY <1>1, <1>4, <2>2 DEF PinSafe
  <2> QED
    BY <1>4, <2>1, <2>2
<1>5. CASE OpenJournal
  <2>1. unread' = Name /\ ~Marking' /\ UNCHANGED <<index, pins, pinning, overlapped>>
    BY <1>5 DEF OpenJournal, Marking
  <2> QED
    BY <1>1, <2>1 DEF PinSafe
<1>6. CASE MarkCheckpoints
  <2>1. unread = {} /\ live \subseteq live' /\ UNCHANGED <<index, holder, unread, pins, pinning, overlapped>>
    BY <1>6 DEF MarkCheckpoints
  <2> QED
    BY <1>1, <2>1 DEF PinSafe
<1>7. ASSUME NEW c \in Id, DropCheckpoint(c) PROVE PinSafe(n)'
  <2>1. /\ Marking /\ c \notin live /\ index' = index \ {c}
        /\ UNCHANGED <<holder, pc, unread, live, pins, pinning, overlapped>>
    BY <1>7 DEF DropCheckpoint, Marking
  <2>2. n \notin unread /\ holder = "gc"
    BY <1>1, <1>2, <2>1 DEF PinSafe
  <2> QED
    BY <1>1, <2>1, <2>2 DEF PinSafe, Marking
<1>8. ASSUME NEW m \in Name, ReadPin(m) PROVE PinSafe(n)'
  <2>1. /\ ~Marking' /\ live' = live \cup ({pins[m]} \cap Id)
        /\ unread' = unread \ {m}
        /\ overlapped \subseteq overlapped' /\ (pinning[m] # None => m \in overlapped')
        /\ UNCHANGED <<index, holder, pins, pinning>>
    BY <1>8 DEF ReadPin, Marking
  <2>2. CASE m = n
    BY <1>1, <2>1, <2>2 DEF PinSafe
  <2>3. CASE m # n
    BY <1>1, <2>1, <2>3 DEF PinSafe
  <2> QED
    BY <2>2, <2>3
<1>9. ASSUME NEW m \in Name, PinCreates(m) PROVE PinSafe(n)'
  <2>1. /\ pins'[n] = pins[n] \/ pins'[n] = Empty
        /\ UNCHANGED <<index, holder, pc, unread, live, pinning, overlapped>>
    BY <1>9 DEF PinCreates, RetTypeOK
  <2> QED
    BY <1>1, <1>3, <2>1 DEF PinSafe, Marking
<1>10. ASSUME NEW m \in Name, PinWrites(m) PROVE PinSafe(n)'
  <2>1. /\ UNCHANGED <<index, holder, pc, unread, live, overlapped>>
        /\ \/ pins'[n] = pins[n] /\ pinning'[n] = pinning[n]
           \/ pinning[n] # None /\ pins'[n] = pinning[n] /\ pinning'[n] = None
    BY <1>10 DEF PinWrites, RetTypeOK
  <2> QED
    BY <1>1, <2>1 DEF PinSafe, Marking
<1>11. ASSUME NEW m \in Name, Unpin(m) PROVE PinSafe(n)'
  <2>1. /\ UNCHANGED <<index, holder, pc, unread, live, pinning>>
        /\ \/ pins'[n] = pins[n] /\ (n \in overlapped' <=> n \in overlapped)
           \/ pins'[n] = None /\ pinning[n] = None
    BY <1>11 DEF Unpin, RetTypeOK
  <2> QED
    BY <1>1, <1>3, <2>1 DEF PinSafe, Marking
<1>12. ASSUME NEW m \in Name, NEW c \in Id, PinResolves(m, c) PROVE PinSafe(n)'
  <2>1. /\ holder = "daemon" /\ c \in index
        /\ pinning'[n] = pinning[n] \/ pinning'[n] = c
        /\ UNCHANGED <<index, holder, pc, unread, live, pins, overlapped>>
    BY <1>12 DEF PinResolves, RetTypeOK
  <2> QED
    BY <1>1, <2>1 DEF PinSafe, Marking
<1> QED
  BY <1>4, <1>5, <1>6, <1>7, <1>8, <1>9, <1>10, <1>11, <1>12, PinSteps

(* With retain_pins, a checkpoint that is pinned stays in the journal, for *)
(* any number of pins, unless a pin was being written as it was read.      *)
THEOREM PinsAlwaysKept ==
  ASSUME RetainPins
  PROVE  Spec => []PinsKept
<1>1. Init => PinInv
  <2> SUFFICES ASSUME Init, NEW n \in Name PROVE PinSafe(n)
    BY DEF PinInv
  <2>1. pins[n] = None /\ pinning[n] = None /\ holder = "none" /\ ~Marking
    BY DEF Init, Marking
  <2>2. None \notin Id
    BY RetentionAssumption DEF Id
  <2> QED
    BY <2>1, <2>2 DEF PinSafe
<1>2. RetTypeOK /\ RetTypeOK' /\ PinInv /\ [Next]_vars => PinInv'
  BY PinStep, RetainPins
<1>3. PinInv => PinsKept
  BY DEF PinInv, PinSafe, PinsKept
<1> QED
  BY <1>1, <1>2, <1>3, RetTypeCorrect, PTL DEF Spec
===============================================================================
