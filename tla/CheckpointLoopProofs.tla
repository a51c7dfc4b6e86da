------------------------- MODULE CheckpointLoopProofs -------------------------
(***************************************************************************)
(* Proofs about CheckpointLoop.tla.                                        *)
(*                                                                         *)
(* First, that what JournalProofs says of the journal holds under the      *)
(* daemon, crashes and restarts included.  Then what a reliable flush may  *)
(* say, what the map file may hold, and when a saved path may go from its  *)
(* file, whatever fails or crashes.  Then, as long                         *)
(* as the daemon is not restarted: that no change is lost if no map is     *)
(* rebuilt, or if only the loop appends; and that HEAD is complete and the *)
(* deltas are as said if only the loop appends.                            *)
(***************************************************************************)
EXTENDS CheckpointLoop, JournalProofs

(* The types of the variables of the loop.                                 *)
LoopTypes ==
  /\ wd \in [Path -> FileState]
  /\ WellFormed(wd)
  /\ inflight \subseteq Path /\ pending \subseteq Path /\ saved \subseteq Path
  /\ todo \subseteq Path /\ owed \subseteq Path
  /\ alive \in BOOLEAN /\ stale \in BOOLEAN /\ paused \in BOOLEAN
  /\ pathmap \in Root /\ draft \in Root
  /\ mapFile \in Root \cup {NoMap}
  /\ lpc \in {"select", "scan", "reconcile", "append", "clear", "exit"}
  /\ serving \in {"none", "tick", "fast", "reliable", "shutdown"}
  /\ request \in {"none", "fast", "reliable"}
  /\ DOMAIN touched \subseteq Nat /\ \A s \in DOMAIN touched : touched[s] \subseteq Path
  /\ left \in [EventKind -> Nat]

LoopInv == JournalInv /\ LoopTypes

LEMMA TypesOfLoop == LoopInv => LoopTypeOK
BY DEF LoopInv, LoopTypes, JournalInv, LoopTypeOK

-------------------------------------------------------------------------------
LEMMA EmptyTreeIsRoot == EmptyTree \in Root
BY LoopAssumption DEF EmptyTree

LEMMA HeadRootsAreRoots ==
  ASSUME JournalInv
  PROVE  HeadRoots \subseteq Root
<1>1. \A h \in Latest : h = NoParent \/ h \in DOMAIN db
  BY LatestBounds DEF JournalInv, JournalTypeOK, Latest
<1>2. \A h \in DOMAIN db : db[h].root \in Root
  BY DEF JournalInv, JournalTypeOK, Checkpoint
<1> QED
  BY <1>1, <1>2, EmptyTreeIsRoot DEF HeadRoots

LEMMA LoopInitInv == LoopInit => LoopInv
<1> SUFFICES ASSUME LoopInit PROVE LoopInv
  OBVIOUS
<1>1. PICK tree \in StartTrees :
        /\ IF tree = EmptyTree
             THEN JournalOpen(EmptyHistory)
             ELSE JournalOpen([s \in {1} |-> [parent |-> NoParent, root |-> tree]])
        /\ touched = [s \in DOMAIN db |-> {p \in Path : tree[p] # Absent}]
  BY DEF LoopInit
<1>2. tree \in Root
  BY LoopAssumption
<1>3. JournalInv
  <2> DEFINE h == [s \in {1} |-> [parent |-> NoParent, root |-> tree]]
  <2>1. CASE tree = EmptyTree
    BY <1>1, <2>1, InitInv DEF Init
  <2>2. CASE tree # EmptyTree
    <3>1. /\ h \in [DOMAIN h -> Checkpoint]
          /\ DOMAIN h = {1} /\ h[1].parent = NoParent
      BY <1>2 DEF Checkpoint, NoParent
    <3>2. DOMAIN h \subseteq Nat \ {0} /\ IsFiniteSet(DOMAIN h)
      <4>1. IsFiniteSet({1}) /\ {1} \subseteq Nat \ {0}
        BY FS_Singleton
      <4> QED
        BY <3>1, <4>1
    <3>3. \A s \in DOMAIN h : h[s].parent < s /\ h[s].parent \in DOMAIN h \cup {NoParent}
      BY <3>1 DEF NoParent
    <3>4. JournalOpen(h)
      BY <1>1, <2>2
    <3> HIDE DEF h
    <3> QED
      BY <3>1, <3>2, <3>3, <3>4, OpenInv
  <2> QED
    BY <2>1, <2>2
<1>4. DOMAIN touched \subseteq Nat /\ \A s \in DOMAIN touched : touched[s] \subseteq Path
  BY <1>1, <1>3 DEF JournalInv, JournalTypeOK
<1>5. LoopTypes
  BY <1>4, EmptyTreeIsRoot, LoopAssumption DEF LoopInit, LoopTypes
<1> QED
  BY <1>3, <1>5 DEF LoopInv

-------------------------------------------------------------------------------
(* Every step of the daemon is a step of the journal, or leaves it alone.  *)
LEMMA StepIsJournalStep ==
  LoopInv /\ [LoopNext]_vars => [Next]_journalVars
<1> SUFFICES ASSUME LoopInv, [LoopNext]_vars PROVE [Next]_journalVars
  OBVIOUS
<1>1. ASSUME NEW w \in Writer, ForceCheckpoint(w)
      PROVE  Next
  <2>1. PICK h \in Latest \ {NoParent} : ReadLatest(w, h, db[h].root)
    BY <1>1 DEF ForceCheckpoint
  <2>2. h \in DOMAIN db
    BY LatestBounds DEF LoopInv, JournalInv, JournalTypeOK, Latest
  <2>3. db[h].root \in Root
    BY <2>2 DEF LoopInv, JournalInv, JournalTypeOK, Checkpoint
  <2> QED
    BY <2>1, <2>3 DEF Next
<1>2. ASSUME NEW w \in Writer, ForceStep(w) \/ ForceFails(w)
      PROVE  Next
  BY <1>2 DEF ForceStep, ForceFails, Next, Append
<1>3. ASSUME ReadParent
      PROVE  Next
  BY <1>3, LoopAssumption DEF ReadParent, Next, LoopInv, LoopTypes
<1>4. ASSUME LoopAppends \/ LoopAppendFails \/ Publish \/ PublishFails
      PROVE  Next
  BY <1>4, LoopAssumption DEF LoopAppends, LoopAppendFails, Publish, PublishFails, Next, Append
<1>5. ASSUME Start
      PROVE  Next
  BY <1>5 DEF Start, Next
<1>6. ASSUME UNCHANGED journalVars
      PROVE  [Next]_journalVars
  BY <1>6
<1>7. ASSUME NEW p \in Path, ScanPath(p) \/ ReconcilePath(p)
      PROVE  UNCHANGED journalVars
  BY <1>7 DEF ScanPath, ReconcilePath
<1>8. ASSUME Clear \/ ScanDone \/ ScanFails \/ ReconcileFails
      PROVE  UNCHANGED journalVars
  BY <1>8 DEF Clear, ScanDone, ScanFails, ReconcileFails
<1>9. ASSUME NEW p \in Path, NEW v \in Editable, Edit(p, v)
      PROVE  UNCHANGED journalVars
  BY <1>9 DEF Edit
<1>10. ASSUME \/ Pause \/ Resume \/ InvalidatePathmap
              \/ \E mode \in {"fast", "reliable"} : RequestFlush(mode)
       PROVE  UNCHANGED journalVars
  BY <1>10 DEF Pause, Resume, InvalidatePathmap, RequestFlush
<1>11. ASSUME PollBranch \/ PeriodicBranch \/ FlushBranch
       PROVE  UNCHANGED journalVars
  BY <1>11 DEF PollBranch, PeriodicBranch, FlushBranch
<1>12. ASSUME Shutdown \/ Exit \/ Crash
       PROVE  UNCHANGED journalVars
  BY <1>12 DEF Shutdown, Exit, Crash, Vanish
<1>13. ASSUME UNCHANGED vars
       PROVE  UNCHANGED journalVars
  BY <1>13 DEF vars
<1> QED
  BY <1>1, <1>2, <1>3, <1>4, <1>5, <1>6, <1>7, <1>8, <1>9, <1>10, <1>11, <1>12, <1>13
  DEF LoopNext, LoopStep

-------------------------------------------------------------------------------
(* The conversions used by the proofs of the steps.                        *)
LEMMA SpendType ==
  ASSUME LoopTypes, NEW kind \in EventKind, Spend(kind)
  PROVE  left' \in [EventKind -> Nat]
BY DEF LoopTypes, Spend

LEMMA GiveUpType ==
  ASSUME LoopTypes, GiveUp
  PROVE  /\ lpc' \in {"select", "exit"} /\ serving' = "none"
         /\ todo' = {} /\ draft' \in Root /\ saved' \subseteq Path
BY EmptyTreeIsRoot DEF LoopTypes, GiveUp, ToSelect, ToExit

LEMMA StepTypes == LoopInv /\ [LoopNext]_vars => LoopTypes'
<1> SUFFICES ASSUME LoopInv, [LoopNext]_vars PROVE LoopTypes'
  OBVIOUS
<1> USE DEF LoopInv
<1> USE DEF watchVars, diskVars, stepVars, flushVars
<1>1. ASSUME NEW p \in Path, NEW v \in Editable, Edit(p, v)
      PROVE  LoopTypes'
  <2>1. left' \in [EventKind -> Nat]
    BY <1>1, SpendType DEF Edit, EventKind
  <2>2. wd' \in [Path -> FileState]
    BY <1>1, LoopAssumption DEF Edit, LoopTypes
  <2> QED
    BY <1>1, <2>1, <2>2 DEF Edit, LoopTypes
<1>2. ASSUME Pause \/ Resume \/ InvalidatePathmap
      PROVE  LoopTypes'
  <2>1. left' \in [EventKind -> Nat]
    BY <1>2, SpendType DEF Pause, Resume, InvalidatePathmap, LoopTypes, EventKind
  <2> QED
    BY <1>2, <2>1 DEF Pause, Resume, InvalidatePathmap, LoopTypes
<1>3. ASSUME NEW mode \in {"fast", "reliable"}, RequestFlush(mode)
      PROVE  LoopTypes'
  <2>1. left' \in [EventKind -> Nat]
    BY <1>3, SpendType DEF RequestFlush, EventKind
  <2> QED
    BY <1>3, <2>1 DEF RequestFlush, LoopTypes
<1>4. ASSUME NEW w \in Writer, ForceCheckpoint(w) \/ ForceFails(w)
      PROVE  LoopTypes'
  <2>1. left' \in [EventKind -> Nat]
    BY <1>4, SpendType DEF ForceCheckpoint, ForceFails, EventKind
  <2> QED
    BY <1>4, <2>1 DEF ForceCheckpoint, ForceFails, LoopTypes
<1>5. ASSUME NEW w \in Writer, ForceStep(w)
      PROVE  LoopTypes'
  <2>1. DOMAIN touched' \subseteq Nat /\ \A s \in DOMAIN touched' : touched'[s] \subseteq Path
    <3>1. CASE TakeNumber(w)
      <4>1. wseq'[w] \in Nat
        BY <3>1 DEF TakeNumber, JournalInv, JournalTypeOK
      <4>2. touched' = [s \in DOMAIN touched \cup {wseq'[w]} |->
                           IF s = wseq'[w] THEN {} ELSE touched[s]]
        BY <1>5, <3>1 DEF ForceStep, TakeNumber, InsertRecord, InsertIndex, Flush, CountOne
      <4> QED
        BY <4>1, <4>2 DEF LoopTypes
    <3>2. CASE ~TakeNumber(w)
      BY <1>5, <3>2 DEF ForceStep, LoopTypes
    <3> QED
      BY <3>1, <3>2
  <2> QED
    BY <1>5, <2>1 DEF ForceStep, LoopTypes
<1>6. ASSUME PollBranch
      PROVE  LoopTypes'
  BY <1>6 DEF PollBranch, LoopTypes
<1>7. ASSUME PeriodicBranch
      PROVE  LoopTypes'
  <2>1. pathmap' \in Root /\ mapFile' \in Root \cup {NoMap} /\ stale' \in BOOLEAN
    BY <1>7, HeadRootsAreRoots DEF PeriodicBranch, Rebuild, LoopTypes
  <2> QED
    BY <1>7, <2>1 DEF PeriodicBranch, Begin, LoopTypes
<1>8. ASSUME FlushBranch
      PROVE  LoopTypes'
  BY <1>8 DEF FlushBranch, Begin, LoopTypes
<1>9. ASSUME NEW p \in Path, ScanPath(p)
      PROVE  LoopTypes'
  BY <1>9 DEF ScanPath, LoopTypes
<1>10. ASSUME ScanDone
       PROVE  LoopTypes'
  BY <1>10, EmptyTreeIsRoot DEF ScanDone, Begin, ToSelect, LoopTypes
<1>11. ASSUME NEW p \in Path, ReconcilePath(p)
       PROVE  LoopTypes'
  <2>1. draft' \in Root
    <3>1. wd[p] \in Content \cup {Absent, Dir}
      BY <1>11 DEF ReconcilePath, LoopTypes, FileState
    <3> QED
      BY <1>11, <3>1, LoopAssumption DEF ReconcilePath, LoopTypes
  <2> QED
    BY <1>11, <2>1 DEF ReconcilePath, LoopTypes
<1>12. ASSUME ReconcileFails
       PROVE  LoopTypes'
  BY <1>12, GiveUpType DEF ReconcileFails, LoopTypes
<1>13. ASSUME ReadParent
       PROVE  LoopTypes'
  BY <1>13 DEF ReadParent, LoopTypes
<1>14. ASSUME LoopAppends
       PROVE  LoopTypes'
  <2>1. DOMAIN touched' \subseteq Nat /\ \A s \in DOMAIN touched' : touched'[s] \subseteq Path
    <3>1. CASE TakeNumber(Loop)
      <4>1. wseq'[Loop] \in Nat
        BY <3>1, LoopAssumption DEF TakeNumber, JournalInv, JournalTypeOK
      <4>2. touched' = [s \in DOMAIN touched \cup {wseq'[Loop]} |->
                           IF s = wseq'[Loop] THEN pending ELSE touched[s]]
        BY <1>14, <3>1 DEF LoopAppends, TakeNumber, InsertRecord, InsertIndex, Flush
      <4> QED
        BY <4>1, <4>2 DEF LoopTypes
    <3>2. CASE ~TakeNumber(Loop)
      BY <1>14, <3>2 DEF LoopAppends, LoopTypes
    <3> QED
      BY <3>1, <3>2
  <2> QED
    BY <1>14, <2>1 DEF LoopAppends, LoopTypes
<1>15. ASSUME LoopAppendFails
       PROVE  LoopTypes'
  <2>1. left' \in [EventKind -> Nat]
    BY <1>15, SpendType DEF LoopAppendFails, EventKind
  <2> QED
    BY <1>15, <2>1, GiveUpType DEF LoopAppendFails, LoopTypes
<1>16. ASSUME Publish
       PROVE  LoopTypes'
  BY <1>16 DEF Publish, LoopTypes
<1>17. ASSUME PublishFails
       PROVE  LoopTypes'
  <2>1. left' \in [EventKind -> Nat]
    BY <1>17, SpendType DEF PublishFails, EventKind
  <2> QED
    BY <1>17, <2>1, GiveUpType DEF PublishFails, LoopTypes
<1>18. ASSUME Clear
       PROVE  LoopTypes'
  BY <1>18, EmptyTreeIsRoot DEF Clear, ToSelect, ToExit, LoopTypes
<1>19. ASSUME Shutdown
       PROVE  LoopTypes'
  <2>1. left' \in [EventKind -> Nat]
    BY <1>19, SpendType DEF Shutdown, EventKind
  <2> QED
    BY <1>19, <2>1, EmptyTreeIsRoot DEF Shutdown, Begin, ToExit, LoopTypes
<1>20. ASSUME ScanFails
       PROVE  LoopTypes'
  <2>1. left' \in [EventKind -> Nat]
    BY <1>20, SpendType DEF ScanFails, EventKind, LoopTypes
  <2> QED
    BY <1>20, <2>1, EmptyTreeIsRoot DEF ScanFails, ToExit, LoopTypes
<1>21. ASSUME Exit \/ Crash
       PROVE  LoopTypes'
  <2>1. left' \in [EventKind -> Nat]
    BY <1>21, SpendType DEF Exit, Crash, EventKind, LoopTypes
  <2> QED
    BY <1>21, <2>1, EmptyTreeIsRoot DEF Exit, Crash, Vanish, ToSelect, LoopTypes
<1>22. ASSUME Start
       PROVE  LoopTypes'
  BY <1>22, EmptyTreeIsRoot DEF Start, LoopTypes
<1>23. CASE UNCHANGED vars
  BY <1>23 DEF vars, loopVars, LoopTypes, WellFormed
<1> QED
  BY <1>1, <1>2, <1>3, <1>4, <1>5, <1>6, <1>7, <1>8, <1>9, <1>10, <1>11, <1>12, <1>13,
     <1>14, <1>15, <1>16, <1>17, <1>18, <1>19, <1>20, <1>21, <1>22, <1>23
  DEF LoopNext, LoopStep

LEMMA LoopSpecInv == LoopSpec => []LoopInv
<1>1. LoopInv /\ [LoopNext]_vars => LoopInv'
  BY StepIsJournalStep, StepInv, StepTypes DEF LoopInv
<1> QED
  BY <1>1, LoopInitInv, PTL DEF LoopSpec

-------------------------------------------------------------------------------
(* Type correctness of the loop.                                           *)
THEOREM LoopTypeCorrect == LoopSpec => []LoopTypeOK
BY LoopSpecInv, TypesOfLoop, PTL

(* So the journal of a daemon keeps what JournalProofs proves of it:       *)
(* parents precede their children and durable checkpoints their ancestors, *)
(* through any number of forced checkpoints, crashes and restarts.         *)
THEOREM JournalUnderLoop ==
  LoopSpec => [](ParentsPrecede /\ DurableAncestry) /\ DurableKept
<1>1. LoopInv => JournalInv /\ ParentsPrecede /\ DurableAncestry
  BY DEF LoopInv, JournalInv
<1>2. LoopInv /\ [LoopNext]_vars =>
        [\A s \in durable : s \in DOMAIN db' /\ db'[s] = db[s]]_journalVars
  BY <1>1, StepIsJournalStep, StepKeepsDurable
<1> QED
  BY <1>1, <1>2, LoopSpecInv, PTL DEF LoopSpec, DurableKept

-------------------------------------------------------------------------------
(* While a reliable flush scans, every path it has looked at is pending,   *)
(* or agrees with the path map, or was changed again after the request.    *)
Scanned ==
  lpc = "scan" =>
    /\ alive /\ serving = "reliable"
    /\ \A p \in owed \ todo : p \in pending \/ AsEntry(wd[p]) = pathmap[p]

LEMMA ScannedStep == LoopInv /\ Scanned /\ [LoopNext]_vars => Scanned'
<1> SUFFICES ASSUME LoopInv, Scanned, [LoopNext]_vars PROVE Scanned'
  OBVIOUS
<1> USE DEF watchVars, diskVars, stepVars, flushVars
<1>1. ASSUME NEW p \in Path, NEW v \in Editable, Edit(p, v)
      PROVE  Scanned'
  <2>1. /\ \A q \in Path \ {p} : wd'[q] = wd[q]
        /\ owed' = owed \ {p}
        /\ UNCHANGED <<alive, pathmap, pending, lpc, serving, todo>>
    BY <1>1 DEF Edit, LoopInv, LoopTypes
  <2> QED
    BY <2>1 DEF Scanned, LoopInv, LoopTypes
<1>2. ASSUME NEW p \in Path, ScanPath(p)
      PROVE  Scanned'
  BY <1>2 DEF ScanPath, Scanned
<1>3. ASSUME FlushBranch
      PROVE  Scanned'
  BY <1>3 DEF FlushBranch, Begin, Scanned, LoopInv, LoopTypes
<1>4. ASSUME \E mode \in {"fast", "reliable"} : RequestFlush(mode)
      PROVE  Scanned'
  BY <1>4 DEF RequestFlush, Scanned
<1>5. ASSUME \/ Pause \/ Resume \/ InvalidatePathmap
             \/ \E w \in Writer : ForceCheckpoint(w) \/ ForceStep(w) \/ ForceFails(w)
      PROVE  Scanned'
  BY <1>5 DEF Pause, Resume, InvalidatePathmap, ForceCheckpoint, ForceStep, ForceFails, Scanned
<1>6. ASSUME PollBranch \/ PeriodicBranch \/ Shutdown
      PROVE  lpc' # "scan"
  BY <1>6 DEF PollBranch, PeriodicBranch, Shutdown, Begin, ToExit
<1>7. ASSUME ScanDone \/ ScanFails \/ ReconcileFails \/ ReadParent \/ LoopAppends
             \/ LoopAppendFails \/ Publish \/ PublishFails \/ Clear
             \/ \E p \in Path : ReconcilePath(p)
      PROVE  lpc' # "scan"
  BY <1>7 DEF ScanDone, ScanFails, ReconcileFails, ReadParent, LoopAppends,
     LoopAppendFails, Publish, PublishFails, Clear, ReconcilePath, GiveUp, Begin,
     ToSelect, ToExit
<1>8. ASSUME Exit \/ Crash \/ Start
      PROVE  Scanned'
  BY <1>8 DEF Exit, Crash, Start, Vanish, ToSelect, Scanned
<1>9. CASE UNCHANGED vars
  BY <1>9 DEF vars, loopVars, Scanned
<1> QED
  BY <1>1, <1>2, <1>3, <1>4, <1>5, <1>6, <1>7, <1>8, <1>9 DEF LoopNext, LoopStep, Scanned

(* A reliable flush that ends its scan without a pending path tells the    *)
(* truth: all that was changed before the request, and not since, is in    *)
(* the path map; whatever is edited, paused, forced or rebuilt meanwhile.  *)
THEOREM FlushTellsTruth == LoopSpec => NothingToFlush
<1>1. LoopInit => Scanned
  BY DEF LoopInit, Scanned
<1>2. LoopInv /\ Scanned /\ [LoopNext]_vars =>
        [(alive /\ alive' /\ lpc = "scan" /\ todo = {} /\ lpc' = "select") =>
           \A p \in owed : AsEntry(wd[p]) = pathmap[p]]_vars
  <2> SUFFICES ASSUME LoopInv, Scanned, LoopNext,
                      alive, alive', lpc = "scan", todo = {}, lpc' = "select"
               PROVE  \A p \in owed : AsEntry(wd[p]) = pathmap[p]
    OBVIOUS
  <2>1. ASSUME ScanDone
        PROVE  \A p \in owed : AsEntry(wd[p]) = pathmap[p]
    BY <2>1 DEF ScanDone, Begin, Scanned
  <2>2. ASSUME ScanFails \/ Exit \/ Crash \/ Start
        PROVE  FALSE
    BY <2>2 DEF ScanFails, Exit, Crash, Start, Vanish
  <2>3. ASSUME PollBranch \/ PeriodicBranch \/ FlushBranch \/ Shutdown
        PROVE  FALSE
    BY <2>3 DEF PollBranch, PeriodicBranch, FlushBranch, Shutdown
  <2>4. ASSUME \/ ReconcileFails \/ ReadParent \/ LoopAppends \/ LoopAppendFails \/ Publish
               \/ PublishFails \/ Clear
               \/ \E p \in Path : ScanPath(p) \/ ReconcilePath(p)
        PROVE  FALSE
    BY <2>4 DEF ReconcileFails, ReadParent, LoopAppends, LoopAppendFails, Publish,
       PublishFails, Clear, ReconcilePath, ScanPath
  <2>5. ASSUME \/ Pause \/ Resume \/ InvalidatePathmap
               \/ \E mode \in {"fast", "reliable"} : RequestFlush(mode)
               \/ \E w \in Writer : ForceCheckpoint(w) \/ ForceStep(w) \/ ForceFails(w)
               \/ \E p \in Path, v \in Editable : Edit(p, v)
        PROVE  FALSE
    BY <2>5 DEF Pause, Resume, InvalidatePathmap, RequestFlush, ForceCheckpoint, ForceStep,
       ForceFails, Edit, stepVars
  <2> QED
    BY <2>1, <2>2, <2>3, <2>4, <2>5 DEF LoopNext, LoopStep
<1> QED
  BY <1>1, <1>2, ScannedStep, LoopSpecInv, PTL DEF LoopSpec, NothingToFlush

-------------------------------------------------------------------------------
(* While the loop appends, its record has the draft for a tree; once       *)
(* append() has returned, that record is durable.                          *)
RecordsDraft ==
  /\ ~alive => lpc = "select"
  /\ lpc = "append" =>
       /\ wroot[Loop] = draft
       /\ wpc[Loop] \in {"stored", "indexed", "flushed"} => db[wseq[Loop]].root = draft
       /\ wpc[Loop] = "flushed" => wseq[Loop] \in durable

NeverStale == ~stale /\ left["stale"] = 0

MapInv == NeverStale /\ RecordsDraft /\ MapFileRecorded

LEMMA StaleStep == LoopInv /\ NeverStale /\ [LoopNext]_vars => NeverStale'
<1> SUFFICES ASSUME LoopInv, NeverStale, [LoopNext]_vars PROVE NeverStale'
  OBVIOUS
<1>1. ASSUME NEW kind \in EventKind, Spend(kind)
      PROVE  left'["stale"] = 0
  BY <1>1 DEF Spend, NeverStale, LoopInv, LoopTypes, EventKind
<1>2. ~InvalidatePathmap
  BY DEF InvalidatePathmap, Spend, NeverStale
<1>3. ASSUME \/ \E p \in Path, v \in Editable : Edit(p, v)
             \/ Pause \/ Resume
             \/ \E mode \in {"fast", "reliable"} : RequestFlush(mode)
             \/ \E w \in Writer : ForceCheckpoint(w) \/ ForceStep(w) \/ ForceFails(w)
      PROVE  NeverStale'
  <2>1. stale' = stale /\ (left' = left \/ \E kind \in EventKind : Spend(kind))
    BY <1>3 DEF Edit, Pause, Resume, RequestFlush, ForceCheckpoint, ForceStep, ForceFails, EventKind
  <2> QED
    BY <1>1, <2>1 DEF NeverStale
<1>4. ASSUME PollBranch \/ PeriodicBranch \/ FlushBranch \/ Shutdown
      PROVE  NeverStale'
  BY <1>1, <1>4 DEF PollBranch, PeriodicBranch, FlushBranch, Shutdown, Rebuild,
     NeverStale, EventKind
<1>5. ASSUME LoopStep
      PROVE  NeverStale'
  BY <1>1, <1>5 DEF LoopStep, ScanDone, ScanFails, ReconcileFails, ReadParent, LoopAppends,
     LoopAppendFails, Publish, PublishFails, Clear, ScanPath, ReconcilePath,
     NeverStale, EventKind
<1>6. ASSUME Exit \/ Crash \/ Start
      PROVE  NeverStale'
  BY <1>1, <1>6 DEF Exit, Crash, Start, Vanish, NeverStale, EventKind
<1>7. CASE UNCHANGED vars
  BY <1>7 DEF vars, loopVars, NeverStale
<1> QED
  BY <1>2, <1>3, <1>4, <1>5, <1>6, <1>7 DEF LoopNext

(* Steps of other tasks, and steps outside the append, leave it alone.     *)
LEMMA RecordsKept ==
  ASSUME LoopInv, RecordsDraft, JournalInv',
         NEW w \in Writer \ {Loop}, [Next]_journalVars,
         \/ \E p \in Latest, r \in Root : ReadLatest(w, p, r)
         \/ TakeNumber(w) \/ InsertRecord(w) \/ InsertIndex(w) \/ Flush(w) \/ CountOne(w)
         \/ AppendFails(w),
         alive' = alive /\ lpc' = lpc /\ draft' = draft
  PROVE  RecordsDraft'
<1> USE LoopAssumption DEF LoopInv
<1>1. /\ wpc'[Loop] = wpc[Loop] /\ wroot'[Loop] = wroot[Loop] /\ wseq'[Loop] = wseq[Loop]
  BY DEF JournalInv, JournalTypeOK, ReadLatest, TakeNumber, InsertRecord, InsertIndex,
     Flush, CountOne, AppendFails
<1>2. durable \subseteq durable'
  BY DurableGrows
<1>3. ASSUME wpc[Loop] \in {"stored", "indexed", "flushed"}
      PROVE  db'[wseq[Loop]] = db[wseq[Loop]]
  <2>1. wseq[Loop] \in DOMAIN db
    BY <1>3 DEF JournalInv, HeldNumber, JournalTypeOK
  <2>2. CASE InsertRecord(w)
    <3>1. wseq[w] # wseq[Loop]
      BY <1>3, <2>2 DEF JournalInv, DistinctNumbers, Holding, InsertRecord
    <3> QED
      BY <2>1, <2>2, <3>1 DEF InsertRecord
  <2>3. CASE ~InsertRecord(w)
    BY <2>3 DEF ReadLatest, TakeNumber, InsertIndex, Flush, CountOne, AppendFails
  <2> QED
    BY <2>2, <2>3
<1> QED
  BY <1>1, <1>2, <1>3 DEF RecordsDraft

LEMMA RecordsStep == LoopInv /\ LoopInv' /\ RecordsDraft /\ [LoopNext]_vars => RecordsDraft'
<1> SUFFICES ASSUME LoopInv, LoopInv', RecordsDraft, [LoopNext]_vars PROVE RecordsDraft'
  OBVIOUS
<1> USE DEF watchVars, diskVars, stepVars, flushVars
<1>1. [Next]_journalVars
  BY StepIsJournalStep
<1>2. ASSUME UNCHANGED journalVars, UNCHANGED <<alive, lpc, draft>>
      PROVE  RecordsDraft'
  BY <1>2 DEF RecordsDraft, journalVars, writerVars
<1>3. ASSUME lpc' # "append", alive'
      PROVE  RecordsDraft'
  BY <1>3 DEF RecordsDraft
<1>4. ASSUME \/ \E p \in Path, v \in Editable : Edit(p, v)
             \/ Pause \/ Resume \/ InvalidatePathmap
             \/ \E mode \in {"fast", "reliable"} : RequestFlush(mode)
      PROVE  RecordsDraft'
  BY <1>2, <1>4 DEF Edit, Pause, Resume, InvalidatePathmap, RequestFlush
<1>5. ASSUME NEW w \in Writer \ {Loop}, ForceCheckpoint(w) \/ ForceStep(w) \/ ForceFails(w)
      PROVE  RecordsDraft'
  <2>1. alive' = alive /\ lpc' = lpc /\ draft' = draft
    BY <1>5 DEF ForceCheckpoint, ForceStep, ForceFails
  <2>2. \/ \E p \in Latest, r \in Root : ReadLatest(w, p, r)
        \/ TakeNumber(w) \/ InsertRecord(w) \/ InsertIndex(w) \/ Flush(w) \/ CountOne(w)
        \/ AppendFails(w)
    <3>1. ASSUME ForceCheckpoint(w)
          PROVE  \E p \in Latest, r \in Root : ReadLatest(w, p, r)
      <4>1. PICK h \in Latest \ {NoParent} : ReadLatest(w, h, db[h].root)
        BY <3>1 DEF ForceCheckpoint
      <4>2. h \in DOMAIN db
        BY LatestBounds DEF LoopInv, JournalInv, JournalTypeOK, Latest
      <4>3. db[h].root \in Root
        BY <4>2 DEF LoopInv, JournalInv, JournalTypeOK, Checkpoint
      <4> QED
        BY <4>1, <4>3
    <3> QED
      BY <1>5, <3>1 DEF ForceStep, ForceFails
  <2>3. RecordsDraft'
    BY <1>1, <2>1, <2>2, RecordsKept DEF LoopInv
  <2> QED
    BY <2>3
<1>6. ASSUME PollBranch \/ PeriodicBranch \/ FlushBranch \/ Shutdown
      PROVE  RecordsDraft'
  <2>1. alive' /\ lpc' # "append"
    BY <1>6 DEF PollBranch, PeriodicBranch, FlushBranch, Shutdown, Begin, ToExit, RecordsDraft
  <2> QED
    BY <1>3, <2>1
<1>7. ASSUME \/ ScanDone \/ ScanFails \/ ReconcileFails \/ LoopAppendFails \/ PublishFails
             \/ Clear \/ \E p \in Path : ScanPath(p) \/ ReconcilePath(p)
      PROVE  RecordsDraft'
  <2>1. alive' /\ lpc' # "append"
    BY <1>7 DEF ScanDone, ScanFails, ReconcileFails, LoopAppendFails, PublishFails, Clear,
       ScanPath, ReconcilePath, Begin, GiveUp, ToSelect, ToExit, RecordsDraft
  <2> QED
    BY <1>3, <2>1
<1>8. ASSUME ReadParent
       PROVE  RecordsDraft'
  <2>1. /\ alive /\ alive'
        /\ wroot'[Loop] = draft /\ draft' = draft /\ wpc'[Loop] = "parented"
    BY <1>8, LoopAssumption DEF ReadParent, ReadLatest, LoopInv, JournalInv, JournalTypeOK
  <2> QED
    BY <2>1 DEF RecordsDraft
<1>9. ASSUME LoopAppends
       PROVE  RecordsDraft'
  <2>1. /\ alive /\ alive' /\ lpc = "append" /\ UNCHANGED draft
        /\ wroot[Loop] = draft
    BY <1>9 DEF LoopAppends, RecordsDraft
  <2>2. wroot' = wroot
    BY <1>9 DEF LoopAppends, TakeNumber, InsertRecord, InsertIndex, Flush
  <2>3. CASE TakeNumber(Loop)
    BY <2>1, <2>2, <2>3, LoopAssumption
    DEF RecordsDraft, TakeNumber, LoopInv, JournalInv, JournalTypeOK
  <2>4. CASE InsertRecord(Loop)
    <3>1. db'[wseq'[Loop]].root = draft /\ wpc'[Loop] = "stored"
      BY <2>1, <2>4, LoopAssumption DEF InsertRecord, LoopInv, JournalInv, JournalTypeOK
    <3> QED
      BY <2>1, <2>2, <3>1 DEF RecordsDraft
  <2>5. CASE InsertIndex(Loop)
    BY <2>1, <2>2, <2>5, LoopAssumption
    DEF RecordsDraft, InsertIndex, LoopInv, JournalInv, JournalTypeOK
  <2>6. CASE Flush(Loop)
    <3>1. wseq[Loop] \in DOMAIN db /\ durable' = DOMAIN db /\ wpc[Loop] = "indexed"
      BY <2>6, LoopAssumption
      DEF Flush, LoopInv, JournalInv, JournalTypeOK, HeldNumber
    <3> QED
      BY <2>1, <2>2, <2>6, <3>1, LoopAssumption DEF RecordsDraft, Flush
  <2> QED
    BY <1>9, <2>3, <2>4, <2>5, <2>6 DEF LoopAppends
<1>10. ASSUME Publish
       PROVE  RecordsDraft'
  BY <1>3, <1>10 DEF Publish, RecordsDraft
<1>11. ASSUME Exit \/ Crash \/ Start
       PROVE  RecordsDraft'
  <2>1. lpc' = "select"
    BY <1>11 DEF Exit, Crash, Start, Vanish, ToSelect, RecordsDraft
  <2> QED
    BY <2>1 DEF RecordsDraft
<1>12. CASE UNCHANGED vars
  BY <1>2, <1>12 DEF vars, loopVars
<1> QED
  BY <1>4, <1>5, <1>6, <1>7, <1>8, <1>9, <1>10, <1>11, <1>12 DEF LoopNext, LoopStep

LEMMA MapStep == LoopInv /\ LoopInv' /\ MapInv /\ [LoopNext]_vars => MapInv'
<1> SUFFICES ASSUME LoopInv, LoopInv', MapInv, [LoopNext]_vars PROVE MapInv'
  OBVIOUS
<1> USE DEF watchVars, diskVars, stepVars, flushVars
<1>1. NeverStale' /\ RecordsDraft'
  BY StaleStep, RecordsStep DEF MapInv
<1>2. ASSUME mapFile' = mapFile
      PROVE  MapFileRecorded'
  <2>1. \A s \in durable : s \in durable' /\ db'[s] = db[s]
    BY StepIsJournalStep, StepKeepsDurable, DurableGrows DEF LoopInv
  <2> QED
    BY <1>2, <2>1 DEF MapInv, MapFileRecorded
<1>3. ASSUME Publish
      PROVE  MapFileRecorded'
  <2>1. /\ mapFile' = draft /\ durable' = durable /\ db' = db
        /\ wseq[Loop] \in durable /\ db[wseq[Loop]].root = draft
    BY <1>3 DEF Publish, CountOne, MapInv, RecordsDraft
  <2> QED
    BY <2>1 DEF MapFileRecorded
<1>4. ASSUME \/ \E p \in Path, v \in Editable : Edit(p, v)
             \/ Pause \/ Resume \/ InvalidatePathmap
             \/ \E mode \in {"fast", "reliable"} : RequestFlush(mode)
             \/ \E w \in Writer : ForceCheckpoint(w) \/ ForceStep(w) \/ ForceFails(w)
      PROVE  mapFile' = mapFile
  BY <1>4 DEF Edit, Pause, Resume, InvalidatePathmap, RequestFlush, ForceCheckpoint,
     ForceStep, ForceFails
<1>5. ASSUME PollBranch \/ PeriodicBranch \/ FlushBranch \/ Shutdown
      PROVE  mapFile' = mapFile
  BY <1>5 DEF PollBranch, PeriodicBranch, FlushBranch, Shutdown, Rebuild, MapInv, NeverStale
<1>6. ASSUME LoopStep, ~Publish
      PROVE  mapFile' = mapFile
  BY <1>6 DEF LoopStep, ReadParent, LoopAppends, LoopAppendFails, PublishFails, Clear,
     ScanDone, ScanFails, ReconcileFails, ScanPath, ReconcilePath
<1>7. ASSUME Exit \/ Crash \/ Start
      PROVE  mapFile' = mapFile
  BY <1>7 DEF Exit, Crash, Start, Vanish
<1>8. ASSUME UNCHANGED vars
      PROVE  mapFile' = mapFile
  BY <1>8 DEF vars, loopVars
<1> QED
  BY <1>1, <1>2, <1>3, <1>4, <1>5, <1>6, <1>7, <1>8 DEF LoopNext, MapInv

(* As long as no map is rebuilt, the map file never runs ahead of what is  *)
(* durable: through crashes, stops, failures of any step, and any number   *)
(* of forced checkpoints beside the loop.                                  *)
THEOREM MapFileAlwaysRecorded ==
  ASSUME Budget["stale"] = 0
  PROVE  LoopSpec => []MapFileRecorded
<1>1. LoopInit => MapInv
  BY DEF LoopInit, MapInv, NeverStale, RecordsDraft, MapFileRecorded
<1>2. MapInv => MapFileRecorded
  BY DEF MapInv
<1> QED
  BY <1>1, <1>2, MapStep, LoopSpecInv, PTL DEF LoopSpec

-------------------------------------------------------------------------------
(* The saved paths are among the pending ones, except in shutdown(), which *)
(* has a batch of its own and never touches their file.  The record of a   *)
(* checkpoint under way names what is pending; when the pending paths are  *)
(* dropped there is a durable one that does, with the map for a tree.      *)
SavedPending ==
  /\ alive /\ serving # "shutdown" /\ lpc # "exit" => saved \subseteq pending
  /\ serving = "shutdown" => lpc \in {"reconcile", "append", "clear"}

RecordTouches ==
  lpc = "append" /\ wpc[Loop] \in {"numbered", "stored", "indexed", "flushed"} =>
    wseq[Loop] \in DOMAIN touched /\ touched[wseq[Loop]] = pending

ClearsRecorded ==
  lpc = "clear" =>
    \E s \in durable : /\ s \in DOMAIN touched /\ touched[s] = pending
                       /\ db[s].root = pathmap

SavedInv == RecordsDraft /\ SavedPending /\ RecordTouches /\ ClearsRecorded

(* A task that is not the loop takes a number no record has, and not the   *)
(* one of the loop.                                                        *)
LEMMA SavedBeside ==
  ASSUME LoopInv, LoopInv', SavedInv, [LoopNext]_vars, RecordsDraft',
         NEW w \in Writer \ {Loop}, ForceCheckpoint(w) \/ ForceStep(w) \/ ForceFails(w)
  PROVE  SavedInv'
<1> USE LoopAssumption
<1> USE DEF watchVars, diskVars, stepVars, flushVars
<1>1. UNCHANGED <<alive, serving, lpc, saved, pending, pathmap>>
  BY DEF ForceCheckpoint, ForceStep, ForceFails
<1>2. wpc'[Loop] = wpc[Loop] /\ wseq'[Loop] = wseq[Loop]
  BY DEF ForceCheckpoint, ForceStep, ForceFails, ReadLatest, TakeNumber, InsertRecord,
     InsertIndex, Flush, CountOne, AppendFails, LoopInv, JournalInv, JournalTypeOK
<1>3. ASSUME NEW s \in DOMAIN touched, s < nextSeq
      PROVE  s \in DOMAIN touched' /\ touched'[s] = touched[s]
  <2>1. CASE ForceStep(w) /\ TakeNumber(w)
    <3>1. wseq'[w] = nextSeq
      BY <2>1 DEF TakeNumber, LoopInv, JournalInv, JournalTypeOK
    <3>2. touched' = [t \in DOMAIN touched \cup {wseq'[w]} |->
                        IF t = wseq'[w] THEN {} ELSE touched[t]]
      BY <2>1 DEF ForceStep, TakeNumber, InsertRecord, InsertIndex, Flush, CountOne
    <3>3. s # nextSeq
      BY <1>3 DEF LoopInv, LoopTypes, JournalInv, JournalTypeOK
    <3> QED
      BY <3>1, <3>2, <3>3
  <2>2. CASE ~(ForceStep(w) /\ TakeNumber(w))
    BY <2>2 DEF ForceStep, ForceCheckpoint, ForceFails
  <2> QED
    BY <2>1, <2>2
<1>4. RecordTouches'
  <2>1. Holding(Loop) => wseq[Loop] < nextSeq
    BY DEF LoopInv, JournalInv, HeldNumber
  <2> QED
    BY <1>1, <1>2, <1>3, <2>1 DEF RecordTouches, SavedInv, Holding
<1>5. ClearsRecorded'
  <2> SUFFICES ASSUME lpc = "clear" PROVE ClearsRecorded'
    BY <1>1 DEF ClearsRecorded
  <2>1. PICK s \in durable : /\ s \in DOMAIN touched /\ touched[s] = pending
                             /\ db[s].root = pathmap
    BY DEF SavedInv, ClearsRecorded
  <2>2. s \in durable' /\ db'[s] = db[s] /\ s < nextSeq
    BY StepIsJournalStep, StepKeepsDurable, DurableGrows
    DEF LoopInv, JournalInv, JournalTypeOK, NumbersInUse
  <2> QED
    BY <1>1, <1>3, <2>1, <2>2 DEF ClearsRecorded
<1> QED
  BY <1>1, <1>4, <1>5 DEF SavedInv, SavedPending

LEMMA SavedStep == LoopInv /\ LoopInv' /\ SavedInv /\ [LoopNext]_vars => SavedInv'
<1> SUFFICES ASSUME LoopInv, LoopInv', SavedInv, [LoopNext]_vars PROVE SavedInv'
  OBVIOUS
<1> USE DEF watchVars, diskVars, stepVars, flushVars
<1>1. RecordsDraft'
  BY RecordsStep DEF SavedInv
<1>2. ASSUME UNCHANGED journalVars,
             UNCHANGED <<alive, serving, lpc, saved, pending, pathmap, touched>>
      PROVE  SavedInv'
  BY <1>1, <1>2
  DEF SavedInv, SavedPending, RecordTouches, ClearsRecorded, journalVars, writerVars
<1>3. ASSUME SavedPending', lpc' \notin {"append", "clear"}
      PROVE  SavedInv'
  BY <1>1, <1>3 DEF SavedInv, RecordTouches, ClearsRecorded
<1>4. ASSUME \/ \E p \in Path, v \in Editable : Edit(p, v)
             \/ Pause \/ Resume \/ InvalidatePathmap
             \/ \E mode \in {"fast", "reliable"} : RequestFlush(mode)
      PROVE  SavedInv'
  BY <1>2, <1>4 DEF Edit, Pause, Resume, InvalidatePathmap, RequestFlush
<1>5. ASSUME PollBranch \/ PeriodicBranch \/ FlushBranch \/ Shutdown
      PROVE  SavedInv'
  <2>1. lpc' \notin {"append", "clear"}
    BY <1>5 DEF PollBranch, PeriodicBranch, FlushBranch, Shutdown, Begin, ToExit
  <2>2. lpc = "select" /\ serving # "shutdown" /\ saved \subseteq pending
    BY <1>5 DEF PollBranch, PeriodicBranch, FlushBranch, Shutdown, SavedInv, SavedPending
  <2>3. ASSUME PollBranch
        PROVE  SavedPending'
    BY <2>2, <2>3 DEF PollBranch, SavedPending
  <2>4. ASSUME PeriodicBranch
        PROVE  SavedPending'
    BY <2>2, <2>4 DEF PeriodicBranch, Begin, SavedPending
  <2>5. ASSUME FlushBranch
        PROVE  SavedPending'
    <3>1. serving' # "shutdown" /\ saved' = saved /\ pending \subseteq pending'
      BY <2>2, <2>5 DEF FlushBranch, Begin, LoopInv, LoopTypes
    <3> QED
      BY <2>2, <3>1 DEF SavedPending
  <2>6. ASSUME Shutdown
        PROVE  SavedPending'
    BY <2>6 DEF Shutdown, Begin, ToExit, SavedPending
  <2> QED
    BY <1>3, <1>5, <2>1, <2>3, <2>4, <2>5, <2>6
<1>6. ASSUME \/ ScanDone \/ ScanFails \/ ReconcileFails \/ LoopAppendFails \/ PublishFails
             \/ \E p \in Path : ScanPath(p) \/ ReconcilePath(p)
      PROVE  SavedInv'
  <2>1. lpc' \notin {"append", "clear"}
    BY <1>6 DEF ScanDone, ScanFails, ReconcileFails, LoopAppendFails, PublishFails,
       ScanPath, ReconcilePath, Begin, GiveUp, ToSelect, ToExit
  <2>2. SavedPending'
    BY <1>6 DEF ScanDone, ScanFails, ReconcileFails, LoopAppendFails, PublishFails,
       ScanPath, ReconcilePath, Begin, GiveUp, ToSelect, ToExit, SavedInv, SavedPending
  <2> QED
    BY <1>3, <2>1, <2>2
<1>7. ASSUME ReadParent
      PROVE  SavedInv'
  <2>1. lpc' = "append" /\ wpc'[Loop] = "parented"
    BY <1>7, LoopAssumption DEF ReadParent, ReadLatest, LoopInv, JournalInv, JournalTypeOK
  <2> QED
    BY <1>1, <1>7, <2>1
    DEF ReadParent, SavedInv, SavedPending, RecordTouches, ClearsRecorded
<1>8. ASSUME LoopAppends
      PROVE  SavedInv'
  <2>1. lpc = "append" /\ UNCHANGED <<alive, serving, lpc, saved, pending, pathmap>>
    BY <1>8 DEF LoopAppends
  <2>2. wseq'[Loop] \in DOMAIN touched' /\ touched'[wseq'[Loop]] = pending
    <3>1. CASE TakeNumber(Loop)
      <4>1. touched' = [s \in DOMAIN touched \cup {wseq'[Loop]} |->
                          IF s = wseq'[Loop] THEN pending ELSE touched[s]]
        BY <1>8, <3>1 DEF LoopAppends, TakeNumber, InsertRecord, InsertIndex, Flush
      <4> QED
        BY <4>1
    <3>2. CASE ~TakeNumber(Loop)
      <4>1. wseq' = wseq /\ touched' = touched /\ Holding(Loop)
        BY <1>8, <3>2 DEF LoopAppends, InsertRecord, InsertIndex, Flush, Holding
      <4> QED
        BY <2>1, <4>1 DEF SavedInv, RecordTouches, Holding
    <3> QED
      BY <3>1, <3>2
  <2> QED
    BY <1>1, <2>1, <2>2 DEF SavedInv, SavedPending, RecordTouches, ClearsRecorded
<1>9. ASSUME Publish
      PROVE  SavedInv'
  <2>1. /\ lpc = "append" /\ lpc' = "clear" /\ wpc[Loop] = "flushed"
        /\ UNCHANGED <<alive, serving, saved, pending, touched, durable, db>>
        /\ pathmap' = draft
    BY <1>9 DEF Publish, CountOne
  <2>2. wseq[Loop] \in durable /\ db[wseq[Loop]].root = draft
    BY <2>1 DEF SavedInv, RecordsDraft
  <2>3. wseq[Loop] \in DOMAIN touched /\ touched[wseq[Loop]] = pending
    BY <2>1 DEF SavedInv, RecordTouches
  <2> QED
    BY <1>1, <2>1, <2>2, <2>3 DEF SavedInv, SavedPending, RecordTouches, ClearsRecorded
<1>10. ASSUME Clear
       PROVE  SavedInv'
  BY <1>3, <1>10 DEF Clear, ToSelect, ToExit, SavedPending
<1>11. ASSUME Exit \/ Crash \/ Start
       PROVE  SavedInv'
  <2>1. lpc' = "select" /\ (alive' => pending' = saved')
    BY <1>11 DEF Exit, Crash, Start, Vanish, ToSelect, SavedInv, RecordsDraft
  <2>2. serving' # "shutdown"
    BY <1>11 DEF Exit, Crash, Start, Vanish, ToSelect, SavedInv, SavedPending, RecordsDraft
  <2> QED
    BY <1>3, <2>1, <2>2 DEF SavedPending
<1>12. ASSUME NEW w \in Writer \ {Loop}, ForceCheckpoint(w) \/ ForceStep(w) \/ ForceFails(w)
       PROVE  SavedInv'
  BY <1>1, <1>12, SavedBeside
<1>13. CASE UNCHANGED vars
  BY <1>2, <1>13 DEF vars, loopVars
<1> QED
  BY <1>4, <1>5, <1>6, <1>7, <1>8, <1>9, <1>10, <1>11, <1>12, <1>13 DEF LoopNext, LoopStep

(* A saved pending path leaves its file only when a durable checkpoint has *)
(* been made for it whose tree is the daemon's map, or the daemon dies: no *)
(* failing step, shutdown, forced checkpoint, rebuilt map or restart makes *)
(* the daemon forget one.                                                  *)
THEOREM SavedKeptUntilRecorded == LoopSpec => SavedUntilRecorded
<1>1. LoopInit => SavedInv
  BY DEF LoopInit, SavedInv, RecordsDraft, SavedPending, RecordTouches, ClearsRecorded
<1>2. LoopInv /\ SavedInv /\ [LoopNext]_vars =>
        [\A p \in saved \ saved' :
           ~alive' \/ \E s \in durable : p \in touched[s] /\ db[s].root = pathmap]_vars
  <2> SUFFICES ASSUME LoopInv, SavedInv, LoopNext, NEW p \in saved \ saved', alive'
               PROVE  \E s \in durable : p \in touched[s] /\ db[s].root = pathmap
    OBVIOUS
  <2> USE DEF watchVars, diskVars, stepVars, flushVars
  <2>1. CASE Clear
    <3>1. alive /\ lpc = "clear" /\ serving # "shutdown"
      BY <2>1 DEF Clear
    <3>2. p \in pending
      BY <3>1 DEF SavedInv, SavedPending
    <3> QED
      BY <3>1, <3>2 DEF SavedInv, ClearsRecorded
  <2>2. ASSUME saved' = pending, alive, serving # "shutdown", lpc # "exit"
        PROVE  FALSE
    BY <2>2 DEF SavedInv, SavedPending
  <2>3. ASSUME saved' = saved
        PROVE  FALSE
    BY <2>3
  <2>4. CASE ReconcileFails \/ LoopAppendFails \/ PublishFails
    BY <2>2, <2>3, <2>4 DEF ReconcileFails, LoopAppendFails, PublishFails, GiveUp
  <2>5. CASE PollBranch
    BY <2>5 DEF PollBranch, SavedInv, SavedPending
  <2>6. CASE \/ \E q \in Path, v \in Editable : Edit(q, v)
             \/ Pause \/ Resume \/ InvalidatePathmap
             \/ \E mode \in {"fast", "reliable"} : RequestFlush(mode)
             \/ \E w \in Writer : ForceCheckpoint(w) \/ ForceStep(w) \/ ForceFails(w)
             \/ PeriodicBranch \/ FlushBranch \/ Shutdown
    BY <2>3, <2>6 DEF Edit, Pause, Resume, InvalidatePathmap, RequestFlush,
       ForceCheckpoint, ForceStep, ForceFails, PeriodicBranch, FlushBranch, Shutdown
  <2>7. CASE \/ ReadParent \/ LoopAppends \/ Publish \/ ScanDone \/ ScanFails
             \/ \E q \in Path : ScanPath(q) \/ ReconcilePath(q)
    BY <2>3, <2>7 DEF ReadParent, LoopAppends, Publish, ScanDone, ScanFails, ScanPath,
       ReconcilePath
  <2>8. CASE Exit \/ Crash \/ Start
    BY <2>3, <2>8 DEF Exit, Crash, Start, Vanish
  <2> QED
    BY <2>1, <2>4, <2>5, <2>6, <2>7, <2>8 DEF LoopNext, LoopStep
<1> QED
  BY <1>1, <1>2, SavedStep, LoopSpecInv, PTL DEF LoopSpec, SavedUntilRecorded

-------------------------------------------------------------------------------
(* A daemon that is never restarted and never meets a file it cannot read, *)
(* in a repository that was empty when it was made.                        *)
Undisturbed ==
  /\ \A kind \in {"vanish", "crash", "stop"} : Budget[kind] = 0
  /\ Unreadable \notin Editable
  /\ StartTrees \subseteq {EmptyTree}

(* What Undisturbed means for the states.                                  *)
Quiet ==
  /\ \A kind \in {"vanish", "crash", "stop"} : left[kind] = 0
  /\ \A p \in Path : wd[p] # Unreadable
  /\ alive /\ lpc # "exit" /\ serving # "shutdown"

(* The paths a checkpoint under way still has to take from pending, and    *)
(* those whose latest state is only in the watcher or in todo.             *)
Behind(map) == {p \in Path : wd[p] # Dir /\ wd[p] # map[p]}

NothingForgotten ==
  /\ Behind(pathmap) \subseteq inflight \cup pending
  /\ lpc = "reconcile" => todo \subseteq pending
  /\ lpc \in {"reconcile", "append"} => Behind(draft) \subseteq inflight \cup todo
  /\ lpc \in {"append", "clear"} => todo = {}
  /\ lpc = "clear" => Behind(pathmap) \subseteq inflight

(* What makes it safe to take the tree of HEAD for the path map.           *)
MayRebuild ==
  stale => \A root \in HeadRoots : Behind(root) \subseteq inflight \cup pending

LEMMA ForgottenIsLost == NothingForgotten => NoLostChange
BY DEF NothingForgotten, NoLostChange, Behind

LEMMA QuietInit == Undisturbed /\ LoopInit => Quiet /\ NothingForgotten
<1> SUFFICES ASSUME Undisturbed, LoopInit PROVE Quiet /\ NothingForgotten
  OBVIOUS
<1>1. PICK tree \in StartTrees :
        \A p \in Path : wd[p] # Unreadable /\ AsEntry(wd[p]) = tree[p]
  BY DEF LoopInit
<1>2. tree = EmptyTree
  BY DEF Undisturbed
<1>3. \A p \in Path : wd[p] # Dir => wd[p] = EmptyTree[p]
  BY <1>1, <1>2 DEF AsEntry
<1>4. Behind(pathmap) = {}
  BY <1>3 DEF Behind, LoopInit
<1>5. Quiet
  BY <1>1 DEF Quiet, Undisturbed, LoopInit
<1> QED
  BY <1>4, <1>5 DEF NothingForgotten, LoopInit

LEMMA NeverDisturbed ==
  ASSUME LoopInv, Quiet
  PROVE  ~(Shutdown \/ Exit \/ Crash \/ Start \/ ScanFails)
<1>1. \A kind \in {"vanish", "crash", "stop"} : ~Spend(kind)
  BY DEF Spend, Quiet
<1>2. alive /\ lpc # "exit" /\ \A p \in Path : wd[p] # Unreadable
  BY DEF Quiet
<1>3. ~ScanFails
  BY <1>1, <1>2 DEF ScanFails, LoopInv, LoopTypes
<1> QED
  BY <1>1, <1>2, <1>3 DEF Shutdown, Exit, Crash, Start

LEMMA QuietStep ==
  ASSUME Undisturbed
  PROVE  LoopInv /\ Quiet /\ NothingForgotten /\ MayRebuild /\ [LoopNext]_vars
           => Quiet' /\ NothingForgotten'
<1> SUFFICES ASSUME LoopInv, Quiet, NothingForgotten, MayRebuild, [LoopNext]_vars
             PROVE  Quiet' /\ NothingForgotten'
  OBVIOUS
<1> USE DEF watchVars, diskVars, stepVars, flushVars
<1>1. ASSUME NEW p \in Path, NEW v \in Editable, Edit(p, v)
      PROVE  Quiet' /\ NothingForgotten'
  <2>1. /\ \A q \in Path : wd'[q] = IF q = p THEN v ELSE wd[q]
        /\ inflight' = inflight \cup {p}
        /\ UNCHANGED <<pathmap, pending, lpc, todo, draft, alive, serving>>
    BY <1>1 DEF Edit, Quiet, LoopInv, LoopTypes
  <2>2. NothingForgotten'
    BY <2>1 DEF NothingForgotten, Behind
  <2>3. Quiet'
    BY <1>1, <2>1 DEF Quiet, Edit, Spend, Undisturbed, LoopInv, LoopTypes, EventKind
  <2> QED
    BY <2>2, <2>3
<1>2. ASSUME \/ Pause \/ Resume \/ InvalidatePathmap
             \/ \E mode \in {"fast", "reliable"} : RequestFlush(mode)
             \/ \E w \in Writer : ForceCheckpoint(w) \/ ForceFails(w)
      PROVE  Quiet' /\ NothingForgotten'
  <2>1. UNCHANGED <<wd, inflight, pathmap, pending, lpc, todo, draft, alive, serving>>
    BY <1>2 DEF Pause, Resume, InvalidatePathmap, RequestFlush, ForceCheckpoint, ForceFails
  <2>2. \A kind \in {"vanish", "crash", "stop"} : left'[kind] = left[kind]
    BY <1>2 DEF Pause, Resume, InvalidatePathmap, RequestFlush, ForceCheckpoint, ForceFails,
       Spend, LoopInv, LoopTypes, EventKind
  <2> QED
    BY <2>1, <2>2 DEF Quiet, NothingForgotten, Behind
<1>3. ASSUME NEW w \in Writer, ForceStep(w)
      PROVE  Quiet' /\ NothingForgotten'
  BY <1>3 DEF ForceStep, Quiet, NothingForgotten, Behind
<1>4. ASSUME PollBranch
      PROVE  Quiet' /\ NothingForgotten'
  BY <1>4 DEF PollBranch, Quiet, NothingForgotten, Behind
<1>5. ASSUME PeriodicBranch
      PROVE  Quiet' /\ NothingForgotten'
  <2>1. Behind(pathmap') \subseteq inflight \cup pending
    BY <1>5 DEF PeriodicBranch, Rebuild, MayRebuild, NothingForgotten
  <2>2. /\ UNCHANGED <<wd, inflight, pending, alive, left>>
        /\ lpc' = "reconcile" /\ serving' = "tick" /\ todo' = pending /\ draft' = pathmap'
    BY <1>5 DEF PeriodicBranch, Begin
  <2>3. NothingForgotten'
    BY <2>1, <2>2 DEF NothingForgotten, Behind
  <2> QED
    BY <2>2, <2>3 DEF Quiet
<1>6. ASSUME FlushBranch
      PROVE  Quiet' /\ NothingForgotten'
  BY <1>6 DEF FlushBranch, Begin, Quiet, NothingForgotten, Behind, LoopInv, LoopTypes
<1>7. ASSUME NEW p \in Path, ScanPath(p)
      PROVE  Quiet' /\ NothingForgotten'
  BY <1>7 DEF ScanPath, Quiet, NothingForgotten, Behind
<1>8. ASSUME ScanDone
      PROVE  Quiet' /\ NothingForgotten'
  BY <1>8 DEF ScanDone, Begin, ToSelect, Quiet, NothingForgotten, Behind
<1>9. ASSUME NEW p \in Path, ReconcilePath(p)
      PROVE  Quiet' /\ NothingForgotten'
  <2>1. \A q \in Path : draft'[q] = IF q = p /\ wd[p] # Dir THEN wd[p] ELSE draft[q]
    BY <1>9, LoopAssumption DEF ReconcilePath, LoopInv, LoopTypes
  <2>2. Behind(draft') \subseteq Behind(draft) \ {p}
    BY <2>1 DEF Behind
  <2> QED
    BY <1>9, <2>2 DEF ReconcilePath, Quiet, NothingForgotten, Behind
<1>10. ASSUME ReconcileFails
       PROVE  Quiet' /\ NothingForgotten'
  BY <1>10 DEF ReconcileFails, GiveUp, ToSelect, Quiet, NothingForgotten, Behind
<1>11. ASSUME ReadParent
       PROVE  Quiet' /\ NothingForgotten'
  BY <1>11 DEF ReadParent, Quiet, NothingForgotten, Behind
<1>12. ASSUME LoopAppends
       PROVE  Quiet' /\ NothingForgotten'
  BY <1>12 DEF LoopAppends, Quiet, NothingForgotten, Behind
<1>13. ASSUME LoopAppendFails \/ PublishFails
       PROVE  Quiet' /\ NothingForgotten'
  <2>1. \A kind \in {"vanish", "crash", "stop"} : left'[kind] = left[kind]
    BY <1>13 DEF LoopAppendFails, PublishFails, Spend, LoopInv, LoopTypes, EventKind
  <2>2. lpc' = "select" /\ UNCHANGED <<wd, inflight, pending, alive>> /\ serving' = "none"
    BY <1>13 DEF LoopAppendFails, PublishFails, GiveUp, ToSelect, Quiet
  <2>3. pathmap' = pathmap \/ (pathmap' = draft /\ lpc = "append")
    BY <1>13 DEF LoopAppendFails, PublishFails
  <2>4. Behind(pathmap') \subseteq inflight \cup pending
    BY <2>3 DEF NothingForgotten
  <2>5. NothingForgotten'
    BY <2>2, <2>4 DEF NothingForgotten, Behind
  <2> QED
    BY <2>1, <2>2, <2>5 DEF Quiet
<1>14. ASSUME Publish
       PROVE  Quiet' /\ NothingForgotten'
  BY <1>14 DEF Publish, Quiet, NothingForgotten, Behind
<1>15. ASSUME Clear
       PROVE  Quiet' /\ NothingForgotten'
  BY <1>15 DEF Clear, ToSelect, Quiet, NothingForgotten, Behind
<1>16. ASSUME Shutdown \/ Exit \/ Crash \/ Start \/ ScanFails
       PROVE  FALSE
  BY <1>16, NeverDisturbed
<1>17. CASE UNCHANGED vars
  BY <1>17 DEF vars, loopVars, Quiet, NothingForgotten, Behind
<1> QED
  BY <1>1, <1>2, <1>3, <1>4, <1>5, <1>6, <1>7, <1>8, <1>9, <1>10, <1>11, <1>12, <1>13,
     <1>14, <1>15, <1>16, <1>17 DEF LoopNext, LoopStep

(* As long as no map is rebuilt, no change is lost between the watcher,    *)
(* the pending paths and the path map, however edits, flushes, locks,      *)
(* forced checkpoints and failures of the journal or of the path map file  *)
(* fall between the steps of the loop.                                     *)
THEOREM NoChangeLost ==
  ASSUME Undisturbed, Budget["stale"] = 0
  PROVE  LoopSpec => []NoLostChange
<1>1. LoopInit => NeverStale
  BY DEF LoopInit, NeverStale
<1>2. NeverStale => MayRebuild
  BY DEF NeverStale, MayRebuild
<1> QED
  BY <1>1, <1>2, StaleStep, QuietInit, QuietStep, LoopSpecInv, ForgottenIsLost, PTL
  DEF LoopSpec

-------------------------------------------------------------------------------
(* The loop is the only task that appends.                                 *)
OnlyLoop == \A w \in Writer : w = Loop

(* What ties HEAD to the path map: while the loop appends, its checkpoint  *)
(* has the draft for a tree, and once indexed it is HEAD.                  *)
HeadFollows ==
  /\ \A root \in HeadRoots : Behind(root) \subseteq inflight \cup pending
  /\ lpc # "append" => wpc[Loop] = "idle"
  /\ lpc = "append" => wroot[Loop] = draft
  /\ lpc = "append" /\ wpc[Loop] = "stored" => db[wseq[Loop]].root = draft
  /\ lpc = "append" /\ wpc[Loop] \in {"indexed", "flushed"} => HeadRoots = {draft}
  /\ lpc = "clear" => HeadRoots = {pathmap}

LEMMA HeadFollowsIsComplete == HeadFollows => HeadComplete
BY DEF HeadFollows, HeadComplete, Behind

LEMMA HeadInit ==
  ASSUME Undisturbed
  PROVE  LoopInit => HeadFollows /\ SoloInv
<1> SUFFICES ASSUME LoopInit PROVE HeadFollows /\ SoloInv
  OBVIOUS
<1>1. PICK tree \in StartTrees :
        /\ IF tree = EmptyTree
             THEN JournalOpen(EmptyHistory)
             ELSE JournalOpen([s \in {1} |-> [parent |-> NoParent, root |-> tree]])
        /\ \A p \in Path : wd[p] # Unreadable /\ AsEntry(wd[p]) = tree[p]
  BY DEF LoopInit
<1>2. tree = EmptyTree /\ Init
  BY <1>1 DEF Undisturbed, Init
<1>3. SoloInv
  BY <1>2, InitSolo
<1>4. index = {} /\ wpc[Loop] = "idle"
  BY <1>2, LoopAssumption DEF Init, JournalOpen, EmptyHistory
<1>5. HeadRoots = {EmptyTree}
  BY <1>4 DEF HeadRoots, Latest, LatestIn
<1>6. Behind(EmptyTree) = {}
  BY <1>1, <1>2 DEF Behind, AsEntry
<1> QED
  BY <1>3, <1>4, <1>5, <1>6 DEF HeadFollows, LoopInit

(* A step that leaves the journal alone leaves HEAD alone.                 *)
LEMMA SameJournalSameHead ==
  UNCHANGED journalVars => HeadRoots' = HeadRoots /\ wpc' = wpc /\ wroot' = wroot
                             /\ db' = db /\ wseq' = wseq
BY DEF journalVars, writerVars, HeadRoots, Latest

LEMMA SameIndexSameHead ==
  ASSUME index' = index, JournalInv, \A s \in index : db'[s] = db[s]
  PROVE  HeadRoots' = HeadRoots
<1>1. Latest' = Latest
  BY DEF Latest
<1>2. \A h \in Latest : h = NoParent \/ h \in index
  BY LatestBounds DEF Latest, JournalInv, JournalTypeOK
<1> QED
  BY <1>1, <1>2 DEF HeadRoots

(* The checkpoint that enters the index becomes HEAD.                      *)
LEMMA HeadAfterIndex ==
  ASSUME JournalInv, SoloInv, NEW w \in Writer, InsertIndex(w)
  PROVE  HeadRoots' = {db[wseq[w]].root}
<1> DEFINE n == wseq[w]
<1>1. index' = index \cup {n} /\ db' = db /\ wpc[w] = "stored"
  BY DEF InsertIndex
<1>2. /\ n \in Nat /\ wparent[w] \in Nat /\ wparent[w] < n
      /\ \A t \in DOMAIN db : t \in Nat
  BY <1>1 DEF JournalInv, JournalTypeOK, HeldNumber, Holding
<1>3. \A t \in index : t <= n
  BY <1>1, <1>2 DEF SoloInv, AtHead, JournalInv, JournalTypeOK
<1>4. n \in index' /\ \A t \in index' : t \in Nat /\ t <= n
  BY <1>1, <1>2, <1>3 DEF JournalInv, JournalTypeOK
<1>5. \A s \in index' : (\A t \in index' : t <= s) <=> s = n
  BY <1>2, <1>4
<1>6. Latest' = {n}
  BY <1>4, <1>5 DEF Latest, LatestIn, Greatest
<1>7. n # NoParent
  BY <1>2 DEF NoParent
<1> QED
  BY <1>1, <1>6, <1>7 DEF HeadRoots

LEMMA HeadStep ==
  ASSUME Undisturbed, OnlyLoop
  PROVE  LoopInv /\ SoloInv /\ Quiet /\ NothingForgotten /\ HeadFollows /\ [LoopNext]_vars
           => HeadFollows'
<1> SUFFICES ASSUME LoopInv, SoloInv, Quiet, NothingForgotten, HeadFollows, [LoopNext]_vars
             PROVE  HeadFollows'
  OBVIOUS
<1> USE DEF watchVars, diskVars, stepVars, flushVars
<1>1. ASSUME NEW p \in Path, NEW v \in Editable, Edit(p, v)
      PROVE  HeadFollows'
  <2>1. /\ \A q \in Path : wd'[q] = IF q = p THEN v ELSE wd[q]
        /\ inflight' = inflight \cup {p}
        /\ UNCHANGED journalVars
        /\ UNCHANGED <<pathmap, pending, lpc, draft>>
    BY <1>1 DEF Edit, Quiet, LoopInv, LoopTypes
  <2> QED
    BY <2>1, SameJournalSameHead DEF HeadFollows, Behind
<1>2. ASSUME \/ Pause \/ Resume \/ InvalidatePathmap
             \/ \E mode \in {"fast", "reliable"} : RequestFlush(mode)
      PROVE  HeadFollows'
  <2>1. UNCHANGED <<wd, inflight, pathmap, pending, lpc, draft>> /\ UNCHANGED journalVars
    BY <1>2 DEF Pause, Resume, InvalidatePathmap, RequestFlush
  <2> QED
    BY <2>1, SameJournalSameHead DEF HeadFollows, Behind
<1>3. ASSUME PollBranch \/ PeriodicBranch \/ FlushBranch
      PROVE  HeadFollows'
  <2>1. /\ UNCHANGED journalVars /\ wd' = wd
        /\ inflight \cup pending \subseteq inflight' \cup pending'
        /\ lpc = "select" /\ lpc' \notin {"append", "clear"}
    BY <1>3 DEF PollBranch, PeriodicBranch, FlushBranch, Begin
  <2> QED
    BY <2>1, SameJournalSameHead DEF HeadFollows, Behind
<1>4. ASSUME ScanDone \/ ReconcileFails \/ \E p \in Path : ScanPath(p) \/ ReconcilePath(p)
      PROVE  HeadFollows'
  <2>1. /\ UNCHANGED journalVars /\ UNCHANGED <<wd, pathmap, inflight>>
        /\ pending \subseteq pending'
        /\ lpc \notin {"append", "clear"} /\ lpc' \notin {"append", "clear"}
    BY <1>4 DEF ScanDone, ReconcileFails, ScanPath, ReconcilePath, GiveUp, ToSelect,
       ToExit, Begin
  <2> QED
    BY <2>1, SameJournalSameHead DEF HeadFollows, Behind
<1>5. ASSUME ReadParent
      PROVE  HeadFollows'
  <2>1. /\ index' = index /\ db' = db
        /\ wpc'[Loop] = "parented" /\ wroot'[Loop] = draft
        /\ lpc' = "append"
        /\ UNCHANGED <<wd, inflight, pathmap, pending, draft>>
    BY <1>5, LoopAssumption
    DEF ReadParent, ReadLatest, LoopInv, JournalInv, JournalTypeOK
  <2>2. HeadRoots' = HeadRoots
    BY <2>1, SameIndexSameHead DEF LoopInv
  <2> QED
    BY <2>1, <2>2 DEF HeadFollows, Behind
<1>6. ASSUME LoopAppends
      PROVE  HeadFollows'
  <2>1. lpc = "append" /\ lpc' = lpc /\ UNCHANGED <<wd, inflight, pathmap, pending, draft>>
    BY <1>6 DEF LoopAppends
  <2>2. wroot[Loop] = draft
    BY <2>1 DEF HeadFollows
  <2>3. CASE TakeNumber(Loop)
    <3>1. index' = index /\ db' = db /\ wroot' = wroot /\ wpc'[Loop] = "numbered"
      BY <2>3, LoopAssumption DEF TakeNumber, LoopInv, JournalInv, JournalTypeOK
    <3>2. HeadRoots' = HeadRoots
      BY <3>1, SameIndexSameHead DEF LoopInv
    <3> QED
      BY <2>1, <3>1, <3>2 DEF HeadFollows, Behind
  <2>4. CASE InsertRecord(Loop)
    <3>1. /\ index' = index /\ wroot' = wroot /\ wseq' = wseq /\ wpc'[Loop] = "stored"
          /\ db'[wseq[Loop]].root = wroot[Loop]
          /\ \A s \in DOMAIN db \ {wseq[Loop]} : db'[s] = db[s]
      BY <2>4, LoopAssumption DEF InsertRecord, LoopInv, JournalInv, JournalTypeOK
    <3>2. \A s \in index : db'[s] = db[s]
      BY <2>4, <3>1, LoopAssumption
      DEF InsertRecord, LoopInv, JournalInv, JournalTypeOK, HeldNumber
    <3>3. HeadRoots' = HeadRoots
      BY <3>1, <3>2, SameIndexSameHead DEF LoopInv
    <3> QED
      BY <2>1, <2>2, <3>1, <3>3 DEF HeadFollows, Behind
  <2>5. CASE InsertIndex(Loop)
    <3>1. wpc[Loop] = "stored" /\ wpc'[Loop] = "indexed" /\ wroot' = wroot
      BY <2>5, LoopAssumption DEF InsertIndex, LoopInv, JournalInv, JournalTypeOK
    <3>2. HeadRoots' = {draft}
      BY <2>1, <2>5, <3>1, HeadAfterIndex, LoopAssumption DEF LoopInv, HeadFollows
    <3>3. Behind(draft) \subseteq inflight
      BY <2>1 DEF NothingForgotten
    <3> QED
      BY <2>1, <2>2, <3>1, <3>2, <3>3 DEF HeadFollows, Behind
  <2>6. CASE Flush(Loop)
    <3>1. index' = index /\ db' = db /\ wroot' = wroot /\ wpc[Loop] = "indexed"
            /\ wpc'[Loop] = "flushed"
      BY <2>6, LoopAssumption DEF Flush, LoopInv, JournalInv, JournalTypeOK
    <3>2. HeadRoots' = HeadRoots
      BY <3>1, SameIndexSameHead DEF LoopInv
    <3> QED
      BY <2>1, <3>1, <3>2 DEF HeadFollows, Behind
  <2> QED
    BY <1>6, <2>3, <2>4, <2>5, <2>6 DEF LoopAppends
<1>7. ASSUME LoopAppendFails \/ PublishFails
      PROVE  HeadFollows'
  <2>1. /\ index' = index /\ db' = db /\ wpc'[Loop] = "idle"
        /\ lpc' = "select" /\ UNCHANGED <<wd, inflight, pending>>
    BY <1>7, LoopAssumption
    DEF LoopAppendFails, PublishFails, AppendFails, CountOne, GiveUp, ToSelect, Quiet,
        LoopInv, JournalInv, JournalTypeOK
  <2>2. HeadRoots' = HeadRoots
    BY <2>1, SameIndexSameHead DEF LoopInv
  <2> QED
    BY <2>1, <2>2 DEF HeadFollows, Behind
<1>8. ASSUME Publish
      PROVE  HeadFollows'
  <2>1. /\ index' = index /\ db' = db /\ wpc[Loop] = "flushed" /\ wpc'[Loop] = "idle"
        /\ lpc = "append" /\ lpc' = "clear" /\ pathmap' = draft
        /\ UNCHANGED <<wd, inflight, pending>>
    BY <1>8, LoopAssumption DEF Publish, CountOne, LoopInv, JournalInv, JournalTypeOK
  <2>2. HeadRoots' = HeadRoots
    BY <2>1, SameIndexSameHead DEF LoopInv
  <2> QED
    BY <2>1, <2>2 DEF HeadFollows, Behind
<1>9. ASSUME Clear
      PROVE  HeadFollows'
  <2>1. /\ UNCHANGED journalVars /\ UNCHANGED <<wd, inflight, pathmap>>
        /\ lpc = "clear" /\ lpc' = "select"
    BY <1>9 DEF Clear, ToSelect, Quiet
  <2>2. HeadRoots' = {pathmap} /\ Behind(pathmap) \subseteq inflight
    BY <2>1, SameJournalSameHead DEF HeadFollows, NothingForgotten
  <2> QED
    BY <2>1, <2>2, SameJournalSameHead DEF HeadFollows, Behind
<1>10. ASSUME \E w \in Writer \ {Loop} : ForceCheckpoint(w) \/ ForceStep(w) \/ ForceFails(w)
       PROVE  FALSE
  BY <1>10 DEF OnlyLoop
<1>11. ASSUME Shutdown \/ Exit \/ Crash \/ Start \/ ScanFails
       PROVE  FALSE
  BY <1>11, NeverDisturbed
<1>12. CASE UNCHANGED vars
  <2>1. UNCHANGED journalVars /\ UNCHANGED <<wd, inflight, pathmap, pending, lpc, draft>>
    BY <1>12 DEF vars, loopVars
  <2> QED
    BY <2>1, SameJournalSameHead DEF HeadFollows, Behind
<1> QED
  BY <1>1, <1>2, <1>3, <1>4, <1>5, <1>6, <1>7, <1>8, <1>9, <1>10, <1>11, <1>12
  DEF LoopNext, LoopStep

LEMMA OneTask ==
  ASSUME OnlyLoop
  PROVE  LoopInv /\ LoopInv' /\ SoloInv /\ [LoopNext]_vars => SoloInv'
<1>1. \A v, w \in Writer : v = w
  BY DEF OnlyLoop
<1> QED
  BY <1>1, StepSolo, StepIsJournalStep DEF LoopInv

LEMMA HeadFollowsMayRebuild == HeadFollows => MayRebuild
BY DEF HeadFollows, MayRebuild

(* While the loop is the only task that appends, HEAD holds every change   *)
(* that is not still on its way to the loop or pending in it, and no       *)
(* change is lost, at every moment of every checkpoint, those that fail    *)
(* and rebuilt maps included.                                              *)
THEOREM HeadAlwaysComplete ==
  ASSUME Undisturbed, OnlyLoop
  PROVE  LoopSpec => [](HeadComplete /\ NoLostChange)
BY QuietInit, QuietStep, OneTask, HeadInit, HeadStep, LoopSpecInv, HeadFollowsIsComplete,
   HeadFollowsMayRebuild, ForgottenIsLost, PTL DEF LoopSpec

-------------------------------------------------------------------------------
(* The paths in which two trees differ.                                    *)
Differ(r, s) == {p \in Path : r[p] # s[p]}

(* All in which HEAD, path map and draft differ is pending, and what the   *)
(* checkpoint under way says it has touched is what is pending.            *)
DeltaPending ==
  /\ \A root \in HeadRoots : Differ(root, pathmap) \subseteq pending
  /\ lpc \in {"reconcile", "append"} => Differ(pathmap, draft) \subseteq pending

TouchedIsPending ==
  /\ index \subseteq DOMAIN touched
  /\ lpc = "append" =>
       /\ wpc[Loop] \in {"parented", "numbered", "stored"} => wparent[Loop] \in Latest
       /\ wpc[Loop] \in {"numbered", "stored"} =>
            wseq[Loop] \in DOMAIN touched /\ touched[wseq[Loop]] = pending
       /\ wpc[Loop] = "stored" => db[wseq[Loop]].parent = wparent[Loop]

DeltaInv == DeltaPending /\ TouchedIsPending /\ DeltaTouched

LEMMA DeltaInit == Undisturbed /\ LoopInit => DeltaInv
<1> SUFFICES ASSUME Undisturbed, LoopInit PROVE DeltaInv
  OBVIOUS
<1>1. PICK tree \in StartTrees :
        IF tree = EmptyTree
          THEN JournalOpen(EmptyHistory)
          ELSE JournalOpen([s \in {1} |-> [parent |-> NoParent, root |-> tree]])
  BY DEF LoopInit
<1>2. index = {}
  BY <1>1 DEF Undisturbed, JournalOpen, EmptyHistory
<1>3. HeadRoots = {EmptyTree}
  BY <1>2 DEF HeadRoots, Latest, LatestIn
<1> QED
  BY <1>2, <1>3 DEF DeltaInv, DeltaPending, Differ, TouchedIsPending, DeltaTouched, LoopInit

(* There is one latest checkpoint at most.                                 *)
LEMMA OneHeadRoot ==
  ASSUME JournalInv, NEW r \in HeadRoots, NEW s \in HeadRoots
  PROVE  r = s
<1>1. \A g, h \in Latest : g = h
  <2>1. index \subseteq Nat
    BY DEF JournalInv, JournalTypeOK
  <2> SUFFICES ASSUME NEW g \in Latest, NEW h \in Latest PROVE g = h
    OBVIOUS
  <2>2. CASE index = {}
    BY <2>2 DEF Latest, LatestIn
  <2>3. CASE index # {}
    <3>1. g \in index /\ h \in index /\ g <= h /\ h <= g
      BY <2>3 DEF Latest, LatestIn, Greatest
    <3> QED
      BY <2>1, <3>1
  <2> QED
    BY <2>2, <2>3
<1> QED
  BY <1>1 DEF HeadRoots

(* A step that changes no indexed record, no entry of touched, and not the *)
(* index keeps the deltas of the history.                                  *)
LEMMA DeltasKept ==
  ASSUME JournalInv, TouchedIsPending, DeltaTouched,
         index' = index, \A s \in index : db'[s] = db[s] /\ touched'[s] = touched[s]
  PROVE  DeltaTouched'
BY DEF JournalInv, JournalTypeOK, ParentsPrecede, DeltaTouched

LEMMA DeltaStep ==
  ASSUME Undisturbed, OnlyLoop
  PROVE  LoopInv /\ SoloInv /\ Quiet /\ NothingForgotten /\ HeadFollows /\ DeltaInv
           /\ [LoopNext]_vars => DeltaInv'
<1> SUFFICES ASSUME LoopInv, SoloInv, Quiet, NothingForgotten, HeadFollows, DeltaInv,
                    [LoopNext]_vars
             PROVE  DeltaInv'
  OBVIOUS
<1> USE DEF watchVars, diskVars, stepVars, flushVars
<1>0. ASSUME UNCHANGED journalVars, touched' = touched
      PROVE  /\ index \subseteq DOMAIN touched /\ index' = index /\ touched' = touched
             /\ DeltaTouched'
  BY <1>0, DeltasKept DEF DeltaInv, TouchedIsPending, LoopInv, journalVars
<1>1. ASSUME UNCHANGED journalVars, UNCHANGED <<touched, pathmap, lpc, pending, draft>>
      PROVE  DeltaInv'
  BY <1>0, <1>1, SameJournalSameHead
  DEF DeltaInv, DeltaPending, TouchedIsPending, journalVars, writerVars, Latest
<1>2. ASSUME UNCHANGED journalVars, UNCHANGED <<touched, pathmap>>,
             lpc' \notin {"reconcile", "append"}, pending \subseteq pending'
      PROVE  DeltaInv'
  BY <1>0, <1>2, SameJournalSameHead DEF DeltaInv, DeltaPending, TouchedIsPending
<1>3. ASSUME UNCHANGED journalVars, touched' = touched, lpc' = "reconcile",
             draft' = pathmap', pending \subseteq pending',
             pathmap' = pathmap \/ pathmap' \in HeadRoots
      PROVE  DeltaInv'
  <2>1. \A root \in HeadRoots : Differ(root, pathmap') \subseteq pending
    BY <1>3, OneHeadRoot DEF DeltaInv, DeltaPending, Differ, LoopInv
  <2>2. Differ(pathmap', draft') = {}
    BY <1>3 DEF Differ
  <2> QED
    BY <1>0, <1>3, <2>1, <2>2, SameJournalSameHead DEF DeltaInv, DeltaPending, TouchedIsPending
<1>4. ASSUME \/ Pause \/ Resume \/ InvalidatePathmap
             \/ \E mode \in {"fast", "reliable"} : RequestFlush(mode)
             \/ \E p \in Path, v \in Editable : Edit(p, v)
      PROVE  DeltaInv'
  BY <1>1, <1>4 DEF Pause, Resume, InvalidatePathmap, RequestFlush, Edit
<1>5. ASSUME PollBranch
      PROVE  DeltaInv'
  BY <1>2, <1>5 DEF PollBranch
<1>6. ASSUME PeriodicBranch
      PROVE  DeltaInv'
  BY <1>3, <1>6 DEF PeriodicBranch, Rebuild, Begin
<1>7. ASSUME FlushBranch
      PROVE  DeltaInv'
  <2>1. UNCHANGED journalVars /\ UNCHANGED <<touched, pathmap>> /\ pending \subseteq pending'
    BY <1>7 DEF FlushBranch
  <2>2. lpc' \notin {"reconcile", "append"} \/ (lpc' = "reconcile" /\ draft' = pathmap)
    BY <1>7 DEF FlushBranch, Begin
  <2> QED
    BY <1>2, <1>3, <2>1, <2>2
<1>8. ASSUME NEW p \in Path, ScanPath(p)
      PROVE  DeltaInv'
  BY <1>2, <1>8 DEF ScanPath
<1>9. ASSUME ScanDone
      PROVE  DeltaInv'
  <2>1. UNCHANGED journalVars /\ UNCHANGED <<touched, pathmap, pending>>
    BY <1>9 DEF ScanDone
  <2>2. lpc' \notin {"reconcile", "append"} \/ (lpc' = "reconcile" /\ draft' = pathmap)
    BY <1>9 DEF ScanDone, Begin, ToSelect
  <2> QED
    BY <1>2, <1>3, <2>1, <2>2
<1>10. ASSUME NEW p \in Path, ReconcilePath(p)
       PROVE  DeltaInv'
  <2>1. /\ UNCHANGED journalVars /\ UNCHANGED <<touched, pathmap, pending, lpc>>
        /\ lpc = "reconcile" /\ p \in pending
    BY <1>10 DEF ReconcilePath, NothingForgotten
  <2>2. \A q \in Path \ {p} : draft'[q] = draft[q]
    BY <1>10, LoopAssumption DEF ReconcilePath, LoopInv, LoopTypes
  <2>3. Differ(pathmap, draft') \subseteq pending
    BY <2>1, <2>2 DEF DeltaInv, DeltaPending, Differ
  <2> QED
    BY <1>0, <2>1, <2>3, SameJournalSameHead DEF DeltaInv, DeltaPending, TouchedIsPending
<1>11. ASSUME ReconcileFails
       PROVE  DeltaInv'
  <2>1. UNCHANGED journalVars /\ UNCHANGED <<touched, pathmap, pending>> /\ lpc' = "select"
    BY <1>11 DEF ReconcileFails, GiveUp, ToSelect, Quiet
  <2> QED
    BY <1>2, <2>1
<1>12. ASSUME ReadParent
       PROVE  DeltaInv'
  <2>1. /\ index' = index /\ db' = db
        /\ UNCHANGED <<touched, pathmap, pending, draft>>
        /\ lpc = "reconcile" /\ lpc' = "append"
        /\ wpc'[Loop] = "parented" /\ wparent'[Loop] \in Latest
    BY <1>12, LoopAssumption
    DEF ReadParent, ReadLatest, LoopInv, JournalInv, JournalTypeOK
  <2>2. HeadRoots' = HeadRoots /\ Latest' = Latest
    BY <2>1, SameIndexSameHead DEF LoopInv, Latest
  <2>3. DeltaTouched'
    BY <2>1, DeltasKept DEF DeltaInv, LoopInv
  <2> QED
    BY <2>1, <2>2, <2>3 DEF DeltaInv, DeltaPending, TouchedIsPending
<1>13. ASSUME LoopAppends
       PROVE  DeltaInv'
  <2> DEFINE n == wseq[Loop]
  <2>1. /\ lpc = "append" /\ lpc' = lpc /\ UNCHANGED <<pathmap, pending, draft>>
    BY <1>13 DEF LoopAppends
  <2>2. CASE TakeNumber(Loop)
    <3>1. /\ index' = index /\ db' = db /\ wparent' = wparent
          /\ wpc[Loop] = "parented" /\ wpc'[Loop] = "numbered" /\ wseq'[Loop] = nextSeq
      BY <2>2, LoopAssumption DEF TakeNumber, LoopInv, JournalInv, JournalTypeOK
    <3>2. touched' = [s \in DOMAIN touched \cup {wseq'[Loop]} |->
                        IF s = wseq'[Loop] THEN pending ELSE touched[s]]
      BY <1>13, <2>2 DEF LoopAppends, TakeNumber, InsertRecord, InsertIndex, Flush
    <3>3. \A s \in index : s \in DOMAIN touched /\ s # nextSeq
      BY DEF DeltaInv, TouchedIsPending, LoopInv, JournalInv, JournalTypeOK, NumbersInUse
    <3>4. \A s \in index : touched'[s] = touched[s]
      BY <3>1, <3>2, <3>3
    <3>5. HeadRoots' = HeadRoots /\ Latest' = Latest /\ DeltaTouched'
      BY <3>1, <3>4, SameIndexSameHead, DeltasKept DEF LoopInv, Latest, DeltaInv
    <3> QED
      BY <2>1, <3>1, <3>2, <3>5 DEF DeltaInv, DeltaPending, TouchedIsPending
  <2>3. CASE InsertRecord(Loop)
    <3>1. /\ index' = index /\ wparent' = wparent /\ wseq' = wseq
          /\ wpc[Loop] = "numbered" /\ wpc'[Loop] = "stored" /\ touched' = touched
          /\ db'[n].parent = wparent[Loop]
          /\ \A s \in DOMAIN db \ {n} : db'[s] = db[s]
      BY <1>13, <2>3, LoopAssumption
      DEF LoopAppends, TakeNumber, InsertRecord, InsertIndex, Flush, LoopInv, JournalInv,
          JournalTypeOK
    <3>2. \A s \in index : db'[s] = db[s]
      BY <3>1, LoopAssumption DEF LoopInv, JournalInv, JournalTypeOK, HeldNumber
    <3>3. HeadRoots' = HeadRoots /\ Latest' = Latest /\ DeltaTouched'
      BY <3>1, <3>2, SameIndexSameHead, DeltasKept DEF LoopInv, Latest, DeltaInv
    <3> QED
      BY <2>1, <3>1, <3>3 DEF DeltaInv, DeltaPending, TouchedIsPending
  <2>4. CASE InsertIndex(Loop)
    <3>1. /\ index' = index \cup {n} /\ db' = db /\ touched' = touched
          /\ wpc[Loop] = "stored" /\ wpc'[Loop] = "indexed"
      BY <1>13, <2>4, LoopAssumption
      DEF LoopAppends, TakeNumber, InsertRecord, InsertIndex, Flush, LoopInv, JournalInv,
          JournalTypeOK
    <3>2. HeadRoots' = {draft}
      BY <2>1, <2>4, <3>1, HeadAfterIndex, LoopAssumption DEF LoopInv, HeadFollows
    <3>3. /\ n \in DOMAIN touched /\ touched[n] = pending
          /\ db[n].root = draft /\ db[n].parent \in Latest
      BY <2>1, <3>1 DEF DeltaInv, TouchedIsPending, HeadFollows
    <3>4. \E root \in HeadRoots :
            root = IF db[n].parent = NoParent THEN EmptyTree ELSE db[db[n].parent].root
      BY <3>3 DEF HeadRoots
    <3>5. PICK root \in HeadRoots :
            root = IF db[n].parent = NoParent THEN EmptyTree ELSE db[db[n].parent].root
      BY <3>4
    <3>6. \A p \in Path : draft[p] # root[p] => p \in pending
      BY <2>1 DEF DeltaInv, DeltaPending, Differ
    <3>7. DeltaTouched'
      BY <3>1, <3>3, <3>5, <3>6 DEF DeltaInv, DeltaTouched
    <3>8. Differ(draft, pathmap) \subseteq pending
      BY <2>1 DEF DeltaInv, DeltaPending, Differ
    <3> QED
      BY <2>1, <3>1, <3>2, <3>3, <3>7, <3>8 DEF DeltaInv, DeltaPending, TouchedIsPending
  <2>5. CASE Flush(Loop)
    <3>1. /\ index' = index /\ db' = db /\ touched' = touched /\ wpc'[Loop] = "flushed"
      BY <1>13, <2>5, LoopAssumption
      DEF LoopAppends, TakeNumber, InsertRecord, InsertIndex, Flush, LoopInv, JournalInv,
          JournalTypeOK
    <3>2. HeadRoots' = HeadRoots /\ DeltaTouched'
      BY <3>1, SameIndexSameHead, DeltasKept DEF LoopInv, DeltaInv
    <3> QED
      BY <2>1, <3>1, <3>2 DEF DeltaInv, DeltaPending, TouchedIsPending
  <2> QED
    BY <1>13, <2>2, <2>3, <2>4, <2>5 DEF LoopAppends
<1>14. ASSUME LoopAppendFails \/ PublishFails \/ Publish
       PROVE  DeltaInv'
  <2>1. /\ index' = index /\ db' = db /\ UNCHANGED <<touched, pending>>
        /\ lpc' \in {"select", "clear"} /\ lpc = "append"
    BY <1>14
    DEF LoopAppendFails, PublishFails, Publish, AppendFails, CountOne, GiveUp, ToSelect, Quiet
  <2>2. HeadRoots' = HeadRoots /\ DeltaTouched'
    BY <2>1, SameIndexSameHead, DeltasKept DEF LoopInv, DeltaInv
  <2>3. pathmap' = pathmap \/ (pathmap' = draft /\ HeadRoots = {draft})
    BY <1>14, <2>1 DEF LoopAppendFails, PublishFails, Publish, CountOne, HeadFollows
  <2>4. \A root \in HeadRoots : Differ(root, pathmap') \subseteq pending
    BY <2>3 DEF DeltaInv, DeltaPending, Differ
  <2> QED
    BY <2>1, <2>2, <2>4 DEF DeltaInv, DeltaPending, TouchedIsPending
<1>15. ASSUME Clear
       PROVE  DeltaInv'
  <2>1. /\ UNCHANGED journalVars /\ UNCHANGED <<touched, pathmap>>
        /\ lpc = "clear" /\ lpc' = "select"
    BY <1>15 DEF Clear, ToSelect, Quiet
  <2>2. HeadRoots' = {pathmap'}
    BY <2>1, SameJournalSameHead DEF HeadFollows
  <2>3. \A root \in HeadRoots' : Differ(root, pathmap') = {}
    BY <2>2 DEF Differ
  <2> QED
    BY <1>0, <2>1, <2>3 DEF DeltaInv, DeltaPending, TouchedIsPending
<1>16. ASSUME \E w \in Writer \ {Loop} : ForceCheckpoint(w) \/ ForceStep(w) \/ ForceFails(w)
       PROVE  FALSE
  BY <1>16 DEF OnlyLoop
<1>17. ASSUME Shutdown \/ Exit \/ Crash \/ Start \/ ScanFails
       PROVE  FALSE
  BY <1>17, NeverDisturbed
<1>18. CASE UNCHANGED vars
  BY <1>1, <1>18 DEF vars, loopVars
<1> QED
  BY <1>4, <1>5, <1>6, <1>7, <1>8, <1>9, <1>10, <1>11, <1>12, <1>13, <1>14, <1>15, <1>16,
     <1>17, <1>18 DEF LoopNext, LoopStep

(* While the loop is the only task that appends, a checkpoint says of      *)
(* every path in which it differs from its parent that it has touched it,  *)
(* also after appends that failed half way, and from a rebuilt map.        *)
THEOREM DeltaAlwaysTouched ==
  ASSUME Undisturbed, OnlyLoop
  PROVE  LoopSpec => []DeltaTouched
<1>1. DeltaInv => DeltaTouched
  BY DEF DeltaInv
<1> QED
  BY <1>1, QuietInit, QuietStep, OneTask, HeadInit, HeadStep, DeltaInit, DeltaStep,
     LoopSpecInv, HeadFollowsMayRebuild, PTL DEF LoopSpec
===============================================================================
