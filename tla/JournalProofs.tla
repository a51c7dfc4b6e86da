---------------------------- MODULE JournalProofs -----------------------------
(***************************************************************************)
(* Proofs about Journal.tla, for any number of writers and root trees and  *)
(* any bound on the sequence numbers.                                      *)
(*                                                                         *)
(* JournalInv is the inductive invariant.  None of the properties is       *)
(* inductive alone: that parents precede needs the parent a writer holds   *)
(* to be smaller than the number it then takes, that needs every number in *)
(* use to be below the counter, and both need the numbers that concurrent  *)
(* writers hold to be distinct.                                            *)
(***************************************************************************)
EXTENDS Journal, FiniteSetTheorems, TLAPS

(* A writer that has taken a number.                                       *)
Holding(w) == wpc[w] \in {"numbered", "stored", "indexed", "flushed"}

NumbersInUse == IsFiniteSet(DOMAIN db) /\ \A s \in DOMAIN db : s < nextSeq

HeldParent ==
  \A w \in Writer : wpc[w] # "idle" => wparent[w] \in index \cup {NoParent}

HeldNumber ==
  \A w \in Writer :
    /\ Holding(w) => wparent[w] < wseq[w] /\ wseq[w] < nextSeq /\ wseq[w] # 0
    /\ wpc[w] = "numbered" => wseq[w] \notin DOMAIN db
    /\ wpc[w] = "stored" => wseq[w] \in DOMAIN db \ index
    /\ wpc[w] \in {"indexed", "flushed"} => wseq[w] \in index \ disowned

DistinctNumbers ==
  \A v, w \in Writer :
    Holding(v) /\ Holding(w) /\ v # w => wseq[v] # wseq[w]

JournalInv ==
  /\ JournalTypeOK
  /\ NumbersInUse
  /\ HeldParent
  /\ HeldNumber
  /\ DistinctNumbers
  /\ ParentsPrecede
  /\ DurableAncestry

-------------------------------------------------------------------------------
(* What latest() returns is an index entry, or no parent, and bounds the   *)
(* index.                                                                  *)
LEMMA LatestBounds ==
  ASSUME NEW S, S \subseteq Nat \ {0}, NEW p \in LatestIn(S)
  PROVE  p \in S \cup {NoParent} /\ p \in Nat /\ \A s \in S : s <= p
BY DEF LatestIn, Greatest, NoParent

(* Opening a well-formed history establishes the invariant.                *)
LEMMA OpenInv ==
  ASSUME NEW h, h \in [DOMAIN h -> Checkpoint],
         DOMAIN h \subseteq Nat \ {0}, IsFiniteSet(DOMAIN h),
         \A s \in DOMAIN h : h[s].parent < s /\ h[s].parent \in DOMAIN h \cup {NoParent},
         JournalOpen(h)
  PROVE  JournalInv
<1>1. /\ db = h /\ index = DOMAIN h /\ durable = DOMAIN h /\ acked = DOMAIN h
      /\ disowned = {} /\ count = Cardinality(DOMAIN h)
  BY DEF JournalOpen
<1>2. PICK m \in LatestIn(DOMAIN h) : nextSeq = m + 1
  BY DEF JournalOpen
<1>3. m \in Nat /\ \A s \in DOMAIN h : s <= m
  BY LatestBounds
<1>4. nextSeq \in Nat \ {0} /\ \A s \in DOMAIN h : s < nextSeq
  BY <1>2, <1>3
<1>5. count \in Nat
  BY <1>1, FS_CardinalityType
<1>6. /\ wpc \in [Writer -> WriterStep]
      /\ wparent \in [Writer -> Nat]
      /\ wroot \in [Writer -> Root]
      /\ wseq \in [Writer -> Nat]
  BY DEF JournalOpen, WriterStep, NoParent
<1>7. JournalTypeOK
  BY <1>1, <1>4, <1>5, <1>6 DEF JournalTypeOK
<1>8. \A w \in Writer : wpc[w] = "idle"
  BY DEF JournalOpen
<1> QED
  BY <1>1, <1>4, <1>7, <1>8 DEF JournalInv, NumbersInUse, HeldParent, HeldNumber,
     DistinctNumbers, ParentsPrecede, DurableAncestry, Holding, NoParent

LEMMA InitInv == Init => JournalInv
<1>1. DOMAIN EmptyHistory = {} /\ EmptyHistory \in [{} -> Checkpoint]
  BY DEF EmptyHistory
<1> QED
  BY <1>1, OpenInv, FS_EmptySet DEF Init

-------------------------------------------------------------------------------
LEMMA StepInv == JournalInv /\ [Next]_journalVars => JournalInv'
<1> SUFFICES ASSUME JournalInv, [Next]_journalVars PROVE JournalInv'
  OBVIOUS
<1> USE DEF NoParent
<1>1. ASSUME NEW w \in Writer, NEW p \in Latest, NEW r \in Root, ReadLatest(w, p, r)
      PROVE  JournalInv'
  <2>1. p \in index \cup {NoParent} /\ p \in Nat
    BY <1>1, LatestBounds DEF JournalInv, JournalTypeOK, Latest
  <2>2. JournalTypeOK'
    BY <1>1, <2>1 DEF JournalInv, JournalTypeOK, ReadLatest, WriterStep
  <2>3. HeldParent'
    BY <1>1, <2>1 DEF JournalInv, JournalTypeOK, ReadLatest, HeldParent
  <2>4. HeldNumber'
    BY <1>1 DEF JournalInv, JournalTypeOK, ReadLatest, HeldNumber, Holding
  <2>5. DistinctNumbers'
    BY <1>1 DEF JournalInv, JournalTypeOK, ReadLatest, DistinctNumbers, Holding
  <2>6. NumbersInUse' /\ ParentsPrecede' /\ DurableAncestry'
    BY <1>1 DEF JournalInv, ReadLatest, NumbersInUse, ParentsPrecede, DurableAncestry
  <2> QED
    BY <2>2, <2>3, <2>4, <2>5, <2>6 DEF JournalInv
<1>2. ASSUME NEW w \in Writer, TakeNumber(w)
      PROVE  JournalInv'
  <2>1. JournalTypeOK'
    BY <1>2 DEF JournalInv, JournalTypeOK, TakeNumber, WriterStep
  <2>2. NumbersInUse'
    BY <1>2 DEF JournalInv, JournalTypeOK, TakeNumber, NumbersInUse
  <2>3. HeldParent'
    BY <1>2 DEF JournalInv, JournalTypeOK, TakeNumber, HeldParent
  <2>4. wparent[w] < nextSeq
    BY <1>2 DEF JournalInv, JournalTypeOK, TakeNumber, HeldParent, NumbersInUse
  <2>5. HeldNumber'
    BY <1>2, <2>4 DEF JournalInv, JournalTypeOK, TakeNumber, HeldNumber,
       NumbersInUse, Holding
  <2>6. DistinctNumbers'
    BY <1>2 DEF JournalInv, JournalTypeOK, TakeNumber, DistinctNumbers,
       HeldNumber, Holding
  <2>7. ParentsPrecede' /\ DurableAncestry'
    BY <1>2 DEF JournalInv, TakeNumber, ParentsPrecede, DurableAncestry
  <2> QED
    BY <2>1, <2>2, <2>3, <2>5, <2>6, <2>7 DEF JournalInv
<1>3. ASSUME NEW w \in Writer, InsertRecord(w)
      PROVE  JournalInv'
  <2> DEFINE n == wseq[w]
             c == [parent |-> wparent[w], root |-> wroot[w]]
  <2>1. /\ n \in Nat \ {0} /\ n < nextSeq /\ n \notin DOMAIN db
        /\ wparent[w] < n /\ wparent[w] \in index \cup {NoParent}
        /\ c \in Checkpoint
    BY <1>3 DEF JournalInv, JournalTypeOK, InsertRecord, HeldParent, HeldNumber,
       Holding, Checkpoint
  <2>2. /\ DOMAIN db' = DOMAIN db \cup {n}
        /\ db'[n] = c
        /\ \A s \in DOMAIN db : db'[s] = db[s]
        /\ db' = [s \in DOMAIN db' |-> db'[s]]
    BY <1>3, <2>1 DEF InsertRecord
  <2>3. \A s \in DOMAIN db : db[s] \in Checkpoint
    BY DEF JournalInv, JournalTypeOK
  <2>4. db' \in [DOMAIN db' -> Checkpoint]
    <3>1. \A s \in DOMAIN db' : db'[s] \in Checkpoint
      BY <2>1, <2>2, <2>3
    <3> QED
      BY <2>2, <3>1
  <2>5. JournalTypeOK'
    BY <1>3, <2>1, <2>2, <2>4
    DEF JournalInv, JournalTypeOK, InsertRecord, WriterStep
  <2>6. NumbersInUse'
    BY <1>3, <2>1, <2>2, FS_AddElement DEF JournalInv, InsertRecord, NumbersInUse
  <2>7. HeldParent'
    BY <1>3, <2>1 DEF JournalInv, JournalTypeOK, InsertRecord, HeldParent
  <2>8. HeldNumber'
    <3> SUFFICES ASSUME NEW v \in Writer
                 PROVE  /\ Holding(v)' => wparent[v] < wseq[v] /\ wseq[v] < nextSeq /\ wseq[v] # 0
                        /\ wpc'[v] = "numbered" => wseq[v] \notin DOMAIN db'
                        /\ wpc'[v] = "stored" => wseq[v] \in DOMAIN db' \ index
                        /\ wpc'[v] \in {"indexed", "flushed"} => wseq[v] \in index \ disowned
      BY <1>3 DEF InsertRecord, HeldNumber
    <3>1. CASE v = w
      BY <1>3, <2>1, <2>2, <3>1 DEF JournalInv, JournalTypeOK, InsertRecord, Holding
    <3>2. CASE v # w
      <4>1. wpc'[v] = wpc[v]
        BY <1>3, <3>2 DEF JournalInv, JournalTypeOK, InsertRecord
      <4>2. Holding(v) => wseq[v] # n
        BY <1>3, <3>2 DEF JournalInv, DistinctNumbers, InsertRecord, Holding
      <4> QED
        BY <2>2, <4>1, <4>2 DEF JournalInv, HeldNumber, Holding
    <3> QED
      BY <3>1, <3>2
  <2>9. DistinctNumbers'
    BY <1>3 DEF JournalInv, JournalTypeOK, InsertRecord, DistinctNumbers, Holding
  <2>10. ParentsPrecede'
    BY <1>3, <2>1, <2>2 DEF JournalInv, InsertRecord, ParentsPrecede
  <2>11. DurableAncestry'
    BY <1>3, <2>1, <2>2 DEF JournalInv, JournalTypeOK, InsertRecord, DurableAncestry
  <2> QED
    BY <2>5, <2>6, <2>7, <2>8, <2>9, <2>10, <2>11 DEF JournalInv
<1>4. ASSUME NEW w \in Writer, InsertIndex(w)
      PROVE  JournalInv'
  <2>1. wseq[w] \in DOMAIN db \ index
    BY <1>4 DEF JournalInv, InsertIndex, HeldNumber
  <2>2. JournalTypeOK'
    BY <1>4, <2>1 DEF JournalInv, JournalTypeOK, InsertIndex, WriterStep
  <2>3. HeldParent'
    BY <1>4 DEF JournalInv, JournalTypeOK, InsertIndex, HeldParent
  <2>4. HeldNumber'
    BY <1>4, <2>1 DEF JournalInv, JournalTypeOK, InsertIndex, HeldNumber,
       DistinctNumbers, Holding
  <2>5. DistinctNumbers'
    BY <1>4 DEF JournalInv, JournalTypeOK, InsertIndex, DistinctNumbers, Holding
  <2>6. NumbersInUse' /\ ParentsPrecede' /\ DurableAncestry'
    BY <1>4 DEF JournalInv, InsertIndex, NumbersInUse, ParentsPrecede, DurableAncestry
  <2> QED
    BY <2>2, <2>3, <2>4, <2>5, <2>6 DEF JournalInv
<1>5. ASSUME NEW w \in Writer, Flush(w)
      PROVE  JournalInv'
  <2>1. wseq[w] \in index
    BY <1>5 DEF JournalInv, Flush, HeldNumber
  <2>2. JournalTypeOK'
    BY <1>5, <2>1 DEF JournalInv, JournalTypeOK, Flush, WriterStep
  <2>3. HeldParent'
    BY <1>5 DEF JournalInv, JournalTypeOK, Flush, HeldParent
  <2>4. HeldNumber'
    BY <1>5 DEF JournalInv, JournalTypeOK, Flush, HeldNumber, Holding
  <2>5. DistinctNumbers'
    BY <1>5 DEF JournalInv, JournalTypeOK, Flush, DistinctNumbers, Holding
  <2>6. NumbersInUse' /\ ParentsPrecede'
    BY <1>5 DEF JournalInv, Flush, NumbersInUse, ParentsPrecede
  <2>7. DurableAncestry'
    BY <1>5 DEF JournalInv, JournalTypeOK, Flush, ParentsPrecede, DurableAncestry
  <2> QED
    BY <2>2, <2>3, <2>4, <2>5, <2>6, <2>7 DEF JournalInv
<1>6. ASSUME NEW w \in Writer, AppendFails(w)
      PROVE  JournalInv'
  <2>1. JournalTypeOK'
    BY <1>6 DEF JournalInv, JournalTypeOK, AppendFails, WriterStep, HeldNumber
  <2>2. HeldParent'
    BY <1>6 DEF JournalInv, JournalTypeOK, AppendFails, HeldParent
  <2>3. HeldNumber'
    BY <1>6 DEF JournalInv, JournalTypeOK, AppendFails, HeldNumber,
       DistinctNumbers, Holding
  <2>4. DistinctNumbers'
    BY <1>6 DEF JournalInv, JournalTypeOK, AppendFails, DistinctNumbers, Holding
  <2>5. NumbersInUse' /\ ParentsPrecede' /\ DurableAncestry'
    BY <1>6 DEF JournalInv, AppendFails, NumbersInUse, ParentsPrecede, DurableAncestry
  <2> QED
    BY <2>1, <2>2, <2>3, <2>4, <2>5 DEF JournalInv
<1>7. ASSUME NEW w \in Writer, CountOne(w)
      PROVE  JournalInv'
  <2>1. JournalTypeOK'
    BY <1>7 DEF JournalInv, JournalTypeOK, CountOne, WriterStep
  <2>2. HeldParent' /\ HeldNumber' /\ DistinctNumbers'
    BY <1>7 DEF JournalInv, JournalTypeOK, CountOne, HeldParent, HeldNumber,
       DistinctNumbers, Holding
  <2>3. NumbersInUse' /\ ParentsPrecede' /\ DurableAncestry'
    BY <1>7 DEF JournalInv, CountOne, NumbersInUse, ParentsPrecede, DurableAncestry
  <2> QED
    BY <2>1, <2>2, <2>3 DEF JournalInv
<1>8. ASSUME CrashAndOpen
      PROVE  JournalInv'
  <2>1. PICK kept \in SUBSET DOMAIN db :
          /\ durable \subseteq kept
          /\ \A s \in kept : db[s].parent \in kept \cup {NoParent}
          /\ db' = [s \in kept |-> db[s]]
          /\ index' = kept
          /\ durable' = kept
          /\ \E m \in LatestIn(kept) : nextSeq' = m + 1
          /\ count' = Cardinality(kept)
          /\ wpc' = [w \in Writer |-> "idle"]
          /\ disowned' = {}
          /\ UNCHANGED <<wparent, wroot, wseq, acked>>
    BY <1>8 DEF CrashAndOpen
  <2>2. IsFiniteSet(kept) /\ Cardinality(kept) \in Nat
    BY FS_Subset, FS_CardinalityType DEF JournalInv, NumbersInUse
  <2>3. kept \subseteq Nat \ {0} /\ \A s \in kept : db[s] \in Checkpoint
    BY DEF JournalInv, JournalTypeOK
  <2>4. PICK m \in LatestIn(kept) : nextSeq' = m + 1
    BY <2>1
  <2>5. m \in Nat /\ \A s \in kept : s <= m
    BY <2>3, LatestBounds
  <2>6. DOMAIN db' = kept /\ \A s \in kept : db'[s] = db[s]
    BY <2>1
  <2>7. JournalTypeOK'
    <3>1. db' \in [DOMAIN db' -> Checkpoint]
      BY <2>1, <2>3
    <3>2. acked \subseteq durable /\ wparent \in [Writer -> Nat]
          /\ wroot \in [Writer -> Root] /\ wseq \in [Writer -> Nat]
      BY DEF JournalInv, JournalTypeOK
    <3>3. wpc' \in [Writer -> WriterStep]
      BY <2>1 DEF WriterStep
    <3> QED
      BY <2>1, <2>2, <2>3, <2>4, <2>5, <2>6, <3>1, <3>2, <3>3 DEF JournalTypeOK
  <2>8. NumbersInUse'
    BY <2>2, <2>3, <2>4, <2>5, <2>6 DEF NumbersInUse
  <2>9. HeldParent' /\ HeldNumber' /\ DistinctNumbers'
    BY <2>1 DEF HeldParent, HeldNumber, DistinctNumbers, Holding
  <2>10. ParentsPrecede' /\ DurableAncestry'
    BY <2>1, <2>6 DEF JournalInv, ParentsPrecede, DurableAncestry
  <2> QED
    BY <2>7, <2>8, <2>9, <2>10 DEF JournalInv
<1>9. CASE UNCHANGED journalVars
  BY <1>9 DEF journalVars, writerVars, JournalInv, JournalTypeOK, NumbersInUse,
     HeldParent, HeldNumber, DistinctNumbers, ParentsPrecede, DurableAncestry, Holding
<1> QED
  BY <1>1, <1>2, <1>3, <1>4, <1>5, <1>6, <1>7, <1>8, <1>9 DEF Next, Append

LEMMA SpecInv == Spec => []JournalInv
BY InitInv, StepInv, PTL DEF Spec

-------------------------------------------------------------------------------
(* Type correctness.                                                       *)
THEOREM TypeCorrect == Spec => []JournalTypeOK
<1>1. JournalInv => JournalTypeOK
  BY DEF JournalInv
<1> QED
  BY <1>1, SpecInv, PTL

(* However the reads of HEAD, the numbering and the inserts of concurrent  *)
(* appends interleave, a parent is an indexed checkpoint with a smaller    *)
(* number: the walks of log and HEAD~n terminate.                          *)
THEOREM ParentsAlwaysPrecede == Spec => []ParentsPrecede
<1>1. JournalInv => ParentsPrecede
  BY DEF JournalInv
<1> QED
  BY <1>1, SpecInv, PTL

(* What is on the disk is closed under parents, whenever the process dies. *)
THEOREM DurableAncestryAlways == Spec => []DurableAncestry
<1>1. JournalInv => DurableAncestry
  BY DEF JournalInv
<1> QED
  BY <1>1, SpecInv, PTL

(* Every step keeps every durable checkpoint: the number a writer takes is *)
(* never one in use, not even after a crash has reset the counter.         *)
LEMMA StepKeepsDurable ==
  JournalInv /\ [Next]_journalVars =>
    \A s \in durable : s \in DOMAIN db' /\ db'[s] = db[s]
<1> SUFFICES ASSUME JournalInv, [Next]_journalVars, NEW s \in durable
             PROVE  s \in DOMAIN db' /\ db'[s] = db[s]
  OBVIOUS
<1>1. s \in DOMAIN db
  BY DEF JournalInv, JournalTypeOK
<1>2. ASSUME NEW w \in Writer, InsertRecord(w)
      PROVE  s \in DOMAIN db' /\ db'[s] = db[s]
  BY <1>1, <1>2 DEF JournalInv, HeldNumber, InsertRecord
<1>3. ASSUME CrashAndOpen
      PROVE  s \in DOMAIN db' /\ db'[s] = db[s]
  BY <1>3 DEF CrashAndOpen
<1>4. ASSUME UNCHANGED db
      PROVE  s \in DOMAIN db' /\ db'[s] = db[s]
  BY <1>1, <1>4
<1> QED
  BY <1>2, <1>3, <1>4 DEF Next, Append, ReadLatest, TakeNumber, InsertIndex,
     Flush, AppendFails, CountOne, journalVars

THEOREM DurableAlwaysKept == Spec => DurableKept
<1>1. JournalInv /\ [Next]_journalVars =>
        [\A s \in durable : s \in DOMAIN db' /\ db'[s] = db[s]]_journalVars
  BY StepKeepsDurable
<1> QED
  BY <1>1, SpecInv, PTL DEF Spec, DurableKept

(* What has reached the disk stays there.                                  *)
LEMMA DurableGrows ==
  JournalInv /\ [Next]_journalVars => durable \subseteq durable'
<1> SUFFICES ASSUME JournalInv, [Next]_journalVars PROVE durable \subseteq durable'
  OBVIOUS
<1>1. ASSUME NEW w \in Writer, Flush(w) PROVE durable \subseteq durable'
  BY <1>1 DEF JournalInv, JournalTypeOK, Flush
<1>2. ASSUME CrashAndOpen PROVE durable \subseteq durable'
  BY <1>2 DEF CrashAndOpen
<1> QED
  BY <1>1, <1>2 DEF Next, Append, ReadLatest, TakeNumber, InsertRecord,
     InsertIndex, AppendFails, CountOne, journalVars

(* The journal implements the abstract durable log.                        *)
LEMMA AncestryIsDurable ==
  JournalInv => Durable!ParentsDurable([s \in durable |-> db[s]])
<1> SUFFICES ASSUME JournalInv, NEW s \in durable
             PROVE  /\ db[s].parent < s
                    /\ db[s].parent # NoParent => db[s].parent \in durable
  BY DEF Durable!ParentsDurable, Durable!NoParent, NoParent
<1> QED
  BY DEF JournalInv, JournalTypeOK, ParentsPrecede, DurableAncestry

THEOREM RefinesDurableLog == Spec => ImplementsDurableLog
<1> DEFINE log == [s \in durable |-> db[s]]
<1>1. JournalInv => Durable!LogInit
  BY AncestryIsDurable DEF Durable!LogInit
<1>2. JournalInv /\ JournalInv' /\ [Next]_journalVars => [Durable!Grow]_log
  <2> SUFFICES ASSUME JournalInv, JournalInv', [Next]_journalVars
               PROVE  Durable!Grow
    OBVIOUS
  <2>1. durable \subseteq durable'
    BY DurableGrows
  <2>2. \A s \in durable : db'[s] = db[s]
    BY StepKeepsDurable
  <2>3. Durable!ParentsDurable([s \in durable |-> db[s]])'
    <3>1. (JournalInv => Durable!ParentsDurable([s \in durable |-> db[s]]))'
      BY AncestryIsDurable, PTL
    <3> QED
      BY <3>1
  <2> QED
    BY <2>1, <2>2, <2>3 DEF Durable!Grow
<1> QED
  BY <1>1, <1>2, InitInv, SpecInv, PTL DEF Spec, ImplementsDurableLog, Durable!LogSpec

-------------------------------------------------------------------------------
(* The cached count follows the index.  Only InsertIndex, AppendFails and  *)
(* CountOne (and a crash, which recounts) change what is compared.         *)
LEMMA InitCount == Init => CountExact
BY FS_EmptySet DEF Init, JournalOpen, EmptyHistory, CountExact, Uncounted

LEMMA StepCount ==
  JournalInv /\ CountExact /\ [Next]_journalVars => CountExact'
<1> SUFFICES ASSUME JournalInv, CountExact, [Next]_journalVars
             PROVE  CountExact'
  OBVIOUS
<1>1. ASSUME NEW w \in Writer, CountOne(w)
      PROVE  CountExact'
  <2> DEFINE n == wseq[w]
  <2>1. n \in index /\ n \notin disowned
    BY <1>1 DEF JournalInv, HeldNumber, CountOne
  <2>2. \A v \in Writer : v # w /\ wpc[v] \in {"indexed", "flushed"} => wseq[v] # n
    BY <1>1 DEF JournalInv, DistinctNumbers, CountOne, Holding
  <2>3. \A v \in Writer : wpc'[v] = IF v = w THEN "idle" ELSE wpc[v]
    BY <1>1 DEF JournalInv, JournalTypeOK, CountOne
  <2>4. Uncounted' = Uncounted \ {n}
    <3>1. Uncounted' = {wseq[v] : v \in {u \in Writer : wpc'[u] \in {"indexed", "flushed"}}}
                         \cup disowned
      BY <1>1 DEF Uncounted, CountOne
    <3>2. \A x : x \in {wseq[v] : v \in {u \in Writer : wpc'[u] \in {"indexed", "flushed"}}}
               <=> \E u \in Writer : u # w /\ wpc[u] \in {"indexed", "flushed"} /\ x = wseq[u]
      BY <2>3
    <3>3. \A x : x \in Uncounted
               <=> x \in disowned
                   \/ \E u \in Writer : wpc[u] \in {"indexed", "flushed"} /\ x = wseq[u]
      BY DEF Uncounted
    <3> QED
      BY <2>1, <2>2, <3>1, <3>2, <3>3
  <2>5. n \in Uncounted
    BY <1>1 DEF Uncounted, CountOne
  <2>6. index \ Uncounted' = (index \ Uncounted) \cup {n} /\ n \notin index \ Uncounted
    BY <2>1, <2>4, <2>5
  <2>7. IsFiniteSet(index \ Uncounted)
    BY FS_Subset DEF JournalInv, JournalTypeOK, NumbersInUse
  <2>8. Cardinality(index \ Uncounted') = Cardinality(index \ Uncounted) + 1
    BY <2>6, <2>7, FS_AddElement
  <2> QED
    BY <1>1, <2>8 DEF CountExact, CountOne
<1>2. ASSUME NEW w \in Writer, InsertIndex(w)
      PROVE  CountExact'
  <2>1. wseq[w] \notin index
    BY <1>2 DEF JournalInv, HeldNumber, InsertIndex
  <2>2. \A v \in Writer : wpc'[v] = IF v = w THEN "indexed" ELSE wpc[v]
    BY <1>2 DEF JournalInv, JournalTypeOK, InsertIndex
  <2>3. \A x : x \in Uncounted' <=> x \in Uncounted \/ x = wseq[w]
    BY <1>2, <2>2 DEF Uncounted, InsertIndex
  <2>4. index' \ Uncounted' = index \ Uncounted
    BY <1>2, <2>1, <2>3 DEF InsertIndex
  <2> QED
    BY <1>2, <2>4 DEF CountExact, InsertIndex
<1>3. ASSUME NEW w \in Writer, AppendFails(w)
      PROVE  CountExact'
  <2>1. \A v \in Writer : wpc'[v] = IF v = w THEN "idle" ELSE wpc[v]
    BY <1>3 DEF JournalInv, JournalTypeOK, AppendFails
  <2>2. \A x : x \in Uncounted' <=> x \in Uncounted
    BY <1>3, <2>1 DEF Uncounted, AppendFails
  <2> QED
    BY <1>3, <2>2 DEF CountExact, AppendFails
<1>4. ASSUME CrashAndOpen
      PROVE  CountExact'
  <2>1. \A w \in Writer : wpc'[w] = "idle"
    BY <1>4 DEF CrashAndOpen
  <2>2. Uncounted' = {}
    BY <1>4, <2>1 DEF Uncounted, CrashAndOpen
  <2> QED
    BY <1>4, <2>2 DEF CountExact, CrashAndOpen
<1>5. ASSUME NEW w \in Writer,
             \/ \E p \in Latest, r \in Root : ReadLatest(w, p, r)
             \/ TakeNumber(w) \/ InsertRecord(w) \/ Flush(w)
      PROVE  CountExact'
  <2>1. /\ index' = index /\ count' = count /\ disowned' = disowned
        /\ \A v \in Writer :
             /\ wpc'[v] \in {"indexed", "flushed"} <=> wpc[v] \in {"indexed", "flushed"}
             /\ wpc[v] \in {"indexed", "flushed"} => wseq'[v] = wseq[v]
    BY <1>5 DEF JournalInv, JournalTypeOK, ReadLatest, TakeNumber, InsertRecord, Flush
  <2>2. \A x : x \in Uncounted' <=> x \in Uncounted
    BY <2>1 DEF Uncounted
  <2> QED
    BY <2>1, <2>2 DEF CountExact
<1>6. CASE UNCHANGED journalVars
  BY <1>6 DEF journalVars, writerVars, CountExact, Uncounted
<1> QED
  BY <1>1, <1>2, <1>3, <1>4, <1>5, <1>6 DEF Next, Append

THEOREM CountAlwaysExact == Spec => []CountExact
BY InitCount, StepCount, SpecInv, PTL DEF Spec

-------------------------------------------------------------------------------
(* With one appending task the history never forks.  The strengthening:    *)
(* every checkpoint follows immediately on the one numbered before it, and *)
(* the task at work holds the largest number and the latest parent.        *)
Follows ==
  \A s, t \in DOMAIN db : t < s => t <= db[s].parent

AtHead ==
  \A w \in Writer :
    /\ \A t \in DOMAIN db : t \in index \/ (wpc[w] = "stored" /\ t = wseq[w])
    /\ wpc[w] # "idle" =>
         \A t \in DOMAIN db : t <= wparent[w] \/ (Holding(w) /\ t = wseq[w])

SoloInv == Follows /\ AtHead

LEMMA InitSolo == Init => SoloInv
BY DEF Init, JournalOpen, EmptyHistory, SoloInv, Follows, AtHead

LEMMA SoloLinear == JournalInv /\ Follows => Linear
<1> SUFFICES ASSUME JournalInv, Follows,
                    NEW s \in index, NEW t \in index, s # t, db[s].parent = db[t].parent
             PROVE  FALSE
  BY DEF Linear
<1>1. /\ s \in DOMAIN db /\ t \in DOMAIN db /\ s \in Nat /\ t \in Nat
      /\ db[s].parent \in Nat /\ db[t].parent \in Nat
  BY DEF JournalInv, JournalTypeOK, Checkpoint
<1>2. db[s].parent < s /\ db[t].parent < t
  BY <1>1 DEF JournalInv, ParentsPrecede
<1>3. (t < s => t <= db[s].parent) /\ (s < t => s <= db[t].parent)
  BY <1>1 DEF Follows
<1> QED
  BY <1>1, <1>2, <1>3

LEMMA StepSolo ==
  ASSUME \A v, w \in Writer : v = w
  PROVE  JournalInv /\ JournalInv' /\ SoloInv /\ [Next]_journalVars => SoloInv'
<1> SUFFICES ASSUME JournalInv, JournalInv', SoloInv, [Next]_journalVars
             PROVE  SoloInv'
  OBVIOUS
<1> USE DEF NoParent
<1>1. ASSUME NEW w \in Writer, NEW p \in Latest, NEW r \in Root, ReadLatest(w, p, r)
      PROVE  SoloInv'
  <2>1. \A s \in index : s <= p
    BY <1>1, LatestBounds DEF JournalInv, JournalTypeOK, Latest
  <2>2. DOMAIN db \subseteq index
    BY <1>1 DEF SoloInv, AtHead, ReadLatest
  <2>3. AtHead'
    BY <1>1, <2>1, <2>2 DEF JournalInv, JournalTypeOK, AtHead, ReadLatest, Holding
  <2> QED
    BY <1>1, <2>3 DEF SoloInv, Follows, ReadLatest
<1>2. ASSUME NEW w \in Writer, TakeNumber(w)
      PROVE  SoloInv'
  BY <1>2 DEF JournalInv, JournalTypeOK, SoloInv, Follows, AtHead, TakeNumber, Holding
<1>3. ASSUME NEW w \in Writer, InsertRecord(w)
      PROVE  SoloInv'
  <2> DEFINE n == wseq[w]
  <2>1. /\ n \in Nat /\ n \notin DOMAIN db /\ wparent[w] < n
        /\ \A t \in DOMAIN db : t \in Nat /\ t <= wparent[w]
    BY <1>3 DEF JournalInv, JournalTypeOK, HeldNumber, SoloInv, AtHead, InsertRecord, Holding
  <2>2. /\ DOMAIN db' = DOMAIN db \cup {n} /\ db'[n].parent = wparent[w]
        /\ \A s \in DOMAIN db : db'[s] = db[s]
    BY <1>3, <2>1 DEF InsertRecord
  <2>3. wparent[w] \in Nat
    BY <1>3 DEF JournalInv, JournalTypeOK
  <2>4. Follows'
    BY <2>1, <2>2, <2>3 DEF SoloInv, Follows
  <2>5. AtHead'
    <3>1. DOMAIN db \subseteq index
      BY <1>3, <2>1 DEF SoloInv, AtHead, InsertRecord
    <3>2. /\ wpc' = [wpc EXCEPT ![w] = "stored"] /\ wpc'[w] = "stored"
          /\ UNCHANGED <<index, wseq, wparent>>
      BY <1>3 DEF JournalInv, JournalTypeOK, InsertRecord
    <3>3. \A t \in DOMAIN db' : (t \in index \/ t = n) /\ (t <= wparent[w] \/ t = n)
      BY <2>1, <2>2, <3>1
    <3>4. Holding(w)'
      BY <3>2 DEF Holding
    <3> QED
      BY <3>2, <3>3, <3>4 DEF AtHead
  <2> QED
    BY <2>4, <2>5 DEF SoloInv
<1>4. ASSUME NEW w \in Writer, InsertIndex(w)
      PROVE  SoloInv'
  <2>1. DOMAIN db \subseteq index'
    BY <1>4 DEF JournalInv, JournalTypeOK, HeldParent, SoloInv, AtHead, InsertIndex
  <2> QED
    BY <1>4, <2>1 DEF JournalInv, JournalTypeOK, SoloInv, Follows, AtHead, InsertIndex, Holding
<1>5. ASSUME NEW w \in Writer, Flush(w) \/ AppendFails(w) \/ CountOne(w)
      PROVE  SoloInv'
  BY <1>5 DEF JournalInv, JournalTypeOK, SoloInv, Follows, AtHead, Flush, AppendFails,
     CountOne, Holding
<1>6. ASSUME CrashAndOpen
      PROVE  SoloInv'
  BY <1>6 DEF SoloInv, Follows, AtHead, CrashAndOpen
<1>7. CASE UNCHANGED journalVars
  BY <1>7 DEF journalVars, writerVars, SoloInv, Follows, AtHead, Holding
<1> QED
  BY <1>1, <1>2, <1>3, <1>4, <1>5, <1>6, <1>7 DEF Next, Append

(* A daemon whose only appending task is its event loop keeps a linear     *)
(* history; the IPC tasks, which append without its lock, are what forks   *)
(* it.                                                                     *)
THEOREM LinearIfOneWriter ==
  ASSUME \A v, w \in Writer : v = w
  PROVE  Spec => []Linear
<1>1. Init => SoloInv
  BY InitSolo
<1>2. JournalInv /\ SoloInv => Linear
  BY SoloLinear DEF SoloInv
<1> QED
  BY <1>1, <1>2, StepSolo, SpecInv, PTL DEF Spec
===============================================================================
