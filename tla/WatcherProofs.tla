----------------------------- MODULE WatcherProofs -----------------------------
(***************************************************************************)
(* Proofs about Watcher.tla, for any set of files and any bounds.          *)
(***************************************************************************)
EXTENDS Watcher, TLAPS

Event == [path : Path, kind : Kind]

-------------------------------------------------------------------------------
(* The counters of the timers of one path.                                 *)

LEMMA StageTypes ==
  ASSUME NEW c \in [Stage -> Nat]
  PROVE  /\ Behind(c) \in [Stage -> Nat]
         /\ \A s \in Stage : Add(c, s) \in [Stage -> Nat]
         /\ \A s \in Stage : c[s] > 0 => Ended(c, s) \in [Stage -> Nat]
         /\ \A s, t \in Stage : s # t /\ c[s] > 0 => Move(c, s, t) \in [Stage -> Nat]
<1>1. Behind(c) \in [Stage -> Nat]
  BY DEF Behind, Stage
<1>2. \A s \in Stage : Add(c, s) \in [Stage -> Nat]
  BY DEF Add
<1>3. \A s \in Stage : c[s] > 0 => Ended(c, s) \in [Stage -> Nat]
  BY DEF Ended
<1>4. \A s, t \in Stage : s # t /\ c[s] > 0 => Move(c, s, t) \in [Stage -> Nat]
  BY DEF Move
<1> QED
  BY <1>1, <1>2, <1>3, <1>4

(* A path with a timer keeps one when an event comes; a new timer is one.  *)
LEMMA StageCounts ==
  ASSUME NEW c \in [Stage -> Nat]
  PROVE  /\ (\E s \in Stage : c[s] > 0) => \E s \in Stage : Behind(c)[s] > 0
         /\ Add(c, "clean")["clean"] > 0
         /\ Move(c, "holding", "second")["second"] > 0
<1>1. (\E s \in Stage : c[s] > 0) => \E s \in Stage : Behind(c)[s] > 0
  <2> SUFFICES ASSUME NEW s \in Stage, c[s] > 0
               PROVE  \E t \in Stage : Behind(c)[t] > 0
    OBVIOUS
  <2>1. CASE s = "clean"
    BY <2>1 DEF Behind, Stage
  <2>2. CASE s # "clean"
    BY <2>2 DEF Behind, Stage
  <2> QED
    BY <2>1, <2>2
<1>2. Add(c, "clean")["clean"] > 0
  BY DEF Add, Stage
<1>3. Move(c, "holding", "second")["second"] > 0
  BY DEF Move, Stage
<1> QED
  BY <1>1, <1>2, <1>3

(* What push does to the table and its timers.                             *)
LEMMA PushFacts ==
  ASSUME WatchTypeOK, NEW paths, paths \subseteq Path, Push(paths)
  PROVE  /\ table' \subseteq Path /\ table' = table \cup paths
         /\ timers' \in [Path -> [Stage -> Nat]]
         /\ EntryHasTimer => EntryHasTimer'
         /\ \A p \in Path : timers'[p]["holding"] = timers[p]["holding"]
<1> USE DEF WatchTypeOK
<1>1. table' \subseteq Path /\ table' = table \cup paths
  BY DEF Push
<1>2. ASSUME NEW p \in Path
      PROVE  /\ timers[p] \in [Stage -> Nat]
             /\ Behind(timers[p]) \in [Stage -> Nat]
             /\ Add(Behind(timers[p]), "clean") \in [Stage -> Nat]
  <2>1. timers[p] \in [Stage -> Nat]
    OBVIOUS
  <2>2. Behind(timers[p]) \in [Stage -> Nat]
    BY <2>1, StageTypes
  <2> QED
    BY <2>1, <2>2, StageTypes DEF Stage
<1>3. timers' \in [Path -> [Stage -> Nat]]
  BY <1>2 DEF Push
<1>4. ASSUME EntryHasTimer PROVE EntryHasTimer'
  <2> SUFFICES ASSUME NEW p \in table' PROVE \E s \in Stage : timers'[p][s] > 0
    BY DEF EntryHasTimer
  <2>1. p \in Path
    BY <1>1
  <2>2. CASE p \notin paths
    BY <1>1, <1>4, <2>1, <2>2 DEF Push, EntryHasTimer
  <2>3. CASE p \in paths /\ p \in table
    <3>1. timers'[p] = Behind(timers[p])
      BY <2>1, <2>3 DEF Push
    <3> QED
      BY <1>2, <1>4, <2>1, <2>3, <3>1, StageCounts DEF EntryHasTimer
  <2>4. CASE p \in paths /\ p \notin table
    <3>1. timers'[p] = Add(Behind(timers[p]), "clean")
      BY <2>1, <2>4 DEF Push
    <3> QED
      BY <1>2, <2>1, <3>1, StageCounts DEF Stage
  <2> QED
    BY <2>2, <2>3, <2>4
<1>5. ASSUME NEW p \in Path PROVE timers'[p]["holding"] = timers[p]["holding"]
  BY <1>2, <1>5 DEF Push, Behind, Add, Stage
<1> QED
  BY <1>1, <1>3, <1>4, <1>5

-------------------------------------------------------------------------------
(* Every step keeps the types, and every entry of the table its timer.     *)

TimerInv == WatchTypeOK /\ EntryHasTimer

LEMMA EventTypes ==
  /\ \A k \in Kind \cup {NoEvent}, l \in Kind : Coalesce(k, l) \in Kind \cup {NoEvent}
  /\ \A p \in Path : \A v : KindOf(p, v) \in Kind
BY DEF Coalesce, KindOf, Kind

LEMMA ChangeTypes ==
  ASSUME WatchTypeOK, NEW p \in Path, NEW v \in Content \cup {Absent}, Change(p, v)
  PROVE  /\ wd' \in [Path -> Content \cup {Absent}]
         /\ edits' \in 0..Edits
         /\ fresh' \subseteq Path /\ dirTouched' \in BOOLEAN
<1>1. edits' \in 0..Edits
  BY WatcherAssumption DEF Change, WatchTypeOK
<1>2. wd' \in [Path -> Content \cup {Absent}] /\ fresh' \subseteq Path
  BY DEF Change, WatchTypeOK
<1>3. dirTouched' \in BOOLEAN
  BY DEF Change, WatchTypeOK
<1> QED
  BY <1>1, <1>2, <1>3

LEMMA InitTimerInv == Init => TimerInv
<1> SUFFICES ASSUME Init PROVE TimerInv
  OBVIOUS
<1>1. [p \in Path |-> [s \in Stage |-> 0]] \in [Path -> [Stage -> Nat]]
  OBVIOUS
<1>2. Idle \in [collected : SUBSET Path, on : BOOLEAN]
  BY DEF Idle
<1>3. queue \in Seq(Event \cup {Overflow})
  BY DEF Init
<1>4. edits \in 0..Edits /\ flushes \in 0..Flushes /\ overflows \in 0..Overflows
  BY WatcherAssumption DEF Init
<1> QED
  BY <1>1, <1>2, <1>3, <1>4 DEF Init, TimerInv, WatchTypeOK, EntryHasTimer, Event

LEMMA StepTimerInv == TimerInv /\ [Next]_vars => TimerInv'
<1> SUFFICES ASSUME WatchTypeOK, EntryHasTimer, [Next]_vars
             PROVE  WatchTypeOK' /\ EntryHasTimer'
  BY DEF TimerInv
<1> USE DEF WatchTypeOK
<1>1. ASSUME NEW p \in Path, NEW v \in Content \cup {Absent}, Edit(p, v)
      PROVE  WatchTypeOK' /\ EntryHasTimer'
  <2>1. [path |-> p, kind |-> KindOf(p, v)] \in Event
    BY EventTypes DEF Event
  <2>2. queue' \in Seq(Event \cup {Overflow})
    BY <1>1, <2>1 DEF Edit, Event
  <2> QED
    BY <1>1, <2>2, ChangeTypes DEF Edit, Change, EntryHasTimer, Event
<1>2. ASSUME NEW p \in Path, NEW v \in Content \cup {Absent}, EditDropped(p, v)
      PROVE  WatchTypeOK' /\ EntryHasTimer'
  <2>1. queue' \in Seq(Event \cup {Overflow})
    BY <1>2 DEF EditDropped, Event
  <2>2. overflows' \in 0..Overflows
    BY <1>2, WatcherAssumption DEF EditDropped
  <2> QED
    BY <1>2, <2>1, <2>2, ChangeTypes DEF EditDropped, Change, EntryHasTimer, Event
<1>3. ASSUME PollEvent PROVE WatchTypeOK' /\ EntryHasTimer'
  <2>1. Head(queue) \in Event /\ queue' \in Seq(Event \cup {Overflow})
    BY <1>3 DEF PollEvent, Event
  <2> DEFINE p == Head(queue).path
  <2>2. Coalesce(window[p], Head(queue).kind) \in Kind \cup {NoEvent} /\ p \in Path
    BY <2>1, EventTypes DEF Event
  <2>3. window' \in [Path -> Kind \cup {NoEvent}] /\ gaps' \subseteq Path
    BY <1>3, <2>2 DEF PollEvent
  <2> QED
    BY <1>3, <2>1, <2>3 DEF PollEvent, EntryHasTimer, loopVars, boundVars, Event
<1>4. ASSUME PollOverflow PROVE WatchTypeOK' /\ EntryHasTimer'
  BY <1>4 DEF PollOverflow, EntryHasTimer, loopVars, boundVars
<1>5. ASSUME Recover PROVE WatchTypeOK' /\ EntryHasTimer'
  <2> DEFINE found == IF dirTouched THEN {p \in fresh : wd[p] # Absent} ELSE {}
  <2>1. found \subseteq Path /\ Push(found) /\ gaps' \subseteq Path
    BY <1>5 DEF Recover
  <2> HIDE DEF found
  <2>2. /\ table' \subseteq Path /\ timers' \in [Path -> [Stage -> Nat]]
        /\ EntryHasTimer'
    BY <2>1, PushFacts
  <2> QED
    BY <1>5, <2>1, <2>2 DEF Recover, loopVars, boundVars
<1>6. ASSUME NEW p \in Path, Collect(p) PROVE WatchTypeOK' /\ EntryHasTimer'
  <2>1. /\ table' \subseteq Path /\ timers' \in [Path -> [Stage -> Nat]]
        /\ EntryHasTimer'
    BY <1>6, PushFacts DEF Collect
  <2> QED
    BY <1>6, <2>1 DEF Collect, loopVars, boundVars
<1>7. ASSUME NEW p \in Path, NEW s \in Stage, Emit(p, s) \/ FindNothing(p, s)
      PROVE  WatchTypeOK' /\ EntryHasTimer'
  <2>1. timers' \in [Path -> [Stage -> Nat]]
    <3>1. timers[p] \in [Stage -> Nat] /\ timers[p][s] > 0
      BY <1>7 DEF Emit, FindNothing
    <3>2. Ended(timers[p], s) \in [Stage -> Nat]
      BY <3>1, StageTypes
    <3> QED
      BY <1>7, <3>2 DEF Emit, FindNothing
  <2>2. p \notin table' /\ table' \subseteq table
    BY <1>7 DEF Emit, FindNothing
  <2>3. EntryHasTimer'
    BY <1>7, <2>2 DEF Emit, FindNothing, EntryHasTimer
  <2> QED
    BY <1>7, <2>1, <2>3 DEF Emit, FindNothing, TimerVars, loopVars, boundVars
<1>8. ASSUME NEW p \in Path, TakeEntry(p) PROVE WatchTypeOK' /\ EntryHasTimer'
  <2>1. timers' \in [Path -> [Stage -> Nat]]
    BY <1>8, StageTypes DEF TakeEntry, Stage
  <2>2. EntryHasTimer'
    BY <1>8 DEF TakeEntry, EntryHasTimer
  <2> QED
    BY <1>8, <2>1, <2>2 DEF TakeEntry, TimerVars, loopVars, boundVars
<1>9. ASSUME NEW p \in Path, PutBack(p) PROVE WatchTypeOK' /\ EntryHasTimer'
  <2>1. timers' \in [Path -> [Stage -> Nat]]
    BY <1>9, StageTypes DEF PutBack, Stage
  <2>2. timers'[p]["second"] > 0
    BY <1>9, StageCounts DEF PutBack
  <2>3. EntryHasTimer'
    BY <1>9, <2>2 DEF PutBack, EntryHasTimer, Stage
  <2> QED
    BY <1>9, <2>1, <2>3 DEF PutBack, TimerVars, loopVars, boundVars
<1>10. ASSUME NEW p \in Path, Look(p) PROVE WatchTypeOK' /\ EntryHasTimer'
  BY <1>10 DEF Look, EntryHasTimer, pipeVars, boundVars
<1>11. ASSUME Deliver \/ Mark PROVE WatchTypeOK' /\ EntryHasTimer'
  BY <1>11 DEF Deliver, Mark, EntryHasTimer, pipeVars, boundVars
<1>12. ASSUME FlushCollects PROVE WatchTypeOK' /\ EntryHasTimer'
  <2>1. flushes' \in 0..Flushes
    BY <1>12, WatcherAssumption DEF FlushCollects
  <2> QED
    BY <1>12, <2>1 DEF FlushCollects, EntryHasTimer
<1>13. ASSUME FlushClears PROVE WatchTypeOK' /\ EntryHasTimer'
  BY <1>13 DEF FlushClears, EntryHasTimer, Idle, boundVars
<1>14. ASSUME UNCHANGED vars PROVE WatchTypeOK' /\ EntryHasTimer'
  BY <1>14 DEF vars, pipeVars, loopVars, boundVars, EntryHasTimer
<1> QED
  BY <1>1, <1>2, <1>3, <1>4, <1>5, <1>6, <1>7, <1>8, <1>9, <1>10, <1>11, <1>12, <1>13,
     <1>14 DEF Next, Timer

(* The watcher's state stays well typed; in particular no timer ends twice.*)
THEOREM WatchTypeCorrect == Spec => []WatchTypeOK
<1>1. TimerInv => WatchTypeOK
  BY DEF TimerInv
<1> QED
  BY <1>1, InitTimerInv, StepTimerInv, PTL DEF Spec

(* No path is ever stuck in the debounce table, in whatever order pushes,  *)
(* timers (those left behind by a flush included) and flushes meet there.  *)
THEOREM EveryEntryHasTimer == Spec => []EntryHasTimer
<1>1. TimerInv => EntryHasTimer
  BY DEF TimerInv
<1> QED
  BY <1>1, InitTimerInv, StepTimerInv, PTL DEF Spec

-------------------------------------------------------------------------------
(* What the daemon does not know is under way, or lost in a known place.   *)

Queued(p) == \E i \in DOMAIN queue : queue[i] # Overflow /\ queue[i].path = p

(* A recovery is due: it will find a path or call it a gap.                *)
Recovering == overflowed \/ \E i \in DOMAIN queue : queue[i] = Overflow

(* In the table or beyond, where an event no longer is in the coalescer.   *)
Debounced(p) ==
  timers[p]["holding"] > 0 \/ p \in table \/ p \in channel

Tracked(p) ==
  \/ Queued(p) \/ window[p] # NoEvent \/ Debounced(p) \/ p \in sweep.collected
  \/ p \in handed \/ p \in gaps
  \/ Recovering

GapInv ==
  /\ TimerInv
  /\ sweep.on \/ sweep = Idle
  /\ \A p \in Path : wd[p] # known[p] => Tracked(p)

LEMMA UnderWayCases ==
  ASSUME NEW p \in Path
  PROVE  p \in UnderWay <=>
           Queued(p) \/ window[p] # NoEvent \/ Debounced(p) \/ p \in sweep.collected
BY DEF UnderWay, Queued, Debounced

LEMMA GapInvGaps == GapInv => OnlyKnownGaps
BY UnderWayCases DEF GapInv, OnlyKnownGaps, Tracked, Recovering

LEMMA TailQueued ==
  ASSUME WatchTypeOK, queue # <<>>, queue' = Tail(queue), NEW p, Queued(p)
  PROVE  Queued(p)' \/ (Head(queue) # Overflow /\ Head(queue).path = p)
<1>1. PICK i \in DOMAIN queue : queue[i] # Overflow /\ queue[i].path = p
  BY DEF Queued
<1>2. CASE i = 1
  BY <1>1, <1>2 DEF WatchTypeOK
<1>3. CASE i # 1
  <2>1. i - 1 \in DOMAIN queue' /\ queue'[i - 1] = queue[i]
    BY <1>3 DEF WatchTypeOK
  <2> QED
    BY <1>1, <2>1 DEF Queued
<1> QED
  BY <1>2, <1>3

LEMMA AppendQueued ==
  ASSUME WatchTypeOK, NEW e \in Event \cup {Overflow}, queue' = Append(queue, e)
  PROVE  /\ \A p : Queued(p) => Queued(p)'
         /\ e # Overflow => Queued(e.path)'
         /\ \A i \in DOMAIN queue' : queue'[i] = e \/ (i \in DOMAIN queue /\ queue'[i] = queue[i])
<1>1. /\ DOMAIN queue = 1..Len(queue) /\ DOMAIN queue' = 1..(Len(queue) + 1)
      /\ queue'[Len(queue) + 1] = e
      /\ \A i \in DOMAIN queue : queue'[i] = queue[i] /\ i \in DOMAIN queue'
      /\ Len(queue) \in Nat
  BY DEF WatchTypeOK, Event
<1>2. \A p : Queued(p) => Queued(p)'
  BY <1>1 DEF Queued
<1>3. e # Overflow => Queued(e.path)'
  BY <1>1 DEF Queued
<1>4. \A i \in DOMAIN queue' : queue'[i] = e \/ (i \in DOMAIN queue /\ queue'[i] = queue[i])
  BY <1>1
<1> QED
  BY <1>2, <1>3, <1>4

(* An overflow event stays in the queue until it is its head.              *)
LEMMA AppendOverflow ==
  ASSUME WatchTypeOK, NEW e \in Event \cup {Overflow}, queue' = Append(queue, e),
         NEW i \in DOMAIN queue
  PROVE  i \in DOMAIN queue' /\ queue'[i] = queue[i]
BY DEF WatchTypeOK, Event

LEMMA TailOverflow ==
  ASSUME WatchTypeOK, queue # <<>>, queue' = Tail(queue), Head(queue) # Overflow,
         NEW i \in DOMAIN queue, queue[i] = Overflow
  PROVE  \E j \in DOMAIN queue' : queue'[j] = Overflow
<1>1. i # 1
  BY DEF WatchTypeOK
<1>2. i - 1 \in DOMAIN queue' /\ queue'[i - 1] = queue[i]
  BY <1>1 DEF WatchTypeOK
<1> QED
  BY <1>2

(* No timer drops a path: it takes the entry out to emit it or to put it   *)
(* back.                                                                   *)
LEMMA TimerKeeps ==
  ASSUME WatchTypeOK, NEW p \in Path, Timer(p), NEW q \in Path, Debounced(q)
  PROVE  Debounced(q)'
<1>1. CASE \E s \in Stage : Emit(p, s) \/ FindNothing(p, s)
  <2>1. PICK s \in Stage : Emit(p, s) \/ FindNothing(p, s)
    BY <1>1
  <2>2. s # "holding" /\ timers' = [timers EXCEPT ![p] = Ended(timers[p], s)]
    BY <2>1 DEF Emit, FindNothing
  <2>3. timers'[q]["holding"] = timers[q]["holding"]
    BY <2>2 DEF Ended, WatchTypeOK, Stage
  <2> QED
    BY <2>1, <2>3 DEF Emit, FindNothing, Debounced
<1>2. CASE TakeEntry(p)
  <2>1. timers'[p]["holding"] = timers[p]["holding"] + 1
    BY <1>2 DEF TakeEntry, Move, Stage, WatchTypeOK
  <2> QED
    BY <1>2, <2>1 DEF TakeEntry, Stage, WatchTypeOK, Debounced
<1>3. CASE PutBack(p)
  BY <1>3 DEF PutBack, Debounced
<1> QED
  BY <1>1, <1>2, <1>3 DEF Timer

(* A step that keeps track of every path, but of those the daemon now      *)
(* knows, keeps the invariant.                                             *)
LEMMA KeptTracked ==
  ASSUME GapInv, TimerInv', sweep'.on \/ sweep' = Idle,
         \A p \in Path : Tracked(p) => Tracked(p)' \/ wd'[p] = known'[p],
         \A p \in Path : wd'[p] # known'[p] => wd[p] # known[p] \/ Tracked(p)'
  PROVE  GapInv'
BY DEF GapInv

LEMMA InitGapInv == Init => GapInv
BY InitTimerInv DEF Init, GapInv

LEMMA StepGapInv == GapInv /\ [Next]_vars => GapInv'
<1> SUFFICES ASSUME GapInv, TimerInv, WatchTypeOK, TimerInv', WatchTypeOK', [Next]_vars
             PROVE  GapInv'
  BY StepTimerInv DEF GapInv, TimerInv
<1>1. ASSUME NEW p \in Path, NEW v \in Content \cup {Absent}, Edit(p, v)
      PROVE  GapInv'
  <2> DEFINE e == [path |-> p, kind |-> KindOf(p, v)]
  <2>1. e \in Event /\ e.path = p /\ e # Overflow
    BY EventTypes DEF Event, Overflow, Kind
  <2> HIDE DEF e
  <2>2. /\ queue' = Append(queue, e) /\ gaps' = gaps \ {p}
        /\ \A q \in Path \ {p} : wd'[q] = wd[q]
        /\ UNCHANGED <<known, overflowed, window, table, timers, channel, sweep, handed>>
    BY <1>1 DEF Edit, Change, e, WatchTypeOK
  <2>3. Tracked(p)'
    BY <2>1, <2>2, AppendQueued DEF Tracked
  <2>4. Recovering => Recovering'
    BY <2>1, <2>2, AppendOverflow DEF Recovering
  <2>5. \A q \in Path : Tracked(q) => Tracked(q)'
    BY <2>1, <2>2, <2>3, <2>4, AppendQueued DEF Tracked, Debounced
  <2>6. sweep'.on \/ sweep' = Idle
    BY <2>2 DEF GapInv
  <2> QED
    BY <2>2, <2>3, <2>5, <2>6, KeptTracked
<1>2. ASSUME NEW p \in Path, NEW v \in Content \cup {Absent}, EditDropped(p, v)
      PROVE  GapInv'
  <2>1. \E i \in DOMAIN queue' : queue'[i] = Overflow
    <3>1. CASE queue # <<>> /\ queue[Len(queue)] = Overflow
      <4>1. Len(queue) \in DOMAIN queue /\ queue' = queue
        BY <1>2, <3>1 DEF EditDropped, WatchTypeOK
      <4> QED
        BY <3>1, <4>1
    <3>2. CASE ~(queue # <<>> /\ queue[Len(queue)] = Overflow)
      <4>1. queue' = Append(queue, Overflow)
        BY <1>2, <3>2 DEF EditDropped
      <4>2. Len(queue) + 1 \in DOMAIN queue' /\ queue'[Len(queue) + 1] = Overflow
        BY <4>1 DEF WatchTypeOK
      <4> QED
        BY <4>2
    <3> QED
      BY <3>1, <3>2
  <2>2. \A q \in Path : Tracked(q)'
    BY <2>1 DEF Tracked, Recovering
  <2>3. sweep' = sweep
    BY <1>2 DEF EditDropped, Change
  <2> QED
    BY <2>2, <2>3 DEF GapInv
<1>3. ASSUME PollEvent
      PROVE  GapInv'
  <2>1. Head(queue) \in Event
    BY <1>3 DEF PollEvent, Event, WatchTypeOK
  <2>7. PICK p \in Path : \E k :
          /\ p = Head(queue).path /\ k = Coalesce(window[p], Head(queue).kind)
          /\ queue # <<>> /\ queue' = Tail(queue) /\ window' = [window EXCEPT ![p] = k]
          /\ Head(queue) # Overflow
          /\ gaps' = IF k = NoEvent THEN gaps \cup {p} ELSE gaps
          /\ UNCHANGED <<wd, known, overflowed, table, timers, channel, sweep, handed>>
    BY <1>3, <2>1 DEF PollEvent, loopVars, Event
  <2>2. PICK k :
          /\ p = Head(queue).path /\ k = Coalesce(window[p], Head(queue).kind)
          /\ queue # <<>> /\ queue' = Tail(queue) /\ window' = [window EXCEPT ![p] = k]
          /\ Head(queue) # Overflow
          /\ gaps' = IF k = NoEvent THEN gaps \cup {p} ELSE gaps
          /\ UNCHANGED <<wd, known, overflowed, table, timers, channel, sweep, handed>>
    BY <2>7
  <2>3. Tracked(p)'
    BY <2>2 DEF Tracked, WatchTypeOK
  <2>4. Recovering => Recovering'
    BY <2>2, TailOverflow DEF Recovering
  <2>5. \A q \in Path \ {p} : Tracked(q) => Tracked(q)'
    <3> TAKE q \in Path \ {p}
    <3>1. Queued(q) => Queued(q)'
      BY <2>2, TailQueued
    <3>2. window'[q] = window[q]
      BY <2>2
    <3> QED
      BY <2>2, <2>4, <3>1, <3>2 DEF Tracked, Debounced
  <2>6. sweep'.on \/ sweep' = Idle
    BY <2>2 DEF GapInv
  <2> QED
    BY <2>2, <2>3, <2>5, <2>6, KeptTracked
<1>4. ASSUME PollOverflow
      PROVE  GapInv'
  <2>1. overflowed' /\ sweep' = sweep
    BY <1>4 DEF PollOverflow, loopVars
  <2> QED
    BY <2>1 DEF GapInv, Tracked, Recovering
<1>5. ASSUME Recover
      PROVE  GapInv'
  <2> DEFINE found == IF dirTouched THEN {p \in fresh : wd[p] # Absent} ELSE {}
  <2>1. found \subseteq Path /\ Push(found) /\ gaps' = gaps \cup (Path \ found)
        /\ sweep' = sweep
    BY <1>5 DEF Recover, loopVars, WatchTypeOK
  <2> HIDE DEF found
  <2>2. table' = table \cup found
    BY <2>1 DEF Push
  <2>3. \A p \in Path : Tracked(p)'
    BY <2>1, <2>2 DEF Tracked, Debounced
  <2> QED
    BY <2>1, <2>3 DEF GapInv
<1>6. ASSUME NEW p \in Path, Collect(p)
      PROVE  GapInv'
  <2>1. /\ window' = [window EXCEPT ![p] = NoEvent] /\ Push({p})
        /\ UNCHANGED <<wd, queue, overflowed, channel, known, sweep, handed, gaps>>
    BY <1>6 DEF Collect, loopVars
  <2>2. table' = table \cup {p}
        /\ \A q \in Path : timers'[q]["holding"] = timers[q]["holding"]
    BY <2>1, PushFacts
  <2>3. \A q \in Path : Tracked(q) => Tracked(q)'
    <3> TAKE q \in Path
    <3>1. q # p => window'[q] = window[q]
      BY <2>1
    <3>2. Queued(q)' = Queued(q) /\ Recovering' = Recovering
      BY <2>1 DEF Queued, Recovering
    <3> QED
      BY <2>1, <2>2, <3>1, <3>2 DEF Tracked, Debounced
  <2>4. sweep'.on \/ sweep' = Idle
    BY <2>1 DEF GapInv
  <2> QED
    BY <2>1, <2>3, <2>4, KeptTracked
<1>7. ASSUME NEW p \in Path, Timer(p)
      PROVE  GapInv'
  <2>1. UNCHANGED <<wd, known, queue, overflowed, window, sweep, handed, gaps>>
    BY <1>7 DEF Timer, Emit, FindNothing, TakeEntry, PutBack, TimerVars, loopVars
  <2>2. \A q \in Path : Debounced(q) => Debounced(q)'
    BY <1>7, TimerKeeps
  <2>3. \A q \in Path : Tracked(q) => Tracked(q)'
    BY <2>1, <2>2 DEF Tracked, Queued, Recovering
  <2>4. sweep'.on \/ sweep' = Idle
    BY <2>1 DEF GapInv
  <2> QED
    BY <2>1, <2>3, <2>4, KeptTracked
<1>8. ASSUME Deliver
      PROVE  GapInv'
  <2>1. /\ UNCHANGED <<wd, queue, overflowed, window, table, timers, known, sweep, gaps>>
        /\ \A q : q \in channel \cup handed => q \in channel' \cup handed'
    BY <1>8 DEF Deliver
  <2>2. \A q \in Path : Tracked(q) => Tracked(q)'
    BY <2>1 DEF Tracked, Debounced, Queued, Recovering
  <2>3. sweep'.on \/ sweep' = Idle
    BY <2>1 DEF GapInv
  <2> QED
    BY <2>1, <2>2, <2>3, KeptTracked
<1>9. ASSUME FlushCollects
      PROVE  GapInv'
  <2>1. /\ UNCHANGED <<wd, queue, overflowed, table, timers, channel, known, handed, gaps>>
        /\ sweep' = [collected |-> {q \in Path : window[q] # NoEvent} \cup table, on |-> TRUE]
        /\ sweep = Idle
    BY <1>9 DEF FlushCollects, LoopFree, GapInv
  <2>2. sweep.collected = {} /\ sweep'.on
        /\ sweep'.collected = {q \in Path : window[q] # NoEvent} \cup table
    BY <2>1 DEF Idle
  <2>3. \A q \in Path : Tracked(q) => Tracked(q)'
    BY <2>1, <2>2 DEF Tracked, Debounced, Queued, Recovering
  <2> QED
    BY <2>1, <2>2, <2>3, KeptTracked
<1>10. ASSUME FlushClears
       PROVE  GapInv'
  <2>1. /\ UNCHANGED <<wd, queue, overflowed, window, timers, channel, known>>
        /\ sweep' = Idle
        /\ \A q : q \in sweep.collected \cup handed => q \in handed'
        /\ \A q \in table : q \in handed' \cup gaps'
        /\ gaps \subseteq gaps'
    BY <1>10 DEF FlushClears
  <2>2. \A q \in Path : Tracked(q) => Tracked(q)'
    BY <2>1 DEF Tracked, Debounced, Queued, Recovering
  <2> QED
    BY <2>1, <2>2, KeptTracked
<1>11. ASSUME NEW p \in Path, Look(p)
       PROVE  GapInv'
  <2>1. /\ UNCHANGED <<wd, queue, overflowed, window, table, timers, channel, sweep>>
        /\ handed' = handed \ {p} /\ gaps' = gaps \ {p}
        /\ known'[p] = wd[p] /\ \A q \in Path \ {p} : known'[q] = known[q]
    BY <1>11 DEF Look, pipeVars, WatchTypeOK
  <2>2. \A q \in Path \ {p} : Tracked(q) => Tracked(q)'
    BY <2>1 DEF Tracked, Debounced, Queued, Recovering
  <2>3. sweep'.on \/ sweep' = Idle
    BY <2>1 DEF GapInv
  <2> QED
    BY <2>1, <2>2, <2>3, KeptTracked
<1>12. ASSUME Mark \/ UNCHANGED vars
       PROVE  GapInv'
  <2>1. UNCHANGED <<wd, queue, overflowed, window, table, timers, channel, known, sweep,
                    handed, gaps>>
    BY <1>12 DEF Mark, vars, pipeVars, loopVars
  <2> QED
    BY <2>1 DEF GapInv, Tracked, Debounced, Queued, Recovering
<1> QED
  BY <1>1, <1>2, <1>3, <1>4, <1>5, <1>6, <1>7, <1>8, <1>9, <1>10, <1>11, <1>12 DEF Next

(* Whatever is deleted, dropped, recovered or flushed, and however timers, *)
(* polls and the two steps of a flush meet at the table: a change that the *)
(* daemon does not know of is on its way, or was lost in one of the three  *)
(* places that gaps records, or a recovery is due that will find it or     *)
(* record it.                                                              *)
THEOREM GapsAreKnown == Spec => []OnlyKnownGaps
BY InitGapInv, StepGapInv, GapInvGaps, PTL DEF Spec

-------------------------------------------------------------------------------
(* No gap ever comes up when files are only created and modified, no event *)
(* is dropped and nothing is flushed.                                      *)

NoGaps == ~Deletes /\ Flushes = 0 /\ Overflows = 0

(* Neither a delete nor an overflow ever enters the pipeline.              *)
OnlyWrites ==
  /\ ~overflowed /\ sweep = Idle /\ gaps = {}
  /\ \A i \in DOMAIN queue : queue[i] # Overflow /\ queue[i].kind # "delete"
  /\ \A p \in Path : window[p] # "delete"

LEMMA StepOnlyWrites ==
  NoGaps /\ TimerInv /\ OnlyWrites /\ [Next]_vars => OnlyWrites'
<1> SUFFICES ASSUME NoGaps, WatchTypeOK, OnlyWrites, [Next]_vars
             PROVE  OnlyWrites'
  BY DEF TimerInv
<1>1. ASSUME NEW p \in Path, NEW v \in Content \cup {Absent}, Edit(p, v)
      PROVE  OnlyWrites'
  <2> DEFINE e == [path |-> p, kind |-> KindOf(p, v)]
  <2>1. e \in Event /\ e.kind # "delete" /\ e # Overflow
    <3>1. v # Absent
      BY <1>1 DEF Edit, Change, NoGaps
    <3>2. e.kind \in Kind /\ e.kind # "delete"
      BY <3>1, EventTypes DEF KindOf
    <3>3. Overflow.kind \notin Kind
      BY DEF Overflow, Kind
    <3> QED
      BY <3>2, <3>3 DEF Event
  <2> HIDE DEF e
  <2>2. queue' = Append(queue, e)
    BY <1>1 DEF Edit, e
  <2> QED
    BY <1>1, <2>1, <2>2, AppendQueued DEF OnlyWrites, Edit, Change
<1>2. ASSUME NEW p \in Path, NEW v \in Content \cup {Absent}, EditDropped(p, v)
      PROVE  FALSE
  BY <1>2 DEF EditDropped, NoGaps, WatchTypeOK
<1>3. ASSUME PollEvent
      PROVE  OnlyWrites'
  <2> DEFINE p == Head(queue).path
             k == Coalesce(window[p], Head(queue).kind)
  <2>1. /\ queue # <<>> /\ queue' = Tail(queue) /\ window' = [window EXCEPT ![p] = k]
        /\ Head(queue) # Overflow
        /\ gaps' = IF k = NoEvent THEN gaps \cup {p} ELSE gaps
        /\ UNCHANGED <<overflowed, sweep>>
    BY <1>3 DEF PollEvent, loopVars
  <2>2. Head(queue) \in Event /\ Head(queue).kind # "delete"
    BY <2>1 DEF OnlyWrites, Event, WatchTypeOK
  <2>3. k # NoEvent /\ k # "delete" /\ p \in Path
    BY <2>2 DEF OnlyWrites, Coalesce, NoEvent, Event, Kind
  <2> HIDE DEF k, p
  <2>4. \A i \in DOMAIN queue' : \E j \in DOMAIN queue : queue'[i] = queue[j]
    <3> TAKE i \in DOMAIN queue'
    <3>1. i + 1 \in DOMAIN queue /\ queue'[i] = queue[i + 1]
      BY <2>1 DEF WatchTypeOK
    <3> QED
      BY <3>1
  <2> QED
    BY <2>1, <2>3, <2>4 DEF OnlyWrites
<1>4. ASSUME PollOverflow \/ Recover \/ FlushCollects \/ FlushClears
      PROVE  FALSE
  <2>1. ~PollOverflow
    BY DEF PollOverflow, OnlyWrites, WatchTypeOK
  <2> QED
    BY <1>4, <2>1 DEF Recover, FlushCollects, FlushClears, OnlyWrites, NoGaps, Idle, WatchTypeOK
<1>5. ASSUME \E p \in Path : Collect(p)
      PROVE  OnlyWrites'
  BY <1>5 DEF Collect, loopVars, OnlyWrites, NoEvent
<1>6. ASSUME NEW p \in Path, Timer(p)
      PROVE  OnlyWrites'
  BY <1>6 DEF Timer, Emit, FindNothing, TakeEntry, PutBack, TimerVars, loopVars, OnlyWrites
<1>7. ASSUME (\E p \in Path : Look(p)) \/ Deliver \/ Mark \/ UNCHANGED vars
      PROVE  OnlyWrites'
  BY <1>7 DEF Look, Deliver, Mark, vars, pipeVars, loopVars, OnlyWrites
<1> QED
  BY <1>1, <1>2, <1>3, <1>4, <1>5, <1>6, <1>7 DEF Next

(* As long as no file is deleted, no event dropped and nothing flushed, a  *)
(* change that the daemon does not know of is under way to the loop.       *)
THEOREM NothingMissedWithoutGaps ==
  ASSUME NoGaps
  PROVE  Spec => []NothingMissed
<1>1. Init => OnlyWrites
  BY DEF Init, OnlyWrites, NoEvent
<1>2. OnlyWrites /\ OnlyKnownGaps => NothingMissed
  BY DEF OnlyWrites, OnlyKnownGaps, NothingMissed
<1> QED
  BY <1>1, <1>2, StepOnlyWrites, InitTimerInv, StepTimerInv, GapsAreKnown, PTL DEF Spec
===============================================================================
