-------------------------------- MODULE Watcher --------------------------------
(***************************************************************************)
(* The watcher (crates/watcher/src): how the event of a changed file       *)
(* reaches the loop of the daemon, on Linux.                               *)
(*                                                                         *)
(*  notify --> coalescer --> debounce table + timers --> channel --> loop  *)
(*  queue       window        table    timers            channel    handed *)
(*                                                                         *)
(* The loop calls poll_events, next_batch and flush, one after the other;  *)
(* the timers are tokio tasks that share the table with it and run in      *)
(* parallel.  Files change at any time.  Times are left out: an event is   *)
(* ready, and a timer wakes, at any moment after it has been started.  All *)
(* files are in one directory.                                             *)
(***************************************************************************)
EXTENDS Naturals, Sequences, FiniteSets

CONSTANTS
  Path,         \* files of the repository
  Content,      \* what a file may contain
  Absent,       \* there is no such file
  Deletes,      \* files may be deleted
  Edits, Flushes, Overflows   \* bounds of the model

ASSUME WatcherAssumption ==
  /\ Absent \notin Content
  /\ Deletes \in BOOLEAN
  /\ Edits \in Nat /\ Flushes \in Nat /\ Overflows \in Nat

VARIABLES
  wd,           \* the working tree
  known,        \* what the path map of the daemon holds
  queue,        \* events of notify, oldest first
  overflowed,   \* overflow_detected
  window,       \* Coalescer.pending: the coalesced kind of each path
  table,        \* Debouncer.state: the paths that have an entry
  timers,       \* timer tasks of each path, by stage
  channel,      \* emitted paths the loop has not received
  sweep,        \* what flush() has collected from the table, or Idle
  handed,       \* paths handed to the loop
  looked,       \* those the checkpoint under way has looked at
  fresh,        \* files modified since mark_checkpoint
  dirTouched,   \* files were created or deleted since mark_checkpoint
  gaps,         \* history: paths of which a change may have been missed
  edits, flushes, overflows     \* how often each has happened

pipeVars == <<queue, overflowed, window, table, timers, channel>>
loopVars == <<known, sweep, handed, looked, fresh, dirTouched>>
boundVars == <<edits, flushes, overflows>>
vars == <<wd, pipeVars, loopVars, gaps, boundVars>>

Kind == {"create", "modify", "delete"}
NoEvent == "none"

(* A first timer is "clean" as long as no event of its path has come since *)
(* it was started, then "behind".  "holding": it has taken the entry out   *)
(* of the table to put it back.  "second": it sleeps the rest of the time. *)
Stage == {"clean", "behind", "holding", "second"}

Overflow == [path |-> "<overflow>", kind |-> "overflow"]
Idle == [collected |-> {}, on |-> FALSE]

(* Paths of which some event is still under way to the loop.               *)
UnderWay ==
  {e.path : e \in {queue[i] : i \in DOMAIN queue} \ {Overflow}}
    \cup {p \in Path : window[p] # NoEvent \/ timers[p]["holding"] > 0}
    \cup table \cup channel \cup sweep.collected

-------------------------------------------------------------------------------
WatchTypeOK ==
  /\ wd \in [Path -> Content \cup {Absent}]
  /\ known \in [Path -> Content \cup {Absent}]
  /\ queue \in Seq([path : Path, kind : Kind] \cup {Overflow})
  /\ window \in [Path -> Kind \cup {NoEvent}]
  /\ timers \in [Path -> [Stage -> Nat]]
  /\ sweep \in [collected : SUBSET Path, on : BOOLEAN]
  /\ table \subseteq Path /\ channel \subseteq Path
  /\ handed \subseteq Path /\ looked \subseteq Path
  /\ fresh \subseteq Path /\ gaps \subseteq Path
  /\ overflowed \in BOOLEAN /\ dirTouched \in BOOLEAN
  /\ edits \in 0..Edits /\ flushes \in 0..Flushes /\ overflows \in 0..Overflows

(* The daemon has started in a clean working tree.  Without a checkpoint   *)
(* the recovery compares with the UNIX epoch: everything is fresh.         *)
Init ==
  /\ wd \in [Path -> Content \cup {Absent}]
  /\ known = wd
  /\ queue = <<>> /\ overflowed = FALSE
  /\ window = [p \in Path |-> NoEvent]
  /\ table = {} /\ channel = {}
  /\ timers = [p \in Path |-> [s \in Stage |-> 0]]
  /\ sweep = Idle /\ handed = {} /\ looked = {}
  /\ fresh = Path /\ dirTouched = TRUE
  /\ gaps = {}
  /\ edits = 0 /\ flushes = 0 /\ overflows = 0

-------------------------------------------------------------------------------
(* The files.                                                              *)

KindOf(p, v) ==
  IF wd[p] = Absent THEN "create" ELSE IF v = Absent THEN "delete" ELSE "modify"

Change(p, v) ==
  /\ edits < Edits
  /\ v # wd[p]
  /\ v = Absent => Deletes
  /\ edits' = edits + 1
  /\ wd' = [wd EXCEPT ![p] = v]
  /\ fresh' = fresh \cup {p}
  /\ dirTouched' = (dirTouched \/ KindOf(p, v) # "modify")
  /\ UNCHANGED <<known, overflowed, window, table, timers, channel, sweep, handed,
                 looked, flushes>>

Edit(p, v) ==
  /\ Change(p, v)
  /\ queue' = Append(queue, [path |-> p, kind |-> KindOf(p, v)])
  /\ gaps' = gaps \ {p}
  /\ UNCHANGED overflows

(* The queue of the kernel is full: the event is dropped, and an overflow  *)
(* event takes its place unless there is one already.                      *)
EditDropped(p, v) ==
  /\ Change(p, v)
  /\ overflows < Overflows
  /\ overflows' = overflows + 1
  /\ queue' = IF queue # <<>> /\ queue[Len(queue)] = Overflow
                THEN queue ELSE Append(queue, Overflow)
  /\ UNCHANGED gaps

-------------------------------------------------------------------------------
(* poll_events.                                                            *)

LoopFree == ~sweep.on /\ looked = {}

Add(stages, s) == [stages EXCEPT ![s] = @ + 1]
Move(stages, s, t) == [stages EXCEPT ![s] = @ - 1, ![t] = @ + 1]
Ended(stages, s) == [stages EXCEPT ![s] = @ - 1]

(* An event of the path came: every first timer of the path is behind.     *)
Behind(stages) ==
  [stages EXCEPT !["clean"] = 0, !["behind"] = @ + stages["clean"]]

(* A mistake: a new entry without a timer.                                 *)
PushWithoutTimer(paths) ==
  /\ table' = table \cup paths
  /\ timers' = [p \in Path |-> IF p \in paths THEN Behind(timers[p]) ELSE timers[p]]

(* Debouncer::push, for each of the paths: an entry that is there gets a   *)
(* later time, a new one gets a timer.                                     *)
Push(paths) ==
  /\ table' = table \cup paths
  /\ timers' = [p \in Path |->
       IF p \notin paths THEN timers[p]
       ELSE IF p \in table THEN Behind(timers[p])
       ELSE Add(Behind(timers[p]), "clean")]

(* coalesce_kinds; a file created and deleted leaves no event.             *)
Coalesce(old, new) ==
  IF old = NoEvent THEN new
  ELSE IF old = "create" THEN (IF new = "delete" THEN NoEvent ELSE "create")
  ELSE IF old = "delete" THEN (IF new = "delete" THEN "delete" ELSE "modify")
  ELSE IF new = "delete" THEN "delete" ELSE "modify"

(* One event is read and coalesced with the one that waits for its path.   *)
PollEvent ==
  /\ LoopFree
  /\ ~overflowed
  /\ queue # <<>> /\ Head(queue) # Overflow
  /\ queue' = Tail(queue)
  /\ LET p == Head(queue).path
         k == Coalesce(window[p], Head(queue).kind)
     IN  /\ window' = [window EXCEPT ![p] = k]
         /\ gaps' = IF k = NoEvent THEN gaps \cup {p} ELSE gaps
  /\ UNCHANGED <<wd, overflowed, table, timers, channel, loopVars, boundVars>>

(* An overflow event has no path: it sets the flag and ends the poll.      *)
PollOverflow ==
  /\ LoopFree
  /\ ~overflowed
  /\ queue # <<>> /\ Head(queue) = Overflow
  /\ queue' = Tail(queue)
  /\ overflowed' = TRUE
  /\ UNCHANGED <<wd, window, table, timers, channel, loopVars, gaps, boundVars>>

(* Overflow recovery, at the start of the next poll: the files modified    *)
(* since the last checkpoint in directories modified since.                *)
Recover ==
  /\ LoopFree
  /\ overflowed
  /\ LET found == IF dirTouched THEN {p \in fresh : wd[p] # Absent} ELSE {}
     IN  Push(found) /\ gaps' = gaps \cup (Path \ found)
  /\ overflowed' = FALSE
  /\ UNCHANGED <<wd, queue, window, channel, loopVars, boundVars>>

(* collect_ready: an event that has waited out the window is debounced.    *)
Collect(p) ==
  /\ LoopFree
  /\ window[p] # NoEvent
  /\ window' = [window EXCEPT ![p] = NoEvent]
  /\ Push({p})
  /\ UNCHANGED <<wd, queue, overflowed, channel, loopVars, gaps, boundVars>>

-------------------------------------------------------------------------------
(* The timer tasks.                                                        *)

TimerVars == <<wd, queue, overflowed, window, loopVars, gaps, boundVars>>

(* A timer of the stage wakes and takes the entry out to emit the path.  A *)
(* first timer that is behind does so only if it woke later than the time  *)
(* the entry was put off to.                                               *)
Emit(p, s) ==
  /\ s # "holding" /\ timers[p][s] > 0
  /\ p \in table
  /\ table' = table \ {p}
  /\ channel' = channel \cup {p}
  /\ timers' = [timers EXCEPT ![p] = Ended(@, s)]
  /\ UNCHANGED TimerVars

(* A mistake: a timer that has ended already is ended again.               *)
EndAgain(p, s) ==
  /\ s # "holding"
  /\ p \notin table
  /\ timers' = [timers EXCEPT ![p] = Ended(@, s)]
  /\ UNCHANGED <<TimerVars, table, channel>>

(* Another timer or a flush was first.                                     *)
FindNothing(p, s) ==
  /\ s # "holding" /\ timers[p][s] > 0
  /\ p \notin table
  /\ timers' = [timers EXCEPT ![p] = Ended(@, s)]
  /\ UNCHANGED <<TimerVars, table, channel>>

(* A mistake: the entry of a path that has changed again is dropped.       *)
TakeAndDrop(p) ==
  /\ timers[p]["behind"] > 0
  /\ p \in table
  /\ table' = table \ {p}
  /\ timers' = [timers EXCEPT ![p] = Ended(@, "behind")]
  /\ UNCHANGED <<TimerVars, channel>>

(* state.remove of a first timer, which finds that the time is not come.   *)
TakeEntry(p) ==
  /\ timers[p]["behind"] > 0
  /\ p \in table
  /\ table' = table \ {p}
  /\ timers' = [timers EXCEPT ![p] = Move(@, "behind", "holding")]
  /\ UNCHANGED <<TimerVars, channel>>

(* A mistake: the entry is put back, but no second timer started.          *)
PutBackOnly(p) ==
  /\ timers[p]["holding"] > 0
  /\ table' = table \cup {p}
  /\ timers' = [timers EXCEPT ![p] = Ended(@, "holding")]
  /\ UNCHANGED <<TimerVars, channel>>

(* state.insert, and the second timer.                                     *)
PutBack(p) ==
  /\ timers[p]["holding"] > 0
  /\ table' = table \cup {p}
  /\ timers' = [timers EXCEPT ![p] = Move(@, "holding", "second")]
  /\ UNCHANGED <<TimerVars, channel>>

-------------------------------------------------------------------------------
(* The loop.                                                               *)

(* next_batch.                                                             *)
Deliver ==
  /\ LoopFree
  /\ \E batch \in SUBSET channel \ {{}} :
       /\ channel' = channel \ batch
       /\ handed' = handed \cup batch
  /\ UNCHANGED <<wd, queue, overflowed, window, table, timers, known, sweep, looked,
                 fresh, dirTouched, gaps, boundVars>>

(* Watcher::flush takes all of the coalescer and iterates over the table.. *)
FlushCollects ==
  /\ LoopFree
  /\ flushes < Flushes
  /\ flushes' = flushes + 1
  /\ sweep' = [collected |-> {p \in Path : window[p] # NoEvent} \cup table, on |-> TRUE]
  /\ window' = [p \in Path |-> NoEvent]
  /\ UNCHANGED <<wd, queue, overflowed, table, timers, channel, known, handed, looked,
                 fresh, dirTouched, gaps, edits, overflows>>

(* A mistake: only what the coalescer held is returned.                    *)
FlushForgets ==
  /\ sweep.on
  /\ handed' = handed \cup (sweep.collected \ table)
  /\ table' = {}
  /\ gaps' = gaps \cup (table \ sweep.collected)
  /\ sweep' = Idle
  /\ UNCHANGED <<wd, queue, overflowed, window, timers, channel, known, looked, fresh,
                 dirTouched, boundVars>>

(* .. and clears it, with what a timer has put back in between.            *)
FlushClears ==
  /\ sweep.on
  /\ handed' = handed \cup sweep.collected
  /\ table' = {}
  /\ gaps' = gaps \cup (table \ sweep.collected)
  /\ sweep' = Idle
  /\ UNCHANGED <<wd, queue, overflowed, window, timers, channel, known, looked, fresh,
                 dirTouched, boundVars>>

(* A checkpoint looks at the paths it was handed, one after the other..    *)
Look(p) ==
  /\ ~sweep.on
  /\ p \in handed
  /\ known' = [known EXCEPT ![p] = wd[p]]
  /\ handed' = handed \ {p}
  /\ looked' = looked \cup {p}
  /\ gaps' = gaps \ {p}
  /\ UNCHANGED <<wd, pipeVars, sweep, fresh, dirTouched, boundVars>>

(* .. and ends with mark_checkpoint(now).                                  *)
Mark ==
  /\ looked # {} /\ handed = {}
  /\ looked' = {}
  /\ fresh' = {} /\ dirTouched' = FALSE
  /\ UNCHANGED <<wd, pipeVars, known, sweep, handed, gaps, boundVars>>

Timer(p) ==
  \/ \E s \in Stage : Emit(p, s) \/ FindNothing(p, s)
  \/ TakeEntry(p) \/ PutBack(p)

Next ==
  \/ \E p \in Path, v \in Content \cup {Absent} : Edit(p, v) \/ EditDropped(p, v)
  \/ PollEvent \/ PollOverflow \/ Recover
  \/ \E p \in Path : Collect(p) \/ Timer(p) \/ Look(p)
  \/ Deliver \/ FlushCollects \/ FlushClears \/ Mark

Spec == Init /\ [][Next]_vars

(* The loop polls again and again, the timers wake, checkpoints are made.  *)
Fairness ==
  /\ WF_vars(PollEvent) /\ WF_vars(PollOverflow) /\ WF_vars(Recover)
  /\ WF_vars(Deliver) /\ WF_vars(FlushClears) /\ WF_vars(Mark)
  /\ \A p \in Path : SF_vars(Collect(p)) /\ WF_vars(Timer(p)) /\ WF_vars(Look(p))

FairSpec == Spec /\ Fairness

-------------------------------------------------------------------------------
(* No path is stuck in the debounce table: whatever the order in which     *)
(* timers, pushes and a flush meet, an entry has a timer that will look at *)
(* it.                                                                     *)
EntryHasTimer ==
  \A p \in table : \E s \in Stage : timers[p][s] > 0

(* A change that the daemon does not know of is under way, or handed to    *)
(* the loop.                                                               *)
NothingMissed ==
  \A p \in Path : wd[p] # known[p] => p \in UnderWay \cup handed

(* It can be missed only in one of three places, which gaps records: an    *)
(* event that was dropped, of a file the recovery does not find; a pair    *)
(* create, delete that cancelled out; an entry that a timer put back       *)
(* between the two steps of a flush.                                       *)
OnlyKnownGaps ==
  \A p \in Path :
    wd[p] # known[p] =>
      \/ p \in UnderWay \cup handed \cup gaps
      \/ overflowed \/ \E i \in DOMAIN queue : queue[i] = Overflow

(* Once the files stay as they are, the daemon comes to know them, through *)
(* flushes, dropped events and recoveries, but for those three places.     *)
Settles == <>[](\A p \in Path : known[p] = wd[p] \/ p \in gaps)
===============================================================================
