-------------------------------- MODULE JjRepo ---------------------------------
(***************************************************************************)
(* What publishing, pulling and pushing share: the checkpoints with their  *)
(* trees, the graph of JJ commits with the bookmark and its remote, and    *)
(* the mapping between the two (crates/jj/src/mapping.rs), a sled tree     *)
(* that commands write without flushing.                                   *)
(*                                                                         *)
(* The journal and the event loop have modules of their own; here the      *)
(* daemon only adds checkpoints: its path map with one path changed.  A    *)
(* collection removes some.  jj-lib, git and the remote are external.      *)
(***************************************************************************)
EXTENDS Naturals, Sequences, FiniteSets

CONSTANTS
  Path, Content, Absent,
  MaxCheckpoint, MaxCommit,     \* bounds of the model
  StartTrees, RemoteTree,       \* trees of the first checkpoint, of the remote branch
  Seeds,                        \* which seed commits there may be: see SeedCommit
  Budgets                       \* how often each kind of event may happen

Event == {"edit", "others", "branch", "publish", "pull", "push", "death"}

Tree == [Path -> Content \cup {Absent}]
EmptyTree == [p \in Path |-> Absent]

ASSUME JjRepoAssumption ==
  /\ Absent \notin Content
  /\ MaxCheckpoint \in Nat \ {0} /\ MaxCommit \in Nat \ {0, 1}
  /\ StartTrees \subseteq Tree /\ RemoteTree \in Tree
  /\ Seeds \subseteq {"none", "same", "empty"}
  /\ Budgets \subseteq [Event -> Nat]

(* Paths that differ: compute_tree_diff_paths, whatever the kind of change.*)
Differ(t, u) == {p \in Path : t[p] # u[p]}

VARIABLES
  cps,        \* checkpoints ever made, by number: parent (0: none), tree, touched
              \* paths; from and gap are history: the commit it was imported from (0:
              \* none), and whether the loop's map was not the tree of its parent
  index,      \* numbers of the checkpoints the journal has
  pins,       \* checkpoint that "published" and "pulled" name; 0: no pin
  up,         \* the daemon runs, and has the journal open
  map, stale, \* its path map (pathmap.bin when it is down), state/pathmap_stale
  commits,    \* commits by number: parent (0: the root commit), tree; of and guessed
              \* are history: the checkpoint it was made of (0: none), see MappedTree
  bookmark,   \* target of the local bookmark; 0: absent or in conflict
  tracked,    \* the remote bookmark is a tracked one
  tracking,   \* the remote bookmark: refs/remotes/origin/<branch>
  remote,     \* the branch at the remote
  states,     \* the mapping: its states since the last flush, the current one last
  seed,       \* SEED_INIT and SEED_INIT_TREE: commit (0: none), tree
  holder,     \* the process that has the mapping open
  left,       \* what is left of the budget
  lost        \* history: commits whose reverse key a death has lost

journalVars == <<cps, index, pins>>
daemonVars == <<up, map, stale>>
gitVars == <<bookmark, tracked, tracking, remote>>
mapVars == <<states, holder, lost>>
repoVars == <<journalVars, daemonVars, commits, gitVars, mapVars, seed, left>>

Checkpoints == 1..Len(cps)
Commits == 1..Len(commits)
Latest == IF index = {} THEN 0 ELSE CHOOSE i \in index : \A j \in index : j <= i

-----------------------------------------------------------------------------
(* The mapping.  fwd[i] = 0 and rev[c] = 0 stand for missing keys.         *)

NoMapping == [fwd |-> [i \in 1..MaxCheckpoint |-> 0],
              rev |-> [c \in 1..MaxCommit |-> 0]]
mapping == states[Len(states)]
Published(i) == mapping.fwd[i] # 0
MapTo(m, i, c) == [m EXCEPT !.fwd[i] = c]
MapBack(m, i, c) == [m EXCEPT !.rev[c] = i]

(* set, then set_reverse: two writes, neither flushed.                     *)
Recorded(i, c) ==
  LET m == MapTo(mapping, i, c) IN states \o <<m, MapBack(m, i, c)>>

Flushed == <<mapping>>

(* A process that dies leaves any prefix of what it had not flushed.       *)
Survivors == {<<states[k]>> : k \in 1..Len(states)}

TakeMapping(who) == holder = "free" /\ holder' = who

(* A mistake: closing the tree forgets what was not flushed.               *)
DropForgets == holder' = "free" /\ states' = <<>> /\ UNCHANGED lost

(* Closing the tree flushes it.                                            *)
DropMapping == holder' = "free" /\ states' = Flushed /\ UNCHANGED lost

(* Its holder dies with these commits recorded, in part.                   *)
LoseMapping(new) ==
  /\ holder' = "free"
  /\ states' \in Survivors
  /\ lost' = lost \cup {c \in new : states'[1].rev[c] \notin index}

Spend(kind) == left[kind] > 0 /\ left' = [left EXCEPT ![kind] = @ - 1]

-----------------------------------------------------------------------------
(* The commit graph.                                                       *)

Ancestors[c \in 0..Len(commits)] ==
  IF c = 0 THEN {} ELSE {c} \cup Ancestors[commits[c].parent]
IsAncestor(c, d) == c = 0 \/ c \in Ancestors[d]

(* The checkpoints above i, as far as the journal has them.                *)
Line[i \in 0..Len(cps)] ==
  IF i = 0 \/ i \notin index THEN {} ELSE {i} \cup Line[cps[i].parent]

(* The local bookmark after jj has imported the fetched refs: the bookmark *)
(* of a tracked remote one is where it is, follows it, keeps what is ahead *)
(* of it, or is in conflict.                                               *)
Merged ==
  CASE ~tracked \/ tracking = remote -> bookmark
    [] tracked /\ tracking # remote ->
         IF bookmark \in {tracking, remote} \/ {tracking, bookmark} \subseteq Ancestors[remote]
         THEN remote
         ELSE IF {tracking, remote} \subseteq Ancestors[bookmark] THEN bookmark ELSE 0

-----------------------------------------------------------------------------
RepoTypeOK ==
  /\ cps \in Seq([parent : 0..MaxCheckpoint, tree : Tree, touched : SUBSET Path,
                  from : 0..MaxCommit, gap : BOOLEAN])
  /\ Len(cps) <= MaxCheckpoint /\ Len(commits) <= MaxCommit
  /\ index \subseteq Checkpoints
  /\ pins \in [{"published", "pulled"} -> 0..Len(cps)]
  /\ {up, stale, tracked} \subseteq BOOLEAN /\ map \in Tree
  /\ commits \in Seq([parent : 0..MaxCommit, tree : Tree, of : 0..MaxCheckpoint,
                      guessed : BOOLEAN])
  /\ {bookmark, tracking, remote} \subseteq 0..Len(commits)
  /\ states # <<>>
  /\ \A k \in 1..Len(states) :
       /\ states[k].fwd \in [1..MaxCheckpoint -> 0..Len(commits)]
       /\ states[k].rev \in [1..MaxCommit -> 0..Len(cps)]
  /\ seed \in [commit : 0..Len(commits), tree : Tree]
  /\ holder \in {"free", "publish", "import"}
  /\ left \in [Event -> Nat]
  /\ lost \subseteq Commits

NewOf(parent, tree, i, guessed) ==
  [parent |-> parent, tree |-> tree, of |-> i, guessed |-> guessed]

(* The commit of SEED_INIT, if it was recorded: its tree is that of the    *)
(* working-copy commit, which may know of nothing.                         *)
SeedCommit(s, t) ==
  CASE s = "none" -> <<>>
    [] s = "same" -> <<NewOf(0, t, 0, FALSE)>>
    [] s = "empty" -> <<NewOf(0, EmptyTree, 0, FALSE)>>

(* After `tl init`: a first checkpoint of the files there were.  The seed  *)
(* is made in the background and is seldom recorded (the daemon has the    *)
(* journal).  The remote has a branch somebody else made.                  *)
RepoInit ==
  \E t \in StartTrees, s \in Seeds :
    /\ cps = <<[parent |-> 0, tree |-> t, touched |-> Differ(EmptyTree, t),
                from |-> 0, gap |-> FALSE]>>
    /\ index = {1}
    /\ pins = [name \in {"published", "pulled"} |-> 0]
    /\ up \in BOOLEAN /\ map = t /\ stale = FALSE
    /\ commits = <<NewOf(0, RemoteTree, 0, FALSE)>> \o SeedCommit(s, t)
    /\ bookmark = 0 /\ tracked = FALSE /\ tracking = 0 /\ remote = 1
    /\ states = <<NoMapping>> /\ holder = "free" /\ lost = {}
    /\ left \in Budgets
    /\ seed = [commit |-> IF s = "none" THEN 0 ELSE 2,
               tree |-> IF s = "none" THEN EmptyTree ELSE t]

(* One more checkpoint; its number is its place in cps.                    *)
Record(parent, tree, touched, from, gap) ==
  /\ Len(cps) < MaxCheckpoint
  /\ cps' = Append(cps, [parent |-> parent, tree |-> tree, touched |-> touched,
                         from |-> from, gap |-> gap])
  /\ index' = index \cup {Len(cps) + 1}

NewCommit(parent, tree, i, guessed) ==
  /\ Len(commits) < MaxCommit
  /\ commits' = Append(commits, NewOf(parent, tree, i, guessed))

(* The daemon's loop: one path has another content than its map says.      *)
LoopCheckpoint ==
  /\ up
  /\ Spend("edit")
  /\ \E p \in Path, v \in Content \cup {Absent} :
       /\ v # map[p]
       /\ map' = [map EXCEPT ![p] = v]
       /\ Record(Latest, map', {p}, 0, map # cps[Latest].tree)
  /\ UNCHANGED <<pins, up, stale, commits, gitVars, mapVars, seed>>

(* The loop finds the marker: rebuild_pathmap_from_head.                   *)
RebuildMap ==
  /\ up /\ stale
  /\ map' = cps[Latest].tree
  /\ stale' = FALSE
  /\ UNCHANGED <<journalVars, up, commits, gitVars, mapVars, seed, left>>

(* `tl gc`, the daemon down: neither HEAD nor a pinned checkpoint goes.    *)
Collect ==
  /\ ~up
  /\ \E i \in index \ {Latest, pins["published"], pins["pulled"]} : index' = index \ {i}
  /\ UNCHANGED <<cps, pins, daemonVars, commits, gitVars, mapVars, seed, left>>

(* Somebody else pushes to the remote branch.                              *)
OthersPush ==
  /\ Spend("others")
  /\ \E p \in Path, v \in Content \cup {Absent} :
       /\ v # commits[remote].tree[p]
       /\ NewCommit(remote, [commits[remote].tree EXCEPT ![p] = v], 0, FALSE)
  /\ remote' = Len(commits) + 1
  /\ UNCHANGED <<journalVars, daemonVars, bookmark, tracked, tracking, mapVars, seed>>

(* `tl branch -d`.                                                         *)
DeleteBranch ==
  /\ Spend("branch")
  /\ bookmark # 0
  /\ bookmark' = 0
  /\ UNCHANGED <<journalVars, daemonVars, commits, tracked, tracking, remote, mapVars,
                 seed>>

(* `tl branch -c`: a bookmark at the commit of a published checkpoint.     *)
CreateBranch(i) ==
  /\ Spend("branch")
  /\ holder = "free"
  /\ Published(i) /\ bookmark # mapping.fwd[i]
  /\ bookmark' = mapping.fwd[i]
  /\ UNCHANGED <<journalVars, daemonVars, commits, tracked, tracking, remote, mapVars,
                 seed>>
===============================================================================
