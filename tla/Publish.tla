-------------------------------- MODULE Publish --------------------------------
(***************************************************************************)
(* `tl publish`: checkpoints become JJ commits.  crates/cli/src/cmd/       *)
(* publish.rs chooses the checkpoints, crates/jj/src/materialize.rs makes  *)
(* one commit of each, from the tree of its parent commit and the paths    *)
(* that are said to have changed.                                          *)
(***************************************************************************)
EXTENDS JjRepo, SequencesExt

CONSTANTS MaxChainGap     \* MAX_CHAIN_GAP

VARIABLE pub      \* the command: its step, checkpoints, commits, accumulated_paths

NoPaths == {"none"}       \* accumulated_paths: None

NoPublish == [step |-> "idle", all |-> <<>>, todo |-> <<>>, made |-> <<>>,
              paths |-> NoPaths, whole |-> TRUE, compact |-> FALSE, pin |-> FALSE]

PublishInit == pub = NoPublish

PublishTypeOK ==
  /\ pub.step \in {"idle", "convert", "flush", "bookmark", "pin"}
  /\ \A s \in {pub.all, pub.todo} : s \in Seq(Checkpoints)
  /\ pub.made \in Seq(Commits)
  /\ pub.paths = NoPaths \/ pub.paths \subseteq Path
  /\ {pub.compact, pub.pin, pub.whole} \subseteq BOOLEAN

-----------------------------------------------------------------------------
(* Which checkpoints.                                                      *)

(* start..end, by parents; a missing one, or the root, on the way is an    *)
(* error.                                                                  *)
CheckpointRange(start, end) == {i \in Line[end] : i >= start}

(* Ancestors still to be published, up to one that is, or will be; 0 is    *)
(* among them if the journal no longer has one.                            *)
Unpublished(chosen) ==
  LET up_from[i \in Checkpoints] ==
        LET p == cps[i].parent IN
        IF p = 0 \/ p \in chosen \/ Published(p) THEN {}
        ELSE IF p \notin index THEN {0}
        ELSE {p} \cup up_from[p]
  IN  up_from

(* find_chain_to_published_ancestor: nothing if it is broken or too long.  *)
Chain(i, chosen) ==
  LET chain == Unpublished(chosen)[i] IN
  IF 0 \in chain \/ Cardinality(chain) >= MaxChainGap THEN {} ELSE chain

(* smart_chain_publish: ancestors first, in the order of their numbers.    *)
(* (SortSeq of TLC.tla is nothing that TLAPS knows.)                       *)
InOrder(S) ==
  CHOOSE s \in [1..Cardinality(S) -> S] : \A j, k \in DOMAIN s : j < k => s[j] < s[k]
AncestorsOf(chosen) ==
  UNION {Chain(i, chosen) : i \in {j \in chosen : ~Published(j)}}

(* A mistake: the ancestors come last.                                     *)
AncestorsLast(chosen) == InOrder(chosen) \o InOrder(AncestorsOf(chosen))

WithAncestors(chosen) ==
  InOrder(AncestorsOf(chosen)) \o InOrder(chosen)

(* accumulate_touched_paths: the union on the way to a published ancestor, *)
(* the root, or a gap.                                                     *)
Accumulated ==
  LET from[i \in Checkpoints] ==
        LET p == cps[i].parent IN
        cps[i].touched \cup
          (IF p = 0 \/ Published(p) \/ p \notin index THEN {} ELSE from[p])
  IN  from

(* Is that union all that has changed since the seed?                      *)
ReachesRoot(i) ==
  /\ 0 \notin Unpublished({})[i]
  /\ \A j \in Unpublished({})[i] \cup {i} :
       /\ cps[j].parent = 0 \/ ~Published(cps[j].parent)
       /\ ~cps[j].gap /\ cps[j].from = 0

PublishBegin(start, end, compact, pin) ==
  /\ pub.step = "idle"
  /\ Spend("publish")
  /\ up
  /\ TakeMapping("publish")
  /\ end \in index /\ start \in Line[end]
  /\ LET chosen == CheckpointRange(start, end)
         all == WithAncestors(chosen)
         p == cps[all[1]].parent
     IN  /\ compact \/ \A i \in chosen : ~Published(i)
         /\ pub' = [step |-> "convert", all |-> all,
                    todo |-> IF compact THEN <<end>> ELSE all, made |-> <<>>,
                    paths |-> IF p # 0 /\ ~Published(p) THEN Accumulated[all[1]]
                              ELSE NoPaths,
                    whole |-> ReachesRoot(all[1]) /\ ~compact,
                    compact |-> compact, pin |-> pin]
  /\ UNCHANGED <<journalVars, daemonVars, commits, gitVars, states, lost, seed>>

-----------------------------------------------------------------------------
(* One commit.                                                             *)

(* A mistake: no touched path means that nothing has changed.              *)
ConvertTouchedOnly(base, paths, tree) ==
  IF base = 0 THEN tree
  ELSE [p \in Path |-> IF p \in paths THEN tree[p] ELSE commits[base].tree[p]]

(* convert_tree_to_jj_incremental: all of the tree if there is no base, or *)
(* if no path is said to have changed.                                     *)
Convert(base, paths, tree) ==
  IF base = 0 \/ paths = {} THEN tree
  ELSE [p \in Path |-> IF p \in paths THEN tree[p] ELSE commits[base].tree[p]]

(* determine_parents.                                                      *)
TrueParent(i) == pub.made # <<>> \/ (cps[i].parent # 0 /\ Published(cps[i].parent))
ParentCommit(i) ==
  LET p == cps[i].parent IN
  IF pub.made # <<>> THEN Last(pub.made)
  ELSE IF p # 0 /\ Published(p) THEN mapping.fwd[p]
  ELSE seed.commit

ChangedPaths(i) ==
  IF TrueParent(i) THEN cps[i].touched
  ELSE IF pub.paths # NoPaths THEN pub.paths
  ELSE IF seed.commit # 0 THEN Differ(seed.tree, cps[i].tree)
  ELSE {}

(* Is the list of paths known to be short?  What the loop records upon a   *)
(* map that is not the tree of its parent differs in more than it touches; *)
(* the accumulated paths may end before they reach the seed.               *)
Guess(i, base) ==
  IF TrueParent(i) THEN cps[i].touched # {} /\ (cps[i].gap \/ commits[base].guessed)
  ELSE pub.paths # NoPaths /\ ~pub.whole

(* The commit, then the mapping in both directions.                        *)
PublishOne ==
  /\ pub.step = "convert" /\ pub.todo # <<>>
  /\ LET i == Head(pub.todo)
         base == ParentCommit(i)
         new == Len(commits) + 1
     IN  /\ NewCommit(base, Convert(base, ChangedPaths(i), cps[i].tree), i,
              base # 0 /\ Guess(i, base))
         /\ states' = Recorded(i, new)
         /\ pub' = [pub EXCEPT !.todo = Tail(@), !.made = Append(@, new),
                               !.step = IF Len(pub.todo) = 1 THEN "flush" ELSE @]
  /\ UNCHANGED <<journalVars, daemonVars, gitVars, holder, lost, seed, left>>

(* A mistake: the bookmark is moved before the mapping is flushed.         *)
PublishNotFlushed ==
  /\ pub.step = "flush"
  /\ pub' = [pub EXCEPT !.step = "bookmark"]
  /\ UNCHANGED <<repoVars>>

(* tx.commit, and the flush that comes before anything refers to it.       *)
PublishFlush ==
  /\ pub.step = "flush"
  /\ states' = Flushed
  /\ pub' = [pub EXCEPT !.step = "bookmark"]
  /\ UNCHANGED <<journalVars, daemonVars, commits, gitVars, holder, lost, seed, left>>

PublishBookmark ==
  /\ pub.step = "bookmark"
  /\ bookmark' = Last(pub.made)
  /\ pub' = [pub EXCEPT !.step = "pin"]
  /\ UNCHANGED <<journalVars, daemonVars, commits, tracked, tracking, remote, mapVars, seed,
                 left>>

(* Every checkpoint gets the same pin: the last one keeps it.              *)
PublishPin ==
  /\ pub.step = "pin"
  /\ pins' = IF pub.pin THEN [pins EXCEPT !["published"] = Last(pub.all)] ELSE pins
  /\ pub' = NoPublish
  /\ DropMapping
  /\ UNCHANGED <<cps, index, daemonVars, commits, gitVars, seed, left>>

(* An object cannot be read, the transaction cannot be committed.          *)
PublishFails ==
  /\ pub.step # "idle"
  /\ Spend("death")
  /\ pub' = NoPublish
  /\ DropMapping
  /\ UNCHANGED <<journalVars, daemonVars, commits, gitVars, seed>>

PublishDies ==
  /\ pub.step # "idle"
  /\ Spend("death")
  /\ pub' = NoPublish
  /\ LoseMapping({pub.made[k] : k \in DOMAIN pub.made})
  /\ UNCHANGED <<journalVars, daemonVars, commits, gitVars, seed>>

PublishNext ==
  \/ \E s, e \in Checkpoints, compact, pin \in BOOLEAN : PublishBegin(s, e, compact, pin)
  \/ PublishOne \/ PublishFlush \/ PublishBookmark \/ PublishPin
  \/ PublishFails \/ PublishDies

-----------------------------------------------------------------------------
(* The commit of a checkpoint has the tree of the checkpoint, although it  *)
(* is made of the parent's tree and a list of paths: through batches,      *)
(* squashed ranges, imports, lost mappings and collected ancestors.        *)
(* Excepted are the commits made upon the seed from touched paths that do  *)
(* not go back to it, and what is made upon those.                         *)
MappedTree ==
  \A i \in Checkpoints : Published(i) =>
    LET c == commits[mapping.fwd[i]] IN c.guessed \/ c.tree = cps[i].tree

(* What smart_chain_publish says: "correct incremental conversion"         *)
(* (publish.rs:233), by a "tree-diff fallback" if need be (publish.rs:341). *)
MappedTreeAlways ==
  \A i \in Checkpoints : Published(i) => commits[mapping.fwd[i]].tree = cps[i].tree
===============================================================================
