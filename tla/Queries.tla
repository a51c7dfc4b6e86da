-------------------------------- MODULE Queries --------------------------------
(***************************************************************************)
(* What commands ask of the repository: which checkpoint a reference       *)
(* means, a page of the history, how a branch stands to its remote.  Most  *)
(* questions have more than one implementation: the daemon answers while   *)
(* it runs, the command itself (crates/cli/src/data_access.rs) otherwise.  *)
(***************************************************************************)
EXTENDS JjRepo, SequencesExt

-----------------------------------------------------------------------------
(* References.  A text may be the full id of a checkpoint, the beginning   *)
(* of the ids of some, the name of a pin, or several of these at once.     *)

(* The name "gone" stands for one that no pin has.  Only a checkpoint      *)
(* itself begins with its full id.                                         *)
PinName == {"published", "pulled", "gone"}
Text == [full : {0}, like : SUBSET Checkpoints, pin : PinName]
          \cup {[full |-> i, like |-> {i}, pin |-> name] : i \in Checkpoints, name \in PinName}

(* list_pins: the pins there are.                                          *)
PinTarget(name) == IF name = "gone" THEN 0 ELSE pins[name]
InIndex(i) == IF i \in index THEN i ELSE 0

(* HEAD~n: n steps to the parent, as long as there is one.                 *)
Back(i) == IF i = 0 THEN 0 ELSE InIndex(cps[i].parent)
HeadBack[n \in Nat] == IF n = 0 THEN Latest ELSE Back(HeadBack[n - 1])

Only(S) == CHOOSE i \in S : S = {i}

(* A prefix decides unless nothing begins like it; 0 if it is ambiguous.   *)
Prefix(text, otherwise) ==
  LET matching == text.like \cap index IN
  CASE Cardinality(matching) = 1 -> Only(matching)
    [] Cardinality(matching) > 1 -> 0
    [] OTHER -> otherwise

(* The daemon's ResolveCheckpointRefs: what it names is in the journal.    *)
ViaDaemon(text) ==
  IF text.full \in index THEN text.full
  ELSE Prefix(text, InIndex(PinTarget(text.pin)))

(* A mistake: names go before prefixes.                                    *)
PinsFirst(text) ==
  CASE text.full \in index -> text.full
    [] PinTarget(text.pin) # 0 -> PinTarget(text.pin)
    [] OTHER -> Prefix(text, 0)

(* resolve_via_journal: a pin is taken at its word.                        *)
ViaJournal(text) ==
  IF text.full \in index THEN text.full
  ELSE Prefix(text, PinTarget(text.pin))

(* resolve_checkpoint_ref of util.rs: an id that is not there is an error, *)
(* whatever else it might mean.                                            *)
ViaUtil(text) ==
  IF text.full # 0 THEN InIndex(text.full) ELSE Prefix(text, PinTarget(text.pin))

-----------------------------------------------------------------------------
(* History.                                                                *)

(* GetCheckpoints and GetLogData walk from HEAD by parents, and stop at a  *)
(* checkpoint that the journal does not have.                              *)
Walk[i \in 0..Len(cps)] ==
  IF i \notin index THEN <<>> ELSE <<i>> \o Walk[cps[i].parent]
History == Walk[Latest]

Page(limit, offset) == SubSeq(History, offset + 1, Min({offset + limit, Len(History)}))

-----------------------------------------------------------------------------
(* Branches.                                                               *)

(* calculate_ahead_behind: commits of one history that are not in the      *)
(* other.                                                                  *)
Ahead(local, there) == Cardinality(Ancestors[local] \ Ancestors[there])

(* get_remote_branch_updates: diverged if both have something of their own.*)
DivergedByCount(local, there) == Ahead(local, there) > 0 /\ Ahead(there, local) > 0

(* get_remote_branch_updates_fast: diverged if neither is an ancestor.     *)
DivergedFast(local, there) ==
  local # there /\ ~IsAncestor(local, there) /\ ~IsAncestor(there, local)

-----------------------------------------------------------------------------
(* A reference means the same checkpoint whoever resolves it, and util.rs  *)
(* refuses at most more: no collection takes what "pulled" names.  (A      *)
(* publish puts its pin last, on what may have been collected by then.)    *)
ResolversAgree ==
  \A text \in Text : text.pin # "published" =>
    /\ ViaJournal(text) = ViaDaemon(text)
    /\ ViaUtil(text) \in {ViaDaemon(text), 0}

(* Line n of a log, whatever its pages, is HEAD~n, whatever pulls and      *)
(* collections have made of the history.                                   *)
LogNamesHead ==
  \A limit \in 1..2, offset \in 0..MaxCheckpoint :
    LET page == Page(limit, offset) IN
    /\ Len(page) <= limit
    /\ \A k \in 1..limit :
         HeadBack[offset + k - 1] = IF k <= Len(page) THEN page[k] ELSE 0

(* The quick look at a branch and the one that counts agree.               *)
StatusAgrees ==
  bookmark # 0 /\ tracking # 0 =>
    (DivergedFast(bookmark, tracking) <=> DivergedByCount(bookmark, tracking))
===============================================================================
