--------------------------------- MODULE Sync ----------------------------------
(***************************************************************************)
(* Publishing, pulling and pushing together: three commands, the daemon,   *)
(* the branch commands, garbage collection and other people, upon the      *)
(* repository of JjRepo.tla.                                               *)
(***************************************************************************)
EXTENDS Publish, Import, Push, Queries

vars == <<repoVars, pub, importVars, push>>

SyncTypeOK == RepoTypeOK /\ PublishTypeOK /\ ImportTypeOK /\ PushTypeOK

Init == RepoInit /\ PublishInit /\ ImportInit /\ PushInit

Next ==
  \/ PublishNext /\ UNCHANGED <<importVars, push>>
  \/ ImportNext /\ UNCHANGED <<pub, push>>
  \/ PushNext /\ UNCHANGED <<pub, importVars>>
  \/ (LoopCheckpoint \/ RebuildMap \/ OthersPush \/ DeleteBranch
        \/ \E i \in Checkpoints : CreateBranch(i))
       /\ UNCHANGED <<pub, importVars, push>>
  \/ Collect /\ imp.by = "daemon" /\ UNCHANGED <<pub, importVars, push>>

Spec == Init /\ [][Next]_vars

-----------------------------------------------------------------------------
(* A commit lies upon the commit of the parent of its checkpoint, or upon  *)
(* the base: publishing in batches, squashing, and pulling in between      *)
(* never put it upon any other.                                            *)
CommitLineage ==
  \A c \in Commits : commits[c].of # 0 =>
    LET upon == commits[c].parent
        p == cps[commits[c].of].parent
    IN  \/ upon \in {0, seed.commit}
        \/ p # 0 /\ (commits[upon].of = p \/ cps[p].from = upon)

(* What the bookmark leads to is in the mapping on the disk, so that no    *)
(* crash makes a second commit of a checkpoint that may have been pushed   *)
(* (the flush of publish.rs); and a commit that leads to a checkpoint is   *)
(* led to, or was, by that checkpoint, whatever prefix of the unflushed    *)
(* writes a death leaves.                                                  *)
BookmarkedIsMapped ==
  \A c \in Ancestors[bookmark] \cup Ancestors[remote] :
    commits[c].of # 0 => states[1].fwd[commits[c].of] # 0
BothWays(m) == \A c \in Commits : m.rev[c] # 0 => m.fwd[m.rev[c]] # 0
MappingSafe == BookmarkedIsMapped /\ \A k \in 1..Len(states) : BothWays(states[k])

(* Whoever answers, a question has one answer: see Queries.tla.            *)
AnswersAgree == ResolversAgree /\ LogNamesHead /\ StatusAgrees

(* The remote branch goes back only by --force ("rejects non-fast-forward  *)
(* pushes unless `--force`", BENCH.md), and then from where the push has   *)
(* seen it - but where git pushes its HEAD, --force drops what others have *)
(* pushed, seen or not.                                                    *)
RemoteNeverRewound ==
  [][\/ remote \in Ancestors'[remote']
     \/ push.force /\ (push.step = "send" => remote = tracking)]_vars
===============================================================================
