--------------------------------- MODULE Push ----------------------------------
(***************************************************************************)
(* `tl push` (crates/cli/src/cmd/push.rs).  If git's HEAD is the bookmark, *)
(* git pushes it, whatever the remote is seen at.  Otherwise (see          *)
(* native_git_push of crates/jj/src/git_ops.rs) the branch is fetched,     *)
(* compared, and pushed if the remote still is where the fetch saw it.     *)
(***************************************************************************)
EXTENDS JjRepo

VARIABLE push         \* the command: its step, --force, what it has pushed

NoPush == [step |-> "idle", force |-> FALSE, target |-> 0]
PushInit == push = NoPush
PushTypeOK == push \in [step : {"idle", "head", "send", "record"}, force : BOOLEAN,
                         target : 0..Len(commits)]

(* The fast path.  Where HEAD is, is git's affair: it may be the bookmark. *)
PushHead(force) ==
  /\ push.step = "idle"
  /\ Spend("push")
  /\ bookmark # 0
  /\ push' = [step |-> "head", force |-> force, target |-> bookmark]
  /\ UNCHANGED <<journalVars, daemonVars, commits, gitVars, mapVars, seed>>

(* `git push [--force]`: without --force the remote may only advance, with *)
(* it any commit there is replaced.  jj will hear of it at the next fetch. *)
PushHeadSend ==
  /\ push.step = "head"
  /\ remote' = IF push.force \/ remote \in Ancestors[push.target] THEN push.target ELSE remote
  /\ push' = NoPush
  /\ UNCHANGED <<journalVars, daemonVars, commits, bookmark, tracked, tracking, mapVars,
                 seed, left>>

(* native_git_fetch_filtered; the bookmark must then be at one commit.     *)
PushFetch(force) ==
  /\ push.step = "idle"
  /\ Spend("push")
  /\ bookmark' = Merged
  /\ tracking' = remote
  /\ push' = IF Merged = 0 THEN NoPush ELSE [NoPush EXCEPT !.step = "send", !.force = force]
  /\ UNCHANGED <<journalVars, daemonVars, commits, tracked, remote, mapVars, seed>>

UpToDate == bookmark = tracking
Diverged == ~push.force /\ tracking # 0 /\ ~IsAncestor(tracking, bookmark)

(* A mistake: what the remote has now is not compared with what was seen.  *)
PushSendBlind ==
  /\ push.step = "send"
  /\ IF bookmark = 0 \/ UpToDate \/ Diverged
     THEN push' = NoPush /\ UNCHANGED remote
     ELSE push' = [push EXCEPT !.step = "record", !.target = bookmark] /\ remote' = bookmark
  /\ UNCHANGED <<journalVars, daemonVars, commits, bookmark, tracked, tracking, mapVars,
                 seed, left>>

(* push_branches names the target it expects, with --force too: another    *)
(* one is a rejection.                                                     *)
PushSend ==
  /\ push.step = "send"
  /\ IF bookmark = 0 \/ UpToDate \/ Diverged \/ remote # tracking
     THEN push' = NoPush /\ UNCHANGED remote
     ELSE push' = [push EXCEPT !.step = "record", !.target = bookmark] /\ remote' = bookmark
  /\ UNCHANGED <<journalVars, daemonVars, commits, bookmark, tracked, tracking, mapVars,
                 seed, left>>

(* The transaction records where the remote bookmark is now.               *)
PushRecord ==
  /\ push.step = "record"
  /\ tracking' = push.target /\ tracked' = TRUE
  /\ push' = NoPush
  /\ UNCHANGED <<journalVars, daemonVars, commits, bookmark, remote, mapVars, seed, left>>

PushDies ==
  /\ push.step # "idle" /\ Spend("death")
  /\ push' = NoPush
  /\ UNCHANGED <<journalVars, daemonVars, commits, gitVars, mapVars, seed>>

PushNext ==
  \/ \E force \in BOOLEAN : PushHead(force) \/ PushFetch(force)
  \/ PushHeadSend \/ PushSend \/ PushRecord \/ PushDies
===============================================================================
