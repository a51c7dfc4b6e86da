-------------------------------- MODULE Import ---------------------------------
(***************************************************************************)
(* `tl pull` (crates/cli/src/cmd/pull.rs): the head of the remote branch   *)
(* becomes a checkpoint.  The daemon imports it when it runs (the request  *)
(* ImportRemoteCommit, sent again when the connection breaks), the command *)
(* itself otherwise.                                                       *)
(***************************************************************************)
EXTENDS JjRepo

VARIABLES
  pull,       \* the command: its step, who is to import, the commit it wants
  imp         \* the import: its step, who does it, the commit, parent, checkpoint

importVars == <<pull, imp>>

NoPull == [step |-> "idle", by |-> "daemon", commit |-> 0]
NoImport == [step |-> "idle", by |-> "daemon", commit |-> 0, parent |-> 0, cp |-> 0]

ImportInit == pull = NoPull /\ imp = NoImport

ImportTypeOK ==
  /\ pull \in [step : {"idle", "sent", "asked", "sync"}, by : {"daemon", "command"}, commit : 0..Len(commits)]
  /\ imp \in [step : {"idle", "append", "map", "flush", "pin"}, by : {"daemon", "command"},
              commit : 0..Len(commits), parent : 0..Len(cps), cp : 0..Len(cps)]

Known(c) == mapping.rev[c] \in index

-----------------------------------------------------------------------------
(* The command.                                                            *)

(* git has fetched the branch; JJ's view of it stays what it was.          *)
PullBegin ==
  /\ pull.step = "idle"
  /\ Spend("pull")
  /\ pull' = [step |-> "sent", by |-> IF up THEN "daemon" ELSE "command", commit |-> remote]
  /\ UNCHANGED <<journalVars, daemonVars, commits, gitVars, mapVars, seed, imp>>

(* An error, or five seconds without an answer: that is not asked again,   *)
(* and the daemon goes on with the import.                                 *)
PullGivesUp ==
  /\ pull.step = "sent" \/ (pull.step = "asked" /\ pull.by = "daemon")
  /\ pull' = NoPull
  /\ UNCHANGED <<repoVars, imp>>

(* The files are written; then the daemon, if there is one, is told that   *)
(* its map is not the tree of HEAD.                                        *)
PullSynced ==
  /\ pull.step = "sync"
  /\ stale' = (stale \/ (up /\ pull.by = "daemon"))
  /\ pull' = NoPull
  /\ UNCHANGED <<journalVars, up, map, commits, gitVars, mapVars, seed, left, imp>>

-----------------------------------------------------------------------------
(* The import, by the daemon or, when that is down, by the command.  The   *)
(* mapping is open from the first step to the last: a second import ends   *)
(* in an error.                                                            *)

(* A mistake: what has been imported before is not looked up.              *)
ImportBeginUnseen ==
  /\ pull.step = "sent" /\ up = (pull.by = "daemon")
  /\ TakeMapping("import")
  /\ pull' = [pull EXCEPT !.step = "asked"]
  /\ imp' = [step |-> "append", by |-> pull.by, commit |-> pull.commit,
             parent |-> Latest, cp |-> 0]
  /\ UNCHANGED <<journalVars, daemonVars, commits, gitVars, states, lost, seed, left>>

ImportBegin ==
  /\ pull.step = "sent" /\ up = (pull.by = "daemon")
  /\ holder = "free"
  /\ IF Known(pull.commit)
     THEN pull' = NoPull /\ UNCHANGED <<holder, imp>>
     ELSE /\ TakeMapping("import")
          /\ pull' = [pull EXCEPT !.step = "asked"]
          /\ imp' = [step |-> "append", by |-> pull.by, commit |-> pull.commit,
                     parent |-> Latest, cp |-> 0]
  /\ UNCHANGED <<journalVars, daemonVars, commits, gitVars, states, lost, seed, left>>

(* The parent is what was HEAD when it was looked up.                      *)
ImportAppend ==
  /\ imp.step = "append"
  /\ Record(imp.parent, commits[imp.commit].tree, {}, imp.commit, FALSE)
  /\ imp' = [imp EXCEPT !.step = "map", !.cp = Len(cps) + 1]
  /\ UNCHANGED <<pins, daemonVars, commits, gitVars, mapVars, seed, left, pull>>

ImportMap ==
  /\ imp.step = "map"
  /\ states' = Recorded(imp.cp, imp.commit)
  /\ imp' = [imp EXCEPT !.step = IF imp.by = "command" THEN "flush" ELSE "pin"]
  /\ UNCHANGED <<journalVars, daemonVars, commits, gitVars, holder, lost, seed, left, pull>>

(* The command flushes the mapping; the daemon leaves that to its closing. *)
ImportFlush ==
  /\ imp.step = "flush"
  /\ states' = Flushed
  /\ imp' = [imp EXCEPT !.step = "pin"]
  /\ UNCHANGED <<journalVars, daemonVars, commits, gitVars, holder, lost, seed, left, pull>>

(* The pin, unless --no-pin; the answer, if somebody still waits for it.   *)
ImportPin ==
  /\ imp.step = "pin"
  /\ pins' \in {pins, [pins EXCEPT !["pulled"] = imp.cp]}
  /\ DropMapping
  /\ pull' = IF pull.step = "asked" THEN [pull EXCEPT !.step = "sync"] ELSE pull
  /\ imp' = NoImport
  /\ UNCHANGED <<cps, index, daemonVars, commits, gitVars, seed, left>>

(* What a death leaves of the mapping, and of the import under way.        *)
ImportLeaves ==
  /\ imp' = NoImport
  /\ IF imp.step = "idle" THEN UNCHANGED mapVars
     ELSE LoseMapping(IF imp.cp # 0 THEN {imp.commit} ELSE {})

(* The daemon dies, or stops; the command asks again once it is back.      *)
DaemonDies ==
  /\ up /\ Spend("death")
  /\ up' = FALSE
  /\ IF imp.by = "daemon" THEN ImportLeaves ELSE UNCHANGED <<imp, mapVars>>
  /\ pull' = IF pull.step = "asked" THEN [pull EXCEPT !.step = "sent"] ELSE pull
  /\ UNCHANGED <<journalVars, map, stale, commits, gitVars, seed>>

PullDies ==
  /\ pull.step # "idle" /\ Spend("death")
  /\ pull' = NoPull
  /\ IF imp.by = "command" THEN ImportLeaves ELSE UNCHANGED <<imp, mapVars>>
  /\ UNCHANGED <<journalVars, daemonVars, commits, gitVars, seed>>

(* The journal is free.                                                    *)
DaemonStarts ==
  /\ ~up /\ imp.by = "daemon"
  /\ up' = TRUE
  /\ UNCHANGED <<journalVars, map, stale, commits, gitVars, mapVars, seed, left, importVars>>

ImportNext ==
  \/ PullBegin \/ PullGivesUp \/ PullSynced
  \/ ImportBegin \/ ImportAppend \/ ImportMap \/ ImportFlush \/ ImportPin
  \/ DaemonDies \/ PullDies \/ DaemonStarts

-----------------------------------------------------------------------------
(* "Idempotent import": no commit of the remote has two checkpoints in the *)
(* journal, however often it is pulled, asked for again or published,      *)
(* unless the mapping has lost the first.                                  *)
OneCheckpointPerCommit ==
  \A c \in Commits \ lost :
    Cardinality({i \in index : cps[i].from = c \/ commits[c].of = i}) <= 1
===============================================================================
