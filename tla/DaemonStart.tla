------------------------------ MODULE DaemonStart -----------------------------
(***************************************************************************)
(* Who may be the daemon of a repository: the lock file                    *)
(* locks/daemon.lock (crates/cli/src/locks.rs), the supervisor that starts *)
(* and restarts the daemon inside its own process, and the commands that   *)
(* make sure a daemon is running (crates/cli/src/daemon.rs).               *)
(*                                                                         *)
(* An flock belongs to an open file, not to a path: a process may hold the *)
(* lock of a file that is no longer at the path.  That is why inodes are   *)
(* modelled and not just "the lock".  Behind the lock file stands the lock *)
(* that sled takes on the journal.                                         *)
(***************************************************************************)
EXTENDS Naturals

CONSTANTS
  Process,      \* daemon processes, each with its supervisor
  Client,       \* commands that start or stop the daemon
  Inode,        \* lock files that can exist at the same time
  None,
  MaxRestarts,  \* restarts the supervisor makes in a minute (5 in the code)
  Kills,        \* bound of the model: processes killed
  RunErrors,    \* bound of the model: run() of a serving daemon fails
  Impatient,    \* may a client give up while a daemon is still starting?
  StartToo      \* may `tl start` be given, too?

ASSUME StartAssumption ==
  /\ MaxRestarts \in Nat \ {0} /\ Kills \in Nat /\ RunErrors \in Nat
  /\ Impatient \in BOOLEAN /\ StartToo \in BOOLEAN
  /\ None \notin Process \cup Client \cup Inode
  /\ Process \cap Client = {}

VARIABLES
  file,         \* the inode at locks/daemon.lock, or None
  flock,        \* who holds the lock of each inode
  content,      \* the process whose pid is in each inode, None if empty
  opened,       \* the inode each process has opened
  journal,      \* the process that holds sled's lock on the journal
  socket,       \* None, or the process that has bound the socket path
  dpc,          \* where each daemon process is
  restarts,     \* restarts of each supervisor
  zombie,       \* processes whose accept task has outlived run()
  cpc,          \* where each command is
  kills, runErrors

lockVars == <<file, flock, content, opened>>
daemonVars == <<journal, socket, dpc, restarts, zombie>>
vars == <<lockVars, daemonVars, cpc, kills, runErrors>>

Starting == {"check", "open", "flock", "write", "journal", "listen"}

CommandState ==
  {"idle", "probe", "probing", "unlink", "reprobe", "reprobing", "spawn", "wait",
   "stale"}

StartTypeOK ==
  /\ file \in Inode \cup {None}
  /\ flock \in [Inode -> Process \cup Client \cup {None}]
  /\ content \in [Inode -> Process \cup {None}]
  /\ opened \in [Process \cup Client -> Inode \cup {None}]
  /\ journal \in Process \cup {None}
  /\ socket \in Process \cup {None}
  /\ dpc \in [Process -> Starting \cup {"off", "serve", "drop"}]
  /\ restarts \in [Process -> 0 .. MaxRestarts - 1]
  /\ zombie \subseteq Process
  /\ cpc \in [Client -> CommandState]
  /\ kills \in 0 .. Kills /\ runErrors \in 0 .. RunErrors

Init ==
  /\ file = None
  /\ flock = [i \in Inode |-> None]
  /\ content = [i \in Inode |-> None]
  /\ opened = [x \in Process \cup Client |-> None]
  /\ journal = None /\ socket = None
  /\ dpc = [d \in Process |-> "off"]
  /\ restarts = [d \in Process |-> 0]
  /\ zombie = {}
  /\ cpc = [c \in Client |-> "idle"]
  /\ kills = 0 /\ runErrors = 0

(* The socket is answered by a serving daemon, and by an accept task that  *)
(* has outlived its run().                                                 *)
Answers == socket # None /\ (dpc[socket] = "serve" \/ socket \in zombie)

(* is_running_impl: the lock file exists and the daemon answers.           *)
IsRunning == file # None /\ Answers

(* Opening the lock file creates it if there is none.                      *)
Fresh(i) == flock[i] = None /\ \A x \in DOMAIN opened : opened[x] # i

Open(x) ==
  \/ /\ file # None
     /\ opened' = [opened EXCEPT ![x] = file]
     /\ UNCHANGED <<file, content>>
  \/ /\ file = None
     /\ \E i \in Inode : /\ Fresh(i)
                         /\ file' = i
                         /\ opened' = [opened EXCEPT ![x] = i]
                         /\ content' = [content EXCEPT ![i] = None]

(* Closing a file releases the lock that was taken through it.             *)
Released(x) == [i \in Inode |-> IF flock[i] = x THEN None ELSE flock[i]]

-------------------------------------------------------------------------------
(* The daemon process: start_daemon_direct under run_supervised.           *)

(* An attempt has failed: the supervisor tries again, or gives up, and     *)
(* then the whole process ends.                                            *)
EndProcess(d) ==
  /\ dpc' = [dpc EXCEPT ![d] = "off"]
  /\ restarts' = [restarts EXCEPT ![d] = 0]
  /\ zombie' = zombie \ {d}
  /\ journal' = IF journal = d THEN None ELSE journal

(* A mistake: the limit is off by one.                                     *)
RetryOnceMore(d, stillOpen) ==
  IF restarts[d] + 1 <= MaxRestarts
    THEN /\ dpc' = [dpc EXCEPT ![d] = "check"]
         /\ restarts' = [restarts EXCEPT ![d] = @ + 1]
         /\ zombie' = IF stillOpen THEN zombie \cup {d} ELSE zombie
         /\ UNCHANGED journal
    ELSE EndProcess(d)

Retry(d, stillOpen) ==
  IF restarts[d] + 1 < MaxRestarts
    THEN /\ dpc' = [dpc EXCEPT ![d] = "check"]
         /\ restarts' = [restarts EXCEPT ![d] = @ + 1]
         /\ zombie' = IF stillOpen THEN zombie \cup {d} ELSE zombie
         /\ UNCHANGED journal
    ELSE EndProcess(d)

CheckRunning(d) ==
  /\ dpc[d] = "check"
  /\ IF IsRunning THEN EndProcess(d)
                  ELSE /\ dpc' = [dpc EXCEPT ![d] = "open"]
                       /\ UNCHANGED <<restarts, zombie, journal>>
  /\ UNCHANGED <<lockVars, socket, cpc, kills, runErrors>>

OpenLockFile(d) ==
  /\ dpc[d] = "open"
  /\ Open(d)
  /\ dpc' = [dpc EXCEPT ![d] = "flock"]
  /\ UNCHANGED <<flock, journal, socket, restarts, zombie, cpc, kills, runErrors>>

(* try_flock_exclusive; a process that does not get the lock leaves the    *)
(* file where it is.                                                       *)
TryFlock(d) ==
  /\ dpc[d] = "flock"
  /\ IF flock[opened[d]] = None
       THEN /\ flock' = [flock EXCEPT ![opened[d]] = d]
            /\ dpc' = [dpc EXCEPT ![d] = "write"]
            /\ UNCHANGED <<opened, journal, restarts, zombie>>
       ELSE /\ opened' = [opened EXCEPT ![d] = None]
            /\ Retry(d, FALSE)
            /\ UNCHANGED flock
  /\ UNCHANGED <<file, content, socket, cpc, kills, runErrors>>

WritePid(d) ==
  /\ dpc[d] = "write"
  /\ content' = [content EXCEPT ![opened[d]] = d]
  /\ dpc' = [dpc EXCEPT ![d] = "journal"]
  /\ UNCHANGED <<file, flock, opened, journal, socket, restarts, zombie, cpc, kills,
                 runErrors>>

(* Dropping a DaemonLock removes whatever is at the path, then closes the  *)
(* file.                                                                   *)
DropLock(d) ==
  /\ file' = None
  /\ flock' = Released(d)
  /\ opened' = [opened EXCEPT ![d] = None]
  /\ UNCHANGED content

(* A mistake: a journal that two processes can open.                       *)
ShareJournal(d) ==
  /\ dpc[d] = "journal"
  /\ journal' = d
  /\ dpc' = [dpc EXCEPT ![d] = "listen"]
  /\ UNCHANGED <<lockVars, socket, restarts, zombie, cpc, kills, runErrors>>

OpenJournal(d) ==
  /\ dpc[d] = "journal"
  /\ IF journal = None
       THEN /\ journal' = d
            /\ dpc' = [dpc EXCEPT ![d] = "listen"]
            /\ UNCHANGED <<lockVars, restarts, zombie>>
       ELSE DropLock(d) /\ Retry(d, FALSE)
  /\ UNCHANGED <<socket, cpc, kills, runErrors>>

(* IpcServer::start replaces a socket nobody answers; the loop begins.     *)
Listen(d) ==
  /\ dpc[d] = "listen"
  /\ ~Answers
  /\ socket' = d
  /\ dpc' = [dpc EXCEPT ![d] = "serve"]
  /\ UNCHANGED <<lockVars, journal, restarts, zombie, cpc, kills, runErrors>>

(* SIGTERM or the Shutdown request: run() returns, the daemon and its lock *)
(* are dropped, and then the process ends and with it the tasks that still *)
(* have the journal open.                                                  *)
StopServing(d) ==
  /\ dpc[d] = "serve"
  /\ DropLock(d)
  /\ dpc' = [dpc EXCEPT ![d] = "drop"]
  /\ UNCHANGED <<journal, socket, restarts, zombie, cpc, kills, runErrors>>

(* A mistake: the lock file is removed once more as the process ends.      *)
LeaveAndRemove(d) ==
  /\ dpc[d] = "drop"
  /\ EndProcess(d)
  /\ file' = None
  /\ UNCHANGED <<flock, content, opened, socket, cpc, kills, runErrors>>

LeaveProcess(d) ==
  /\ dpc[d] = "drop"
  /\ EndProcess(d)
  /\ UNCHANGED <<lockVars, socket, cpc, kills, runErrors>>

(* run() returns an error: the daemon and its lock are dropped, but the    *)
(* accept task lives on in the process of the supervisor, with the socket  *)
(* and a reference to the journal.                                         *)
RunFails(d) ==
  /\ dpc[d] = "serve"
  /\ runErrors < RunErrors
  /\ runErrors' = runErrors + 1
  /\ DropLock(d)
  /\ Retry(d, TRUE)
  /\ UNCHANGED <<socket, cpc, kills>>

(* The process is killed: the kernel closes its files, the lock file and   *)
(* the socket stay where they are.                                         *)
Kill(d) ==
  /\ dpc[d] # "off"
  /\ kills < Kills
  /\ kills' = kills + 1
  /\ flock' = Released(d)
  /\ opened' = [opened EXCEPT ![d] = None]
  /\ EndProcess(d)
  /\ UNCHANGED <<file, content, socket, cpc, runErrors>>

-------------------------------------------------------------------------------
(* A command: ensure_daemon_running, stop, or start.                       *)

CommandStep(c, from, to) ==
  /\ cpc[c] = from
  /\ cpc' = [cpc EXCEPT ![c] = to]

(* A mistake: a lock file is believed without asking who holds it.         *)
EnsureBelieves(c) ==
  /\ ~IsRunning
  /\ IF file = None THEN CommandStep(c, "idle", "reprobe")
                    ELSE CommandStep(c, "idle", "wait")
  /\ UNCHANGED <<lockVars, daemonVars, kills, runErrors>>

(* ensure_daemon_running, when no daemon answers.                          *)
EnsureDaemon(c) ==
  /\ ~IsRunning
  /\ IF file = None THEN CommandStep(c, "idle", "reprobe")
                    ELSE CommandStep(c, "idle", "probe")
  /\ UNCHANGED <<lockVars, daemonVars, kills, runErrors>>

(* is_unlocked_file takes the lock to see whether it is free, and gives it *)
(* back.  It is asked twice: may the file be removed, and may a daemon be  *)
(* started?                                                                *)
ProbeFree(c) ==
  /\ file # None /\ flock[file] = None
  /\ flock' = [flock EXCEPT ![file] = c]
  /\ opened' = [opened EXCEPT ![c] = file]
  /\ \/ CommandStep(c, "probe", "probing")
     \/ CommandStep(c, "reprobe", "reprobing")
  /\ UNCHANGED <<file, content, daemonVars, kills, runErrors>>

ProbeHeld(c) ==
  /\ file # None /\ flock[file] # None
  /\ \/ CommandStep(c, "probe", "reprobe")
     \/ CommandStep(c, "reprobe", "wait")
  /\ UNCHANGED <<lockVars, daemonVars, kills, runErrors>>

ProbeAbsent(c) ==
  /\ file = None
  /\ \/ CommandStep(c, "probe", "reprobe")
     \/ CommandStep(c, "reprobe", "spawn")
  /\ UNCHANGED <<lockVars, daemonVars, kills, runErrors>>

ProbeEnds(c) ==
  /\ flock' = Released(c)
  /\ opened' = [opened EXCEPT ![c] = None]
  /\ \/ CommandStep(c, "probing", "unlink")
     \/ CommandStep(c, "reprobing", "spawn")
  /\ UNCHANGED <<file, content, daemonVars, kills, runErrors>>

(* The lock was free, or its pid dead: lock file and socket are taken for  *)
(* stale and removed.                                                      *)
RemoveStale(c) ==
  /\ CommandStep(c, "unlink", "reprobe") \/ CommandStep(c, "stale", "idle")
  /\ file' = None
  /\ socket' = None
  /\ UNCHANGED <<flock, content, opened, journal, dpc, restarts, zombie, kills,
                 runErrors>>

(* start_background_internal; then the client waits.                       *)
Spawn(c) ==
  /\ CommandStep(c, "spawn", "wait")
  /\ \E d \in Process : /\ dpc[d] = "off"
                        /\ dpc' = [dpc EXCEPT ![d] = "check"]
  /\ UNCHANGED <<lockVars, journal, socket, restarts, zombie, kills, runErrors>>

(* The daemon answers, or the client's time is up: 5 s, which is longer    *)
(* than a daemon takes to start, unless the client is Impatient.           *)
WaitEnds(c) ==
  /\ IsRunning \/ Impatient \/ \A d \in Process : dpc[d] = "off"
  /\ CommandStep(c, "wait", "idle")
  /\ UNCHANGED <<lockVars, daemonVars, kills, runErrors>>

(* stop: there is a socket and nobody answers, and is_stale_daemon_lock:   *)
(* the lock file names no living process.                                  *)
IsStale == file # None /\ content[file] # None => dpc[content[file]] = "off"

StopFindsStale(c) ==
  /\ socket # None /\ ~Answers
  /\ IsStale
  /\ CommandStep(c, "idle", "stale")
  /\ UNCHANGED <<lockVars, daemonVars, kills, runErrors>>

(* start asks nothing before it starts a daemon.                           *)
StartCommand(c) ==
  /\ StartToo
  /\ CommandStep(c, "idle", "spawn")
  /\ UNCHANGED <<lockVars, daemonVars, kills, runErrors>>

-------------------------------------------------------------------------------
Attempt(d) ==
  \/ CheckRunning(d) \/ OpenLockFile(d) \/ TryFlock(d) \/ WritePid(d)
  \/ OpenJournal(d) \/ Listen(d) \/ LeaveProcess(d)

Command(c) ==
  \/ ProbeFree(c) \/ ProbeHeld(c) \/ ProbeAbsent(c) \/ ProbeEnds(c)
  \/ RemoveStale(c) \/ Spawn(c) \/ WaitEnds(c)

Next ==
  \/ \E d \in Process : Attempt(d) \/ StopServing(d) \/ RunFails(d) \/ Kill(d)
  \/ \E c \in Client : EnsureDaemon(c) \/ StopFindsStale(c) \/ StartCommand(c) \/ Command(c)

Spec == Init /\ [][Next]_vars

(* Processes and commands go on; a command that finds no daemon is given   *)
(* again.  Nobody has to stop, kill or fail.                               *)
Fairness ==
  /\ \A d \in Process : WF_vars(Attempt(d))
  /\ \A c \in Client : WF_vars(Command(c)) /\ WF_vars(EnsureDaemon(c))

FairSpec == Spec /\ Fairness

-------------------------------------------------------------------------------
(* Never two event loops on one repository, whatever happens to the lock   *)
(* file: the second daemon cannot open the journal.                        *)
OneDaemon ==
  \A d, e \in Process : dpc[d] = "serve" /\ dpc[e] = "serve" => d = e

(* A daemon that serves holds the lock of the file that is at the path, so *)
(* that commands see it running and no other process can take the lock.    *)
ServerOwnsLockFile ==
  \A d \in Process : dpc[d] = "serve" => file # None /\ flock[file] = d

(* No command removes a lock file that another process has locked.         *)
HeldLockKept ==
  [][\A c \in Client :
       (cpc[c] \in {"unlink", "stale"} /\ RemoveStale(c) /\ file # None)
         => flock[file] = None]_vars

(* The supervisor of a daemon whose run() has failed does not give up      *)
(* while no other daemon serves: it restarts the daemon.                   *)
Restarted ==
  [][\A d \in zombie : d \notin zombie' => IsRunning \/ kills' > kills]_vars

(* A command that waits for a daemon leads to one, unless a daemon is      *)
(* stopped meanwhile or killed.                                            *)
EnsureStarts ==
  \A c \in Client : (cpc[c] # "idle") ~> IsRunning
===============================================================================
