-------------------------- MODULE DaemonStartProofs ---------------------------
(***************************************************************************)
(* Theorems about DaemonStart, for any number of processes, commands and   *)
(* lock files, and any number of kills and failures.                       *)
(***************************************************************************)
EXTENDS DaemonStart, TLAPS

(* Every variable keeps its type, whatever is killed or fails: no step of  *)
(* locks.rs or of the supervisor leaves it.                                *)
THEOREM StartTypeCorrect == Spec => []StartTypeOK
<1>1. Init => StartTypeOK
  BY StartAssumption DEF Init, StartTypeOK, CommandState, Starting
<1>2. StartTypeOK /\ [Next]_vars => StartTypeOK'
  <2> SUFFICES ASSUME StartTypeOK, [Next]_vars PROVE StartTypeOK'
    OBVIOUS
  <2> USE StartAssumption DEF StartTypeOK
  <2>1. ASSUME NEW d \in Process, EndProcess(d) 
        PROVE  /\ journal' \in Process \cup {None}
               /\ dpc' \in [Process -> Starting \cup {"off", "serve", "drop"}]
               /\ restarts' \in [Process -> 0 .. MaxRestarts - 1]
               /\ zombie' \subseteq Process
    BY <2>1 DEF EndProcess
  <2>2. ASSUME NEW d \in Process, CheckRunning(d) PROVE StartTypeOK'
    BY <2>1, <2>2 DEF CheckRunning, lockVars, Starting
  <2>3. ASSUME NEW d \in Process, OpenLockFile(d) PROVE StartTypeOK'
    BY <2>3 DEF OpenLockFile, Open, Starting
  <2>4. ASSUME NEW d \in Process, TryFlock(d) PROVE StartTypeOK'
    BY <2>1, <2>4 DEF TryFlock, Retry, Starting
  <2>5. ASSUME NEW d \in Process, WritePid(d) PROVE StartTypeOK'
    BY <2>5 DEF WritePid, Starting
  <2>6. ASSUME NEW d \in Process, OpenJournal(d) PROVE StartTypeOK'
    BY <2>1, <2>6 DEF OpenJournal, Retry, DropLock, Released, lockVars, Starting
  <2>7. ASSUME NEW d \in Process, Listen(d) PROVE StartTypeOK'
    BY <2>7 DEF Listen, lockVars
  <2>8. ASSUME NEW d \in Process, LeaveProcess(d) PROVE StartTypeOK'
    BY <2>1, <2>8 DEF LeaveProcess, lockVars
  <2>9. ASSUME NEW d \in Process, StopServing(d) PROVE StartTypeOK'
    BY <2>9 DEF StopServing, DropLock, Released
  <2>10. ASSUME NEW d \in Process, RunFails(d) PROVE StartTypeOK'
    <3>1. runErrors' \in 0 .. RunErrors
      BY <2>10 DEF RunFails
    <3>2. CASE restarts[d] + 1 < MaxRestarts
      BY <2>10, <3>1, <3>2 DEF RunFails, Retry, DropLock, Released, Starting
    <3>3. CASE ~(restarts[d] + 1 < MaxRestarts)
      BY <2>1, <2>10, <3>1, <3>3 DEF RunFails, Retry, DropLock, Released
    <3> QED
      BY <3>2, <3>3
  <2>11. ASSUME NEW d \in Process, Kill(d) PROVE StartTypeOK'
    BY <2>1, <2>11 DEF Kill, Released
  <2>12. ASSUME NEW c \in Client, NEW from \in CommandState, NEW to \in CommandState,
                CommandStep(c, from, to)
         PROVE  cpc' \in [Client -> CommandState]
    BY <2>12 DEF CommandStep
  <2>13. ASSUME NEW c \in Client, EnsureDaemon(c) \/ StopFindsStale(c) \/ StartCommand(c)
         PROVE  StartTypeOK'
    BY <2>12, <2>13
    DEF EnsureDaemon, StopFindsStale, StartCommand, CommandState, lockVars, daemonVars
  <2>14. ASSUME NEW c \in Client, ProbeFree(c) \/ ProbeHeld(c) \/ ProbeAbsent(c) \/ ProbeEnds(c)
         PROVE  StartTypeOK'
    <3>1. cpc' \in [Client -> CommandState]
      BY <2>12, <2>14 DEF ProbeFree, ProbeHeld, ProbeAbsent, ProbeEnds, CommandState
    <3> QED
      BY <3>1, <2>14 DEF ProbeFree, ProbeHeld, ProbeAbsent, ProbeEnds, Released, lockVars,
                         daemonVars
  <2>15. ASSUME NEW c \in Client, RemoveStale(c) \/ Spawn(c) \/ WaitEnds(c)
         PROVE  StartTypeOK'
    <3>1. cpc' \in [Client -> CommandState]
      BY <2>12, <2>15 DEF RemoveStale, Spawn, WaitEnds, CommandState
    <3> QED
      BY <3>1, <2>15 DEF RemoveStale, Spawn, WaitEnds, lockVars, daemonVars, Starting
  <2> QED
    BY <2>2, <2>3, <2>4, <2>5, <2>6, <2>7, <2>8, <2>9, <2>10, <2>11, <2>13, <2>14, <2>15
    DEF Next, Attempt, Command, vars, lockVars, daemonVars
<1> QED
  BY <1>1, <1>2, PTL DEF Spec

(* Whoever has opened the journal keeps it until its process ends: from    *)
(* before the first request it answers until after the last one.           *)
HolderInv ==
  \A d \in Process : dpc[d] \in {"listen", "serve", "drop"} => journal = d

(* Never two event loops, whatever happens to lock files and processes.    *)
THEOREM NeverTwoDaemons == Spec => []OneDaemon
<1>1. Init => HolderInv
  BY DEF Init, HolderInv
<1>2. StartTypeOK /\ HolderInv /\ [Next]_vars => HolderInv'
  <2> SUFFICES ASSUME StartTypeOK, HolderInv, [Next]_vars PROVE HolderInv'
    OBVIOUS
  <2> USE StartAssumption DEF HolderInv
  <2>1. dpc \in [Process -> Starting \cup {"off", "serve", "drop"}]
    BY DEF StartTypeOK
  <2>2. ASSUME NEW d \in Process, EndProcess(d) PROVE HolderInv'
    BY <2>1, <2>2 DEF EndProcess
  <2>3. ASSUME NEW d \in Process, NEW open \in BOOLEAN, Retry(d, open) PROVE HolderInv'
    BY <2>1, <2>2, <2>3 DEF Retry
  <2>4. ASSUME NEW d \in Process, OpenJournal(d) PROVE HolderInv'
    BY <2>1, <2>3, <2>4 DEF OpenJournal
  <2>5. ASSUME NEW d \in Process,
               \/ CheckRunning(d) \/ OpenLockFile(d) \/ TryFlock(d) \/ WritePid(d)
               \/ Listen(d) \/ LeaveProcess(d)
        PROVE  HolderInv'
    BY <2>1, <2>2, <2>3, <2>5
    DEF CheckRunning, OpenLockFile, TryFlock, WritePid, Listen, LeaveProcess
  <2>6. ASSUME NEW d \in Process, StopServing(d) \/ RunFails(d) \/ Kill(d)
        PROVE  HolderInv'
    BY <2>1, <2>2, <2>3, <2>6 DEF StopServing, RunFails, Kill
  <2>7. ASSUME NEW c \in Client, Spawn(c) PROVE HolderInv'
    BY <2>1, <2>7 DEF Spawn
  <2>8. ASSUME NEW c \in Client,
               \/ EnsureDaemon(c) \/ StopFindsStale(c) \/ StartCommand(c) \/ ProbeFree(c)
               \/ ProbeHeld(c) \/ ProbeAbsent(c) \/ ProbeEnds(c) \/ RemoveStale(c)
               \/ WaitEnds(c)
        PROVE  HolderInv'
    <3>1. UNCHANGED <<dpc, journal>>
      BY <2>8 DEF EnsureDaemon, StopFindsStale, StartCommand, ProbeFree, ProbeHeld,
                  ProbeAbsent, ProbeEnds, RemoveStale, WaitEnds, daemonVars
    <3> QED
      BY <3>1
  <2> QED
    BY <2>4, <2>5, <2>6, <2>7, <2>8 DEF Next, Attempt, Command, vars, daemonVars
<1>3. HolderInv => OneDaemon
  BY DEF HolderInv, OneDaemon
<1> QED
  BY <1>1, <1>2, <1>3, StartTypeCorrect, PTL DEF Spec

-------------------------------------------------------------------------------
(* One command at a time, which waits for the daemon it has started; and   *)
(* a loop that does not fail.                                              *)
OnePatientClient ==
  /\ \A b, c \in Client : b = c
  /\ ~Impatient /\ ~StartToo /\ RunErrors = 0

(* A process that is on its way to serve, or serves.                       *)
Active(d) == dpc[d] \in Starting \cup {"serve"}

(* Only one process is active, and only while the command waits for it or  *)
(* has seen it serve.                                                      *)
OneActive ==
  /\ \A d, e \in Process : Active(d) /\ Active(e) => d = e
  /\ \A c \in Client, d \in Process :
       Active(d) => cpc[c] \in {"idle", "wait"} /\ (cpc[c] = "idle" => dpc[d] = "serve")
  /\ zombie = {}

(* A lock is held through an open file, which a process opens and closes   *)
(* where the code does; and what an active process has opened is still at  *)
(* the path.                                                               *)
Owner ==
  /\ \A i \in Inode : flock[i] # None => opened[flock[i]] = i
  /\ \A c \in Client : opened[c] # None => cpc[c] \in {"probing", "reprobing"}
  /\ \A d \in Process :
       /\ dpc[d] \in {"off", "drop", "check", "open"} => opened[d] = None
       /\ dpc[d] \in {"flock", "write", "journal", "listen", "serve"} =>
            file # None /\ opened[d] = file
       /\ dpc[d] = "flock" => flock[file] # d
       /\ dpc[d] \in {"write", "journal", "listen", "serve"} => flock[file] = d
       /\ dpc[d] = "serve" => socket = d

OwnerInv == StartTypeOK /\ OneActive /\ Owner

LEMMA OwnerStep ==
  ASSUME OnePatientClient
  PROVE  OwnerInv /\ StartTypeOK' /\ [Next]_vars => OwnerInv'
<1> SUFFICES ASSUME StartTypeOK, OneActive, Owner, StartTypeOK', [Next]_vars
             PROVE  OneActive' /\ Owner'
  BY DEF OwnerInv
<1> USE StartAssumption DEF OnePatientClient
<1>1. ASSUME NEW d \in Process, CheckRunning(d)
      PROVE  OneActive' /\ Owner'
  BY <1>1 DEF CheckRunning, EndProcess, lockVars, StartTypeOK, OneActive, Owner, Active, Starting
<1>2. ASSUME NEW d \in Process, OpenLockFile(d)
      PROVE  OneActive' /\ Owner'
  BY <1>2 DEF OpenLockFile, Open, StartTypeOK, OneActive, Owner, Active, Starting
<1>3. ASSUME NEW d \in Process, TryFlock(d)
      PROVE  OneActive' /\ Owner'
  <2>1. flock[file] = None
    BY <1>3 DEF TryFlock, StartTypeOK, OneActive, Owner, Active, Starting
  <2>2. opened[d] = file /\ file \in Inode
    BY <1>3 DEF TryFlock, StartTypeOK, Owner
  <2>3. /\ flock' = [flock EXCEPT ![file] = d]
        /\ dpc' = [dpc EXCEPT ![d] = "write"]
        /\ UNCHANGED <<file, opened, socket, zombie, cpc>>
    BY <1>3, <2>1, <2>2 DEF TryFlock
  <2>4. OneActive'
    BY <1>3, <2>3 DEF TryFlock, StartTypeOK, OneActive, Active, Starting
  <2>5. Owner'
    BY <1>3, <2>1, <2>2, <2>3 DEF TryFlock, StartTypeOK, OneActive, Owner, Active, Starting
  <2> QED
    BY <2>4, <2>5
<1>4. ASSUME NEW d \in Process, WritePid(d)
      PROVE  OneActive' /\ Owner'
  BY <1>4 DEF WritePid, StartTypeOK, OneActive, Owner, Active, Starting
<1>5. ASSUME NEW d \in Process, OpenJournal(d)
      PROVE  OneActive' /\ Owner'
  BY <1>5 DEF OpenJournal, DropLock, Released, Retry, EndProcess, lockVars, StartTypeOK,
     OneActive, Owner, Active, Starting
<1>6. ASSUME NEW d \in Process, Listen(d)
      PROVE  OneActive' /\ Owner'
  BY <1>6 DEF Listen, lockVars, StartTypeOK, OneActive, Owner, Active, Starting
<1>7. ASSUME NEW d \in Process, LeaveProcess(d)
      PROVE  OneActive' /\ Owner'
  BY <1>7 DEF LeaveProcess, EndProcess, lockVars, StartTypeOK, OneActive, Owner, Active, Starting
<1>8. ASSUME NEW d \in Process, StopServing(d)
      PROVE  OneActive' /\ Owner'
  BY <1>8 DEF StopServing, DropLock, Released, StartTypeOK, OneActive, Owner, Active, Starting
<1>9. ASSUME NEW d \in Process, RunFails(d)
      PROVE  FALSE
  BY <1>9 DEF RunFails, StartTypeOK
<1>10. ASSUME NEW d \in Process, Kill(d)
       PROVE  OneActive' /\ Owner'
  BY <1>10 DEF Kill, Released, EndProcess, StartTypeOK, OneActive, Owner, Active, Starting
<1>11. ASSUME NEW c \in Client, EnsureDaemon(c)
       PROVE  OneActive' /\ Owner'
  BY <1>11 DEF EnsureDaemon, CommandStep, IsRunning, Answers, lockVars, daemonVars,
     StartTypeOK, OneActive, Owner, Active, Starting
<1>12. ASSUME NEW c \in Client, ProbeFree(c)
       PROVE  OneActive' /\ Owner'
  BY <1>12 DEF ProbeFree, CommandStep, daemonVars, StartTypeOK, OneActive, Owner, Active, Starting
<1>13. ASSUME NEW c \in Client, ProbeHeld(c) \/ ProbeAbsent(c)
       PROVE  OneActive' /\ Owner'
  BY <1>13 DEF ProbeHeld, ProbeAbsent, CommandStep, lockVars, daemonVars, StartTypeOK,
     OneActive, Owner, Active, Starting
<1>14. ASSUME NEW c \in Client, ProbeEnds(c)
       PROVE  OneActive' /\ Owner'
  BY <1>14 DEF ProbeEnds, Released, CommandStep, daemonVars, StartTypeOK, OneActive, Owner,
     Active, Starting
<1>15. ASSUME NEW c \in Client, RemoveStale(c)
       PROVE  OneActive' /\ Owner'
  BY <1>15 DEF RemoveStale, CommandStep, StartTypeOK, OneActive, Owner, Active, Starting
<1>16. ASSUME NEW c \in Client, Spawn(c)
       PROVE  OneActive' /\ Owner'
  BY <1>16 DEF Spawn, CommandStep, lockVars, StartTypeOK, OneActive, Owner, Active, Starting
<1>17. ASSUME NEW c \in Client, WaitEnds(c)
       PROVE  OneActive' /\ Owner'
  BY <1>17 DEF WaitEnds, IsRunning, Answers, CommandStep, lockVars, daemonVars, StartTypeOK,
     OneActive, Owner, Active, Starting
<1>18. ASSUME NEW c \in Client, StopFindsStale(c) \/ StartCommand(c)
       PROVE  OneActive' /\ Owner'
  BY <1>18 DEF StopFindsStale, StartCommand, Answers, CommandStep, lockVars, daemonVars,
     StartTypeOK, OneActive, Owner, Active, Starting
<1>19. CASE UNCHANGED vars
  BY <1>19 DEF vars, lockVars, daemonVars, OneActive, Owner, Active
<1> QED
  BY <1>1, <1>2, <1>3, <1>4, <1>5, <1>6, <1>7, <1>8, <1>9, <1>10, <1>11, <1>12, <1>13,
     <1>14, <1>15, <1>16, <1>17, <1>18, <1>19 DEF Next, Attempt, Command

(* A daemon that serves holds the lock of the file at the path, however    *)
(* processes are stopped and killed and whatever the command finds stale.  *)
THEOREM ServerAlwaysOwnsLockFile ==
  ASSUME OnePatientClient
  PROVE  Spec => []ServerOwnsLockFile
<1>1. Init => OneActive /\ Owner
  BY DEF Init, OneActive, Owner, Active, Starting
<1>2. OwnerInv => ServerOwnsLockFile
  BY DEF OwnerInv, Owner, ServerOwnsLockFile
<1> QED
  BY <1>1, <1>2, OwnerStep, StartTypeCorrect, PTL DEF Spec, OwnerInv
===============================================================================
