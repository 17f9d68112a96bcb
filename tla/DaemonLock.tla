------------------------------ MODULE DaemonLock ------------------------------
(***************************************************************************)
(* The singleton of the daemon: AcquireDaemonLock and its release, the pid *)
(* file written by Server.Run and removed by MarkStopped, and the stop     *)
(* command of kual.sh, which kills the daemon it finds and removes the     *)
(* files.  Every system call on a file is a step of its own: nothing but   *)
(* O_EXCL orders two processes.                                            *)
(*                                                                         *)
(* A Proc is one run of "localsend-kindle serve"; it lives once.  A pid is *)
(* given to one live process at a time, and again after that one is gone.  *)
(***************************************************************************)
EXTENDS Naturals, FiniteSets

CONSTANTS
    Procs,    \* serve processes, each started at most once
    Pids,     \* process ids
    Racing,   \* TRUE: starts overlap one another, and there is no stop command
              \* FALSE: one command at a time, start or stop
    Reuse,    \* TRUE: a pid found in a leftover file may be given out again
    None      \* no file, no pid

ASSUME DaemonAssumption ==
    /\ Racing \in BOOLEAN
    /\ Reuse \in BOOLEAN
    /\ None \notin Procs \cup Pids

VARIABLES
    pc,       \* pc[p]: where process p is
    pid,      \* pid[p]: its process id
    tries,    \* tries[p]: turns of the loop of AcquireDaemonLock
    lock,     \* state/daemon.lock: who created it and the pid in it
    pidFile,  \* state/daemon.pid
    launch,   \* state/launch.pid: the pid in it, None without the file
    stopper,  \* where kual.sh stop is
    target    \* the pid it decided to kill

vars == <<pc, pid, tries, lock, pidFile, launch, stopper, target>>

Starting == {"checkPidFile", "createLock", "writeLock", "readLock", "removeLock"}
Holding == {"sweep", "truncatePid", "writePid", "serving", "markStopped", "fatal", "readOwn", "removeOwn"}
Gone == {"unborn", "refused", "dead"}

\* A file is [by, text]: the process whose open created it, and the pid in
\* it, None while it is empty.
NoFile == [by |-> None, text |-> None]
File == [by : Procs \cup {None}, text : Pids \cup {None}]
Exists(f) == f.by # None

TypeOK ==
    /\ pc \in [Procs -> Starting \cup Holding \cup Gone]
    /\ pid \in [Procs -> Pids \cup {None}]
    /\ tries \in [Procs -> 0 .. 2]
    /\ lock \in File
    /\ pidFile \in File
    /\ launch \in Pids \cup {None}
    /\ stopper \in {"idle", "find", "kill", "removeFiles"}
    /\ target \in Pids \cup {None}

Init ==
    /\ pc = [p \in Procs |-> "unborn"]
    /\ pid = [p \in Procs |-> None]
    /\ tries = [p \in Procs |-> 0]
    /\ lock = NoFile
    /\ pidFile = NoFile
    /\ launch = None
    /\ stopper = "idle"
    /\ target = None

Alive(p) == pc[p] \notin Gone

Goto(p, l) == pc' = [pc EXCEPT ![p] = l]

\* Mutant: nothing is ever found alive.
MutantLooksDead(q) == FALSE

\* Mutant: the pid is not looked up at all.
MutantLooksAlive(q) == q # None

\* processLooksLikeLocalSend: a process of ours has this pid, be it the one
\* that asks.
LooksLikeLocalSend(q) == q # None /\ \E p \in Procs : Alive(p) /\ pid[p] = q

-----------------------------------------------------------------------------
(* AcquireDaemonLock.                                                       *)

\* A process is started: by kual.sh, which then writes launch.pid, or by hand.
Spawn(p, q) ==
    /\ pc[p] = "unborn"
    /\ \A o \in Procs : Alive(o) => pid[o] # q
    /\ Reuse \/ q \notin {lock.text, pidFile.text, launch}
    /\ Racing \/ (stopper = "idle" /\ \A o \in Procs : pc[o] \notin Starting)
    /\ pid' = [pid EXCEPT ![p] = q]
    /\ launch' \in {q, launch}
    /\ Goto(p, "checkPidFile")
    /\ UNCHANGED <<tries, lock, pidFile, stopper, target>>

CheckPidFile(p) ==
    /\ pc[p] = "checkPidFile"
    /\ Goto(p, IF LooksLikeLocalSend(pidFile.text) THEN "refused" ELSE "createLock")
    /\ UNCHANGED <<pid, tries, lock, pidFile, launch, stopper, target>>

\* O_CREATE|O_EXCL: the file exists, empty, before the pid is in it.
CreateLock(p) ==
    /\ pc[p] = "createLock"
    /\ tries' = [tries EXCEPT ![p] = @ + 1]
    /\ IF Exists(lock)
         THEN Goto(p, "readLock") /\ lock' = lock
         ELSE Goto(p, "writeLock") /\ lock' = [by |-> p, text |-> None]
    /\ UNCHANGED <<pid, pidFile, launch, stopper, target>>

\* Mutant: the pid never reaches the lock file.
MutantWriteLock(p) ==
    /\ pc[p] = "writeLock"
    /\ Goto(p, "sweep")
    /\ UNCHANGED <<pid, tries, lock, pidFile, launch, stopper, target>>

\* The write goes to the file that was opened, which may have lost its name.
WriteLock(p) ==
    /\ pc[p] = "writeLock"
    /\ lock' = IF lock.by = p THEN [lock EXCEPT !.text = pid[p]] ELSE lock
    /\ Goto(p, "sweep")
    /\ UNCHANGED <<pid, tries, pidFile, launch, stopper, target>>

\* The write or the close fails: the name is removed, whoever has it now.
WriteLockFails(p) ==
    /\ pc[p] = "writeLock"
    /\ lock' = NoFile
    /\ Goto(p, "refused")
    /\ UNCHANGED <<pid, tries, pidFile, launch, stopper, target>>

LockTaken(p) == lock.text = pid[p] \/ LooksLikeLocalSend(lock.text)

ReadLock(p) ==
    /\ pc[p] = "readLock"
    /\ Goto(p, IF LockTaken(p) THEN "refused" ELSE "removeLock")
    /\ UNCHANGED <<pid, tries, lock, pidFile, launch, stopper, target>>

RemoveLock(p) ==
    /\ pc[p] = "removeLock"
    /\ lock' = NoFile
    /\ Goto(p, IF tries[p] < 2 THEN "createLock" ELSE "refused")
    /\ UNCHANGED <<pid, tries, pidFile, launch, stopper, target>>

-----------------------------------------------------------------------------
(* serve and Server.Run.                                                    *)

\* CleanupStalePartials.
Sweep(p) ==
    /\ pc[p] = "sweep"
    /\ Goto(p, "truncatePid")
    /\ UNCHANGED <<pid, tries, lock, pidFile, launch, stopper, target>>

\* os.WriteFile opens with O_TRUNC, then writes to what it opened.
TruncatePid(p) ==
    /\ pc[p] = "truncatePid"
    /\ pidFile' = [by |-> p, text |-> None]
    /\ Goto(p, "writePid")
    /\ UNCHANGED <<pid, tries, lock, launch, stopper, target>>

WritePid(p) ==
    /\ pc[p] = "writePid"
    /\ pidFile' = IF Exists(pidFile) THEN [pidFile EXCEPT !.text = pid[p]] ELSE pidFile
    /\ Goto(p, "serving")
    /\ UNCHANGED <<pid, tries, lock, launch, stopper, target>>

\* SIGTERM, SIGINT or the end of the duration; a listener that fails ends
\* Run with an error.
EndServing(p, how) ==
    /\ pc[p] = "serving"
    /\ Goto(p, how)
    /\ UNCHANGED <<pid, tries, lock, pidFile, launch, stopper, target>>

\* MarkStopped does not look whose pid file it removes.  After an error the
\* process leaves through log.Fatal, which runs no deferred release.
MarkStopped(p) ==
    /\ pc[p] \in {"markStopped", "fatal"}
    /\ pidFile' = NoFile
    /\ Goto(p, IF pc[p] = "fatal" THEN "dead" ELSE "readOwn")
    /\ UNCHANGED <<pid, tries, lock, launch, stopper, target>>

\* The release returned by AcquireDaemonLock.
ReadOwn(p) ==
    /\ pc[p] = "readOwn"
    /\ Goto(p, IF lock.text = pid[p] THEN "removeOwn" ELSE "dead")
    /\ UNCHANGED <<pid, tries, lock, pidFile, launch, stopper, target>>

RemoveOwn(p) ==
    /\ pc[p] = "removeOwn"
    /\ lock' = NoFile
    /\ Goto(p, "dead")
    /\ UNCHANGED <<pid, tries, pidFile, launch, stopper, target>>

\* SIGKILL or power loss: the files stay.
Crash(p) ==
    /\ Alive(p)
    /\ Goto(p, "dead")
    /\ UNCHANGED <<pid, tries, lock, pidFile, launch, stopper, target>>

-----------------------------------------------------------------------------
(* kual.sh: the end of a start, and stop.                                   *)

\* The daemon answers: the start command removes launch.pid and ends.  A
\* start that is killed before leaves the file.
StartEnds ==
    /\ launch # None
    /\ \E p \in Procs : pc[p] = "serving"
    /\ launch' = None
    /\ UNCHANGED <<pc, pid, tries, lock, pidFile, stopper, target>>

StopBegin ==
    /\ stopper = "idle"
    /\ ~Racing
    /\ \A p \in Procs : pc[p] \notin Starting
    /\ stopper' = "find"
    /\ UNCHANGED <<pc, pid, tries, lock, pidFile, launch, target>>

\* daemon_pid: the first of the three files that names a live serve process.
DaemonPid ==
    IF LooksLikeLocalSend(pidFile.text) THEN pidFile.text
    ELSE IF LooksLikeLocalSend(lock.text) THEN lock.text
    ELSE IF LooksLikeLocalSend(launch) THEN launch ELSE None

\* Mutant: the files go without waiting for the process.
MutantStopFind ==
    /\ stopper = "find"
    /\ stopper' = "removeFiles"
    /\ UNCHANGED <<pc, pid, tries, lock, pidFile, launch, target>>

StopFind ==
    /\ stopper = "find"
    /\ target' = DaemonPid
    /\ stopper' = IF DaemonPid = None THEN "removeFiles" ELSE "kill"
    /\ UNCHANGED <<pc, pid, tries, lock, pidFile, launch>>

Targeted(p) == Alive(p) /\ pid[p] = target

\* SIGTERM makes the daemon end on its own; SIGKILL follows after five
\* seconds.  The files are removed only once the process is gone.
StopTerm ==
    /\ stopper = "kill"
    /\ \E p \in Procs : Targeted(p) /\ EndServing(p, "markStopped")

StopKilled ==
    /\ stopper = "kill"
    /\ pc' = [p \in Procs |-> IF Targeted(p) THEN "dead" ELSE pc[p]]
    /\ stopper' = "removeFiles"
    /\ target' = None
    /\ UNCHANGED <<pid, tries, lock, pidFile, launch>>

\* The process survives both signals: the command fails and leaves the files.
StopGivesUp ==
    /\ stopper = "kill"
    /\ stopper' = "idle"
    /\ target' = None
    /\ UNCHANGED <<pc, pid, tries, lock, pidFile, launch>>

StopRemoveFiles ==
    /\ stopper = "removeFiles"
    /\ lock' = NoFile
    /\ pidFile' = NoFile
    /\ launch' = None
    /\ stopper' = "idle"
    /\ UNCHANGED <<pc, pid, tries, target>>

Step(p) ==
    \/ CheckPidFile(p) \/ CreateLock(p) \/ WriteLock(p) \/ WriteLockFails(p)
    \/ ReadLock(p) \/ RemoveLock(p)
    \/ Sweep(p) \/ TruncatePid(p) \/ WritePid(p)
    \/ EndServing(p, "markStopped") \/ EndServing(p, "fatal")
    \/ MarkStopped(p) \/ ReadOwn(p) \/ RemoveOwn(p)

Next ==
    \/ \E p \in Procs : Step(p) \/ Crash(p)
    \/ \E p \in Procs, q \in Pids : Spawn(p, q)
    \/ StartEnds
    \/ StopBegin \/ StopFind \/ StopTerm \/ StopKilled \/ StopGivesUp \/ StopRemoveFiles

Spec == Init /\ [][Next]_vars

-----------------------------------------------------------------------------
(* Properties.                                                              *)

\* Two daemons never hold the singleton at once; in particular none sweeps
\* temporary files that another is writing.
Singleton == \A p, q \in Procs : pc[p] \in Holding /\ pc[q] \in Holding => p = q

\* A serving daemon can be found by the stop command: both files carry its
\* pid, also when daemons before it died at the worst moment.
Findable ==
    \A p \in Procs : pc[p] = "serving" =>
        lock = [by |-> p, text |-> pid[p]] /\ pidFile.text = pid[p]

\* The lock of a live daemon is removed by nobody but itself.
HolderKeepsLock ==
    [][\A p \in Procs : pc[p] \in Holding /\ pc'[p] \in Holding /\ lock.by = p => lock' = lock]_vars

AboutToRefuse(p) ==
    \/ pc[p] = "checkPidFile" /\ LooksLikeLocalSend(pidFile.text)
    \/ pc[p] = "readLock" /\ LockTaken(p)
    \/ pc[p] = "removeLock" /\ tries[p] = 2

OtherAlive(p) == \E o \in Procs \ {p} : Alive(o)

\* What leftovers can do at most: they keep out a process that was given the
\* very pid they hold.  Otherwise the second turn of the loop gets the lock.
RefusedByOwnPid ==
    \A p \in Procs :
        AboutToRefuse(p) => OtherAlive(p) \/ pid[p] \in {pidFile.text, lock.text}
=============================================================================
