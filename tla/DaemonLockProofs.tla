-------------------------- MODULE DaemonLockProofs --------------------------
(***************************************************************************)
(* When commands do not overlap, the lock file is enough: whoever holds    *)
(* the singleton is the one who created the file that is there now.  The   *)
(* invariant has to say it of the one process that is still starting, too, *)
(* and of the stop command, whose removal of the files is safe only        *)
(* because by then no daemon is left.                                      *)
(***************************************************************************)
EXTENDS DaemonLock, TLAPS

Holds(p) == pc[p] \in Holding

\* One command at a time.
OneStarting ==
    /\ \A p, q \in Procs : pc[p] \in Starting /\ pc[q] \in Starting => p = q
    /\ stopper # "idle" => \A p \in Procs : pc[p] \notin Starting

HolderOwnsLock ==
    /\ \A p \in Procs : Holds(p) => lock.by = p /\ lock.text = pid[p] /\ pid[p] # None
    /\ \A p \in Procs : pc[p] = "writeLock" => lock.by = p /\ lock.text = None
    /\ \A p \in Procs : pc[p] \in Starting => pid[p] # None
    /\ \A p \in Procs : pc[p] \in {"checkPidFile", "createLock"} => tries[p] < 2
    /\ \A p \in Procs : pc[p] = "unborn" => tries[p] = 0

\* The two removals that do not look whose file it is.
RemovalsSafe ==
    /\ (\E p \in Procs : pc[p] = "removeLock") => \A q \in Procs : ~Holds(q)
    /\ stopper = "removeFiles" => \A q \in Procs : ~Holds(q)
    /\ stopper = "kill" => \A q \in Procs : Holds(q) => pid[q] = target

PidFileWritten ==
    \A p \in Procs : /\ pc[p] = "writePid" => Exists(pidFile)
                     /\ pc[p] = "serving" => pidFile.text = pid[p]

LockInv == TypeOK /\ OneStarting /\ HolderOwnsLock /\ RemovalsSafe /\ PidFileWritten

USE DaemonAssumption DEF Starting, Holding, Gone, File, NoFile, Exists

LEMMA HoldersAgree == LockInv => Singleton
BY DEF LockInv, HolderOwnsLock, Singleton, Holds

LEMMA InitLockInv == Init => LockInv
BY DEF Init, LockInv, TypeOK, OneStarting, HolderOwnsLock, RemovalsSafe, PidFileWritten, Holds

LEMMA LockStep == ASSUME ~Racing, LockInv, [Next]_vars PROVE LockInv'
<1> USE DEF LockInv, TypeOK, OneStarting, HolderOwnsLock, RemovalsSafe, PidFileWritten, Holds,
            Goto, Alive
<1>1. ASSUME NEW p \in Procs, NEW q \in Pids, Spawn(p, q) PROVE LockInv'
  BY <1>1 DEF Spawn
<1>2. ASSUME NEW p \in Procs, CheckPidFile(p) PROVE LockInv'
  BY <1>2 DEF CheckPidFile
<1>3. ASSUME NEW p \in Procs, CreateLock(p) PROVE LockInv'
  <2>1. tries[p] < 2 => tries' \in [Procs -> 0 .. 2]
    BY <1>3 DEF CreateLock
  <2>2. CASE Exists(lock)
    BY <1>3, <2>1, <2>2 DEF CreateLock
  <2>3. CASE ~Exists(lock)
    BY <1>3, <2>1, <2>3 DEF CreateLock
  <2> QED  BY <2>2, <2>3
<1>4. ASSUME NEW p \in Procs, WriteLock(p) PROVE LockInv'
  BY <1>4 DEF WriteLock
<1>5. ASSUME NEW p \in Procs, WriteLockFails(p) PROVE LockInv'
  BY <1>5 DEF WriteLockFails
<1>6. ASSUME NEW p \in Procs, ReadLock(p) PROVE LockInv'
  BY <1>6 DEF ReadLock, LockTaken, LooksLikeLocalSend
<1>7. ASSUME NEW p \in Procs, RemoveLock(p) PROVE LockInv'
  BY <1>7 DEF RemoveLock
<1>8. ASSUME NEW p \in Procs, Sweep(p) PROVE LockInv'
  BY <1>8 DEF Sweep
<1>9. ASSUME NEW p \in Procs, TruncatePid(p) PROVE LockInv'
  BY <1>9 DEF TruncatePid
<1>10. ASSUME NEW p \in Procs, WritePid(p) PROVE LockInv'
  <2>1. pidFile' = [pidFile EXCEPT !.text = pid[p]] /\ UNCHANGED lock
    BY <1>10 DEF WritePid
  <2>2. pidFile'.by = pidFile.by /\ pidFile'.text = pid[p]
    BY <2>1
  <2>3. pidFile' \in File
    BY <2>1, <2>2
  <2>4. \A q \in Procs : Holds(q) => q = p
    BY <1>10 DEF WritePid
  <2> QED  BY <1>10, <2>1, <2>2, <2>3, <2>4 DEF WritePid
<1>11. ASSUME NEW p \in Procs, NEW how \in {"markStopped", "fatal"}, EndServing(p, how)
       PROVE  LockInv'
  BY <1>11 DEF EndServing
<1>12. ASSUME NEW p \in Procs, MarkStopped(p) PROVE LockInv'
  BY <1>12 DEF MarkStopped
<1>13. ASSUME NEW p \in Procs, ReadOwn(p) PROVE LockInv'
  BY <1>13 DEF ReadOwn
<1>14. ASSUME NEW p \in Procs, RemoveOwn(p) PROVE LockInv'
  BY <1>14 DEF RemoveOwn
<1>15. ASSUME NEW p \in Procs, Crash(p) PROVE LockInv'
  BY <1>15 DEF Crash
<1>16. CASE StartEnds \/ StopBegin
  BY <1>16 DEF StartEnds, StopBegin
<1>17. CASE StopFind
  BY <1>17 DEF StopFind, DaemonPid, LooksLikeLocalSend
<1>18. CASE StopTerm
  BY <1>11, <1>18 DEF StopTerm
<1>19. CASE StopKilled
  BY <1>19 DEF StopKilled, Targeted
<1>20. CASE StopGivesUp
  BY <1>20 DEF StopGivesUp
<1>21. CASE StopRemoveFiles
  BY <1>21 DEF StopRemoveFiles
<1>22. CASE UNCHANGED vars
  BY <1>22 DEF vars
<1> QED
  BY <1>1, <1>2, <1>3, <1>4, <1>5, <1>6, <1>7, <1>8, <1>9, <1>10, <1>11, <1>12, <1>13, <1>14,
     <1>15, <1>16, <1>17, <1>18, <1>19, <1>20, <1>21, <1>22 DEF Next, Step

LEMMA LockInvariant == ASSUME ~Racing PROVE Spec => []LockInv
<1>1. LockInv /\ [Next]_vars => LockInv'
  BY LockStep
<1> QED  BY <1>1, InitLockInv, PTL DEF Spec

\* Without overlapping commands there is at most one daemon, whatever crashed
\* before and whatever pid it left behind.
THEOREM AtMostOneDaemon == ASSUME ~Racing PROVE Spec => []Singleton
BY LockInvariant, HoldersAgree, PTL

\* The stop command can find a serving daemon.
THEOREM DaemonIsFindable == ASSUME ~Racing PROVE Spec => []Findable
<1>1. LockInv => Findable
  BY DEF LockInv, TypeOK, HolderOwnsLock, PidFileWritten, Findable, Holds
<1> QED  BY <1>1, LockInvariant, PTL

\* Its lock goes by its own hand only: every other removal finds no daemon.
THEOREM OnlyHolderReleases == ASSUME ~Racing PROVE Spec => HolderKeepsLock
<1>1. ASSUME LockInv, [Next]_vars
      PROVE  \A p \in Procs : pc[p] \in Holding /\ pc'[p] \in Holding /\ lock.by = p => lock' = lock
  <2> SUFFICES ASSUME NEW p \in Procs, pc[p] \in Holding, pc'[p] \in Holding, lock.by = p,
                      lock' # lock
               PROVE  FALSE
    BY Zenon
  <2> USE <1>1 DEF LockInv, TypeOK, HolderOwnsLock, RemovalsSafe, Holds, Goto
  <2>1. ASSUME NEW q \in Procs, CreateLock(q) PROVE FALSE
    BY <2>1 DEF CreateLock
  <2>2. ASSUME NEW q \in Procs, WriteLock(q) \/ WriteLockFails(q) PROVE FALSE
    BY <2>2 DEF WriteLock, WriteLockFails
  <2>3. ASSUME NEW q \in Procs, RemoveLock(q) PROVE FALSE
    BY <2>3 DEF RemoveLock
  <2>4. ASSUME NEW q \in Procs, RemoveOwn(q) PROVE FALSE
    <3>1. q = p
      BY <2>4 DEF RemoveOwn
    <3>2. pc'[p] = "dead"
      BY <2>4, <3>1 DEF RemoveOwn
    <3> QED  BY <3>2
  <2>5. CASE StopRemoveFiles
    BY <2>5 DEF StopRemoveFiles
  <2>6. ASSUME NEW q \in Procs,
               \/ \E r \in Pids : Spawn(q, r)
               \/ CheckPidFile(q) \/ ReadLock(q) \/ Sweep(q) \/ TruncatePid(q) \/ WritePid(q)
               \/ EndServing(q, "markStopped") \/ EndServing(q, "fatal")
               \/ MarkStopped(q) \/ ReadOwn(q) \/ Crash(q)
        PROVE  FALSE
    BY <2>6 DEF Spawn, CheckPidFile, ReadLock, Sweep, TruncatePid, WritePid, EndServing,
                MarkStopped, ReadOwn, Crash
  <2>7. ASSUME \/ StartEnds \/ StopBegin \/ StopFind \/ StopTerm \/ StopKilled \/ StopGivesUp \/ UNCHANGED vars
        PROVE  FALSE
    BY <2>7 DEF StartEnds, StopBegin, StopFind, StopTerm, StopKilled, StopGivesUp, EndServing, vars
  <2> QED  BY <2>1, <2>2, <2>3, <2>4, <2>5, <2>6, <2>7 DEF Next, Step
<1> QED  BY <1>1, LockInvariant, PTL DEF Spec, HolderKeepsLock

\* The second turn of the loop finds no lock, and there is no third.
SecondTurnFree ==
    \A p \in Procs : /\ pc[p] = "checkPidFile" => tries[p] = 0
                     /\ pc[p] = "createLock" /\ tries[p] # 0 => ~Exists(lock)
                     /\ pc[p] \in {"readLock", "removeLock"} => tries[p] = 1

LEMMA SecondTurnStep ==
  ASSUME LockInv, SecondTurnFree, [Next]_vars
  PROVE  SecondTurnFree'
<1> USE DEF LockInv, TypeOK, OneStarting, HolderOwnsLock, SecondTurnFree, Goto
<1>1. ASSUME NEW p \in Procs, NEW q \in Pids, Spawn(p, q) PROVE SecondTurnFree'
  BY <1>1 DEF Spawn
<1>2. ASSUME NEW p \in Procs, CheckPidFile(p) PROVE SecondTurnFree'
  BY <1>2 DEF CheckPidFile
<1>3. ASSUME NEW p \in Procs, CreateLock(p) PROVE SecondTurnFree'
  <2>1. \A q \in Procs : q # p => pc[q] \notin Starting
    BY <1>3 DEF CreateLock
  <2>2. Exists(lock) => tries[p] = 0
    BY <1>3 DEF CreateLock
  <2>3. Exists(lock) => pc'[p] = "readLock" /\ tries'[p] = tries[p] + 1
    BY <1>3 DEF CreateLock
  <2>4. ~Exists(lock) => pc'[p] = "writeLock"
    BY <1>3 DEF CreateLock
  <2>5. \A q \in Procs : q # p => pc'[q] = pc[q]
    BY <1>3 DEF CreateLock
  <2> QED BY <2>1, <2>2, <2>3, <2>4, <2>5
<1>4. ASSUME NEW p \in Procs, WriteLock(p) \/ WriteLockFails(p) PROVE SecondTurnFree'
  BY <1>4 DEF WriteLock, WriteLockFails
<1>5. ASSUME NEW p \in Procs, ReadLock(p) PROVE SecondTurnFree'
  BY <1>5 DEF ReadLock
<1>6. ASSUME NEW p \in Procs, RemoveLock(p) PROVE SecondTurnFree'
  BY <1>6 DEF RemoveLock
<1>7. ASSUME NEW p \in Procs,
             \/ Sweep(p) \/ TruncatePid(p) \/ WritePid(p)
             \/ EndServing(p, "markStopped") \/ EndServing(p, "fatal") \/ MarkStopped(p)
             \/ ReadOwn(p) \/ RemoveOwn(p) \/ Crash(p)
      PROVE  SecondTurnFree'
  BY <1>7 DEF Sweep, TruncatePid, WritePid, EndServing, MarkStopped, ReadOwn, RemoveOwn, Crash
<1>8. CASE StartEnds \/ StopBegin \/ StopFind \/ StopTerm \/ StopKilled \/ StopGivesUp \/ StopRemoveFiles
            \/ UNCHANGED vars
  BY <1>8 DEF StartEnds, StopBegin, StopFind, StopTerm, EndServing, StopKilled, StopGivesUp, StopRemoveFiles, vars
<1> QED  BY <1>1, <1>2, <1>3, <1>4, <1>5, <1>6, <1>7, <1>8 DEF Next, Step

\* Files that a dead daemon left behind keep a new one out only if its pid is
\* the one they hold: a stale lock is removed once, and then it is free.
THEOREM LeftoversYield == ASSUME ~Racing PROVE Spec => []RefusedByOwnPid
<1>1. Init => SecondTurnFree
  BY DEF Init, SecondTurnFree
<1>2. LockInv /\ SecondTurnFree /\ [Next]_vars => SecondTurnFree'
  BY SecondTurnStep
<1>3. SecondTurnFree => RefusedByOwnPid
  BY DEF SecondTurnFree, RefusedByOwnPid, AboutToRefuse, OtherAlive, LockTaken, LooksLikeLocalSend
<1> QED  BY <1>1, <1>2, <1>3, LockInvariant, PTL DEF Spec

-----------------------------------------------------------------------------
(* Types, also when commands overlap.                                       *)

\* The loop counts to two: a process about to create the file has a turn left.
TurnsLeft ==
    \A p \in Procs : /\ pc[p] = "unborn" => tries[p] = 0
                     /\ pc[p] \in {"checkPidFile", "createLock"} => tries[p] < 2

LEMMA TypeStep ==
  ASSUME TypeOK, TurnsLeft, [Next]_vars
  PROVE  TypeOK' /\ TurnsLeft'
<1> USE DEF TypeOK, TurnsLeft, Goto, Alive
<1>1. ASSUME NEW p \in Procs, NEW q \in Pids, Spawn(p, q) PROVE TypeOK' /\ TurnsLeft'
  BY <1>1 DEF Spawn
<1>2. ASSUME NEW p \in Procs, CheckPidFile(p) PROVE TypeOK' /\ TurnsLeft'
  BY <1>2 DEF CheckPidFile
<1>3. ASSUME NEW p \in Procs, CreateLock(p) PROVE TypeOK' /\ TurnsLeft'
  <2>1. tries' \in [Procs -> 0 .. 2] /\ \A o \in Procs \ {p} : tries'[o] = tries[o]
    BY <1>3 DEF CreateLock
  <2>2. lock' \in File /\ pc' \in [Procs -> Starting \cup Holding \cup Gone]
        /\ pc'[p] \in {"readLock", "writeLock"} /\ \A o \in Procs \ {p} : pc'[o] = pc[o]
    BY <1>3 DEF CreateLock
  <2> QED BY <1>3, <2>1, <2>2 DEF CreateLock
<1>4. ASSUME NEW p \in Procs, WriteLock(p) PROVE TypeOK' /\ TurnsLeft'
  <2>1. lock' \in File
    BY <1>4 DEF WriteLock
  <2> QED BY <1>4, <2>1 DEF WriteLock
<1>5. ASSUME NEW p \in Procs, WriteLockFails(p) \/ ReadLock(p) PROVE TypeOK' /\ TurnsLeft'
  BY <1>5 DEF WriteLockFails, ReadLock
<1>6. ASSUME NEW p \in Procs, RemoveLock(p) PROVE TypeOK' /\ TurnsLeft'
  BY <1>6 DEF RemoveLock
<1>7. ASSUME NEW p \in Procs, Sweep(p) \/ TruncatePid(p) PROVE TypeOK' /\ TurnsLeft'
  BY <1>7 DEF Sweep, TruncatePid
<1>8. ASSUME NEW p \in Procs, WritePid(p) PROVE TypeOK' /\ TurnsLeft'
  <2>1. pidFile' \in File
    BY <1>8 DEF WritePid
  <2> QED BY <1>8, <2>1 DEF WritePid
<1>9. ASSUME NEW p \in Procs, NEW how \in {"markStopped", "fatal"}, EndServing(p, how)
      PROVE  TypeOK' /\ TurnsLeft'
  BY <1>9 DEF EndServing
<1>10. ASSUME NEW p \in Procs, MarkStopped(p) \/ ReadOwn(p) PROVE TypeOK' /\ TurnsLeft'
  BY <1>10 DEF MarkStopped, ReadOwn
<1>11. ASSUME NEW p \in Procs, RemoveOwn(p) \/ Crash(p) PROVE TypeOK' /\ TurnsLeft'
  BY <1>11 DEF RemoveOwn, Crash
<1>12. CASE StopTerm
  BY <1>9, <1>12 DEF StopTerm
<1>13. CASE StartEnds \/ StopBegin \/ StopFind
  BY <1>13 DEF StartEnds, StopBegin, StopFind, DaemonPid
<1>14. CASE StopKilled \/ StopGivesUp
  BY <1>14 DEF StopKilled, StopGivesUp
<1>15. CASE StopRemoveFiles
  BY <1>15 DEF StopRemoveFiles
<1>16. CASE UNCHANGED vars
  BY <1>16 DEF vars
<1> QED
  BY <1>1, <1>2, <1>3, <1>4, <1>5, <1>6, <1>7, <1>8, <1>9, <1>10, <1>11, <1>12, <1>13, <1>14,
     <1>15, <1>16 DEF Next, Step

\* The types of the singleton's state, whether commands overlap or not; in
\* particular AcquireDaemonLock turns at most twice.
THEOREM TypeCorrect == Spec => []TypeOK
<1>1. Init => TypeOK /\ TurnsLeft
  BY DEF Init, TypeOK, TurnsLeft
<1>2. TypeOK /\ TurnsLeft /\ [Next]_vars => (TypeOK /\ TurnsLeft)'
  BY TypeStep
<1> QED BY <1>1, <1>2, PTL DEF Spec
=============================================================================
