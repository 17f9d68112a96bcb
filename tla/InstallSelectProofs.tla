-------------------------- MODULE InstallSelectProofs --------------------------
(***************************************************************************)
(* What install-zip guarantees for any number of processes, names,         *)
(* versions and stamps, whatever is killed and whenever the receive        *)
(* directory changes.                                                      *)
(***************************************************************************)
EXTENDS InstallSelect, TLAPS

\* Between the hash of the confirmation and the end of the installation the
\* ZIP is the one selected, unless it was swapped.
Faithful ==
    \A p \in Procs : p \notin swapped =>
        /\ job[p].pc \in Acquiring \cup {"open"} => zips[job[p].name] = job[p].sha
        /\ job[p].pc = "install" => job[p].got = job[p].sha

\* Unless two processes were acquiring the lock at once: one acquires it at a
\* time, the file is the holder's, and nobody is about to remove it.
Exclusive ==
    ~crossed =>
        /\ \A p, q \in Procs : job[p].pc \in Acquiring /\ job[q].pc \in Acquiring => p = q
        /\ \A p \in Procs : job[p].pc = "fill" => lock = [by |-> p, pid |-> None]
        /\ \A p \in Procs : job[p].pc \in Holding => lock = [by |-> p, pid |-> p]
        /\ \A p, q \in Procs : job[p].pc = "remove" => job[q].pc \notin Holding

\* A pid in the lock is that of a process that installs, or of one that ended and
\* left it there.
Honest ==
    /\ ~wrong
    /\ lock # None /\ lock.pid # None /\ lock.pid \notin left => job[lock.pid].pc \in Holding

\* No selection has a number that is still to come.
Numbered ==
    /\ \A p \in Procs : job[p].sel <= selects
    /\ pending # None => pending.sel <= selects
    /\ \A k \in done : k <= selects

\* A selection that is not excused is with one process at most, and once it
\* has been installed, with the one that removes it from the file.
Once ==
    /\ again \subseteq excused
    /\ \A p, q \in Procs : job[p].sel = job[q].sel /\ job[p].sel # 0 /\ job[p].sel \notin excused => p = q
    /\ \A p \in Procs : job[p].sel \in done \ excused => job[p].pc \in {"consume", "release"}
    /\ pending # None /\ pending.sel \in done \ excused =>
          \E p \in Procs : job[p].pc = "consume" /\ job[p].sel = pending.sel

-----------------------------------------------------------------------------
\* Types.

\* A job in progress names its ZIP, and after the hash its bytes.
Valid ==
    {j \in Job : j.pc # "idle" =>
                    /\ j.name \in Names /\ j.stamp \in Stamps /\ j.sel # 0
                    /\ j.pc # "hash" => j.sha \in Versions}

Typed == TypeOK /\ job \in [Procs -> Valid]

LEMMA IdleValid == Idle \in Valid
BY InstallAssumption DEF Idle, Job, Stages, Valid

LEMMA TypeInit == Init => Typed
<1> SUFFICES ASSUME Init
             PROVE  Typed
  OBVIOUS
<1>1. job \in [Procs -> Valid] /\ job \in [Procs -> Job]
  BY IdleValid DEF Init, Valid
<1>2. selects \in 0 .. MaxSelects /\ changes \in 0 .. MaxChanges /\ faults \in 0 .. MaxFaults
  BY InstallAssumption DEF Init
<1> QED
  BY <1>1, <1>2 DEF Init, Typed, TypeOK

\* A step of a process gives it another job and leaves the others theirs.
LEMMA JobStep ==
    ASSUME Typed, NEW p \in Procs, Step(p)
    PROVE  job' \in [Procs -> Valid] /\ \A q \in Procs : q # p => job'[q] = job[q]
<1> USE DEF Typed
<1> DEFINE OK == job' \in [Procs -> Valid] /\ \A q \in Procs : q # p => job'[q] = job[q]
<1>1. Idle \in Valid /\ job[p] \in Valid
  BY IdleValid
<1>2. ASSUME NEW j \in Valid, job' = [job EXCEPT ![p] = j]
      PROVE  OK
  BY <1>2
<1>3. ASSUME Exits(p)
      PROVE  OK
  BY <1>1, <1>3 DEF Exits
<1>4. ASSUME NEW pc \in Stages, job[p].pc \notin {"idle", "hash"}, Goes(p, pc)
      PROVE  OK
  <2>1. [job[p] EXCEPT !.pc = pc] \in Valid
    BY <1>1, <1>4 DEF Valid, Job
  <2>2. job' = [job EXCEPT ![p] = [job[p] EXCEPT !.pc = pc]]
    BY <1>4 DEF Goes
  <2> QED
    BY <1>2, <2>1, <2>2
<1>5. ASSUME NEW n \in Names, Select(p, n)
      PROVE  OK
  <2> DEFINE j == [Idle EXCEPT !.pc = "hash", !.name = n, !.stamp = StampOf[zips[n]], !.sel = selects + 1]
  <2>1. StampOf[zips[n]] \in Stamps /\ selects + 1 \in 0 .. MaxSelects /\ selects + 1 # 0
    BY <1>5, InstallAssumption DEF Select, TypeOK
  <2>2. j \in Valid
    BY <1>1, <2>1 DEF Idle, Valid, Job, Stages
  <2>3. job' = [job EXCEPT ![p] = j]
    BY <1>5 DEF Select
  <2> HIDE DEF j
  <2> QED
    BY <1>2, <2>2, <2>3
<1>6. CASE SelectHash(p)
  <2>1. CASE zips[job[p].name] = None
    BY <1>3, <1>6, <2>1 DEF SelectHash
  <2>2. CASE zips[job[p].name] # None
    <3> DEFINE j == [job[p] EXCEPT !.pc = "write", !.sha = zips[job[p].name]]
    <3>1. zips[job[p].name] \in Versions
      BY <1>1, <1>6, <2>2 DEF SelectHash, Valid, TypeOK
    <3>2. j \in Valid
      BY <1>1, <1>6, <3>1 DEF SelectHash, Valid, Job, Stages
    <3>3. job' = [job EXCEPT ![p] = j]
      BY <1>6, <2>2 DEF SelectHash
    <3> HIDE DEF j
    <3> QED
      BY <1>2, <3>2, <3>3
  <2> QED
    BY <2>1, <2>2
<1>7. CASE SelectWrite(p) \/ FileFails(p) \/ LockWriteFails(p) \/ LockRefused(p) \/ Release(p) \/ ReleaseFails(p)
  BY <1>3, <1>7 DEF SelectWrite, FileFails, LockWriteFails, LockRefused, Release, ReleaseFails
<1>8. CASE Cancel(p)
  BY <1>8 DEF Cancel
<1>9. CASE Confirm(p)
  <2> DEFINE j == [Idle EXCEPT !.pc = "find", !.name = pending.name, !.stamp = pending.stamp,
                               !.sha = pending.sha, !.sel = pending.sel]
  <2>1. pending \in Pending
    BY <1>9 DEF Confirm, TypeOK
  <2>2. j \in Valid
    <3>1. pending.name \in Names /\ pending.stamp \in Stamps /\ pending.sha \in Versions
      BY <2>1 DEF Pending
    <3>2. pending.sel \in 0 .. MaxSelects /\ pending.sel # 0
      BY <2>1, InstallAssumption DEF Pending, Selections
    <3>3. "find" \in Stages
      BY DEF Stages
    <3>4. j \in Job
      BY <1>1, <3>1, <3>2, <3>3 DEF Valid, Job
    <3>5. j.name = pending.name /\ j.stamp = pending.stamp /\ j.sha = pending.sha /\ j.sel = pending.sel
      BY DEF Idle
    <3> HIDE DEF j
    <3> QED
      BY <3>1, <3>2, <3>4, <3>5 DEF Valid
  <2>3. job' = [job EXCEPT ![p] = j]
    BY <1>9 DEF Confirm
  <2> HIDE DEF j
  <2> QED
    BY <1>2, <2>2, <2>3
<1>10. CASE ConfirmFind(p) \/ ConfirmHash(p)
  BY <1>3, <1>4, <1>10 DEF ConfirmFind, ConfirmHash, Stages, Acquiring
<1>11. CASE LockCreate(p) \/ LockWrite(p) \/ LockStale(p)
  BY <1>4, <1>11 DEF LockCreate, LockWrite, LockStale, Stages, Acquiring, Holding
<1>12. CASE LockRemove(p)
  <2> DEFINE j == [job[p] EXCEPT !.pc = "create", !.try = 2]
  <2>1. j \in Valid
    <3>1. "create" \in Stages /\ 2 \in 1 .. 2
      BY DEF Stages, Acquiring
    <3>2. job[p].pc # "idle" /\ job[p].pc # "hash"
      BY <1>12 DEF LockRemove
    <3> QED
      BY <1>1, <3>1, <3>2 DEF Valid, Job
  <2>2. job' = [job EXCEPT ![p] = j] \/ Exits(p)
    BY <1>12 DEF LockRemove
  <2> HIDE DEF j
  <2> QED
    BY <1>2, <1>3, <2>1, <2>2
<1>13. CASE Open(p)
  <2>1. CASE zips[job[p].name] = None
    BY <1>4, <1>13, <2>1 DEF Open, Stages, Holding
  <2>2. CASE zips[job[p].name] # None
    <3> DEFINE j == [job[p] EXCEPT !.pc = "install", !.got = zips[job[p].name]]
    <3>1. zips[job[p].name] \in Versions
      BY <1>1, <1>13, <2>2 DEF Open, Valid, TypeOK
    <3>2. j \in Valid
      BY <1>1, <1>13, <3>1 DEF Open, Valid, Job, Stages, Holding
    <3>3. job' = [job EXCEPT ![p] = j]
      BY <1>13, <2>2 DEF Open
    <3> HIDE DEF j
    <3> QED
      BY <1>2, <3>2, <3>3
  <2> QED
    BY <2>1, <2>2
<1>14. CASE Installed(p) \/ InstallFails(p) \/ Consume(p) \/ ConsumeFails(p)
  BY <1>4, <1>14 DEF Installed, InstallFails, Consume, ConsumeFails, Stages, Holding
<1> QED
  BY <1>5, <1>6, <1>7, <1>8, <1>9, <1>10, <1>11, <1>12, <1>13, <1>14 DEF Step

LEMMA TypeStep ==
    ASSUME Typed, NEW p \in Procs, Step(p)
    PROVE  Typed'
<1> USE DEF Typed, TypeOK
<1>0. job' \in [Procs -> Valid] /\ job' \in [Procs -> Job] /\ job[p] \in Valid
  BY JobStep DEF Valid
<1>f. Fault => faults' \in 0 .. MaxFaults
  BY InstallAssumption DEF Fault
<1>1. ASSUME NEW n \in Names, Select(p, n)
      PROVE  Typed'
  BY <1>0, <1>1, InstallAssumption DEF Select, hist
<1>2. CASE SelectHash(p)
  BY <1>0, <1>2 DEF SelectHash, counts, hist
<1>3. CASE SelectWrite(p)
  <2>1. pending' \in Pending
    BY <1>0, <1>3, InstallAssumption DEF SelectWrite, Valid, Job, Pending, Selections
  <2> QED
    BY <1>0, <1>3, <2>1 DEF SelectWrite, counts, hist
<1>4. CASE Cancel(p)
  BY <1>0, <1>4 DEF Cancel, counts, hist
<1>5. CASE Confirm(p)
  BY <1>0, <1>5 DEF Confirm, counts, Pending
<1>6. CASE ConfirmFind(p) \/ LockStale(p) \/ Open(p) \/ InstallFails(p)
  BY <1>0, <1>6 DEF ConfirmFind, LockStale, Open, InstallFails, counts, hist
<1>7. CASE ConfirmHash(p)
  BY <1>0, <1>7 DEF ConfirmHash, counts
<1>8. CASE LockCreate(p) \/ LockWrite(p)
  <2>1. lock' \in Lock \cup {None}
    BY <1>8 DEF LockCreate, LockWrite, Lock
  <2> QED
    BY <1>0, <1>8, <2>1 DEF LockCreate, LockWrite, counts, hist
<1>9. CASE FileFails(p) \/ LockWriteFails(p) \/ LockRemove(p) \/ Release(p) \/ ReleaseFails(p)
  BY <1>0, <1>9, <1>f DEF FileFails, LockWriteFails, LockRemove, Release, ReleaseFails, counts, hist
<1>10. CASE LockRefused(p)
  <2>1. wrong' \in BOOLEAN
    BY <1>10 DEF LockRefused
  <2> QED
    BY <1>0, <1>10, <2>1 DEF LockRefused, counts
<1>11. CASE Installed(p)
  <2>1. job[p].sel \in Selections
    BY <1>0, <1>11, InstallAssumption DEF Installed, Valid, Job, Selections
  <2> QED
    BY <1>0, <1>11, <2>1 DEF Installed, counts
<1>12. CASE Consume(p)
  BY <1>0, <1>12 DEF Consume, counts, hist
<1>13. CASE ConsumeFails(p)
  <2>1. excused' \subseteq Selections
    BY <1>13 DEF ConsumeFails, Pending
  <2> QED
    BY <1>0, <1>13, <1>f, <2>1 DEF ConsumeFails
<1> QED
  BY <1>1, <1>2, <1>3, <1>4, <1>5, <1>6, <1>7, <1>8, <1>9, <1>10, <1>11, <1>12, <1>13 DEF Step

\* What is left of a job once it has moved on.
LEMMA JobAfter ==
    ASSUME Typed, NEW p \in Procs
    PROVE  /\ Exits(p) => job'[p].pc = "idle" /\ job'[p].sel = 0
           /\ \A pc \in Stages : Goes(p, pc) =>
                 /\ job'[p].pc = pc
                 /\ job'[p].name = job[p].name /\ job'[p].sha = job[p].sha
                 /\ job'[p].sel = job[p].sel /\ job'[p].got = job[p].got
           /\ \A n \in Names : Select(p, n) => job'[p].pc = "hash" /\ job'[p].sel = selects + 1
           /\ SelectHash(p) =>
                 Exits(p) \/ (job'[p].pc = "write" /\ job'[p].sel = job[p].sel)
           /\ Confirm(p) => job'[p].pc = "find" /\ job'[p].sel = pending.sel
           /\ LockRemove(p) =>
                 Exits(p) \/ (/\ job'[p].pc = "create"
                             /\ job'[p].name = job[p].name /\ job'[p].sha = job[p].sha
                             /\ job'[p].sel = job[p].sel)
           /\ Open(p) =>
                 Goes(p, "release") \/ (/\ job'[p].pc = "install"
                                       /\ job'[p].name = job[p].name /\ job'[p].sha = job[p].sha
                                       /\ job'[p].got = zips[job[p].name]
                                       /\ job'[p].sel = job[p].sel)
<1> USE DEF Typed, TypeOK
<1>1. job[p] \in Job
  OBVIOUS
<1>2. Exits(p) => job'[p] = Idle
  BY DEF Exits
<1>3. ASSUME NEW pc \in Stages, Goes(p, pc)
      PROVE  job'[p] = [job[p] EXCEPT !.pc = pc]
  BY <1>3 DEF Goes
<1>4. ASSUME NEW n \in Names, Select(p, n)
      PROVE  job'[p] = [Idle EXCEPT !.pc = "hash", !.name = n, !.stamp = StampOf[zips[n]], !.sel = selects + 1]
  BY <1>4 DEF Select
<1>5. SelectHash(p) => Exits(p) \/ job'[p] = [job[p] EXCEPT !.pc = "write", !.sha = zips[job[p].name]]
  BY DEF SelectHash
<1>6. Confirm(p) => job'[p] = [Idle EXCEPT !.pc = "find", !.name = pending.name, !.stamp = pending.stamp,
                                 !.sha = pending.sha, !.sel = pending.sel]
  BY DEF Confirm
<1>7. LockRemove(p) => Exits(p) \/ job'[p] = [job[p] EXCEPT !.pc = "create", !.try = 2]
  BY DEF LockRemove
<1>8. Open(p) => Goes(p, "release") \/ job'[p] = [job[p] EXCEPT !.pc = "install", !.got = zips[job[p].name]]
  BY DEF Open
<1>a. Exits(p) => job'[p].pc = "idle" /\ job'[p].sel = 0
  BY <1>2 DEF Idle
<1>b. \A pc \in Stages : Goes(p, pc) =>
        /\ job'[p].pc = pc
        /\ job'[p].name = job[p].name /\ job'[p].sha = job[p].sha
        /\ job'[p].sel = job[p].sel /\ job'[p].got = job[p].got
  BY <1>1, <1>3 DEF Job
<1>c. \A n \in Names : Select(p, n) => job'[p].pc = "hash" /\ job'[p].sel = selects + 1
  BY <1>4 DEF Idle
<1>d. SelectHash(p) => Exits(p) \/ (job'[p].pc = "write" /\ job'[p].sel = job[p].sel)
  BY <1>1, <1>5 DEF Job
<1>e. Confirm(p) => job'[p].pc = "find" /\ job'[p].sel = pending.sel
  BY <1>6 DEF Idle
<1>f. LockRemove(p) => Exits(p) \/ (/\ job'[p].pc = "create"
                                   /\ job'[p].name = job[p].name /\ job'[p].sha = job[p].sha
                                   /\ job'[p].sel = job[p].sel)
  BY <1>1, <1>7 DEF Job
<1>g. Open(p) => Goes(p, "release") \/ (/\ job'[p].pc = "install"
                                       /\ job'[p].name = job[p].name /\ job'[p].sha = job[p].sha
                                       /\ job'[p].got = zips[job[p].name]
                                       /\ job'[p].sel = job[p].sel)
  BY <1>1, <1>8 DEF Job
<1> QED
  BY <1>a, <1>b, <1>c, <1>d, <1>e, <1>f, <1>g

\* What no process does: some are killed, or the directory changes.
Other ==
    \/ \E P \in SUBSET Procs : Crash(P)
    \/ \E n \in Names, v \in Versions \cup {None} : Change(n, v)

LEMMA OtherTypes ==
    ASSUME Typed, Other
    PROVE  Typed'
<1> USE DEF Typed, TypeOK
<1>1. ASSUME NEW P \in SUBSET Procs, Crash(P)
      PROVE  Typed'
  <2>1. job' \in [Procs -> Valid] /\ job' \in [Procs -> Job]
    BY <1>1, IdleValid DEF Crash, Valid
  <2>2. faults' \in 0 .. MaxFaults
    BY <1>1, InstallAssumption DEF Crash, Fault
  <2>3. \A p \in P : job[p].pc = "consume" => job[p].sel \in Selections
    BY InstallAssumption DEF Valid, Job, Selections
  <2>4. excused' \subseteq Selections
    BY <1>1, <2>3 DEF Crash
  <2> QED
    BY <1>1, <2>1, <2>2, <2>4 DEF Crash
<1>2. ASSUME NEW n \in Names, NEW v \in Versions \cup {None}, Change(n, v)
      PROVE  Typed'
  <2>1. changes' \in 0 .. MaxChanges
    BY <1>2, InstallAssumption DEF Change
  <2> QED
    BY <1>2, <2>1 DEF Change
<1> QED
  BY <1>1, <1>2 DEF Other

-----------------------------------------------------------------------------
\* The ZIP that is installed.

LEMMA FaithfulStep ==
    ASSUME Typed, Faithful, NEW p \in Procs, Step(p)
    PROVE  Faithful'
<1> USE DEF Typed, TypeOK
<1>0. \A q \in Procs : q # p => job'[q] = job[q]
  BY JobStep
<1>a. job' \in [Procs -> Valid] /\ zips' = zips
  BY JobStep DEF Step, Select, SelectHash, SelectWrite, Cancel, Confirm, ConfirmFind, ConfirmHash,
                 LockCreate, LockWrite, LockWriteFails, LockRefused, LockStale, LockRemove,
                 Open, Installed, InstallFails, Consume, Release, FileFails, ConsumeFails, ReleaseFails
<1>b. swapped' = swapped \/ (ConfirmHash(p) /\ swapped' = swapped \ {p})
  BY DEF Step, Select, SelectHash, SelectWrite, Cancel, Confirm, ConfirmFind, ConfirmHash,
         LockCreate, LockWrite, LockWriteFails, LockRefused, LockStale, LockRemove,
         Open, Installed, InstallFails, Consume, Release, FileFails, ConsumeFails, ReleaseFails, hist
\* It is enough to look at the job of p.
<1> DEFINE Own == p \notin swapped' =>
              /\ job'[p].pc \in Acquiring \cup {"open"} => zips[job'[p].name] = job'[p].sha
              /\ job'[p].pc = "install" => job'[p].got = job'[p].sha
<1> SUFFICES Own
  BY <1>0, <1>a, <1>b DEF Faithful
<1>d. swapped' = swapped => (p \notin swapped' =>
         /\ job[p].pc \in Acquiring \cup {"open"} => zips[job[p].name] = job[p].sha
         /\ job[p].pc = "install" => job[p].got = job[p].sha)
  BY DEF Faithful
<1>e. ASSUME job'[p].pc \notin Acquiring \cup {"open", "install"}
      PROVE  Own
  BY <1>e
<1> HIDE DEF Own, Typed, TypeOK
<1>1. ASSUME NEW n \in Names, Select(p, n)
      PROVE  Own
  BY <1>1, <1>e, JobAfter DEF Acquiring
<1>2. CASE Exits(p)
  BY <1>2, <1>e, JobAfter DEF Acquiring
<1>3. CASE SelectHash(p)
  BY <1>2, <1>3, <1>e, JobAfter DEF Acquiring
<1>4. CASE Cancel(p)
  <2>1. job'[p].pc = "idle"
    BY <1>4 DEF Cancel
  <2> QED
    BY <2>1, <1>e DEF Acquiring
<1>5. CASE Confirm(p)
  BY <1>5, <1>e, JobAfter DEF Acquiring
<1>6. CASE ConfirmFind(p)
  <2>1. Exits(p) \/ Goes(p, "verify")
    BY <1>6 DEF ConfirmFind
  <2> QED
    BY <2>1, <1>2, <1>e, JobAfter DEF Acquiring, Stages
<1>7. CASE ConfirmHash(p)
  <2>1. Exits(p) \/ (Goes(p, "create") /\ zips[job[p].name] = job[p].sha)
    BY <1>7 DEF ConfirmHash, Verified
  <2> QED
    BY <2>1, <1>2, JobAfter DEF Own, Acquiring, Stages
<1>8. CASE LockCreate(p) \/ LockWrite(p) \/ LockStale(p)
  <2>1. swapped' = swapped /\ job[p].pc \in Acquiring
    BY <1>8 DEF LockCreate, LockWrite, LockStale, Acquiring, hist
  <2>2. \E pc \in Acquiring \cup {"open"} : Goes(p, pc)
    BY <1>8 DEF LockCreate, LockWrite, LockStale, Acquiring
  <2>3. PICK pc \in Stages \ {"install"} : Goes(p, pc)
    BY <2>2 DEF Acquiring, Stages, Holding
  <2> QED
    BY <2>1, <2>3, <1>d, JobAfter DEF Own
<1>9. CASE LockRemove(p)
  <2>1. swapped' = swapped /\ job[p].pc \in Acquiring
    BY <1>9 DEF LockRemove, Acquiring, hist
  <2> QED
    BY <1>2, <1>9, <1>d, <2>1, JobAfter DEF Own, Acquiring
<1>10. CASE Open(p)
  <2>1. swapped' = swapped /\ job[p].pc = "open"
    BY <1>10 DEF Open, hist
  <2>2. CASE Goes(p, "release")
    BY <2>2, <1>e, JobAfter DEF Acquiring, Stages, Holding
  <2>3. CASE ~Goes(p, "release")
    BY <1>10, <1>d, <2>1, <2>3, JobAfter DEF Own, Acquiring
  <2> QED
    BY <2>2, <2>3
<1>11. CASE Installed(p) \/ InstallFails(p) \/ Consume(p) \/ ConsumeFails(p)
  <2>1. Goes(p, "consume") \/ Goes(p, "release")
    BY <1>11 DEF Installed, InstallFails, Consume, ConsumeFails
  <2> QED
    BY <2>1, <1>e, JobAfter DEF Acquiring, Stages, Holding
<1> QED
  BY <1>1, <1>2, <1>3, <1>4, <1>5, <1>6, <1>7, <1>8, <1>9, <1>10, <1>11
     DEF Step, SelectWrite, FileFails, LockWriteFails, LockRefused, Release, ReleaseFails

LEMMA FaithfulOther ==
    ASSUME Typed, Faithful, Other
    PROVE  Faithful'
<1> USE DEF Typed, TypeOK
<1>1. ASSUME NEW P \in SUBSET Procs, Crash(P)
      PROVE  Faithful'
  BY <1>1 DEF Crash, Faithful, Idle, Acquiring
<1>2. ASSUME NEW n \in Names, NEW v \in Versions \cup {None}, Change(n, v)
      PROVE  Faithful'
  BY <1>2 DEF Change, Faithful, Acquiring, Holding
<1> QED
  BY <1>1, <1>2 DEF Other

-----------------------------------------------------------------------------
\* The lock.

LEMMA HonestStep ==
    ASSUME Typed, Honest, NEW p \in Procs, Step(p)
    PROVE  Honest'
<1> USE DEF Typed, TypeOK
<1>0. \A q \in Procs : q # p => job'[q] = job[q]
  BY JobStep
<1>b. lock # None => lock \in Lock
  OBVIOUS
\* Steps that leave the lock alone, by a process that does not hold it or
\* goes on holding it.
<1>c. ASSUME lock' = lock, wrong' = wrong, job[p].pc \in Holding => job'[p].pc \in Holding, left' = left
      PROVE  Honest'
  BY <1>0, <1>b, <1>c DEF Honest, Lock
<1>1. ASSUME NEW n \in Names, Select(p, n)
      PROVE  Honest'
  BY <1>1, <1>c DEF Select, Holding, hist
<1>2. CASE SelectHash(p) \/ SelectWrite(p) \/ FileFails(p) \/ Cancel(p) \/ Confirm(p) \/ ConfirmFind(p)
           \/ ConfirmHash(p)
  BY <1>2, <1>c DEF SelectHash, SelectWrite, FileFails, Cancel, Confirm, ConfirmFind, ConfirmHash, Holding, hist
<1>3. CASE LockCreate(p)
  <2>1. CASE lock = None
    BY <1>3, <2>1 DEF LockCreate, Honest, hist
  <2>2. CASE lock # None
    BY <1>3, <1>c, <2>2 DEF LockCreate, Holding, hist
  <2> QED
    BY <2>1, <2>2
<1>4. CASE LockWrite(p)
  <2>1. job'[p].pc = "open"
    BY <1>4 DEF LockWrite, Goes
  <2>2. CASE lock # None /\ lock.by = p
    BY <1>4, <1>b, <2>1, <2>2 DEF LockWrite, Honest, Holding, Lock, hist
  <2>3. CASE ~(lock # None /\ lock.by = p)
    BY <1>4, <1>c, <2>1, <2>3 DEF LockWrite, Holding, hist
  <2> QED
    BY <2>2, <2>3
<1>5. CASE LockWriteFails(p) \/ LockRemove(p)
  <2>1. CASE lock' = None
    BY <1>5, <2>1 DEF LockWriteFails, LockRemove, Honest, hist
  <2>2. CASE lock' # None
    <3>1. lock' = lock /\ job[p].pc = "remove"
      BY <1>5, <2>2 DEF LockWriteFails, LockRemove
    <3> QED
      BY <1>5, <1>c, <3>1 DEF LockWriteFails, LockRemove, Holding, hist
  <2> QED
    BY <2>1, <2>2
<1>6. CASE LockRefused(p)
  <2>1. job[lock.pid].pc \in Holding \/ lock.pid \in left
    BY <1>6 DEF LockRefused, Owned, Honest
  <2>2. ~wrong'
    BY <1>6, <2>1 DEF LockRefused, Honest
  <2>3. lock' = lock /\ left' = left /\ job[p].pc \notin Holding
    BY <1>6 DEF LockRefused, Holding
  <2> QED
    BY <1>0, <1>b, <2>2, <2>3 DEF Honest, Lock
<1>7. CASE LockStale(p)
  BY <1>7, <1>c DEF LockStale, Holding, hist
<1>8. CASE Open(p) \/ Installed(p) \/ InstallFails(p) \/ Consume(p) \/ ConsumeFails(p)
  <2>1. Open(p) \/ Goes(p, "consume") \/ Goes(p, "release")
    BY <1>8 DEF Installed, InstallFails, Consume, ConsumeFails
  <2>2. job'[p].pc \in Holding
    BY <2>1, JobAfter DEF Holding, Stages
  <2> QED
    BY <1>8, <1>c, <2>2 DEF Open, Installed, InstallFails, Consume, ConsumeFails, hist
<1>9. CASE Release(p)
  BY <1>0, <1>b, <1>9 DEF Release, Honest, Lock, hist
<1>10. CASE ReleaseFails(p)
  BY <1>0, <1>b, <1>10 DEF ReleaseFails, Honest, Lock
<1> QED
  BY <1>1, <1>2, <1>3, <1>4, <1>5, <1>6, <1>7, <1>8, <1>9, <1>10 DEF Step

LEMMA HonestOther ==
    ASSUME Typed, Honest, Other
    PROVE  Honest'
<1> USE DEF Typed, TypeOK
<1>1. ASSUME NEW P \in SUBSET Procs, Crash(P)
      PROVE  Honest'
  BY <1>1 DEF Crash, Honest, Lock
<1>2. ASSUME NEW n \in Names, NEW v \in Versions \cup {None}, Change(n, v)
      PROVE  Honest'
  BY <1>2 DEF Change, Honest
<1> QED
  BY <1>1, <1>2 DEF Other

LEMMA ExclusiveStep ==
    ASSUME Typed, Exclusive, NEW p \in Procs, Step(p)
    PROVE  Exclusive'
<1>0. \A q \in Procs : q # p => job'[q] = job[q]
  BY JobStep
<1>l. \A q \in Procs : [by |-> q, pid |-> q] # None /\ [by |-> q, pid |-> None] # None
  BY InstallAssumption DEF Lock
<1>c. ASSUME lock' = lock, crossed' = crossed, job'[p].pc \notin Acquiring \cup Holding
      PROVE  Exclusive'
  BY <1>0, <1>c DEF Exclusive, Acquiring
<1>1. ASSUME NEW n \in Names, Select(p, n)
      PROVE  Exclusive'
  BY <1>1, <1>c, JobAfter DEF Select, hist, Acquiring, Holding
<1>2. CASE SelectHash(p) \/ SelectWrite(p) \/ FileFails(p) \/ Confirm(p) \/ LockRefused(p)
           \/ ReleaseFails(p)
  <2>1. job'[p].pc \in {"idle", "write", "find"}
    BY <1>2, JobAfter DEF SelectWrite, FileFails, LockRefused, ReleaseFails
  <2> QED
    BY <1>2, <1>c, <2>1 DEF SelectHash, SelectWrite, FileFails, ReleaseFails, Confirm, LockRefused, hist, Acquiring, Holding
<1>3. CASE Cancel(p)
  BY <1>3, <1>c DEF Cancel, hist, Acquiring, Holding
<1>4. CASE ConfirmFind(p)
  <2>1. Exits(p) \/ Goes(p, "verify")
    BY <1>4 DEF ConfirmFind
  <2>2. job'[p].pc \in {"idle", "verify"}
    BY <2>1, JobAfter DEF Stages
  <2> QED
    BY <1>4, <1>c, <2>2 DEF ConfirmFind, hist, Acquiring, Holding
<1>5. CASE ConfirmHash(p)
  <2>1. CASE Verified(p)
    <3>1. job'[p].pc = "create"
      BY <1>5, <2>1, JobAfter DEF ConfirmHash, Stages, Acquiring
    <3>2. lock' = lock /\ (~crossed' => ~crossed /\ \A q \in Procs : job[q].pc \notin Acquiring)
      BY <1>5, <2>1 DEF ConfirmHash
    <3> QED
      BY <1>0, <3>1, <3>2 DEF Exclusive, Acquiring, Holding
  <2>2. CASE ~Verified(p)
    <3>1. job'[p].pc = "idle" /\ lock' = lock
      BY <1>5, <2>2, JobAfter DEF ConfirmHash
    <3>2. crossed' = crossed
      BY <1>5, <2>2 DEF ConfirmHash, Typed, TypeOK
    <3> QED
      BY <1>c, <3>1, <3>2 DEF Acquiring, Holding
  <2> QED
    BY <2>1, <2>2
<1>6. CASE LockCreate(p)
  <2>0. job[p].pc = "create" /\ crossed' = crossed
    BY <1>6 DEF LockCreate, hist
  <2>1. CASE lock = None
    <3>1. job'[p].pc = "fill" /\ lock' = [by |-> p, pid |-> None]
      BY <1>6, <2>1, JobAfter DEF LockCreate, Stages, Acquiring
    <3>2. ASSUME ~crossed, NEW q \in Procs, q # p
          PROVE  job[q].pc \notin Acquiring \cup Holding
      BY <1>l, <2>0, <2>1, <3>2 DEF Exclusive, Acquiring
    <3>3. ASSUME ~crossed, NEW q \in Procs, job'[q].pc \in Acquiring \cup Holding
          PROVE  q = p
      BY <1>0, <3>2, <3>3
    <3>4. job'[p].pc \notin Holding /\ job'[p].pc # "remove"
      BY <3>1 DEF Holding
    <3> QED
      BY <2>0, <3>1, <3>3, <3>4 DEF Exclusive, Acquiring
  <2>2. CASE lock # None
    <3>1. job'[p].pc = "read" /\ lock' = lock
      BY <1>6, <2>2, JobAfter DEF LockCreate, Stages, Acquiring
    <3> QED
      BY <1>0, <2>0, <3>1 DEF Exclusive, Acquiring, Holding
  <2> QED
    BY <2>1, <2>2
<1>7. CASE LockWrite(p)
  <2>1. job[p].pc = "fill" /\ job'[p].pc = "open" /\ crossed' = crossed
    BY <1>7, JobAfter DEF LockWrite, hist, Stages, Holding
  <2>2. ASSUME ~crossed
        PROVE  lock = [by |-> p, pid |-> None] /\ lock' = [by |-> p, pid |-> p]
    BY <1>7, <1>l, <2>1, <2>2 DEF LockWrite, Exclusive
  <2>3. ASSUME ~crossed, NEW q \in Procs, q # p
        PROVE  job[q].pc \notin Acquiring \cup Holding
    BY <2>1, <2>2, <2>3, InstallAssumption DEF Exclusive, Acquiring
  <2>4. job'[p].pc \notin Acquiring
    BY <2>1 DEF Acquiring
  <2>5. ASSUME ~crossed, NEW q \in Procs, job'[q].pc \in Acquiring \cup Holding
        PROVE  q = p
    BY <1>0, <2>3, <2>5
  <2>6. ASSUME ~crossed, NEW q \in Procs
        PROVE  job'[q].pc \notin Acquiring
    BY <1>0, <2>3, <2>4, <2>6
  <2> QED
    BY <2>1, <2>2, <2>5, <2>6 DEF Exclusive, Acquiring
<1>8. CASE LockWriteFails(p)
  <2>1. job[p].pc = "fill" /\ job'[p].pc = "idle" /\ crossed' = crossed
    BY <1>8, JobAfter DEF LockWriteFails, hist
  <2>2. ASSUME ~crossed, NEW q \in Procs, q # p
        PROVE  job[q].pc \notin Acquiring \cup Holding
    BY <2>1, <2>2, InstallAssumption DEF Exclusive, Acquiring
  <2>3. ASSUME ~crossed, NEW q \in Procs
        PROVE  job'[q].pc \notin Acquiring \cup Holding
    BY <1>0, <2>1, <2>2, <2>3 DEF Acquiring, Holding
  <2> QED
    BY <2>1, <2>3 DEF Exclusive, Acquiring
<1>9. CASE LockStale(p)
  <2>1. job[p].pc = "read" /\ job'[p].pc = "remove" /\ lock' = lock /\ crossed' = crossed
    BY <1>9, JobAfter DEF LockStale, hist, Stages, Acquiring
  <2>2. ASSUME ~crossed, NEW q \in Procs, job[q].pc \in Holding
        PROVE  FALSE
    <3>1. lock = [by |-> q, pid |-> q] /\ lock # None /\ lock.pid = q /\ q # None
      BY <1>l, <2>2, InstallAssumption DEF Exclusive
    <3>2. Alive(q)
      BY <2>2 DEF Alive, Holding
    <3> QED
      BY <1>9, <3>1, <3>2 DEF LockStale, Owned
  <2> QED
    BY <1>0, <2>1, <2>2 DEF Exclusive, Acquiring, Holding
<1>10. CASE LockRemove(p)
  <2>1. job[p].pc = "remove" /\ job'[p].pc \in {"idle", "create"} /\ crossed' = crossed
    BY <1>10, JobAfter DEF LockRemove, hist
  <2>2. ASSUME ~crossed, NEW q \in Procs, q # p
        PROVE  job[q].pc \notin Acquiring \cup Holding
    BY <2>1, <2>2 DEF Exclusive, Acquiring
  <2>3. ASSUME ~crossed, NEW q \in Procs
        PROVE  job'[q].pc \notin {"fill", "remove"} \cup Holding
    BY <1>0, <2>1, <2>2, <2>3 DEF Acquiring, Holding
  <2>4. ASSUME ~crossed, NEW q \in Procs, job'[q].pc \in Acquiring
        PROVE  q = p
    BY <1>0, <2>2, <2>4
  <2> QED
    BY <2>1, <2>3, <2>4 DEF Exclusive
<1>11. CASE Open(p) \/ Installed(p) \/ InstallFails(p) \/ Consume(p) \/ ConsumeFails(p)
  <2>1. Open(p) \/ Goes(p, "consume") \/ Goes(p, "release")
    BY <1>11 DEF Installed, InstallFails, Consume, ConsumeFails
  <2>2. job'[p].pc \in Holding /\ job'[p].pc \notin Acquiring /\ job[p].pc \in Holding
    <3>1. job[p].pc \in {"open", "install", "consume"}
      BY <1>11 DEF Open, Installed, InstallFails, Consume, ConsumeFails
    <3>2. job'[p].pc \in {"install", "consume", "release"}
      BY <2>1, JobAfter DEF Stages, Holding
    <3> QED
      BY <3>1, <3>2 DEF Holding, Acquiring
  <2>3. lock' = lock /\ crossed' = crossed
    BY <1>11 DEF Open, Installed, InstallFails, Consume, ConsumeFails, hist
  <2> QED
    BY <1>0, <2>2, <2>3 DEF Exclusive, Acquiring
<1>12. CASE Release(p)
  <2>1. job[p].pc \in Holding /\ job'[p].pc = "idle" /\ crossed' = crossed
    BY <1>12, JobAfter DEF Release, hist, Holding
  <2>2. ASSUME ~crossed, NEW q \in Procs, q # p
        PROVE  job[q].pc \notin Holding \cup {"fill"}
    BY <2>1, <2>2, InstallAssumption DEF Exclusive
  <2>3. ASSUME ~crossed, NEW q \in Procs
        PROVE  job'[q].pc \notin Holding \cup {"fill"}
    BY <1>0, <2>1, <2>2, <2>3 DEF Holding
  <2>4. ASSUME ~crossed, NEW q \in Procs, NEW r \in Procs,
               job'[q].pc \in Acquiring, job'[r].pc \in Acquiring
        PROVE  q = r
    BY <1>0, <2>1, <2>4 DEF Exclusive, Acquiring
  <2> QED
    BY <2>1, <2>3, <2>4 DEF Exclusive
<1> QED
  BY <1>1, <1>2, <1>3, <1>4, <1>5, <1>6, <1>7, <1>8, <1>9, <1>10, <1>11, <1>12 DEF Step

LEMMA ExclusiveOther ==
    ASSUME Typed, Exclusive, Other
    PROVE  Exclusive'
<1>1. ASSUME NEW P \in SUBSET Procs, Crash(P)
      PROVE  Exclusive'
  <2>0. \A p \in Procs : job'[p] = Idle \/ job'[p] = job[p]
    BY <1>1 DEF Crash
  <2>1. \A p \in Procs : job'[p].pc = "idle" \/ job'[p] = job[p]
    BY <2>0 DEF Idle
  <2>2. lock' = lock /\ crossed' = crossed
    BY <1>1 DEF Crash
  <2>3. \A p \in Procs : job'[p].pc \in Acquiring \cup Holding => job'[p] = job[p]
    BY <2>1 DEF Acquiring, Holding
  <2> QED
    BY <2>2, <2>3 DEF Exclusive, Acquiring
<1>2. ASSUME NEW n \in Names, NEW v \in Versions \cup {None}, Change(n, v)
      PROVE  Exclusive'
  BY <1>2 DEF Change, Exclusive
<1> QED
  BY <1>1, <1>2 DEF Other

-----------------------------------------------------------------------------
\* Selections.

LEMMA OnceStep ==
    ASSUME Typed, Numbered, Once, NEW p \in Procs, Step(p)
    PROVE  (Numbered /\ Once)'
<1> USE DEF Typed, TypeOK
<1>0. \A q \in Procs : q # p => job'[q] = job[q]
  BY JobStep
<1>j. job \in [Procs -> Valid] /\ \A q \in Procs : job[q].sel \in 0 .. MaxSelects
  BY DEF Job
<1>n. selects \in Nat /\ 0 \notin done
  BY InstallAssumption DEF Selections
\* Steps that take no new selection and mark none.
<1>c. ASSUME pending' = pending \/ pending' = None,
             UNCHANGED <<selects, done, again, excused>>,
             job'[p].sel = 0 \/ job'[p].sel = job[p].sel,
             job[p].pc \in {"consume", "release"} /\ job'[p].sel # 0 => job'[p].pc \in {"consume", "release"},
             job[p].pc = "consume" => pending' = None
      PROVE  (Numbered /\ Once)'
  <2>1. Numbered'
    BY <1>0, <1>n, <1>c DEF Numbered
  <2>2. \A q, r \in Procs :
           job'[q].sel = job'[r].sel /\ job'[q].sel # 0 /\ job'[q].sel \notin excused => q = r
    BY <1>0, <1>c DEF Once
  <2>3. \A q \in Procs : job'[q].sel \in done \ excused => job'[q].pc \in {"consume", "release"}
    BY <1>0, <1>n, <1>c DEF Once
  <2>4. pending' # None /\ pending'.sel \in done \ excused =>
           \E q \in Procs : job'[q].pc = "consume" /\ job'[q].sel = pending'.sel
    BY <1>0, <1>c DEF Once
  <2> QED
    BY <1>c, <2>1, <2>2, <2>3, <2>4 DEF Once
<1>1. ASSUME NEW n \in Names, Select(p, n)
      PROVE  (Numbered /\ Once)'
  <2>1. job[p].pc = "idle" /\ job'[p].sel = selects + 1 /\ selects' = selects + 1
    BY <1>1, JobAfter DEF Select
  <2>2. UNCHANGED <<pending, done, again, excused>>
    BY <1>1 DEF Select, hist
  <2>3. pending # None => pending.sel \in Nat
    BY InstallAssumption DEF Pending, Selections
  <2>4. Numbered'
    BY <1>0, <1>j, <1>n, <2>1, <2>2, <2>3, InstallAssumption DEF Numbered, Selections
  <2>5. selects + 1 \notin done /\ \A q \in Procs : job[q].sel # selects + 1
    BY <1>j, <1>n, InstallAssumption DEF Numbered, Selections
  <2>6. \A q, r \in Procs :
           job'[q].sel = job'[r].sel /\ job'[q].sel # 0 /\ job'[q].sel \notin excused => q = r
    BY <1>0, <2>1, <2>5 DEF Once
  <2>7. \A q \in Procs : job'[q].sel \in done \ excused => job'[q].pc \in {"consume", "release"}
    BY <1>0, <2>1, <2>5 DEF Once
  <2>8. pending # None /\ pending.sel \in done \ excused =>
           \E q \in Procs : job'[q].pc = "consume" /\ job'[q].sel = pending.sel
    BY <1>0, <2>1 DEF Once
  <2> QED
    BY <2>2, <2>4, <2>6, <2>7, <2>8 DEF Once
<1>2. CASE SelectWrite(p)
  <2>1. job[p].pc = "write" /\ job'[p].sel = 0
    BY <1>2, JobAfter DEF SelectWrite
  <2>2. pending'.sel = job[p].sel /\ UNCHANGED <<selects, done, again, excused>>
    BY <1>2 DEF SelectWrite, counts, hist
  <2>3. job[p].sel \notin done \ excused
    BY <2>1 DEF Once
  <2>4. Numbered'
    BY <1>0, <1>n, <2>1, <2>2 DEF Numbered
  <2>5. \A q, r \in Procs :
           job'[q].sel = job'[r].sel /\ job'[q].sel # 0 /\ job'[q].sel \notin excused => q = r
    BY <1>0, <2>1 DEF Once
  <2>6. \A q \in Procs : job'[q].sel \in done \ excused => job'[q].pc \in {"consume", "release"}
    BY <1>0, <1>n, <2>1 DEF Once
  <2> QED
    BY <2>2, <2>3, <2>4, <2>5, <2>6 DEF Once
<1>3. CASE Confirm(p)
  <2>1. job[p].pc = "idle" /\ pending # None /\ job'[p].sel = pending.sel
    BY <1>3, JobAfter DEF Confirm
  <2>2. UNCHANGED <<pending, selects, done, again>>
    BY <1>3 DEF Confirm, counts
  <2>3. /\ excused \subseteq excused'
        /\ \A q \in Procs : job[q].sel = pending.sel => pending.sel \in excused'
    BY <1>3 DEF Confirm
  <2>4. pending.sel \notin done \ excused'
    BY <2>1, <2>3 DEF Once
  <2>5. Numbered'
    BY <1>0, <2>1, <2>2 DEF Numbered
  <2>6. \A q, r \in Procs :
           job'[q].sel = job'[r].sel /\ job'[q].sel # 0 /\ job'[q].sel \notin excused' => q = r
    BY <1>0, <2>1, <2>3 DEF Once
  <2>7. \A q \in Procs : job'[q].sel \in done \ excused' => job'[q].pc \in {"consume", "release"}
    BY <1>0, <2>1, <2>3, <2>4 DEF Once
  <2>8. again \subseteq excused'
    BY <2>3 DEF Once
  <2> QED
    BY <2>2, <2>4, <2>5, <2>6, <2>7, <2>8 DEF Once
<1>4. CASE Installed(p)
  <2>1. job[p].pc = "install" /\ job'[p].pc = "consume" /\ job'[p].sel = job[p].sel
    BY <1>4, JobAfter DEF Installed, Stages, Holding
  <2>2. UNCHANGED <<pending, selects, excused>>
    BY <1>4 DEF Installed, counts
  <2>3. done' = done \cup {job[p].sel} /\ again' = again \cup (done \cap {job[p].sel})
    BY <1>4 DEF Installed
  <2>4. job[p].sel \notin done \ excused /\ job[p].sel # 0
    BY <1>j, <2>1 DEF Once, Valid
  <2>5. Numbered'
    BY <1>0, <2>1, <2>2, <2>3 DEF Numbered
  <2>6. \A q, r \in Procs :
           job'[q].sel = job'[r].sel /\ job'[q].sel # 0 /\ job'[q].sel \notin excused => q = r
    BY <1>0, <2>1 DEF Once
  <2>7. \A q \in Procs : job'[q].sel \in done' \ excused => job'[q].pc \in {"consume", "release"}
    BY <1>0, <2>1, <2>3, <2>4 DEF Once
  <2>8. pending # None /\ pending.sel \in done' \ excused =>
           \E q \in Procs : job'[q].pc = "consume" /\ job'[q].sel = pending.sel
    BY <1>0, <2>1, <2>3 DEF Once
  <2>9. again' \subseteq excused
    BY <2>3, <2>4 DEF Once
  <2> QED
    BY <2>2, <2>5, <2>6, <2>7, <2>8, <2>9 DEF Once
<1>5. CASE SelectHash(p) \/ LockRemove(p)
  <2>1. job[p].pc \notin {"consume", "release"} /\ UNCHANGED <<pending, selects, done, again, excused>>
    BY <1>5 DEF SelectHash, LockRemove, counts, hist
  <2>2. job'[p].sel = 0 \/ job'[p].sel = job[p].sel
    BY <1>5, JobAfter
  <2> HIDE DEF Typed, TypeOK
  <2> QED
    BY <1>c, <2>1, <2>2
<1>6. CASE Cancel(p)
  <2>1. job' = job /\ job[p].pc = "idle" /\ pending' = None /\ UNCHANGED <<selects, done, again, excused>>
    BY <1>6 DEF Cancel, counts, hist
  <2> HIDE DEF Typed, TypeOK
  <2> QED
    BY <1>c, <2>1
<1>7. CASE ConfirmFind(p) \/ ConfirmHash(p) \/ LockCreate(p) \/ LockWrite(p) \/ LockStale(p) \/ Open(p)
           \/ InstallFails(p) \/ LockWriteFails(p) \/ LockRefused(p) \/ FileFails(p)
  <2>1. job[p].pc \notin {"consume", "release"} /\ UNCHANGED <<pending, selects, done, again, excused>>
    BY <1>7 DEF ConfirmFind, ConfirmHash, LockCreate, LockWrite, LockStale, Open, InstallFails,
                LockWriteFails, LockRefused, FileFails, counts, hist
  <2>2. Open(p) \/ Exits(p) \/ \E pc \in Acquiring \cup {"verify", "open", "release"} : Goes(p, pc)
    BY <1>7 DEF ConfirmFind, ConfirmHash, LockCreate, LockWrite, LockStale, InstallFails,
                LockWriteFails, LockRefused, FileFails, Acquiring
  <2>3. job'[p].sel = 0 \/ job'[p].sel = job[p].sel
    BY <2>2, JobAfter DEF Stages, Holding
  <2> HIDE DEF Typed, TypeOK
  <2> QED
    BY <1>c, <2>1, <2>3
<1>8. CASE Consume(p) \/ Release(p) \/ ReleaseFails(p)
  <2>1. pending' = pending \/ pending' = None
    BY <1>8 DEF Consume, Release, ReleaseFails
  <2>2. job[p].pc = "consume" => pending' = None
    BY <1>8 DEF Consume, Release, ReleaseFails
  <2>3. UNCHANGED <<selects, done, again, excused>>
    BY <1>8 DEF Consume, Release, ReleaseFails, counts, hist
  <2>4. \/ job'[p].sel = 0
        \/ job'[p].sel = job[p].sel /\ job'[p].pc = "release"
    BY <1>8, JobAfter DEF Consume, Release, ReleaseFails, Stages, Holding
  <2> HIDE DEF Typed, TypeOK
  <2> QED
    BY <1>c, <2>1, <2>2, <2>3, <2>4
\* The removal fails: the selection stays and is excused.
<1>9. CASE ConsumeFails(p)
  <2>1. job[p].pc = "consume" /\ job'[p].pc = "release" /\ job'[p].sel = job[p].sel
    BY <1>9, JobAfter DEF ConsumeFails, Stages, Holding
  <2>2. UNCHANGED <<pending, selects, done, again>>
    BY <1>9 DEF ConsumeFails
  <2>3. excused \subseteq excused' /\ (job[p].sel = pending.sel => job[p].sel \in excused')
    BY <1>9 DEF ConsumeFails
  <2>4. Numbered'
    BY <1>0, <2>1, <2>2 DEF Numbered
  <2>5. \A q, r \in Procs :
           job'[q].sel = job'[r].sel /\ job'[q].sel # 0 /\ job'[q].sel \notin excused' => q = r
    BY <1>0, <2>1, <2>3 DEF Once
  <2>6. \A q \in Procs : job'[q].sel \in done \ excused' => job'[q].pc \in {"consume", "release"}
    BY <1>0, <2>1, <2>3 DEF Once
  <2>7. pending # None /\ pending.sel \in done \ excused' =>
           \E q \in Procs : job'[q].pc = "consume" /\ job'[q].sel = pending.sel
    BY <1>0, <2>3 DEF Once
  <2>8. again \subseteq excused'
    BY <2>3 DEF Once
  <2> QED
    BY <2>2, <2>4, <2>5, <2>6, <2>7, <2>8 DEF Once
<1> HIDE DEF Typed, TypeOK
<1> QED
  BY <1>1, <1>2, <1>3, <1>4, <1>5, <1>6, <1>7, <1>8, <1>9 DEF Step

LEMMA OnceOther ==
    ASSUME Typed, Numbered, Once, Other
    PROVE  (Numbered /\ Once)'
<1> USE DEF Typed, TypeOK
<1>1. ASSUME NEW P \in SUBSET Procs, Crash(P)
      PROVE  (Numbered /\ Once)'
  <2>1. \A p \in Procs : job'[p] = job[p] \/ job'[p].sel = 0
    BY <1>1 DEF Crash, Idle
  <2>2. UNCHANGED <<pending, selects, done, again>>
    BY <1>1 DEF Crash
  <2>3. /\ excused \subseteq excused'
        /\ \A p \in Procs : job[p].pc = "consume" => job'[p] = job[p] \/ job[p].sel \in excused'
    BY <1>1 DEF Crash
  <2>4. selects \in Nat /\ 0 \notin done
    BY InstallAssumption DEF Selections
  <2>5. Numbered'
    BY <2>1, <2>2, <2>4 DEF Numbered
  <2>6. \A q, r \in Procs :
           job'[q].sel = job'[r].sel /\ job'[q].sel # 0 /\ job'[q].sel \notin excused' => q = r
    BY <2>1, <2>3 DEF Once
  <2>7. \A q \in Procs : job'[q].sel \in done \ excused' => job'[q].pc \in {"consume", "release"}
    BY <2>1, <2>3, <2>4 DEF Once
  <2>8. pending # None /\ pending.sel \in done \ excused' =>
           \E q \in Procs : job'[q].pc = "consume" /\ job'[q].sel = pending.sel
    BY <2>3, <2>4 DEF Once
  <2>9. again \subseteq excused'
    BY <2>3 DEF Once
  <2> QED
    BY <2>2, <2>5, <2>6, <2>7, <2>8, <2>9 DEF Once
<1>2. ASSUME NEW n \in Names, NEW v \in Versions \cup {None}, Change(n, v)
      PROVE  (Numbered /\ Once)'
  BY <1>2 DEF Change, Numbered, Once
<1> QED
  BY <1>1, <1>2 DEF Other

-----------------------------------------------------------------------------
\* The invariant, and what follows from it.

Inv == Typed /\ Faithful /\ Exclusive /\ Honest /\ Numbered /\ Once

LEMMA Invariance == Spec => []Inv
<1>1. Init => Inv
  <2> SUFFICES ASSUME Init
               PROVE  Inv
    OBVIOUS
  <2>1. \A p \in Procs : job[p].pc = "idle" /\ job[p].sel = 0
    BY DEF Init, Idle
  <2>2. Faithful /\ Exclusive
    BY <2>1 DEF Faithful, Exclusive, Acquiring, Holding
  <2>3. Honest /\ Numbered /\ Once
    BY <2>1, InstallAssumption DEF Init, Honest, Numbered, Once
  <2> QED
    BY <2>2, <2>3, TypeInit DEF Inv
<1>2. ASSUME Inv, NEW p \in Procs, Step(p)
      PROVE  Inv'
  BY <1>2, TypeStep, FaithfulStep, ExclusiveStep, HonestStep, OnceStep DEF Inv
<1>3. ASSUME Inv, Other
      PROVE  Inv'
  BY <1>3, OtherTypes, FaithfulOther, ExclusiveOther, HonestOther, OnceOther DEF Inv
<1>4. ASSUME Inv, UNCHANGED vars
      PROVE  Inv'
  <2>1. Typed'
    BY <1>4 DEF Inv, vars, Typed, TypeOK
  <2>2. Faithful' /\ Exclusive' /\ Honest' /\ Numbered' /\ Once'
    BY <1>4 DEF Inv, vars, Faithful, Exclusive, Honest, Numbered, Once
  <2> QED
    BY <2>1, <2>2 DEF Inv
<1>5. Next => (\E p \in Procs : Step(p)) \/ Other
  BY DEF Next, Other
<1>6. Inv /\ [Next]_vars => Inv'
  BY <1>2, <1>3, <1>4, <1>5
<1> QED
  BY <1>1, <1>6, PTL DEF Spec

\* Every reachable state of install-zip is well typed.
THEOREM TypeCorrect == Spec => []TypeOK
BY Invariance, PTL DEF Inv, Typed

\* What is installed is what was hashed when it was selected, unless the file
\* changed between the hash of the confirmation and the opening.
THEOREM SelectionIsInstalled == Spec => []InstalledAsSelected
<1>1. Inv => InstalledAsSelected
  BY DEF Inv, Faithful, InstalledAsSelected
<1> QED
  BY Invariance, <1>1, PTL

\* One process installs at a time, unless two were acquiring the lock at once,
\* whatever locks dead processes have left.
THEOREM OneInstallerAtATime == Spec => []OneInstaller
<1>1. Inv => OneInstaller
  <2> SUFFICES ASSUME Inv, ~crossed, NEW p \in Procs, NEW q \in Procs,
                      job[p].pc \in Holding, job[q].pc \in Holding
               PROVE  p = q
    BY DEF OneInstaller
  <2>1. lock = [by |-> p, pid |-> p] /\ lock = [by |-> q, pid |-> q]
    BY DEF Inv, Exclusive
  <2> QED
    BY <2>1
<1> QED
  BY Invariance, <1>1, PTL

\* No selection is installed twice, unless two processes confirmed it at once,
\* the one that installed it was killed before it could remove it from the file,
\* or the removal failed.
THEOREM SelectionsInstallOnce == Spec => []InstalledOnce
<1>1. Inv => InstalledOnce
  BY DEF Inv, Once, InstalledOnce
<1> QED
  BY Invariance, <1>1, PTL

\* Nobody is refused for a process that no longer installs, unless that one
\* was killed or could not remove the file, and its pid is in use again.
THEOREM RefusalsAreTrue == Spec => []RefusedRightly
<1>1. Inv => RefusedRightly
  BY DEF Inv, Honest, RefusedRightly
<1> QED
  BY Invariance, <1>1, PTL
=============================================================================
