----------------------------- MODULE InstallSelect -----------------------------
(***************************************************************************)
(* From a received ZIP to its installation (internal/app/installer.go):    *)
(* every menu action runs install-zip as a process of its own, which meets *)
(* the others only in files: the ZIPs of the receive directory, which the  *)
(* daemon and the user change meanwhile, state/pending-install.json and    *)
(* state/install.lock.  ZipInstall has what InstallZIPToRoot does.         *)
(*                                                                         *)
(* A version stands for the bytes of a ZIP and for their SHA-256; its      *)
(* stamp, size and modification time, may be that of another version.      *)
(***************************************************************************)
EXTENDS Naturals, FiniteSets

CONSTANTS
    Procs,       \* processes of install-zip, by pid
    Names,       \* names in the receive directory
    Versions,    \* contents of a ZIP
    Stamps,
    StampOf,     \* StampOf[v]: size and modification time of version v
    MaxSelects,  \* bound: selections made
    MaxChanges,  \* bound: changes of the receive directory
    MaxFaults,   \* bound: processes killed, and removals that fail
    None

Lock == [by : Procs, pid : Procs \cup {None}]

ASSUME InstallAssumption ==
    /\ StampOf \in [Versions -> Stamps]
    /\ MaxSelects \in Nat /\ MaxChanges \in Nat /\ MaxFaults \in Nat
    /\ None \notin Procs \cup Names \cup Versions \cup Stamps \cup Lock

VARIABLES
    job,      \* job[p]: what process p is doing
    zips,     \* zips[n]: the ZIP received under name n
    pending,  \* pending-install.json
    lock,     \* install.lock: who created it, and the pid in it, None at first
    selects, changes, faults,
    done,     \* history: selections installed
    again,    \* history: selections installed a second time
    excused,  \* history: selections confirmed by two processes at once, or
              \* left in the file although they were installed
    swapped,  \* history: processes whose ZIP changed after it was verified
    crossed,  \* history: two processes were acquiring the lock at once
    left,     \* history: processes that ended without releasing the lock,
              \* whose pids are free for others
    wrong     \* history: one was refused for a process that installs nothing

counts == <<selects, changes, faults>>
hist == <<done, again, excused, swapped, crossed, left, wrong>>
vars == <<job, zips, pending, lock, selects, changes, faults,
          done, again, excused, swapped, crossed, left, wrong>>

Selections == 1 .. MaxSelects

Acquiring == {"create", "fill", "read", "remove"}
Holding == {"open", "install", "consume", "release"}
Stages == {"idle", "hash", "write", "find", "verify"} \cup Acquiring \cup Holding

Idle == [pc |-> "idle", name |-> None, stamp |-> None, sha |-> None, sel |-> 0,
         got |-> None, try |-> 1]

Job == [pc : Stages, name : Names \cup {None}, stamp : Stamps \cup {None},
        sha : Versions \cup {None}, sel : 0 .. MaxSelects,
        got : Versions \cup {None}, try : 1 .. 2]

Pending == [name : Names, stamp : Stamps, sha : Versions, sel : Selections]

TypeOK ==
    /\ job \in [Procs -> Job]
    /\ zips \in [Names -> Versions \cup {None}]
    /\ pending \in Pending \cup {None}
    /\ lock \in Lock \cup {None}
    /\ selects \in 0 .. MaxSelects /\ changes \in 0 .. MaxChanges
    /\ faults \in 0 .. MaxFaults
    /\ done \subseteq Selections /\ again \subseteq Selections /\ excused \subseteq Selections
    /\ swapped \subseteq Procs /\ left \subseteq Procs
    /\ crossed \in BOOLEAN /\ wrong \in BOOLEAN

Init ==
    /\ job = [p \in Procs |-> Idle]
    /\ zips \in [Names -> Versions \cup {None}]
    /\ pending = None /\ lock = None
    /\ selects = 0 /\ changes = 0 /\ faults = 0
    /\ done = {} /\ again = {} /\ excused = {}
    /\ swapped = {} /\ left = {}
    /\ crossed = FALSE /\ wrong = FALSE

Exits(p) == job' = [job EXCEPT ![p] = Idle]

Goes(p, pc) == job' = [job EXCEPT ![p].pc = pc]

\* A kill, or an os.Remove that fails and is not looked at.
Fault == faults < MaxFaults /\ faults' = faults + 1

-----------------------------------------------------------------------------
\* --select: FindInstallZIPByToken, then the hash, then the file.

Select(p, n) ==
    /\ job[p].pc = "idle" /\ zips[n] # None /\ selects < MaxSelects
    /\ selects' = selects + 1
    /\ job' = [job EXCEPT ![p] = [Idle EXCEPT !.pc = "hash", !.name = n,
                                    !.stamp = StampOf[zips[n]], !.sel = selects + 1]]
    /\ UNCHANGED <<zips, pending, lock, changes, faults, hist>>

SelectHash(p) ==
    /\ job[p].pc = "hash"
    /\ IF zips[job[p].name] = None THEN Exits(p)
       ELSE job' = [job EXCEPT ![p] = [@ EXCEPT !.pc = "write", !.sha = zips[job[p].name]]]
    /\ UNCHANGED <<zips, pending, lock, counts, hist>>

SelectWrite(p) ==
    /\ job[p].pc = "write"
    /\ pending' = [name |-> job[p].name, stamp |-> job[p].stamp, sha |-> job[p].sha,
                   sel |-> job[p].sel]
    /\ Exits(p)
    /\ UNCHANGED <<zips, lock, counts, hist>>

\* A file cannot be read or written: the command ends with an error.
FileFails(p) ==
    /\ job[p].pc \in {"hash", "write", "find", "verify"}
    /\ Exits(p)
    /\ UNCHANGED <<zips, pending, lock, counts, hist>>

\* --cancel.
Cancel(p) ==
    /\ job[p].pc = "idle"
    /\ pending' = None
    /\ UNCHANGED <<job, zips, lock, counts, hist>>

-----------------------------------------------------------------------------
\* --confirm: PendingInstallZIP.

Confirm(p) ==
    /\ job[p].pc = "idle" /\ pending # None
    /\ job' = [job EXCEPT ![p] = [Idle EXCEPT !.pc = "find", !.name = pending.name,
                  !.stamp = pending.stamp, !.sha = pending.sha, !.sel = pending.sel]]
    /\ excused' = IF \E q \in Procs : job[q].sel = pending.sel
                  THEN excused \cup {pending.sel} ELSE excused
    /\ UNCHANGED <<zips, pending, lock, counts, done, again, swapped, crossed, left, wrong>>

ConfirmFind(p) ==
    LET z == zips[job[p].name] IN
    /\ job[p].pc = "find"
    /\ IF z # None /\ StampOf[z] = job[p].stamp THEN Goes(p, "verify") ELSE Exits(p)
    /\ UNCHANGED <<zips, pending, lock, counts, hist>>

\* Mutant: size and time are enough.
MutantVerified(p) == zips[job[p].name] # None

Verified(p) == zips[job[p].name] = job[p].sha

ConfirmHash(p) ==
    /\ job[p].pc = "verify"
    /\ IF Verified(p) THEN Goes(p, "create") ELSE Exits(p)
    /\ swapped' = swapped \ {p}
    /\ crossed' = (crossed \/ (Verified(p) /\ \E q \in Procs : job[q].pc \in Acquiring))
    /\ UNCHANGED <<zips, pending, lock, counts, done, again, excused, left, wrong>>

-----------------------------------------------------------------------------
\* AcquireInstallLock.

LockCreate(p) ==
    /\ job[p].pc = "create"
    /\ IF lock = None THEN lock' = [by |-> p, pid |-> None] /\ Goes(p, "fill")
       ELSE Goes(p, "read") /\ UNCHANGED lock
    /\ UNCHANGED <<zips, pending, counts, hist>>

\* The file written to may have lost its name meanwhile.
LockWrite(p) ==
    /\ job[p].pc = "fill"
    /\ lock' = IF lock # None /\ lock.by = p THEN [lock EXCEPT !.pid = p] ELSE lock
    /\ Goes(p, "open")
    /\ UNCHANGED <<zips, pending, counts, hist>>

LockWriteFails(p) ==
    /\ job[p].pc = "fill"
    /\ lock' = None
    /\ Exits(p)
    /\ UNCHANGED <<zips, pending, counts, hist>>

\* Mutant: the process named by the lock is taken for dead.
MutantAlive(p) == FALSE

\* processExists.
Alive(p) == job[p].pc # "idle"

Owned(p) == lock # None /\ lock.pid # None /\ (lock.pid = p \/ Alive(lock.pid))

LockRefused(p) ==
    /\ job[p].pc = "read" /\ Owned(p)
    /\ Exits(p)
    /\ wrong' = (wrong \/ (job[lock.pid].pc \notin Holding /\ lock.pid \notin left))
    /\ UNCHANGED <<zips, pending, lock, counts, done, again, excused, swapped, crossed, left>>

LockStale(p) ==
    /\ job[p].pc = "read" /\ ~Owned(p)
    /\ Goes(p, "remove")
    /\ UNCHANGED <<zips, pending, lock, counts, hist>>

\* Whatever file has the name by now goes, unless os.Remove fails, which
\* nobody looks at; the second time p gives up.
LockRemove(p) ==
    /\ job[p].pc = "remove"
    /\ \/ lock' = None /\ UNCHANGED faults
       \/ Fault /\ UNCHANGED lock
    /\ IF job[p].try = 1 THEN job' = [job EXCEPT ![p] = [@ EXCEPT !.pc = "create", !.try = 2]]
       ELSE Exits(p)
    /\ UNCHANGED <<zips, pending, selects, changes, hist>>

-----------------------------------------------------------------------------
\* ConfirmInstallZIP with the lock.

\* InstallZIPToRoot opens the path again.
Open(p) ==
    /\ job[p].pc = "open"
    /\ IF zips[job[p].name] = None THEN Goes(p, "release")
       ELSE job' = [job EXCEPT ![p] = [@ EXCEPT !.pc = "install", !.got = zips[job[p].name]]]
    /\ UNCHANGED <<zips, pending, lock, counts, hist>>

Installed(p) ==
    /\ job[p].pc = "install"
    /\ Goes(p, "consume")
    /\ done' = done \cup {job[p].sel}
    /\ again' = again \cup (done \cap {job[p].sel})
    /\ UNCHANGED <<zips, pending, lock, counts, excused, swapped, crossed, left, wrong>>

\* Mutant: the lock is released after a success only.
MutantInstallFails(p) ==
    /\ job[p].pc = "install"
    /\ Exits(p)
    /\ UNCHANGED <<zips, pending, lock, counts, hist>>

InstallFails(p) ==
    /\ job[p].pc = "install"
    /\ Goes(p, "release")
    /\ UNCHANGED <<zips, pending, lock, counts, hist>>

\* Mutant: the selection stays.
MutantConsume(p) ==
    /\ job[p].pc = "consume"
    /\ Goes(p, "release")
    /\ UNCHANGED <<zips, pending, lock, counts, hist>>

\* CancelInstallZIP, whichever selection is there by now.
Consume(p) ==
    /\ job[p].pc = "consume"
    /\ pending' = None
    /\ Goes(p, "release")
    /\ UNCHANGED <<zips, lock, counts, hist>>

\* Its error is dropped: the installation is reported, and the selection
\* stays if it is still the one installed.
ConsumeFails(p) ==
    /\ job[p].pc = "consume" /\ pending # None
    /\ Fault
    /\ Goes(p, "release")
    /\ excused' = excused \cup ({job[p].sel} \cap {pending.sel})
    /\ UNCHANGED <<zips, pending, lock, selects, changes, done, again, swapped, crossed, left, wrong>>

Release(p) ==
    /\ job[p].pc = "release"
    /\ lock' = IF lock # None /\ lock.pid = p THEN None ELSE lock
    /\ Exits(p)
    /\ UNCHANGED <<zips, pending, counts, hist>>

\* The file is not removed, and nobody looks at the error.
ReleaseFails(p) ==
    /\ job[p].pc = "release" /\ lock # None /\ lock.pid = p
    /\ Fault
    /\ Exits(p)
    /\ left' = left \cup {p}
    /\ UNCHANGED <<zips, pending, lock, selects, changes, done, again, excused, swapped, crossed, wrong>>

-----------------------------------------------------------------------------
\* The process is killed, or the device loses power and all are.

Crash(P) ==
    /\ Fault
    /\ job' = [p \in Procs |-> IF p \in P THEN Idle ELSE job[p]]
    /\ left' = left \cup P
    /\ excused' = excused \cup {job[p].sel : p \in {q \in P : job[q].pc = "consume"}}
    /\ UNCHANGED <<zips, pending, lock, selects, changes, done, again, swapped, crossed, wrong>>

\* A ZIP arrives, is replaced or deleted.
Change(n, v) ==
    /\ changes < MaxChanges /\ v # zips[n]
    /\ changes' = changes + 1
    /\ zips' = [zips EXCEPT ![n] = v]
    /\ swapped' = swapped \cup {p \in Procs : job[p].name = n /\ job[p].pc \in Acquiring \cup Holding}
    /\ UNCHANGED <<job, pending, lock, selects, faults, done, again, excused, crossed, left, wrong>>

Step(p) ==
    \/ \E n \in Names : Select(p, n)
    \/ SelectHash(p) \/ SelectWrite(p) \/ FileFails(p) \/ Cancel(p)
    \/ Confirm(p) \/ ConfirmFind(p) \/ ConfirmHash(p)
    \/ LockCreate(p) \/ LockWrite(p) \/ LockWriteFails(p)
    \/ LockRefused(p) \/ LockStale(p) \/ LockRemove(p)
    \/ Open(p) \/ Installed(p) \/ InstallFails(p)
    \/ Consume(p) \/ ConsumeFails(p) \/ Release(p) \/ ReleaseFails(p)

Next ==
    \/ \E p \in Procs : Step(p) \/ Crash({p})
    \/ Crash(Procs)
    \/ \E n \in Names, v \in Versions \cup {None} : Change(n, v)

Spec == Init /\ [][Next]_vars

-----------------------------------------------------------------------------
\* What is installed is what was hashed when it was selected, however often
\* the receive directory changed in between and even if the new ZIP has the
\* size and the time of the old one; only a change in the moment between the
\* hash of the confirmation and the opening of the archive goes unseen.
InstalledAsSelected ==
    \A p \in Procs : job[p].pc = "install" /\ p \notin swapped => job[p].got = job[p].sha

\* Two processes install at once only if they were in AcquireInstallLock at
\* once: a lock left by a dead process, or one given up, lets one in.
OneInstaller ==
    ~crossed => \A p, q \in Procs : job[p].pc \in Holding /\ job[q].pc \in Holding => p = q

\* A selection is installed once.  It is installed again only if two processes
\* confirmed it at the same time (both verify it before either has the lock),
\* if the one that installed it was killed before it could remove it from the
\* file, or if that removal failed: not because of any other kill, failure,
\* cancellation or new selection in between.
InstalledOnce == again \subseteq excused

\* "ZIP installer already running with pid n" is true, unless n was killed or
\* could not remove the file, and another process has its pid: every other
\* way out releases the lock.
RefusedRightly == ~wrong
=============================================================================
