------------------------------ MODULE ZipInstall ------------------------------
(***************************************************************************)
(* InstallZIPToRoot of internal/app/installer.go: the space check of the   *)
(* preflight, the loop that backs up, writes and renames one entry after   *)
(* the other, and the rollback.  Entries, sizes and the tree before are    *)
(* chosen in the initial state.  Names are out of the model: the entries   *)
(* are those that passed the path rules.  Sizes are counted in units of    *)
(* file data; directories and metadata take none.  A temporary file that   *)
(* could not be completed is removed, and removing it does not fail.       *)
(***************************************************************************)
EXTENDS Integers, Sequences

CONSTANTS
    N,         \* number of file entries, in archive order
    Sizes,     \* file sizes
    MaxInt,    \* 2^63 - 1
    Reserve,   \* InstallFreeReserve
    MaxFree,   \* bound: free space to begin with
    Dirs,      \* directories below the destination
    Above,     \* Above[x]: the directories above file or directory x
    DirList,   \* directory entries of the archive
    IOErrors,  \* TRUE: any system call may fail
    Absent,    \* no such file
    None       \* no temporary file

Files == 1 .. N

ASSUME InstallAssumption ==
    /\ N \in Nat
    /\ MaxInt \in Nat /\ Reserve \in 0 .. MaxInt /\ MaxFree \in Nat
    /\ Sizes \subseteq 0 .. MaxInt
    /\ Above \in [Files \cup Dirs -> SUBSET Dirs]
    /\ \A d \in Dirs : d \notin Above[d]
    /\ DirList \in Seq(Dirs)
    /\ IOErrors \in BOOLEAN
    /\ Absent \notin Nat
    /\ None \notin Files

\* What is above a directory is above what is in it.
ASSUME NestingAssumption ==
    \A x \in Files \cup Dirs : \A d \in Above[x] : Above[d] \subseteq Above[x]

VARIABLES
    pc,         \* where the installer is
    at,         \* the entry it is at
    old,        \* old[f]: size of the file before, or Absent
    new,        \* new[f]: size of the entry
    had,        \* the directories before
    total,      \* preflight: sum of the sizes of the entries
    maxOld,     \* preflight: maxExisting
    tree,       \* tree[f]: "old" as before, "new" as in the archive
    backup,     \* the files with a whole copy under backupRoot
    tmp,        \* the entry that has a temporary file beside its target
    dirs,       \* the directories now
    created,    \* createdDirs
    stuck,      \* history: the directories the rollback failed to remove
    unrestored, \* the files rollbackInstall lists in its error
    free,       \* free space
    taken       \* space other programs took since the check

inputs == <<old, new, had>>
checked == <<total, maxOld>>
disk == <<tree, backup, tmp, free>>
folders == <<dirs, created, stuck>>
vars == <<pc, at, inputs, checked, disk, folders, unrestored, taken>>

Terminal == {"refused", "installed", "restored", "incomplete", "crashed"}
Working == {"dirs", "file", "backup", "write", "rename", "clean",
            "undo", "undoRename", "undoDirs", "undoClean"}

Existed(f) == old[f] # Absent
OldSize(f) == IF Existed(f) THEN old[f] ELSE 0

TypeOK ==
    /\ pc \in {"scan"} \cup Working \cup Terminal
    /\ at \in Nat
    /\ old \in [Files -> Sizes \cup {Absent}]
    /\ new \in [Files -> Sizes]
    /\ had \subseteq Dirs
    /\ total \in 0 .. MaxInt
    /\ maxOld \in 0 .. MaxInt
    /\ tree \in [Files -> {"old", "new"}]
    /\ backup \subseteq Files
    /\ tmp \in Files \cup {None}
    /\ dirs \subseteq Dirs
    /\ created \in Seq(Dirs)
    /\ stuck \subseteq Dirs
    /\ unrestored \subseteq Files
    /\ free \in Nat
    /\ taken \in 0 .. Reserve

Init ==
    /\ pc = "scan" /\ at = 1
    /\ old \in [Files -> Sizes \cup {Absent}]
    /\ new \in [Files -> Sizes]
    /\ had \in SUBSET Dirs
    /\ \A d \in had : Above[d] \subseteq had
    /\ \A f \in Files : Existed(f) => Above[f] \subseteq had
    /\ total = 0 /\ maxOld = 0
    /\ tree = [f \in Files |-> "old"]
    /\ backup = {} /\ tmp = None
    /\ dirs = had /\ created = <<>> /\ stuck = {}
    /\ unrestored = {}
    /\ free \in 0 .. MaxFree /\ taken = 0

Goto(l, i) == pc' = l /\ at' = i

-----------------------------------------------------------------------------
(* preflightInstallZIP and the space check.                                 *)

Scan ==
    /\ pc = "scan" /\ at <= N
    /\ IF total > MaxInt - new[at]
         THEN Goto("refused", at) /\ UNCHANGED checked
         ELSE /\ total' = total + new[at]
              /\ maxOld' = IF OldSize(at) > maxOld THEN OldSize(at) ELSE maxOld
              /\ Goto("scan", at + 1)
    /\ UNCHANGED <<inputs, disk, folders, unrestored, taken>>

\* Signed 64-bit addition of three numbers that are not negative.
Wrap(n) == IF n > MaxInt THEN n - 2 * (MaxInt + 1) ELSE n

\* Mutant: the backup of the file being replaced is not counted.
MutantNeed == Wrap(total + Reserve)

Need == Wrap(total + maxOld + Reserve)

Enough == Need >= total /\ free >= Need

Check ==
    /\ pc = "scan" /\ at > N
    /\ \/ Enough /\ Goto("dirs", 1)
       \/ (~Enough \/ IOErrors) /\ Goto("refused", at)
    /\ UNCHANGED <<inputs, checked, disk, folders, unrestored, taken>>

-----------------------------------------------------------------------------
(* The forward loop.                                                        *)

\* ensureDirs makes the missing directories from the top down.
MakeDir(wanted) ==
    \E d \in wanted \ dirs :
        /\ Above[d] \subseteq dirs
        /\ dirs' = dirs \cup {d}
        /\ created' = Append(created, d)
        /\ UNCHANGED stuck

MakeDirEntry ==
    /\ pc = "dirs" /\ at <= Len(DirList)
    /\ LET wanted == {DirList[at]} \cup Above[DirList[at]] IN
       IF wanted \subseteq dirs
         THEN Goto("dirs", at + 1) /\ UNCHANGED folders
         ELSE MakeDir(wanted) /\ Goto("dirs", at)
    /\ UNCHANGED <<inputs, checked, disk, unrestored, taken>>

DirEntriesDone ==
    /\ pc = "dirs" /\ at > Len(DirList)
    /\ Goto("file", 1)
    /\ UNCHANGED <<inputs, checked, disk, folders, unrestored, taken>>

\* Mutant: an existing target is replaced without a backup.
MutantBeginFile ==
    /\ pc = "file" /\ at <= N
    /\ IF Above[at] \subseteq dirs
         THEN Goto("write", at) /\ UNCHANGED folders
         ELSE MakeDir(Above[at]) /\ Goto("file", at)
    /\ UNCHANGED <<inputs, checked, disk, unrestored, taken>>

BeginFile ==
    /\ pc = "file" /\ at <= N
    /\ IF Above[at] \subseteq dirs
         THEN Goto(IF Existed(at) THEN "backup" ELSE "write", at) /\ UNCHANGED folders
         ELSE MakeDir(Above[at]) /\ Goto("file", at)
    /\ UNCHANGED <<inputs, checked, disk, unrestored, taken>>

FilesDone ==
    /\ pc = "file" /\ at > N
    /\ Goto("clean", at)
    /\ UNCHANGED <<inputs, checked, disk, folders, unrestored, taken>>

\* Mutant: a full disk goes unnoticed.
MutantFits(n) == TRUE

Fits(n) == n <= free

\* copyExact(e.target, a.backup), synced before it counts.
Backup ==
    /\ pc = "backup"
    /\ Fits(old[at])
    /\ backup' = backup \cup {at}
    /\ free' = free - old[at]
    /\ Goto("write", at)
    /\ UNCHANGED <<inputs, checked, tree, tmp, folders, unrestored, taken>>

\* The temporary file of writeEntryAtomic, complete and synced.
Write ==
    /\ pc = "write"
    /\ Fits(new[at])
    /\ tmp' = at
    /\ free' = free - new[at]
    /\ Goto("rename", at)
    /\ UNCHANGED <<inputs, checked, tree, backup, folders, unrestored, taken>>

Rename ==
    /\ pc = "rename"
    /\ tree' = [tree EXCEPT ![at] = "new"]
    /\ tmp' = None
    /\ free' = free + OldSize(at)
    /\ Goto("file", at + 1)
    /\ UNCHANGED <<inputs, checked, backup, folders, unrestored, taken>>

\* A directory or a backup that cannot be made, for lack of space or
\* because a call fails, and an entry with a wrong size or CRC.
Fail ==
    /\ \/ pc = "dirs" /\ at <= Len(DirList) /\ IOErrors
       \/ pc = "file" /\ at <= N /\ IOErrors
       \/ pc = "backup" /\ (IOErrors \/ ~Fits(old[at]))
       \/ pc = "write"
    /\ Goto("undo", IF pc = "dirs" THEN 0 ELSE at - 1)
    /\ UNCHANGED <<inputs, checked, disk, folders, unrestored, taken>>

\* Mutant: the temporary file stays.
MutantRenameFails ==
    /\ pc = "rename" /\ IOErrors
    /\ Goto("undo", at - 1)
    /\ UNCHANGED <<inputs, checked, disk, folders, unrestored, taken>>

RenameFails ==
    /\ pc = "rename" /\ IOErrors
    /\ tmp' = None
    /\ free' = free + new[at]
    /\ Goto("undo", at - 1)
    /\ UNCHANGED <<inputs, checked, tree, backup, folders, unrestored, taken>>

\* RemoveAll(backupRoot), file by file; an error is only logged.
RemoveBackup ==
    /\ pc \in {"clean", "undoClean"}
    /\ \E f \in backup : backup' = backup \ {f} /\ free' = free + old[f]
    /\ UNCHANGED <<pc, at, inputs, checked, tree, tmp, folders, unrestored, taken>>

End ==
    /\ pc \in {"clean", "undoClean"}
    /\ backup = {} \/ IOErrors
    /\ Goto(IF pc = "clean" THEN "installed" ELSE "restored", at)
    /\ UNCHANGED <<inputs, checked, disk, folders, unrestored, taken>>

-----------------------------------------------------------------------------
(* rollbackInstall: the applied files from the last to the first, then the  *)
(* directories; an error is noted and the next file taken.                  *)

UndoCreated ==
    /\ pc = "undo" /\ at >= 1 /\ ~Existed(at)
    /\ tree' = [tree EXCEPT ![at] = "old"]
    /\ free' = free + new[at]
    /\ Goto("undo", at - 1)
    /\ UNCHANGED <<inputs, checked, backup, tmp, folders, unrestored, taken>>

UndoCopy ==
    /\ pc = "undo" /\ at >= 1 /\ Existed(at)
    /\ Fits(old[at])
    /\ tmp' = at
    /\ free' = free - old[at]
    /\ Goto("undoRename", at)
    /\ UNCHANGED <<inputs, checked, tree, backup, folders, unrestored, taken>>

UndoRename ==
    /\ pc = "undoRename"
    /\ tree' = [tree EXCEPT ![at] = "old"]
    /\ tmp' = None
    /\ free' = free + new[at]
    /\ Goto("undo", at - 1)
    /\ UNCHANGED <<inputs, checked, backup, folders, unrestored, taken>>

UndoFails ==
    /\ pc = "undo" /\ at >= 1
    /\ IOErrors \/ (Existed(at) /\ ~Fits(old[at]))
    /\ unrestored' = unrestored \cup {at}
    /\ Goto("undo", at - 1)
    /\ UNCHANGED <<inputs, checked, disk, folders, taken>>

UndoRenameFails ==
    /\ pc = "undoRename" /\ IOErrors
    /\ unrestored' = unrestored \cup {at}
    /\ tmp' = None
    /\ free' = free + old[at]
    /\ Goto("undo", at - 1)
    /\ UNCHANGED <<inputs, checked, tree, backup, folders, taken>>

UndoFilesDone ==
    /\ pc = "undo" /\ at = 0
    /\ Goto("undoDirs", at)
    /\ UNCHANGED <<inputs, checked, disk, folders, unrestored, taken>>

\* os.Remove of a directory does nothing while something is in it.
EmptyDir(d) ==
    /\ \A e \in dirs : d \notin Above[e]
    /\ \A f \in Files : d \in Above[f] => ~Existed(f) /\ tree[f] = "old" /\ tmp # f

\* An error of os.Remove is ignored.
RemoveDir(d) ==
    \/ dirs' = (IF EmptyDir(d) THEN dirs \ {d} ELSE dirs) /\ UNCHANGED stuck
    \/ IOErrors /\ stuck' = stuck \cup {d} /\ UNCHANGED dirs

\* Mutant: the directories go in the order they were made.
MutantUndoDir ==
    /\ pc = "undoDirs" /\ created # <<>>
    /\ RemoveDir(Head(created))
    /\ created' = Tail(created)
    /\ UNCHANGED <<pc, at, inputs, checked, disk, unrestored, taken>>

UndoDir ==
    /\ pc = "undoDirs" /\ created # <<>>
    /\ RemoveDir(created[Len(created)])
    /\ created' = SubSeq(created, 1, Len(created) - 1)
    /\ UNCHANGED <<pc, at, inputs, checked, disk, unrestored, taken>>

\* Mutant: the backups go although a file was not restored.
MutantUndoDirsDone ==
    /\ pc = "undoDirs" /\ created = <<>>
    /\ Goto("undoClean", at)
    /\ UNCHANGED <<inputs, checked, disk, folders, unrestored, taken>>

UndoDirsDone ==
    /\ pc = "undoDirs" /\ created = <<>>
    /\ Goto(IF unrestored = {} THEN "undoClean" ELSE "incomplete", at)
    /\ UNCHANGED <<inputs, checked, disk, folders, unrestored, taken>>

-----------------------------------------------------------------------------

\* The daemon receives, or KOReader writes, while the installation runs.
Others ==
    /\ pc \in Working
    /\ taken < Reserve /\ free > 0
    /\ taken' = taken + 1
    /\ free' = free - 1
    /\ UNCHANGED <<pc, at, inputs, checked, tree, backup, tmp, folders, unrestored>>

\* Power loss, or a kill.
Crash ==
    /\ pc \in Working
    /\ Goto("crashed", at)
    /\ UNCHANGED <<inputs, checked, disk, folders, unrestored, taken>>

Forward ==
    \/ Scan \/ Check \/ MakeDirEntry \/ DirEntriesDone
    \/ BeginFile \/ Backup \/ Write \/ Rename \/ FilesDone
    \/ Fail \/ RenameFails

Rollback ==
    \/ UndoCreated \/ UndoCopy \/ UndoRename \/ UndoFails \/ UndoRenameFails
    \/ UndoFilesDone \/ UndoDir \/ UndoDirsDone

Next == Forward \/ Rollback \/ RemoveBackup \/ End \/ Others \/ Crash

Spec == Init /\ [][Next]_vars

-----------------------------------------------------------------------------
(* Properties.                                                              *)

\* The installer implements the transaction it promises.
Promise == INSTANCE InstallPromise
    WITH present <- {f \in Files : Existed(f)},
         saved   <- backup,
         outcome <- IF pc \in Terminal THEN pc ELSE "none"

KeepsPromise == Promise!Spec

\* At every instant, so also where a crash leaves it for good, either the
\* update is complete or each replaced file has a whole copy in the backup.
Recoverable ==
    \/ \A f \in Files : tree[f] = "new"
    \/ \A f \in Files : tree[f] = "new" /\ Existed(f) => f \in backup

\* "installed and rolled back" means it: the files, no temporary file and no
\* directory more than before, but for the directories that could not be
\* removed, which nothing reports, and those they are in.
Left == stuck \cup UNION {Above[d] : d \in stuck}

RollbackExact ==
    pc = "restored" =>
        /\ had \subseteq dirs /\ dirs \subseteq had \cup Left
        /\ tmp = None
        /\ \A f \in Files : tree[f] = "old"

\* A success is a complete one.
InstallExact ==
    pc = "installed" =>
        /\ tmp = None /\ unrestored = {}
        /\ \A f \in Files : tree[f] = "new" /\ Above[f] \subseteq dirs
        /\ \A i \in 1 .. Len(DirList) : DirList[i] \in dirs

\* Once the space check has passed the disk never fills up on the way
\* forward, though the backups of all replaced files are on it at the end:
\* the estimate counts one of them only.
InstallFits ==
    /\ pc = "backup" => Fits(old[at])
    /\ pc = "write" => Fits(new[at])

\* Nor on the way back, if no entry is smaller than the file it replaces.
GrowingRollbackFits ==
    (\A f \in Files : OldSize(f) <= new[f]) =>
        (pc = "undo" /\ at >= 1 /\ Existed(at) => Fits(old[at]))

\* The README's promise: whatever entry fails, the applied files are
\* restored.  (Checked without I/O errors of the rollback itself.)
RollbackCompletes == pc # "incomplete"
=============================================================================
