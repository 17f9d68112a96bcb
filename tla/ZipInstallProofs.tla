--------------------------- MODULE ZipInstallProofs ---------------------------
(***************************************************************************)
(* Theorems about the installer, for every archive, tree and disk.         *)
(***************************************************************************)
EXTENDS ZipInstall, TLAPS

\* The first n elements of a sequence.
LEMMA FirstOf ==
    ASSUME NEW S, NEW s \in Seq(S), NEW n \in Nat, n <= Len(s)
    PROVE  /\ Len(SubSeq(s, 1, n)) = n
           /\ \A i \in 1 .. n : SubSeq(s, 1, n)[i] = s[i]
<1>1. Len(SubSeq(s, 1, n)) = n
  OBVIOUS
<1>2. \A i \in 1 .. n : SubSeq(s, 1, n)[i] = s[i]
  OBVIOUS
<1> QED  BY <1>1, <1>2

USE InstallAssumption DEF Files, inputs, checked, disk, folders, Goto, Existed, OldSize

-----------------------------------------------------------------------------
(* Where the installer can be, and the types.                               *)

Position ==
    /\ pc = "scan" => at \in 1 .. N + 1
    /\ pc = "dirs" => at \in Nat \ {0}
    /\ pc = "file" => at \in 1 .. N + 1
    /\ pc \in {"backup", "write", "rename", "undoRename"} => at \in Files
    /\ pc \in {"backup", "undoRename"} => Existed(at)
    /\ pc = "undo" => at \in 0 .. N
    /\ \A f \in backup : Existed(f)

TypeInv == TypeOK /\ Position

LEMMA SizesAreNatural ==
    ASSUME TypeOK, NEW f \in Files
    PROVE  /\ new[f] \in 0 .. MaxInt
           /\ OldSize(f) \in 0 .. MaxInt
           /\ Existed(f) => old[f] \in 0 .. MaxInt
<1>1. new[f] \in Sizes /\ old[f] \in Sizes \cup {Absent} /\ Sizes \subseteq 0 .. MaxInt
  BY DEF TypeOK
<1>2. new[f] \in 0 .. MaxInt /\ (Existed(f) => old[f] \in 0 .. MaxInt)
  BY <1>1
<1>3. 0 \in 0 .. MaxInt
  OBVIOUS
<1> QED  BY <1>2, <1>3

\* Making a directory keeps the two records of it well formed.
LEMMA MakeDirTypes ==
    ASSUME TypeOK, NEW wanted \in SUBSET Dirs, MakeDir(wanted)
    PROVE  dirs' \subseteq Dirs /\ created' \in Seq(Dirs) /\ stuck' \subseteq Dirs
BY DEF TypeOK, MakeDir

LEMMA InitTypeInv == Init => TypeInv
BY DEF Init, TypeInv, TypeOK, Position

LEMMA TypeStep == ASSUME TypeInv, [Next]_vars PROVE TypeInv'
<1> USE DEF TypeInv, TypeOK, Position, Terminal, Working
<1>1. CASE Scan
  <2>1. at \in Files /\ new[at] \in 0 .. MaxInt /\ OldSize(at) \in 0 .. MaxInt
    BY <1>1, SizesAreNatural DEF Scan
  <2>2. at + 1 \in 1 .. N + 1
    BY <2>1
  <2>3. CASE total > MaxInt - new[at]
    BY <1>1, <2>3 DEF Scan
  <2>4. CASE ~(total > MaxInt - new[at])
    <3>1. total' \in 0 .. MaxInt
      BY <1>1, <2>1, <2>4 DEF Scan
    <3>2. maxOld' \in 0 .. MaxInt
      BY <1>1, <2>1, <2>4 DEF Scan
    <3> QED  BY <1>1, <2>2, <2>4, <3>1, <3>2 DEF Scan
  <2> QED  BY <2>3, <2>4
<1>2. CASE Check
  BY <1>2 DEF Check
<1>3. CASE MakeDirEntry
  <2>1. CASE DirList[at] \in dirs /\ Above[DirList[at]] \subseteq dirs
    BY <1>3, <2>1 DEF MakeDirEntry
  <2>2. CASE ~(DirList[at] \in dirs /\ Above[DirList[at]] \subseteq dirs)
    <3>1. MakeDir({DirList[at]} \cup Above[DirList[at]]) /\ DirList[at] \in Dirs
      BY <1>3, <2>2 DEF MakeDirEntry
    <3>2. dirs' \subseteq Dirs /\ created' \in Seq(Dirs) /\ stuck' \subseteq Dirs
      BY <3>1, MakeDirTypes
    <3> QED  BY <1>3, <2>2, <3>2 DEF MakeDirEntry
  <2> QED  BY <2>1, <2>2
<1>4. CASE DirEntriesDone
  BY <1>4 DEF DirEntriesDone
<1>5. CASE BeginFile
  <2>1. CASE Above[at] \subseteq dirs
    BY <1>5, <2>1 DEF BeginFile
  <2>2. CASE ~(Above[at] \subseteq dirs)
    <3>1. MakeDir(Above[at]) /\ Above[at] \subseteq Dirs
      <4>1. MakeDir(Above[at])
        BY <1>5, <2>2 DEF BeginFile
      <4>2. at \in Files
        BY <1>5 DEF BeginFile, Files
      <4> QED  BY <4>1, <4>2
    <3>2. dirs' \subseteq Dirs /\ created' \in Seq(Dirs) /\ stuck' \subseteq Dirs
      BY <3>1, MakeDirTypes
    <3> QED  BY <1>5, <2>2, <3>2 DEF BeginFile
  <2> QED  BY <2>1, <2>2
<1>6. CASE Backup
  <2>1. at \in Files /\ new[at] \in 0 .. MaxInt /\ OldSize(at) \in 0 .. MaxInt
    BY <1>6, SizesAreNatural DEF Backup
  <2> QED  BY <1>6, <2>1 DEF Backup, Fits
<1>7. CASE Write
  <2>1. at \in Files /\ new[at] \in 0 .. MaxInt /\ OldSize(at) \in 0 .. MaxInt
    BY <1>7, SizesAreNatural DEF Write
  <2> QED  BY <1>7, <2>1 DEF Write, Fits
<1>8. CASE Rename
  <2>1. at \in Files /\ new[at] \in 0 .. MaxInt /\ OldSize(at) \in 0 .. MaxInt
    BY <1>8, SizesAreNatural DEF Rename
  <2> QED  BY <1>8, <2>1 DEF Rename, Fits
<1>9. CASE FilesDone
  BY <1>9 DEF FilesDone
<1>10. CASE Fail
  BY <1>10 DEF Fail
<1>11. CASE RenameFails
  <2>1. at \in Files /\ new[at] \in 0 .. MaxInt /\ OldSize(at) \in 0 .. MaxInt
    BY <1>11, SizesAreNatural DEF RenameFails
  <2> QED  BY <1>11, <2>1 DEF RenameFails, Fits
<1>12. CASE UndoCreated
  <2>1. at \in Files /\ new[at] \in 0 .. MaxInt /\ OldSize(at) \in 0 .. MaxInt
    BY <1>12, SizesAreNatural DEF UndoCreated
  <2> QED  BY <1>12, <2>1 DEF UndoCreated, Fits
<1>13. CASE UndoCopy
  <2>1. at \in Files /\ new[at] \in 0 .. MaxInt /\ OldSize(at) \in 0 .. MaxInt
    BY <1>13, SizesAreNatural DEF UndoCopy
  <2> QED  BY <1>13, <2>1 DEF UndoCopy, Fits
<1>14. CASE UndoRename
  <2>1. at \in Files /\ new[at] \in 0 .. MaxInt /\ OldSize(at) \in 0 .. MaxInt
    BY <1>14, SizesAreNatural DEF UndoRename
  <2> QED  BY <1>14, <2>1 DEF UndoRename, Fits
<1>15. CASE UndoFails
  BY <1>15 DEF UndoFails
<1>16. CASE UndoRenameFails
  <2>1. at \in Files /\ new[at] \in 0 .. MaxInt /\ OldSize(at) \in 0 .. MaxInt
    BY <1>16, SizesAreNatural DEF UndoRenameFails
  <2> QED  BY <1>16, <2>1 DEF UndoRenameFails, Fits
<1>17. CASE UndoFilesDone
  BY <1>17 DEF UndoFilesDone
<1>18. CASE UndoDir
  <2>1. created \in Seq(Dirs) /\ Len(created) \in Nat \ {0}
    BY <1>18 DEF UndoDir
  <2>2. created[Len(created)] \in Dirs /\ created' \in Seq(Dirs)
    BY <1>18, <2>1 DEF UndoDir
  <2>3. dirs' \subseteq Dirs /\ stuck' \subseteq Dirs
    BY <1>18, <2>2 DEF UndoDir, RemoveDir
  <2> QED  BY <1>18, <2>2, <2>3 DEF UndoDir
<1>19. CASE UndoDirsDone
  BY <1>19 DEF UndoDirsDone
<1>20. CASE RemoveBackup
  <2>1. PICK f \in backup : backup' = backup \ {f} /\ free' = free + old[f]
    BY <1>20 DEF RemoveBackup
  <2>2. old[f] \in 0 .. MaxInt
    BY SizesAreNatural
  <2> QED  BY <1>20, <2>1, <2>2 DEF RemoveBackup
<1>21. CASE End
  BY <1>21 DEF End
<1>22. CASE Others
  BY <1>22 DEF Others
<1>23. CASE Crash
  BY <1>23 DEF Crash
<1>24. CASE UNCHANGED vars
  BY <1>24 DEF vars
<1> QED
  BY <1>1, <1>2, <1>3, <1>4, <1>5, <1>6, <1>7, <1>8, <1>9, <1>10, <1>11, <1>12, <1>13, <1>14, <1>15, <1>16, <1>17, <1>18, <1>19, <1>20, <1>21, <1>22, <1>23, <1>24 DEF Next, Forward, Rollback

LEMMA TypeInvariant == Spec => []TypeInv
BY InitTypeInv, TypeStep, PTL DEF Spec

\* The state keeps its types; in particular the free space never goes below
\* nothing.
THEOREM TypeCorrect == Spec => []TypeOK
BY TypeInvariant, PTL DEF TypeInv

-----------------------------------------------------------------------------
(* The tree and the backups.  An entry is installed when the loop is past   *)
(* it, and until the rollback is past it again; a file the rollback could   *)
(* not restore is noted.                                                    *)

Copying == {"file", "backup", "write", "rename"}
Undoing == {"undo", "undoRename"}

TreeOf ==
    /\ pc \in {"scan", "refused", "dirs"} => \A f \in Files : tree[f] = "old"
    /\ pc \in Copying => \A f \in Files : tree[f] = "new" <=> f < at
    /\ pc \in {"clean", "installed"} => \A f \in Files : tree[f] = "new"
    /\ pc \in Undoing => \A f \in Files : /\ f <= at => tree[f] = "new"
                                          /\ f > at /\ tree[f] = "new" => f \in unrestored
    /\ pc \in {"undoDirs", "incomplete"} => \A f \in Files : tree[f] = "new" => f \in unrestored
    /\ pc \in {"undoClean", "restored"} => \A f \in Files : tree[f] = "old"

NotedOnlyInRollback ==
    /\ pc \notin {"undo", "undoRename", "undoDirs", "incomplete", "crashed"} => unrestored = {}
    /\ pc = "incomplete" => unrestored # {}
    /\ \A f \in unrestored : tree[f] = "new"
    /\ pc \in Undoing => \A f \in unrestored : f > at

BackedUp ==
    /\ pc \in {"scan", "refused", "dirs"} => backup = {}
    /\ pc \in {"write", "rename"} /\ Existed(at) => at \in backup
    /\ pc \notin {"clean", "installed", "undoClean", "restored", "crashed"} =>
           \A f \in Files : tree[f] = "new" /\ Existed(f) => f \in backup
    /\ pc = "crashed" => Recoverable

TmpOf ==
    /\ pc \in {"rename", "undoRename"} => tmp = at
    /\ pc \notin {"rename", "undoRename", "crashed"} => tmp = None

TreeInv == TreeOf /\ NotedOnlyInRollback /\ BackedUp /\ TmpOf

LEMMA InitTreeInv == Init => TreeInv
BY DEF Init, TreeInv, TreeOf, NotedOnlyInRollback, BackedUp, TmpOf, Copying, Undoing

LEMMA TreeStep == ASSUME TypeInv, TreeInv, [Next]_vars PROVE TreeInv'
<1> USE DEF TypeInv, TypeOK, Position, Terminal, Working, TreeInv, TreeOf, NotedOnlyInRollback,
            BackedUp, TmpOf, Copying, Undoing, Recoverable
<1>1. CASE Scan
  BY <1>1 DEF Scan
<1>2. CASE Check
  BY <1>2 DEF Check
<1>3. CASE MakeDirEntry
  BY <1>3 DEF MakeDirEntry, MakeDir
<1>4. CASE DirEntriesDone
  BY <1>4 DEF DirEntriesDone
<1>5. CASE BeginFile
  BY <1>5 DEF BeginFile, MakeDir
<1>6. CASE Backup
  BY <1>6 DEF Backup, Fits
<1>7. CASE Write
  BY <1>7 DEF Write, Fits
<1>8. CASE Rename
  BY <1>8 DEF Rename
<1>9. CASE FilesDone
  BY <1>9 DEF FilesDone
<1>10. CASE Fail
  BY <1>10 DEF Fail
<1>11. CASE RenameFails
  BY <1>11 DEF RenameFails
<1>12. CASE UndoCreated
  BY <1>12 DEF UndoCreated
<1>13. CASE UndoCopy
  BY <1>13 DEF UndoCopy, Fits
<1>14. CASE UndoRename
  BY <1>14 DEF UndoRename
<1>15. CASE UndoFails
  BY <1>15 DEF UndoFails
<1>16. CASE UndoRenameFails
  BY <1>16 DEF UndoRenameFails
<1>17. CASE UndoFilesDone
  BY <1>17 DEF UndoFilesDone
<1>18. CASE UndoDir
  BY <1>18 DEF UndoDir
<1>19. CASE UndoDirsDone
  BY <1>19 DEF UndoDirsDone
<1>20. CASE RemoveBackup
  BY <1>20 DEF RemoveBackup
<1>21. CASE End
  BY <1>21 DEF End
<1>22. CASE Others
  BY <1>22 DEF Others
<1>23. CASE Crash
  BY <1>23 DEF Crash
<1>24. CASE UNCHANGED vars
  BY <1>24 DEF vars
<1> QED
  BY <1>1, <1>2, <1>3, <1>4, <1>5, <1>6, <1>7, <1>8, <1>9, <1>10, <1>11, <1>12, <1>13, <1>14, <1>15, <1>16, <1>17, <1>18, <1>19, <1>20, <1>21, <1>22, <1>23, <1>24 DEF Next, Forward, Rollback

LEMMA TreeInvariant == Spec => []TreeInv
BY InitTreeInv, TreeStep, TypeInvariant, PTL DEF Spec

\* Whatever the archive and wherever a crash strikes, the update is complete
\* or every replaced file has a whole backup.
THEOREM AlwaysRecoverable == Spec => []Recoverable
<1>1. TreeInv => Recoverable
  BY DEF TreeInv, TreeOf, BackedUp, Recoverable
<1> QED  BY <1>1, TreeInvariant, PTL

-----------------------------------------------------------------------------
(* The directories.  createdDirs lists each directory after those above it, *)
(* so the last one is empty once the files are back.                        *)

Made == {created[i] : i \in 1 .. Len(created)}

HadClosed ==
    /\ \A d \in had : Above[d] \subseteq had
    /\ \A f \in Files : Existed(f) => Above[f] \subseteq had

TopDown ==
    \A i \in 1 .. Len(created) :
        /\ created[i] \in Dirs \ had
        /\ \A j \in 1 .. i - 1 : created[j] # created[i]
        /\ \A e \in Above[created[i]] : e \in had \/ \E j \in 1 .. i - 1 : e = created[j]

DirsAre ==
    /\ had \subseteq dirs
    /\ \A i \in 1 .. Len(created) : created[i] \in dirs
    /\ pc \in {"scan", "dirs", "file", "backup", "write", "rename", "undo", "undoRename"} =>
           stuck = {}
    /\ unrestored = {} => dirs \subseteq had \cup Made \cup Left
    /\ pc \in {"undoClean", "restored"} => created = <<>>

\* The directories the entries need, as far as the loops have come.
DirsMade ==
    /\ pc = "dirs" => \A i \in 1 .. Len(DirList) : i < at => DirList[i] \in dirs
    /\ pc \in Copying \cup {"clean", "installed"} =>
           \A i \in 1 .. Len(DirList) : DirList[i] \in dirs
    /\ pc = "file" => \A f \in Files : f < at => Above[f] \subseteq dirs
    /\ pc \in {"backup", "write", "rename"} => \A f \in Files : f <= at => Above[f] \subseteq dirs
    /\ pc \in {"clean", "installed"} => \A f \in Files : Above[f] \subseteq dirs

DirInv == HadClosed /\ TopDown /\ DirsAre /\ DirsMade

LEMMA InitDirInv == Init => DirInv
BY DEF Init, DirInv, HadClosed, TopDown, DirsAre, DirsMade, Made, Copying

\* A directory is made below directories that are there.
LEMMA MakeDirStep ==
    ASSUME TypeOK, TreeInv, DirInv, NEW wanted \in SUBSET Dirs, MakeDir(wanted),
           pc \in {"dirs", "file"}, UNCHANGED <<had, unrestored>>
    PROVE  /\ TopDown'
           /\ had \subseteq dirs' /\ dirs \subseteq dirs'
           /\ \A i \in 1 .. Len(created') : created'[i] \in dirs'
           /\ dirs' = had \cup Made' /\ stuck' = {}
<1>1. PICK d \in wanted \ dirs : /\ Above[d] \subseteq dirs
                                 /\ dirs' = dirs \cup {d}
                                 /\ created' = Append(created, d)
                                 /\ stuck' = stuck
  BY DEF MakeDir
<1>2. dirs = had \cup Made /\ created \in Seq(Dirs) /\ stuck = {}
  <2>1. stuck = {} /\ unrestored = {} /\ created \in Seq(Dirs)
    BY DEF TypeOK, TreeInv, NotedOnlyInRollback, DirInv, DirsAre
  <2>2. Left = {}
    BY <2>1 DEF Left
  <2>3. dirs \subseteq had \cup Made
    BY <2>1, <2>2 DEF DirInv, DirsAre
  <2> QED  BY <2>1, <2>3 DEF DirInv, DirsAre, Made
<1>3. /\ Len(created') = Len(created) + 1 /\ Len(created) \in Nat
      /\ \A i \in 1 .. Len(created) : created'[i] = created[i]
      /\ created'[Len(created) + 1] = d
  BY <1>1, <1>2
<1>4. dirs' = had \cup Made'
  <2>1. Made' = Made \cup {d}
    BY <1>3 DEF Made
  <2> QED  BY <1>1, <1>2, <2>1
<1>5. TopDown'
  <2> SUFFICES ASSUME NEW i \in 1 .. Len(created)'
               PROVE  /\ created'[i] \in Dirs \ had
                      /\ \A j \in 1 .. i - 1 : created'[j] # created'[i]
                      /\ \A e \in Above[created'[i]] :
                            e \in had \/ \E j \in 1 .. i - 1 : e = created'[j]
    BY DEF TopDown
  <2>1. CASE i \in 1 .. Len(created)
    BY <1>3, <2>1 DEF DirInv, TopDown
  <2>2. CASE i = Len(created) + 1
    <3>1. created'[i] = d /\ d \in Dirs /\ d \notin had /\ d \notin Made
      BY <1>1, <1>2, <1>3, <2>2
    <3>2. \A e \in Above[d] : e \in had \/ e \in Made
      BY <1>1, <1>2
    <3> QED  BY <1>3, <2>2, <3>1, <3>2 DEF Made
  <2> QED  BY <1>3, <2>1, <2>2
<1>6. had \subseteq dirs' /\ dirs \subseteq dirs'
  BY <1>1, <1>2
<1>7. \A i \in 1 .. Len(created') : created'[i] \in dirs'
  BY <1>4 DEF Made
<1> QED  BY <1>1, <1>2, <1>4, <1>5, <1>6, <1>7

\* Once every file is back, the directory made last is empty, or a directory
\* in it could not be removed.
LEMMA LastCreatedIsEmpty ==
    ASSUME TypeOK, TreeInv, DirInv, pc = "undoDirs", created # <<>>, unrestored = {},
           created[Len(created)] \notin Left
    PROVE  EmptyDir(created[Len(created)])
<1> DEFINE d == created[Len(created)]
<1>1. created \in Seq(Dirs) /\ Len(created) \in Nat /\ Len(created) >= 1
  BY DEF TypeOK
<1>2. d \in Dirs \ had
  BY <1>1 DEF DirInv, TopDown
<1>3. ASSUME NEW e \in dirs PROVE d \notin Above[e]
  <2>1. CASE e \in had
    BY <1>2, <2>1 DEF DirInv, HadClosed
  <2>2. CASE e \in Made
    <3>1. PICK i \in 1 .. Len(created) : e = created[i]
      BY <2>2 DEF Made
    <3>2. ASSUME d \in Above[e] PROVE FALSE
      <4>1. PICK j \in 1 .. i - 1 : d = created[j]
        BY <1>2, <3>1, <3>2 DEF DirInv, TopDown
      <4>2. j \in 1 .. Len(created) - 1
        BY <1>1, <3>1, <4>1
      <4> QED  BY <1>1, <4>1, <4>2 DEF DirInv, TopDown
    <3> QED  BY <3>2
  <2>3. CASE e \in Left
    <3>1. PICK x \in stuck : e = x \/ e \in Above[x]
      BY <2>3 DEF Left
    <3>2. d \in Above[e] => d \in Above[x]
      BY <3>1, NestingAssumption DEF TypeOK
    <3> QED  BY <3>2 DEF Left
  <2> QED  BY <2>1, <2>2, <2>3 DEF DirInv, DirsAre
<1>4. ASSUME NEW f \in Files, d \in Above[f]
      PROVE  ~Existed(f) /\ tree[f] = "old" /\ tmp # f
  <2>1. ~Existed(f)
    BY <1>2, <1>4 DEF DirInv, HadClosed
  <2>2. tree[f] = "old" /\ tmp = None
    BY DEF TypeOK, TreeInv, TreeOf, TmpOf
  <2> QED  BY <2>1, <2>2
<1> QED  BY <1>3, <1>4 DEF EmptyDir

\* Made when the last directory is taken from the list.
LEMMA MadeShrinks ==
    ASSUME NEW n \in Nat, Len(created) = n + 1, Len(created') = n,
           \A i \in 1 .. n : created'[i] = created[i] /\ created[i] # created[n + 1]
    PROVE  Made' = Made \ {created[n + 1]}
<1>1. Made' = {created[i] : i \in 1 .. n}
  <2>1. Made' = {created'[i] : i \in 1 .. n}
    BY DEF Made
  <2> QED  BY <2>1
<1>2. Made = {created[i] : i \in 1 .. n + 1}
  BY DEF Made
<1>3. 1 .. n + 1 = (1 .. n) \cup {n + 1}
  OBVIOUS
<1> QED  BY <1>1, <1>2, <1>3

LEMMA DirStep == ASSUME TypeInv, TreeInv, TreeInv', DirInv, [Next]_vars PROVE DirInv'
<1> USE DEF TypeInv, TypeOK, Position, Terminal, Working, DirInv, DirsAre, DirsMade, Made, Copying
<1>0. UNCHANGED stuck => Left' = Left
  BY DEF Left
<1> USE <1>0
<1>1. CASE Scan
  <2>1. HadClosed' /\ TopDown'
    BY <1>1 DEF Scan, HadClosed, TopDown
  <2>2. DirsAre' /\ DirsMade'
    BY <1>1 DEF Scan
  <2> QED  BY <2>1, <2>2 DEF DirInv
<1>2. CASE Check
  <2>1. HadClosed' /\ TopDown'
    BY <1>2 DEF Check, HadClosed, TopDown
  <2>2. DirsAre' /\ DirsMade'
    BY <1>2 DEF Check
  <2> QED  BY <2>1, <2>2 DEF DirInv
<1>3. CASE MakeDirEntry
  <2>1. CASE {DirList[at]} \cup Above[DirList[at]] \subseteq dirs
    BY <1>3, <2>1 DEF MakeDirEntry, HadClosed, TopDown
  <2>2. CASE ~({DirList[at]} \cup Above[DirList[at]] \subseteq dirs)
    <3>1. MakeDir({DirList[at]} \cup Above[DirList[at]]) /\ DirList[at] \in Dirs
      BY <1>3, <2>2 DEF MakeDirEntry
    <3>2. /\ TopDown'
          /\ had \subseteq dirs' /\ dirs \subseteq dirs'
          /\ \A i \in 1 .. Len(created') : created'[i] \in dirs'
          /\ dirs' = had \cup Made' /\ stuck' = {}
      BY <1>3, <3>1, MakeDirStep DEF MakeDirEntry
    <3>3. HadClosed'
      BY <1>3 DEF MakeDirEntry, HadClosed
    <3>4. pc = "dirs" /\ pc' = "dirs" /\ at' = at /\ UNCHANGED <<had, unrestored>>
      BY <1>3, <2>2 DEF MakeDirEntry
    <3> QED  BY <3>2, <3>3, <3>4
  <2> QED  BY <2>1, <2>2
<1>4. CASE DirEntriesDone
  <2>1. HadClosed' /\ TopDown'
    BY <1>4 DEF DirEntriesDone, HadClosed, TopDown
  <2>2. DirsAre' /\ DirsMade'
    BY <1>4 DEF DirEntriesDone
  <2> QED  BY <2>1, <2>2 DEF DirInv
<1>5. CASE BeginFile
  <2>1. CASE Above[at] \subseteq dirs
    BY <1>5, <2>1 DEF BeginFile, HadClosed, TopDown
  <2>2. CASE ~(Above[at] \subseteq dirs)
    <3>0. pc = "file" /\ at \in Files /\ Above[at] \in SUBSET Dirs
      BY <1>5, SMTT(20) DEF BeginFile
    <3>1. MakeDir(Above[at])
      BY <1>5, <2>2 DEF BeginFile
    <3>2. /\ TopDown'
          /\ had \subseteq dirs' /\ dirs \subseteq dirs'
          /\ \A i \in 1 .. Len(created') : created'[i] \in dirs'
          /\ dirs' = had \cup Made' /\ stuck' = {}
      BY <1>5, <3>0, <3>1, MakeDirStep DEF BeginFile
    <3>3. HadClosed'
      BY <1>5 DEF BeginFile, HadClosed
    <3>4. pc = "file" /\ pc' = "file" /\ at' = at /\ UNCHANGED <<had, unrestored>>
      BY <1>5, <2>2 DEF BeginFile
    <3> QED  BY <3>2, <3>3, <3>4
  <2> QED  BY <2>1, <2>2
<1>6. CASE Backup
  <2>1. HadClosed' /\ TopDown'
    BY <1>6 DEF Backup, HadClosed, TopDown
  <2>2. DirsAre' /\ DirsMade'
    BY <1>6 DEF Backup, Fits
  <2> QED  BY <2>1, <2>2 DEF DirInv
<1>7. CASE Write
  <2>1. HadClosed' /\ TopDown'
    BY <1>7 DEF Write, HadClosed, TopDown
  <2>2. DirsAre' /\ DirsMade'
    BY <1>7 DEF Write, Fits
  <2> QED  BY <2>1, <2>2 DEF DirInv
<1>8. CASE Rename
  <2>1. HadClosed' /\ TopDown'
    BY <1>8 DEF Rename, HadClosed, TopDown
  <2>2. DirsAre' /\ DirsMade'
    BY <1>8 DEF Rename
  <2> QED  BY <2>1, <2>2 DEF DirInv
<1>9. CASE FilesDone
  <2>1. HadClosed' /\ TopDown'
    BY <1>9 DEF FilesDone, HadClosed, TopDown
  <2>2. DirsAre' /\ DirsMade'
    BY <1>9 DEF FilesDone
  <2> QED  BY <2>1, <2>2 DEF DirInv
<1>10. CASE Fail
  <2>1. HadClosed' /\ TopDown'
    BY <1>10 DEF Fail, HadClosed, TopDown
  <2>2. DirsAre' /\ DirsMade'
    BY <1>10 DEF Fail
  <2> QED  BY <2>1, <2>2 DEF DirInv
<1>11. CASE RenameFails
  <2>1. HadClosed' /\ TopDown'
    BY <1>11 DEF RenameFails, HadClosed, TopDown
  <2>2. DirsAre' /\ DirsMade'
    BY <1>11 DEF RenameFails
  <2> QED  BY <2>1, <2>2 DEF DirInv
<1>12. CASE UndoCreated
  <2>1. HadClosed' /\ TopDown'
    BY <1>12 DEF UndoCreated, HadClosed, TopDown
  <2>2. DirsAre' /\ DirsMade'
    BY <1>12 DEF UndoCreated
  <2> QED  BY <2>1, <2>2 DEF DirInv
<1>13. CASE UndoCopy
  <2>1. HadClosed' /\ TopDown'
    BY <1>13 DEF UndoCopy, HadClosed, TopDown
  <2>2. DirsAre' /\ DirsMade'
    BY <1>13 DEF UndoCopy, Fits
  <2> QED  BY <2>1, <2>2 DEF DirInv
<1>14. CASE UndoRename
  <2>1. HadClosed' /\ TopDown'
    BY <1>14 DEF UndoRename, HadClosed, TopDown
  <2>2. DirsAre' /\ DirsMade'
    BY <1>14 DEF UndoRename
  <2> QED  BY <2>1, <2>2 DEF DirInv
<1>15. CASE UndoFails
  <2>1. HadClosed' /\ TopDown'
    BY <1>15 DEF UndoFails, HadClosed, TopDown
  <2>2. DirsAre' /\ DirsMade'
    BY <1>15 DEF UndoFails
  <2> QED  BY <2>1, <2>2 DEF DirInv
<1>16. CASE UndoRenameFails
  <2>1. HadClosed' /\ TopDown'
    BY <1>16 DEF UndoRenameFails, HadClosed, TopDown
  <2>2. DirsAre' /\ DirsMade'
    BY <1>16 DEF UndoRenameFails
  <2> QED  BY <2>1, <2>2 DEF DirInv
<1>17. CASE UndoFilesDone
  <2>1. HadClosed' /\ TopDown'
    BY <1>17 DEF UndoFilesDone, HadClosed, TopDown
  <2>2. DirsAre' /\ DirsMade'
    BY <1>17 DEF UndoFilesDone
  <2> QED  BY <2>1, <2>2 DEF DirInv
<1>18. CASE UndoDir
  <2>1. pc = "undoDirs" /\ pc' = "undoDirs" /\ UNCHANGED <<unrestored, had, at, old>>
    BY <1>18 DEF UndoDir
  <2>2. PICK n \in Nat : Len(created) = n + 1
    <3>1. created \in Seq(Dirs) /\ Len(created) \in Nat \ {0}
      BY <1>18 DEF UndoDir
    <3>2. Len(created) - 1 \in Nat /\ Len(created) = (Len(created) - 1) + 1
      BY <3>1
    <3> QED  BY <3>2
  <2> DEFINE d == created[n + 1]
  <2>3. Len(created') = n /\ \A i \in 1 .. n : created'[i] = created[i]
    <3>1. created' = SubSeq(created, 1, n)
      BY <1>18, <2>2 DEF UndoDir
    <3>2. created \in Seq(Dirs) /\ n <= Len(created)
      BY <2>2
    <3> QED  BY <3>1, <3>2, FirstOf
  <2>4. d \in Dirs \ had /\ \A i \in 1 .. n : created[i] # d
    BY <2>2 DEF TopDown
  <2>5. TopDown'
    BY <2>1, <2>2, <2>3 DEF TopDown
  <2>6. HadClosed'
    BY <2>1 DEF HadClosed
  <2>7. /\ dirs \ {d} \subseteq dirs' /\ dirs' \subseteq dirs
        /\ stuck \subseteq stuck' /\ stuck' \subseteq Dirs
        /\ EmptyDir(d) => d \notin dirs' \/ d \in stuck'
    BY <1>18, <2>2 DEF UndoDir, RemoveDir
  <2>8. had \subseteq dirs' /\ \A i \in 1 .. n : created'[i] \in dirs'
    BY <2>2, <2>3, <2>4, <2>7
  <2>9. ASSUME unrestored = {} PROVE dirs' \subseteq had \cup Made' \cup Left'
    <3>1. Left \subseteq Left' /\ stuck' \subseteq Left'
      BY <2>7 DEF Left
    <3>2. d \notin dirs' \/ d \in Left'
      <4>1. CASE d \in Left
        BY <3>1, <4>1
      <4>2. CASE d \notin Left
        <5>1. EmptyDir(d)
          BY <1>18, <2>2, <2>9, <4>2, LastCreatedIsEmpty DEF UndoDir
        <5> QED  BY <2>7, <3>1, <5>1
      <4> QED  BY <4>1, <4>2
    <3>3. dirs \subseteq had \cup Made \cup Left
      BY <2>9 DEF DirsAre
    <3>4. Made' = Made \ {d}
      BY <2>2, <2>3, <2>4, MadeShrinks
    <3> HIDE DEF Made
    <3> QED  BY <2>7, <3>1, <3>2, <3>3, <3>4
  <2>10. DirsAre'
    <3> HIDE DEF Made
    <3> QED  BY <2>1, <2>3, <2>8, <2>9
  <2>11. DirsMade'
    BY <2>1
  <2> QED  BY <2>5, <2>6, <2>10, <2>11 DEF DirInv
<1>19. CASE UndoDirsDone
  <2>1. HadClosed' /\ TopDown'
    BY <1>19 DEF UndoDirsDone, HadClosed, TopDown
  <2>2. DirsAre' /\ DirsMade'
    BY <1>19 DEF UndoDirsDone
  <2> QED  BY <2>1, <2>2 DEF DirInv
<1>20. CASE RemoveBackup
  <2>1. HadClosed' /\ TopDown'
    BY <1>20 DEF RemoveBackup, HadClosed, TopDown
  <2>2. DirsAre' /\ DirsMade'
    BY <1>20 DEF RemoveBackup
  <2> QED  BY <2>1, <2>2 DEF DirInv
<1>21. CASE End
  <2>1. HadClosed' /\ TopDown'
    BY <1>21 DEF End, HadClosed, TopDown
  <2>2. DirsAre' /\ DirsMade'
    BY <1>21 DEF End
  <2> QED  BY <2>1, <2>2 DEF DirInv
<1>22. CASE Others
  <2>1. HadClosed' /\ TopDown'
    BY <1>22 DEF Others, HadClosed, TopDown
  <2>2. DirsAre' /\ DirsMade'
    BY <1>22 DEF Others
  <2> QED  BY <2>1, <2>2 DEF DirInv
<1>23. CASE Crash
  <2>1. HadClosed' /\ TopDown'
    BY <1>23 DEF Crash, HadClosed, TopDown
  <2>2. DirsAre' /\ DirsMade'
    BY <1>23 DEF Crash
  <2> QED  BY <2>1, <2>2 DEF DirInv
<1>24. CASE UNCHANGED vars
  <2>1. HadClosed' /\ TopDown'
    BY <1>24 DEF vars, HadClosed, TopDown
  <2>2. DirsAre' /\ DirsMade'
    BY <1>24 DEF vars
  <2> QED  BY <2>1, <2>2 DEF DirInv
<1> QED
  BY <1>1, <1>2, <1>3, <1>4, <1>5, <1>6, <1>7, <1>8, <1>9, <1>10, <1>11, <1>12, <1>13, <1>14, <1>15, <1>16, <1>17, <1>18, <1>19, <1>20, <1>21, <1>22, <1>23, <1>24 DEF Next, Forward, Rollback

LEMMA DirInvariant == Spec => []DirInv
BY InitDirInv, DirStep, TypeInvariant, TreeInvariant, PTL DEF Spec

\* An installation reported as rolled back left nothing behind, but for
\* directories whose removal failed and those they are in.
THEOREM RollbackIsExact == Spec => []RollbackExact
<1>1. TypeInv /\ TreeInv /\ DirInv => RollbackExact
  <2> SUFFICES ASSUME TypeInv, TreeInv, DirInv, pc = "restored"
               PROVE  /\ had \subseteq dirs /\ dirs \subseteq had \cup Left
                      /\ tmp = None /\ \A f \in Files : tree[f] = "old"
    BY DEF RollbackExact
  <2>1. tmp = None /\ unrestored = {} /\ \A f \in Files : tree[f] = "old"
    BY DEF TreeInv, TreeOf, TmpOf, NotedOnlyInRollback
  <2>2. created = <<>> /\ had \subseteq dirs /\ dirs \subseteq had \cup Made \cup Left
    BY <2>1 DEF DirInv, DirsAre
  <2>3. Made = {}
    BY <2>2 DEF Made
  <2> QED  BY <2>1, <2>2, <2>3
<1> QED  BY <1>1, TypeInvariant, TreeInvariant, DirInvariant, PTL

\* An installation reported as done is complete.
THEOREM InstallIsExact == Spec => []InstallExact
<1>1. TreeInv /\ DirInv => InstallExact
  BY DEF TreeInv, TreeOf, TmpOf, NotedOnlyInRollback, DirInv, DirsMade, InstallExact, Copying
<1> QED  BY <1>1, TreeInvariant, DirInvariant, PTL

-----------------------------------------------------------------------------
(* Space.  The running totals of the preflight, S[i] after entry i, bound    *)
(* what the loop has written when it gets there: the estimate is used up    *)
(* entry by entry, and the backup of one file at a time is all that the     *)
(* replaced files take in addition, since each rename frees the old data.   *)

Scanned == IF pc = "scan" THEN at - 1 ELSE N

Sums(S) ==
    /\ S[0] = 0 /\ total = S[Scanned]
    /\ \A i \in 1 .. Scanned : S[i] = S[i - 1] + new[i] /\ OldSize(i) <= maxOld
    /\ \A i \in 0 .. Scanned : S[i] <= total

NoneShrinks == \A f \in Files : OldSize(f) <= new[f]

Room(S) ==
    LET need == total + maxOld + Reserve
        left == free + taken
    IN  /\ pc = "dirs" => left >= need
        /\ pc \in {"file", "backup"} => left + S[at - 1] >= need
        /\ pc = "write" => left + S[at - 1] + OldSize(at) >= need
        /\ pc = "rename" => left + S[at - 1] + OldSize(at) + new[at] >= need
        /\ NoneShrinks /\ pc = "undo" => left >= maxOld + Reserve
        /\ NoneShrinks /\ pc = "undoRename" => left + OldSize(at) >= maxOld + Reserve

Totals == [0 .. N -> Nat]

SpaceInv == pc # "refused" => \E S \in Totals : Sums(S) /\ Room(S)

LEMMA InitSpaceInv == Init => SpaceInv
<1> SUFFICES ASSUME Init PROVE \E S \in Totals : Sums(S) /\ Room(S)
  BY DEF SpaceInv
<1> DEFINE S == [i \in 0 .. N |-> 0]
<1>1. S \in Totals
  BY DEF Totals
<1>2. Sums(S) /\ Room(S)
  BY DEF Init, Sums, Room, Scanned
<1> QED  BY <1>1, <1>2

\* The sum that passed the check did not wrap around.
LEMMA EnoughIsEnough ==
    ASSUME TypeOK, Enough PROVE free >= total + maxOld + Reserve
BY DEF TypeOK, Enough, Need, Wrap

LEMMA ScanSpace == ASSUME TypeInv, SpaceInv, Scan PROVE SpaceInv'
<1> USE DEF TypeInv, TypeOK, Position
<1> SUFFICES ASSUME pc' # "refused"
             PROVE  \E S \in Totals : Sums(S)' /\ Room(S)'
  BY DEF SpaceInv
<1>1. PICK S \in Totals : Sums(S)
  BY DEF SpaceInv, Scan
<1>2. /\ pc = "scan" /\ pc' = "scan" /\ at \in Files /\ at' = at + 1
      /\ total' = total + new[at] /\ UNCHANGED <<old, new>>
      /\ OldSize(at) <= maxOld' /\ maxOld <= maxOld' /\ total <= total'
      /\ new[at] \in Nat /\ OldSize(at) \in Nat /\ maxOld' \in Nat
  <2>1. pc = "scan" /\ pc' = "scan" /\ at \in Files /\ at' = at + 1 /\ UNCHANGED <<old, new>>
    BY DEF Scan
  <2>2. /\ total' = total + new[at]
        /\ maxOld' = IF OldSize(at) > maxOld THEN OldSize(at) ELSE maxOld
    BY DEF Scan
  <2>3. new[at] \in Nat /\ OldSize(at) \in Nat /\ maxOld \in Nat /\ total \in Nat
    BY <2>1, SizesAreNatural
  <2> HIDE DEF OldSize, Existed
  <2> QED  BY <2>1, <2>2, <2>3
<1>3. PICK n \in Files : n = at
  BY <1>2
<1>4. PICK t \in Nat : t = total + new[at]
  BY <1>2
<1> DEFINE R == [S EXCEPT ![n] = t]
<1>5. /\ R \in Totals /\ R[n] = t
      /\ \A i \in 0 .. n - 1 : R[i] = S[i]
  BY DEF Totals
<1>6. /\ S[0] = 0 /\ total = S[n - 1]
      /\ \A i \in 1 .. n - 1 : S[i] = S[i - 1] + new[i] /\ OldSize(i) <= maxOld
      /\ \A i \in 0 .. n - 1 : S[i] <= total
  BY <1>1, <1>2, <1>3 DEF Sums, Scanned
<1>7. Scanned' = n
  BY <1>2, <1>3 DEF Scanned
<1> HIDE DEF R
<1>8. R[0] = 0 /\ total' = R[n]
  BY <1>2, <1>3, <1>4, <1>5, <1>6
<1>9. \A i \in 1 .. n : R[i] = R[i - 1] + new[i] /\ OldSize(i) <= maxOld'
  <2> SUFFICES ASSUME NEW i \in 1 .. n PROVE R[i] = R[i - 1] + new[i] /\ OldSize(i) <= maxOld'
    OBVIOUS
  <2>1. i - 1 \in 0 .. n - 1 /\ R[i - 1] = S[i - 1]
    BY <1>5
  <2>2. CASE i = n
    BY <1>2, <1>3, <1>4, <1>5, <1>6, <2>1, <2>2
  <2>3. CASE i \in 1 .. n - 1
    <3>1. OldSize(i) <= maxOld /\ OldSize(i) \in Nat
      BY <1>6, <2>3, SizesAreNatural
    <3>2. R[i] = R[i - 1] + new[i]
      BY <1>5, <1>6, <2>1, <2>3
    <3> QED  BY <1>2, <3>1, <3>2
  <2> QED  BY <2>2, <2>3
<1>10. \A i \in 0 .. n : R[i] <= total'
  <2> SUFFICES ASSUME NEW i \in 0 .. n PROVE R[i] <= total'
    OBVIOUS
  <2>1. CASE i = n
    BY <1>8, <1>2, <1>4, <1>5, <2>1
  <2>2. CASE i \in 0 .. n - 1
    <3>1. R[i] = S[i] /\ S[i] <= total /\ S[i] \in Nat
      BY <1>5, <1>6, <2>2 DEF Totals
    <3> QED  BY <1>2, <3>1
  <2> QED  BY <2>1, <2>2
<1>11. Sums(R)'
  BY <1>2, <1>7, <1>8, <1>9, <1>10 DEF Sums
<1>12. Room(R)'
  BY <1>2 DEF Room
<1> QED  BY <1>5, <1>11, <1>12

LEMMA CheckSpace == ASSUME TypeInv, SpaceInv, Check PROVE SpaceInv'
<1> SUFFICES ASSUME pc' # "refused"
             PROVE  \E S \in Totals : Sums(S)' /\ Room(S)'
  BY DEF SpaceInv
<1>1. /\ pc = "scan" /\ pc' = "dirs" /\ at = N + 1 /\ at' = 1 /\ Enough
      /\ UNCHANGED <<old, new, total, maxOld, free, taken>>
  BY DEF Check, TypeInv, Position
<1>2. PICK S \in Totals : Sums(S)
  BY <1>1 DEF SpaceInv
<1>3. Sums(S)'
  BY <1>1, <1>2 DEF Sums, Scanned
<1>4. free >= total + maxOld + Reserve /\ taken \in Nat /\ free \in Nat
  BY <1>1, EnoughIsEnough DEF TypeInv, TypeOK
<1>5. Room(S)'
  BY <1>1, <1>4 DEF Room, TypeInv, TypeOK
<1> QED  BY <1>3, <1>5

\* Past the check the totals stay what they are.
LEMMA LoopSpace ==
    ASSUME TypeInv, [Next]_vars, pc \notin {"scan", "refused"}, NEW S \in Totals,
           Sums(S), Room(S)
    PROVE  pc' # "refused" /\ Sums(S)' /\ Room(S)'
<1>0. pc' \notin {"scan", "refused"} /\ UNCHANGED <<old, new, total, maxOld>>
  BY DEF Next, Forward, Rollback, vars, Terminal, Working, Scan, Check, MakeDirEntry,
         DirEntriesDone, BeginFile, Backup, Write, Rename, FilesDone, Fail, RenameFails,
         UndoCreated, UndoCopy, UndoRename, UndoFails, UndoRenameFails, UndoFilesDone, UndoDir,
         UndoDirsDone, RemoveBackup, End, Others, Crash
<1>s. Sums(S)'
  BY <1>0 DEF Sums, Scanned
<1>t. \A i \in 1 .. N : /\ S[i] \in Nat /\ S[i - 1] \in Nat /\ S[i] <= total
                        /\ S[i] = S[i - 1] + new[i] /\ OldSize(i) <= maxOld
                        /\ OldSize(i) \in Nat /\ new[i] \in Nat
                        /\ Existed(i) => OldSize(i) = old[i]
  BY SizesAreNatural DEF Sums, Scanned, Totals, TypeInv
<1>u. /\ total \in Nat /\ maxOld \in Nat /\ free \in Nat /\ taken \in 0 .. Reserve
      /\ S[0] = 0
  BY DEF TypeInv, TypeOK, Sums
<1>v. Position
  BY DEF TypeInv
<1> SUFFICES Room(S)'
  BY <1>0, <1>s
<1> USE <1>0, <1>t, <1>u, <1>v DEF Position, Room, NoneShrinks
<1>1. ~Scan /\ ~Check
  BY DEF Scan, Check
<1>3. CASE MakeDirEntry
  BY <1>3 DEF MakeDirEntry
<1>4. CASE DirEntriesDone
  BY <1>4 DEF DirEntriesDone
<1>5. CASE BeginFile
  <2>1. PICK i \in Files : i = at
    BY <1>5 DEF BeginFile
  <2>2. PICK w \in Nat, o \in Nat, r \in Nat :
           /\ w = new[i] /\ w = new'[i] /\ o = OldSize(i) /\ o = OldSize(i)' /\ r = S[i - 1]
           /\ S[i] = r + w /\ r + w <= total /\ o <= maxOld
           /\ Existed(i) => o = old[i]
    <3>1. new[i] \in Nat /\ OldSize(i) \in Nat /\ S[i - 1] \in Nat /\ OldSize(i)' = OldSize(i)
      OBVIOUS
    <3>2. PICK w \in Nat, o \in Nat, r \in Nat : w = new[i] /\ o = OldSize(i) /\ r = S[i - 1]
      BY <3>1
    <3>3. S[i] = r + w /\ S[i] <= total
      BY <3>2
    <3> QED  BY <3>1, <3>2, <3>3
  <2>3. /\ at' = i /\ pc' \in {"file", "backup", "write"}
        /\ free' = free /\ taken' = taken /\ free + taken + r >= total + maxOld + Reserve
    BY <1>5, <2>1, <2>2 DEF BeginFile
  <2>4. free' + taken' + r + o >= total + maxOld + Reserve
    <3> HIDE <1>0, <1>s, <1>t, <1>u, <1>v DEF OldSize, Existed, Position, Room, NoneShrinks
    <3>1. free \in Int /\ taken \in Int /\ total \in Int /\ maxOld \in Int /\ Reserve \in Int
      BY <1>u
    <3>2. w \in Int /\ o \in Int /\ r \in Int /\ r + w <= total
      BY <2>2
    <3> QED  BY <2>3, <3>1, <3>2
  <2> QED  BY <2>1, <2>2, <2>3, <2>4
<1>6. CASE Backup
  <2>1. PICK i \in Files : i = at
    BY <1>6 DEF Backup
  <2>2. PICK w \in Nat, o \in Nat, r \in Nat :
           /\ w = new[i] /\ w = new'[i] /\ o = OldSize(i) /\ o = OldSize(i)' /\ r = S[i - 1]
           /\ S[i] = r + w /\ r + w <= total /\ o <= maxOld
           /\ Existed(i) => o = old[i]
    <3>1. new[i] \in Nat /\ OldSize(i) \in Nat /\ S[i - 1] \in Nat /\ OldSize(i)' = OldSize(i)
      OBVIOUS
    <3>2. PICK w \in Nat, o \in Nat, r \in Nat : w = new[i] /\ o = OldSize(i) /\ r = S[i - 1]
      BY <3>1
    <3>3. S[i] = r + w /\ S[i] <= total
      BY <3>2
    <3> QED  BY <3>1, <3>2, <3>3
  <2>3. /\ at' = i /\ pc' = "write" /\ free' = free - o /\ taken' = taken
        /\ free + taken + r >= total + maxOld + Reserve
    BY <1>6, <2>1, <2>2 DEF Backup, Fits
  <2>4. free' + taken' + r + o >= total + maxOld + Reserve
    <3> HIDE <1>0, <1>s, <1>t, <1>u, <1>v DEF OldSize, Existed, Position, Room, NoneShrinks
    <3>1. free \in Int /\ taken \in Int /\ total \in Int /\ maxOld \in Int /\ Reserve \in Int
      BY <1>u
    <3>2. w \in Int /\ o \in Int /\ r \in Int /\ r + w <= total
      BY <2>2
    <3> QED  BY <2>3, <3>1, <3>2
  <2> QED  BY <2>1, <2>2, <2>3, <2>4
<1>7. CASE Write
  <2>1. PICK i \in Files : i = at
    BY <1>7 DEF Write
  <2>2. PICK w \in Nat, o \in Nat, r \in Nat :
           /\ w = new[i] /\ w = new'[i] /\ o = OldSize(i) /\ o = OldSize(i)' /\ r = S[i - 1]
           /\ S[i] = r + w /\ r + w <= total /\ o <= maxOld
           /\ Existed(i) => o = old[i]
    <3>1. new[i] \in Nat /\ OldSize(i) \in Nat /\ S[i - 1] \in Nat /\ OldSize(i)' = OldSize(i)
      OBVIOUS
    <3>2. PICK w \in Nat, o \in Nat, r \in Nat : w = new[i] /\ o = OldSize(i) /\ r = S[i - 1]
      BY <3>1
    <3>3. S[i] = r + w /\ S[i] <= total
      BY <3>2
    <3> QED  BY <3>1, <3>2, <3>3
  <2>3. /\ at' = i /\ pc' = "rename" /\ free' = free - w /\ taken' = taken
        /\ free + taken + r + o >= total + maxOld + Reserve
    BY <1>7, <2>1, <2>2 DEF Write, Fits
  <2>4. free' + taken' + r + o + w >= total + maxOld + Reserve
    <3> HIDE <1>0, <1>s, <1>t, <1>u, <1>v DEF OldSize, Existed, Position, Room, NoneShrinks
    <3>1. free \in Int /\ taken \in Int /\ total \in Int /\ maxOld \in Int /\ Reserve \in Int
      BY <1>u
    <3>2. w \in Int /\ o \in Int /\ r \in Int /\ r + w <= total
      BY <2>2
    <3> QED  BY <2>3, <3>1, <3>2
  <2> QED  BY <2>1, <2>2, <2>3, <2>4
<1>8. CASE Rename
  <2>1. PICK i \in Files : i = at
    BY <1>8 DEF Rename
  <2>2. PICK w \in Nat, o \in Nat, r \in Nat :
           /\ w = new[i] /\ w = new'[i] /\ o = OldSize(i) /\ o = OldSize(i)' /\ r = S[i - 1]
           /\ S[i] = r + w /\ r + w <= total /\ o <= maxOld
           /\ Existed(i) => o = old[i]
    <3>1. new[i] \in Nat /\ OldSize(i) \in Nat /\ S[i - 1] \in Nat /\ OldSize(i)' = OldSize(i)
      OBVIOUS
    <3>2. PICK w \in Nat, o \in Nat, r \in Nat : w = new[i] /\ o = OldSize(i) /\ r = S[i - 1]
      BY <3>1
    <3>3. S[i] = r + w /\ S[i] <= total
      BY <3>2
    <3> QED  BY <3>1, <3>2, <3>3
  <2>3. /\ at' = i + 1 /\ S[at' - 1] = r + w /\ pc' = "file" /\ free' = free + o /\ taken' = taken
        /\ free + taken + r + o + w >= total + maxOld + Reserve
    BY <1>8, <2>1, <2>2 DEF Rename
  <2>4. free' + taken' + (r + w) >= total + maxOld + Reserve
    <3> HIDE <1>0, <1>s, <1>t, <1>u, <1>v DEF OldSize, Existed, Position, Room, NoneShrinks
    <3>1. free \in Int /\ taken \in Int /\ total \in Int /\ maxOld \in Int /\ Reserve \in Int
      BY <1>u
    <3>2. w \in Int /\ o \in Int /\ r \in Int /\ r + w <= total
      BY <2>2
    <3> QED  BY <2>3, <3>1, <3>2
  <2> QED  BY <2>1, <2>2, <2>3, <2>4
<1>9. CASE FilesDone
  BY <1>9 DEF FilesDone
<1>10. CASE Fail
  <2>1. CASE pc = "write"
    <3>1. PICK i \in Files : i = at
      BY <2>1
    <3>2. /\ S[i] \in Nat /\ S[i - 1] \in Nat /\ S[i] <= total
          /\ S[i] = S[i - 1] + new[i]
          /\ OldSize(i) \in Nat /\ new[i] \in Nat
      OBVIOUS
    <3>3. free + taken + S[i - 1] + OldSize(i) >= total + maxOld + Reserve
      BY <2>1, <3>1
    <3>4. OldSize(i) <= new[i] => free + taken >= maxOld + Reserve
      <4> HIDE <1>0, <1>s, <1>t, <1>v DEF OldSize, Existed, Position, Room, NoneShrinks
      <4> QED  BY <3>2, <3>3, <1>u
    <3>5. NoneShrinks => free + taken >= maxOld + Reserve
      BY <3>1, <3>4
    <3> QED  BY <1>10, <3>5, <2>1 DEF Fail
  <2>2. CASE pc \in {"file", "backup"}
    <3>1. CASE at \in Files
      <4>1. S[at - 1] \in Nat /\ S[at - 1] <= total
        <5>1. at - 1 \in 0 .. N
          BY <3>1
        <5> QED  BY <5>1 DEF Sums, Scanned, Totals
      <4>2. free + taken + S[at - 1] >= total + maxOld + Reserve
        BY <2>2
      <4>3. free + taken >= maxOld + Reserve
        <5> HIDE <1>0, <1>s, <1>t, <1>v DEF OldSize, Existed, Position, Room, NoneShrinks
        <5> QED  BY <4>1, <4>2, <1>u
      <4> QED  BY <1>10, <2>2, <4>3 DEF Fail
    <3>2. CASE at \notin Files
      BY <1>10, <2>2, <3>2 DEF Fail
    <3> QED  BY <3>1, <3>2
  <2>3. CASE pc = "dirs"
    BY <1>10, <2>3 DEF Fail
  <2> QED  BY <1>10, <2>1, <2>2, <2>3 DEF Fail
<1>11. CASE RenameFails
  <2>1. PICK i \in Files : i = at
    BY <1>11 DEF RenameFails
  <2>2. PICK w \in Nat, o \in Nat, r \in Nat :
           /\ w = new[i] /\ w = new'[i] /\ o = OldSize(i) /\ o = OldSize(i)' /\ r = S[i - 1]
           /\ S[i] = r + w /\ r + w <= total /\ o <= maxOld
           /\ Existed(i) => o = old[i]
    <3>1. new[i] \in Nat /\ OldSize(i) \in Nat /\ S[i - 1] \in Nat /\ OldSize(i)' = OldSize(i)
      OBVIOUS
    <3>2. PICK w \in Nat, o \in Nat, r \in Nat : w = new[i] /\ o = OldSize(i) /\ r = S[i - 1]
      BY <3>1
    <3>3. S[i] = r + w /\ S[i] <= total
      BY <3>2
    <3> QED  BY <3>1, <3>2, <3>3
  <2>3. /\ at' = i - 1 /\ pc' = "undo" /\ free' = free + w /\ taken' = taken
        /\ free + taken + r + o + w >= total + maxOld + Reserve
    BY <1>11, <2>1, <2>2 DEF RenameFails
  <2>4. o <= w => free' + taken' >= maxOld + Reserve
    <3> HIDE <1>0, <1>s, <1>t, <1>u, <1>v DEF OldSize, Existed, Position, Room, NoneShrinks
    <3>1. free \in Int /\ taken \in Int /\ total \in Int /\ maxOld \in Int /\ Reserve \in Int
      BY <1>u
    <3>2. w \in Int /\ o \in Int /\ r \in Int /\ r + w <= total
      BY <2>2
    <3> QED  BY <2>3, <3>1, <3>2
  <2> QED  BY <2>1, <2>2, <2>3, <2>4
<1>12. CASE UndoCreated
  BY <1>12 DEF UndoCreated
<1>13. CASE UndoCopy
  BY <1>13, SMTT(20) DEF UndoCopy, Fits
<1>14. CASE UndoRename
  <2>1. PICK i \in Files : i = at
    BY <1>14 DEF UndoRename
  <2>2. PICK w \in Nat, o \in Nat, r \in Nat :
           /\ w = new[i] /\ w = new'[i] /\ o = OldSize(i) /\ o = OldSize(i)' /\ r = S[i - 1]
           /\ S[i] = r + w /\ r + w <= total /\ o <= maxOld
           /\ Existed(i) => o = old[i]
    <3>1. new[i] \in Nat /\ OldSize(i) \in Nat /\ S[i - 1] \in Nat /\ OldSize(i)' = OldSize(i)
      OBVIOUS
    <3>2. PICK w \in Nat, o \in Nat, r \in Nat : w = new[i] /\ o = OldSize(i) /\ r = S[i - 1]
      BY <3>1
    <3>3. S[i] = r + w /\ S[i] <= total
      BY <3>2
    <3> QED  BY <3>1, <3>2, <3>3
  <2>3. /\ at' = i - 1 /\ pc' = "undo" /\ free' = free + new[i] /\ taken' = taken
        /\ NoneShrinks => free + taken + OldSize(i) >= maxOld + Reserve
    BY <1>14, <2>1, <2>2 DEF UndoRename
  <2>4. NoneShrinks => free' + taken' >= maxOld + Reserve
    <3> HIDE <1>0, <1>s, <1>t, <1>u, <1>v DEF OldSize, Existed, Position, Room, NoneShrinks
    <3>1. free \in Int /\ taken \in Int /\ total \in Int /\ maxOld \in Int /\ Reserve \in Int
      BY <1>u
    <3>2. w \in Int /\ o \in Int /\ r \in Int /\ r + w <= total
      BY <2>2
    <3>3. SUFFICES ASSUME NoneShrinks PROVE free' + taken' >= maxOld + Reserve
      BY Zenon
    <3>4. free' = free + w /\ taken' = taken
      BY <2>2, <2>3
    <3>5. free + taken + o >= maxOld + Reserve
      BY <2>2, <2>3, <3>3
    <3>6. o <= w
      BY <2>2, <3>3 DEF NoneShrinks
    <3> QED  BY <3>1, <3>2, <3>4, <3>5, <3>6
  <2> QED  BY <2>1, <2>2, <2>3, <2>4
<1>15. CASE UndoFails
  BY <1>15 DEF UndoFails
<1>16. CASE UndoRenameFails
  BY <1>16, SMTT(20) DEF UndoRenameFails
<1>17. CASE UndoFilesDone
  BY <1>17 DEF UndoFilesDone
<1>18. CASE UndoDir
  BY <1>18 DEF UndoDir
<1>19. CASE UndoDirsDone
  BY <1>19 DEF UndoDirsDone
<1>20. CASE RemoveBackup
  BY <1>20 DEF RemoveBackup
<1>21. CASE End
  BY <1>21 DEF End
<1>22. CASE Others
  BY <1>22 DEF Others
<1>23. CASE Crash
  BY <1>23 DEF Crash
<1>24. CASE UNCHANGED vars
  BY <1>24 DEF vars
<1> QED
  BY <1>1, <1>3, <1>4, <1>5, <1>6, <1>7, <1>8, <1>9, <1>10, <1>11, <1>12, <1>13, <1>14, <1>15, <1>16, <1>17, <1>18, <1>19, <1>20, <1>21, <1>22, <1>23, <1>24 DEF Next, Forward, Rollback

LEMMA SpaceStep == ASSUME TypeInv, SpaceInv, [Next]_vars PROVE SpaceInv'
<1>1. CASE Scan
  BY <1>1, ScanSpace
<1>2. CASE Check
  BY <1>2, CheckSpace
<1>3. CASE pc = "scan" /\ ~Scan /\ ~Check
  <2>1. UNCHANGED vars
    BY <1>3 DEF Next, Forward, Rollback, Terminal, Working, MakeDirEntry, DirEntriesDone, BeginFile,
           Backup, Write, Rename, FilesDone, Fail, RenameFails, UndoCreated, UndoCopy, UndoRename,
           UndoFails, UndoRenameFails, UndoFilesDone, UndoDir, UndoDirsDone, RemoveBackup, End,
           Others, Crash
  <2> QED  BY <2>1 DEF vars, SpaceInv, Sums, Room, Scanned, NoneShrinks
<1>4. CASE pc = "refused"
  <2>1. pc' = "refused"
    BY <1>4 DEF Next, Forward, Rollback, vars, Terminal, Working, Scan, Check, MakeDirEntry,
           DirEntriesDone, BeginFile, Backup, Write, Rename, FilesDone, Fail, RenameFails,
           UndoCreated, UndoCopy, UndoRename, UndoFails, UndoRenameFails, UndoFilesDone, UndoDir,
           UndoDirsDone, RemoveBackup, End, Others, Crash
  <2> QED  BY <2>1 DEF SpaceInv
<1>5. CASE pc \notin {"scan", "refused"}
  <2>1. PICK S \in Totals : Sums(S) /\ Room(S)
    BY <1>5 DEF SpaceInv
  <2>2. Sums(S)' /\ Room(S)'
    BY <1>5, <2>1, LoopSpace
  <2> QED  BY <2>2 DEF SpaceInv
<1> QED  BY <1>1, <1>2, <1>3, <1>4, <1>5

LEMMA SpaceInvariant == Spec => []SpaceInv
BY InitSpaceInv, SpaceStep, TypeInvariant, PTL DEF Spec

LEMMA RoomEnough ==
    ASSUME TypeInv, SpaceInv PROVE InstallFits /\ GrowingRollbackFits
<1> SUFFICES ASSUME pc \in {"backup", "write", "undo"}
             PROVE  InstallFits /\ GrowingRollbackFits
  BY DEF InstallFits, GrowingRollbackFits
<1>1. PICK S \in Totals : Sums(S) /\ Room(S)
  BY DEF SpaceInv
<1>2. \A i \in 1 .. N : /\ S[i] \in Nat /\ S[i - 1] \in Nat /\ S[i] <= total
                        /\ S[i] = S[i - 1] + new[i] /\ OldSize(i) <= maxOld
                        /\ OldSize(i) \in Nat /\ new[i] \in Nat
                        /\ Existed(i) => OldSize(i) = old[i]
  BY <1>1, SizesAreNatural DEF Sums, Scanned, Totals, TypeInv
<1>3. total \in Nat /\ maxOld \in Nat /\ free \in Nat /\ taken \in 0 .. Reserve
  BY DEF TypeInv, TypeOK
<1>4. InstallFits
  <2>1. CASE pc = "backup"
    <3>1. PICK i \in Files : i = at
      BY <2>1 DEF TypeInv, Position
    <3>2. free + taken + S[i - 1] >= total + maxOld + Reserve /\ old[i] = OldSize(i)
      BY <1>1, <1>2, <2>1, <3>1 DEF Room, TypeInv, Position
    <3>3. PICK w \in Nat, r \in Nat : w = new[i] /\ r = S[i - 1] /\ r + w <= total
      <4>1. PICK w \in Nat, r \in Nat : w = new[i] /\ r = S[i - 1]
        BY <1>2
      <4>2. S[i] = r + w /\ S[i] <= total
        BY <1>2, <4>1
      <4> QED  BY <4>1, <4>2
    <3>4. free + taken + r >= total + maxOld + Reserve
      BY <3>2, <3>3
    <3>5. OldSize(i) <= maxOld /\ OldSize(i) \in Nat
      BY <1>2
    <3>6. OldSize(i) <= free
      <4> HIDE <1>2 DEF OldSize, Existed
      <4> QED  BY <1>3, <3>3, <3>4, <3>5, SMTT(20)
    <3> QED  BY <2>1, <3>1, <3>2, <3>6 DEF InstallFits, Fits
  <2>2. CASE pc = "write"
    <3>1. PICK i \in Files : i = at
      BY <2>2 DEF TypeInv, Position
    <3>2. free + taken + S[i - 1] + OldSize(i) >= total + maxOld + Reserve
      BY <1>1, <2>2, <3>1 DEF Room
    <3>3. PICK w \in Nat, r \in Nat : w = new[i] /\ r = S[i - 1] /\ r + w <= total
      <4>1. PICK w \in Nat, r \in Nat : w = new[i] /\ r = S[i - 1]
        BY <1>2
      <4>2. S[i] = r + w /\ S[i] <= total
        BY <1>2, <4>1
      <4> QED  BY <4>1, <4>2
    <3>4. free + taken + r + OldSize(i) >= total + maxOld + Reserve
      BY <3>2, <3>3
    <3>5. OldSize(i) <= maxOld /\ OldSize(i) \in Nat
      BY <1>2
    <3>6. w <= free
      <4>1. PICK o \in Nat : o = OldSize(i)
        BY <3>5
      <4>2. free + taken + r + o >= total + maxOld + Reserve /\ o <= maxOld /\ r + w <= total
        BY <3>3, <3>4, <3>5, <4>1
      <4>3. free \in Int /\ taken \in Int /\ total \in Int /\ maxOld \in Int /\ Reserve \in Int
        BY <1>3
      <4>4. taken <= Reserve
        BY <1>3
      <4>5. free + taken + r + o >= (r + w) + o + taken
        BY <4>2, <4>3, <4>4
      <4> QED  BY <4>3, <4>5
    <3> QED  BY <2>2, <3>1, <3>3, <3>6 DEF InstallFits, Fits
  <2> QED  BY <2>1, <2>2 DEF InstallFits
<1>5. GrowingRollbackFits
  BY <1>1, <1>2, <1>3 DEF TypeInv, Position, Room, GrowingRollbackFits, Fits, NoneShrinks
<1> QED  BY <1>4, <1>5

\* After the space check no backup and no entry fails for lack of space, as
\* long as the programs beside take no more than the reserve.
THEOREM InstallAlwaysFits == Spec => []InstallFits
BY RoomEnough, TypeInvariant, SpaceInvariant, PTL

\* Nor does a restore, if no entry is smaller than the file it replaces.
THEOREM GrowingRollbackAlwaysFits == Spec => []GrowingRollbackFits
BY RoomEnough, TypeInvariant, SpaceInvariant, PTL
-----------------------------------------------------------------------------
(* The refinement.  Most steps of the installer are invisible in the        *)
(* promise; the others save, replace, restore or forget one file, or report *)
(* the outcome.                                                             *)

LEMMA InitPromise == Init => Promise!Init
BY DEF Init, Promise!Init, Terminal

\* Every step of the installer maps to a step of the promise or to none.
LEMMA PromiseStep ==
    ASSUME TypeInv, TreeInv, TreeInv', [Next]_vars
    PROVE  [Promise!Next]_Promise!promiseVars
<1> USE DEF TypeInv, TypeOK, Position, Terminal, Working
<1>1. ASSUME UNCHANGED <<tree, backup, old>>, pc \notin Terminal, pc' \notin Terminal
      PROVE  UNCHANGED Promise!promiseVars
  BY <1>1 DEF Promise!promiseVars
<1>2. ASSUME UNCHANGED <<tree, backup, old>>, pc \notin Terminal, pc' \in Terminal,
             pc' = "installed" => \A f \in Files : tree[f] = "new",
             pc' \in {"refused", "restored"} => \A f \in Files : tree[f] = "old",
             pc' = "incomplete" => \E f \in Files : tree[f] # "old"
      PROVE  Promise!Next
  <2>1. pc' \in Promise!Outcomes
    BY <1>2 DEF Promise!Outcomes
  <2>2. Promise!Report(pc')
    BY <1>2 DEF Promise!Report, Promise!Running, Promise!AllNew, Promise!AllOld
  <2> QED  BY <2>1, <2>2 DEF Promise!Next
<1>3. CASE Scan \/ Check
  <2>1. pc = "scan" /\ pc' \in {"scan", "refused", "dirs"} /\ UNCHANGED <<tree, backup, old>>
    BY <1>3 DEF Scan, Check
  <2> QED  BY <1>1, <1>2, <2>1 DEF TreeInv, TreeOf
<1>4. CASE \/ MakeDirEntry \/ DirEntriesDone \/ BeginFile \/ FilesDone \/ Write \/ Fail
           \/ RenameFails \/ UndoCopy \/ UndoFails \/ UndoRenameFails \/ UndoFilesDone
           \/ UndoDir \/ Others
  <2>1. UNCHANGED <<tree, backup, old>>
    BY <1>4 DEF MakeDirEntry, DirEntriesDone, BeginFile, FilesDone, Write, Fail, RenameFails,
                UndoCopy, UndoFails, UndoRenameFails, UndoFilesDone, UndoDir, Others
  <2>2. pc \notin Terminal /\ pc' \notin Terminal
    BY <1>4 DEF MakeDirEntry, DirEntriesDone, BeginFile, FilesDone, Write, Fail, RenameFails,
                UndoCopy, UndoFails, UndoRenameFails, UndoFilesDone, UndoDir, Others
  <2> QED  BY <1>1, <2>1, <2>2
<1>5. CASE Backup
  <2>1. PICK i \in Files : i = at
    BY <1>5 DEF Backup
  <2>2. Existed(i) /\ tree[i] = "old"
    BY <1>5, <2>1 DEF Backup, TreeInv, TreeOf, Copying
  <2>3. Promise!Save(i)
    BY <1>5, <2>1, <2>2 DEF Backup, Promise!Save, Promise!Running
  <2> QED  BY <2>3 DEF Promise!Next
<1>6. CASE Rename
  <2>1. PICK i \in Files : i = at
    BY <1>6 DEF Rename
  <2>2. Existed(i) => i \in backup
    BY <1>6, <2>1 DEF Rename, TreeInv, BackedUp
  <2>3. Promise!Replace(i)
    BY <1>6, <2>1, <2>2 DEF Rename, Promise!Replace, Promise!Running
  <2> QED  BY <2>3 DEF Promise!Next
<1>7. CASE UndoCreated \/ UndoRename
  <2>1. PICK i \in Files : i = at
    BY <1>7 DEF UndoCreated, UndoRename
  <2>2. tree[i] = "new"
    BY <1>7, <2>1 DEF UndoCreated, UndoRename, TreeInv, TreeOf, Undoing
  <2>3. Existed(i) => i \in backup
    BY <1>7, <2>1, <2>2 DEF UndoCreated, UndoRename, TreeInv, BackedUp
  <2>4. Promise!Restore(i)
    BY <1>7, <2>1, <2>3 DEF UndoCreated, UndoRename, Promise!Restore, Promise!Running
  <2> QED  BY <2>4 DEF Promise!Next
<1>8. CASE RemoveBackup
  <2>1. PICK f \in backup : backup' = backup \ {f}
    BY <1>8 DEF RemoveBackup
  <2>2. (\A g \in Files : tree[g] = "new") \/ (\A g \in Files : tree[g] = "old")
    BY <1>8 DEF RemoveBackup, TreeInv, TreeOf
  <2>3. f \in Files /\ Promise!Forget(f)
    BY <1>8, <2>1, <2>2 DEF RemoveBackup, Promise!Forget, Promise!Running, Promise!AllNew,
                            Promise!AllOld
  <2> QED  BY <2>3 DEF Promise!Next
<1>9. CASE End
  <2>1. /\ pc \in {"clean", "undoClean"} /\ pc' \in {"installed", "restored"}
        /\ UNCHANGED <<tree, backup, old>>
    BY <1>9 DEF End
  <2> QED  BY <1>2, <2>1 DEF TreeInv, TreeOf
<1>10. CASE UndoDirsDone
  <2>1. /\ pc = "undoDirs" /\ pc' \in {"undoClean", "incomplete"}
        /\ UNCHANGED <<tree, backup, old, unrestored>>
    BY <1>10 DEF UndoDirsDone
  <2>2. pc' = "incomplete" => \E f \in Files : tree[f] # "old"
    BY <2>1 DEF TreeInv, NotedOnlyInRollback
  <2> QED  BY <1>1, <1>2, <2>1, <2>2
<1>11. CASE Crash
  <2>1. pc \notin Terminal /\ pc' = "crashed" /\ UNCHANGED <<tree, backup, old>>
    BY <1>11 DEF Crash
  <2> QED  BY <1>2, <2>1
<1>12. CASE UNCHANGED vars
  BY <1>12 DEF vars, Promise!promiseVars
<1> QED
  BY <1>3, <1>4, <1>5, <1>6, <1>7, <1>8, <1>9, <1>10, <1>11, <1>12 DEF Next, Forward, Rollback

\* The installer implements the promise, whatever the archive, the tree and
\* the errors.
THEOREM PromiseKept == Spec => KeepsPromise
<1>1. Spec => Promise!Init /\ [][Promise!Next]_Promise!promiseVars
  BY InitPromise, PromiseStep, TypeInvariant, TreeInvariant, PTL DEF Spec
<1> QED  BY <1>1, PTL DEF KeepsPromise, Promise!Spec
=============================================================================
