------------------------- MODULE UploadSessionProofs -------------------------
(***************************************************************************)
(* Safety of UploadSession for every number of senders, files, handlers,   *)
(* blocks and names.  The inductive invariant says who may hold an inode:  *)
(* a temporary file is written only by handlers aiming at its path, two    *)
(* handlers aiming at one path have made it contested, and so nobody but   *)
(* its own handler touches the bytes behind an uncontested path.           *)
(***************************************************************************)
EXTENDS UploadSession, TLAPS

Serves(h) == job[h].pc # "idle"
Copying(h) == job[h].pc = "copying"
HasDest(h) == job[h].pc \in {"named", "copying", "renamed"}

\* The fields of a job are set as far as its stage goes.
JobShape ==
    \A h \in Handlers :
        /\ Serves(h) => job[h].sid \in SessionId /\ job[h].fid \in FileIds
        /\ HasDest(h) => job[h].dest \in Paths /\ job[h].dest[1] = NameOf[job[h].fid]
        /\ Copying(h) <=> job[h].ino # None
        /\ job[h].pc \in {"admitted", "named"} => job[h].off = 0

\* A stopped daemon serves nobody.
Quiet == ~up => \A h \in Handlers : ~Serves(h)

\* Two handlers aim at one path only if it is contested.
AimApart ==
    \A g, h \in Handlers : g # h /\ Aiming(g) /\ Aiming(h) /\ job[g].dest = job[h].dest
                              => job[h].dest \in contested

\* An uncontested temporary file is the one its handler opened.
OwnPart ==
    \A h \in Handlers : Copying(h) /\ job[h].dest \notin contested
                           => parts[job[h].dest] = job[h].ino

\* An inode has one name, and only handlers aiming at that name write to it.
OneName ==
    /\ \A p, q \in Paths : parts[p] # None /\ parts[p] = parts[q] => p = q
    /\ \A p, q \in Paths : parts[p] # None => parts[p] # disk[q]
    /\ \A p, q \in Paths : disk[p] # None /\ disk[p] = disk[q] => p = q

WritersAim ==
    \A h \in Handlers : Copying(h) =>
        /\ \A g \in Handlers : Copying(g) /\ job[g].ino = job[h].ino => job[g].dest = job[h].dest
        /\ \A p \in Paths : parts[p] = job[h].ino => p = job[h].dest
        /\ \A p \in Paths : disk[p] = job[h].ino => p = job[h].dest /\ p \in contested

\* The blocks written so far are the handler's own.
OwnBlocks ==
    \A h \in Handlers : Copying(h) /\ job[h].dest \notin contested =>
        \A b \in 1 .. job[h].off :
            LET c == content[job[h].ino][b] IN
            /\ c # None /\ c.sid = job[h].sid /\ c.fid = job[h].fid
            /\ job[h].sum = "bad" \/ c.good

\* A handler aims at a taken name only after uniquePath gave up, or together
\* with another one.
AimFree ==
    \A h \in Handlers : Aiming(h) /\ disk[job[h].dest] # None => ~Exclusive(job[h].dest)

\* A file that was renamed and not yet marked Received is the handler's own.
RenamedStored ==
    \A h \in Handlers : job[h].pc = "renamed" /\ Exclusive(job[h].dest)
                           => StoredFrom(job[h].dest, job[h].sid, job[h].fid)

TypeInv == TypeOK /\ JobShape /\ Quiet

DiskInv == AimApart /\ OwnPart /\ OneName /\ WritersAim /\ OwnBlocks /\ AimFree

IInv == TypeInv /\ DiskInv /\ PartialsOwned /\ StoredIntact /\ RenamedStored /\ ReceivedStored

-----------------------------------------------------------------------------
USE ConstantsAssumption

\* uniquePath answers with a path of the asked name that is free, or with the
\* last name.
LEMMA UniquePathSound ==
    ASSUME NEW n \in Names
    PROVE  /\ UniquePath(n) \in Paths
           /\ UniquePath(n)[1] = n
           /\ disk[UniquePath(n)] = None \/ UniquePath(n)[2] = MaxCopies + 1
BY DEF UniquePath, Paths

LEMMA IdleJob == Idle \in Job /\ Idle.pc = "idle" /\ Idle.ino = None
BY DEF Idle, Job, Stages

LEMMA NoSessionType == NoSession \in Session
BY DEF NoSession, Session

LEMMA InitType == Init => TypeInv
BY IdleJob, NoSessionType DEF Init, TypeInv, TypeOK, JobShape, Quiet, Empty,
       Serves, HasDest, Copying

\* What an action that gives one handler a new job has to show.
JobFits(j) ==
    /\ j \in Job
    /\ j.pc # "idle" => j.sid \in SessionId /\ j.fid \in FileIds
    /\ j.pc \in {"named", "copying", "renamed"} => j.dest \in Paths /\ j.dest[1] = NameOf[j.fid]
    /\ j.pc = "copying" <=> j.ino # None
    /\ j.pc \in {"admitted", "named"} => j.off = 0

LEMMA IdleFits == JobFits(Idle)
BY IdleJob DEF JobFits

LEMMA JobsFit == TypeInv => \A h \in Handlers : JobFits(job[h])
BY DEF TypeInv, TypeOK, JobShape, JobFits, Serves, HasDest, Copying

\* One handler's job changes, to one that fits; a stopped daemon's does not.
LEMMA JobStep ==
    ASSUME TypeInv, NEW h \in Handlers, NEW j, JobFits(j),
           job' = [job EXCEPT ![h] = j], up' = up, up \/ job[h].pc # "idle"
    PROVE  job' \in [Handlers -> Job] /\ JobShape' /\ Quiet'
<1>1. job \in [Handlers -> Job]
  BY DEF TypeInv, TypeOK
<1>2. \A g \in Handlers : job'[g] = IF g = h THEN j ELSE job[g]
  BY <1>1
<1>3. \A g \in Handlers : JobFits(job'[g])
  BY <1>2, JobsFit
<1>4. Quiet'
  BY <1>2 DEF TypeInv, Quiet, Serves
<1> QED
  BY <1>1, <1>3, <1>4 DEF JobShape, JobFits, Serves, HasDest, Copying

LEMMA TypeStep == TypeInv /\ [Next]_vars => TypeInv'
<1> SUFFICES ASSUME TypeInv, [Next]_vars PROVE TypeInv'
  OBVIOUS
<1> USE DEF TypeInv
<1>1. ASSUME NEW s \in Senders, NEW m \in SUBSET FileIds, PrepareAccept(s, m)
      PROVE  TypeInv'
  <2> DEFINE id == <<s, opened[s] + 1>>
  <2>1. opened[s] \in 0 .. MaxSessions /\ opened[s] < MaxSessions
    BY <1>1 DEF PrepareAccept, TypeOK
  <2>2. id \in SessionId /\ opened' \in [Senders -> 0 .. MaxSessions]
    BY <1>1, <2>1 DEF PrepareAccept, TypeOK, SessionId
  <2>3. session' \in Session
    BY <1>1, <2>2 DEF PrepareAccept, Session, NoSession
  <2>4. offers' \in [Senders -> SUBSET SessionId]
    <3>1. CASE offers' = offers
      BY <3>1 DEF TypeOK
    <3>2. CASE offers' = [offers EXCEPT ![s] = @ \cup {id}]
      <4>1. offers[s] \cup {id} \in SUBSET SessionId
        BY <2>2 DEF TypeOK
      <4> QED  BY <3>2, <4>1 DEF TypeOK
    <3> QED  BY <1>1, <3>1, <3>2 DEF PrepareAccept, Answer
  <2> QED
    BY <1>1, <2>2, <2>3, <2>4 DEF PrepareAccept, TypeOK, JobShape, Quiet, diskVars, history,
       Serves, HasDest, Copying
<1>2. ASSUME NEW s \in Senders, NEW m \in SUBSET FileIds, PrepareReplay(s, m)
      PROVE  TypeInv'
  <2>1. session.id \in SessionId
    BY <1>2 DEF PrepareReplay, Blocking, TypeOK, Session
  <2>2. offers' \in [Senders -> SUBSET SessionId]
    <3>1. CASE offers' = offers
      BY <3>1 DEF TypeOK
    <3>2. CASE offers' = [offers EXCEPT ![s] = @ \cup {session.id}]
      <4>1. offers[s] \cup {session.id} \in SUBSET SessionId
        BY <2>1 DEF TypeOK
      <4> QED  BY <3>2, <4>1 DEF TypeOK
    <3> QED  BY <1>2, <3>1, <3>2 DEF PrepareReplay, Answer
  <2> QED
    BY <1>2, <2>2 DEF PrepareReplay, TypeOK, JobShape, Quiet, diskVars, history, Serves,
       HasDest, Copying
<1>3. ASSUME NEW s \in Senders, Cancel(s) PROVE TypeInv'
  BY <1>3 DEF Cancel, TypeOK, JobShape, Quiet, Session, diskVars, history, Serves, HasDest, Copying
<1>4. CASE Expire
  BY <1>4 DEF Expire, TypeOK, JobShape, Quiet, Session, diskVars, history, Serves, HasDest, Copying
<1>5. ASSUME NEW h \in Handlers, NEW s \in Senders, NEW f \in FileIds, UploadAdmit(h, s, f)
      PROVE  TypeInv'
  <2> DEFINE j == Admitted(session.id, f)
  <2>1. session.id \in SessionId
    BY <1>5 DEF UploadAdmit, TypeOK
  <2>2. JobFits(j)
    BY <2>1 DEF JobFits, Job, Admitted, Stages
  <2>3. overlapped' \subseteq SessionId \X FileIds
    BY <1>5, <2>1 DEF UploadAdmit, TypeOK
  <2> QED
    BY <1>5, <2>2, <2>3, JobStep DEF UploadAdmit, TypeOK, sessionVars, diskVars
<1>6. ASSUME NEW h \in Handlers, UploadName(h) PROVE TypeInv'
  <2> DEFINE p == UniquePath(NameOf[job[h].fid])
             j == [job[h] EXCEPT !.pc = "named", !.dest = p]
  <2>1. JobFits(job[h]) /\ job[h].pc = "admitted"
    BY <1>6, JobsFit DEF UploadName
  <2>2. p \in Paths /\ p[1] = NameOf[job[h].fid]
    BY <2>1, UniquePathSound DEF JobFits
  <2>3. JobFits(j)
    BY <2>1, <2>2 DEF JobFits, Job, Stages
  <2> QED
    BY <1>6, <2>1, <2>2, <2>3, JobStep DEF UploadName, TypeOK, sessionVars, diskVars
<1>7. ASSUME NEW h \in Handlers, UploadFail(h) PROVE TypeInv'
  BY <1>7, IdleFits, JobStep DEF UploadFail, Finish, TypeOK, sessionVars, diskVars, history
<1>8. ASSUME NEW h \in Handlers, NEW i \in Inodes, UploadOpen(h, i) PROVE TypeInv'
  <2> DEFINE j == [job[h] EXCEPT !.pc = "copying", !.ino = i]
  <2>1. JobFits(job[h]) /\ job[h].pc = "named"
    BY <1>8, JobsFit DEF UploadOpen
  <2>2. JobFits(j)
    BY <2>1 DEF JobFits, Job, Stages
  <2>3. content' \in [Inodes -> [1 .. Blocks -> Block \cup {None}]]
    BY <1>8 DEF UploadOpen, TypeOK, Empty
  <2> QED
    BY <1>8, <2>1, <2>2, <2>3, JobStep DEF UploadOpen, TypeOK, sessionVars, history
<1>9. ASSUME NEW h \in Handlers, NEW good \in BOOLEAN, UploadCopy(h, good) PROVE TypeInv'
  <2> DEFINE b == job[h].off + 1
             j == IF good THEN [job[h] EXCEPT !.off = b]
                          ELSE [job[h] EXCEPT !.off = b, !.sum = "bad"]
             c == [sid |-> job[h].sid, fid |-> job[h].fid, good |-> good]
  <2>1. JobFits(job[h]) /\ job[h].pc = "copying" /\ job[h].off < Blocks
    BY <1>9, JobsFit DEF UploadCopy
  <2>2. b \in 1 .. Blocks
    BY <2>1 DEF JobFits, Job
  <2>3. JobFits(j)
    <3> DEFINE k == [job[h] EXCEPT !.off = b]
    <3>1. JobFits(k) /\ k.pc = "copying"
      BY <2>1, <2>2 DEF JobFits, Job
    <3> HIDE DEF k
    <3>2. JobFits([k EXCEPT !.sum = "bad"])
      BY <3>1 DEF JobFits, Job
    <3>3. j = IF good THEN k ELSE [k EXCEPT !.sum = "bad"]
      BY DEF k
    <3> QED  BY <3>1, <3>2, <3>3
  <2>4. c \in Block
    BY <2>1 DEF JobFits, Block
  <2>5. content' \in [Inodes -> [1 .. Blocks -> Block \cup {None}]]
    BY <1>9, <2>2, <2>4 DEF UploadCopy, TypeOK
  <2> QED
    <3>1. job' \in [Handlers -> Job] /\ JobShape' /\ Quiet'
      <4>1. job' = [job EXCEPT ![h] = j] /\ up' = up
        BY <1>9 DEF UploadCopy
      <4> HIDE DEF j
      <4> QED  BY <2>1, <2>3, <4>1, JobStep
    <3> QED  BY <1>9, <2>5, <3>1 DEF UploadCopy, TypeOK, sessionVars, history
<1>10. ASSUME NEW h \in Handlers, UploadReject(h) PROVE TypeInv'
  BY <1>10, IdleFits, JobStep DEF UploadReject, Finish, TypeOK, sessionVars, history
<1>11. ASSUME NEW h \in Handlers, UploadLand(h) PROVE TypeInv'
  <2> DEFINE j == [job[h] EXCEPT !.pc = "renamed", !.ino = None]
  <2>1. JobFits(job[h]) /\ job[h].pc = "copying"
    BY <1>11, JobsFit DEF UploadLand
  <2>2. JobFits(j)
    BY <2>1 DEF JobFits, Job, Stages
  <2> QED
    BY <1>11, <2>1, <2>2, JobStep DEF UploadLand, TypeOK, sessionVars, history
<1>12. ASSUME NEW h \in Handlers, UploadCommit(h) PROVE TypeInv'
  <2>1. JobFits(job[h]) /\ job[h].pc = "renamed"
    BY <1>12, JobsFit DEF UploadCommit
  <2>2. session' \in Session
    BY <1>12, <2>1 DEF UploadCommit, TypeOK, Session, JobFits
  <2> QED
    <3>1. job' \in [Handlers -> Job] /\ JobShape' /\ Quiet'
      BY <1>12, <2>1, IdleFits, JobStep DEF UploadCommit, Finish
    <3>2. counted' \in Nat
      BY <1>12 DEF UploadCommit, TypeOK
    <3> QED  BY <1>12, <2>2, <3>1, <3>2 DEF UploadCommit, TypeOK, diskVars, history
<1>13. CASE Stop
  <2>1. job' \in [Handlers -> Job] /\ \A h \in Handlers : job'[h] = Idle
    BY <1>13, IdleJob DEF Stop
  <2>2. JobShape' /\ Quiet'
    BY <2>1, IdleJob DEF JobShape, Quiet, Serves, HasDest, Copying
  <2> QED
    BY <1>13, <2>1, <2>2, NoSessionType DEF Stop, TypeOK, diskVars, history
<1>14. CASE Start
  BY <1>14 DEF Start, CleanupStalePartials, TypeOK, JobShape, Quiet, sessionVars, history,
       Serves, HasDest, Copying
<1>15. CASE UNCHANGED vars
  BY <1>15 DEF vars, TypeOK, JobShape, Quiet, Serves, HasDest, Copying
<1> QED
  BY <1>1, <1>2, <1>3, <1>4, <1>5, <1>6, <1>7, <1>8, <1>9, <1>10, <1>11, <1>12, <1>13, <1>14,
     <1>15 DEF Next, Prepare, Upload

\* The types of the model's variables.
THEOREM TypeCorrect == Spec => []TypeOK
<1>1. TypeInv => TypeOK
  BY DEF TypeInv
<1> QED  BY <1>1, InitType, TypeStep, PTL DEF Spec

-----------------------------------------------------------------------------
(* No temporary file without its writer.                                    *)

LEMMA PartialsStep == TypeInv /\ PartialsOwned /\ [Next]_vars => PartialsOwned'
<1> SUFFICES ASSUME TypeInv, PartialsOwned, [Next]_vars, up',
                    NEW p \in Paths, parts'[p] # None
             PROVE  \E g \in Handlers : job'[g].pc = "copying" /\ job'[g].dest = p
  BY DEF PartialsOwned
<1> USE DEF TypeInv, TypeOK
<1>1. CASE UNCHANGED <<up, job, parts>>
  BY <1>1 DEF PartialsOwned
<1>2. ASSUME NEW h \in Handlers, UNCHANGED <<up, parts>>, job[h].pc # "copying",
             \A g \in Handlers : g # h => job'[g] = job[g]
      PROVE  \E g \in Handlers : job'[g].pc = "copying" /\ job'[g].dest = p
  BY <1>2 DEF PartialsOwned
<1>3. ASSUME NEW h \in Handlers, NEW i \in Inodes, UploadOpen(h, i)
      PROVE  \E g \in Handlers : job'[g].pc = "copying" /\ job'[g].dest = p
  <2>1. job[h] \in Job /\ job[h].pc = "named" /\ job[h].dest \in Paths
    BY <1>3 DEF UploadOpen, JobShape, HasDest
  <2>2. job'[h].pc = "copying" /\ job'[h].dest = job[h].dest
    BY <1>3, <2>1 DEF UploadOpen, Job
  <2>3. CASE p = job[h].dest
    BY <2>2, <2>3
  <2>4. CASE p # job[h].dest
    BY <1>3, <2>1, <2>4 DEF UploadOpen, PartialsOwned, sessionVars
  <2> QED  BY <2>3, <2>4
<1>4. ASSUME NEW h \in Handlers, NEW good \in BOOLEAN, UploadCopy(h, good)
      PROVE  \E g \in Handlers : job'[g].pc = "copying" /\ job'[g].dest = p
  <2>1. job'[h].pc = job[h].pc /\ job'[h].dest = job[h].dest
    BY <1>4 DEF UploadCopy, Job
  <2> QED  BY <1>4, <2>1 DEF UploadCopy, PartialsOwned
<1>5. ASSUME NEW h \in Handlers, job[h].pc = "copying", up' = up,
             parts' = [parts EXCEPT ![job[h].dest] = None],
             \A g \in Handlers : g # h => job'[g] = job[g]
      PROVE  \E g \in Handlers : job'[g].pc = "copying" /\ job'[g].dest = p
  <2>1. job[h].dest \in Paths
    BY <1>5 DEF JobShape, HasDest
  <2>2. \A q \in Paths : parts'[q] = IF q = job[h].dest THEN None ELSE parts[q]
    BY <1>5
  <2>3. p # job[h].dest /\ parts[p] # None
    BY <2>2
  <2>4. PICK g \in Handlers : job[g].pc = "copying" /\ job[g].dest = p
    BY <1>5, <2>3 DEF PartialsOwned
  <2> QED  BY <1>5, <2>3, <2>4
<1>6. CASE Stop
  BY <1>6 DEF Stop
<1>7. CASE Start
  BY <1>7 DEF Start, CleanupStalePartials
<1>8. ASSUME NEW h \in Handlers, Upload(h)
      PROVE  \E g \in Handlers : job'[g].pc = "copying" /\ job'[g].dest = p
  <2>1. ASSUME NEW s \in Senders, NEW f \in FileIds, UploadAdmit(h, s, f)
        PROVE  \E g \in Handlers : job'[g].pc = "copying" /\ job'[g].dest = p
    BY <1>2, <2>1 DEF UploadAdmit, diskVars
  <2>2. CASE UploadName(h)
    BY <1>2, <2>2 DEF UploadName, diskVars
  <2>3. CASE UploadFail(h)
    BY <1>2, <2>3 DEF UploadFail, Finish, diskVars
  <2>4. CASE UploadReject(h)
    BY <1>5, <2>4 DEF UploadReject, Finish
  <2>5. CASE UploadLand(h)
    BY <1>5, <2>5 DEF UploadLand
  <2>6. CASE UploadCommit(h)
    BY <1>2, <2>6 DEF UploadCommit, Finish, diskVars
  <2> QED  BY <1>3, <1>4, <1>8, <2>1, <2>2, <2>3, <2>4, <2>5, <2>6 DEF Upload
<1>9. ASSUME NEW s \in Senders, Prepare(s) \/ Cancel(s) PROVE UNCHANGED <<up, job, parts>>
  BY <1>9 DEF Prepare, PrepareAccept, PrepareReplay, Cancel, diskVars
<1>10. CASE Expire \/ UNCHANGED vars
  BY <1>1, <1>10 DEF Expire, diskVars, vars
<1> QED
  BY <1>1, <1>6, <1>7, <1>8, <1>9, <1>10 DEF Next

\* Every temporary file of a running daemon has a handler that will rename or
\* remove it: no error path and no crash leaves one behind for good.
THEOREM PartialsAreOwned == Spec => []PartialsOwned
<1>1. Init => PartialsOwned
  BY DEF Init, PartialsOwned
<1> QED  BY <1>1, InitType, TypeStep, PartialsStep, PTL DEF Spec

-----------------------------------------------------------------------------
(* Who may hold an inode.                                                   *)

\* A handler that is aiming nowhere after the step takes nothing but its own
\* temporary name with it.
LEMMA AwayStep ==
    ASSUME TypeInv, DiskInv, NEW h \in Handlers,
           \A g \in Handlers : g # h => job'[g] = job[g],
           job'[h].pc \notin {"named", "copying"},
           UNCHANGED <<disk, content, contested>>,
           \/ parts' = parts
           \/ job[h].pc = "copying" /\ parts' = [parts EXCEPT ![job[h].dest] = None]
    PROVE  DiskInv'
<1> USE DEF DiskInv, Aiming, Copying
<1>1. \A g \in Handlers : Aiming(g)' => g # h /\ Aiming(g) /\ job'[g] = job[g]
  OBVIOUS
<1>2. \A p \in Paths : parts'[p] = parts[p] \/ parts'[p] = None
  BY DEF TypeInv, TypeOK
<1>3. AimApart'
  BY <1>1 DEF AimApart
<1>4. OwnPart'
  <2> SUFFICES ASSUME NEW g \in Handlers, Copying(g)', job'[g].dest \notin contested'
               PROVE  parts'[job'[g].dest] = job'[g].ino
    BY DEF OwnPart
  <2>1. g # h /\ job'[g] = job[g] /\ parts[job[g].dest] = job[g].ino
    BY <1>1 DEF OwnPart
  <2>2. job[h].pc = "copying" => job[h].dest # job[g].dest
    BY <2>1 DEF AimApart
  <2>3. job[g].dest \in Paths
    BY <2>1 DEF TypeInv, JobShape, HasDest
  <2> QED  BY <2>1, <2>2, <2>3 DEF TypeInv, TypeOK
<1>5. OneName'
  BY <1>2 DEF OneName
<1>6. WritersAim'
  <2>1. \A g \in Handlers : job[g].pc = "copying" => job[g].ino # None
    BY DEF TypeInv, JobShape
  <2> QED  BY <1>1, <1>2, <2>1 DEF WritersAim
<1>7. OwnBlocks'
  BY <1>1 DEF OwnBlocks
<1>8. AimFree'
  BY <1>1 DEF AimFree, Exclusive
<1> QED  BY <1>3, <1>4, <1>5, <1>6, <1>7, <1>8

LEMMA NameStep == ASSUME TypeInv, DiskInv, NEW h \in Handlers, UploadName(h) PROVE DiskInv'
<1> USE DEF DiskInv, Aiming, Copying
<1> DEFINE p == UniquePath(NameOf[job[h].fid])
<1>1. JobFits(job[h]) /\ job[h].pc = "admitted" /\ contested \subseteq contested'
      /\ UNCHANGED <<parts, disk, content>>
  BY JobsFit DEF UploadName, diskVars
<1>2. p \in Paths /\ (disk[p] = None \/ p[2] = MaxCopies + 1)
  BY <1>1, UniquePathSound DEF JobFits
<1>3. job'[h].pc = "named" /\ job'[h].dest = p
  BY <1>1 DEF UploadName, TypeInv, TypeOK, Job
<1>4. \A g \in Handlers : g # h => job'[g] = job[g]
  BY DEF UploadName
<1>5. \A g \in Handlers : g # h /\ Aiming(g) /\ job[g].dest = p => p \in contested'
  BY DEF UploadName, Targeted
<1> HIDE DEF p
<1>6. AimApart'
  BY <1>1, <1>3, <1>4, <1>5 DEF AimApart
<1>7. OwnPart'
  BY <1>1, <1>3, <1>4 DEF OwnPart
<1>8. OneName'
  BY <1>1 DEF OneName
<1>9. WritersAim'
  BY <1>1, <1>3, <1>4 DEF WritersAim
<1>10. OwnBlocks'
  BY <1>1, <1>3, <1>4 DEF OwnBlocks
<1>11. AimFree'
  <2>1. p[2] = MaxCopies + 1 => ~(p[2] <= MaxCopies)
    OBVIOUS
  <2> QED  BY <1>1, <1>2, <1>3, <1>4, <2>1 DEF AimFree, Exclusive
<1> QED  BY <1>6, <1>7, <1>8, <1>9, <1>10, <1>11

LEMMA OpenStep ==
    ASSUME TypeInv, DiskInv, NEW h \in Handlers, NEW i \in Inodes, UploadOpen(h, i)
    PROVE  DiskInv'
<1> USE DEF DiskInv, Aiming, Copying
<1> DEFINE p == job[h].dest
<1>1. /\ JobFits(job[h]) /\ job[h].pc = "named" /\ p \in Paths /\ i # None
      /\ UNCHANGED <<disk, contested>>
  BY JobsFit DEF UploadOpen, JobFits, history
<1>2. job'[h].pc = "copying" /\ job'[h].dest = p /\ job'[h].ino = i /\ job'[h].off = 0
  <2>1. job[h].off = 0
    BY <1>1 DEF JobFits
  <2> QED  BY <1>1, <2>1 DEF UploadOpen, TypeInv, TypeOK, Job
<1>3. \A g \in Handlers : g # h => job'[g] = job[g]
  BY DEF UploadOpen
<1>4. \A q \in Paths : parts'[q] = IF q = p THEN i ELSE parts[q]
  BY <1>1 DEF UploadOpen, TypeInv, TypeOK
<1>5. \A k \in Inodes : k # i => content'[k] = content[k]
  BY DEF UploadOpen
<1>6. \A q \in Paths : disk[q] # i /\ (q # p => parts[q] # i)
  <2>1. CASE parts[p] # None
    BY <1>1, <2>1 DEF UploadOpen, OpenInode, OneName
  <2>2. CASE parts[p] = None
    BY <1>1, <2>2 DEF UploadOpen, OpenInode, Unused
  <2> QED  BY <2>1, <2>2
<1>7. \A g \in Handlers : Copying(g) /\ job[g].ino = i => job[g].dest = p
  <2>1. CASE parts[p] # None
    BY <1>1, <2>1 DEF UploadOpen, OpenInode, WritersAim
  <2>2. CASE parts[p] = None
    BY <1>1, <2>2 DEF UploadOpen, OpenInode, Unused
  <2> QED  BY <2>1, <2>2
<1>8. \A g \in Handlers : Copying(g) => job[g].ino \in Inodes
  BY DEF TypeInv, TypeOK, JobShape, Job
<1> HIDE DEF p
<1>9. AimApart'
  BY <1>1, <1>2, <1>3 DEF AimApart, p
<1>10. \A g \in Handlers : g # h /\ Copying(g) /\ job[g].dest = p => p \in contested
  BY <1>1 DEF AimApart, p
<1>11. OwnPart'
  <2> SUFFICES ASSUME NEW g \in Handlers, Copying(g)', job'[g].dest \notin contested'
               PROVE  parts'[job'[g].dest] = job'[g].ino
    BY DEF OwnPart
  <2>1. CASE g = h
    BY <1>1, <1>2, <1>4, <2>1
  <2>2. CASE g # h
    <3>1. job'[g] = job[g] /\ job[g].dest # p /\ job[g].dest \in Paths
      BY <1>1, <1>3, <1>10, <2>2 DEF TypeInv, JobShape, HasDest
    <3> QED  BY <1>1, <1>4, <3>1 DEF OwnPart
  <2> QED  BY <2>1, <2>2
<1>12. OneName'
  BY <1>1, <1>4, <1>6 DEF OneName
<1>13. WritersAim'
  <2> SUFFICES ASSUME NEW g \in Handlers, Copying(g)'
      PROVE /\ \A k \in Handlers : Copying(k)' /\ job'[k].ino = job'[g].ino
                                       => job'[k].dest = job'[g].dest
            /\ \A q \in Paths : parts'[q] = job'[g].ino => q = job'[g].dest
            /\ \A q \in Paths : disk'[q] = job'[g].ino
                                       => q = job'[g].dest /\ q \in contested'
    BY DEF WritersAim
  <2>1. CASE g = h
    BY <1>1, <1>2, <1>3, <1>4, <1>6, <1>7, <2>1
  <2>2. CASE g # h
    BY <1>1, <1>2, <1>3, <1>4, <1>6, <1>7, <2>2 DEF WritersAim
  <2> QED  BY <2>1, <2>2
<1>14. OwnBlocks'
  <2> SUFFICES ASSUME NEW g \in Handlers, Copying(g)', job'[g].dest \notin contested',
                      NEW b \in 1 .. job'[g].off
      PROVE LET c == content'[job'[g].ino][b] IN
            /\ c # None /\ c.sid = job'[g].sid /\ c.fid = job'[g].fid
            /\ job'[g].sum = "bad" \/ c.good
    BY DEF OwnBlocks
  <2>1. g # h
    BY <1>2
  <2>2. job'[g] = job[g] /\ job[g].ino # i /\ content'[job[g].ino] = content[job[g].ino]
    BY <1>1, <1>3, <1>5, <1>7, <1>8, <1>10, <2>1
  <2> QED  BY <1>1, <2>2 DEF OwnBlocks
<1>15. AimFree'
  BY <1>1, <1>2, <1>3 DEF AimFree, Exclusive, p
<1> QED  BY <1>9, <1>11, <1>12, <1>13, <1>14, <1>15

LEMMA CopyStep ==
    ASSUME TypeInv, DiskInv, NEW h \in Handlers, NEW good \in BOOLEAN, UploadCopy(h, good)
    PROVE  DiskInv'
<1> USE DEF DiskInv, Aiming, Copying
<1> DEFINE i == job[h].ino
           b == job[h].off + 1
           c == [sid |-> job[h].sid, fid |-> job[h].fid, good |-> good]
<1>1. /\ JobFits(job[h]) /\ job[h].pc = "copying" /\ i \in Inodes /\ b \in 1 .. Blocks
      /\ UNCHANGED <<parts, disk, contested>>
  BY JobsFit DEF UploadCopy, JobFits, Job, history
<1>2. /\ job'[h].pc = "copying" /\ job'[h].dest = job[h].dest /\ job'[h].ino = i
      /\ job'[h].sid = job[h].sid /\ job'[h].fid = job[h].fid /\ job'[h].off = b
      /\ job'[h].sum # "bad" => job[h].sum # "bad" /\ good
  <2>1. CASE good
    BY <1>1, <2>1 DEF UploadCopy, TypeInv, TypeOK, Job
  <2>2. CASE ~good
    BY <1>1, <2>2 DEF UploadCopy, TypeInv, TypeOK, Job
  <2> QED  BY <2>1, <2>2
<1>3. \A g \in Handlers : g # h => job'[g] = job[g]
  BY DEF UploadCopy
<1>4. content'[i] = [content[i] EXCEPT ![b] = c] /\ \A k \in Inodes : k # i => content'[k] = content[k]
  BY <1>1 DEF UploadCopy, TypeInv, TypeOK
<1>5. \A d \in 1 .. Blocks : content'[i][d] = IF d = b THEN c ELSE content[i][d]
  BY <1>1, <1>4 DEF TypeInv, TypeOK
<1>6. c # None /\ c.sid = job[h].sid /\ c.fid = job[h].fid /\ c.good = good
  <2>1. c \in Block
    BY <1>1 DEF JobFits, Block
  <2> QED  BY <2>1
<1>7. \A g \in Handlers : Copying(g) => job[g].ino \in Inodes
  BY DEF TypeInv, TypeOK, JobShape, Job
<1> HIDE DEF i, b, c
<1>8. AimApart'
  BY <1>1, <1>2, <1>3 DEF AimApart
<1>9. OwnPart'
  BY <1>1, <1>2, <1>3 DEF OwnPart, i
<1>10. OneName'
  BY <1>1 DEF OneName
<1>11. WritersAim'
  BY <1>1, <1>2, <1>3 DEF WritersAim, i
<1>12. OwnBlocks'
  <2> SUFFICES ASSUME NEW g \in Handlers, Copying(g)', job'[g].dest \notin contested',
                      NEW d \in 1 .. job'[g].off
      PROVE LET e == content'[job'[g].ino][d] IN
            /\ e # None /\ e.sid = job'[g].sid /\ e.fid = job'[g].fid
            /\ job'[g].sum = "bad" \/ e.good
    BY DEF OwnBlocks
  <2>1. CASE g = h
    <3>1. d \in 1 .. Blocks /\ (d = b \/ d \in 1 .. job[h].off)
      BY <1>1, <1>2, <2>1 DEF b, JobFits, Job
    <3>2. CASE d = b
      BY <1>2, <1>5, <1>6, <2>1, <3>1, <3>2
    <3>3. CASE d # b
      <4>1. content'[i][d] = content[i][d] /\ d \in 1 .. job[h].off
        BY <1>5, <3>1, <3>3
      <4> QED  BY <1>1, <1>2, <2>1, <4>1 DEF OwnBlocks, i
    <3> QED  BY <3>2, <3>3
  <2>2. CASE g # h
    <3>1. job'[g] = job[g] /\ job[g].ino # i
      BY <1>1, <1>3, <2>2 DEF AimApart, WritersAim, i
    <3> QED  BY <1>1, <1>4, <1>7, <3>1 DEF OwnBlocks
  <2> QED  BY <2>1, <2>2
<1>13. AimFree'
  BY <1>1, <1>2, <1>3 DEF AimFree, Exclusive
<1> QED  BY <1>8, <1>9, <1>10, <1>11, <1>12, <1>13

LEMMA LandStep == ASSUME TypeInv, DiskInv, NEW h \in Handlers, UploadLand(h) PROVE DiskInv'
<1> USE DEF DiskInv, Aiming, Copying
<1> DEFINE p == job[h].dest
<1>1. /\ JobFits(job[h]) /\ job[h].pc = "copying" /\ p \in Paths /\ parts[p] # None
      /\ UNCHANGED <<content, contested>>
  BY JobsFit DEF UploadLand, JobFits, history
<1>2. job'[h].pc = "renamed"
  BY <1>1 DEF UploadLand, TypeInv, TypeOK, Job
<1>3. \A g \in Handlers : g # h => job'[g] = job[g]
  BY DEF UploadLand
<1>4. /\ \A q \in Paths : parts'[q] = IF q = p THEN None ELSE parts[q]
      /\ \A q \in Paths : disk'[q] = IF q = p THEN parts[p] ELSE disk[q]
  BY <1>1 DEF UploadLand, TypeInv, TypeOK
<1>5. \A g \in Handlers : g # h /\ Aiming(g) /\ job[g].dest = p => p \in contested
  BY <1>1 DEF AimApart
<1>6. \A g \in Handlers : Aiming(g)' => g # h /\ Aiming(g) /\ job'[g] = job[g]
  BY <1>2, <1>3
<1>7. \A g \in Handlers : Copying(g) => job[g].ino # None /\ job[g].dest \in Paths
  BY DEF TypeInv, JobShape, HasDest
<1> HIDE DEF p
<1>8. AimApart'
  BY <1>1, <1>6 DEF AimApart
<1>9. OwnPart'
  BY <1>1, <1>4, <1>5, <1>6, <1>7 DEF OwnPart
<1>10. OneName'
  BY <1>1, <1>4 DEF OneName
<1>11. WritersAim'
  <2> SUFFICES ASSUME NEW g \in Handlers, Copying(g)'
      PROVE /\ \A k \in Handlers : Copying(k)' /\ job'[k].ino = job'[g].ino
                                       => job'[k].dest = job'[g].dest
            /\ \A q \in Paths : parts'[q] = job'[g].ino => q = job'[g].dest
            /\ \A q \in Paths : disk'[q] = job'[g].ino
                                       => q = job'[g].dest /\ q \in contested'
    BY DEF WritersAim
  <2>1. g # h /\ Copying(g) /\ job'[g] = job[g] /\ job[g].ino # None
    BY <1>6, <1>7
  <2>2. \A k \in Handlers : Copying(k)' => Copying(k) /\ job'[k] = job[k]
    BY <1>6
  <2>3. parts[p] = job[g].ino => p = job[g].dest /\ p \in contested
    BY <1>1, <1>5, <2>1 DEF WritersAim
  <2> QED  BY <1>1, <1>4, <2>1, <2>2, <2>3 DEF WritersAim
<1>12. OwnBlocks'
  BY <1>1, <1>6 DEF OwnBlocks
<1>13. AimFree'
  <2> SUFFICES ASSUME NEW g \in Handlers, Aiming(g)', disk'[job'[g].dest] # None
               PROVE  ~Exclusive(job[g].dest)'
    BY DEF AimFree
  <2>1. g # h /\ Aiming(g) /\ job'[g] = job[g] /\ job[g].dest \in Paths
    BY <1>6 DEF TypeInv, JobShape, HasDest
  <2>2. job[g].dest = p \/ disk[job[g].dest] # None
    BY <1>4, <2>1
  <2> QED  BY <1>1, <1>5, <2>1, <2>2 DEF AimFree, Exclusive
<1> QED  BY <1>8, <1>9, <1>10, <1>11, <1>12, <1>13

LEMMA DiskStep == TypeInv /\ DiskInv /\ [Next]_vars => DiskInv'
<1> SUFFICES ASSUME TypeInv, DiskInv, [Next]_vars PROVE DiskInv'
  OBVIOUS
<1>1. CASE UNCHANGED <<job, diskVars, contested>>
  BY <1>1 DEF DiskInv, AimApart, OwnPart, OneName, WritersAim, OwnBlocks, AimFree, Aiming,
       Copying, Exclusive, diskVars
<1>2. ASSUME NEW s \in Senders, Prepare(s) \/ Cancel(s)
      PROVE  UNCHANGED <<job, diskVars, contested>>
  BY <1>2 DEF Prepare, PrepareAccept, PrepareReplay, Cancel, diskVars, history
<1>3. CASE Expire \/ UNCHANGED vars
  BY <1>1, <1>3 DEF Expire, diskVars, history, vars
<1>4. ASSUME NEW h \in Handlers, Upload(h) PROVE DiskInv'
  <2>1. ASSUME NEW s \in Senders, NEW f \in FileIds, UploadAdmit(h, s, f) PROVE DiskInv'
    <3>1. job'[h].pc = "admitted" /\ \A g \in Handlers : g # h => job'[g] = job[g]
      BY <2>1 DEF UploadAdmit, Admitted, TypeInv, TypeOK
    <3> QED  BY <2>1, <3>1, AwayStep DEF UploadAdmit, diskVars
  <2>2. ASSUME Finish(h)
        PROVE  job'[h].pc = "idle" /\ \A g \in Handlers : g # h => job'[g] = job[g]
    BY <2>2 DEF Finish, Idle, TypeInv, TypeOK
  <2>3. CASE UploadFail(h)
    BY <2>2, <2>3, AwayStep DEF UploadFail, diskVars, history
  <2>4. CASE UploadReject(h)
    BY <2>2, <2>4, AwayStep DEF UploadReject, history
  <2>5. CASE UploadCommit(h)
    BY <2>2, <2>5, AwayStep DEF UploadCommit, diskVars, history
  <2> QED
    BY <1>4, <2>1, <2>3, <2>4, <2>5, NameStep, OpenStep, CopyStep, LandStep DEF Upload
<1>5. CASE Stop
  <2>1. \A h \in Handlers : job'[h].pc = "idle"
    BY <1>5 DEF Stop, Idle
  <2> QED
    BY <1>5, <2>1 DEF Stop, DiskInv, AimApart, OwnPart, OneName, WritersAim, OwnBlocks, AimFree,
         Aiming, Copying, diskVars, history
<1>6. CASE Start
  <2>1. \A h \in Handlers : job'[h].pc = "idle"
    BY <1>6 DEF Start, TypeInv, Quiet, Serves
  <2>2. \A p \in Paths : parts'[p] = None
    BY <1>6 DEF Start, CleanupStalePartials
  <2> QED
    BY <1>6, <2>1, <2>2 DEF Start, DiskInv, AimApart, OwnPart, OneName, WritersAim, OwnBlocks,
         AimFree, Aiming, Copying, history
<1> QED  BY <1>1, <1>2, <1>3, <1>4, <1>5, <1>6 DEF Next

-----------------------------------------------------------------------------
(* What a step leaves of the files already landed.                          *)

LandsAt(p) == \E h \in Handlers : UploadLand(h) /\ job[h].dest = p

Kept ==
    /\ contested \subseteq contested'
    /\ \A p \in Paths : disk[p] # None /\ p \notin contested'
                           => content'[disk[p]] = content[disk[p]]
    /\ \A p \in Paths : LandsAt(p) \/ disk'[p] = disk[p]

LEMMA KeptStep == TypeInv /\ DiskInv /\ [Next]_vars => Kept
<1> SUFFICES ASSUME TypeInv, DiskInv, [Next]_vars PROVE Kept
  OBVIOUS
<1>1. CASE UNCHANGED <<disk, content>> /\ contested \subseteq contested'
  BY <1>1 DEF Kept
<1>2. ASSUME NEW h \in Handlers, NEW i \in Inodes, UploadOpen(h, i) PROVE Kept
  <2>1. \A p \in Paths : disk[p] # i
    <3>1. job[h].dest \in Paths /\ i # None
      BY <1>2 DEF UploadOpen, TypeInv, JobShape, HasDest
    <3>2. CASE parts[job[h].dest] # None
      BY <1>2, <3>1, <3>2 DEF UploadOpen, OpenInode, DiskInv, OneName
    <3>3. CASE parts[job[h].dest] = None
      BY <1>2, <3>3 DEF UploadOpen, OpenInode, Unused
    <3> QED  BY <3>2, <3>3
  <2> QED  BY <1>2, <2>1 DEF UploadOpen, Kept, history, TypeInv, TypeOK
<1>3. ASSUME NEW h \in Handlers, NEW good \in BOOLEAN, UploadCopy(h, good) PROVE Kept
  <2>1. \A p \in Paths : p \notin contested => disk[p] # job[h].ino
    BY <1>3 DEF UploadCopy, DiskInv, WritersAim, Copying
  <2> QED  BY <1>3, <2>1 DEF UploadCopy, Kept, history, TypeInv, TypeOK
<1>4. ASSUME NEW h \in Handlers, UploadLand(h) PROVE Kept
  BY <1>4 DEF UploadLand, Kept, LandsAt, history, TypeInv, TypeOK
<1>5. ASSUME NEW h \in Handlers, Upload(h) PROVE Kept
  <2>1. ASSUME NEW s \in Senders, NEW f \in FileIds, UploadAdmit(h, s, f) PROVE Kept
    BY <1>1, <2>1 DEF UploadAdmit, diskVars
  <2>2. CASE UploadName(h) \/ UploadFail(h) \/ UploadReject(h) \/ UploadCommit(h)
    BY <1>1, <2>2 DEF UploadName, UploadFail, UploadReject, UploadCommit, diskVars, history
  <2> QED  BY <1>2, <1>3, <1>4, <1>5, <2>1, <2>2 DEF Upload
<1>6. ASSUME NEW s \in Senders, Prepare(s) \/ Cancel(s) PROVE Kept
  BY <1>1, <1>6 DEF Prepare, PrepareAccept, PrepareReplay, Cancel, diskVars, history
<1>7. CASE Expire \/ Stop \/ Start \/ UNCHANGED vars
  BY <1>1, <1>7 DEF Expire, Stop, Start, diskVars, history, vars
<1> QED  BY <1>5, <1>6, <1>7 DEF Next

\* uniquePath never answers with a name that is taken, except the last.
LEMMA LandsFree ==
    ASSUME TypeInv, DiskInv, Kept, NEW p \in Paths, LandsAt(p), Exclusive(p)'
    PROVE  disk[p] = None
BY DEF LandsAt, UploadLand, DiskInv, AimFree, Aiming, Exclusive, Kept

LEMMA StoredKept ==
    ASSUME TypeInv, Kept, NEW p \in Paths, p \notin contested', ~LandsAt(p),
           NEW id, NEW f, StoredFrom(p, id, f)
    PROVE  StoredFrom(p, id, f)'
BY DEF StoredFrom, Kept, Checked

\* The file that lands at an uncontested path is the one its handler wrote.
LEMMA LandStored ==
    ASSUME TypeInv, DiskInv, NEW h \in Handlers, UploadLand(h),
           NEW p \in Paths, p = job[h].dest, p \notin contested,
           NEW id, id = job[h].sid, NEW f, f = job[h].fid
    PROVE  StoredFrom(p, id, f)'
<1>1. JobFits(job[h]) /\ job[h].pc = "copying" /\ job[h].off = Blocks
  BY JobsFit DEF UploadLand, Complete
<1>2. parts[p] = job[h].ino /\ parts[p] # None
  BY <1>1 DEF UploadLand, DiskInv, OwnPart, Copying
<1>3. disk'[p] = parts[p] /\ content' = content
  BY <1>1 DEF UploadLand, TypeInv, TypeOK
<1>4. \A b \in 1 .. Blocks :
         LET c == content[job[h].ino][b] IN
         /\ c # None /\ c.sid = id /\ c.fid = f
         /\ job[h].sum = "bad" \/ c.good
  BY <1>1 DEF DiskInv, OwnBlocks, Copying
<1>5. Checked(f) => job[h].sum # "bad"
  BY DEF UploadLand, ChecksumOK
<1> QED
  BY <1>2, <1>3, <1>4, <1>5 DEF StoredFrom, Checked

LEMMA IntactStep == TypeInv /\ DiskInv /\ Kept /\ StoredIntact => StoredIntact'
<1> SUFFICES ASSUME TypeInv, DiskInv, Kept, StoredIntact,
                    NEW p \in Paths, p \notin contested', disk'[p] # None
             PROVE  \E id \in SessionId, f \in FileIds :
                       NameOf[f] = p[1] /\ StoredFrom(p, id, f)'
  BY DEF StoredIntact
<1>1. p \notin contested
  BY DEF Kept
<1>2. ASSUME NEW h \in Handlers, UploadLand(h), job[h].dest = p
      PROVE  \E id \in SessionId, f \in FileIds :
                NameOf[f] = p[1] /\ StoredFrom(p, id, f)'
  <2>1. job[h].sid \in SessionId /\ job[h].fid \in FileIds /\ p[1] = NameOf[job[h].fid]
    BY <1>2, JobsFit DEF UploadLand, JobFits
  <2>2. PICK id \in SessionId, f \in FileIds : id = job[h].sid /\ f = job[h].fid
    BY <2>1
  <2>3. StoredFrom(p, id, f)'
    BY <1>1, <1>2, <2>2, LandStored
  <2> QED  BY <2>1, <2>2, <2>3
<1>3. CASE ~LandsAt(p)
  <2>1. disk[p] # None
    BY <1>3 DEF Kept
  <2>2. PICK id \in SessionId, f \in FileIds : NameOf[f] = p[1] /\ StoredFrom(p, id, f)
    BY <1>1, <2>1 DEF StoredIntact
  <2> QED  BY <1>3, <2>2, StoredKept
<1> QED  BY <1>2, <1>3 DEF LandsAt

-----------------------------------------------------------------------------
\* The invariants of the disk, together.
LEMMA DiskInvariant == Spec => [](TypeInv /\ DiskInv /\ StoredIntact)
<1>1. Init => DiskInv /\ StoredIntact
  BY DEF Init, DiskInv, AimApart, OwnPart, OneName, WritersAim, OwnBlocks, AimFree, Aiming,
       Copying, Idle, StoredIntact
<1> QED
  BY <1>1, InitType, TypeStep, DiskStep, KeptStep, IntactStep, PTL DEF Spec

\* Whatever requests overlap, a file with its final name that no two handlers
\* aimed at is whole, from one upload, and correct if it has a checksum.
THEOREM FilesAreIntact == Spec => []StoredIntact
BY DiskInvariant, PTL

\* A received file is never renamed over, truncated or written to again.
THEOREM FilesAreKept == Spec => LandedNeverReplaced
<1> DEFINE A == \A p \in Paths : disk[p] # None /\ Exclusive(p)' =>
                    disk'[p] = disk[p] /\ content'[disk[p]] = content[disk[p]]
<1>1. TypeInv /\ DiskInv /\ Kept => A
  BY LandsFree DEF Exclusive, Kept
<1> QED
  BY <1>1, DiskInvariant, KeptStep, PTL DEF Spec, LandedNeverReplaced

-----------------------------------------------------------------------------
(* The session's view of the disk.                                          *)

\* At an exclusive path nothing that is stored is lost.
LEMMA ExclusiveKept ==
    ASSUME TypeInv, DiskInv, Kept, NEW p \in Paths, Exclusive(p)',
           NEW id, NEW f, StoredFrom(p, id, f)
    PROVE  StoredFrom(p, id, f)'
<1>1. disk[p] # None /\ p \notin contested'
  BY DEF StoredFrom, Exclusive
<1>2. ~LandsAt(p)
  BY <1>1, LandsFree
<1> QED  BY <1>1, <1>2, StoredKept

\* A handler that has renamed its file did so in this step or before.
LEMMA RenamedBefore ==
    ASSUME TypeInv, [Next]_vars, NEW h \in Handlers, job'[h].pc = "renamed"
    PROVE  /\ job'[h].sid = job[h].sid /\ job'[h].fid = job[h].fid
           /\ job'[h].dest = job[h].dest
           /\ job[h].pc = "renamed" \/ \E g \in Handlers : g = h /\ UploadLand(g)
<1>1. CASE job' = job
  BY <1>1
<1>2. ASSUME NEW g \in Handlers, Upload(g)
      PROVE  job'[h] = job[h] \/ (g = h /\ UploadLand(g))
  <2>1. job[g] \in Job /\ job[h] \in Job
    BY DEF TypeInv, TypeOK
  <2>2. ASSUME NEW s \in Senders, NEW f \in FileIds, UploadAdmit(g, s, f)
        PROVE job'[h] = job[h]
    BY <2>2 DEF UploadAdmit, Admitted, TypeInv, TypeOK
  <2>3. ASSUME UploadName(g) PROVE job'[h] = job[h]
    <3>1. job'[g].pc = "named"
      BY <2>1, <2>3 DEF UploadName, TypeInv, TypeOK, Job
    <3> QED  BY <2>3, <3>1 DEF UploadName
  <2>4. ASSUME NEW i \in Inodes, UploadOpen(g, i) PROVE job'[h] = job[h]
    BY <2>1, <2>4 DEF UploadOpen, TypeInv, TypeOK, Job
  <2>5. ASSUME NEW good \in BOOLEAN, UploadCopy(g, good) PROVE job'[h] = job[h]
    <3>1. CASE good
      BY <2>1, <2>5, <3>1 DEF UploadCopy, TypeInv, TypeOK, Job
    <3>2. CASE ~good
      BY <2>1, <2>5, <3>2 DEF UploadCopy, TypeInv, TypeOK, Job
    <3> QED  BY <3>1, <3>2
  <2>6. ASSUME UploadFail(g) \/ UploadReject(g) \/ UploadCommit(g) PROVE job'[h] = job[h]
    <3>1. job' = [job EXCEPT ![g] = Idle]
      BY <2>6 DEF UploadFail, UploadReject, UploadCommit, Finish
    <3>2. job'[g].pc = "idle"
      BY <3>1, IdleJob DEF TypeInv, TypeOK
    <3> QED  BY <3>1, <3>2
  <2>7. ASSUME UploadLand(g), g # h PROVE job'[h] = job[h]
    BY <2>7 DEF UploadLand
  <2> QED  BY <1>2, <2>2, <2>3, <2>4, <2>5, <2>6, <2>7 DEF Upload
<1>3. ASSUME NEW g \in Handlers, g = h, UploadLand(g)
      PROVE  /\ job'[h].sid = job[h].sid /\ job'[h].fid = job[h].fid
             /\ job'[h].dest = job[h].dest
  BY <1>3 DEF UploadLand, TypeInv, TypeOK, Job
<1>4. CASE Stop
  BY <1>4 DEF Stop, Idle
<1>5. ASSUME NEW s \in Senders, Prepare(s) \/ Cancel(s) PROVE job' = job
  BY <1>5 DEF Prepare, PrepareAccept, PrepareReplay, Cancel
<1>6. CASE Expire \/ Start \/ UNCHANGED vars
  BY <1>1, <1>6 DEF Expire, Start, vars
<1> QED  BY <1>1, <1>2, <1>3, <1>4, <1>5, <1>6 DEF Next

LEMMA RenamedStep ==
    TypeInv /\ DiskInv /\ Kept /\ RenamedStored /\ [Next]_vars => RenamedStored'
<1> SUFFICES ASSUME TypeInv, DiskInv, Kept, RenamedStored, [Next]_vars PROVE RenamedStored'
  OBVIOUS
<1> SUFFICES ASSUME NEW h \in Handlers, job'[h].pc = "renamed",
                    NEW p \in Paths, p = job'[h].dest, Exclusive(p)',
                    NEW id, id = job'[h].sid, NEW f, f = job'[h].fid
             PROVE  StoredFrom(p, id, f)'
  <2>1. TypeInv'
    BY TypeStep
  <2>2. \A h \in Handlers : job'[h].pc = "renamed" => job'[h].dest \in Paths
    BY <2>1 DEF TypeInv, JobShape, HasDest
  <2> QED  BY <2>2 DEF RenamedStored
<1>1. id = job[h].sid /\ f = job[h].fid /\ p = job[h].dest
  BY RenamedBefore
<1>2. p \notin contested /\ Exclusive(p)
  BY DEF Exclusive, Kept
<1>3. ASSUME NEW g \in Handlers, g = h, UploadLand(g) PROVE StoredFrom(p, id, f)'
  BY <1>1, <1>2, <1>3, LandStored
<1>4. CASE job[h].pc = "renamed"
  BY <1>1, <1>2, <1>4, ExclusiveKept DEF RenamedStored
<1> QED  BY <1>3, <1>4, RenamedBefore

\* What a session says it received, it said before, or a handler that was
\* admitted under this session commits now.
LEMMA SavedBefore ==
    ASSUME TypeInv, [Next]_vars, session'.id # None, NEW f \in session'.files,
           session'.saved[f] # None
    PROVE  /\ session.id = session'.id /\ f \in session.files
           /\ \/ session.saved[f] = session'.saved[f]
              \/ \E h \in Handlers : /\ job[h].pc = "renamed" /\ job[h].sid = session.id
                                     /\ job[h].fid = f /\ job[h].dest = session'.saved[f]
<1> USE DEF TypeInv, TypeOK
<1>1. CASE session' = session
  BY <1>1
<1>2. ASSUME NEW s \in Senders, NEW m \in SUBSET FileIds, PrepareAccept(s, m) PROVE FALSE
  BY <1>2 DEF PrepareAccept, NoSession
<1>3. CASE Stop
  BY <1>3 DEF Stop, NoSession
<1>4. CASE Expire \/ \E s \in Senders : Cancel(s)
  <2>1. CASE Expire
    BY <2>1 DEF Expire, Session
  <2>2. ASSUME NEW s \in Senders, Cancel(s)
        PROVE  session'.id = session.id /\ session'.files = session.files /\ session'.saved = session.saved
    BY <2>2 DEF Cancel, Session
  <2> QED BY <1>4, <2>1, <2>2
<1>5. ASSUME NEW h \in Handlers, UploadCommit(h), SameSession(h)
      PROVE  /\ session.id = session'.id /\ f \in session.files
             /\ \/ session.saved[f] = session'.saved[f]
                \/ /\ job[h].pc = "renamed" /\ job[h].sid = session.id
                   /\ job[h].fid = f /\ job[h].dest = session'.saved[f]
  BY <1>5 DEF UploadCommit, SameSession, Session
<1>6. ASSUME NEW h \in Handlers, Upload(h), ~(UploadCommit(h) /\ SameSession(h))
      PROVE  session' = session
  BY <1>6 DEF Upload, UploadAdmit, UploadName, UploadFail, UploadOpen, UploadCopy, UploadReject,
       UploadLand, UploadCommit, sessionVars
<1>7. CASE Start \/ UNCHANGED vars
  BY <1>1, <1>7 DEF Start, sessionVars, vars
<1>8. ASSUME NEW s \in Senders, NEW m \in SUBSET FileIds, PrepareReplay(s, m)
      PROVE  session' = session
  BY <1>8 DEF PrepareReplay
<1> QED
  BY <1>1, <1>2, <1>3, <1>4, <1>5, <1>6, <1>7, <1>8 DEF Next, Prepare

LEMMA ReceivedStep ==
    TypeInv /\ DiskInv /\ Kept /\ RenamedStored /\ ReceivedStored /\ [Next]_vars
       => ReceivedStored'
<1> SUFFICES ASSUME TypeInv, DiskInv, Kept, RenamedStored, ReceivedStored, [Next]_vars
             PROVE  ReceivedStored'
  OBVIOUS
<1> SUFFICES ASSUME session'.id # None, NEW f \in session'.files,
                    NEW p \in Paths, p = session'.saved[f], Exclusive(p)',
                    NEW id, id = session'.id
             PROVE  StoredFrom(p, id, f)'
  <2>1. TypeInv'
    BY TypeStep
  <2>2. \A f \in session'.files : session'.saved[f] # None => session'.saved[f] \in Paths
    BY <2>1 DEF TypeInv, TypeOK, Session
  <2> QED  BY <2>2 DEF ReceivedStored
<1>1. Exclusive(p) /\ p # None
  BY DEF Exclusive, Kept
<1>2. StoredFrom(p, id, f)
  BY <1>1, SavedBefore DEF RenamedStored, ReceivedStored
<1> QED  BY <1>2, ExclusiveKept

\* A file marked Received is on disk, whole, with the bytes of its session.
THEOREM ReceivedIsStored == Spec => []ReceivedStored
<1>1. Init => RenamedStored /\ ReceivedStored
  BY DEF Init, RenamedStored, ReceivedStored, Idle, NoSession
<1>2. RenamedStored /\ ReceivedStored /\ TypeInv /\ DiskInv /\ [Next]_vars
         => (RenamedStored /\ ReceivedStored)'
  BY KeptStep, RenamedStep, ReceivedStep
<1> QED
  BY <1>1, <1>2, DiskInvariant, PTL DEF Spec

-----------------------------------------------------------------------------
(* Which session is whose.                                                  *)

\* This id was given out, when n[s] sessions have been opened for sender s.
Known(id, n) == id[2] <= n[id[1]]

IdsInv ==
    /\ session.id # None => Known(session.id, opened) /\ session.id[1] = session.sender
    /\ \A h \in Handlers : Serves(h) => Known(job[h].sid, opened)
    /\ \A i \in Inodes, b \in 1 .. Blocks :
          content[i][b] # None => Known(content[i][b].sid, opened)

\* An upload for the running session is for a file of it.
JobInSession ==
    \A h \in Handlers : Serves(h) /\ job[h].sid = session.id => job[h].fid \in session.files

OwnerInv == IdsInv /\ JobInSession /\ TokensPrivate

\* A handler changes no job but its own.
LEMMA OtherJobs ==
    ASSUME TypeInv, NEW g \in Handlers, NEW h \in Handlers, Upload(g), g # h
    PROVE  job'[h] = job[h]
BY DEF Upload, UploadAdmit, UploadName, UploadFail, UploadOpen, UploadCopy, UploadReject,
   UploadLand, UploadCommit, Finish, TypeInv, TypeOK

\* What becomes of a handler in a step: it is admitted, or goes on with the
\* upload it has, and past the rename it does nothing but end.
LEMMA JobMoves ==
    ASSUME TypeInv, [Next]_vars, NEW h \in Handlers, Serves(h)'
    PROVE  \/ /\ job[h].pc = "idle"
              /\ \E g \in Handlers, s \in Senders, f \in FileIds :
                    /\ g = h /\ UploadAdmit(g, s, f)
                    /\ job'[h].pc = "admitted" /\ job'[h].sid = session.id /\ job'[h].fid = f
           \/ /\ Serves(h) /\ job'[h].sid = job[h].sid /\ job'[h].fid = job[h].fid
              /\ job[h].pc = "renamed" => job'[h].pc = "renamed"
<1> USE DEF TypeInv, TypeOK, Serves
<1>1. CASE job' = job
  BY <1>1
<1>2. ASSUME NEW g \in Handlers, Upload(g), g # h PROVE job'[h] = job[h]
  BY <1>2, OtherJobs
<1>3. ASSUME NEW s \in Senders, NEW f \in FileIds, UploadAdmit(h, s, f)
      PROVE  /\ job[h].pc = "idle"
             /\ job'[h].pc = "admitted" /\ job'[h].sid = session.id /\ job'[h].fid = f
  BY <1>3 DEF UploadAdmit, Admitted
<1>4. CASE \/ UploadName(h) \/ UploadLand(h)
           \/ \E i \in Inodes : UploadOpen(h, i)
           \/ \E good \in BOOLEAN : UploadCopy(h, good)
  <2>1. job[h] \in Job
    OBVIOUS
  <2>2. job[h].pc \in {"admitted", "named", "copying"}
    BY <1>4 DEF UploadName, UploadLand, UploadOpen, UploadCopy
  <2>3. ASSUME UploadName(h) \/ UploadLand(h) \/ \E i \in Inodes : UploadOpen(h, i)
        PROVE  job'[h].sid = job[h].sid /\ job'[h].fid = job[h].fid
    <3>1. CASE UploadName(h)
      BY <2>1, <3>1 DEF UploadName, Job
    <3>2. CASE UploadLand(h)
      BY <2>1, <3>2 DEF UploadLand, Job
    <3>3. ASSUME NEW i \in Inodes, UploadOpen(h, i)
          PROVE  job'[h].sid = job[h].sid /\ job'[h].fid = job[h].fid
      BY <2>1, <3>3 DEF UploadOpen, Job
    <3> QED  BY <2>3, <3>1, <3>2, <3>3
  <2>4. ASSUME NEW good \in BOOLEAN, UploadCopy(h, good)
        PROVE  job'[h].sid = job[h].sid /\ job'[h].fid = job[h].fid
    <3>1. CASE good
      BY <2>1, <2>4, <3>1 DEF UploadCopy, Job
    <3>2. CASE ~good
      BY <2>1, <2>4, <3>2 DEF UploadCopy, Job
    <3> QED  BY <3>1, <3>2
  <2> QED  BY <1>4, <2>2, <2>3, <2>4
<1>5. CASE UploadFail(h) \/ UploadReject(h) \/ UploadCommit(h)
  BY <1>5, IdleJob DEF UploadFail, UploadReject, UploadCommit, Finish
<1>6. CASE Stop
  BY <1>6 DEF Stop, Idle
<1>7. ASSUME NEW s \in Senders, Prepare(s) \/ Cancel(s) PROVE job' = job
  BY <1>7 DEF Prepare, PrepareAccept, PrepareReplay, Cancel
<1>8. CASE Expire \/ Start \/ UNCHANGED vars
  BY <1>1, <1>8 DEF Expire, Start, vars
<1>9. CASE \E g \in Handlers : Upload(g)
  <2>1. CASE Upload(h)
    BY <1>3, <1>4, <1>5, <2>1 DEF Upload
  <2> QED  BY <1>2, <1>9, <2>1
<1> QED  BY <1>1, <1>6, <1>7, <1>8, <1>9 DEF Next

\* What becomes of the session: it stays the one it is, and a file received
\* stays received; or it ends with the process; or a new one is accepted.
LEMMA SessionMoves ==
    ASSUME TypeInv, [Next]_vars
    PROVE  \/ /\ session'.id = session.id /\ session'.sender = session.sender
              /\ session'.files = session.files
              /\ \A f \in FileIds : session.saved[f] # None => session'.saved[f] # None
              /\ opened' = opened
           \/ ~up' /\ session'.id = None /\ opened' = opened
           \/ \E s \in Senders, m \in SUBSET FileIds : PrepareAccept(s, m)
<1> USE DEF TypeInv, TypeOK
<1>1. CASE session' = session /\ opened' = opened
  BY <1>1
<1>2. ASSUME NEW s \in Senders, NEW m \in SUBSET FileIds, PrepareReplay(s, m)
      PROVE  session' = session /\ opened' = opened
  BY <1>2 DEF PrepareReplay
<1>3. CASE Stop
  BY <1>3 DEF Stop, NoSession
<1>4. CASE Expire \/ \E s \in Senders : Cancel(s)
  BY <1>4 DEF Expire, Cancel, Session
<1>5. ASSUME NEW h \in Handlers, UploadCommit(h), SameSession(h)
      PROVE  /\ session'.id = session.id /\ session'.sender = session.sender
             /\ session'.files = session.files
             /\ \A f \in FileIds : session.saved[f] # None => session'.saved[f] # None
             /\ opened' = opened
  <2>1. job[h].dest # None
    BY <1>5, JobsFit DEF UploadCommit, JobFits
  <2> QED  BY <1>5, <2>1 DEF UploadCommit, Session
<1>6. ASSUME NEW h \in Handlers, Upload(h), ~(UploadCommit(h) /\ SameSession(h))
      PROVE  session' = session /\ opened' = opened
  BY <1>6 DEF Upload, UploadAdmit, UploadName, UploadFail, UploadOpen, UploadCopy, UploadReject,
       UploadLand, UploadCommit, sessionVars
<1>7. ASSUME NEW h \in Handlers, Upload(h), UploadCommit(h), SameSession(h)
      PROVE  /\ session'.id = session.id /\ session'.sender = session.sender
             /\ session'.files = session.files
             /\ \A f \in FileIds : session.saved[f] # None => session'.saved[f] # None
             /\ opened' = opened
  BY <1>5, <1>7
<1>8. CASE Start \/ UNCHANGED vars
  BY <1>1, <1>8 DEF Start, sessionVars, vars
<1> QED
  BY <1>1, <1>2, <1>3, <1>4, <1>6, <1>7, <1>8 DEF Next, Prepare

\* A new session has an id nobody was given before.
LEMMA FreshSession ==
    ASSUME TypeInv, NEW s \in Senders, NEW m \in SUBSET FileIds, PrepareAccept(s, m)
    PROVE  /\ session'.id \in SessionId /\ session'.id[1] = s /\ session'.sender = s
           /\ session'.files = m
           /\ ~Known(session'.id, opened) /\ Known(session'.id, opened')
           /\ \A id \in SessionId : Known(id, opened) => Known(id, opened')
<1>1. opened[s] \in 0 .. MaxSessions /\ opened[s] < MaxSessions
  BY DEF PrepareAccept, TypeInv, TypeOK
<1>2. /\ session'.id = <<s, opened[s] + 1>> /\ session'.sender = s
      /\ session'.files = m
  BY DEF PrepareAccept, NoSession
<1>3. \A r \in Senders : opened'[r] = IF r = s THEN opened[s] + 1 ELSE opened[r]
  BY DEF PrepareAccept, TypeInv, TypeOK
<1>4. <<s, opened[s] + 1>> \in SessionId
  BY <1>1 DEF SessionId
<1>5. ~Known(session'.id, opened) /\ Known(session'.id, opened')
  BY <1>1, <1>2, <1>3 DEF Known
<1>6. \A id \in SessionId : Known(id, opened) => Known(id, opened')
  <2> SUFFICES ASSUME NEW id \in SessionId, Known(id, opened) PROVE Known(id, opened')
    OBVIOUS
  <2>1. id[1] \in Senders /\ id[2] \in 1 .. MaxSessions
    BY DEF SessionId
  <2> QED  BY <1>1, <1>3, <2>1 DEF Known
<1> QED  BY <1>2, <1>4, <1>5, <1>6

\* No id is forgotten.
LEMMA KnownKept ==
    ASSUME TypeInv, [Next]_vars, NEW id \in SessionId, Known(id, opened)
    PROVE  Known(id, opened')
<1>1. CASE opened' = opened
  BY <1>1 DEF Known
<1>2. CASE \E s \in Senders, m \in SUBSET FileIds : PrepareAccept(s, m)
  BY <1>2, FreshSession
<1> QED  BY <1>1, <1>2, SessionMoves

\* A block that was not there before is of the upload that writes it.
LEMMA BlockMoves ==
    ASSUME TypeInv, [Next]_vars, NEW i \in Inodes, NEW b \in 1 .. Blocks,
           content'[i][b] # None
    PROVE  \/ content'[i][b] = content[i][b]
           \/ \E h \in Handlers : Serves(h) /\ content'[i][b].sid = job[h].sid
<1> USE DEF TypeInv, TypeOK
<1>1. CASE content' = content
  BY <1>1
<1>2. ASSUME NEW h \in Handlers, NEW k \in Inodes, UploadOpen(h, k)
      PROVE  content'[i][b] = content[i][b]
  BY <1>2 DEF UploadOpen, Empty
<1>3. ASSUME NEW h \in Handlers, NEW good \in BOOLEAN, UploadCopy(h, good)
      PROVE  \/ content'[i][b] = content[i][b]
             \/ Serves(h) /\ content'[i][b].sid = job[h].sid
  BY <1>3 DEF UploadCopy, Serves
<1>4. ASSUME NEW h \in Handlers, Upload(h),
             ~(\E k \in Inodes : UploadOpen(h, k)), ~(\E good \in BOOLEAN : UploadCopy(h, good))
      PROVE  content' = content
  BY <1>4 DEF Upload, UploadAdmit, UploadName, UploadFail, UploadReject, UploadLand,
       UploadCommit, diskVars
<1>5. ASSUME NEW s \in Senders, Prepare(s) \/ Cancel(s) PROVE content' = content
  BY <1>5 DEF Prepare, PrepareAccept, PrepareReplay, Cancel, diskVars
<1>6. CASE Expire \/ Stop \/ Start \/ UNCHANGED vars
  BY <1>1, <1>6 DEF Expire, Stop, Start, diskVars, vars
<1>7. CASE \E h \in Handlers : Upload(h)
  BY <1>1, <1>2, <1>3, <1>4, <1>7
<1> QED  BY <1>1, <1>5, <1>6, <1>7 DEF Next

LEMMA IdsStep == TypeInv /\ IdsInv /\ [Next]_vars => IdsInv'
<1> SUFFICES ASSUME TypeInv, IdsInv, [Next]_vars PROVE IdsInv'
  OBVIOUS
<1>1. session'.id # None => Known(session'.id, opened') /\ session'.id[1] = session'.sender
  <2>1. CASE session'.id = session.id /\ session'.sender = session.sender
    BY <2>1, KnownKept DEF IdsInv, TypeInv, TypeOK, Session
  <2>2. CASE \E s \in Senders, m \in SUBSET FileIds : PrepareAccept(s, m)
    BY <2>2, FreshSession
  <2> QED  BY <2>1, <2>2, SessionMoves
<1>2. ASSUME NEW h \in Handlers, Serves(h)' PROVE Known(job'[h].sid, opened')
  <2>1. job'[h].sid \in SessionId
    BY <1>2, TypeStep DEF TypeInv, JobShape
  <2>2. Known(job'[h].sid, opened)
    <3>1. CASE Serves(h) /\ job'[h].sid = job[h].sid
      BY <3>1 DEF IdsInv
    <3>2. CASE job'[h].sid = session.id
      BY <2>1, <3>2 DEF IdsInv
    <3> QED  BY <1>2, <3>1, <3>2, JobMoves
  <2> QED  BY <2>1, <2>2, KnownKept
<1>3. ASSUME NEW i \in Inodes, NEW b \in 1 .. Blocks, content'[i][b] # None
      PROVE  Known(content'[i][b].sid, opened')
  <2>1. content'[i][b].sid \in SessionId
    BY <1>3, TypeStep DEF TypeInv, TypeOK, Block
  <2>2. Known(content'[i][b].sid, opened)
    BY <1>3, BlockMoves DEF IdsInv
  <2> QED  BY <2>1, <2>2, KnownKept
<1> QED  BY <1>1, <1>2, <1>3 DEF IdsInv

LEMMA JobInSessionStep ==
    TypeInv /\ IdsInv /\ JobInSession /\ [Next]_vars => JobInSession'
<1> SUFFICES ASSUME TypeInv, IdsInv, JobInSession, [Next]_vars,
                    NEW h \in Handlers, Serves(h)', job'[h].sid = session'.id
             PROVE  job'[h].fid \in session'.files
  BY DEF JobInSession
<1>1. job'[h].sid \in SessionId
  BY TypeStep DEF TypeInv, JobShape
<1>2. CASE /\ session'.id = session.id /\ session'.files = session.files
  <2>1. CASE Serves(h) /\ job'[h].sid = job[h].sid /\ job'[h].fid = job[h].fid
    BY <1>2, <2>1 DEF JobInSession
  <2>2. ASSUME NEW s \in Senders, NEW f \in FileIds, UploadAdmit(h, s, f), job'[h].fid = f
        PROVE  job'[h].fid \in session'.files
    BY <1>2, <2>2 DEF UploadAdmit
  <2> QED  BY <2>1, <2>2, JobMoves
<1>3. CASE session'.id = None
  BY <1>1, <1>3
<1>4. ASSUME NEW s \in Senders, NEW m \in SUBSET FileIds, PrepareAccept(s, m) PROVE FALSE
  <2>1. job' = job
    BY <1>4 DEF PrepareAccept
  <2>2. Known(job[h].sid, opened)
    BY <2>1 DEF IdsInv, Serves
  <2> QED  BY <1>4, <2>1, <2>2, FreshSession
<1> QED  BY <1>2, <1>3, <1>4, SessionMoves

LEMMA PrivateStep == TypeInv /\ IdsInv /\ TokensPrivate /\ [Next]_vars => TokensPrivate'
<1> SUFFICES ASSUME TypeInv, IdsInv, TokensPrivate, [Next]_vars,
                    NEW r \in Senders, NEW id \in offers'[r], id \notin offers[r]
             PROVE  id[1] = r
  BY DEF TokensPrivate
<1>1. ASSUME NEW s \in Senders, NEW i, Answer(s, i) PROVE r = s /\ id = i
  BY <1>1 DEF Answer, TypeInv, TypeOK
<1>2. ASSUME NEW s \in Senders, NEW m \in SUBSET FileIds, PrepareAccept(s, m) PROVE id[1] = r
  BY <1>1, <1>2 DEF PrepareAccept
<1>3. ASSUME NEW s \in Senders, NEW m \in SUBSET FileIds, PrepareReplay(s, m) PROVE id[1] = r
  <2>1. r = s /\ id = session.id /\ session.id # None /\ session.sender = s
    BY <1>1, <1>3 DEF PrepareReplay, Blocking, Replays
  <2> QED  BY <2>1 DEF IdsInv
<1>4. ASSUME NEW h \in Handlers, Upload(h) PROVE offers' = offers
  BY <1>4 DEF Upload, UploadAdmit, UploadName, UploadFail, UploadOpen, UploadCopy, UploadReject,
       UploadLand, UploadCommit, sessionVars
<1>5. CASE Expire \/ Stop \/ Start \/ UNCHANGED vars \/ \E s \in Senders : Cancel(s)
  BY <1>5 DEF Expire, Stop, Start, Cancel, sessionVars, vars
<1> QED  BY <1>2, <1>3, <1>4, <1>5 DEF Next, Prepare

LEMMA OwnerInvariant == Spec => [](TypeInv /\ OwnerInv)
<1>1. Init => OwnerInv
  BY IdleJob DEF Init, OwnerInv, IdsInv, JobInSession, TokensPrivate, NoSession, Empty, Serves
<1>2. TypeInv /\ OwnerInv /\ [Next]_vars => OwnerInv'
  BY IdsStep, JobInSessionStep, PrivateStep DEF OwnerInv
<1> QED  BY <1>1, <1>2, InitType, TypeStep, PTL DEF Spec

\* A token is told to the sender it was made for and to nobody else, however
\* often prepare requests are repeated.
THEOREM TokensArePrivate == Spec => []TokensPrivate
<1>1. OwnerInv => TokensPrivate
  BY DEF OwnerInv
<1> QED  BY <1>1, OwnerInvariant, PTL

\* A session in which an upload is running is not displaced by the prepare
\* request of another.
THEOREM ActiveIsKept == Spec => ActiveNotDisplaced
<1> DEFINE A == \A h \in Handlers :
                   /\ job[h].pc # "idle" /\ job[h].sid = session.id
                   /\ session.saved[job[h].fid] = None
                   /\ ~session.cancelled /\ ~session.expired
                   => session'.id = session.id \/ ~up'
<1>1. TypeInv /\ OwnerInv /\ [Next]_vars => A
  <2> SUFFICES ASSUME TypeInv, OwnerInv, [Next]_vars, NEW h \in Handlers,
                      job[h].pc # "idle", job[h].sid = session.id,
                      session.saved[job[h].fid] = None,
                      ~session.cancelled, ~session.expired
               PROVE  session'.id = session.id \/ ~up'
    OBVIOUS
  <2>1. session.id # None /\ job[h].fid \in session.files
    BY DEF TypeInv, JobShape, OwnerInv, JobInSession, Serves
  <2>2. Blocking
    BY <2>1 DEF Blocking
  <2> QED  BY <2>2, SessionMoves DEF PrepareAccept
<1> QED  BY <1>1, OwnerInvariant, PTL DEF Spec, ActiveNotDisplaced

-----------------------------------------------------------------------------
(* Stored once.                                                             *)

ServesFile(h, id, f) == Serves(h) /\ job[h].sid = id /\ job[h].fid = f

\* Two uploads of one file at once are on record.
OneServer ==
    \A g, h \in Handlers :
        /\ Serves(g) /\ Serves(h) /\ job[g].sid = job[h].sid /\ job[g].fid = job[h].fid
        /\ <<job[h].sid, job[h].fid>> \notin overlapped
        => g = h

\* Once the file is there nobody is on the way to store it again: the handler
\* that did is past the rename, or the session knows, or is another.
StoredDone ==
    \A id \in SessionId, f \in FileIds, p \in Paths :
        <<id, f>> \notin overlapped /\ p \notin contested /\ StoredFrom(p, id, f) =>
            /\ \A h \in Handlers : ServesFile(h, id, f) => job[h].pc = "renamed"
            /\ session.id = id =>
                  session.saved[f] # None \/ \E h \in Handlers : ServesFile(h, id, f)

OnceInv == OneServer /\ StoredDone /\ StoredOnce

\* The history only grows.
LEMMA OverlapsKept == [Next]_vars => overlapped \subseteq overlapped'
<1> SUFFICES ASSUME [Next]_vars PROVE overlapped \subseteq overlapped'
  OBVIOUS
<1>1. ASSUME NEW h \in Handlers, Upload(h) PROVE overlapped \subseteq overlapped'
  BY <1>1 DEF Upload, UploadAdmit, UploadName, UploadFail, UploadOpen, UploadCopy, UploadReject,
       UploadLand, UploadCommit, history
<1>2. ASSUME NEW s \in Senders, Prepare(s) \/ Cancel(s) PROVE overlapped' = overlapped
  BY <1>2 DEF Prepare, PrepareAccept, PrepareReplay, Cancel, history
<1> QED  BY <1>1, <1>2 DEF Next, Expire, Stop, Start, history, vars

LEMMA OneServerStep == TypeInv /\ OneServer /\ [Next]_vars => OneServer'
<1> SUFFICES ASSUME TypeInv, OneServer, [Next]_vars,
                    NEW g \in Handlers, NEW h \in Handlers, Serves(g)', Serves(h)',
                    job'[g].sid = job'[h].sid, job'[g].fid = job'[h].fid,
                    <<job'[h].sid, job'[h].fid>> \notin overlapped', g # h
             PROVE  FALSE
  BY DEF OneServer
<1>1. ASSUME NEW k \in Handlers, NEW l \in Handlers, k # l, Serves(l)',
             job'[k].sid = job'[l].sid, job'[k].fid = job'[l].fid,
             NEW s \in Senders, NEW f \in FileIds, UploadAdmit(k, s, f),
             job'[k].sid = session.id, job'[k].fid = f
      PROVE  <<job'[k].sid, job'[k].fid>> \in overlapped'
  <2>1. job'[l] = job[l]
    BY <1>1 DEF UploadAdmit
  <2>2. Serving(session.id, f)
    BY <1>1, <2>1 DEF Serving
  <2> QED  BY <1>1, <2>2 DEF UploadAdmit
<1>2. \/ Serves(g) /\ job'[g].sid = job[g].sid /\ job'[g].fid = job[g].fid
      \/ \E s \in Senders, f \in FileIds :
            UploadAdmit(g, s, f) /\ job'[g].sid = session.id /\ job'[g].fid = f
  BY JobMoves
<1>3. \/ Serves(h) /\ job'[h].sid = job[h].sid /\ job'[h].fid = job[h].fid
      \/ \E s \in Senders, f \in FileIds :
            UploadAdmit(h, s, f) /\ job'[h].sid = session.id /\ job'[h].fid = f
  BY JobMoves
<1>4. CASE \E s \in Senders, f \in FileIds :
              UploadAdmit(g, s, f) /\ job'[g].sid = session.id /\ job'[g].fid = f
  BY <1>1, <1>4
<1>5. CASE \E s \in Senders, f \in FileIds :
              UploadAdmit(h, s, f) /\ job'[h].sid = session.id /\ job'[h].fid = f
  BY <1>1, <1>5
<1>6. CASE /\ Serves(g) /\ job'[g].sid = job[g].sid /\ job'[g].fid = job[g].fid
           /\ Serves(h) /\ job'[h].sid = job[h].sid /\ job'[h].fid = job[h].fid
  BY <1>6, OverlapsKept DEF OneServer
<1> QED  BY <1>2, <1>3, <1>4, <1>5, <1>6

\* Handlers rename one at a time.
LEMMA OneLands ==
    ASSUME TypeInv, NEW g \in Handlers, NEW h \in Handlers, UploadLand(g), UploadLand(h)
    PROVE  g = h
<1>1. job'[g].pc = "renamed" /\ job[h].pc = "copying" /\ job[g].pc = "copying"
  BY DEF UploadLand, TypeInv, TypeOK, Job
<1>2. g # h => job'[g] = job[g]
  BY DEF UploadLand, TypeInv, TypeOK
<1> QED  BY <1>1, <1>2

\* A file that is stored at an uncontested path was stored before, or its
\* handler has renamed it now.
LEMMA StoredBefore ==
    ASSUME TypeInv, DiskInv, Kept, NEW p \in Paths, p \notin contested',
           NEW id \in SessionId, NEW f \in FileIds, StoredFrom(p, id, f)'
    PROVE  \/ StoredFrom(p, id, f)
           \/ \E h \in Handlers : /\ UploadLand(h) /\ job[h].dest = p
                                  /\ job[h].sid = id /\ job[h].fid = f
<1>1. p \notin contested
  BY DEF Kept
<1>2. CASE ~LandsAt(p)
  <2>1. disk'[p] = disk[p] /\ content'[disk[p]] = content[disk[p]]
    BY <1>2 DEF Kept, StoredFrom
  <2> QED  BY <2>1 DEF StoredFrom, Checked
<1>3. ASSUME NEW h \in Handlers, UploadLand(h), job[h].dest = p
      PROVE  job[h].sid = id /\ job[h].fid = f
  <2>1. job[h].sid \in SessionId /\ job[h].fid \in FileIds
    BY <1>3, JobsFit DEF UploadLand, JobFits
  <2>2. PICK i \in SessionId, g \in FileIds : i = job[h].sid /\ g = job[h].fid
    BY <2>1
  <2>3. StoredFrom(p, i, g)'
    BY <1>1, <1>3, <2>2, LandStored
  <2>4. 1 \in 1 .. Blocks
    OBVIOUS
  <2> QED  BY <2>2, <2>3, <2>4 DEF StoredFrom
<1> QED  BY <1>2, <1>3 DEF LandsAt

\* A stored file names a session that was opened.
LEMMA StoredKnown ==
    ASSUME TypeInv, IdsInv, NEW p \in Paths, NEW id \in SessionId, NEW f, StoredFrom(p, id, f)
    PROVE  Known(id, opened)
<1>1. disk[p] \in Inodes /\ 1 \in 1 .. Blocks
  BY DEF StoredFrom, TypeInv, TypeOK
<1> QED  BY <1>1 DEF IdsInv, StoredFrom

\* A handler past the rename waits for its second critical section, unless
\* the process ends.
LEMMA RenamedStays ==
    ASSUME TypeInv, [Next]_vars, NEW h \in Handlers, job[h].pc = "renamed",
           session'.id # None, ~UploadCommit(h)
    PROVE  job'[h] = job[h]
<1>1. ASSUME NEW g \in Handlers, Upload(g) PROVE job'[h] = job[h]
  <2>1. CASE g = h
    BY <1>1, <2>1 DEF Upload, UploadAdmit, UploadName, UploadFail, UploadOpen, UploadCopy,
         UploadReject, UploadLand
  <2>2. CASE g # h
    BY <1>1, <2>2, OtherJobs
  <2> QED  BY <2>1, <2>2
<1>2. CASE Stop
  BY <1>2 DEF Stop, NoSession
<1>3. ASSUME NEW s \in Senders, Prepare(s) \/ Cancel(s) PROVE job' = job
  BY <1>3 DEF Prepare, PrepareAccept, PrepareReplay, Cancel
<1> QED  BY <1>1, <1>2, <1>3 DEF Next, Expire, Start, vars

LEMMA StoredDoneStep ==
    TypeInv /\ DiskInv /\ Kept /\ IdsInv /\ OneServer /\ StoredDone /\ [Next]_vars => StoredDone'
<1> SUFFICES ASSUME TypeInv, DiskInv, Kept, IdsInv, OneServer, StoredDone, [Next]_vars,
                    NEW id \in SessionId, NEW f \in FileIds, NEW p \in Paths,
                    <<id, f>> \notin overlapped', p \notin contested', StoredFrom(p, id, f)'
             PROVE  /\ \A h \in Handlers : ServesFile(h, id, f)' => job'[h].pc = "renamed"
                    /\ session'.id = id => \/ session'.saved[f] # None
                                           \/ \E h \in Handlers : ServesFile(h, id, f)'
  BY DEF StoredDone
<1>1. <<id, f>> \notin overlapped /\ p \notin contested
  BY OverlapsKept DEF Kept
<1>2. ASSUME NEW h \in Handlers, UploadLand(h), job[h].sid = id, job[h].fid = f
      PROVE  /\ \A g \in Handlers : ServesFile(g, id, f)' => job'[g].pc = "renamed"
             /\ ServesFile(h, id, f)'
  <2>1. /\ job'[h].pc = "renamed" /\ job'[h].sid = id /\ job'[h].fid = f
        /\ \A g \in Handlers : g # h => job'[g] = job[g]
    BY <1>2 DEF UploadLand, TypeInv, TypeOK, Job
  <2>2. Serves(h)
    BY <1>2 DEF UploadLand, Serves
  <2>3. \A g \in Handlers : ServesFile(g, id, f) => g = h
    BY <1>1, <1>2, <2>2 DEF OneServer, ServesFile
  <2> QED  BY <2>1, <2>3 DEF ServesFile, Serves
<1>3. CASE StoredFrom(p, id, f)
  <2>1. /\ \A h \in Handlers : ServesFile(h, id, f) => job[h].pc = "renamed"
        /\ session.id = id => session.saved[f] # None \/ \E h \in Handlers : ServesFile(h, id, f)
    BY <1>1, <1>3 DEF StoredDone
  <2>2. ASSUME NEW h \in Handlers, ServesFile(h, id, f)' PROVE job'[h].pc = "renamed"
    <3>1. ASSUME NEW s \in Senders, UploadAdmit(h, s, f), session.id = id PROVE FALSE
      <4>1. PICK g \in Handlers : ServesFile(g, id, f)
        BY <2>1, <3>1 DEF UploadAdmit
      <4>2. Serving(id, f)
        BY <4>1 DEF Serving, ServesFile
      <4> QED  BY <3>1, <4>2 DEF UploadAdmit
    <3> QED  BY <2>1, <2>2, <3>1, JobMoves DEF ServesFile
  <2>3. ASSUME session'.id = id
        PROVE  session'.saved[f] # None \/ \E h \in Handlers : ServesFile(h, id, f)'
    <3>1. ASSUME NEW s \in Senders, NEW m \in SUBSET FileIds, PrepareAccept(s, m) PROVE FALSE
      BY <1>3, <2>3, <3>1, FreshSession, StoredKnown
    <3>2. session.id = id
      BY <2>3, <3>1, SessionMoves DEF TypeInv, TypeOK
    <3>3. CASE session.saved[f] # None
      BY <2>3, <3>1, <3>3, SessionMoves
    <3>4. ASSUME NEW h \in Handlers, ServesFile(h, id, f)
          PROVE  session'.saved[f] # None \/ ServesFile(h, id, f)'
      <4>1. job[h].pc = "renamed"
        BY <2>1, <3>4
      <4>2. CASE UploadCommit(h)
        <5>1. job[h].dest # None
          BY <4>1, JobsFit DEF JobFits
        <5> QED  BY <3>2, <3>4, <4>2, <5>1 DEF UploadCommit, SameSession, ServesFile, TypeInv, TypeOK, Session
      <4>3. CASE ~UploadCommit(h)
        <5>1. job'[h] = job[h]
          BY <2>3, <4>1, <4>3, RenamedStays
        <5> QED  BY <3>4, <5>1 DEF ServesFile, Serves
      <4> QED  BY <4>2, <4>3
    <3> QED  BY <2>1, <3>2, <3>3, <3>4
  <2> QED  BY <2>2, <2>3
<1> QED  BY <1>2, <1>3, StoredBefore

LEMMA StoredOnceStep ==
    TypeInv /\ DiskInv /\ Kept /\ StoredDone /\ StoredOnce /\ [Next]_vars => StoredOnce'
<1> SUFFICES ASSUME TypeInv, DiskInv, Kept, StoredDone, StoredOnce, [Next]_vars,
                    NEW id \in SessionId, NEW f \in FileIds, <<id, f>> \notin overlapped',
                    NEW p \in Paths, p \notin contested', NEW q \in Paths, q \notin contested',
                    StoredFrom(p, id, f)', StoredFrom(q, id, f)', p # q
             PROVE  FALSE
  BY DEF StoredOnce
<1>1. <<id, f>> \notin overlapped /\ p \notin contested /\ q \notin contested
  BY OverlapsKept DEF Kept
<1>2. ASSUME NEW r \in Paths, r \notin contested, StoredFrom(r, id, f),
             NEW h \in Handlers, UploadLand(h), job[h].sid = id, job[h].fid = f
      PROVE  FALSE
  BY <1>1, <1>2 DEF StoredDone, ServesFile, Serves, UploadLand
<1>3. CASE StoredFrom(p, id, f) /\ StoredFrom(q, id, f)
  BY <1>1, <1>3 DEF StoredOnce
<1>4. CASE StoredFrom(p, id, f) /\ ~StoredFrom(q, id, f)
  BY <1>1, <1>2, <1>4, StoredBefore
<1>5. CASE ~StoredFrom(p, id, f) /\ StoredFrom(q, id, f)
  BY <1>1, <1>2, <1>5, StoredBefore
<1>6. CASE ~StoredFrom(p, id, f) /\ ~StoredFrom(q, id, f)
  <2>1. PICK g \in Handlers : UploadLand(g) /\ job[g].dest = p
    BY <1>6, StoredBefore
  <2>2. PICK h \in Handlers : UploadLand(h) /\ job[h].dest = q
    BY <1>6, StoredBefore
  <2> QED  BY <2>1, <2>2, OneLands
<1> QED  BY <1>3, <1>4, <1>5, <1>6

\* A retry that comes when its upload is marked Received, or in a later
\* session of the daemon, finds nothing to store: an upload that did not
\* overlap another of the same file is at one path only.
THEOREM FilesAreStoredOnce == Spec => []StoredOnce
<1>1. Init => OnceInv
  BY IdleJob DEF Init, OnceInv, OneServer, StoredDone, StoredOnce, StoredFrom, Serves
<1>2. TypeInv /\ DiskInv /\ Kept /\ OwnerInv /\ OnceInv /\ [Next]_vars => OnceInv'
  BY OneServerStep, StoredDoneStep, StoredOnceStep DEF OwnerInv, OnceInv
<1>3. OnceInv => StoredOnce
  BY DEF OnceInv
<1> QED  BY <1>1, <1>2, <1>3, KeptStep, DiskInvariant, OwnerInvariant, PTL DEF Spec
=============================================================================
