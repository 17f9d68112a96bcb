--------------------------- MODULE SendFilesProofs ---------------------------
(***************************************************************************)
(* The sender against the receiver.  First, that a transfer is nothing but *)
(* requests any client of UploadSession may make, so that every theorem    *)
(* about the receiver holds in its company; then, that "sent" is true: an  *)
(* acknowledged file was renamed by the handler of that very request, and  *)
(* nothing that comes later takes it away.                                 *)
(***************************************************************************)
EXTENDS SendFiles, UploadSessionProofs

SenderShape ==
    /\ pc \in {"idle", "prepare", "upload"}
    /\ run \in 0 .. MaxRuns /\ (pc # "idle" => run \in Runs)
    /\ sent \in [Runs -> SessionId \cup {None}]
    /\ pc = "upload" => sid \in SessionId /\ todo \subseteq Drawn[run]
    /\ todo \subseteq FileIds
    /\ conn \in Handlers \cup {None}
    /\ sid \in SessionId \cup {None}

\* The request on its way is served, for the session and a file of this run.
ConnServed ==
    conn # None => /\ pc = "upload" /\ Serves(conn)
                   /\ job[conn].sid = sid /\ job[conn].fid \in todo

USE ConstantsAssumption, SenderAssumption

LEMMA RunsDraw == \A r \in Runs : Drawn[r] \in SUBSET FileIds /\ Drawn[r] # {}
OBVIOUS

-----------------------------------------------------------------------------
(* A transfer is made of steps of UploadSession.                            *)

LEMMA SendIsNext == SenderShape /\ [SendNext]_sendVars => [Next]_vars
<1> SUFFICES ASSUME SenderShape, [SendNext]_sendVars PROVE [Next]_vars
  OBVIOUS
<1>1. CASE UNCHANGED vars
  BY <1>1
<1>2. CASE Begin \/ Refused \/ UploadRefused \/ GivesUp \/ Reports \/ UNCHANGED sendVars
  BY <1>1, <1>2 DEF Begin, Refused, UploadRefused, GivesUp, Reports, sendVars
<1>3. CASE Accepted
  <2>1. run \in Runs /\ PrepareAccept(Me, Drawn[run])
    BY <1>3 DEF Accepted, SenderShape
  <2> QED  BY <2>1, RunsDraw DEF Next, Prepare
<1>4. ASSUME NEW h \in Handlers, NEW f \in FileIds, Upload1(h, f) PROVE Next
  <2>1. UploadAdmit(h, Me, f)
    BY <1>4 DEF Upload1
  <2> QED  BY <2>1 DEF Next, Upload
<1>5. ASSUME NEW h \in Handlers, Rejected(h) \/ Acknowledged(h) PROVE Next
  BY <1>5 DEF Rejected, Acknowledged, Next, Upload
<1>6. CASE ReceiverStops
  BY <1>6 DEF ReceiverStops, Next
<1>7. ASSUME NEW s \in Senders \ {Me}, Others(s) PROVE Next
  <2>1. ASSUME NEW m \in Offers, PrepareAccept(s, m) \/ PrepareReplay(s, m) PROVE Next
    BY <2>1 DEF Next, Prepare
  <2>2. CASE Cancel(s)
    BY <2>2 DEF Next
  <2>3. ASSUME NEW h \in Handlers, NEW f \in FileIds, UploadAdmit(h, s, f) PROVE Next
    BY <2>3 DEF Next, Upload
  <2> QED  BY <1>7, <2>1, <2>2, <2>3 DEF Others
<1>8. ASSUME NEW h \in Handlers, Receives(h) PROVE Next
  <2>1. Upload(h)
    BY <1>8 DEF Receives, Upload
  <2> QED  BY <2>1 DEF Next
<1>9. CASE Expire \/ Start
  BY <1>9 DEF Next
<1> QED  BY <1>2, <1>3, <1>4, <1>5, <1>6, <1>7, <1>8, <1>9 DEF SendNext

LEMMA SenderStep == TypeInv /\ SenderShape /\ [SendNext]_sendVars => SenderShape'
<1> SUFFICES ASSUME TypeInv, SenderShape, [SendNext]_sendVars PROVE SenderShape'
  OBVIOUS
<1> USE DEF SenderShape, Runs
<1>1. CASE UNCHANGED senderVars
  BY <1>1 DEF senderVars
<1>2. ASSUME Fails PROVE SenderShape'
  BY <1>2 DEF Fails
<1>3. CASE Begin
  BY <1>3 DEF Begin
<1>4. CASE Accepted
  <2>1. run \in Runs /\ PrepareAccept(Me, Drawn[run])
    BY <1>4 DEF Accepted
  <2>2. session'.id \in SessionId
    BY <2>1, RunsDraw, FreshSession
  <2>3. Drawn[run] \subseteq FileIds
    BY <2>1, RunsDraw
  <2>4. CASE /\ pc' = "upload" /\ todo' = Drawn[run] /\ sid' = session'.id
             /\ UNCHANGED <<run, conn, sent>>
    BY <2>1, <2>2, <2>3, <2>4
  <2> QED  BY <1>2, <1>4, <2>4 DEF Accepted
<1>5. CASE Refused \/ UploadRefused \/ GivesUp
  BY <1>2, <1>5 DEF Refused, UploadRefused, GivesUp
<1>6. CASE Reports
  BY <1>6 DEF Reports
<1>7. ASSUME NEW h \in Handlers, NEW f \in FileIds, Upload1(h, f) PROVE SenderShape'
  BY <1>7 DEF Upload1
<1>8. ASSUME NEW h \in Handlers, Rejected(h) PROVE SenderShape'
  BY <1>1, <1>2, <1>8 DEF Rejected
<1>9. ASSUME NEW h \in Handlers, Acknowledged(h) PROVE SenderShape'
  BY <1>1, <1>2, <1>9 DEF Acknowledged
<1>10. CASE ReceiverStops
  BY <1>1, <1>2, <1>10 DEF ReceiverStops
<1>11. CASE UNCHANGED sendVars
  BY <1>1, <1>11 DEF sendVars
<1> QED
  BY <1>1, <1>3, <1>4, <1>5, <1>6, <1>7, <1>8, <1>9, <1>10, <1>11 DEF SendNext

LEMMA InitSender == SendInit => Init /\ SenderShape /\ ConnServed
BY DEF SendInit, SenderShape, ConnServed, Runs

LEMMA SenderInvariant == SendSpec => [](TypeInv /\ SenderShape)
<1>1. TypeInv /\ SenderShape /\ [SendNext]_sendVars => (TypeInv /\ SenderShape)'
  BY SendIsNext, SenderStep, TypeStep
<1>2. SendInit => TypeInv /\ SenderShape
  BY InitSender, InitType
<1> QED  BY <1>1, <1>2, PTL DEF SendSpec

\* A device that sends is to the receiver one of its clients: what is true of
\* the receiver with any clients is true of it with this one.
THEOREM SenderIsAClient == SendSpec => Spec
<1>1. SendInit => Init
  BY InitSender
<1> QED  BY <1>1, SendIsNext, SenderInvariant, PTL DEF SendSpec, Spec

\* The types of the sender's variables.
THEOREM SenderTypeCorrect == SendSpec => []SendTypeOK
<1>1. TypeInv /\ SenderShape => SendTypeOK
  BY DEF TypeInv, SenderShape, SendTypeOK
<1> QED  BY <1>1, SenderInvariant, PTL

-----------------------------------------------------------------------------
(* The request on its way.                                                  *)

\* None of the receiver's own steps ends a request.
LEMMA ReceivesGoOn ==
    ASSUME TypeInv, NEW h \in Handlers, Receives(h)
    PROVE  Serves(h)'
<1> USE DEF Serves, TypeInv, TypeOK
<1>1. job[h] \in Job
  OBVIOUS
<1>2. CASE UploadName(h)
  BY <1>1, <1>2 DEF UploadName, Job
<1>3. ASSUME NEW i \in Inodes, UploadOpen(h, i) PROVE Serves(h)'
  BY <1>1, <1>3 DEF UploadOpen, Job
<1>4. CASE UploadCopy(h, TRUE)
  BY <1>1, <1>4 DEF UploadCopy, Job
<1>5. CASE UploadLand(h)
  BY <1>1, <1>5 DEF UploadLand, Job
<1> QED  BY <1>2, <1>3, <1>4, <1>5 DEF Receives

LEMMA ConnStep == TypeInv /\ SenderShape /\ ConnServed /\ [SendNext]_sendVars => ConnServed'
<1> SUFFICES ASSUME TypeInv, SenderShape, ConnServed, [SendNext]_sendVars PROVE ConnServed'
  OBVIOUS
<1>1. CASE conn' = None
  BY <1>1 DEF ConnServed
<1>2. CASE Fails \/ pc # "upload" \/ todo = {}
  <2>1. CASE Fails
    BY <1>1, <2>1 DEF Fails
  <2>2. CASE ~Fails /\ (pc # "upload" \/ todo = {})
    <3>1. conn = None
      BY <2>2 DEF ConnServed
    <3>2. CASE Begin \/ Accepted \/ Refused \/ UploadRefused \/ GivesUp \/ Reports
      BY <1>1, <2>2, <3>1, <3>2 DEF Begin, Accepted, Refused, UploadRefused, GivesUp, Reports
    <3>3. ASSUME NEW h \in Handlers, Rejected(h) \/ Acknowledged(h) PROVE conn' = None
      BY <2>2, <3>1, <3>3 DEF Rejected, Acknowledged, senderVars
    <3>4. ASSUME NEW h \in Handlers, NEW f \in FileIds, Upload1(h, f) PROVE FALSE
      BY <2>2, <3>4 DEF Upload1
    <3> QED  BY <1>1, <3>1, <3>2, <3>3, <3>4 DEF SendNext, ReceiverStops, senderVars, sendVars
  <2> QED  BY <1>2, <2>1, <2>2
<1>3. ASSUME UNCHANGED senderVars, conn # None => job'[conn].pc # "idle" PROVE ConnServed'
  <2> SUFFICES ASSUME conn # None PROVE ConnServed'
    BY <1>1, <1>3 DEF senderVars
  <2>1. Serves(conn) /\ pc = "upload" /\ job[conn].sid = sid /\ job[conn].fid \in todo
    BY DEF ConnServed
  <2>2. PICK h \in Handlers : h = conn
    BY DEF SenderShape
  <2>3. job'[h].sid = job[h].sid /\ job'[h].fid = job[h].fid
    BY <1>3, <2>1, <2>2, SendIsNext, JobMoves DEF Serves
  <2> QED  BY <1>3, <2>1, <2>2, <2>3 DEF ConnServed, senderVars, Serves
<1>4. ASSUME NEW h \in Handlers, NEW f \in FileIds, Upload1(h, f) PROVE ConnServed'
  BY <1>4 DEF Upload1, UploadAdmit, Admitted, ConnServed, Serves, TypeInv, TypeOK
<1>5. ASSUME NEW h \in Handlers, Rejected(h) \/ Acknowledged(h) PROVE ConnServed'
  <2>1. CASE conn = h
    BY <1>1, <1>5, <2>1 DEF Rejected, Acknowledged, Fails
  <2>2. CASE conn # h /\ conn # None
    <3>1. UNCHANGED senderVars /\ Upload(h)
      BY <1>5, <2>2 DEF Rejected, Acknowledged, Upload
    <3>2. job'[conn] = job[conn]
      BY <2>2, <3>1, OtherJobs DEF SenderShape
    <3> QED  BY <3>1, <3>2 DEF ConnServed, senderVars, Serves
  <2> QED  BY <1>1, <1>5, <2>1, <2>2 DEF Rejected, Acknowledged, senderVars
<1>6. ASSUME UNCHANGED senderVars, NEW h \in Handlers,
             Receives(h) \/ \E s \in Senders, f \in FileIds : UploadAdmit(h, s, f)
      PROVE  conn # None => job'[conn].pc # "idle"
  <2>1. CASE conn = h
    BY <1>6, <2>1, ReceivesGoOn DEF UploadAdmit, ConnServed, Serves
  <2>2. CASE conn # h
    <3>1. Upload(h)
      BY <1>6 DEF Receives, Upload
    <3> QED  BY <2>2, <3>1, OtherJobs DEF SenderShape, ConnServed, Serves
  <2> QED  BY <2>1, <2>2
<1>7. ASSUME UNCHANGED senderVars, job' = job PROVE conn # None => job'[conn].pc # "idle"
  BY <1>7 DEF ConnServed, Serves
<1>8. ASSUME UNCHANGED senderVars, NEW s \in Senders \ {Me}, Others(s) PROVE ConnServed'
  <2>1. CASE Cancel(s) \/ \E m \in Offers : PrepareAccept(s, m) \/ PrepareReplay(s, m)
    BY <1>3, <1>7, <1>8, <2>1 DEF Cancel, PrepareAccept, PrepareReplay
  <2> QED  BY <1>3, <1>6, <1>8, <2>1 DEF Others
<1>9. CASE UNCHANGED senderVars /\ (Expire \/ Start \/ UNCHANGED vars)
  BY <1>3, <1>7, <1>9 DEF Expire, Start, vars
<1>10. CASE ReceiverStops
  <2>1. CASE conn = None
    BY <1>1, <1>10, <2>1 DEF ReceiverStops, senderVars
  <2> QED  BY <1>2, <1>10, <2>1 DEF ReceiverStops
<1>11. CASE Begin \/ Accepted \/ Refused \/ UploadRefused \/ GivesUp \/ Reports
  BY <1>2, <1>11 DEF Begin, Accepted, Refused, UploadRefused, GivesUp, Reports
<1> QED
  BY <1>3, <1>4, <1>5, <1>6, <1>8, <1>9, <1>10, <1>11 DEF SendNext, sendVars

-----------------------------------------------------------------------------
(* What was acknowledged is there.                                          *)

\* No path was aimed at twice, and free names were left.
AllExclusive == \A p \in Paths : disk[p] # None => Exclusive(p)

Stored(id, f) == \E p \in Paths : StoredFrom(p, id, f)

\* A handler past the rename has put a file at its path.
RenamedLanded == \A h \in Handlers : job[h].pc = "renamed" => disk[job[h].dest] # None

\* The files of this run that were acknowledged.
AcksStored ==
    AllExclusive /\ pc = "upload" => \A f \in Drawn[run] \ todo : Stored(sid, f)

LEMMA DiskGrows ==
    ASSUME TypeInv, Kept, NEW p \in Paths, disk[p] # None
    PROVE  disk'[p] # None
<1>1. CASE disk'[p] = disk[p]
  BY <1>1
<1>2. ASSUME NEW h \in Handlers, UploadLand(h), job[h].dest = p PROVE disk'[p] # None
  BY <1>2 DEF UploadLand, TypeInv, TypeOK
<1> QED  BY <1>1, <1>2 DEF Kept, LandsAt

LEMMA RenamedLandedStep ==
    TypeInv /\ Kept /\ RenamedLanded /\ [Next]_vars => RenamedLanded'
<1> SUFFICES ASSUME TypeInv, Kept, RenamedLanded, [Next]_vars,
                    NEW h \in Handlers, job'[h].pc = "renamed"
             PROVE  disk'[job'[h].dest] # None
  BY DEF RenamedLanded
<1>1. job'[h].dest = job[h].dest
  BY RenamedBefore
<1>2. CASE job[h].pc = "renamed"
  <2>1. job[h].dest \in Paths
    BY <1>2 DEF TypeInv, JobShape, HasDest
  <2> QED  BY <1>1, <1>2, <2>1, DiskGrows DEF RenamedLanded
<1>3. CASE UploadLand(h)
  <2>1. job[h].dest \in Paths
    BY <1>3 DEF UploadLand, TypeInv, JobShape, HasDest
  <2> QED  BY <1>1, <1>3, <2>1 DEF UploadLand, TypeInv, TypeOK
<1> QED  BY <1>2, <1>3, RenamedBefore

\* The exceptions, once made, remain.
LEMMA ExclusiveBefore == ASSUME TypeInv, Kept, AllExclusive' PROVE AllExclusive
BY DiskGrows DEF AllExclusive, Exclusive, Kept

LEMMA StoredStays ==
    ASSUME TypeInv, DiskInv, Kept, AllExclusive', NEW id, NEW f, Stored(id, f)
    PROVE  Stored(id, f)'
<1>1. PICK p \in Paths : StoredFrom(p, id, f)
  BY DEF Stored
<1>2. disk[p] # None
  BY <1>1 DEF StoredFrom
<1>3. Exclusive(p)'
  BY <1>2, DiskGrows DEF AllExclusive
<1> QED  BY <1>1, <1>3, ExclusiveKept DEF Stored

\* What a step does to the files acknowledged.
LEMMA AcksMove ==
    ASSUME SenderShape, ConnServed, [SendNext]_sendVars, pc' = "upload",
           NEW f \in Drawn[run'] \ todo'
    PROVE  /\ pc = "upload" /\ run' = run /\ sid' = sid
           /\ \/ f \notin todo
              \/ \E h \in Handlers : UploadCommit(h) /\ job[h].sid = sid /\ job[h].fid = f
<1>1. CASE UNCHANGED senderVars
  BY <1>1 DEF senderVars
<1>2. CASE Fails
  BY <1>2 DEF Fails
<1>3. CASE Begin \/ Reports
  BY <1>3 DEF Begin, Reports
<1>4. CASE Accepted
  BY <1>2, <1>4 DEF Accepted
<1>5. CASE Refused \/ UploadRefused \/ GivesUp
  BY <1>2, <1>5 DEF Refused, UploadRefused, GivesUp
<1>6. ASSUME NEW h \in Handlers, NEW g \in FileIds, Upload1(h, g)
      PROVE  pc = "upload" /\ run' = run /\ sid' = sid /\ f \notin todo
  BY <1>6 DEF Upload1
<1>7. ASSUME NEW h \in Handlers, Rejected(h) PROVE UNCHANGED senderVars \/ Fails
  BY <1>7 DEF Rejected
<1>8. ASSUME NEW h \in Handlers, Acknowledged(h), ~Fails, ~UNCHANGED senderVars
      PROVE  /\ pc = "upload" /\ run' = run /\ sid' = sid
             /\ f \notin todo \/ (UploadCommit(h) /\ job[h].sid = sid /\ job[h].fid = f)
  <2>1. conn = h /\ conn # None /\ UploadCommit(h)
    BY <1>8 DEF Acknowledged, SenderShape
  <2> QED  BY <1>8, <2>1 DEF Acknowledged, ConnServed
<1>9. CASE ReceiverStops
  BY <1>1, <1>2, <1>9 DEF ReceiverStops
<1> QED
  BY <1>1, <1>2, <1>3, <1>4, <1>5, <1>6, <1>7, <1>8, <1>9 DEF SendNext, sendVars

SendInv == ConnServed /\ RenamedLanded /\ AcksStored /\ SentIsStored

LEMMA AcksStep ==
    ASSUME TypeInv, DiskInv, Kept, RenamedStored, SenderShape, SendInv, [SendNext]_sendVars
    PROVE  AcksStored'
<1> SUFFICES ASSUME AllExclusive', pc' = "upload", NEW f \in Drawn[run'] \ todo',
                    NEW id, id = sid'
             PROVE  Stored(id, f)'
  BY DEF AcksStored
<1>1. pc = "upload" /\ run' = run /\ id = sid
  BY AcksMove DEF SendInv
<1>2. AllExclusive
  BY ExclusiveBefore
<1>3. Stored(id, f)
  <2>1. CASE f \notin todo
    BY <1>1, <1>2, <2>1 DEF SendInv, AcksStored
  <2>2. ASSUME NEW h \in Handlers, UploadCommit(h), job[h].sid = sid, job[h].fid = f
        PROVE  Stored(id, f)
    <3>1. job[h].pc = "renamed"
      BY <2>2 DEF UploadCommit
    <3>2. job[h].dest \in Paths
      BY <3>1 DEF TypeInv, JobShape, HasDest
    <3>3. Exclusive(job[h].dest)
      BY <1>2, <3>1, <3>2 DEF SendInv, RenamedLanded, AllExclusive
    <3>4. StoredFrom(job[h].dest, id, f)
      BY <1>1, <2>2, <3>1, <3>3 DEF RenamedStored
    <3> QED  BY <3>2, <3>4 DEF Stored
  <2> QED  BY <2>1, <2>2, AcksMove DEF SendInv
<1> QED  BY <1>3, StoredStays

\* A run that newly reports success has had all its files acknowledged.
LEMMA SentMoves ==
    ASSUME SenderShape, [SendNext]_sendVars, NEW r \in Runs, sent'[r] # sent[r]
    PROVE  pc = "upload" /\ todo = {} /\ r = run /\ sent'[r] = sid
<1>1. sent' = sent \/ Reports
  BY DEF SendNext, Begin, Accepted, Refused, UploadRefused, GivesUp, Upload1, Rejected,
     Acknowledged, ReceiverStops, Fails, senderVars, sendVars
<1> QED  BY <1>1 DEF Reports, SenderShape

LEMMA SentStep ==
    ASSUME TypeInv, DiskInv, Kept, SenderShape, SendInv, [SendNext]_sendVars
    PROVE  SentIsStored'
<1> SUFFICES ASSUME AllExclusive', NEW r \in Runs, NEW id, id = sent'[r], id # None,
                    NEW f \in Drawn[r]
             PROVE  Stored(id, f)'
  BY DEF SentIsStored, AllExclusive, Stored
<1>1. AllExclusive
  BY ExclusiveBefore
<1>2. Stored(id, f)
  <2>1. CASE sent'[r] = sent[r]
    BY <1>1, <2>1 DEF SendInv, SentIsStored, AllExclusive, Stored
  <2>2. CASE sent'[r] # sent[r]
    BY <1>1, <2>2, SentMoves DEF SendInv, AcksStored
  <2> QED  BY <2>1, <2>2
<1> QED  BY <1>2, StoredStays

\* When send reports success, every file of the run is at the receiver, whole
\* and under a name of its own, and stays there.
THEOREM SentFilesAreStored == SendSpec => []SentIsStored
<1>1. SendInit => SendInv /\ RenamedStored
  BY DEF SendInit, Init, SendInv, ConnServed, RenamedLanded, AcksStored, SentIsStored,
     RenamedStored, Idle
<1>2. /\ TypeInv /\ DiskInv /\ Kept /\ SenderShape /\ SendInv /\ RenamedStored
      /\ [SendNext]_sendVars
      => (SendInv /\ RenamedStored)'
  BY SendIsNext, ConnStep, RenamedLandedStep, RenamedStep, AcksStep, SentStep DEF SendInv
<1>3. SendInv => SentIsStored
  BY DEF SendInv
<1>4. TypeInv /\ DiskInv /\ SenderShape /\ [SendNext]_sendVars => Kept
  BY SendIsNext, KeptStep
<1> QED
  BY <1>1, <1>2, <1>3, <1>4, SenderInvariant, SenderIsAClient, DiskInvariant, PTL DEF SendSpec

\* Whatever this sender does, what the receiver promises it and the others
\* holds: received files are there, tokens are their owner's, and a transfer in
\* progress is not displaced.
THEOREM ReceiverKeepsItsWord ==
    SendSpec => []ReceivedStored /\ []TokensPrivate /\ ActiveNotDisplaced
BY SenderIsAClient, ReceivedIsStored, TokensArePrivate, ActiveIsKept, PTL
=============================================================================
