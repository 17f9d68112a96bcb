---------------------------- MODULE UploadSession ----------------------------
(***************************************************************************)
(* The receiving side of internal/app/server.go: the single upload session *)
(* of the daemon, the handlers that stream files to disk concurrently, and *)
(* the disk they share.  The session is guarded by Server.mu, the disk by  *)
(* nothing: handleUpload copies the file's metadata under the lock, drops  *)
(* the lock, picks a free name, writes a temporary file, renames it, and   *)
(* only then takes the lock again to mark the file received.               *)
(*                                                                         *)
(* A FileId stands for the whole FileInfo a sender declares (id, name,     *)
(* size, type, hash): two requests that differ in any of them use          *)
(* different FileIds.  A Sender stands for an IP with its fingerprint.     *)
(* Requests the code refuses without touching any state (bad method, JSON, *)
(* PIN, name or token, a foreign sender, 409) are not actions.             *)
(***************************************************************************)
EXTENDS Integers, FiniteSets

CONSTANTS
    Senders,         \* remote devices
    FileIds,         \* declared files
    Names,           \* base names, after safeRelativePath
    NameOf,          \* NameOf[f]: the name file f is declared with
    Hashed,          \* the files declared with a SHA-256
    VerifyChecksums, \* Config.VerifyChecksums
    Handlers,        \* goroutines serving /upload at the same time
    Inodes,          \* file objects of the receive directory
    Blocks,          \* blocks per file: 1..Blocks are written in order
    MaxCopies,       \* bound of uniquePath's loop (9999 in the code)
    MaxSessions,     \* bound: sessions one sender opens
    None             \* nil, ENOENT, an empty block

Paths == Names \X (0 .. MaxCopies + 1)

SessionId == Senders \X (1 .. MaxSessions)

\* The data of a block: which upload wrote it, and whether it is the byte
\* sequence the sender declared (a damaged body has good = FALSE).
Block == [sid : SessionId, fid : FileIds, good : BOOLEAN]

ASSUME ConstantsAssumption ==
    /\ NameOf \in [FileIds -> Names]
    /\ Hashed \subseteq FileIds
    /\ VerifyChecksums \in BOOLEAN
    /\ Blocks \in Nat \ {0}
    /\ MaxCopies \in Nat
    /\ MaxSessions \in Nat
    /\ None \notin Senders \cup FileIds \cup Inodes \cup Paths \cup SessionId \cup Block

VARIABLES
    up,         \* the daemon process is alive and listening
    session,    \* Server.session
    opened,     \* opened[s]: sessions created so far for sender s
    offers,     \* offers[s]: ids of the sessions whose tokens s was told
    peers,      \* StateStore.peers: senders known, persisted on change
    counted,    \* RuntimeStatus.ReceivedFiles
    job,        \* job[h]: the upload request handler h is serving
    parts,      \* parts[p]: inode of the file at p + ".localsend-part"
    disk,       \* disk[p]: inode of the file at p
    content,    \* content[i]: the blocks of inode i
    contested,  \* history: paths chosen while another upload aimed at them
    overlapped  \* history: uploads <<session id, file>> admitted while one
                \* of the same file of the same session was being served

sessionVars == <<session, opened, offers, peers>>
diskVars == <<parts, disk, content>>
history == <<contested, overlapped>>
vars == <<up, session, opened, offers, peers, counted, job, parts, disk, content,
          contested, overlapped>>

Empty == [b \in 1 .. Blocks |-> None]

NoSession == [id        |-> None,
              sender    |-> None,
              files     |-> {},
              saved     |-> [f \in FileIds |-> None],
              cancelled |-> FALSE,
              expired   |-> FALSE]

\* saved[f] # None stands for Received together with SavedAs.
Session == [id        : SessionId \cup {None},
            sender    : Senders \cup {None},
            files     : SUBSET FileIds,
            saved     : [FileIds -> Paths \cup {None}],
            cancelled : BOOLEAN,
            expired   : BOOLEAN]

Stages == {"idle", "admitted", "named", "copying", "renamed"}

Idle == [pc |-> "idle", sid |-> None, fid |-> None, dest |-> None,
         ino |-> None, off |-> 0, sum |-> "good"]

Admitted(id, f) == [pc |-> "admitted", sid |-> id, fid |-> f, dest |-> None,
                    ino |-> None, off |-> 0, sum |-> "good"]

Job == [pc   : Stages,
        sid  : SessionId \cup {None},
        fid  : FileIds \cup {None},
        dest : Paths \cup {None},
        ino  : Inodes \cup {None},
        off  : 0 .. Blocks,
        sum  : {"good", "bad"}]

TypeOK ==
    /\ up \in BOOLEAN
    /\ session \in Session
    /\ opened \in [Senders -> 0 .. MaxSessions]
    /\ offers \in [Senders -> SUBSET SessionId]
    /\ peers \subseteq Senders
    /\ counted \in Nat
    /\ job \in [Handlers -> Job]
    /\ parts \in [Paths -> Inodes \cup {None}]
    /\ disk \in [Paths -> Inodes \cup {None}]
    /\ content \in [Inodes -> [1 .. Blocks -> Block \cup {None}]]
    /\ contested \subseteq Paths
    /\ overlapped \subseteq SessionId \X FileIds

Init ==
    /\ up = TRUE
    /\ session = NoSession
    /\ opened = [s \in Senders |-> 0]
    /\ offers = [s \in Senders |-> {}]
    /\ peers = {}
    /\ counted = 0
    /\ job = [h \in Handlers |-> Idle]
    /\ parts = [p \in Paths |-> None]
    /\ disk = [p \in Paths |-> None]
    /\ content = [i \in Inodes |-> Empty]
    /\ contested = {}
    /\ overlapped = {}

-----------------------------------------------------------------------------
(* /prepare-upload: one critical section of Server.mu from the check of the *)
(* running session to the installation of the new one.                      *)

\* Mutant: a session counts as done as soon as one of its files is.
MutantBlockingAll ==
    /\ session.id # None /\ ~session.cancelled /\ ~session.expired
    /\ \A f \in session.files : session.saved[f] = None

\* Mutant: the age of the running session is not looked at.
MutantBlockingForever ==
    /\ session.id # None /\ ~session.cancelled
    /\ \E f \in session.files : session.saved[f] = None

\* The running session keeps other prepare requests out.
Blocking ==
    /\ session.id # None
    /\ ~session.cancelled
    /\ ~session.expired
    /\ \E f \in session.files : session.saved[f] = None

SamePrepareFiles(m) == session.files = m

\* Mutant: the replay does not compare the sender.
MutantReplays(s, m) == SamePrepareFiles(m)

\* A retry of the request that opened the running session.
Replays(s, m) == session.sender = s /\ SamePrepareFiles(m)

\* The answer reaches the sender, or is lost on the way.
Answer(s, id) == offers' \in {offers, [offers EXCEPT ![s] = @ \cup {id}]}

PrepareAccept(s, m) ==
    LET id == <<s, opened[s] + 1>> IN
    /\ up
    /\ ~Blocking
    /\ m # {}
    /\ opened[s] < MaxSessions
    /\ opened' = [opened EXCEPT ![s] = @ + 1]
    /\ session' = [NoSession EXCEPT !.id = id, !.sender = s, !.files = m]
    /\ peers' = peers \cup {s}
    /\ Answer(s, id)
    /\ UNCHANGED <<up, counted, job, diskVars, history>>

PrepareReplay(s, m) ==
    /\ up
    /\ Blocking
    /\ Replays(s, m)
    /\ Answer(s, session.id)
    /\ UNCHANGED <<up, session, opened, peers, counted, job, diskVars, history>>

\* /cancel: anyone who knows the id of the running session may end it.
Cancel(s) ==
    /\ up
    /\ session.id \in offers[s]
    /\ session' = [session EXCEPT !.cancelled = TRUE]
    /\ UNCHANGED <<up, opened, offers, peers, counted, job, diskVars, history>>

\* Thirty minutes have passed since CreatedAt.
Expire ==
    /\ session.id # None
    /\ session' = [session EXCEPT !.expired = TRUE]
    /\ UNCHANGED <<up, opened, offers, peers, counted, job, diskVars, history>>

-----------------------------------------------------------------------------
(* /upload.                                                                 *)

Finish(h) == job' = [job EXCEPT ![h] = Idle]

Serving(id, f) == \E g \in Handlers : job[g].sid = id /\ job[g].fid = f

\* Mutant: Received is not looked at.
MutantUploadAdmit(h, s, f) ==
    /\ up /\ job[h].pc = "idle"
    /\ session.id \in offers[s] /\ ~session.cancelled /\ session.sender = s
    /\ f \in session.files
    /\ job' = [job EXCEPT ![h] = Admitted(session.id, f)]
    /\ overlapped' = IF Serving(session.id, f)
                       THEN overlapped \cup {<<session.id, f>>}
                       ELSE overlapped
    /\ UNCHANGED <<up, sessionVars, counted, diskVars, contested>>

\* The first critical section: session, sender, token, not yet received.
UploadAdmit(h, s, f) ==
    /\ up
    /\ job[h].pc = "idle"
    /\ session.id \in offers[s]
    /\ ~session.cancelled
    /\ session.sender = s
    /\ f \in session.files
    /\ session.saved[f] = None
    /\ job' = [job EXCEPT ![h] = Admitted(session.id, f)]
    /\ overlapped' = IF Serving(session.id, f)
                       THEN overlapped \cup {<<session.id, f>>}
                       ELSE overlapped
    /\ UNCHANGED <<up, sessionVars, counted, diskVars, contested>>

\* Mutant: the declared name is used whatever is there.
MutantUniquePath(n) == <<n, 0>>

\* uniquePath: the name itself, else the first free "name (k)", else a last
\* name that is not checked.  Files are never removed by the daemon, so the
\* sequence of Stat calls is as good as one look at the directory.
UniquePath(n) ==
    LET first == {k \in 0 .. MaxCopies : /\ disk[<<n, k>>] = None
                                        /\ \A j \in 0 .. k - 1 : disk[<<n, j>>] # None}
    IN  <<n, IF first = {} THEN MaxCopies + 1 ELSE CHOOSE k \in first : TRUE>>

\* Handlers that have chosen their destination and not yet renamed to it.
Aiming(g) == job[g].pc \in {"named", "copying"}

Targeted(p) == \E g \in Handlers : Aiming(g) /\ job[g].dest = p

UploadName(h) ==
    LET p == UniquePath(NameOf[job[h].fid]) IN
    /\ job[h].pc = "admitted"
    /\ job' = [job EXCEPT ![h] = [@ EXCEPT !.pc = "named", !.dest = p]]
    /\ contested' = IF Targeted(p) THEN contested \cup {p} ELSE contested
    /\ UNCHANGED <<up, sessionVars, counted, diskVars, overlapped>>

\* pathWithin, MkdirAll or OpenFile fails.
UploadFail(h) ==
    /\ job[h].pc \in {"admitted", "named"}
    /\ Finish(h)
    /\ UNCHANGED <<up, sessionVars, counted, diskVars, history>>

Unused(i) ==
    /\ \A p \in Paths : parts[p] # i /\ disk[p] # i
    /\ \A g \in Handlers : job[g].ino # i

\* OpenFile with O_CREATE|O_TRUNC: a temporary file that is already there is
\* reused and emptied, whoever is writing to it.
OpenInode(p, i) == IF parts[p] # None THEN i = parts[p] ELSE Unused(i)

UploadOpen(h, i) ==
    LET p == job[h].dest IN
    /\ job[h].pc = "named"
    /\ OpenInode(p, i)
    /\ parts' = [parts EXCEPT ![p] = i]
    /\ content' = [content EXCEPT ![i] = Empty]
    /\ job' = [job EXCEPT ![h] = [@ EXCEPT !.pc = "copying", !.ino = i]]
    /\ UNCHANGED <<up, sessionVars, counted, disk, history>>

\* Mutant: io.Copy, which does not stop at the declared size.
MutantUploadCopy(h, good) ==
    LET b == job[h].off + 1 IN
    /\ job[h].pc = "copying"
    /\ content' = [content EXCEPT ![job[h].ino][b] =
                      [sid |-> job[h].sid, fid |-> job[h].fid, good |-> good]]
    /\ job' = [job EXCEPT ![h] = IF good THEN [@ EXCEPT !.off = b]
                                      ELSE [@ EXCEPT !.off = b, !.sum = "bad"]]
    /\ UNCHANGED <<up, sessionVars, counted, parts, disk, history>>

\* io.CopyN writes the next block at this handler's own offset.
UploadCopy(h, good) ==
    LET b == job[h].off + 1 IN
    /\ job[h].pc = "copying"
    /\ job[h].off < Blocks
    /\ content' = [content EXCEPT ![job[h].ino][b] =
                      [sid |-> job[h].sid, fid |-> job[h].fid, good |-> good]]
    /\ job' = [job EXCEPT ![h] = IF good THEN [@ EXCEPT !.off = b]
                                      ELSE [@ EXCEPT !.off = b, !.sum = "bad"]]
    /\ UNCHANGED <<up, sessionVars, counted, parts, disk, history>>

\* Mutant: an error path that leaves the temporary file.
MutantUploadReject(h) ==
    /\ job[h].pc = "copying"
    /\ Finish(h)
    /\ UNCHANGED <<up, sessionVars, counted, diskVars, history>>

\* A short body, a write error, an extra byte, a checksum mismatch, or a
\* rename that fails: the temporary name is removed.
UploadReject(h) ==
    /\ job[h].pc = "copying"
    /\ parts' = [parts EXCEPT ![job[h].dest] = None]
    /\ Finish(h)
    /\ UNCHANGED <<up, sessionVars, counted, disk, content, history>>

\* Mutant: a short body is not noticed.
MutantComplete(h) == TRUE

Complete(h) == job[h].off = Blocks

Checked(f) == VerifyChecksums /\ f \in Hashed

ChecksumOK(h) == ~(Checked(job[h].fid) /\ job[h].sum = "bad")

\* os.Rename of whatever file now has the temporary name.
UploadLand(h) ==
    LET p == job[h].dest IN
    /\ job[h].pc = "copying"
    /\ Complete(h)
    /\ ChecksumOK(h)
    /\ parts[p] # None
    /\ disk' = [disk EXCEPT ![p] = parts[p]]
    /\ parts' = [parts EXCEPT ![p] = None]
    /\ job' = [job EXCEPT ![h] = [@ EXCEPT !.pc = "renamed", !.ino = None]]
    /\ UNCHANGED <<up, sessionVars, counted, content, history>>

\* Mutant: the second critical section does not compare the session id.
MutantSameSession(h) == job[h].fid \in session.files

\* The running session is the one this upload was admitted under.
SameSession(h) == session.id = job[h].sid

\* The second critical section, then StateStore.Event.
UploadCommit(h) ==
    /\ job[h].pc = "renamed"
    /\ session' = IF SameSession(h)
                    THEN [session EXCEPT !.saved[job[h].fid] = job[h].dest]
                    ELSE session
    /\ counted' = counted + 1
    /\ Finish(h)
    /\ UNCHANGED <<up, opened, offers, peers, diskVars, history>>

-----------------------------------------------------------------------------
(* The daemon's life: SIGKILL, power loss, or the end of the three seconds  *)
(* of grace of a shutdown; the next start sweeps leftover temporary files.  *)

Stop ==
    /\ up
    /\ up' = FALSE
    /\ session' = NoSession
    /\ job' = [h \in Handlers |-> Idle]
    /\ UNCHANGED <<opened, offers, peers, counted, diskVars, history>>

CleanupStalePartials == [p \in Paths |-> None]

Start ==
    /\ ~up
    /\ up' = TRUE
    /\ parts' = CleanupStalePartials
    /\ counted' = 0
    /\ UNCHANGED <<sessionVars, job, disk, content, history>>

Upload(h) ==
    \/ \E s \in Senders, f \in FileIds : UploadAdmit(h, s, f)
    \/ UploadName(h)
    \/ UploadFail(h)
    \/ \E i \in Inodes : UploadOpen(h, i)
    \/ \E good \in BOOLEAN : UploadCopy(h, good)
    \/ UploadReject(h)
    \/ UploadLand(h)
    \/ UploadCommit(h)

Prepare(s) == \E m \in SUBSET FileIds : PrepareAccept(s, m) \/ PrepareReplay(s, m)

Next ==
    \/ \E s \in Senders : Prepare(s) \/ Cancel(s)
    \/ \E h \in Handlers : Upload(h)
    \/ Expire
    \/ Stop
    \/ Start

Spec == Init /\ [][Next]_vars

-----------------------------------------------------------------------------
(* Properties.  The promise is kept for the paths that no two uploads aimed *)
(* at together; AtomicLanding below states it without that exception.       *)

\* The file at p holds exactly what upload (id, f) was sent.
StoredFrom(p, id, f) ==
    /\ disk[p] # None
    /\ \A b \in 1 .. Blocks :
          LET c == content[disk[p]][b] IN
          c # None /\ c.sid = id /\ c.fid = f /\ (Checked(f) => c.good)

\* A name uniquePath really found free.
Exclusive(p) == p \notin contested /\ p[2] <= MaxCopies

\* While the daemon is alive every temporary file belongs to a handler that
\* is writing it: every error path of handleUpload removes its own, and the
\* sweep of a start leaves none of an earlier process.
PartialsOwned ==
    up => \A p \in Paths : parts[p] # None =>
             \E h \in Handlers : job[h].pc = "copying" /\ job[h].dest = p

\* A file with its final name is whole: every block comes from one upload of
\* one session, under the name it was declared with, and with a checksum the
\* bytes are the declared ones.
StoredIntact ==
    \A p \in Paths \ contested : disk[p] # None =>
        \E id \in SessionId, f \in FileIds : NameOf[f] = p[1] /\ StoredFrom(p, id, f)

\* A file the session marks Received is on disk at SavedAs with the bytes of
\* that very session, also when the upload outlived the session it was
\* admitted under and another session was installed meanwhile.
ReceivedStored ==
    session.id # None =>
        \A f \in session.files :
            LET p == session.saved[f] IN
            p # None /\ Exclusive(p) => StoredFrom(p, session.id, f)

\* Received files are never overwritten, by retries, by files of the same
\* name, or after a restart.
LandedNeverReplaced ==
    [][\A p \in Paths : disk[p] # None /\ Exclusive(p)' =>
          disk'[p] = disk[p] /\ content'[disk[p]] = content[disk[p]]]_vars

\* A retry that comes after its upload was marked Received does not store
\* the file a second time.
StoredOnce ==
    \A id \in SessionId, f \in FileIds : <<id, f>> \notin overlapped =>
        \A p, q \in Paths \ contested :
            StoredFrom(p, id, f) /\ StoredFrom(q, id, f) => p = q

\* Replaying an answer never tells a session to another sender.
TokensPrivate == \A s \in Senders : \A id \in offers[s] : id[1] = s

\* A session with a transfer in progress is displaced by no other prepare
\* request before it is cancelled or thirty minutes old.
ActiveNotDisplaced ==
    [][\A h \in Handlers :
          /\ job[h].pc # "idle" /\ job[h].sid = session.id
          /\ session.saved[job[h].fid] = None
          /\ ~session.cancelled /\ ~session.expired
          => session'.id = session.id \/ ~up']_vars

\* The README's promise of atomic landing without the exception: whatever
\* requests overlap, a file with its final name is whole.
AtomicLanding ==
    \A p \in Paths : disk[p] # None =>
        \E id \in SessionId, f \in FileIds : StoredFrom(p, id, f)
=============================================================================
