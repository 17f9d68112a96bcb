------------------------------- MODULE SendFiles -------------------------------
(***************************************************************************)
(* The sending side, Server.SendFiles of internal/app/client.go as the     *)
(* send command runs it, against the receiving side of another device that *)
(* runs the same program (UploadSession), which other senders use as well. *)
(*                                                                         *)
(* A run offers the regular files of the outbox under ids it has just      *)
(* drawn, so a later run replays no earlier one.  It uploads the files one *)
(* after the other and ends at the first error: nothing is retried, and    *)
(* nothing is cancelled at the receiver.                                   *)
(***************************************************************************)
EXTENDS UploadSession

CONSTANTS
    Me,      \* the sender modelled, one of Senders
    MaxRuns, \* bound: runs of the send command
    Drawn,   \* Drawn[r]: the files of run r, under ids of its own
    Offers   \* the file sets other senders offer

Runs == 1 .. MaxRuns

ASSUME SenderAssumption ==
    /\ Me \in Senders
    /\ None \notin Handlers
    /\ MaxRuns \in Nat
    /\ Drawn \in [Runs -> (SUBSET FileIds) \ {{}}]
    /\ Offers \subseteq SUBSET FileIds
    /\ \A q, r \in Runs : q # r => Drawn[q] \cap Drawn[r] = {}

VARIABLES
    run,   \* runs begun
    pc,    \* the run is "idle" (ended), about to "prepare", or in the "upload"s
    todo,  \* files not yet acknowledged
    conn,  \* the handler that serves the request on its way
    sid,   \* prepResp.SessionID
    sent   \* history: sent[r]: the session of a run that reported success

senderVars == <<run, pc, todo, conn, sid, sent>>
sendVars == <<vars, senderVars>>

SendTypeOK ==
    /\ TypeOK
    /\ run \in 0 .. MaxRuns
    /\ pc \in {"idle", "prepare", "upload"}
    /\ todo \subseteq FileIds
    /\ conn \in Handlers \cup {None}
    /\ sid \in SessionId \cup {None}
    /\ sent \in [Runs -> SessionId \cup {None}]

SendInit ==
    /\ Init
    /\ run = 0
    /\ pc = "idle"
    /\ todo = {}
    /\ conn = None
    /\ sid = None
    /\ sent = [r \in Runs |-> None]

\* log.Fatal: the process ends and its connection with it.
Fails ==
    /\ pc' = "idle" /\ todo' = {} /\ conn' = None /\ sid' = None
    /\ UNCHANGED <<run, sent>>

-----------------------------------------------------------------------------
\* The process.

Begin ==
    /\ pc = "idle" /\ run < MaxRuns
    /\ run' = run + 1
    /\ pc' = "prepare"
    /\ UNCHANGED <<vars, todo, conn, sid, sent>>

\* Every file offered gets a token.
Accepted ==
    /\ pc = "prepare"
    /\ PrepareAccept(Me, Drawn[run])
    /\ IF session'.id \in offers'[Me]
       THEN /\ pc' = "upload" /\ todo' = Drawn[run] /\ sid' = session'.id
            /\ UNCHANGED <<run, conn, sent>>
       ELSE Fails

\* The receiver is busy with another session, or not there.
Refused == pc = "prepare" /\ (Blocking \/ ~up) /\ Fails /\ UNCHANGED vars

Upload1(h, f) ==
    /\ pc = "upload" /\ conn = None /\ f \in todo
    /\ sid = session.id
    /\ UploadAdmit(h, Me, f)
    /\ conn' = h
    /\ UNCHANGED <<run, pc, todo, sid, sent>>

UploadRefused ==
    /\ pc = "upload" /\ conn = None /\ todo # {}
    /\ ~up \/ session.id # sid \/ session.cancelled
    /\ Fails
    /\ UNCHANGED vars

\* Mutant: the status of the answer is not looked at.
MutantRejected(h) ==
    /\ UploadFail(h) \/ UploadReject(h)
    /\ IF conn # h THEN UNCHANGED senderVars
       ELSE /\ todo' = todo \ {job[h].fid} /\ conn' = None
            /\ UNCHANGED <<run, pc, sid, sent>>

\* The handler answers with an error.
Rejected(h) ==
    /\ UploadFail(h) \/ UploadReject(h)
    /\ IF conn = h THEN Fails ELSE UNCHANGED senderVars

\* The handler answers 200; the answer may not arrive.
Acknowledged(h) ==
    /\ UploadCommit(h)
    /\ IF conn # h THEN UNCHANGED senderVars
       ELSE \/ Fails
            \/ /\ todo' = todo \ {job[h].fid} /\ conn' = None
               /\ UNCHANGED <<run, pc, sid, sent>>

\* Half an hour has passed, the connection is lost, an outbox file cannot be
\* opened, the process is killed; the handler learns of it later, if at all.
GivesUp == pc # "idle" /\ Fails /\ UNCHANGED vars

Reports ==
    /\ pc = "upload" /\ todo = {}
    /\ sent' = [sent EXCEPT ![run] = sid]
    /\ pc' = "idle" /\ sid' = None
    /\ UNCHANGED <<vars, run, todo, conn>>

-----------------------------------------------------------------------------
\* The receiver's own steps, and the other senders.
\* No body is damaged on the way here; UploadSession has that case.

Others(s) ==
    \/ \E m \in Offers : PrepareAccept(s, m) \/ PrepareReplay(s, m)
    \/ Cancel(s)
    \/ \E h \in Handlers, f \in FileIds : UploadAdmit(h, s, f)

Receives(h) ==
    \/ UploadName(h)
    \/ \E i \in Inodes : UploadOpen(h, i)
    \/ UploadCopy(h, TRUE)
    \/ UploadLand(h)

\* The receiver's end breaks the connection.
ReceiverStops == Stop /\ IF conn # None THEN Fails ELSE UNCHANGED senderVars

SendNext ==
    \/ Begin \/ Accepted \/ Refused \/ UploadRefused \/ GivesUp \/ Reports
    \/ \E h \in Handlers, f \in FileIds : Upload1(h, f)
    \/ \E h \in Handlers : Rejected(h) \/ Acknowledged(h)
    \/ ReceiverStops
    \/ /\ \/ \E s \in Senders \ {Me} : Others(s)
          \/ \E h \in Handlers : Receives(h)
          \/ Expire \/ Start
       /\ UNCHANGED senderVars

SendSpec == SendInit /\ [][SendNext]_sendVars

\* The receiver's clock runs and its user restarts it; the other senders keep
\* asking, and not all of their answers are lost.
OtherServed(s) == Others(s) /\ offers'[s] # offers[s] /\ UNCHANGED senderVars

SendFairSpec ==
    /\ SendSpec
    /\ WF_sendVars(Expire /\ UNCHANGED senderVars)
    /\ WF_sendVars(Start /\ UNCHANGED senderVars)
    /\ \A s \in Senders \ {Me} : SF_sendVars(OtherServed(s))

-----------------------------------------------------------------------------
\* "sent n file(s)" is true: every file of a run that reported success is
\* whole in the receiver's directory, unless another upload aimed at the same
\* path (then AtomicLanding fails) or no free name was left.
SentIsStored ==
    (\A p \in Paths : disk[p] # None => Exclusive(p)) =>
        \A r \in Runs : sent[r] # None =>
            \A f \in Drawn[r] : \E p \in Paths : StoredFrom(p, sent[r], f)

\* A run that failed, at whatever point, keeps the receiver from the other
\* senders until its session is thirty minutes old, and no longer.
OthersServed ==
    \A s \in Senders \ {Me} : <>(offers[s] # {} \/ opened[s] = MaxSessions)
=============================================================================
