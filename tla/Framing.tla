-------------------------------- MODULE Framing --------------------------------
(***************************************************************************)
(* internal/app/upload_compat.go: the layer between the TCP connection and *)
(* net/http.  Streaming senders of LocalSend v2.2 write a body without     *)
(* saying how it is framed; this layer looks at the first bytes that       *)
(* arrive, decides whether they are chunks or the file itself, and writes  *)
(* the framing into the header before net/http reads it.  It does so once  *)
(* per connection and hands everything else on unchanged.                  *)
(*                                                                         *)
(* A header is one item of the stream (it is read until it is complete); a *)
(* body is a sequence of bytes, of which only the class matters.           *)
(***************************************************************************)
EXTENDS Naturals, Sequences

CONSTANTS
    Scripts,    \* what clients send on one connection: sequences of requests
    Limit,      \* bytes classifyCompatBody looks at (64)
    MaxDigits   \* hexadecimal digits of a 64-bit chunk size (16)

Bytes == {"hex", "semi", "CR", "LF", "other"}

\* framing: what the header says.  coding: what the body is.  known: a POST to
\* /upload for a file, larger than zero, of the running session of a 2.2
\* sender.  expect: Expect: 100-continue.
Request == [framing : {"none", "length", "chunked"},
            coding  : {"identity", "chunked"},
            known   : BOOLEAN,
            expect  : BOOLEAN,
            body    : Seq(Bytes)]

ASSUME FramingAssumption ==
    /\ Scripts \subseteq Seq(Request) \ {<<>>}
    /\ Limit \in Nat \ {0}
    /\ MaxDigits \in Nat \ {0}

\* A sender that declares a framing writes the body so.
ASSUME DeclaredAssumption ==
    \A s \in Scripts : \A k \in 1 .. Len(s) :
        s[k].framing # "none" => (s[k].framing = "chunked" <=> s[k].coding = "chunked")

VARIABLES
    script,    \* the requests of this client
    cur,       \* the request it is sending, 0 before the first
    pos,       \* bytes of its body sent
    sent,      \* history: the items sent
    wire,      \* items in flight
    phase,     \* uploadCompatConn.init: where it is, "pass" when it is done
    buf,       \* header and body prefix read so far; then c.buf[c.off:]
    seen,      \* seen[k]: the framing net/http finds in the header of request k
    late,      \* history: the framing was chosen because the deadline came
    out,       \* items net/http has read
    answered   \* requests answered

clientVars == <<script, cur, pos, sent>>
vars == <<clientVars, wire, phase, buf, seen, late, out, answered>>

Item(k, c) == [req |-> k, class |-> c]
Items == [req : Nat \ {0}, class : Bytes \cup {"header"}]

Init ==
    /\ script \in Scripts
    /\ cur = 0 /\ pos = 0
    /\ sent = <<>> /\ wire = <<>>
    /\ phase = "header"
    /\ buf = <<>>
    /\ seen = [k \in 1 .. Len(script) |-> script[k].framing]
    /\ late = FALSE
    /\ out = <<>>
    /\ answered = 0

\* Does net/http get the file out of request k?
Fits(k) ==
    \/ seen[k] = "length" /\ script[k].coding = "identity"
    \/ seen[k] = "chunked" /\ script[k].coding = "chunked"
    \/ seen[k] = "none" /\ script[k].body = <<>>

Has(s, k, c) == \E i \in 1 .. Len(s) : s[i] = Item(k, c)

-----------------------------------------------------------------------------
(* The client.                                                              *)

Send(item) == sent' = Append(sent, item) /\ wire' = Append(wire, item)

\* One request at a time; a connection that went wrong is not used again.
SendHeader ==
    /\ cur < Len(script)
    /\ answered = cur /\ (cur > 0 => Fits(cur))
    /\ cur' = cur + 1 /\ pos' = 0
    /\ Send(Item(cur + 1, "header"))
    /\ UNCHANGED <<script, phase, buf, seen, late, out, answered>>

\* With Expect, net/http has to have read the header first.
SendByte ==
    /\ cur > 0 /\ pos < Len(script[cur].body)
    /\ script[cur].expect => Has(out, cur, "header")
    /\ pos' = pos + 1
    /\ Send(Item(cur, script[cur].body[pos + 1]))
    /\ UNCHANGED <<script, cur, phase, buf, seen, late, out, answered>>

-----------------------------------------------------------------------------
(* classifyCompatBody.                                                      *)

\* The n bytes before CRLF are a chunk size, perhaps with an extension.
SizeLine(p, n) ==
    /\ n > 0 /\ p[1] = "hex"
    /\ \E j \in 1 .. MaxDigits + 1 : j > n \/ p[j] # "hex"

\* Mutant: a CR that comes last is not waited on.
MutantClassify(p) ==
    LET stops == {i \in 1 .. Len(p) : i <= Limit /\ p[i] \notin {"hex", "semi"}}
        stop  == CHOOSE i \in stops : \A j \in stops : i <= j
    IN  IF stops = {} THEN IF Len(p) < Limit THEN "unknown" ELSE "raw"
        ELSE IF stop < Len(p) /\ p[stop] = "CR" /\ p[stop + 1] = "LF" /\ SizeLine(p, stop - 1)
          THEN "chunked"
        ELSE "raw"

ClassifyCompatBody(p) ==
    LET stops == {i \in 1 .. Len(p) : i <= Limit /\ p[i] \notin {"hex", "semi"}}
        stop  == CHOOSE i \in stops : \A j \in stops : i <= j
    IN  IF stops = {} THEN IF Len(p) < Limit THEN "unknown" ELSE "raw"
        ELSE IF p[stop] = "CR" /\ stop = Len(p) THEN "unknown"
        ELSE IF p[stop] = "CR" /\ p[stop + 1] = "LF" /\ SizeLine(p, stop - 1) THEN "chunked"
        ELSE "raw"

-----------------------------------------------------------------------------
(* uploadCompatConn.init.                                                   *)

\* Mutant: the declared framing is not looked at.
MutantCandidate(r) == r.known

\* streamUploadCompatCandidate.
Candidate(r) == r.known /\ r.framing = "none"

\* The body bytes that came with the header s[1].
Prefix(s) == [i \in 1 .. Len(s) - 1 |-> s[i + 1].class]

Framing(mode) == IF mode = "raw" THEN "length" ELSE "chunked"

Settle(framing) == phase' = "pass" /\ seen' = [seen EXCEPT ![1] = framing]

\* Without a verdict it reads on, up to Limit bytes; then it assumes chunks,
\* also when the byte it lacks would have come in time.
Judge(mode, length) ==
    /\ IF mode = "unknown" /\ length < Limit
         THEN phase' = "classify" /\ UNCHANGED seen
         ELSE Settle(Framing(mode))
    /\ UNCHANGED late

\* Mutant: what was read beyond the header is forgotten.
MutantReadHeader(n) ==
    /\ phase = "header"
    /\ n \in 1 .. Len(wire)
    /\ buf' = <<wire[1]>>
    /\ wire' = SubSeq(wire, n + 1, Len(wire))
    /\ phase' = "pass"
    /\ UNCHANGED <<clientVars, seen, late, out, answered>>

\* A read returns what has arrived, the header with some of the body.
ReadHeader(n) ==
    /\ phase = "header"
    /\ n \in 1 .. Len(wire)
    /\ buf' = SubSeq(wire, 1, n)
    /\ wire' = SubSeq(wire, n + 1, Len(wire))
    /\ IF ~Candidate(script[1]) THEN phase' = "pass" /\ UNCHANGED <<seen, late>>
       ELSE IF script[1].expect THEN Settle("length") /\ UNCHANGED late
       ELSE Judge(ClassifyCompatBody(Prefix(buf')), n - 1)
    /\ UNCHANGED <<clientVars, out, answered>>

ReadMore(n) ==
    /\ phase = "classify"
    /\ n \in 1 .. Len(wire)
    /\ buf' = buf \o SubSeq(wire, 1, n)
    /\ wire' = SubSeq(wire, n + 1, Len(wire))
    /\ Judge(ClassifyCompatBody(Prefix(buf')), Len(buf) + n - 1)
    /\ UNCHANGED <<clientVars, out, answered>>

\* Mutant: the read has no deadline.
MutantDeadline == FALSE /\ UNCHANGED vars

\* 1.2 seconds after the header.
Deadline ==
    /\ phase = "classify"
    /\ Settle(Framing("unknown"))
    /\ late' = TRUE
    /\ UNCHANGED <<clientVars, wire, buf, out, answered>>

\* The client goes away, or its header is too large.
ReadFails ==
    /\ phase \in {"header", "classify"}
    /\ phase' = "failed"
    /\ UNCHANGED <<clientVars, wire, buf, seen, late, out, answered>>

-----------------------------------------------------------------------------
(* net/http reading through uploadCompatConn.Read, and the handlers.        *)

ReadBuffered(n) ==
    /\ phase = "pass"
    /\ n \in 1 .. Len(buf)
    /\ out' = out \o SubSeq(buf, 1, n)
    /\ buf' = SubSeq(buf, n + 1, Len(buf))
    /\ UNCHANGED <<clientVars, wire, phase, seen, late, answered>>

ReadThrough(n) ==
    /\ phase = "pass" /\ buf = <<>>
    /\ n \in 1 .. Len(wire)
    /\ out' = out \o SubSeq(wire, 1, n)
    /\ wire' = SubSeq(wire, n + 1, Len(wire))
    /\ UNCHANGED <<clientVars, phase, buf, seen, late, answered>>

\* A request whose framing fits is answered when its body is there, another
\* one, with an error, whenever the handler gives up.
Answer ==
    /\ answered < cur
    /\ Has(out, cur, "header")
    /\ Fits(cur) => pos = Len(script[cur].body) /\ buf = <<>> /\ wire = <<>>
    /\ answered' = cur
    /\ UNCHANGED <<clientVars, wire, phase, buf, seen, late, out>>

ReadSome(n) == ReadHeader(n) \/ ReadMore(n) \/ ReadBuffered(n) \/ ReadThrough(n)

Next ==
    \/ SendHeader \/ SendByte
    \/ \E n \in 1 .. Len(sent) : ReadSome(n)
    \/ Deadline \/ ReadFails
    \/ Answer

Spec == Init /\ [][Next]_vars

\* The goroutine of the connection runs, and the deadline comes.  Nothing
\* makes a client send.
FairSpec ==
    /\ Spec
    /\ WF_vars(\E n \in 1 .. Len(sent) : ReadHeader(n))
    /\ WF_vars(\E n \in 1 .. Len(sent) : ReadBuffered(n))
    /\ WF_vars(Deadline)

-----------------------------------------------------------------------------
(* Properties.                                                              *)

TypeOK ==
    /\ script \in Scripts
    /\ cur \in 0 .. Len(script)
    /\ pos \in Nat
    /\ sent \in Seq(Items) /\ wire \in Seq(Items)
    /\ phase \in {"header", "classify", "pass", "failed"}
    /\ buf \in Seq(Items) /\ out \in Seq(Items)
    /\ seen \in [1 .. Len(script) -> {"none", "length", "chunked"}]
    /\ late \in BOOLEAN
    /\ answered \in 0 .. cur

\* However the stream is cut by reads on either side, what net/http has read
\* and will read is what was sent, in order: nothing read ahead is lost,
\* repeated or overtaken.
NothingLost == out \o buf \o wire = sent

Judged == phase = "pass" /\ Candidate(script[1]) /\ ~script[1].expect

\* The last byte that is looked at is a CR, and may have arrived without the
\* LF that would tell a chunk size from a file.
EndsAtLimit(b) ==
    /\ Len(b) >= Limit /\ b[Limit] = "CR"
    /\ \A i \in 1 .. Limit - 1 : b[i] \in {"hex", "semi"}

\* Before the deadline the verdict on the bytes that happened to arrive is the
\* verdict on the whole body: the network has no say in how a file is read.
\* There is one exception: a prefix of exactly Limit bytes that ends in a CR
\* is taken for chunks, where one more byte could have told otherwise.
SplitIndependent ==
    Judged /\ ~late =>
        \/ seen[1] = Framing(ClassifyCompatBody(script[1].body))
        \/ EndsAtLimit(script[1].body) /\ seen[1] = "chunked"

\* A body in chunks, the first of which has a size without an extension.
PlainChunks(r) ==
    /\ r.coding = "chunked"
    /\ \E n \in 1 .. MaxDigits :
          /\ n < Limit /\ Len(r.body) >= n + 2
          /\ \A i \in 1 .. n : r.body[i] = "hex"
          /\ r.body[n + 1] = "CR" /\ r.body[n + 2] = "LF"

\* A file that cannot be taken for chunks.
PlainFile(r) == r.coding = "identity" /\ ClassifyCompatBody(r.body) = "raw"

\* The first request of a connection is read with the framing its sender
\* used: the one it declares, chunks also when they trickle in, and a plain
\* file unless the deadline came before its first bytes could tell, or what
\* is looked at ends in a CR (EndsAtLimit).
FirstUnderstood ==
    phase = "pass" =>
        LET r == script[1] IN
            /\ r.framing # "none" => seen[1] = r.framing
            /\ r.known /\ ~r.expect /\ PlainChunks(r) => Fits(1)
            /\ r.known /\ (r.expect \/ ~(late \/ EndsAtLimit(r.body))) /\ PlainFile(r) => Fits(1)

\* A client that sent a header and waits is not left waiting for a verdict:
\* net/http gets the header even if no further byte ever comes.
HeaderReachesHTTP == cur > 0 ~> (phase = "failed" \/ Has(out, 1, "header"))
=============================================================================
