------------------------------- MODULE MCFraming -------------------------------
(* Small instances of Framing for TLC. *)
EXTENDS Framing, SequencesExt

CONSTANT MaxBody  \* bound: bytes of a body

Bodies == BoundedSeq(Bytes, MaxBody)

\* A chunk size, perhaps with an extension, and a first byte of data.
Chunks == {<<"hex", "CR", "LF", "other">>, <<"hex", "hex", "CR", "LF">>}
Extended == {<<"hex", "semi", "other", "CR", "LF">>}

Streamed(c, b) == [framing |-> "none", coding |-> c, known |-> TRUE, expect |-> FALSE, body |-> b]

Declared(b) ==
    {[framing |-> f, coding |-> IF f = "chunked" THEN f ELSE "identity",
      known |-> n, expect |-> x, body |-> b] :
        f \in {"length", "chunked"}, n \in BOOLEAN, x \in BOOLEAN}

Expecting(b) == [Streamed("identity", b) EXCEPT !.expect = TRUE]

\* A request that is none of an upload's, and says how long it is.
Prepare == [framing |-> "length", coding |-> "identity", known |-> FALSE, expect |-> FALSE,
            body |-> <<"other">>]

Single ==
    {<<r>> : r \in {Streamed("identity", b) : b \in Bodies}
                \cup {Streamed("chunked", b) : b \in Chunks \cup Extended}
                \cup UNION {Declared(b) : b \in Chunks}
                \cup {Expecting(b) : b \in Chunks}
                \cup {[Streamed("identity", b) EXCEPT !.known = FALSE] : b \in Chunks}}

Pairs == {<<Streamed("chunked", b), Prepare>> : b \in Chunks}

AllScripts == Single \cup Pairs
=============================================================================
