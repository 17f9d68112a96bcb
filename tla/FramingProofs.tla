----------------------------- MODULE FramingProofs -----------------------------
(***************************************************************************)
(* Proofs about Framing, for requests of any number and bodies of any      *)
(* length: the type invariant and its three safety properties.             *)
(*                                                                         *)
(* The argument: before the verdict nothing has been handed on, so that    *)
(* what has been read is the header and the start of the first body        *)
(* (PrefixOfBody), and a verdict on the start of a body is the verdict on  *)
(* all of it (VerdictIsStable); a start as long as the limit that has no   *)
(* verdict ends in a CR (UnknownAtLimit).                                  *)
(***************************************************************************)
EXTENDS Framing, SequenceTheorems, WellFoundedInduction, TLAPS

\* A set of natural numbers has a least element: by the library's theorem on
\* well-founded relations, for which < has to become a set.
LEMMA LessThanIsWellFounded ==
  \E R : IsWellFoundedOn(R, Nat) /\ \A i, j \in Nat : i < j => <<i, j>> \in R
<1> DEFINE R == OpToRel(<, Nat)
<1>1. IsWellFoundedOn(R, Nat)
  BY NatLessThanWellFounded
<1>2. \A i, j \in Nat : i < j => <<i, j>> \in R
  BY DEF OpToRel
<1> HIDE DEF R
<1> QED BY <1>1, <1>2

LEMMA HasMinimal ==
  ASSUME NEW R, IsWellFoundedOn(R, Nat), NEW T, T \subseteq Nat, T # {}
  PROVE  \E x \in T : \A y \in T : ~ (<<y, x>> \in R)
  BY WFMin

LEMMA LeastNatural ==
  ASSUME NEW T, T \subseteq Nat, T # {}
  PROVE  \E i \in T : \A j \in T : i <= j
<1>1. PICK R : IsWellFoundedOn(R, Nat) /\ \A i, j \in Nat : i < j => <<i, j>> \in R
  BY LessThanIsWellFounded
<1>2. PICK i \in T : \A j \in T : ~(<<j, i>> \in R)
  BY <1>1, HasMinimal
<1>3. ASSUME NEW j \in T PROVE i <= j
  <2>1. i \in Nat /\ j \in Nat
    OBVIOUS
  <2>2. ~(<<j, i>> \in R)
    BY <1>2
  <2>3. ~(j < i)
    BY <1>1, <2>1, <2>2, Zenon
  <2> QED BY <2>1, <2>3
<1> QED BY <1>3

-----------------------------------------------------------------------------

\* Where classifyCompatBody stops.
Stops(p) == {i \in 1 .. Len(p) : i <= Limit /\ p[i] \notin {"hex", "semi"}}
IsStop(p, i) == i \in Stops(p) /\ \A j \in Stops(p) : i <= j

\* The three ways it ends.
LEMMA Verdicts ==
  ASSUME NEW p \in Seq(Bytes)
  PROVE  /\ Stops(p) = {} => ClassifyCompatBody(p) = IF Len(p) < Limit THEN "unknown" ELSE "raw"
         /\ Stops(p) # {} => \E i : IsStop(p, i)
         /\ \A i : IsStop(p, i) =>
              ClassifyCompatBody(p) =
                 IF p[i] = "CR" /\ i = Len(p) THEN "unknown"
                 ELSE IF p[i] = "CR" /\ p[i + 1] = "LF" /\ SizeLine(p, i - 1) THEN "chunked" ELSE "raw"
<1>1. Stops(p) \subseteq Nat
  BY DEF Stops
<1>2. Stops(p) # {} => \E i : IsStop(p, i)
  BY <1>1, LeastNatural DEF IsStop
<1>3. Stops(p) = {} => ClassifyCompatBody(p) = IF Len(p) < Limit THEN "unknown" ELSE "raw"
  BY DEF ClassifyCompatBody, Stops
<1>4. ASSUME NEW i, IsStop(p, i)
      PROVE  ClassifyCompatBody(p) =
                 IF p[i] = "CR" /\ i = Len(p) THEN "unknown"
                 ELSE IF p[i] = "CR" /\ p[i + 1] = "LF" /\ SizeLine(p, i - 1) THEN "chunked" ELSE "raw"
  <2> DEFINE stop == CHOOSE k \in Stops(p) : \A j \in Stops(p) : k <= j
  <2>1. stop \in Stops(p) /\ \A j \in Stops(p) : stop <= j
    BY <1>4 DEF IsStop
  <2>2. stop = i
    <3>1. i \in Nat /\ stop \in Nat
      BY <1>1, <1>4, <2>1 DEF IsStop
    <3>2. stop <= i /\ i <= stop
      BY <1>4, <2>1 DEF IsStop
    <3> HIDE DEF stop
    <3> QED BY <3>1, <3>2
  <2>3. ClassifyCompatBody(p) =
          IF Stops(p) = {} THEN IF Len(p) < Limit THEN "unknown" ELSE "raw"
          ELSE IF p[stop] = "CR" /\ stop = Len(p) THEN "unknown"
          ELSE IF p[stop] = "CR" /\ p[stop + 1] = "LF" /\ SizeLine(p, stop - 1) THEN "chunked" ELSE "raw"
    BY DEF ClassifyCompatBody, Stops
  <2> HIDE DEF stop
  <2> QED BY <1>4, <2>2, <2>3 DEF IsStop
<1> QED BY <1>2, <1>3, <1>4

\* A verdict on the bytes that are there is the verdict on the whole body.
LEMMA VerdictIsStable ==
  ASSUME NEW p \in Seq(Bytes), NEW b \in Seq(Bytes), Len(p) <= Len(b),
         \A i \in 1 .. Len(p) : p[i] = b[i], ClassifyCompatBody(p) # "unknown"
  PROVE  ClassifyCompatBody(b) = ClassifyCompatBody(p)
<1> USE FramingAssumption
<1>l. Len(p) \in Nat /\ Len(b) \in Nat
  OBVIOUS
<1>1. CASE Stops(p) = {}
  <2>1. Limit <= Len(p)
    BY <1>1, <1>l, Verdicts
  <2>2. Stops(b) = {}
    <3> SUFFICES ASSUME NEW i \in Stops(b) PROVE FALSE
      OBVIOUS
    <3>1. i \in 1 .. Len(p) /\ i <= Limit /\ p[i] \notin {"hex", "semi"}
      BY <2>1, <1>l DEF Stops
    <3> QED BY <3>1, <1>1 DEF Stops
  <2> QED BY <1>1, <2>1, <2>2, <1>l, Verdicts
<1>2. CASE Stops(p) # {}
  <2>1. PICK i : IsStop(p, i)
    BY <1>2, Verdicts
  <2>2. i \in 1 .. Len(p) /\ i <= Limit /\ p[i] \notin {"hex", "semi"}
    BY <2>1 DEF IsStop, Stops
  <2>3. IsStop(b, i)
    <3>1. i \in Stops(b)
      BY <2>2, <1>l DEF Stops
    <3>2. ASSUME NEW j \in Stops(b) PROVE i <= j
      <4>1. CASE j <= Len(p)
        BY <4>1, <2>1, <1>l DEF Stops, IsStop
      <4>2. CASE ~(j <= Len(p))
        BY <4>2, <2>2, <1>l DEF Stops
      <4> QED BY <4>1, <4>2
    <3> QED BY <3>1, <3>2 DEF IsStop
  <2>4. ~(p[i] = "CR" /\ i = Len(p))
    BY <2>1, Verdicts
  <2>5. b[i] = p[i] /\ (p[i] = "CR" => b[i + 1] = p[i + 1] /\ i # Len(b))
    BY <2>2, <2>4, <1>l
  <2>6. SizeLine(b, i - 1) <=> SizeLine(p, i - 1)
    <3>1. i > 1 => b[1] = p[1]
      BY <2>2, <1>l
    <3>2. ASSUME NEW j \in 1 .. MaxDigits + 1
          PROVE  (j > i - 1 \/ p[j] # "hex") <=> (j > i - 1 \/ b[j] # "hex")
      BY <2>2, <1>l
    <3> QED BY <3>1, <3>2, <2>2 DEF SizeLine
  <2> QED BY <2>1, <2>3, <2>4, <2>5, <2>6, Verdicts
<1> QED BY <1>1, <1>2

\* Limit bytes without a verdict end in a CR.
LEMMA UnknownAtLimit ==
  ASSUME NEW p \in Seq(Bytes), NEW b \in Seq(Bytes), Len(p) <= Len(b),
         \A i \in 1 .. Len(p) : p[i] = b[i],
         ClassifyCompatBody(p) = "unknown", ~(Len(p) < Limit)
  PROVE  EndsAtLimit(b)
<1> USE FramingAssumption
<1>l. Len(p) \in Nat /\ Len(b) \in Nat
  OBVIOUS
<1>1. Stops(p) # {}
  BY Verdicts
<1>2. PICK i : IsStop(p, i)
  BY <1>1, Verdicts
<1>3. p[i] = "CR" /\ i = Len(p)
  BY <1>2, Verdicts
<1>4. i \in 1 .. Len(p) /\ i <= Limit
  BY <1>2 DEF IsStop, Stops
<1>5. Len(p) = Limit
  BY <1>3, <1>4, <1>l
<1>6. ASSUME NEW j \in 1 .. Limit - 1 PROVE b[j] \in {"hex", "semi"}
  <2>1. j \notin Stops(p)
    BY <1>2, <1>3, <1>5, <1>l DEF IsStop
  <2>2. j \in 1 .. Len(p) /\ j <= Limit
    BY <1>5
  <2> QED BY <2>1, <2>2 DEF Stops
<1> QED BY <1>3, <1>4, <1>5, <1>6, <1>l DEF EndsAtLimit

-----------------------------------------------------------------------------
(* Types.                                                                   *)

LEMMA ScriptTyped ==
  ASSUME script \in Scripts
  PROVE  /\ script \in Seq(Request) /\ Len(script) \in Nat \ {0}
         /\ \A k \in 1 .. Len(script) :
              /\ script[k].framing \in {"none", "length", "chunked"}
              /\ script[k].body \in Seq(Bytes) /\ Len(script[k].body) \in Nat
              /\ \A i \in 1 .. Len(script[k].body) : script[k].body[i] \in Bytes
              /\ script[k].known \in BOOLEAN /\ script[k].expect \in BOOLEAN
<1>1. script \in Seq(Request) /\ script # <<>>
  BY FramingAssumption
<1>2. Len(script) \in Nat \ {0}
  BY <1>1, EmptySeq
<1>3. ASSUME NEW k \in 1 .. Len(script) PROVE script[k] \in Request
  BY <1>1, ElementOfSeq
<1> QED BY <1>1, <1>2, <1>3 DEF Request

\* A read takes n of the items s.
LEMMA ReadTyped ==
  ASSUME NEW s \in Seq(Items), NEW n \in 1 .. Len(s)
  PROVE  /\ SubSeq(s, 1, n) \in Seq(Items) /\ SubSeq(s, n + 1, Len(s)) \in Seq(Items)
         /\ Len(SubSeq(s, 1, n)) = n
         /\ SubSeq(s, 1, n) \o SubSeq(s, n + 1, Len(s)) = s
<1>1. Len(s) \in Nat
  OBVIOUS
<1>2. SubSeq(s, 1, n) \in Seq(Items) /\ SubSeq(s, n + 1, Len(s)) \in Seq(Items)
  BY <1>1
<1>3. Len(SubSeq(s, 1, n)) = n
  BY <1>1
<1>4. 1 \in 1 .. Len(s) + 1 /\ n \in 1 - 1 .. Len(s) /\ Len(s) \in n .. Len(s)
  BY <1>1
<1>5. SubSeq(s, 1, n) \o SubSeq(s, n + 1, Len(s)) = SubSeq(s, 1, Len(s))
  BY <1>4, ConcatAdjacentSubSeq
<1>6. SubSeq(s, 1, Len(s)) = s
  BY SubSeqFull
<1> QED BY <1>2, <1>3, <1>5, <1>6

\* The streams are sequences of items.  \o by a name: the provers, which unfold \o, take it as it is.
Cat(s, t) == s \o t

LEMMA CatAssoc ==
  ASSUME NEW s \in Seq(Items), NEW t \in Seq(Items), NEW u \in Seq(Items)
  PROVE  Cat(Cat(s, t), u) = Cat(s, Cat(t, u))
BY ConcatAssociative DEF Cat

LEMMA CatTyped ==
  ASSUME NEW s \in Seq(Items), NEW t \in Seq(Items)
  PROVE  Cat(s, t) \in Seq(Items)
BY ConcatProperties DEF Cat

LEMMA TypeStep == TypeOK /\ [Next]_vars => TypeOK'
<1> SUFFICES ASSUME TypeOK, [Next]_vars PROVE TypeOK'
  OBVIOUS
<1> USE DEF TypeOK, clientVars
<1>s. Len(script) \in Nat \ {0} /\ cur \in Nat /\ answered \in Nat
  BY ScriptTyped
<1>e. ASSUME NEW framing \in {"none", "length", "chunked"}
      PROVE  [seen EXCEPT ![1] = framing] \in [1 .. Len(script) -> {"none", "length", "chunked"}]
  OBVIOUS
<1>j. ASSUME NEW mode, NEW length, Judge(mode, length), mode \in {"raw", "chunked", "unknown"}
      PROVE  /\ phase' \in {"header", "classify", "pass", "failed"}
             /\ seen' \in [1 .. Len(script) -> {"none", "length", "chunked"}] /\ late' \in BOOLEAN
  BY <1>j, <1>e DEF Judge, Settle, Framing
<1>c. \A p : ClassifyCompatBody(p) \in {"raw", "chunked", "unknown"}
  BY DEF ClassifyCompatBody
<1>1. CASE SendHeader
  <2>1. Item(cur + 1, "header") \in Items
    BY <1>s DEF Item, Items
  <2> QED BY <1>1, <2>1, <1>s DEF SendHeader, Send
<1>2. CASE SendByte
  <2>1. script[cur].body[pos + 1] \in Bytes
    BY <1>2, <1>s, ScriptTyped DEF SendByte
  <2>2. Item(cur, script[cur].body[pos + 1]) \in Items
    BY <2>1, <1>2, <1>s DEF SendByte, Item, Items
  <2> QED BY <1>2, <2>2, <1>s DEF SendByte, Send
<1>3. ASSUME NEW n \in 1 .. Len(sent), ReadHeader(n) PROVE TypeOK'
  <2>1. buf' \in Seq(Items) /\ wire' \in Seq(Items)
    BY <1>3, ReadTyped DEF ReadHeader
  <2>2. /\ phase' \in {"header", "classify", "pass", "failed"}
        /\ seen' \in [1 .. Len(script) -> {"none", "length", "chunked"}] /\ late' \in BOOLEAN
    <3>1. CASE ~Candidate(script[1])
      BY <1>3, <3>1 DEF ReadHeader
    <3>2. CASE Candidate(script[1]) /\ script[1].expect
      BY <1>3, <3>2, <1>e DEF ReadHeader, Settle
    <3>3. CASE Candidate(script[1]) /\ ~script[1].expect
      BY <1>3, <3>3, <1>j, <1>c DEF ReadHeader
    <3> QED BY <3>1, <3>2, <3>3
  <2> QED BY <1>3, <2>1, <2>2 DEF ReadHeader
<1>4. ASSUME NEW n \in 1 .. Len(sent), ReadMore(n) PROVE TypeOK'
  <2>1. buf' \in Seq(Items) /\ wire' \in Seq(Items)
    BY <1>4, ReadTyped, ConcatProperties DEF ReadMore
  <2>2. /\ phase' \in {"header", "classify", "pass", "failed"}
        /\ seen' \in [1 .. Len(script) -> {"none", "length", "chunked"}] /\ late' \in BOOLEAN
    BY <1>4, <1>j, <1>c DEF ReadMore
  <2> QED BY <1>4, <2>1, <2>2 DEF ReadMore
<1>5. ASSUME NEW n \in 1 .. Len(sent), ReadBuffered(n) \/ ReadThrough(n) PROVE TypeOK'
  <2>1. buf' \in Seq(Items) /\ wire' \in Seq(Items) /\ out' \in Seq(Items)
    <3>1. CASE ReadBuffered(n)
      BY <3>1, ReadTyped, ConcatProperties DEF ReadBuffered
    <3>2. CASE ReadThrough(n)
      BY <3>2, ReadTyped, ConcatProperties DEF ReadThrough
    <3> QED BY <1>5, <3>1, <3>2
  <2> QED BY <1>5, <2>1 DEF ReadBuffered, ReadThrough
<1>6. CASE Deadline
  BY <1>6, <1>e DEF Deadline, Settle, Framing
<1>7. CASE ReadFails
  BY <1>7 DEF ReadFails
<1>8. CASE Answer
  BY <1>8, <1>s DEF Answer
<1>9. CASE UNCHANGED vars
  BY <1>9 DEF vars
<1> QED BY <1>1, <1>2, <1>3, <1>4, <1>5, <1>6, <1>7, <1>8, <1>9 DEF Next, ReadSome

LEMMA InitTyped == Init => TypeOK
<1> SUFFICES ASSUME Init PROVE TypeOK
  OBVIOUS
<1>1. \A k \in 1 .. Len(script) : script[k].framing \in {"none", "length", "chunked"}
  BY ScriptTyped DEF Init
<1>2. seen \in [1 .. Len(script) -> {"none", "length", "chunked"}]
  BY <1>1 DEF Init
<1>3. Len(script) \in Nat
  BY ScriptTyped DEF Init
<1>4. \A S : <<>> \in Seq(S)
  BY EmptySeq
<1>5. sent \in Seq(Items) /\ wire \in Seq(Items) /\ buf \in Seq(Items) /\ out \in Seq(Items)
  BY <1>4 DEF Init
<1>6. script \in Scripts /\ phase = "header" /\ late = FALSE
  BY DEF Init
<1>7. cur \in 0 .. Len(script) /\ pos \in Nat /\ answered \in 0 .. cur
  BY <1>3 DEF Init
<1> QED BY <1>2, <1>5, <1>6, <1>7 DEF TypeOK

\* The variables keep their types, whatever clients send.
THEOREM TypeCorrect == Spec => []TypeOK
BY InitTyped, TypeStep, PTL DEF Spec

-----------------------------------------------------------------------------
\* Before the layer is transparent net/http has read nothing.
Early ==
    phase # "pass" =>
        /\ out = <<>> /\ answered = 0
        /\ phase = "header" => buf = <<>>

\* Every item is on one side of the reads or on the other.
LEMMA OrderStep ==
  ASSUME TypeOK, Early, NothingLost, [Next]_vars
  PROVE  Early' /\ NothingLost'
<1> USE DEF TypeOK, clientVars
<1>q. out \in Seq(Items) /\ buf \in Seq(Items) /\ wire \in Seq(Items)
  OBVIOUS
<1>1. ASSUME NEW item \in Items, Send(item), UNCHANGED <<buf, out, phase, answered>>
      PROVE  Early' /\ NothingLost'
  <2>1. out \o (buf \o wire) = sent
    <3>1. Cat(Cat(out, buf), wire) = Cat(out, Cat(buf, wire))
      BY <1>q, CatAssoc
    <3> QED BY <3>1 DEF Cat, NothingLost
  <2>0. <<item>> \in Seq(Items)
    OBVIOUS
  <2>2. out \o buf \o wire \o <<item>> = out \o buf \o (wire \o <<item>>)
    <3>1. Cat(out, buf) \in Seq(Items)
      BY <1>q, CatTyped
    <3>2. Cat(Cat(Cat(out, buf), wire), <<item>>) = Cat(Cat(out, buf), Cat(wire, <<item>>))
      BY <1>q, <2>0, <3>1, CatAssoc
    <3> QED BY <3>2 DEF Cat
  <2>3. wire' = wire \o <<item>> /\ sent' = sent \o <<item>>
    BY <1>1, AppendIsConcat DEF Send
  <2> QED BY <1>1, <2>2, <2>3 DEF NothingLost, Early
<1>2. CASE SendHeader
  <2>1. Item(cur + 1, "header") \in Items
    BY ScriptTyped DEF Item, Items
  <2> QED BY <1>1, <1>2, <2>1 DEF SendHeader
<1>3. CASE SendByte
  <2>0. cur \in 1 .. Len(script) /\ pos + 1 \in 1 .. Len(script[cur].body)
    BY <1>3, ScriptTyped DEF SendByte
  <2>1. script[cur].body[pos + 1] \in Bytes
    BY <2>0, ScriptTyped
  <2>2. Item(cur, script[cur].body[pos + 1]) \in Items
    BY <2>0, <2>1, ScriptTyped DEF Item, Items
  <2> QED BY <1>1, <1>3, <2>2 DEF SendByte
<1>4. ASSUME NEW n \in 1 .. Len(sent), ReadHeader(n) PROVE Early' /\ NothingLost'
  <2>1. out = <<>> /\ buf = <<>> /\ answered = 0 /\ UNCHANGED <<sent, out, answered>>
    BY <1>4 DEF ReadHeader, Early
  <2>2. buf' \o wire' = wire /\ buf' \in Seq(Items)
    BY <1>4, ReadTyped DEF ReadHeader
  <2>3. out \o buf = <<>> /\ <<>> \o wire = wire /\ out \o buf' = buf'
    BY <2>1, <2>2, ConcatEmptySeq
  <2>4. phase' # "header"
    BY <1>4 DEF ReadHeader, Settle, Judge
  <2> QED BY <2>1, <2>2, <2>3, <2>4 DEF NothingLost, Early
<1>5. ASSUME NEW n \in 1 .. Len(sent), ReadMore(n) PROVE Early' /\ NothingLost'
  <2>1. out = <<>> /\ answered = 0 /\ UNCHANGED <<sent, out, answered>>
    BY <1>5 DEF ReadMore, Early
  <2> DEFINE s == SubSeq(wire, 1, n)
             t == SubSeq(wire, n + 1, Len(wire))
  <2>2. s \in Seq(Items) /\ t \in Seq(Items) /\ s \o t = wire
    BY <1>5, ReadTyped DEF ReadMore
  <2>3. buf' = buf \o s /\ wire' = t
    BY <1>5 DEF ReadMore
  <2> HIDE DEF s, t
  <2>4. (buf \o s) \o t = buf \o wire
    <3>1. Cat(Cat(buf, s), t) = Cat(buf, Cat(s, t))
      BY <1>q, <2>2, CatAssoc
    <3> QED BY <2>2, <3>1 DEF Cat
  <2>5. out \o buf = buf /\ out \o buf' = buf'
    <3>1. buf \o s \in Seq(Items)
      BY <2>2, ConcatProperties
    <3> QED BY <2>1, <2>3, <3>1, ConcatEmptySeq
  <2>6. phase' # "header"
    BY <1>5 DEF ReadMore, Settle, Judge
  <2> QED BY <2>1, <2>3, <2>4, <2>5, <2>6 DEF NothingLost, Early
<1>6. ASSUME NEW n \in 1 .. Len(sent), ReadBuffered(n) PROVE Early' /\ NothingLost'
  <2> DEFINE s == SubSeq(buf, 1, n)
             t == SubSeq(buf, n + 1, Len(buf))
  <2>1. s \in Seq(Items) /\ t \in Seq(Items) /\ s \o t = buf
    BY <1>6, ReadTyped DEF ReadBuffered
  <2>2. out' = out \o s /\ buf' = t /\ phase = "pass" /\ UNCHANGED <<sent, wire, phase>>
    BY <1>6 DEF ReadBuffered
  <2> HIDE DEF s, t
  <2>3. (out \o s) \o t = out \o buf
    <3>1. Cat(Cat(out, s), t) = Cat(out, Cat(s, t))
      BY <1>q, <2>1, CatAssoc
    <3> QED BY <2>1, <3>1 DEF Cat
  <2> QED BY <2>2, <2>3 DEF NothingLost, Early
<1>7. ASSUME NEW n \in 1 .. Len(sent), ReadThrough(n) PROVE Early' /\ NothingLost'
  <2> DEFINE s == SubSeq(wire, 1, n)
             t == SubSeq(wire, n + 1, Len(wire))
  <2>1. s \in Seq(Items) /\ t \in Seq(Items) /\ s \o t = wire
    BY <1>7, ReadTyped DEF ReadThrough
  <2>2. out' = out \o s /\ wire' = t /\ buf = <<>> /\ phase = "pass" /\ UNCHANGED <<sent, buf, phase>>
    BY <1>7 DEF ReadThrough
  <2> HIDE DEF s, t
  <2>3. (out \o s) \o t = out \o wire
    <3>1. Cat(Cat(out, s), t) = Cat(out, Cat(s, t))
      BY <1>q, <2>1, CatAssoc
    <3> QED BY <2>1, <3>1 DEF Cat
  <2>4. out \o buf = out /\ (out \o s) \o <<>> = out \o s
    <3>1. out \o s \in Seq(Items)
      BY <2>1, ConcatProperties
    <3> QED BY <2>2, <3>1, ConcatEmptySeq
  <2> QED BY <2>2, <2>3, <2>4 DEF NothingLost, Early
<1>8. CASE Deadline \/ ReadFails
  BY <1>8 DEF Deadline, ReadFails, Settle, NothingLost, Early
<1>9. CASE Answer
  <2>1. phase = "pass"
    BY <1>9 DEF Answer, Has, Early
  <2> QED BY <1>9, <2>1 DEF Answer, NothingLost, Early
<1>10. CASE UNCHANGED vars
  BY <1>10 DEF vars, NothingLost, Early
<1> QED BY <1>2, <1>3, <1>4, <1>5, <1>6, <1>7, <1>8, <1>9, <1>10 DEF Next, ReadSome

-----------------------------------------------------------------------------
\* What has been sent before the first answer: the first request, in order.
FirstSent ==
    answered = 0 =>
        /\ cur <= 1
        /\ cur = 0 => sent = <<>>
        /\ cur = 1 =>
             /\ pos <= Len(script[1].body) /\ Len(sent) = pos + 1
             /\ \A i \in 1 .. pos : sent[i + 1] = Item(1, script[1].body[i])

LEMMA FirstSentStep ==
  ASSUME TypeOK, Early, FirstSent, [Next]_vars
  PROVE  FirstSent'
<1> USE DEF TypeOK, clientVars
<1>s. Len(script) \in Nat \ {0} /\ cur \in Nat /\ answered \in Nat
  BY ScriptTyped
<1>1. CASE SendHeader
  <2> SUFFICES ASSUME answered = 0 PROVE FirstSent'
    BY <1>1 DEF SendHeader, FirstSent
  <2>1. cur = 0 /\ sent = <<>> /\ cur' = 1 /\ pos' = 0 /\ UNCHANGED script
    BY <1>1, <1>s DEF SendHeader, FirstSent
  <2>2. Item(1, "header") \in Items
    BY DEF Item, Items
  <2>3. sent' = Append(sent, Item(1, "header"))
    BY <1>1, <2>1 DEF SendHeader, Send
  <2>4. Len(sent') = 1
    BY <2>1, <2>2, <2>3
  <2>5. Len(script[1].body) \in Nat
    BY ScriptTyped
  <2> QED BY <2>1, <2>4, <2>5 DEF FirstSent
<1>2. CASE SendByte
  <2> SUFFICES ASSUME answered = 0 PROVE FirstSent'
    BY <1>2 DEF SendByte, FirstSent
  <2>1. /\ cur = 1 /\ pos < Len(script[1].body) /\ UNCHANGED <<cur, script>> /\ pos' = pos + 1
        /\ Len(sent) = pos + 1 /\ \A i \in 1 .. pos : sent[i + 1] = Item(1, script[1].body[i])
    BY <1>2, <1>s DEF SendByte, FirstSent
  <2>0. Len(script[1].body) \in Nat
    BY ScriptTyped
  <2>2. script[1].body[pos + 1] \in Bytes
    <3>1. 1 \in 1 .. Len(script) /\ pos + 1 \in 1 .. Len(script[1].body)
      BY <1>s, <2>0, <2>1
    <3> QED BY <3>1, ScriptTyped
  <2>3. Item(1, script[1].body[pos + 1]) \in Items
    BY <2>2 DEF Item, Items
  <2>4. sent' = Append(sent, Item(1, script[1].body[pos + 1]))
    BY <1>2, <2>1 DEF SendByte, Send
  <2>5. /\ Len(sent') = pos + 2 /\ sent'[pos + 2] = Item(1, script[1].body[pos + 1])
        /\ \A i \in 1 .. pos + 1 : sent'[i] = sent[i]
    BY <2>1, <2>3, <2>4, AppendProperties
  <2>6. \A i \in 1 .. pos + 1 : sent'[i + 1] = Item(1, script[1].body[i])
    BY <2>1, <2>5
  <2> QED BY <2>1, <2>0, <2>5, <2>6 DEF FirstSent
<1>3. CASE Answer
  <2>1. answered' # 0
    BY <1>3, <1>s DEF Answer
  <2> QED BY <2>1 DEF FirstSent
<1>4. ASSUME UNCHANGED <<clientVars, answered>> PROVE FirstSent'
  BY <1>4 DEF FirstSent
<1>5. CASE Deadline \/ ReadFails \/ UNCHANGED vars \/ \E n \in 1 .. Len(sent) : ReadSome(n)
  <2>1. UNCHANGED <<clientVars, answered>>
    BY <1>5 DEF Deadline, ReadFails, vars, ReadSome, ReadHeader, ReadMore, ReadBuffered, ReadThrough
  <2> QED BY <2>1, <1>4
<1> QED BY <1>1, <1>2, <1>3, <1>5 DEF Next

\* What has been read before the verdict is the start of the first body.
LEMMA PrefixOfBody ==
  ASSUME TypeOK, FirstSent, answered = 0,
         NEW s \in Seq(Items), NEW t \in Seq(Items), s \o t = sent, s # <<>>
  PROVE  /\ Prefix(s) \in Seq(Bytes) /\ Len(Prefix(s)) <= Len(script[1].body)
         /\ \A i \in 1 .. Len(Prefix(s)) : Prefix(s)[i] = script[1].body[i]
<1> DEFINE body == script[1].body
           p == Prefix(s)
<1>1. Len(body) \in Nat /\ \A i \in 1 .. Len(body) : body[i] \in Bytes
  <2>1. script \in Scripts
    BY DEF TypeOK
  <2>2. 1 \in 1 .. Len(script)
    BY <2>1, ScriptTyped
  <2> QED BY <2>1, <2>2, ScriptTyped
<1>2. Len(s) \in Nat \ {0} /\ Len(t) \in Nat
  BY EmptySeq
<1>3. Len(sent) = Len(s) + Len(t) /\ \A i \in 1 .. Len(s) : sent[i] = s[i]
  BY ConcatProperties
<1>4. sent # <<>>
  BY <1>2, <1>3
<1>5. /\ cur = 1 /\ pos <= Len(body) /\ Len(sent) = pos + 1 /\ pos \in Nat
      /\ \A i \in 1 .. pos : sent[i + 1] = Item(1, body[i])
  BY <1>4 DEF FirstSent, TypeOK
<1>6. \A i \in 1 .. Len(s) - 1 : s[i + 1].class = body[i] /\ body[i] \in Bytes
  <2> SUFFICES ASSUME NEW i \in 1 .. Len(s) - 1 PROVE s[i + 1].class = body[i] /\ body[i] \in Bytes
    OBVIOUS
  <2>1. i \in 1 .. pos /\ i + 1 \in 1 .. Len(s)
    BY <1>2, <1>3, <1>5
  <2>2. s[i + 1] = Item(1, body[i])
    BY <1>3, <1>5, <2>1
  <2>3. i \in 1 .. Len(body)
    BY <1>1, <1>5, <2>1
  <2> QED BY <1>1, <2>2, <2>3 DEF Item
<1>7. p = [i \in 1 .. Len(s) - 1 |-> s[i + 1].class]
  BY DEF Prefix
<1>8. p \in Seq(Bytes) /\ Len(p) = Len(s) - 1
  <2> DEFINE n == Len(s) - 1
  <2> HIDE DEF p
  <2>0. n \in Nat
    BY <1>2
  <2>3. \A i \in 1 .. n : s[i + 1].class \in Bytes
    BY <1>6
  <2>4. p = [i \in 1 .. n |-> s[i + 1].class]
    BY <1>7
  <2> HIDE DEF n
  <2>1. n \in Nat /\ p \in [1 .. n -> Bytes]
    BY <2>0, <2>3, <2>4
  <2>2. p \in Seq(Bytes) /\ Len(p) = n
    BY <2>1
  <2> QED BY <2>2 DEF n
<1> HIDE DEF p
<1>9. Len(p) <= Len(body)
  BY <1>1, <1>2, <1>3, <1>5, <1>8
<1>10. \A i \in 1 .. Len(p) : p[i] = body[i]
  BY <1>6, <1>7, <1>8
<1> QED BY <1>8, <1>9, <1>10 DEF p

LEMMA PrefixLength ==
  ASSUME NEW s \in Seq(Items), s # <<>>
  PROVE  Len(Prefix(s)) = Len(s) - 1
<1> DEFINE n == Len(s) - 1
<1>1. n \in Nat
  BY EmptySeq
<1>2. Prefix(s) = [i \in 1 .. n |-> s[i + 1].class]
  BY DEF Prefix
<1> HIDE DEF n
<1>3. Len(Prefix(s)) = n
  BY <1>1, <1>2
<1> QED BY <1>3 DEF n

\* The framing in the first header, and why.
Framed ==
    LET r == script[1] IN
        /\ phase # "pass" => seen[1] = r.framing /\ ~late
        /\ phase = "classify" => Candidate(r) /\ ~r.expect /\ buf # <<>>
        /\ phase = "pass" =>
             /\ ~Candidate(r) => seen[1] = r.framing
             /\ Candidate(r) /\ r.expect => seen[1] = "length"
             /\ Candidate(r) /\ ~r.expect /\ late => seen[1] = "chunked"

\* The inductive invariant.
FramingInv == TypeOK /\ Early /\ NothingLost /\ FirstSent /\ Framed /\ SplitIndependent

\* What Judge makes of the first bytes s.
LEMMA JudgeStep ==
  ASSUME TypeOK, FirstSent, answered = 0, phase # "pass", Framed,
         NEW s \in Seq(Items), NEW t \in Seq(Items), s \o t = sent, s # <<>>, buf' = s,
         Candidate(script[1]), ~script[1].expect, UNCHANGED script,
         Judge(ClassifyCompatBody(Prefix(s)), Len(Prefix(s)))
  PROVE  Framed' /\ SplitIndependent'
<1> DEFINE mode == ClassifyCompatBody(Prefix(s))
           length == Len(Prefix(s))
           body == script[1].body
<1>1. script[1].body \in Seq(Bytes) /\ 1 \in DOMAIN seen
  BY ScriptTyped DEF TypeOK
<1>2. mode # "unknown" => ClassifyCompatBody(body) = mode
  BY <1>1, PrefixOfBody, VerdictIsStable
<1>3. Candidate(script[1])' = Candidate(script[1])
  BY DEF Candidate
<1> HIDE DEF mode, length
<1>4. CASE phase' = "classify" /\ UNCHANGED <<seen, late>>
  BY <1>3, <1>4 DEF Framed, SplitIndependent, Judged
<1>5. CASE Settle(Framing(mode)) /\ UNCHANGED late /\ ~(mode = "unknown" /\ length < Limit)
  <2>1. phase' = "pass" /\ seen'[1] = Framing(mode) /\ ~late'
    BY <1>1, <1>5 DEF Settle, Framed
  <2>2. CASE mode = "unknown"
    <3>1. ClassifyCompatBody(Prefix(s)) = "unknown" /\ ~(Len(Prefix(s)) < Limit)
      BY <1>5, <2>2 DEF mode, length
    <3>2. EndsAtLimit(body)
      BY <1>1, <3>1, PrefixOfBody, UnknownAtLimit
    <3> QED BY <1>3, <2>1, <2>2, <3>2 DEF Framed, SplitIndependent, Judged, Framing
  <2>3. CASE mode # "unknown"
    BY <1>2, <1>3, <1>5, <2>1, <2>3 DEF Framed, SplitIndependent, Judged
  <2> QED BY <2>2, <2>3
<1> QED BY <1>4, <1>5 DEF Judge, mode, length

LEMMA FramedStep ==
  ASSUME FramingInv, [Next]_vars
  PROVE  Framed' /\ SplitIndependent'
<1> USE DEF FramingInv, TypeOK, clientVars
<1>q. out \in Seq(Items) /\ buf \in Seq(Items) /\ wire \in Seq(Items)
  OBVIOUS
<1>c. script' = script => Candidate(script[1])' = Candidate(script[1])
  BY DEF Candidate
<1>1. ASSUME NEW n \in 1 .. Len(sent), ReadHeader(n) PROVE Framed' /\ SplitIndependent'
  <2>1. out = <<>> /\ buf = <<>> /\ answered = 0 /\ phase = "header" /\ UNCHANGED script
    BY <1>1 DEF ReadHeader, Early
  <2> DEFINE s == SubSeq(wire, 1, n)
             t == SubSeq(wire, n + 1, Len(wire))
  <2>2. s \in Seq(Items) /\ t \in Seq(Items) /\ s \o t = wire /\ Len(s) = n
    BY <1>1, ReadTyped DEF ReadHeader
  <2>3. buf' = s
    BY <1>1 DEF ReadHeader
  <2> HIDE DEF s, t
  <2>4. s \o t = sent
    BY <2>1, <2>2, <1>q, ConcatEmptySeq DEF NothingLost
  <2>5. s # <<>>
    BY <2>2
  <2>6. CASE ~Candidate(script[1])
    BY <1>1, <1>c, <2>1, <2>6 DEF ReadHeader, Framed, SplitIndependent, Judged
  <2>7. CASE Candidate(script[1]) /\ script[1].expect
    <3>1. 1 \in DOMAIN seen
      BY ScriptTyped
    <3> QED BY <1>1, <1>c, <2>1, <2>7, <3>1 DEF ReadHeader, Settle, Framed, SplitIndependent, Judged
  <2>8. CASE Candidate(script[1]) /\ ~script[1].expect
    <3>1. Judge(ClassifyCompatBody(Prefix(s)), Len(Prefix(s)))
      <4>1. Judge(ClassifyCompatBody(Prefix(s)), n - 1)
        BY <1>1, <2>3, <2>8 DEF ReadHeader
      <4>2. Len(Prefix(s)) = n - 1
        BY <2>2, <2>5, PrefixLength
      <4> QED BY <4>1, <4>2
    <3> QED BY <2>1, <2>2, <2>3, <2>4, <2>5, <2>8, <3>1, JudgeStep
  <2> QED BY <2>6, <2>7, <2>8
<1>2. ASSUME NEW n \in 1 .. Len(sent), ReadMore(n) PROVE Framed' /\ SplitIndependent'
  <2>1. /\ out = <<>> /\ answered = 0 /\ phase = "classify" /\ UNCHANGED script
        /\ Candidate(script[1]) /\ ~script[1].expect /\ buf # <<>>
    BY <1>2 DEF ReadMore, Early, Framed
  <2> DEFINE s == buf \o SubSeq(wire, 1, n)
             t == SubSeq(wire, n + 1, Len(wire))
  <2>2. /\ SubSeq(wire, 1, n) \in Seq(Items) /\ t \in Seq(Items)
        /\ SubSeq(wire, 1, n) \o t = wire
    BY <1>2, ReadTyped DEF ReadMore
  <2> HIDE DEF t
  <2>3. s \in Seq(Items) /\ s \o t = buf \o wire /\ s # <<>>
    <3> DEFINE u == SubSeq(wire, 1, n)
    <3> HIDE DEF u
    <3>1. u \in Seq(Items) /\ u \o t = wire
      BY <2>2 DEF u
    <3>2. buf \o u \in Seq(Items)
      BY <1>q, <3>1, ConcatProperties
    <3>4. (buf \o u) \o t = buf \o (u \o t)
      <4>1. buf \in Seq(Items) /\ u \in Seq(Items) /\ t \in Seq(Items)
        BY <1>q, <2>2, <3>1
      <4>2. Cat(Cat(buf, u), t) = Cat(buf, Cat(u, t))
        BY <4>1, CatAssoc
      <4> QED BY <4>2 DEF Cat
    <3>3. buf \o u # <<>>
      BY <1>q, <2>1, <3>1, ConcatEqualIffEmpty
    <3> QED BY <3>1, <3>2, <3>3, <3>4 DEF u
  <2>4. buf' = s /\ Judge(ClassifyCompatBody(Prefix(s)), Len(Prefix(s)))
    <3>1. Len(SubSeq(wire, 1, n)) = n /\ n \in Nat \ {0}
      BY <1>2, ReadTyped DEF ReadMore
    <3>2. Len(s) = Len(buf) + n
      BY <1>q, <2>2, <3>1, ConcatProperties
    <3>3. Len(Prefix(s)) = Len(buf) + n - 1
      <4>1. Len(Prefix(s)) = Len(s) - 1
        BY <2>3, PrefixLength
      <4> QED BY <3>2, <4>1
    <3>4. buf' = s /\ Judge(ClassifyCompatBody(Prefix(s)), Len(buf) + n - 1)
      BY <1>2 DEF ReadMore
    <3> QED BY <3>3, <3>4
  <2> HIDE DEF s
  <2>5. s \o t = sent
    <3>1. out \o buf = buf
      BY <1>q, <2>1, ConcatEmptySeq
    <3> QED BY <2>3, <3>1 DEF NothingLost
  <2> QED BY <2>1, <2>2, <2>3, <2>4, <2>5, JudgeStep
<1>3. CASE Deadline
  <2>1. 1 \in DOMAIN seen
    BY ScriptTyped
  <2> QED BY <1>3, <1>c, <2>1 DEF Deadline, Settle, Framing, Framed, SplitIndependent, Judged
<1>4. CASE ReadFails
  BY <1>4, <1>c DEF ReadFails, Framed, SplitIndependent, Judged
<1>5. ASSUME UNCHANGED <<script, phase, seen, late>>, phase = "classify" => UNCHANGED buf
      PROVE  Framed' /\ SplitIndependent'
  BY <1>5, <1>c DEF Framed, SplitIndependent, Judged
<1>6. CASE SendHeader \/ SendByte \/ Answer \/ UNCHANGED vars
  <2>1. UNCHANGED <<script, phase, seen, late, buf>>
    BY <1>6 DEF SendHeader, SendByte, Answer, vars
  <2> QED BY <2>1, <1>5
<1>7. ASSUME NEW n \in 1 .. Len(sent), ReadBuffered(n) \/ ReadThrough(n) PROVE Framed' /\ SplitIndependent'
  <2>1. UNCHANGED <<script, phase, seen, late>> /\ phase = "pass"
    BY <1>7 DEF ReadBuffered, ReadThrough
  <2> QED BY <2>1, <1>5
<1> QED BY <1>1, <1>2, <1>3, <1>4, <1>6, <1>7 DEF Next, ReadSome

LEMMA FramingInvariant == Spec => []FramingInv
<1>1. Init => FramingInv
  <2> SUFFICES ASSUME Init PROVE FramingInv
    OBVIOUS
  <2>1. TypeOK
    BY InitTyped
  <2>2. Early /\ FirstSent
    BY DEF Init, Early, FirstSent
  <2>3. NothingLost
    BY ConcatEmptySeq, EmptySeq DEF Init, NothingLost
  <2>4. Framed /\ SplitIndependent
    BY ScriptTyped DEF Init, Framed, SplitIndependent, Judged
  <2> QED BY <2>1, <2>2, <2>3, <2>4 DEF FramingInv
<1>2. FramingInv /\ [Next]_vars => FramingInv'
  BY TypeStep, OrderStep, FirstSentStep, FramedStep DEF FramingInv
<1> QED BY <1>1, <1>2, PTL DEF Spec

\* What net/http has read and will read is what was sent, in order, however
\* the reads of either side cut the stream.
THEOREM StreamIsKept == Spec => []NothingLost
BY FramingInvariant, PTL DEF FramingInv

\* Before the deadline the verdict on the bytes that had arrived is the verdict
\* on the body, whatever the reads; only a prefix that ends at the limit in a CR
\* is taken for chunks before its LF is seen.
THEOREM VerdictIsTheBodys == Spec => []SplitIndependent
BY FramingInvariant, PTL DEF FramingInv

\* A size line without an extension is recognised.
LEMMA PlainChunksAreChunks ==
  ASSUME NEW r \in Request, PlainChunks(r)
  PROVE  ClassifyCompatBody(r.body) = "chunked"
<1> DEFINE p == r.body
<1>1. PICK n \in 1 .. MaxDigits :
        /\ n < Limit /\ Len(p) >= n + 2 /\ \A i \in 1 .. n : p[i] = "hex"
        /\ p[n + 1] = "CR" /\ p[n + 2] = "LF"
  BY DEF PlainChunks
<1>2. p \in Seq(Bytes) /\ Len(p) \in Nat /\ Limit \in Nat /\ n \in Nat /\ MaxDigits \in Nat
  BY FramingAssumption DEF Request
<1> HIDE DEF p
<1>3. n + 1 \in Stops(p)
  BY <1>1, <1>2 DEF Stops
<1>4. ASSUME NEW j \in Stops(p) PROVE n + 1 <= j
  BY <1>1, <1>2 DEF Stops
<1>5. IsStop(p, n + 1)
  BY <1>3, <1>4 DEF IsStop
<1>6. SizeLine(p, n)
  <2>1. n + 1 \in 1 .. MaxDigits + 1 /\ n + 1 > n
    BY <1>1, <1>2
  <2> QED BY <1>1, <1>2, <2>1 DEF SizeLine
<1>7. (n + 1) - 1 = n /\ (n + 1) + 1 = n + 2 /\ n + 1 # Len(p)
  BY <1>1, <1>2
<1>8. ClassifyCompatBody(p) =
         IF p[n + 1] = "CR" /\ n + 1 = Len(p) THEN "unknown"
         ELSE IF p[n + 1] = "CR" /\ p[(n + 1) + 1] = "LF" /\ SizeLine(p, (n + 1) - 1) THEN "chunked" ELSE "raw"
  BY <1>2, <1>5, Verdicts
<1> QED BY <1>1, <1>6, <1>7, <1>8 DEF p

\* The first request of a connection is read with the framing of its sender: the
\* declared one, chunks with a plain size line also when they trickle in, and a
\* file that cannot be chunks unless the deadline came first, or what is looked
\* at ends in a CR.
THEOREM FirstIsUnderstood == Spec => []FirstUnderstood
<1>1. FramingInv => FirstUnderstood
  <2> SUFFICES ASSUME FramingInv, phase = "pass" PROVE FirstUnderstood
    BY DEF FirstUnderstood
  <2> DEFINE r == script[1]
  <2>1. script \in Scripts /\ 1 \in 1 .. Len(script) /\ r \in Request
    BY ScriptTyped, ElementOfSeq DEF FramingInv, TypeOK
  <2>2. /\ r.framing \in {"none", "length", "chunked"} /\ r.coding \in {"identity", "chunked"}
        /\ r.framing # "none" => (r.framing = "chunked" <=> r.coding = "chunked")
    BY <2>1, DeclaredAssumption DEF Request
  <2>3. /\ ~Candidate(r) => seen[1] = r.framing
        /\ Candidate(r) /\ r.expect => seen[1] = "length"
        /\ Candidate(r) /\ ~r.expect /\ late => seen[1] = "chunked"
        /\ Candidate(r) /\ ~r.expect /\ ~late =>
             \/ seen[1] = Framing(ClassifyCompatBody(r.body))
             \/ EndsAtLimit(r.body) /\ seen[1] = "chunked"
    BY DEF FramingInv, Framed, SplitIndependent, Judged
  <2> HIDE DEF r
  <2>4. r.framing # "none" => seen[1] = r.framing
    BY <2>3 DEF Candidate
  <2>5. r.known /\ ~r.expect /\ PlainChunks(r) => seen[1] = "chunked" /\ r.coding = "chunked"
    BY <2>1, <2>2, <2>3, PlainChunksAreChunks DEF Candidate, Framing, PlainChunks
  <2>6. r.known /\ (r.expect \/ ~(late \/ EndsAtLimit(r.body))) /\ PlainFile(r) => seen[1] = "length" /\ r.coding = "identity"
    BY <2>2, <2>3 DEF Candidate, Framing, PlainFile
  <2> QED BY <2>4, <2>5, <2>6 DEF FirstUnderstood, Fits, r
<1> QED BY <1>1, FramingInvariant, PTL
=============================================================================
