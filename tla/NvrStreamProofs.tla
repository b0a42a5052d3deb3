-------------------------- MODULE NvrStreamProofs --------------------------
(***************************************************************************)
(* Proofs about NvrStream, for every list of messages, every way recv()    *)
(* cuts them and any number of lost connections: the GUI handles only what *)
(* the recorder sent, and a parser that is in step stays in step.          *)
(***************************************************************************)
EXTENDS NvrStream, SequenceTheorems, NumberSets

-----------------------------------------------------------------------------
(* Messages and cells.                                                     *)

End == <<Len(Messages) + 1, 1>>
Spots == Cells \cup {End}

(* Cell c is written before cell d.                                        *)
Before(c, d) == c[1] < d[1] \/ (c[1] = d[1] /\ c[2] < d[2])

Ascending(s) == \A i, j \in DOMAIN s : i < j => Before(s[i], s[j])

LEMMA MessageTypes ==
    /\ Hdr \in Nat /\ Hdr > 1 /\ MaxSize \in Nat /\ Hdr <= MaxSize /\ Len(Messages) \in Nat
    /\ Ids = 1 .. Len(Messages)
    /\ \A f \in Ids :
        /\ Messages[f] \in [size : Hdr .. MaxSize, heart : BOOLEAN]
        /\ Messages[f].size \in Hdr .. MaxSize
        /\ Messages[f].heart \in BOOLEAN
<1>1. Hdr \in Nat /\ Hdr > 1 /\ MaxSize \in Nat /\ Hdr <= MaxSize
  BY HdrAssumption
<1>2. Messages \in Seq([size : Hdr .. MaxSize, heart : BOOLEAN])
  BY MessagesAssumption
<1>3. Len(Messages) \in Nat /\ Ids = 1 .. Len(Messages)
  BY <1>2 DEF Ids
<1>4. \A f \in Ids : Messages[f] \in [size : Hdr .. MaxSize, heart : BOOLEAN]
  BY <1>2, <1>3, ElementOfSeq
<1>5. QED
  BY <1>1, <1>3, <1>4

LEMMA CellTypes ==
    /\ \A c \in Cells : c = <<c[1], c[2]>> /\ c[1] \in Ids /\ c[2] \in 1 .. Messages[c[1]].size
    /\ \A f \in Ids : \A k \in 1 .. Messages[f].size : <<f, k>> \in Cells
    /\ \A c \in Spots : c[1] \in 1 .. Len(Messages) + 1 /\ c[2] \in Nat /\ c[2] >= 1
    /\ \A c \in Spots : c \notin Cells => c = End
<1>1. \A c \in Cells : \E f \in Ids : \E k \in 1 .. Messages[f].size : c = <<f, k>>
  BY DEF Cells
<1>2. \A f \in Ids : \A k \in 1 .. Messages[f].size : <<f, k>> \in Cells
  BY DEF Cells
<1>3. ASSUME NEW c \in Cells
      PROVE  c = <<c[1], c[2]>> /\ c[1] \in Ids /\ c[2] \in 1 .. Messages[c[1]].size
  <2>1. PICK f \in Ids : \E k \in 1 .. Messages[f].size : c = <<f, k>>
    BY <1>1
  <2>2. PICK k \in 1 .. Messages[f].size : c = <<f, k>>
    BY <2>1
  <2>3. QED
    BY <2>2
<1>4. ASSUME NEW c \in Spots
      PROVE  /\ c[1] \in 1 .. Len(Messages) + 1 /\ c[2] \in Nat /\ c[2] >= 1
             /\ c \notin Cells => c = End
  <2>1. CASE c \in Cells
    <3>1. c[1] \in Ids /\ c[2] \in 1 .. Messages[c[1]].size
      BY <2>1, <1>3
    <3>2. QED
      BY <2>1, <3>1, MessageTypes
  <2>2. CASE c = End
    BY <2>2, MessageTypes DEF End
  <2>3. QED
    BY <2>1, <2>2 DEF Spots
<1>5. QED
  BY <1>2, <1>3, <1>4

(* What the recorder writes after a cell is a later cell, or the end.      *)
LEMMA AfterIsLater ==
    ASSUME NEW c \in Cells
    PROVE  After(c) \in Spots /\ Before(c, After(c))
<1>1. c[1] \in Ids /\ c[2] \in 1 .. Messages[c[1]].size
  BY CellTypes
<1>2. Messages[c[1]].size \in Nat /\ 1 < Messages[c[1]].size
  BY <1>1, MessageTypes
<1>3. CASE c[2] = Messages[c[1]].size
  <2>1. After(c) = <<c[1] + 1, 1>>
    BY <1>3 DEF After
  <2>2. CASE c[1] + 1 \in Ids
    <3>1. 1 \in 1 .. Messages[c[1] + 1].size
      BY <2>2, MessageTypes
    <3>2. QED
      BY <2>1, <2>2, <3>1, <1>1, MessageTypes, CellTypes DEF Spots, Before
  <2>3. CASE c[1] + 1 \notin Ids
    <3>1. c[1] = Len(Messages)
      BY <2>3, <1>1, MessageTypes
    <3>2. QED
      BY <2>1, <3>1, MessageTypes DEF Spots, End, Before
  <2>4. QED
    BY <2>2, <2>3
<1>4. CASE c[2] # Messages[c[1]].size
  <2>1. After(c) = <<c[1], c[2] + 1>>
    BY <1>4 DEF After
  <2>2. c[2] + 1 \in 1 .. Messages[c[1]].size
    BY <1>1, <1>2, <1>4
  <2>3. QED
    BY <1>1, <2>1, <2>2, CellTypes DEF Spots, Before
<1>5. QED
  BY <1>3, <1>4

LEMMA BeforeIsTransitive ==
    ASSUME NEW c \in Spots, NEW d \in Spots, NEW e \in Spots, Before(c, d), Before(d, e)
    PROVE  Before(c, e)
<1>1. /\ c[1] \in Int /\ c[2] \in Int /\ d[1] \in Int /\ d[2] \in Int
      /\ e[1] \in Int /\ e[2] \in Int
  BY CellTypes
<1>2. QED
  BY <1>1 DEF Before

-----------------------------------------------------------------------------
(* What lies ahead of the parser.                                          *)

(* The stream, and where the recorder will go on writing.                  *)
Ahead == Append(Stream, next)

(* The elements of a sequence made of a kept part, the rest and an end.    *)
LEMMA Pieces ==
    ASSUME NEW S, NEW r \in Seq(S), NEW w \in Seq(S), NEW e \in S
    PROVE  LET s == Append(r \o w, e) IN
           /\ s \in Seq(S)
           /\ Len(s) = Len(r) + Len(w) + 1
           /\ \A i \in 1 .. Len(r) : s[i] = r[i]
           /\ \A i \in 1 .. Len(w) : s[Len(r) + i] = w[i]
           /\ s[Len(s)] = e
<1>1. Len(r) \in Nat /\ Len(w) \in Nat
  BY LenProperties
<1>2. /\ r \o w \in Seq(S)
      /\ Len(r \o w) = Len(r) + Len(w)
      /\ \A i \in 1 .. Len(r) + Len(w) :
            (r \o w)[i] = IF i <= Len(r) THEN r[i] ELSE w[i - Len(r)]
  BY ConcatProperties
<1>3. /\ Append(r \o w, e) \in Seq(S)
      /\ Len(Append(r \o w, e)) = Len(r \o w) + 1
      /\ \A i \in 1 .. Len(r \o w) : Append(r \o w, e)[i] = (r \o w)[i]
      /\ Append(r \o w, e)[Len(r \o w) + 1] = e
  BY <1>2, AppendProperties
<1>4. ASSUME NEW i \in 1 .. Len(w)
      PROVE  Append(r \o w, e)[Len(r) + i] = w[i]
  <2>1. Len(r) + i \in 1 .. Len(r) + Len(w) /\ ~(Len(r) + i <= Len(r)) /\ Len(r) + i - Len(r) = i
    BY <1>1
  <2>2. QED
    BY <2>1, <1>2, <1>3
<1>5. QED
  BY <1>1, <1>2, <1>3, <1>4

(* t is s without its first d elements.                                    *)
IsEnd(t, s, d) == Len(t) = Len(s) - d /\ \A i \in 1 .. Len(t) : t[i] = s[d + i]

LEMMA EndOf ==
    ASSUME NEW S, NEW r \in Seq(S), NEW d \in 0 .. Len(r)
    PROVE  /\ SubSeq(r, d + 1, Len(r)) \in Seq(S)
           /\ IsEnd(SubSeq(r, d + 1, Len(r)), r, d)
<1>1. Len(r) \in Nat /\ d \in Nat
  BY LenProperties
<1>2. \A i \in d + 1 .. Len(r) : r[i] \in S
  BY <1>1, ElementOfSeq
<1>3. /\ SubSeq(r, d + 1, Len(r)) \in Seq(S)
      /\ Len(SubSeq(r, d + 1, Len(r)))
            = IF d + 1 <= Len(r) THEN Len(r) - (d + 1) + 1 ELSE 0
      /\ \A i \in 1 .. Len(r) - (d + 1) + 1 :
            SubSeq(r, d + 1, Len(r))[i] = r[(d + 1) + i - 1]
  BY <1>1, <1>2, SubSeqProperties
<1>4. QED
  BY <1>1, <1>3 DEF IsEnd

(* What is left of it when d elements of the kept part go.                 *)
LEMMA Dropped ==
    ASSUME NEW S, NEW r \in Seq(S), NEW w \in Seq(S), NEW e \in S,
           NEW d \in 0 .. Len(r), NEW q \in Seq(S), IsEnd(q, r, d)
    PROVE  IsEnd(Append(q \o w, e), Append(r \o w, e), d)
<1> DEFINE s == Append(r \o w, e)
           t == Append(q \o w, e)
<1>1. Len(r) \in Nat /\ Len(w) \in Nat /\ d \in Nat
  BY LenProperties
<1>2. /\ s \in Seq(S)
      /\ Len(s) = Len(r) + Len(w) + 1
      /\ \A i \in 1 .. Len(r) : s[i] = r[i]
      /\ \A i \in 1 .. Len(w) : s[Len(r) + i] = w[i]
      /\ s[Len(s)] = e
  BY Pieces
<1>3. Len(q) = Len(r) - d /\ \A i \in 1 .. Len(r) - d : q[i] = r[d + i]
  BY DEF IsEnd
<1>4. /\ t \in Seq(S)
      /\ Len(t) = Len(q) + Len(w) + 1
      /\ \A i \in 1 .. Len(q) : t[i] = q[i]
      /\ \A i \in 1 .. Len(w) : t[Len(q) + i] = w[i]
      /\ t[Len(t)] = e
  BY Pieces
<1> HIDE DEF s, t
<1>5. Len(t) = Len(s) - d
  BY <1>1, <1>2, <1>3, <1>4
<1>6. ASSUME NEW i \in 1 .. Len(t)
      PROVE  t[i] = s[d + i]
  <2>1. i \in Nat /\ Len(q) \in Nat /\ i <= Len(q) + Len(w) + 1 /\ 1 <= i
    BY <1>1, <1>3, <1>4
  <2>2. CASE i <= Len(q)
    <3>1. i \in 1 .. Len(q) /\ i \in 1 .. Len(r) - d /\ d + i \in 1 .. Len(r)
      BY <2>1, <2>2, <1>1, <1>3
    <3>2. t[i] = q[i] /\ q[i] = r[d + i] /\ s[d + i] = r[d + i]
      BY <3>1, <1>2, <1>3, <1>4
    <3>3. QED
      BY <3>2
  <2>3. CASE Len(q) < i /\ i <= Len(q) + Len(w)
    <3>1. PICK k \in 1 .. Len(w) : i = Len(q) + k /\ d + i = Len(r) + k
      <4>1. i - Len(q) \in 1 .. Len(w)
        BY <2>1, <2>3, <1>1
      <4>2. i = Len(q) + (i - Len(q)) /\ d + i = Len(r) + (i - Len(q))
        BY <2>1, <1>1, <1>3
      <4>3. QED
        BY <4>1, <4>2
    <3>2. t[i] = w[k] /\ s[d + i] = w[k]
      BY <3>1, <1>2, <1>4
    <3>3. QED
      BY <3>2
  <2>4. CASE i = Len(t)
    <3>1. d + i = Len(s)
      BY <2>4, <1>1, <1>2, <1>3, <1>4
    <3>2. t[i] = e
      BY <2>4, <1>4
    <3>3. s[d + i] = e
      BY <3>1, <1>2
    <3>4. QED
      BY <3>2, <3>3
  <2>5. i <= Len(q) \/ (Len(q) < i /\ i <= Len(q) + Len(w)) \/ i = Len(t)
    <3>1. Len(t) = Len(q) + Len(w) + 1 /\ Len(w) \in Nat
      BY <1>1, <1>4
    <3>2. i \in Nat /\ Len(q) \in Nat /\ (i <= Len(q) + Len(w) \/ i = Len(q) + Len(w) + 1)
      BY SMTT(30), <3>1, <2>1
    <3>3. QED
      BY <3>1, <3>2
  <2>6. QED
    BY <2>2, <2>3, <2>4, <2>5
<1>7. QED
  BY <1>5, <1>6 DEF s, t, IsEnd

(* Between two messages of one recv() nothing is kept.                     *)
NothingKept == pc = "parse" /\ buf = <<>> => leave = <<>>

LEMMA AheadTypes ==
    ASSUME TypeOK
    PROVE  /\ Received \in Seq(Cells) /\ wire \in Seq(Cells)
           /\ Stream \in Seq(Cells)
           /\ Len(Stream) = Len(Received) + Len(wire)
           /\ Ahead \in Seq(Spots)
           /\ Len(Ahead) = Len(Received) + Len(wire) + 1
           /\ \A i \in 1 .. Len(Received) : Ahead[i] = Received[i]
           /\ \A i \in 1 .. Len(wire) : Ahead[Len(Received) + i] = wire[i]
           /\ Ahead[Len(Ahead)] = next
<1>1. Received \in Seq(Cells) /\ wire \in Seq(Cells) /\ next \in Spots
  BY DEF TypeOK, Received, Spots, End
<1>2. Received \in Seq(Spots) /\ wire \in Seq(Spots)
  <2>1. Cells \subseteq Spots
    BY DEF Spots
  <2>2. QED
    BY <1>1, <2>1, SeqMonotonic
<1>3. /\ Ahead \in Seq(Spots)
      /\ Len(Ahead) = Len(Received) + Len(wire) + 1
      /\ \A i \in 1 .. Len(Received) : Ahead[i] = Received[i]
      /\ \A i \in 1 .. Len(wire) : Ahead[Len(Received) + i] = wire[i]
      /\ Ahead[Len(Ahead)] = next
  BY <1>1, <1>2, Pieces DEF Ahead, Stream
<1>4. Stream \in Seq(Cells) /\ Len(Stream) = Len(Received) + Len(wire)
  BY <1>1, ConcatProperties DEF Stream
<1>5. QED
  BY <1>1, <1>3, <1>4

(* The first d bytes of the buffer are consumed, or thrown away.           *)
LEMMA FrontGoes ==
    ASSUME TypeOK, NEW d \in 0 .. Len(Received), UNCHANGED <<wire, next>>,
           Received' = SubSeq(Received, d + 1, Len(Received))
    PROVE  IsEnd(Ahead', Ahead, d)
<1>1. Received \in Seq(Spots) /\ wire \in Seq(Spots) /\ next \in Spots
  <2>1. Cells \subseteq Spots
    BY DEF Spots
  <2>2. next \in Spots
    BY DEF TypeOK, Spots, End
  <2>3. QED
    BY <2>1, <2>2, AheadTypes, SeqMonotonic
<1>2. Received' \in Seq(Spots) /\ IsEnd(Received', Received, d)
  BY <1>1, EndOf
<1>3. IsEnd(Append(Received' \o wire, next), Append(Received \o wire, next), d)
  BY <1>1, <1>2, Dropped
<1>4. QED
  BY <1>3 DEF Ahead, Stream

LEMMA ConsumeMoves ==
    ASSUME TypeOK, pc = "parse", NEW d \in 0 .. Len(buf), Consume(d)
    PROVE  IsEnd(Ahead', Ahead, d)
  BY FrontGoes DEF Consume, Received

LEMMA DropMoves ==
    ASSUME TypeOK, pc = "parse", Poll, leave' = <<>>, UNCHANGED <<wire, next>>
    PROVE  Len(buf) \in 0 .. Len(Received) /\ IsEnd(Ahead', Ahead, Len(buf))
<1>1. Received = buf /\ Received' = <<>> /\ Len(buf) \in Nat
  BY DEF Poll, Received, TypeOK
<1>2. SubSeq(Received, Len(buf) + 1, Len(Received)) = <<>>
  BY <1>1, SubSeqEmpty
<1>3. QED
  BY <1>1, <1>2, FrontGoes

(* What is kept for the next recv() stays ahead.                           *)
LEMMA KeepMoves ==
    ASSUME pc = "parse", Poll, leave' = buf, UNCHANGED <<wire, next>>
    PROVE  Ahead' = Ahead
  BY DEF Poll, Received, Stream, Ahead

LEMMA DoneMoves == ASSUME NothingKept, Done PROVE Ahead' = Ahead
  BY DEF NothingKept, Done, Poll, Received, Stream, Ahead

(* recv() moves bytes from the wire behind the kept tail.                  *)
LEMMA RecvMoves == ASSUME TypeOK, Recv PROVE Ahead' = Ahead
<1>1. leave \in Seq(Cells) /\ wire \in Seq(Cells) /\ Len(wire) \in Nat
  BY DEF TypeOK
<1>2. PICK n \in 1 .. Len(wire) :
        buf' = leave \o SubSeq(wire, 1, n) /\ wire' = SubSeq(wire, n + 1, Len(wire))
  BY DEF Recv
<1>3. SubSeq(wire, 1, n) \in Seq(Cells) /\ SubSeq(wire, n + 1, Len(wire)) \in Seq(Cells)
  <2>1. \A i \in 1 .. Len(wire) : wire[i] \in Cells
    BY <1>1, ElementOfSeq
  <2>2. \A i \in 1 .. n : wire[i] \in Cells
    BY <1>1, <2>1
  <2>3. \A i \in n + 1 .. Len(wire) : wire[i] \in Cells
    BY <1>1, <2>1
  <2>4. QED
    BY <1>1, <2>2, <2>3, SubSeqProperties
<1>4. SubSeq(wire, 1, n) \o SubSeq(wire, n + 1, Len(wire)) = wire
  <2>1. /\ 1 \in 1 .. Len(wire) + 1 /\ n \in 1 - 1 .. Len(wire)
        /\ Len(wire) \in n .. Len(wire)
    BY <1>1
  <2>2. SubSeq(wire, 1, n) \o SubSeq(wire, n + 1, Len(wire)) = SubSeq(wire, 1, Len(wire))
    BY <1>1, <2>1, ConcatAdjacentSubSeq
  <2>3. QED
    BY <1>1, <2>2, SubSeqFull
<1>5. PICK a \in Seq(Cells), b \in Seq(Cells) :
        a \o b = wire /\ buf' = leave \o a /\ wire' = b
  BY <1>2, <1>3, <1>4
<1>6. (leave \o a) \o b = leave \o (a \o b)
  BY SMTT(30), <1>1, ConcatAssociative
<1>7. Stream = leave \o wire /\ Stream' = (leave \o a) \o b
  BY <1>5 DEF Recv, Received, Stream
<1>8. QED
  BY <1>5, <1>6, <1>7 DEF Ahead, Recv

LEMMA WriteMoves ==
    ASSUME TypeOK, ServerWrites
    PROVE  Ahead' = Append(Ahead, After(next)) /\ Stream' = Ahead
<1>1. /\ Received \in Seq(Cells) /\ wire \in Seq(Cells) /\ next \in Cells
      /\ Stream \in Seq(Cells)
  BY AheadTypes DEF ServerWrites
<1>2. Received \o Append(wire, next) = Append(Received \o wire, next)
  <2>1. Append(wire, next) = wire \o <<next>> /\ <<next>> \in Seq(Cells)
    BY <1>1, AppendIsConcat
  <2>2. Append(Received \o wire, next) = (Received \o wire) \o <<next>>
    BY <1>1, AppendIsConcat DEF Stream
  <2>3. QED
    BY <1>1, <2>1, <2>2, ConcatAssociative
<1>3. Stream' = Received \o Append(wire, next)
  BY DEF ServerWrites, Received, Stream
<1>4. QED
  BY <1>2, <1>3 DEF Ahead, Stream, ServerWrites

LEMMA QuietMoves ==
    ASSUME UNCHANGED <<next, wire, pc, buf, leave>>
    PROVE  Ahead' = Ahead
  BY DEF Ahead, Stream, Received

-----------------------------------------------------------------------------
(* Types.                                                                  *)

LEMMA DeclaredTypes ==
    ASSUME NEW m \in Declared
    PROVE  m.size \in Nat /\ Hdr <= m.size /\ m.size <= MaxSize /\ m.heart \in BOOLEAN
<1>1. CASE \E f \in Ids : HeaderOf(f)
  <2>1. PICK f \in Ids : HeaderOf(f)
    BY <1>1
  <2>2. buf[1] = <<f, 1>>
    BY <2>1, MessageTypes DEF HeaderOf
  <2>3. m = Messages[f]
    BY <1>1, <2>2 DEF Declared
  <2>4. QED
    BY <2>3, MessageTypes
<1>2. CASE ~ \E f \in Ids : HeaderOf(f)
  <2>1. m \in [size : Hdr .. MaxSize, heart : BOOLEAN]
    BY <1>2 DEF Declared
  <2>2. QED
    BY <2>1, MessageTypes
<1>3. QED
  BY <1>1, <1>2

(* The two parts of the buffer.                                            *)
LEMMA Parts ==
    ASSUME NEW s \in Seq(Cells), NEW d \in 0 .. Len(s)
    PROVE  SubSeq(s, 1, d) \in Seq(Cells) /\ SubSeq(s, d + 1, Len(s)) \in Seq(Cells)
<1>1. Len(s) \in Nat /\ d \in Nat
  BY LenProperties
<1>2. \A i \in 1 .. Len(s) : s[i] \in Cells
  BY ElementOfSeq
<1>3. SubSeq(s, 1, d) \in Seq(Cells)
  <2>1. \A i \in 1 .. d : s[i] \in Cells
    BY <1>1, <1>2
  <2>2. QED
    BY <1>1, <2>1, SubSeqProperties
<1>4. QED
  BY <1>3, EndOf

LEMMA InitTypes == Init => TypeOK
<1> SUFFICES ASSUME Init
             PROVE  TypeOK
  OBVIOUS
<1>1. <<1, 1>> \in Cells \cup {<<Len(Messages) + 1, 1>>}
  <2>1. CASE 1 \in Ids
    <3>1. 1 \in 1 .. Messages[1].size
      BY <2>1, MessageTypes
    <3>2. QED
      BY <2>1, <3>1, CellTypes
  <2>2. CASE 1 \notin Ids
    BY <2>2, MessageTypes
  <2>3. QED
    BY <2>1, <2>2
<1>2. Len(<<>>) < MaxSize
  BY MessageTypes
<1>3. <<>> \in Seq(Cells) /\ <<>> \in Seq(Seq(Cells)) /\ 0 \in 0 .. MaxBreaks
  BY MessagesAssumption
<1>4. QED
  BY <1>1, <1>2, <1>3 DEF Init, TypeOK

LEMMA TypeStep == TypeOK /\ [Next]_vars => TypeOK'
<1> SUFFICES ASSUME TypeOK, [Next]_vars
             PROVE  TypeOK'
  OBVIOUS
<1>1. /\ next \in Spots /\ wire \in Seq(Cells) /\ buf \in Seq(Cells) /\ leave \in Seq(Cells)
      /\ Len(leave) < MaxSize /\ queue \in Seq(Seq(Cells)) /\ handled \in Seq(Seq(Cells))
  BY DEF TypeOK, Spots, End
<1>2. Len(wire) \in Nat /\ Len(buf) \in Nat
  BY <1>1
<1>3. CASE Connect
  BY <1>3 DEF Connect, TypeOK
<1>4. CASE ServerWrites
  <2>1. next \in Cells /\ After(next) \in Spots
    BY <1>4, AfterIsLater DEF ServerWrites
  <2>2. wire' \in Seq(Cells)
    BY <1>1, <1>4, <2>1, AppendProperties DEF ServerWrites
  <2>3. QED
    BY <1>4, <2>1, <2>2 DEF ServerWrites, TypeOK, Spots, End
<1>5. CASE Break
  <2>1. next' \in Spots
    <3>1. CASE next[2] = 1
      BY <1>1, <1>5, <3>1 DEF Break
    <3>2. CASE next[2] # 1
      <4>1. next \in Cells
        BY <1>1, <3>2 DEF Spots, End
      <4>2. next[1] + 1 \in Ids \/ next[1] + 1 = Len(Messages) + 1
        BY <4>1, CellTypes, MessageTypes
      <4>3. next[1] + 1 \in Ids => 1 \in 1 .. Messages[next[1] + 1].size
        BY MessageTypes
      <4>4. next' = <<next[1] + 1, 1>>
        BY <1>5, <3>2 DEF Break
      <4>5. QED
        BY <4>2, <4>3, <4>4, CellTypes DEF Spots, End
    <3>3. QED
      BY <3>1, <3>2
  <2>2. breaks' \in 0 .. MaxBreaks
    BY <1>5, MessagesAssumption DEF Break, TypeOK
  <2>3. <<>> \in Seq(Cells)
    OBVIOUS
  <2>4. QED
    BY <1>5, <2>1, <2>2, <2>3 DEF Break, TypeOK, Spots, End
<1>6. CASE Recv
  <2>1. PICK n \in 1 .. Len(wire) :
          buf' = leave \o SubSeq(wire, 1, n) /\ wire' = SubSeq(wire, n + 1, Len(wire))
    BY <1>6 DEF Recv
  <2>2. SubSeq(wire, 1, n) \in Seq(Cells) /\ wire' \in Seq(Cells)
    BY <1>1, <1>2, <2>1, Parts
  <2>3. buf' \in Seq(Cells)
    BY <1>1, <2>1, <2>2, ConcatProperties
  <2>4. QED
    BY <1>6, <2>2, <2>3 DEF Recv, TypeOK
<1>7. CASE Parse
  <2>0. <<>> \in Seq(Cells) /\ Len(<<>>) < MaxSize
    BY MessageTypes
  <2>1. CASE Done
    BY <2>0, <2>1 DEF Done, Poll, TypeOK
  <2>2. CASE KeepShort
    <3>1. Len(leave') < MaxSize
      BY <2>2, <1>2, MessageTypes DEF KeepShort
    <3>2. QED
      BY <2>0, <2>2, <3>1 DEF KeepShort, Poll, TypeOK
  <2>3. CASE DropBadHeader
    BY <2>0, <2>3 DEF DropBadHeader, Poll, TypeOK
  <2>4. CASE KeepIncomplete
    <3>1. Len(leave') < MaxSize
      BY <2>4, <1>2, MessageTypes, DeclaredTypes DEF KeepIncomplete
    <3>2. QED
      BY <2>0, <2>4, <3>1 DEF KeepIncomplete, Poll, TypeOK
  <2>5. CASE SkipHeart
    <3>1. PICK m \in Declared : m.size <= Len(buf) /\ Consume(m.size)
      BY <2>5 DEF SkipHeart
    <3>2. buf' \in Seq(Cells)
      BY <1>1, <1>2, <3>1, DeclaredTypes, Parts DEF Consume
    <3>3. QED
      BY <2>0, <2>5, <3>1, <3>2 DEF SkipHeart, Consume, TypeOK
  <2>6. CASE DropBadEcc
    BY <2>0, <2>6 DEF DropBadEcc, Poll, TypeOK
  <2>7. CASE Enqueue
    <3>1. PICK m \in Declared :
            m.size <= Len(buf) /\ Put(SubSeq(buf, 1, m.size)) /\ Consume(m.size)
      BY <2>7 DEF Enqueue
    <3>2. m.size \in 0 .. Len(buf)
      BY <1>2, <3>1, DeclaredTypes
    <3>3. buf' \in Seq(Cells) /\ SubSeq(buf, 1, m.size) \in Seq(Cells)
      BY <1>1, <3>1, <3>2, Parts DEF Consume
    <3>4. queue' \in Seq(Seq(Cells))
      BY <1>1, <3>1, <3>3, AppendProperties DEF Put
    <3>5. QED
      BY <2>0, <3>1, <3>3, <3>4 DEF Consume, TypeOK
  <2>8. QED
    BY <1>7, <2>1, <2>2, <2>3, <2>4, <2>5, <2>6, <2>7 DEF Parse
<1>8. CASE Tick
  <2>1. Head(queue) \in Seq(Cells) /\ queue' \in Seq(Seq(Cells))
    BY <1>1, <1>8, HeadTailProperties DEF Tick, Get
  <2>2. handled' \in Seq(Seq(Cells))
    BY <1>1, <1>8, <2>1, AppendProperties DEF Tick, Get
  <2>3. QED
    BY <1>8, <2>1, <2>2 DEF Tick, Get, TypeOK
<1>9. CASE UNCHANGED vars
  BY <1>9 DEF vars, TypeOK
<1>10. QED
  BY <1>3, <1>4, <1>5, <1>6, <1>7, <1>8, <1>9 DEF Next

(* The variables keep their types; the kept tail is never as long as the   *)
(* longest message, so pcLeaveBuf does not overflow.                       *)
THEOREM TypeCorrect == Spec => []TypeOK
  BY InitTypes, TypeStep, PTL DEF Spec

LEMMA KeptStep == TypeOK /\ NothingKept /\ [Next]_vars => NothingKept'
<1> SUFFICES ASSUME TypeOK, NothingKept, [Next]_vars, pc' = "parse", buf' = <<>>
             PROVE  leave' = <<>>
  BY DEF NothingKept
<1>1. CASE Recv
  <2>1. PICK n \in 1 .. Len(wire) : buf' = leave \o SubSeq(wire, 1, n)
    BY <1>1 DEF Recv
  <2>2. leave \in Seq(Cells) /\ wire \in Seq(Cells) /\ Len(wire) \in Nat
    BY DEF TypeOK
  <2>3. SubSeq(wire, 1, n) \in Seq(Cells) /\ Len(SubSeq(wire, 1, n)) = n
    <3>1. \A i \in 1 .. n : wire[i] \in Cells
      BY <2>2, ElementOfSeq
    <3>2. n \in Int /\ 1 <= n
      BY <2>2
    <3>3. QED
      BY <3>1, <3>2, SubSeqProperties
  <2>4. Len(buf') = Len(leave) + n
    BY <2>1, <2>2, <2>3, ConcatProperties
  <2>5. QED
    BY <2>2, <2>4
<1>2. CASE Parse
  BY <1>2 DEF Parse, Done, KeepShort, DropBadHeader, KeepIncomplete, SkipHeart, DropBadEcc,
              Enqueue, Poll, Consume
<1>3. CASE UNCHANGED <<pc, buf, leave>>
  BY <1>3 DEF NothingKept
<1>4. QED
  BY <1>1, <1>2, <1>3 DEF Next, vars, Connect, ServerWrites, Break, Tick

-----------------------------------------------------------------------------
(* What the GUI was given, and what may still come.                        *)

(* Where the parser stands in the stream is after every message accepted.  *)
Passed == \A i \in DOMAIN Accepted, j \in DOMAIN Ahead : Accepted[i][1][1] < Ahead[j][1]

IInv ==
    /\ TypeOK
    /\ NothingKept
    /\ Ascending(Ahead)
    /\ OnlyWhatWasSent
    /\ Passed

(* The rest of an ascending stream ascends.                                *)
LEMMA EndAscends ==
    ASSUME NEW s \in Seq(Spots), NEW t \in Seq(Spots), NEW d \in 0 .. Len(s),
           IsEnd(t, s, d), Ascending(s)
    PROVE  Ascending(t) /\ \A j \in DOMAIN t : d + j \in DOMAIN s /\ t[j] = s[d + j]
<1>1. Len(s) \in Nat /\ Len(t) = Len(s) - d /\ d \in Nat
  BY DEF IsEnd
<1>2. ASSUME NEW j \in DOMAIN t
      PROVE  j \in Nat /\ d + j \in DOMAIN s /\ t[j] = s[d + j]
  BY <1>1 DEF IsEnd
<1>3. ASSUME NEW i \in DOMAIN t, NEW j \in DOMAIN t, i < j
      PROVE  Before(t[i], t[j])
  <2>1. d + i < d + j
    BY <1>1, <1>2, <1>3
  <2>2. QED
    BY <1>2, <2>1 DEF Ascending
<1>4. QED
  BY <1>2, <1>3 DEF Ascending

(* The order of the stream goes on where the recorder goes on writing.     *)
LEMMA WrittenAscends ==
    ASSUME NEW s \in Seq(Spots), NEW c \in Spots, Ascending(s),
           \A i \in DOMAIN s : Before(s[i], c)
    PROVE  /\ Ascending(Append(s, c))
           /\ \A j \in DOMAIN Append(s, c) :
                (j \in DOMAIN s /\ Append(s, c)[j] = s[j]) \/ Append(s, c)[j] = c
<1> DEFINE t == Append(s, c)
<1>1. /\ t \in Seq(Spots) /\ Len(t) = Len(s) + 1 /\ Len(s) \in Nat
      /\ \A i \in 1 .. Len(s) : t[i] = s[i]
      /\ t[Len(s) + 1] = c
  BY AppendProperties
<1> HIDE DEF t
<1>2. ASSUME NEW j \in DOMAIN t
      PROVE  j \in Nat /\ ((j \in DOMAIN s /\ t[j] = s[j]) \/ (j = Len(s) + 1 /\ t[j] = c))
  <2>1. j \in 1 .. Len(s) + 1
    BY <1>1
  <2>2. QED
    BY <1>1, <2>1
<1>3. ASSUME NEW i \in DOMAIN t, NEW j \in DOMAIN t, i < j
      PROVE  Before(t[i], t[j])
  <2>1. i \in DOMAIN s /\ t[i] = s[i]
    <3>1. j <= Len(s) + 1 /\ i \in Nat /\ j \in Nat
      BY <1>1, <1>2
    <3>2. i # Len(s) + 1
      BY <3>1, <1>1, <1>3
    <3>3. QED
      BY <3>2, <1>2
  <2>2. QED
    BY <2>1, <1>2, <1>3 DEF Ascending
<1>4. Ascending(t)
  BY <1>3 DEF Ascending
<1>5. QED
  BY <1>2, <1>4 DEF t

(* Ahead of the parser there are cells the recorder wrote, then the next.  *)
AheadIsSeq == Ahead \in Seq(Spots)

LEMMA AheadShape == TypeOK => AheadIsSeq
  BY AheadTypes DEF AheadIsSeq

LEMMA AheadShapeNext == TypeOK' => AheadIsSeq'
  BY AheadShape, PTL

(* From the stream of one state to that of the next nothing goes back.     *)
Onward ==
    /\ Ascending(Ahead')
    /\ \A j \in DOMAIN Ahead' : \E i \in DOMAIN Ahead : Ahead[i][1] <= Ahead'[j][1]

LEMMA SpotsOfSeq ==
    ASSUME NEW s \in Seq(Spots), NEW i \in DOMAIN s
    PROVE  i \in Nat /\ s[i] \in Spots /\ s[i][1] \in Nat /\ s[i][2] \in Nat
<1>1. i \in Nat /\ s[i] \in Spots
  BY ElementOfSeq
<1>2. QED
  BY <1>1, CellTypes

LEMMA SameIsOnward == ASSUME IInv, Ahead' = Ahead PROVE Onward
<1>1. Ahead \in Seq(Spots)
  BY AheadTypes DEF IInv
<1>2. QED
  BY <1>1, SpotsOfSeq DEF IInv, Onward

LEMMA EndIsOnward ==
    ASSUME IInv, AheadIsSeq', NEW d \in Nat, d <= Len(Ahead), IsEnd(Ahead', Ahead, d)
    PROVE  Onward
<1>1. Ahead \in Seq(Spots) /\ Ahead' \in Seq(Spots)
  BY AheadTypes DEF IInv, AheadIsSeq
<1>2. d \in 0 .. Len(Ahead)
  BY <1>1
<1>3. /\ Ascending(Ahead')
      /\ \A j \in DOMAIN Ahead' : d + j \in DOMAIN Ahead /\ Ahead'[j] = Ahead[d + j]
  BY <1>1, <1>2, EndAscends DEF IInv
<1>4. ASSUME NEW j \in DOMAIN Ahead'
      PROVE  \E i \in DOMAIN Ahead : Ahead[i][1] <= Ahead'[j][1]
  <2>1. Ahead[d + j][1] <= Ahead'[j][1]
    BY <1>1, <1>3, SpotsOfSeq
  <2>2. QED
    BY <1>3, <2>1
<1>5. QED
  BY <1>3, <1>4 DEF Onward

LEMMA WriteIsOnward == ASSUME IInv, ServerWrites PROVE Onward
<1>1. Ahead \in Seq(Spots) /\ Len(Ahead) \in Nat /\ Len(Ahead) > 0 /\ Ahead[Len(Ahead)] = next
  <2>1. Len(Received) \in Nat /\ Len(wire) \in Nat
    BY AheadTypes DEF IInv
  <2>2. QED
    BY <2>1, AheadTypes DEF IInv
<1>2. next \in Cells /\ next \in Spots /\ After(next) \in Spots /\ Before(next, After(next))
  BY AfterIsLater DEF ServerWrites, Spots
<1>3. ASSUME NEW i \in DOMAIN Ahead
      PROVE  Before(Ahead[i], After(next))
  <2>1. CASE i = Len(Ahead)
    BY <2>1, <1>1, <1>2
  <2>2. CASE i # Len(Ahead)
    <3>1. i < Len(Ahead) /\ Len(Ahead) \in DOMAIN Ahead
      BY <2>2, <1>1
    <3>2. Before(Ahead[i], next)
      BY <3>1, <1>1 DEF IInv, Ascending
    <3>3. QED
      BY <3>2, <1>1, <1>2, SpotsOfSeq, BeforeIsTransitive
  <2>3. QED
    BY <2>1, <2>2
<1>4. Ahead' = Append(Ahead, After(next))
  BY WriteMoves DEF IInv
<1>5. /\ Ascending(Ahead')
      /\ \A j \in DOMAIN Ahead' :
            (j \in DOMAIN Ahead /\ Ahead'[j] = Ahead[j]) \/ Ahead'[j] = After(next)
  BY <1>1, <1>2, <1>3, <1>4, WrittenAscends DEF IInv
<1>6. ASSUME NEW j \in DOMAIN Ahead'
      PROVE  \E i \in DOMAIN Ahead : Ahead[i][1] <= Ahead'[j][1]
  <2>1. CASE j \in DOMAIN Ahead /\ Ahead'[j] = Ahead[j]
    <3>1. Ahead[j][1] <= Ahead'[j][1]
      BY <2>1, <1>1, SpotsOfSeq
    <3>2. QED
      BY <2>1, <3>1
  <2>2. CASE Ahead'[j] = After(next)
    <3>1. next[1] <= After(next)[1]
      BY <1>2, CellTypes DEF Before
    <3>2. Len(Ahead) \in DOMAIN Ahead
      BY <1>1
    <3>3. QED
      BY <2>2, <3>1, <3>2, <1>1
  <2>3. QED
    BY <1>5, <2>1, <2>2
<1>7. QED
  BY <1>5, <1>6 DEF Onward

LEMMA BreakIsOnward == ASSUME IInv, TypeOK', Break PROVE Onward
<1>1. /\ Received = leave /\ leave \in Seq(Spots) /\ next \in Spots /\ next' \in Spots
      /\ Len(leave) \in Nat
  <2>1. Cells \subseteq Spots
    BY DEF Spots
  <2>2. leave \in Seq(Cells) /\ next \in Spots /\ next' \in Spots
    BY DEF IInv, TypeOK, Spots, End
  <2>3. Received = leave
    BY DEF Break, Received
  <2>4. QED
    BY <2>1, <2>2, <2>3, SeqMonotonic
<1>2. /\ Ahead \in Seq(Spots) /\ Len(Ahead) \in Nat /\ Len(leave) < Len(Ahead)
      /\ \A i \in 1 .. Len(leave) : Ahead[i] = leave[i]
      /\ Ahead[Len(Ahead)] = next
  <2>1. Len(wire) \in Nat
    BY AheadTypes DEF IInv
  <2>2. QED
    BY <1>1, <2>1, AheadTypes DEF IInv
<1>3. ASSUME NEW i \in 1 .. Len(leave)
      PROVE  /\ i \in DOMAIN Ahead /\ Ahead[i] = leave[i]
             /\ Before(leave[i], next)
  BY <1>1, <1>2 DEF IInv, Ascending
<1>4. next[1] \in Nat /\ (next' = next \/ next' = <<next[1] + 1, 1>>)
  BY <1>1, CellTypes DEF Break
<1>5. ASSUME NEW i \in DOMAIN leave
      PROVE  Before(leave[i], next')
  <2>1. Before(leave[i], next)
    BY <1>1, <1>3
  <2>2. leave[i][1] \in Nat /\ leave[i][2] \in Nat
    BY <1>1, SpotsOfSeq
  <2>3. QED
    BY <2>1, <2>2, <1>4 DEF Before
<1>6. Ascending(leave)
  <2>1. \A i, j \in DOMAIN leave : i < j => Before(leave[i], leave[j])
    BY <1>1, <1>3 DEF IInv, Ascending
  <2>2. QED
    BY <2>1 DEF Ascending
<1>7. Ahead' = Append(leave, next')
  <2>1. leave \o <<>> = leave
    BY <1>1, ConcatEmptySeq
  <2>2. QED
    BY <2>1 DEF Break, Ahead, Stream, Received
<1>8. /\ Ascending(Ahead')
      /\ \A j \in DOMAIN Ahead' :
            (j \in DOMAIN leave /\ Ahead'[j] = leave[j]) \/ Ahead'[j] = next'
  BY <1>1, <1>5, <1>6, <1>7, WrittenAscends
<1>9. ASSUME NEW j \in DOMAIN Ahead'
      PROVE  \E i \in DOMAIN Ahead : Ahead[i][1] <= Ahead'[j][1]
  <2>1. CASE j \in DOMAIN leave /\ Ahead'[j] = leave[j]
    <3>1. j \in DOMAIN Ahead /\ Ahead[j] = Ahead'[j]
      BY <2>1, <1>1, <1>3
    <3>2. Ahead[j][1] <= Ahead'[j][1]
      BY <3>1, <1>2, SpotsOfSeq
    <3>3. QED
      BY <3>1, <3>2
  <2>2. CASE Ahead'[j] = next'
    <3>1. next[1] <= next'[1]
      BY <1>4
    <3>2. Len(Ahead) \in DOMAIN Ahead
      BY <1>1, <1>2
    <3>3. QED
      BY <2>2, <3>1, <3>2, <1>2
  <2>3. QED
    BY <1>8, <2>1, <2>2
<1>10. QED
  BY <1>8, <1>9 DEF Onward

(* The bytes of a message of this size are there to be consumed.           *)
LEMMA Front ==
    ASSUME IInv, pc = "parse", NEW m \in Declared, m.size <= Len(buf)
    PROVE  /\ Len(buf) \in Nat /\ Received = buf
           /\ m.size \in Nat /\ 1 < m.size /\ m.size \in 0 .. Len(buf)
           /\ Len(buf) < Len(Ahead)
<1>1. Received = buf /\ Len(buf) \in Nat /\ Len(wire) \in Nat
  BY AheadTypes DEF IInv, Received
<1>2. m.size \in Nat /\ 1 < m.size
  BY DeclaredTypes, MessageTypes
<1>3. QED
  BY <1>1, <1>2, AheadTypes DEF IInv

LEMMA DropIsOnward ==
    ASSUME IInv, AheadIsSeq', pc = "parse", Poll, leave' = <<>>, UNCHANGED <<wire, next>>
    PROVE  Onward
<1>1. Len(buf) \in 0 .. Len(Received) /\ IsEnd(Ahead', Ahead, Len(buf))
  BY DropMoves DEF IInv
<1>2. Len(Received) \in Nat /\ Len(wire) \in Nat /\ Len(Ahead) = Len(Received) + Len(wire) + 1
  BY AheadTypes DEF IInv
<1>3. Len(buf) \in Nat /\ Len(buf) <= Len(Ahead)
  BY <1>1, <1>2
<1>4. QED
  BY <1>1, <1>3, EndIsOnward

LEMMA ParseIsOnward == ASSUME IInv, AheadIsSeq', Parse PROVE Onward
<1>1. CASE Done
  BY <1>1, DoneMoves, SameIsOnward DEF IInv
<1>2. CASE KeepShort
  BY <1>2, KeepMoves, SameIsOnward DEF KeepShort
<1>3. CASE DropBadHeader
  BY <1>3, DropIsOnward DEF DropBadHeader
<1>4. CASE KeepIncomplete
  BY <1>4, KeepMoves, SameIsOnward DEF KeepIncomplete
<1>5. CASE DropBadEcc
  BY <1>5, DropIsOnward DEF DropBadEcc
<1>6. CASE SkipHeart \/ Enqueue
  <2>1. PICK m \in Declared : m.size <= Len(buf) /\ Consume(m.size)
    BY <1>6 DEF SkipHeart, Enqueue
  <2>2. pc = "parse"
    BY <1>6 DEF SkipHeart, Enqueue
  <2>3. /\ m.size \in Nat /\ m.size \in 0 .. Len(buf) /\ m.size <= Len(Ahead)
    <3>1. Len(Ahead) \in Nat
      BY AheadTypes DEF IInv
    <3>2. QED
      BY <2>1, <2>2, <3>1, Front
  <2>4. IsEnd(Ahead', Ahead, m.size)
    BY <2>1, <2>2, <2>3, ConsumeMoves DEF IInv
  <2>5. QED
    BY <2>3, <2>4, EndIsOnward
<1>7. QED
  BY <1>1, <1>2, <1>3, <1>4, <1>5, <1>6 DEF Parse

LEMMA NextIsOnward == ASSUME IInv, TypeOK', [Next]_vars PROVE Onward
<1>1. AheadIsSeq'
  BY AheadShapeNext
<1>2. CASE UNCHANGED <<next, wire, pc, buf, leave>>
  BY <1>2, QuietMoves, SameIsOnward
<1>3. CASE Recv
  BY <1>3, RecvMoves, SameIsOnward DEF IInv
<1>4. QED
  BY <1>1, <1>2, <1>3, WriteIsOnward, BreakIsOnward, ParseIsOnward
     DEF Next, vars, Connect, Tick, Get

-----------------------------------------------------------------------------
(* What is accepted.                                                       *)

LEMMA AcceptedShape ==
    ASSUME OnlyWhatWasSent, NEW i \in DOMAIN Accepted
    PROVE  \E f \in Ids :
            /\ Accepted[i] = Message(f) /\ ~Messages[f].heart
            /\ Accepted[i][1][1] = f /\ f \in Nat
<1>1. PICK f \in Ids : Accepted[i] = Message(f) /\ ~Messages[f].heart
  BY DEF OnlyWhatWasSent
<1>2. 1 \in 1 .. Messages[f].size /\ f \in Nat
  BY MessageTypes
<1>3. Message(f)[1] = <<f, 1>>
  BY <1>2 DEF Message
<1>4. QED
  BY <1>1, <1>2, <1>3

(* Taking a packet from the queue does not change what was accepted.       *)
LEMMA GetKeepsAccepted == ASSUME TypeOK, Get PROVE Accepted' = Accepted
<1>1. handled \in Seq(Seq(Cells)) /\ queue \in Seq(Seq(Cells)) /\ queue # <<>>
  BY DEF TypeOK, Get
<1>2. PICK p \in Seq(Cells), rest \in Seq(Seq(Cells)) :
        p = Head(queue) /\ rest = Tail(queue)
  BY <1>1, HeadTailProperties
<1>3. queue = <<p>> \o rest
  <2>1. Len(queue) \in Nat /\ 1 \in 1 .. Len(queue) /\ Len(queue) \in 1 .. Len(queue)
    BY <1>1, EmptySeq
  <2>2. SubSeq(queue, 1, Len(queue)) = <<queue[1]>> \o SubSeq(queue, 1 + 1, Len(queue))
    BY <1>1, <2>1, SubSeqRecursiveFirst
  <2>3. SubSeq(queue, 1, Len(queue)) = queue
    BY <1>1, SubSeqFull
  <2>4. SubSeq(queue, 1 + 1, Len(queue)) = Tail(queue)
    BY <1>1, TailIsSubSeq
  <2>5. queue[1] = p
    BY <1>1, <1>2
  <2>6. QED
    BY <1>2, <2>2, <2>3, <2>4, <2>5
<1>4. <<p>> \in Seq(Seq(Cells))
  OBVIOUS
<1>5. (handled \o <<p>>) \o rest = handled \o (<<p>> \o rest)
  BY <1>1, <1>4, ConcatAssociative
<1>6. Append(handled, p) = handled \o <<p>>
  BY <1>1, AppendIsConcat
<1>7. QED
  BY <1>2, <1>3, <1>5, <1>6 DEF Get, Accepted

(* A message put into the queue is accepted last.                          *)
LEMMA PutAppends ==
    ASSUME TypeOK, NEW p \in Seq(Cells), Put(p), handled' = handled
    PROVE  Accepted' = Append(Accepted, p)
<1>1. handled \in Seq(Seq(Cells)) /\ queue \in Seq(Seq(Cells)) /\ <<p>> \in Seq(Seq(Cells))
  BY DEF TypeOK
<1>2. (handled \o queue) \o <<p>> = handled \o (queue \o <<p>>)
  BY <1>1, ConcatAssociative
<1>3. Append(queue, p) = queue \o <<p>>
  BY <1>1, AppendIsConcat
<1>4. handled \o queue \in Seq(Seq(Cells))
  BY <1>1, ConcatProperties
<1>5. Append(handled \o queue, p) = (handled \o queue) \o <<p>>
  BY <1>4, AppendIsConcat
<1>6. QED
  BY <1>2, <1>3, <1>5 DEF Put, Accepted

(* The packet put into the queue is the message at the head of the buffer, *)
(* which is consumed; it is no heartbeat.                                  *)
LEMMA EnqueueTakes ==
    ASSUME IInv, Enqueue
    PROVE  \E f \in Ids :
            /\ ~Messages[f].heart
            /\ Message(f) \in Seq(Cells)
            /\ Put(Message(f)) /\ Consume(Messages[f].size)
            /\ Messages[f].size \in 1 .. Len(buf)
            /\ \A k \in 1 .. Messages[f].size : buf[k] = <<f, k>>
<1>1. PICK m \in Declared :
        /\ m.size <= Len(buf) /\ ~m.heart
        /\ EccOk(SubSeq(buf, 1, m.size)) /\ Put(SubSeq(buf, 1, m.size)) /\ Consume(m.size)
  BY DEF Enqueue
<1>2. pc = "parse" /\ Len(buf) >= Hdr
  BY DEF Enqueue
<1>3. /\ Len(buf) \in Nat /\ buf \in Seq(Cells)
      /\ m.size \in Nat /\ 1 < m.size /\ m.size \in 0 .. Len(buf) /\ Hdr <= m.size
  BY <1>1, <1>2, Front, DeclaredTypes DEF IInv, TypeOK
<1>4. PICK f \in Ids : SubSeq(buf, 1, m.size) = Message(f)
  BY <1>1 DEF EccOk
<1>5. /\ SubSeq(buf, 1, m.size) \in Seq(Cells) /\ Len(SubSeq(buf, 1, m.size)) = m.size
      /\ \A k \in 1 .. m.size : SubSeq(buf, 1, m.size)[k] = buf[k]
  <2>1. \A i \in 1 .. m.size : buf[i] \in Cells
    BY <1>3, ElementOfSeq
  <2>2. QED
    BY <1>3, <2>1, SubSeqProperties
<1>6. m.size = Messages[f].size
  <2>1. DOMAIN SubSeq(buf, 1, m.size) = 1 .. m.size
    BY <1>5
  <2>2. DOMAIN Message(f) = 1 .. Messages[f].size /\ Messages[f].size \in Nat
    BY MessageTypes DEF Message
  <2>3. 1 .. m.size = 1 .. Messages[f].size
    BY <1>4, <2>1, <2>2
  <2>4. m.size \in 1 .. Messages[f].size /\ Messages[f].size \in 1 .. m.size
    BY <1>3, <2>2, <2>3
  <2>5. QED
    BY <2>4
<1>7. \A k \in 1 .. Messages[f].size : buf[k] = <<f, k>>
  <2>1. \A k \in 1 .. Messages[f].size : Message(f)[k] = <<f, k>>
    BY DEF Message
  <2>2. QED
    BY <1>4, <1>5, <1>6, <2>1
<1>8. m = Messages[f]
  <2>1. HeaderOf(f) /\ buf[1] = <<f, 1>>
    BY <1>3, <1>6, <1>7, MessageTypes DEF HeaderOf
  <2>2. QED
    BY <2>1 DEF Declared
<1>9. Put(Message(f)) /\ Consume(Messages[f].size) /\ Message(f) \in Seq(Cells)
  BY <1>1, <1>4, <1>5, <1>6
<1>10. ~Messages[f].heart /\ Messages[f].size \in 1 .. Len(buf)
  BY <1>1, <1>3, <1>6, <1>8
<1>11. QED
  BY <1>7, <1>9, <1>10

(* It is a later message than those accepted before, and the stream goes   *)
(* on with later ones.                                                     *)
LEMMA EnqueueSends ==
    ASSUME IInv, AheadIsSeq', Enqueue
    PROVE  \E f \in Ids :
            /\ ~Messages[f].heart /\ Accepted' = Append(Accepted, Message(f))
            /\ \A i \in DOMAIN Accepted : Accepted[i][1][1] < f
            /\ \A j \in DOMAIN Ahead' : f < Ahead'[j][1]
<1>1. PICK f \in Ids :
        /\ ~Messages[f].heart /\ Message(f) \in Seq(Cells)
        /\ Put(Message(f)) /\ Consume(Messages[f].size)
        /\ Messages[f].size \in 1 .. Len(buf)
        /\ \A k \in 1 .. Messages[f].size : buf[k] = <<f, k>>
  BY EnqueueTakes
<1> DEFINE d == Messages[f].size
<1>2. pc = "parse" /\ Received = buf /\ Len(buf) \in Nat /\ d \in 0 .. Len(buf) /\ d \in Nat /\ 1 <= d
  BY <1>1 DEF Enqueue, Received, IInv, TypeOK
<1>3. /\ Ahead \in Seq(Spots) /\ Len(buf) < Len(Ahead)
      /\ \A i \in 1 .. Len(buf) : Ahead[i] = buf[i]
  <2>1. Len(wire) \in Nat
    BY AheadTypes DEF IInv
  <2>2. QED
    BY <1>2, <2>1, AheadTypes DEF IInv
<1>4. Accepted' = Append(Accepted, Message(f))
  BY <1>1, PutAppends DEF Consume, IInv
<1>5. 1 \in DOMAIN Ahead /\ Ahead[1] = <<f, 1>> /\ d \in DOMAIN Ahead /\ Ahead[d] = <<f, d>>
  BY <1>1, <1>2, <1>3
<1>6. \A i \in DOMAIN Accepted : Accepted[i][1][1] < f
  <2>1. \A i \in DOMAIN Accepted : Accepted[i][1][1] < Ahead[1][1]
    BY <1>5 DEF IInv, Passed
  <2>2. QED
    BY <1>5, <2>1
<1>7. IsEnd(Ahead', Ahead, d)
  BY <1>1, <1>2, ConsumeMoves DEF IInv
<1>8. \A j \in DOMAIN Ahead' : d + j \in DOMAIN Ahead /\ Ahead'[j] = Ahead[d + j]
  <2>1. Ahead' \in Seq(Spots) /\ d \in 0 .. Len(Ahead)
    BY <1>2, <1>3 DEF AheadIsSeq
  <2>2. QED
    BY <1>3, <1>7, <2>1, EndAscends DEF IInv
<1>9. ASSUME NEW j \in DOMAIN Ahead'
      PROVE  f < Ahead'[j][1]
  <2> DEFINE c == Ahead[d + j]
  <2>1. c \in Spots /\ d < d + j
    <3>1. Ahead' \in Seq(Spots)
      BY DEF AheadIsSeq
    <3>2. j \in Nat /\ 1 <= j
      BY <3>1
    <3>3. QED
      BY <1>2, <1>3, <1>8, <3>2, ElementOfSeq
  <2>2. Before(<<f, d>>, c)
    BY <1>5, <1>8, <2>1 DEF IInv, Ascending
  <2> HIDE DEF c
  <2>3. f < c[1] \/ (f = c[1] /\ d < c[2])
    BY <2>2 DEF Before
  <2>4. ~(f = c[1] /\ d < c[2])
    <3>1. CASE c \in Cells
      BY <3>1, CellTypes, MessageTypes
    <3>2. CASE c = End
      BY <3>2, MessageTypes DEF End
    <3>3. QED
      BY <2>1, <3>1, <3>2 DEF Spots
  <2>5. QED
    BY <1>8, <2>3, <2>4 DEF c
<1>10. QED
  BY <1>1, <1>4, <1>6, <1>9

(* Without a new packet, what is accepted stays behind the parser.         *)
LEMMA StillPassed ==
    ASSUME IInv, AheadIsSeq', Onward, Accepted' = Accepted
    PROVE  Passed'
<1> SUFFICES ASSUME NEW i \in DOMAIN Accepted, NEW j \in DOMAIN Ahead'
             PROVE  Accepted[i][1][1] < Ahead'[j][1]
  BY DEF Passed
<1>1. Accepted[i][1][1] \in Nat
  BY AcceptedShape DEF IInv
<1>2. PICK k \in DOMAIN Ahead : Ahead[k][1] <= Ahead'[j][1]
  BY DEF Onward
<1>3. Accepted[i][1][1] < Ahead[k][1]
  BY DEF IInv, Passed
<1>4. Ahead[k][1] \in Nat /\ Ahead'[j][1] \in Nat
  <2>1. Ahead \in Seq(Spots) /\ Ahead' \in Seq(Spots)
    BY AheadTypes DEF IInv, AheadIsSeq
  <2>2. QED
    BY <2>1, SpotsOfSeq
<1>5. QED
  BY <1>1, <1>2, <1>3, <1>4

LEMMA InitIInv == Init => IInv
<1> SUFFICES ASSUME Init
             PROVE  IInv
  OBVIOUS
<1>1. TypeOK
  BY InitTypes
<1>2. NothingKept
  BY DEF Init, NothingKept
<1>3. Len(Received) = 0 /\ Len(wire) = 0
  BY DEF Init, Received
<1>4. Ahead \in Seq(Spots) /\ Len(Ahead) = 1
  BY <1>1, <1>3, AheadTypes
<1>5. Ascending(Ahead)
  BY <1>4 DEF Ascending
<1>6. DOMAIN Accepted = {}
  <2>1. <<>> \in Seq({})
    OBVIOUS
  <2>2. <<>> \o <<>> = <<>>
    BY <2>1, ConcatEmptySeq
  <2>3. QED
    BY <2>2 DEF Init, Accepted
<1>7. OnlyWhatWasSent /\ Passed
  BY <1>6 DEF OnlyWhatWasSent, Passed
<1>8. QED
  BY <1>1, <1>2, <1>5, <1>7 DEF IInv

LEMMA NextIInv == IInv /\ [Next]_vars => IInv'
<1> SUFFICES ASSUME IInv, [Next]_vars
             PROVE  IInv'
  OBVIOUS
<1>1. TypeOK' /\ NothingKept'
  BY TypeStep, KeptStep DEF IInv
<1>2. AheadIsSeq' /\ Onward
  BY <1>1, AheadShapeNext, NextIsOnward
<1>3. Ascending(Ahead)'
  BY <1>2 DEF Onward, Ascending
<1>4. CASE Accepted' = Accepted
  <2>1. OnlyWhatWasSent'
    BY <1>4 DEF IInv, OnlyWhatWasSent
  <2>2. Passed'
    BY <1>2, <1>4, StillPassed
  <2>3. QED
    BY <1>1, <1>3, <2>1, <2>2 DEF IInv
<1>5. CASE Enqueue
  <2>1. PICK f \in Ids :
          /\ ~Messages[f].heart /\ Accepted' = Append(Accepted, Message(f))
          /\ \A i \in DOMAIN Accepted : Accepted[i][1][1] < f
          /\ \A j \in DOMAIN Ahead' : f < Ahead'[j][1]
    BY <1>2, <1>5, EnqueueSends
  <2>2. Message(f)[1][1] = f
    <3>1. 1 \in 1 .. Messages[f].size
      BY MessageTypes
    <3>2. Message(f)[1] = <<f, 1>>
      BY <3>1 DEF Message
    <3>3. QED
      BY <3>2
  <2>3. /\ Len(Accepted) \in Nat /\ DOMAIN Accepted = 1 .. Len(Accepted)
        /\ DOMAIN Accepted' = 1 .. Len(Accepted) + 1
        /\ \A i \in 1 .. Len(Accepted) : Accepted'[i] = Accepted[i]
        /\ Accepted'[Len(Accepted) + 1] = Message(f)
    <3>1. handled \in Seq(Seq(Cells)) /\ queue \in Seq(Seq(Cells))
      BY DEF IInv, TypeOK
    <3>2. Accepted \in Seq(Seq(Cells))
      BY <3>1, ConcatProperties DEF Accepted
    <3>3. Message(f) \in Seq(Cells)
      <4>1. \A k \in 1 .. Messages[f].size : <<f, k>> \in Cells
        BY CellTypes
      <4>2. Messages[f].size \in Nat
        BY MessageTypes
      <4>3. QED
        BY <4>1, <4>2 DEF Message
    <3>4. QED
      BY <2>1, <3>2, <3>3, AppendProperties
  <2>4. ASSUME NEW i \in DOMAIN Accepted'
        PROVE  \/ i \in DOMAIN Accepted /\ Accepted'[i] = Accepted[i]
               \/ i = Len(Accepted) + 1 /\ Accepted'[i] = Message(f)
    BY <2>3
  <2>5. ASSUME NEW i \in DOMAIN Accepted'
        PROVE  /\ \E g \in Ids : Accepted'[i] = Message(g) /\ ~Messages[g].heart
               /\ \A j \in DOMAIN Ahead' : Accepted'[i][1][1] < Ahead'[j][1]
    <3>1. CASE i \in DOMAIN Accepted /\ Accepted'[i] = Accepted[i]
      <4>1. \E g \in Ids : Accepted'[i] = Message(g) /\ ~Messages[g].heart
        BY <3>1 DEF IInv, OnlyWhatWasSent
      <4>2. ASSUME NEW j \in DOMAIN Ahead'
            PROVE  Accepted'[i][1][1] < Ahead'[j][1]
        <5>1. Accepted[i][1][1] < f /\ f < Ahead'[j][1]
          BY <2>1, <3>1
        <5>2. Accepted[i][1][1] \in Nat /\ f \in Nat
          BY <3>1, AcceptedShape, MessageTypes DEF IInv
        <5>3. Ahead'[j][1] \in Nat
          BY <1>2, SpotsOfSeq DEF AheadIsSeq
        <5>4. QED
          BY <3>1, <5>1, <5>2, <5>3
      <4>3. QED
        BY <4>1, <4>2
    <3>2. CASE Accepted'[i] = Message(f)
      BY <2>1, <2>2, <3>2
    <3>3. QED
      BY <2>4, <3>1, <3>2
  <2>6. ASSUME NEW i \in DOMAIN Accepted', NEW j \in DOMAIN Accepted', i < j
        PROVE  Accepted'[i][1][1] < Accepted'[j][1][1]
    <3>1. i \in DOMAIN Accepted /\ Accepted'[i] = Accepted[i]
      BY <2>3, <2>6
    <3>2. CASE j \in DOMAIN Accepted /\ Accepted'[j] = Accepted[j]
      BY <2>6, <3>1, <3>2 DEF IInv, OnlyWhatWasSent
    <3>3. CASE Accepted'[j] = Message(f)
      BY <2>1, <2>2, <3>1, <3>3
    <3>4. QED
      BY <2>4, <3>2, <3>3
  <2>7. OnlyWhatWasSent' /\ Passed'
    BY <2>5, <2>6 DEF OnlyWhatWasSent, Passed
  <2>8. QED
    BY <1>1, <1>3, <2>7 DEF IInv
<1>6. Accepted' = Accepted \/ Enqueue
  <2>1. CASE Tick
    BY <2>1, GetKeepsAccepted DEF Tick, IInv
  <2>2. CASE UNCHANGED <<queue, handled>>
    BY <2>2 DEF Accepted
  <2>3. QED
    BY <2>1, <2>2 DEF Next, vars, Parse, Connect, ServerWrites, Break, Recv, Done, KeepShort,
                      DropBadHeader, KeepIncomplete, SkipHeart, DropBadEcc, Consume
<1>7. QED
  BY <1>4, <1>5, <1>6

LEMMA Invariance == Spec => []IInv
  BY InitIInv, NextIInv, PTL DEF Spec

(* However recv() cuts the stream, and whatever a lost connection leaves   *)
(* behind in pcLeaveBuf, the GUI is given messages of the recorder only,   *)
(* whole, in the order they were sent, none twice and no heartbeat.        *)
THEOREM GuiGetsWhatWasSent == Spec => []OnlyWhatWasSent
<1>1. IInv => OnlyWhatWasSent
  BY DEF IInv
<1>2. QED
  BY <1>1, Invariance, PTL

-----------------------------------------------------------------------------
(* A parser in step stays in step.                                         *)

(* In step, what lies ahead starts with a message from its first byte on,  *)
(* as much of it as was written, and the next message follows.             *)
LEMMA HeadMessage ==
    ASSUME TypeOK, Aligned, Len(Ahead) > 1
    PROVE  \E f \in Ids :
            /\ \A k \in 1 .. Messages[f].size : k <= Len(Ahead) => Ahead[k] = <<f, k>>
            /\ Messages[f].size < Len(Ahead) => Ahead[Messages[f].size + 1] = <<f + 1, 1>>
<1>1. Ahead \in Seq(Spots) /\ Len(Ahead) \in Nat
  BY AheadTypes
<1>2. /\ Ahead[1][2] = 1
      /\ \A i \in 1 .. Len(Ahead) - 1 : Ahead[i] \in Cells /\ Ahead[i + 1] = After(Ahead[i])
  BY DEF Aligned, Ahead
<1> DEFINE f == Ahead[1][1]
           d == Messages[f].size
<1>3. Ahead[1] \in Cells
  BY <1>1, <1>2
<1>4. f \in Ids /\ Ahead[1] = <<f, 1>> /\ d \in Nat /\ 1 < d
  BY <1>2, <1>3, CellTypes, MessageTypes
<1> HIDE DEF f
<1> DEFINE S == {n \in Nat : n + 1 <= d /\ n + 1 <= Len(Ahead) => Ahead[n + 1] = <<f, n + 1>>}
<1>5. \A n \in Nat : n \in S
  <2>1. 0 \in S
    BY <1>4
  <2>2. ASSUME NEW n \in Nat, n \in S
        PROVE  n + 1 \in S
    <3> SUFFICES ASSUME n + 2 <= d, n + 2 <= Len(Ahead)
                 PROVE  Ahead[n + 2] = <<f, n + 2>>
      BY <1>4, <1>1
    <3>1. Ahead[n + 1] = <<f, n + 1>>
      BY <1>1, <1>4, <2>2
    <3>2. n + 1 \in 1 .. Len(Ahead) - 1 /\ (n + 1) + 1 = n + 2
      BY <1>1
    <3>3. Ahead[n + 2] = After(<<f, n + 1>>)
      BY <1>2, <3>1, <3>2
    <3>4. n + 1 # Messages[f].size
      BY <1>4
    <3>5. After(<<f, n + 1>>) = <<f, n + 2>>
      BY <3>2, <3>4 DEF After
    <3>6. QED
      BY <3>3, <3>5
  <2> HIDE DEF S
  <2>3. QED
    BY <2>1, <2>2, SetInduction
<1>6. ASSUME NEW k \in 1 .. d, k <= Len(Ahead)
      PROVE  Ahead[k] = <<f, k>>
  <2>1. k - 1 \in Nat /\ (k - 1) + 1 = k /\ k <= d
    BY <1>4
  <2>2. QED
    BY <1>5, <1>6, <2>1
<1>7. ASSUME d < Len(Ahead)
      PROVE  Ahead[d + 1] = <<f + 1, 1>>
  <2>1. d \in 1 .. Len(Ahead) - 1 /\ Ahead[d] = <<f, d>>
    BY <1>1, <1>4, <1>6, <1>7
  <2>2. Ahead[d + 1] = After(<<f, d>>)
    BY <1>2, <2>1
  <2>3. QED
    BY <2>2 DEF After
<1>8. QED
  BY <1>4, <1>6, <1>7

(* The messages with a byte in the stream, seen from ahead.                *)
WaitingAhead == Waiting = {f \in Ids : \E i \in 1 .. Len(Ahead) - 1 : Ahead[i][1] = f}

LEMMA WaitingShape == TypeOK => WaitingAhead
<1> SUFFICES ASSUME TypeOK
             PROVE  WaitingAhead
  OBVIOUS
<1>1. Stream \in Seq(Cells) /\ next \in Spots
  BY AheadTypes DEF TypeOK, Spots, End
<1>2. Stream \in Seq(Spots)
  <2>1. Cells \subseteq Spots
    BY DEF Spots
  <2>2. QED
    BY <1>1, <2>1, SeqMonotonic
<1>3. /\ DOMAIN Stream = 1 .. Len(Ahead) - 1
      /\ \A i \in 1 .. Len(Ahead) - 1 : Ahead[i] = Stream[i]
  BY <1>1, <1>2, AppendProperties DEF Ahead
<1>4. QED
  BY <1>3 DEF Waiting, WaitingAhead

LEMMA WaitingShapeNext == TypeOK' => WaitingAhead'
  BY WaitingShape, PTL

(* A whole header in step is that of the message at the head, and a whole  *)
(* message passes the check.                                               *)
LEMMA InStepHeader ==
    ASSUME TypeOK, Aligned, pc = "parse", Len(buf) >= Hdr
    PROVE  \E f \in Ids :
            /\ Declared = {Messages[f]} /\ HeaderOf(f)
            /\ Messages[f].size <= Len(buf) => EccOk(SubSeq(buf, 1, Messages[f].size))
            /\ \A k \in 1 .. Messages[f].size : k <= Len(Ahead) => Ahead[k] = <<f, k>>
            /\ Messages[f].size < Len(Ahead) => Ahead[Messages[f].size + 1] = <<f + 1, 1>>
<1>1. /\ Received = buf /\ Len(buf) \in Nat /\ buf \in Seq(Cells)
      /\ Len(Ahead) \in Nat /\ Len(buf) < Len(Ahead)
      /\ \A i \in 1 .. Len(buf) : Ahead[i] = buf[i]
  <2>1. Received = buf /\ Len(buf) \in Nat /\ Len(wire) \in Nat /\ buf \in Seq(Cells)
    BY AheadTypes DEF Received
  <2>2. QED
    BY <2>1, AheadTypes
<1>2. PICK f \in Ids :
        /\ \A k \in 1 .. Messages[f].size : k <= Len(Ahead) => Ahead[k] = <<f, k>>
        /\ Messages[f].size < Len(Ahead) => Ahead[Messages[f].size + 1] = <<f + 1, 1>>
  BY <1>1, HeadMessage, MessageTypes
<1> DEFINE d == Messages[f].size
<1>3. d \in Nat /\ Hdr <= d /\ Hdr \in Nat /\ 1 < Hdr
  BY MessageTypes
<1>4. \A k \in 1 .. d : k <= Len(buf) => buf[k] = <<f, k>>
  BY <1>1, <1>2, <1>3
<1>5. HeaderOf(f) /\ buf[1] = <<f, 1>>
  BY <1>1, <1>3, <1>4 DEF HeaderOf
<1>6. Declared = {Messages[f]}
  BY <1>5 DEF Declared
<1>7. ASSUME d <= Len(buf)
      PROVE  EccOk(SubSeq(buf, 1, d))
  <2>1. /\ SubSeq(buf, 1, d) \in Seq(Cells) /\ Len(SubSeq(buf, 1, d)) = d
        /\ \A k \in 1 .. d : SubSeq(buf, 1, d)[k] = buf[k]
    <3>1. \A i \in 1 .. d : buf[i] \in Cells
      BY <1>1, <1>3, <1>7, ElementOfSeq
    <3>2. QED
      BY <1>3, <3>1, SubSeqProperties
  <2>2. \A k \in 1 .. d : SubSeq(buf, 1, d)[k] = <<f, k>>
    BY <1>1, <1>3, <1>4, <1>7, <2>1
  <2>3. SubSeq(buf, 1, d) = [k \in 1 .. d |-> <<f, k>>]
    <3>1. [k \in 1 .. d |-> <<f, k>>] \in Seq(Cells)
      BY <1>3, CellTypes
    <3>2. Len([k \in 1 .. d |-> <<f, k>>]) = d
      BY <1>3
    <3>3. QED
      BY <2>1, <2>2, <3>1, <3>2, SeqEqual
  <2>4. QED
    BY <2>3 DEF EccOk, Message
<1>8. QED
  BY <1>2, <1>5, <1>6, <1>7

(* What LosesNothingInStep says of one step.                               *)
NothingLost ==
    /\ Aligned'
    /\ \A f \in Waiting \ Waiting' :
        ~Messages[f].heart => \E i \in DOMAIN Accepted' : Accepted'[i] = Message(f)

LEMMA SameLosesNothing ==
    ASSUME WaitingAhead, WaitingAhead', Aligned, Ahead' = Ahead
    PROVE  NothingLost
<1>1. Aligned'
  BY DEF Aligned, Ahead
<1>2. Waiting' = Waiting
  BY DEF WaitingAhead
<1>3. QED
  BY <1>1, <1>2 DEF NothingLost

LEMMA WriteLosesNothing ==
    ASSUME TypeOK, WaitingAhead, WaitingAhead', Aligned, ServerWrites
    PROVE  NothingLost
<1>1. Ahead \in Seq(Spots) /\ Len(Ahead) \in Nat /\ Len(Ahead) > 0 /\ Ahead[Len(Ahead)] = next
  <2>1. Len(Received) \in Nat /\ Len(wire) \in Nat
    BY AheadTypes
  <2>2. QED
    BY <2>1, AheadTypes
<1>2. next \in Cells /\ After(next) \in Spots
  BY AfterIsLater DEF ServerWrites
<1>3. Ahead' = Append(Ahead, After(next))
  BY WriteMoves
<1>4. /\ Ahead' \in Seq(Spots) /\ Len(Ahead') = Len(Ahead) + 1
      /\ \A i \in 1 .. Len(Ahead) : Ahead'[i] = Ahead[i]
      /\ Ahead'[Len(Ahead) + 1] = After(next)
  BY <1>1, <1>2, <1>3, AppendProperties
<1>5. Ahead'[1][2] = 1
  BY <1>1, <1>4 DEF Aligned, Ahead
<1>6. ASSUME NEW i \in 1 .. Len(Ahead') - 1
      PROVE  Ahead'[i] \in Cells /\ Ahead'[i + 1] = After(Ahead'[i])
  <2>1. i \in 1 .. Len(Ahead) /\ Ahead'[i] = Ahead[i]
    BY <1>1, <1>4
  <2>2. CASE i = Len(Ahead)
    BY <2>1, <2>2, <1>1, <1>2, <1>4
  <2>3. CASE i # Len(Ahead)
    <3>1. i \in 1 .. Len(Ahead) - 1 /\ i + 1 \in 1 .. Len(Ahead)
      BY <2>1, <2>3, <1>1
    <3>2. Ahead'[i + 1] = Ahead[i + 1]
      BY <3>1, <1>4
    <3>3. QED
      BY <2>1, <3>1, <3>2 DEF Aligned, Ahead
  <2>4. QED
    BY <2>2, <2>3
<1>7. Aligned'
  BY <1>5, <1>6 DEF Aligned, Ahead
<1>8. Waiting \subseteq Waiting'
  BY <1>1, <1>4 DEF WaitingAhead
<1>9. QED
  BY <1>7, <1>8 DEF NothingLost

(* In step, consuming the message at the head leaves the next one there,   *)
(* and no byte of the others goes.                                         *)
LEMMA ConsumeInStep ==
    ASSUME TypeOK, AheadIsSeq', WaitingAhead, WaitingAhead', Aligned, pc = "parse",
           NEW f \in Ids, Messages[f].size <= Len(buf), Consume(Messages[f].size),
           \A k \in 1 .. Messages[f].size : k <= Len(Ahead) => Ahead[k] = <<f, k>>,
           Messages[f].size < Len(Ahead) => Ahead[Messages[f].size + 1] = <<f + 1, 1>>
    PROVE  Aligned' /\ Waiting \ Waiting' \subseteq {f}
<1> DEFINE d == Messages[f].size
<1>1. /\ d \in Nat /\ Len(buf) \in Nat /\ Len(Ahead) \in Nat /\ Len(buf) < Len(Ahead)
  <2>1. Received = buf /\ Len(buf) \in Nat /\ Len(wire) \in Nat
    BY AheadTypes DEF Received
  <2>2. QED
    BY SMTT(30), <2>1, AheadTypes, MessageTypes
<1>2. IsEnd(Ahead', Ahead, d)
  BY <1>1, ConsumeMoves
<1>3. /\ Len(Ahead') = Len(Ahead) - d
      /\ \A i \in 1 .. Len(Ahead') : Ahead'[i] = Ahead[d + i]
  BY <1>2 DEF IsEnd
<1>4. Ahead'[1][2] = 1
  <2>1. Ahead[d + 1] = <<f + 1, 1>>
    BY <1>1
  <2>2. Ahead'[1] = Ahead[d + 1]
    BY <1>1, <1>3
  <2>3. QED
    BY <2>1, <2>2
<1>5. ASSUME NEW i \in 1 .. Len(Ahead') - 1
      PROVE  Ahead'[i] \in Cells /\ Ahead'[i + 1] = After(Ahead'[i])
  <2>1. /\ i \in Nat /\ d + i \in 1 .. Len(Ahead) - 1 /\ d + (i + 1) = (d + i) + 1
        /\ Ahead'[i] = Ahead[d + i] /\ Ahead'[i + 1] = Ahead[d + (i + 1)]
    <3>1. i \in 1 .. Len(Ahead') /\ i + 1 \in 1 .. Len(Ahead')
      BY <1>1, <1>3
    <3>2. Ahead'[i] = Ahead[d + i] /\ Ahead'[i + 1] = Ahead[d + (i + 1)]
      BY <1>3, <3>1
    <3>3. i \in Nat /\ d + i \in 1 .. Len(Ahead) - 1 /\ d + (i + 1) = (d + i) + 1
      BY SMTT(30), <1>1, <1>3
    <3>4. QED
      BY <3>2, <3>3
  <2>2. Ahead[d + i] \in Cells /\ Ahead[(d + i) + 1] = After(Ahead[d + i])
    BY <2>1 DEF Aligned, Ahead
  <2>3. QED
    BY <2>1, <2>2
<1>6. Aligned'
  BY <1>4, <1>5 DEF Aligned, Ahead
<1>7. ASSUME NEW g \in Waiting \ Waiting'
      PROVE  g = f
  <2>1. PICK i \in 1 .. Len(Ahead) - 1 : Ahead[i][1] = g
    BY DEF WaitingAhead
  <2>2. CASE i <= d
    <3>1. Ahead[i] = <<f, i>>
      BY <2>1, <2>2, <1>1
    <3>2. QED
      BY <2>1, <3>1
  <2>3. CASE d < i
    <3>1. i - d \in 1 .. Len(Ahead') - 1 /\ d + (i - d) = i
      BY SMTT(30), <2>3, <1>1, <1>3
    <3>2. Ahead'[i - d] = Ahead[d + (i - d)]
      <4>1. i - d \in 1 .. Len(Ahead')
        BY <3>1, <1>1, <1>3
      <4>2. QED
        BY <4>1, <1>3
    <3>3. g \in Waiting'
      BY <2>1, <3>1, <3>2 DEF WaitingAhead
    <3>4. QED
      BY <3>3
  <2>4. QED
    BY <2>1, <2>2, <2>3, <1>1
<1>8. QED
  BY <1>6, <1>7

LEMMA ParseLosesNothing ==
    ASSUME IInv, AheadIsSeq', WaitingAhead, WaitingAhead', Aligned, Parse
    PROVE  NothingLost
<1>1. CASE Done \/ KeepShort \/ KeepIncomplete
  <2>1. Ahead' = Ahead
    BY <1>1, DoneMoves, KeepMoves DEF KeepShort, KeepIncomplete, IInv
  <2>2. QED
    BY <2>1, SameLosesNothing
<1>2. CASE DropBadHeader
  BY <1>2, InStepHeader DEF DropBadHeader, IInv
<1>3. CASE DropBadEcc
  <2>1. PICK m \in Declared : m.size <= Len(buf) /\ ~EccOk(SubSeq(buf, 1, m.size))
    BY <1>3 DEF DropBadEcc
  <2>2. QED
    BY <1>3, <2>1, InStepHeader DEF DropBadEcc, IInv
<1>4. CASE SkipHeart \/ Enqueue
  <2>1. pc = "parse" /\ Len(buf) >= Hdr
    BY <1>4 DEF SkipHeart, Enqueue
  <2>2. PICK f \in Ids :
          /\ Declared = {Messages[f]}
          /\ \A k \in 1 .. Messages[f].size : k <= Len(Ahead) => Ahead[k] = <<f, k>>
          /\ Messages[f].size < Len(Ahead) => Ahead[Messages[f].size + 1] = <<f + 1, 1>>
    BY <2>1, InStepHeader DEF IInv
  <2>3. Messages[f].size <= Len(buf) /\ Consume(Messages[f].size)
    BY <1>4, <2>2 DEF SkipHeart, Enqueue
  <2>4. Aligned' /\ Waiting \ Waiting' \subseteq {f}
    BY <2>1, <2>2, <2>3, ConsumeInStep DEF IInv
  <2>5. CASE SkipHeart
    <3>1. Messages[f].heart
      BY <2>2, <2>5 DEF SkipHeart
    <3>2. QED
      BY <2>4, <3>1 DEF NothingLost
  <2>6. CASE Enqueue
    <3>1. PICK g \in Ids :
            /\ Message(g) \in Seq(Cells) /\ Put(Message(g))
            /\ Messages[g].size \in 1 .. Len(buf)
            /\ \A k \in 1 .. Messages[g].size : buf[k] = <<g, k>>
      BY <2>6, EnqueueTakes
    <3>2. buf[1] = <<g, 1>> /\ buf[1] = Ahead[1] /\ Ahead[1] = <<f, 1>>
      <4>1. Received = buf /\ Len(buf) \in Nat /\ 1 <= Len(buf) /\ Len(wire) \in Nat
        BY <2>1, AheadTypes, MessageTypes DEF Received, IInv
      <4>2. 1 \in 1 .. Len(buf) /\ 1 <= Len(Ahead) /\ 1 \in 1 .. Messages[f].size
            /\ 1 \in 1 .. Messages[g].size
        BY SMTT(30), <4>1, AheadTypes, MessageTypes DEF IInv
      <4>3. QED
        BY <2>2, <3>1, <4>1, <4>2, AheadTypes DEF IInv
    <3>3. g = f
      BY <3>2
    <3>4. Accepted' = Append(Accepted, Message(f))
      BY <2>3, <3>1, <3>3, PutAppends DEF Consume, IInv
    <3>5. Accepted \in Seq(Seq(Cells))
      <4>1. handled \in Seq(Seq(Cells)) /\ queue \in Seq(Seq(Cells))
        BY DEF IInv, TypeOK
      <4>2. QED
        BY <4>1, ConcatProperties DEF Accepted
    <3>6. Len(Accepted) + 1 \in DOMAIN Accepted' /\ Accepted'[Len(Accepted) + 1] = Message(f)
      BY <3>1, <3>3, <3>4, <3>5, AppendProperties
    <3>7. QED
      BY <2>4, <3>6 DEF NothingLost
  <2>7. QED
    BY <1>4, <2>5, <2>6
<1>5. QED
  BY <1>1, <1>2, <1>3, <1>4 DEF Parse

LEMMA NextLosesNothing ==
    ASSUME IInv, TypeOK', [Next]_vars, Aligned, breaks' = breaks
    PROVE  NothingLost
<1>1. WaitingAhead /\ WaitingAhead' /\ AheadIsSeq'
  BY WaitingShape, WaitingShapeNext, AheadShapeNext DEF IInv
<1>2. CASE Recv \/ UNCHANGED <<next, wire, pc, buf, leave>>
  <2>1. Ahead' = Ahead
    BY <1>2, RecvMoves, QuietMoves DEF IInv
  <2>2. QED
    BY <1>1, <2>1, SameLosesNothing
<1>3. CASE ServerWrites
  BY <1>1, <1>3, WriteLosesNothing DEF IInv
<1>4. CASE Parse
  BY <1>1, <1>4, ParseLosesNothing
<1>5. ~Break
  BY DEF Break, IInv, TypeOK
<1>6. QED
  BY <1>2, <1>3, <1>4, <1>5 DEF Next, vars, Connect, Tick, Get

(* As long as no connection breaks, a parser that stands at the first byte *)
(* of a message goes on doing so, and of the messages with a byte in the   *)
(* stream each one is still there or was accepted, or is a heartbeat.      *)
THEOREM StaysInStep == Spec => LosesNothingInStep
<1>1. IInv /\ IInv' /\ [Next]_vars
        => [Aligned /\ breaks' = breaks =>
              /\ Aligned'
              /\ \A f \in Waiting \ Waiting' :
                  ~Messages[f].heart => \E i \in DOMAIN Accepted' : Accepted'[i] = Message(f)]_vars
  BY NextLosesNothing DEF NothingLost, IInv
<1>2. QED
  BY <1>1, Invariance, PTL DEF Spec, LosesNothingInStep

-----------------------------------------------------------------------------
(* The link as a PacketFeed.                                               *)

(* The numbers that packets may have.                                      *)
FeedNumbers == {Number(p) : p \in Seq(Cells)}

LEMMA NumbersOf ==
    ASSUME NEW s \in Seq(Seq(Cells))
    PROVE  /\ Numbers(s) \in Seq(FeedNumbers)
           /\ Len(s) \in Nat /\ DOMAIN s = 1 .. Len(s)
           /\ Len(Numbers(s)) = Len(s) /\ DOMAIN Numbers(s) = DOMAIN s
           /\ \A i \in DOMAIN s : Numbers(s)[i] = Number(s[i])
<1>1. Len(s) \in Nat /\ DOMAIN s = 1 .. Len(s)
  OBVIOUS
<1>2. \A i \in 1 .. Len(s) : s[i] \in Seq(Cells)
  BY ElementOfSeq
<1>3. \A i \in 1 .. Len(s) : Number(s[i]) \in FeedNumbers
  BY <1>2 DEF FeedNumbers
<1>4. Numbers(s) = [i \in 1 .. Len(s) |-> Number(s[i])]
  BY <1>1 DEF Numbers
<1>5. Numbers(s) \in [1 .. Len(s) -> FeedNumbers]
  BY <1>3, <1>4
<1>6. Numbers(s) \in Seq(FeedNumbers)
  BY <1>1, <1>5, SeqDef
<1>7. DOMAIN Numbers(s) = 1 .. Len(s) /\ \A i \in DOMAIN s : Numbers(s)[i] = Number(s[i])
  BY <1>1, <1>4
<1>8. Len(Numbers(s)) = Len(s)
  <2>1. Len(Numbers(s)) \in Nat /\ DOMAIN Numbers(s) = 1 .. Len(Numbers(s))
    BY <1>6
  <2>2. 1 .. Len(Numbers(s)) = 1 .. Len(s)
    BY <2>1, <1>7
  <2> DEFINE a == Len(Numbers(s))
             b == Len(s)
  <2>3. a \in Nat /\ b \in Nat /\ 1 .. a = 1 .. b
    BY <1>1, <2>1, <2>2
  <2> HIDE DEF a, b
  <2>4. (a > 0 => a \in 1 .. b) /\ (b > 0 => b \in 1 .. a)
    BY <2>3
  <2>5. a = b
    BY <2>3, <2>4
  <2>6. QED
    BY <2>5 DEF a, b
<1>9. QED
  BY <1>1, <1>6, <1>7, <1>8

(* A packet more is a number more.                                         *)
LEMMA NumbersGrow ==
    ASSUME NEW s \in Seq(Seq(Cells)), NEW p \in Seq(Cells)
    PROVE  Numbers(Append(s, p)) = Append(Numbers(s), Number(p))
<1> DEFINE t == Append(s, p)
           n == Number(p)
           u == Append(Numbers(s), n)
<1>1. /\ t \in Seq(Seq(Cells)) /\ Len(t) = Len(s) + 1 /\ Len(s) \in Nat
      /\ \A i \in 1 .. Len(s) : t[i] = s[i]
      /\ t[Len(s) + 1] = p
  BY AppendProperties
<1>2. n \in FeedNumbers
  BY DEF FeedNumbers
<1>3. /\ Numbers(s) \in Seq(FeedNumbers) /\ Len(Numbers(s)) = Len(s)
      /\ \A i \in 1 .. Len(s) : Numbers(s)[i] = Number(s[i])
  BY NumbersOf
<1> HIDE DEF n
<1>4. /\ u \in Seq(FeedNumbers) /\ Len(u) = Len(s) + 1
      /\ \A i \in 1 .. Len(s) : u[i] = Number(s[i])
      /\ u[Len(s) + 1] = n
  BY <1>2, <1>3, AppendProperties
<1> HIDE DEF t, u
<1>5. /\ Numbers(t) \in Seq(FeedNumbers) /\ Len(Numbers(t)) = Len(s) + 1
      /\ \A i \in 1 .. Len(s) + 1 : Numbers(t)[i] = Number(t[i])
  <2>1. /\ Numbers(t) \in Seq(FeedNumbers) /\ Len(Numbers(t)) = Len(t)
        /\ \A i \in 1 .. Len(t) : Numbers(t)[i] = Number(t[i])
    BY <1>1, NumbersOf
  <2>2. QED
    BY <2>1, <1>1
<1>6. ASSUME NEW i \in 1 .. Len(s) + 1
      PROVE  Numbers(t)[i] = u[i]
  <2>1. CASE i \in 1 .. Len(s)
    <3>1. Numbers(t)[i] = Number(t[i]) /\ t[i] = s[i] /\ u[i] = Number(s[i])
      BY <2>1, <1>1, <1>4, <1>5
    <3>2. QED
      BY <3>1
  <2>2. CASE i = Len(s) + 1
    <3>1. Numbers(t)[i] = Number(t[i]) /\ t[i] = p /\ u[i] = n
      BY <2>2, <1>1, <1>4, <1>5
    <3>2. QED
      BY <3>1 DEF n
  <2>3. QED
    BY <1>1, <2>1, <2>2
<1>7. Numbers(t) = u
  BY <1>4, <1>5, <1>6, SeqEqual
<1>8. QED
  BY <1>7 DEF t, u, n

LEMMA AcceptedTypes ==
    ASSUME TypeOK
    PROVE  /\ handled \in Seq(Seq(Cells)) /\ queue \in Seq(Seq(Cells))
           /\ Accepted \in Seq(Seq(Cells))
           /\ Len(Accepted) = Len(handled) + Len(queue)
           /\ Len(handled) \in Nat /\ Len(queue) \in Nat
<1>1. handled \in Seq(Seq(Cells)) /\ queue \in Seq(Seq(Cells))
  BY DEF TypeOK
<1>2. QED
  BY <1>1, ConcatProperties DEF Accepted

LEMMA InitFeeds == Init => Feed!FeedInit
<1> SUFFICES ASSUME Init
             PROVE  Feed!FeedInit
  OBVIOUS
<1>1. next[1] - 1 = 0
  BY DEF Init
<1>2. handled = <<>> /\ Accepted = <<>>
  BY ConcatEmptySeq DEF Init, Accepted
<1>3. Numbers(<<>>) = <<>>
  BY DEF Numbers
<1>4. QED
  BY <1>1, <1>2, <1>3 DEF Feed!FeedInit

(* A step that neither writes nor touches queue and GUI is not seen.       *)
LEMMA QuietFeeds ==
    ASSUME UNCHANGED <<next, queue, handled>>
    PROVE  UNCHANGED Feed!feedVars
  BY DEF Feed!feedVars, Accepted

(* The recorder goes from one message to the next, or stays with it.       *)
LEMMA SendFeeds ==
    ASSUME TypeOK, next[1] \in 1 .. Len(Messages),
           next'[1] = next[1] \/ next'[1] = next[1] + 1, UNCHANGED <<queue, handled>>
    PROVE  Feed!Send \/ UNCHANGED Feed!feedVars
<1>1. Accepted' = Accepted /\ Numbers(handled)' = Numbers(handled)
  BY DEF Accepted
<1>2. Len(Messages) \in Nat
  BY MessageTypes
<1>3. CASE next'[1] = next[1]
  BY <1>1, <1>3 DEF Feed!feedVars
<1>4. CASE next'[1] = next[1] + 1
  <2>1. next[1] - 1 < Len(Messages) /\ next'[1] - 1 = (next[1] - 1) + 1
    BY <1>2, <1>4
  <2>2. QED
    BY <1>1, <2>1 DEF Feed!Send
<1>5. QED
  BY <1>3, <1>4

LEMMA WriteFeeds ==
    ASSUME IInv, ServerWrites
    PROVE  Feed!Send \/ UNCHANGED Feed!feedVars
<1>1. next \in Cells /\ next' = After(next) /\ UNCHANGED <<queue, handled>>
  BY DEF ServerWrites
<1>2. next[1] \in 1 .. Len(Messages)
  BY <1>1, CellTypes, MessageTypes
<1>3. next'[1] = next[1] \/ next'[1] = next[1] + 1
  BY <1>1 DEF After
<1>4. QED
  BY <1>1, <1>2, <1>3, SendFeeds DEF IInv

LEMMA BreakFeeds ==
    ASSUME IInv, Break
    PROVE  Feed!Send \/ UNCHANGED Feed!feedVars
<1>1. CASE next[2] = 1
  BY <1>1, QuietFeeds DEF Break
<1>2. CASE next[2] # 1
  <2>1. next \in Cells
    BY <1>2 DEF IInv, TypeOK
  <2>2. next[1] \in 1 .. Len(Messages)
    BY <2>1, CellTypes, MessageTypes
  <2>3. next'[1] = next[1] + 1 /\ UNCHANGED <<queue, handled>>
    BY <1>2 DEF Break
  <2>4. QED
    BY <2>2, <2>3, SendFeeds DEF IInv
<1>3. QED
  BY <1>1, <1>2

(* What lies ahead ends where the recorder goes on writing.                *)
EndsWithNext == Len(Ahead) \in DOMAIN Ahead /\ Ahead[Len(Ahead)] = next

LEMMA EndIsNext == TypeOK => EndsWithNext
<1> SUFFICES ASSUME TypeOK
             PROVE  EndsWithNext
  OBVIOUS
<1>1. /\ Ahead \in Seq(Spots) /\ Ahead[Len(Ahead)] = next
      /\ Len(Ahead) = Len(Received) + Len(wire) + 1
      /\ Len(Received) \in Nat /\ Len(wire) \in Nat
  BY AheadTypes
<1>2. QED
  BY <1>1 DEF EndsWithNext

LEMMA EndsWithNextNext == TypeOK' => EndsWithNext'
  BY EndIsNext, PTL

(* What is put into the queue is a message the recorder is done with, and  *)
(* a later one than those taken before.                                    *)
LEMMA EnqueueFeeds ==
    ASSUME IInv, TypeOK', Enqueue
    PROVE  \E f \in 1 .. next[1] - 1 : f \notin {g \in Ids : Messages[g].heart} /\ Feed!Take(f)
<1>1. PICK f \in Ids :
        /\ ~Messages[f].heart /\ Accepted' = Append(Accepted, Message(f))
        /\ \A i \in DOMAIN Accepted : Accepted[i][1][1] < f
        /\ \A j \in DOMAIN Ahead' : f < Ahead'[j][1]
  BY EnqueueSends, AheadShapeNext
<1>2. next' = next /\ handled' = handled
  BY DEF Enqueue, Consume
<1>3. f < next[1]
  <2>1. Len(Ahead') \in DOMAIN Ahead' /\ Ahead'[Len(Ahead')] = next'
    BY EndsWithNextNext DEF EndsWithNext
  <2>2. QED
    BY <1>1, <1>2, <2>1
<1>4. f \in Nat /\ 1 <= f /\ next[1] \in Nat
  <2>1. next \in Spots
    BY DEF IInv, TypeOK, Spots, End
  <2>2. QED
    BY <2>1, CellTypes, MessageTypes
<1>5. f \in 1 .. next[1] - 1
  BY <1>3, <1>4
<1>6. Message(f) \in Seq(Cells) /\ Number(Message(f)) = f
  <2>1. \A k \in 1 .. Messages[f].size : <<f, k>> \in Cells
    BY CellTypes
  <2>2. Messages[f].size \in Nat /\ 1 \in 1 .. Messages[f].size
    BY MessageTypes
  <2>3. Message(f)[1] = <<f, 1>>
    BY <2>2 DEF Message
  <2>4. Number(Message(f)) = f
    BY <2>3 DEF Number
  <2>5. QED
    BY <2>1, <2>2, <2>4 DEF Message
<1>7. Accepted \in Seq(Seq(Cells))
  BY AcceptedTypes DEF IInv
<1>8. Numbers(Accepted') = Append(Numbers(Accepted), f)
  BY <1>1, <1>6, <1>7, NumbersGrow
<1>9. \A i \in DOMAIN Numbers(Accepted) : Numbers(Accepted)[i] < f
  <2>1. \A i \in DOMAIN Accepted : Number(Accepted[i]) < f
    BY <1>1, <1>4 DEF Number
  <2>2. QED
    BY <1>7, <2>1, NumbersOf
<1>10. Feed!Take(f)
  BY <1>2, <1>8, <1>9 DEF Feed!Take
<1>11. QED
  BY <1>1, <1>5, <1>10

(* The timer gives the GUI the first message taken and not yet given.      *)
LEMMA TickFeeds ==
    ASSUME IInv, Tick
    PROVE  Feed!Give
<1>1. /\ handled \in Seq(Seq(Cells)) /\ queue \in Seq(Seq(Cells))
      /\ Accepted \in Seq(Seq(Cells)) /\ Len(Accepted) = Len(handled) + Len(queue)
      /\ Len(handled) \in Nat /\ Len(queue) \in Nat
  BY AcceptedTypes DEF IInv
<1>2. queue # <<>> /\ handled' = Append(handled, Head(queue)) /\ next' = next
  BY DEF Tick, Get
<1>3. Accepted' = Accepted
  BY GetKeepsAccepted DEF IInv, Tick
<1>4. Len(queue) > 0 /\ Head(queue) = queue[1] /\ Head(queue) \in Seq(Cells)
  BY <1>1, <1>2, EmptySeq, HeadTailProperties
<1>5. Accepted[Len(handled) + 1] = Head(queue)
  <2>1. \A i \in 1 .. Len(handled) + Len(queue) :
            (handled \o queue)[i] = IF i <= Len(handled) THEN handled[i]
                                    ELSE queue[i - Len(handled)]
    BY <1>1, ConcatProperties
  <2>2. /\ Len(handled) + 1 \in 1 .. Len(handled) + Len(queue)
        /\ ~(Len(handled) + 1 <= Len(handled)) /\ Len(handled) + 1 - Len(handled) = 1
    BY <1>1, <1>4
  <2>3. QED
    BY <2>1, <2>2, <1>4 DEF Accepted
<1>6. Numbers(handled') = Append(Numbers(handled), Number(Head(queue)))
  BY <1>1, <1>2, <1>4, NumbersGrow
<1>7. Len(handled) + 1 \in DOMAIN Accepted
  BY <1>1, <1>4
<1>8. /\ Len(Numbers(handled)) = Len(handled)
      /\ Len(Numbers(Accepted)) = Len(Accepted)
      /\ Numbers(Accepted)[Len(handled) + 1] = Number(Head(queue))
  BY <1>1, <1>5, <1>7, NumbersOf
<1>9. Len(Numbers(handled)) < Len(Numbers(Accepted))
  BY <1>1, <1>4, <1>8
<1>10. QED
  BY <1>2, <1>3, <1>6, <1>8, <1>9 DEF Feed!Give

LEMMA NextFeeds ==
    ASSUME IInv, TypeOK', [Next]_vars
    PROVE  [Feed!FeedNext]_(Feed!feedVars)
<1>1. CASE ServerWrites
  BY <1>1, WriteFeeds DEF Feed!FeedNext
<1>2. CASE Break
  BY <1>2, BreakFeeds DEF Feed!FeedNext
<1>3. CASE Enqueue
  BY <1>3, EnqueueFeeds DEF Feed!FeedNext
<1>4. CASE Tick
  BY <1>4, TickFeeds DEF Feed!FeedNext
<1>5. CASE UNCHANGED <<next, queue, handled>>
  BY <1>5, QuietFeeds
<1>6. QED
  BY <1>1, <1>2, <1>3, <1>4, <1>5
     DEF Next, vars, Parse, Connect, Recv, Done, KeepShort, DropBadHeader, KeepIncomplete,
         SkipHeart, DropBadEcc, Consume

(* Byte stream, parser, kept tail, queue and timer are a PacketFeed: what  *)
(* the thread took from the socket as a message, the GUI is given, in      *)
(* order and once, whatever becomes of the connection (CliProcessThread,   *)
(* PutNodeToPmsgQueue, GetNodeFromPmsgQueue, pmsgTimerFunc).               *)
THEOREM LinkIsAPacketFeed == Spec => ImplementsPacketFeed
<1>1. Init => Feed!FeedInit
  BY InitFeeds
<1>2. IInv /\ IInv' /\ [Next]_vars => [Feed!FeedNext]_(Feed!feedVars)
  BY NextFeeds DEF IInv
<1>3. QED
  BY <1>1, <1>2, Invariance, PTL DEF Spec, ImplementsPacketFeed, Feed!FeedSpec
=============================================================================
