--------------------------- MODULE FramingProofs ----------------------------
(***************************************************************************)
(* What is proved of Framing for every size of bodies and heads, every     *)
(* limit and every number of packets: Framing implements Stream, and a     *)
(* reader waits for the network with a whole packet in its buffer only     *)
(* behind DealMax.                                                         *)
(***************************************************************************)
EXTENDS Framing, SequenceTheorems, TLAPS

-----------------------------------------------------------------------------
(* The inductive invariant. *)

\* Where the packet after the first m begins.
Offset(m) == IF m = 0 THEN 0 ELSE End(m)

\* The packets lie in the stream one after the other.
Laid ==
    /\ \A k \in 1..Len(sent) : Start(k) = Offset(k - 1)
    /\ \A k \in 1..Len(sent) : \A j \in 1..k - 1 : End(j) <= Start(k)

\* The reader stands where the next packet begins, and has given its handler the
\* bodies of those before; a reader that has refused a packet may stand behind it.
InStep ==
    /\ Len(got) <= Len(sent)
    /\ \A j \in 1..Len(got) : got[j] = Body(j)
    /\ reader # "refused" => consumed = Offset(Len(got))

FramingInv == FramingTypeOK /\ Laid /\ InStep /\ WaitsOnlyBehindTheCap

-----------------------------------------------------------------------------
(* Packets and sequences. *)

\* What is written is longer than its head, and only the server compresses.
LEMMA PacketShape ==
    ASSUME NEW p \in Packets
    PROVE  /\ p.size \in Nat \ {0} /\ PktLen(p) \in Nat /\ HeadLen \in Nat
           /\ PktLen(p) > HeadLenSize + HeadLen
           /\ p.zip => p.by = "server"
<1>1. PICK by \in {"client", "server"}, n \in BodySizes : p \in Wire(by, n)
  BY DEF Packets
<1>2. n \in Nat \ {0} /\ HeadLen \in Nat
  BY FramingAssumption
<1>3. p.size \in Nat \ {0} /\ (p.zip => p.by = "server")
  BY <1>1, <1>2 DEF Wire
<1> QED BY <1>2, <1>3 DEF PktLen, HeadLenSize

LEMMA WirePackets ==
    ASSUME NEW by \in {"client", "server"}, NEW n \in BodySizes, NEW p \in Wire(by, n)
    PROVE  p \in Packets /\ p.by = by
<1>1. p \in Packets
  BY DEF Packets
<1>2. p.by = by
  BY DEF Wire
<1> QED BY <1>1, <1>2

\* What putting a value at the end of a sequence makes.
LEMMA AfterAppend ==
    ASSUME NEW Vals, NEW s \in Seq(Vals), NEW x \in Vals
    PROVE  /\ Append(s, x) \in Seq(Vals) /\ Len(s) \in Nat
           /\ Len(Append(s, x)) = Len(s) + 1
           /\ DOMAIN s = 1..Len(s) /\ DOMAIN Append(s, x) = 1..Len(s) + 1
           /\ \A i \in 1..Len(s) : Append(s, x)[i] = s[i]
           /\ Append(s, x)[Len(s) + 1] = x
BY AppendProperties, LenProperties

\* Every packet has its place, between 0 and what has been written.
LEMMA Places ==
    ASSUME FramingTypeOK, Laid
    PROVE  /\ Len(sent) \in Nat /\ DOMAIN sent = 1..Len(sent)
           /\ Len(got) \in Nat /\ DOMAIN got = 1..Len(got)
           /\ Written = Offset(Len(sent)) /\ Written \in Nat
           /\ \A k \in 1..Len(sent) :
                 /\ sent[k].pkt \in Packets /\ sent[k].pkt.by = writer
                 /\ Start(k) \in Nat /\ End(k) \in Nat /\ PktLen(sent[k].pkt) \in Nat
                 /\ End(k) = Start(k) + PktLen(sent[k].pkt)
                 /\ End(k) > Start(k) + (HeadLenSize + HeadLen) /\ End(k) > Start(k)
                 /\ End(k) <= Written
           /\ HeadLenSize + HeadLen \in Nat
<1>1. /\ Len(sent) \in Nat /\ DOMAIN sent = 1..Len(sent)
      /\ Len(got) \in Nat /\ DOMAIN got = 1..Len(got)
      /\ HeadLenSize + HeadLen \in Nat
  BY LenProperties, FramingAssumption DEF FramingTypeOK, HeadLenSize
<1>2. ASSUME NEW k \in 1..Len(sent)
      PROVE  /\ sent[k].pkt \in Packets /\ sent[k].pkt.by = writer
             /\ Start(k) \in Nat /\ End(k) \in Nat /\ PktLen(sent[k].pkt) \in Nat
             /\ End(k) = Start(k) + PktLen(sent[k].pkt)
             /\ End(k) > Start(k) + (HeadLenSize + HeadLen) /\ End(k) > Start(k)
  <2>1. sent[k] \in [at : Nat, pkt : {p \in Packets : p.by = writer}]
    BY ElementOfSeq DEF FramingTypeOK
  <2>2. sent[k].at \in Nat /\ sent[k].pkt \in Packets /\ sent[k].pkt.by = writer
    BY <2>1
  <2>3. PktLen(sent[k].pkt) \in Nat /\ PktLen(sent[k].pkt) > HeadLenSize + HeadLen
    BY <2>2, PacketShape
  <2> DEFINE a == sent[k].at
             l == PktLen(sent[k].pkt)
             h == HeadLenSize + HeadLen
  <2>4. a \in Nat /\ l \in Nat /\ h \in Nat /\ l > h
    BY <1>1, <2>2, <2>3
  <2>5. Start(k) = a /\ End(k) = a + l
    BY DEF Start, End
  <2> HIDE DEF a, l, h
  <2>6. a + l \in Nat /\ a + l > a + h /\ a + l > a
    BY <2>4
  <2>7. h = HeadLenSize + HeadLen /\ l = PktLen(sent[k].pkt)
    BY DEF h, l
  <2> QED BY <2>2, <2>4, <2>5, <2>6, <2>7
<1>3. Written = Offset(Len(sent))
  <2>1. sent = <<>> <=> Len(sent) = 0
    BY EmptySeq DEF FramingTypeOK
  <2> QED BY <2>1 DEF Written, Offset
<1>4. Written \in Nat
  BY <1>1, <1>2, <1>3 DEF Offset
<1>5. ASSUME NEW k \in 1..Len(sent) PROVE End(k) <= Written
  <2>1. Len(sent) \in 1..Len(sent) /\ Written = End(Len(sent))
    BY <1>1, <1>3 DEF Offset
  <2>2. CASE k = Len(sent)
    BY <1>2, <2>1, <2>2
  <2>3. CASE k < Len(sent)
    <3>1. k \in 1..Len(sent) - 1
      BY <1>1, <2>3
    <3>2. End(k) <= Start(Len(sent))
      BY <2>1, <3>1 DEF Laid
    <3>3. Start(Len(sent)) < End(Len(sent)) /\ Start(Len(sent)) \in Nat /\ End(Len(sent)) \in Nat
      BY <1>2, <2>1
    <3>4. End(k) \in Nat
      BY <1>2
    <3> DEFINE a == End(k)
               b == Start(Len(sent))
               c == End(Len(sent))
    <3>5. a \in Nat /\ b \in Nat /\ c \in Nat /\ a <= b /\ b < c
      BY <3>2, <3>3, <3>4
    <3>6. c = Written
      BY <2>1
    <3> HIDE DEF a, b, c
    <3>7. a <= c
      BY <3>5
    <3> QED BY <3>6, <3>7 DEF a
  <2>4. k \in Int /\ Len(sent) \in Int /\ k <= Len(sent)
    BY <1>1
  <2>5. k = Len(sent) \/ k < Len(sent)
    BY <2>4
  <2> QED BY <2>2, <2>3, <2>5
<1> QED BY <1>1, <1>2, <1>3, <1>4, <1>5

\* The one packet that begins where an offset ends is the next.
LEMMA NextInPlace ==
    ASSUME FramingTypeOK, Laid, NEW m \in Nat, m <= Len(sent), NEW k \in 1..Len(sent)
    PROVE  /\ Start(k) = Offset(m) <=> k = m + 1
           /\ Start(k) >= Offset(m) => k >= m + 1
           /\ Offset(m) \in Nat
<1>1. Len(sent) \in Nat
  BY Places
<1>2. Start(k) \in Nat /\ End(k) \in Nat /\ End(k) > Start(k)
  BY Places
<1>3. CASE k = m + 1
  <2>1. Start(k) = Offset(m)
    <3>1. k - 1 = m
      BY <1>3
    <3> QED BY <3>1 DEF Laid
  <2> QED BY <1>2, <1>3, <2>1
<1>4. CASE k < m + 1
  <2>1. m \in 1..Len(sent) /\ Offset(m) = End(m)
    BY <1>1, <1>4 DEF Offset
  <2>2. Start(m) \in Nat /\ End(m) \in Nat /\ Start(m) < End(m)
    BY <2>1, Places
  <2>3. k = m \/ End(k) <= Start(m)
    <3>1. k = m \/ k \in 1..m - 1
      BY <1>1, <1>4
    <3> QED BY <2>1, <3>1 DEF Laid
  <2>4. Start(k) < End(m)
    BY <1>2, <2>2, <2>3
  <2> QED BY <1>1, <1>2, <1>4, <2>1, <2>2, <2>4
<1>5. CASE k > m + 1
  <2>1. m + 1 \in 1..Len(sent) /\ m + 1 \in 1..k - 1
    BY <1>1, <1>5
  <2>2. End(m + 1) <= Start(k)
    BY <2>1 DEF Laid
  <2>3. Start(m + 1) = Offset(m)
    <3>1. (m + 1) - 1 = m
      OBVIOUS
    <3> QED BY <2>1, <3>1 DEF Laid
  <2>4. Start(m + 1) \in Nat /\ End(m + 1) \in Nat /\ Start(m + 1) < End(m + 1)
    BY <2>1, Places
  <2> QED BY <1>1, <1>2, <1>5, <2>2, <2>3, <2>4
<1> QED BY <1>1, <1>3, <1>4, <1>5
-----------------------------------------------------------------------------
(* The steps. *)

\* Writing a packet moves none of those before it.
LEMMA WriteMoves ==
    ASSUME FramingInv, WriteMsg, NEW L \in Nat, L = Len(sent)
    PROVE  /\ sent' \in Seq([at : Nat, pkt : {p \in Packets : p.by = writer}])
           /\ Len(sent') = L + 1
           /\ \A k \in 1..L :
                 sent'[k] = sent[k] /\ Start(k)' = Start(k) /\ End(k)' = End(k) /\ Body(k)' = Body(k)
           /\ \A m \in 0..L : Offset(m)' = Offset(m)
           /\ Start(L + 1)' = Written
           /\ End(L + 1)' > Written /\ End(L + 1)' \in Nat
           /\ Written' = End(L + 1)'
<1>0. PICK n \in BodySizes : \E p \in Wire(writer, n) :
         sent' = Append(sent, [at |-> Written, pkt |-> p])
  BY DEF WriteMsg
<1>1. PICK p \in Wire(writer, n) : sent' = Append(sent, [at |-> Written, pkt |-> p])
  BY <1>0
<1>2. p \in Packets /\ p.by = writer
  BY WirePackets DEF FramingInv, FramingTypeOK
<1>3. L \in Nat /\ Written \in Nat
  BY Places DEF FramingInv
<1>4. [at |-> Written, pkt |-> p] \in [at : Nat, pkt : {q \in Packets : q.by = writer}]
  BY <1>2, <1>3
<1>5. /\ sent' \in Seq([at : Nat, pkt : {q \in Packets : q.by = writer}])
      /\ Len(sent') = L + 1
      /\ \A k \in 1..L : sent'[k] = sent[k]
      /\ sent'[L + 1] = [at |-> Written, pkt |-> p]
  BY <1>1, <1>4, AfterAppend DEF FramingInv, FramingTypeOK
<1>6. \A k \in 1..L : Start(k)' = Start(k) /\ End(k)' = End(k) /\ Body(k)' = Body(k)
  BY <1>5 DEF Start, End, Body
<1>7. ASSUME NEW m \in 0..L PROVE Offset(m)' = Offset(m)
  <2>1. m = 0 \/ m \in 1..L
    OBVIOUS
  <2> QED BY <1>6, <2>1 DEF Offset
<1>8. Start(L + 1)' = Written /\ End(L + 1)' = Written + PktLen(p)
  BY <1>5 DEF Start, End
<1>9. PktLen(p) \in Nat \ {0}
  BY <1>2, PacketShape, FramingAssumption DEF HeadLenSize
<1>10. End(L + 1)' > Written /\ End(L + 1)' \in Nat
  <2> DEFINE l == PktLen(p)
  <2>1. l \in Nat \ {0} /\ End(L + 1)' = Written + l
    BY <1>8, <1>9
  <2> HIDE DEF l
  <2> QED BY <1>3, <2>1
<1>11. Written' = End(L + 1)'
  <2>1. sent' # <<>>
    BY <1>3, <1>5
  <2> QED BY <1>5, <2>1 DEF Written
<1> QED BY <1>5, <1>6, <1>7, <1>8, <1>10, <1>11

LEMMA WriteStep == FramingInv /\ WriteMsg => FramingInv'
<1> SUFFICES ASSUME FramingInv, WriteMsg PROVE FramingInv'
  OBVIOUS
<1>0. PICK L \in Nat : L = Len(sent)
  BY Places DEF FramingInv
<1>1. UNCHANGED <<writer, read, consumed, reader, dealt, got>> /\ L < MaxPackets
  BY <1>0 DEF WriteMsg
<1>2. /\ sent' \in Seq([at : Nat, pkt : {p \in Packets : p.by = writer}])
      /\ Len(sent') = L + 1
      /\ \A k \in 1..L : Start(k)' = Start(k) /\ End(k)' = End(k) /\ Body(k)' = Body(k)
      /\ \A m \in 0..L : Offset(m)' = Offset(m)
      /\ Start(L + 1)' = Written /\ Written' = End(L + 1)'
      /\ End(L + 1)' > Written /\ End(L + 1)' \in Nat
  BY <1>0, WriteMoves
<1>3. /\ L \in Nat /\ Written \in Nat /\ Written = Offset(L) /\ Len(got) \in Nat
      /\ \A k \in 1..L : End(k) <= Written
  BY <1>0, Places DEF FramingInv
<1>4. FramingTypeOK'
  <2>1. read \in 0..Written /\ read \in 0..Written'
    BY <1>2, <1>3 DEF FramingInv, FramingTypeOK
  <2>2. L + 1 <= MaxPackets
    BY <1>1, <1>3, FramingAssumption
  <2> QED BY <1>1, <1>2, <2>1, <2>2 DEF FramingInv, FramingTypeOK
<1>5. Laid'
  <2>1. ASSUME NEW k \in 1..L + 1
        PROVE  /\ Start(k)' = Offset(k - 1)'
               /\ \A j \in 1..k - 1 : End(j)' <= Start(k)'
    <3>1. CASE k = L + 1
      <4>1. k - 1 = L /\ L \in 0..L
        BY <1>3, <3>1
      <4> QED BY <1>2, <1>3, <3>1, <4>1
    <3>2. CASE k \in 1..L
      <4>1. k - 1 \in 0..L /\ \A j \in 1..k - 1 : j \in 1..L
        BY <1>3, <3>2
      <4> QED BY <1>0, <1>2, <3>2, <4>1 DEF FramingInv, Laid
    <3> QED BY <1>3, <3>1, <3>2
  <2> QED BY <1>2, <2>1 DEF Laid
<1>6. InStep'
  <2>1. Len(got) <= L /\ Len(got) \in 0..L /\ \A j \in 1..Len(got) : j \in 1..L
    BY <1>0, <1>3 DEF FramingInv, InStep
  <2>2. Len(got) <= L + 1
    BY <1>3, <2>1
  <2> QED BY <1>1, <1>2, <2>1, <2>2 DEF FramingInv, InStep
<1>7. WaitsOnlyBehindTheCap'
  <2> SUFFICES ASSUME reader = "reading", dealt < DealMax,
                      NEW k \in DOMAIN sent', Start(k)' >= consumed
               PROVE  End(k)' > read
    BY <1>1 DEF WaitsOnlyBehindTheCap
  <2>1. k \in 1..L + 1
    BY <1>2, LenProperties
  <2>2. CASE k = L + 1
    <3>1. read \in 0..Written
      BY DEF FramingInv, FramingTypeOK
    <3> QED BY <1>2, <1>3, <2>2, <3>1
  <2>3. CASE k \in 1..L
    <3>1. k \in DOMAIN sent
      BY <1>0, <2>3, Places DEF FramingInv
    <3> QED BY <1>2, <2>3, <3>1 DEF FramingInv, WaitsOnlyBehindTheCap
  <2> QED BY <1>3, <2>1, <2>2, <2>3
<1> QED BY <1>4, <1>5, <1>6, <1>7 DEF FramingInv

\* Nothing else moves a packet.
LEMMA PacketsStay ==
    ASSUME sent' = sent
    PROVE  /\ (Laid => Laid') /\ Written' = Written
           /\ \A k : Start(k)' = Start(k) /\ End(k)' = End(k) /\ Body(k)' = Body(k)
           /\ \A m : Offset(m)' = Offset(m)
<1>1. \A k : Start(k)' = Start(k) /\ End(k)' = End(k) /\ Body(k)' = Body(k)
  BY DEF Start, End, Body
<1>2. Written' = Written
  BY DEF Written, End
<1>3. \A m : Offset(m)' = Offset(m)
  BY <1>1 DEF Offset
<1>4. Laid => Laid'
  BY <1>1, <1>3 DEF Laid
<1> QED BY <1>1, <1>2, <1>3, <1>4

\* The reader that has lost nothing finds at most one packet where it stands:
\* the next, if there is one.
LEMMA NextPacket ==
    ASSUME FramingInv, reader \in {"reading", "dealing"}
    PROVE  /\ \A k \in InPlace : k = Len(got) + 1 /\ k \in 1..Len(sent)
           /\ HeadIsIn => Len(got) < Len(sent) /\ Len(got) + 1 \in InPlace
           /\ consumed = Offset(Len(got)) /\ consumed \in Nat /\ read \in Nat
           /\ consumed <= read /\ read <= Written
<1>1. /\ Len(got) \in Nat /\ Len(sent) \in Nat /\ Len(got) <= Len(sent)
      /\ DOMAIN sent = 1..Len(sent) /\ Written \in Nat /\ Written = Offset(Len(sent))
  BY Places DEF FramingInv, InStep
<1>2. consumed = Offset(Len(got))
  BY DEF FramingInv, InStep
<1>3. consumed \in Nat /\ read \in Nat /\ consumed <= read /\ read <= Written
  BY <1>1 DEF FramingInv, FramingTypeOK
<1>4. ASSUME NEW k \in InPlace PROVE k = Len(got) + 1 /\ k \in 1..Len(sent)
  <2>1. k \in 1..Len(sent) /\ Start(k) = Offset(Len(got))
    BY <1>1, <1>2 DEF InPlace
  <2> QED BY <1>1, <2>1, NextInPlace DEF FramingInv
<1>5. ASSUME HeadIsIn PROVE Len(got) < Len(sent) /\ Len(got) + 1 \in InPlace
  <2>1. consumed < read
    <3> DEFINE h == HeadLenSize + HeadLen
    <3>1. h \in Nat \ {0} /\ read - consumed >= h
      BY <1>5, FramingAssumption DEF HeadIsIn, rlen, HeadLenSize
    <3> HIDE DEF h
    <3> QED BY <1>3, <3>1
  <2>2. Len(got) # Len(sent)
    <3>1. CASE Len(got) = Len(sent)
      <4>1. consumed = Written
        BY <1>1, <1>2, <3>1
      <4> QED BY <1>1, <1>3, <2>1, <4>1
    <3> QED BY <3>1
  <2>3. Len(got) < Len(sent) /\ Len(got) + 1 \in 1..Len(sent)
    BY <1>1, <2>2
  <2>4. Start(Len(got) + 1) = Offset(Len(got))
    BY <1>1, <2>3, NextInPlace DEF FramingInv
  <2> QED BY <1>1, <1>2, <2>3, <2>4 DEF InPlace
<1> QED BY <1>2, <1>3, <1>4, <1>5

\* The reader that finds nothing whole waits for the end of the next packet.
LEMMA DealEndsStep == FramingInv /\ DealEnds => FramingInv'
<1> SUFFICES ASSUME FramingInv, DealEnds PROVE FramingInv'
  OBVIOUS
<1>1. UNCHANGED <<writer, sent, read, consumed, dealt, got>> /\ reader' = "reading"
  BY DEF DealEnds
<1>2. FramingTypeOK' /\ Laid' /\ InStep'
  BY <1>1, PacketsStay DEF FramingInv, FramingTypeOK, InStep, DealEnds
<1>3. ASSUME dealt # DealMax, NEW k \in DOMAIN sent, Start(k) >= consumed
      PROVE  End(k) > read
  <2>1. /\ Len(got) \in Nat /\ Len(sent) \in Nat /\ Len(got) <= Len(sent) /\ k \in 1..Len(sent)
        /\ consumed = Offset(Len(got)) /\ consumed \in Nat /\ read \in Nat
    BY Places, NextPacket DEF FramingInv, InStep, DealEnds
  <2>2. k >= Len(got) + 1
    BY <1>3, <2>1, NextInPlace DEF FramingInv
  <2>3. /\ Start(k) \in Nat /\ End(k) \in Nat /\ End(k) > Start(k) + (HeadLenSize + HeadLen)
        /\ HeadLenSize + HeadLen \in Nat
    BY <2>1, Places DEF FramingInv
  <2>4. CASE rlen < HeadLenSize + HeadLen
    <3> DEFINE h == HeadLenSize + HeadLen
               a == Start(k)
               b == End(k)
    <3>1. /\ h \in Nat /\ a \in Nat /\ b \in Nat /\ b > a + h /\ a >= consumed
          /\ read - consumed < h
      BY <1>3, <2>3, <2>4 DEF rlen
    <3> HIDE DEF h, a, b
    <3>2. b > read
      BY <2>1, <3>1
    <3> QED BY <3>2 DEF b
  <2>5. ASSUME NEW j \in InPlace, ~IsIn(j) PROVE End(k) > read
    <3>1. j = Len(got) + 1 /\ j \in 1..Len(sent) /\ Start(j) = consumed
      BY NextPacket DEF DealEnds, InPlace
    <3>2. End(j) = consumed + PktLen(sent[j].pkt) /\ PktLen(sent[j].pkt) \in Nat
          /\ ~(read - consumed >= PktLen(sent[j].pkt)) /\ End(j) \in Nat
      BY <2>5, <3>1, Places DEF FramingInv, IsIn, rlen
    <3>3. End(j) > read
      <4> DEFINE l == PktLen(sent[j].pkt)
      <4>1. l \in Nat /\ ~(read - consumed >= l) /\ End(j) = consumed + l
        BY <3>2
      <4> HIDE DEF l
      <4> QED BY <2>1, <4>1
    <3>4. CASE k = j
      BY <3>3, <3>4
    <3>5. CASE k # j
      <4>1. j \in 1..k - 1
        BY <2>1, <2>2, <3>1, <3>5
      <4>2. End(j) <= Start(k) /\ Start(k) < End(k)
        BY <2>1, <4>1, Places DEF FramingInv, Laid
      <4> DEFINE a == End(j)
                 b == Start(k)
                 c == End(k)
      <4>3. a \in Nat /\ b \in Nat /\ c \in Nat /\ a > read /\ a <= b /\ b < c
        BY <2>3, <3>2, <3>3, <4>2
      <4> HIDE DEF a, b, c
      <4>4. c > read
        BY <2>1, <4>3
      <4> QED BY <4>4 DEF c
    <3> QED BY <3>4, <3>5
  <2> QED BY <1>3, <2>4, <2>5 DEF DealEnds
<1>4. WaitsOnlyBehindTheCap'
  <2>1. dealt < DealMax => dealt # DealMax
    BY FramingAssumption DEF FramingInv, FramingTypeOK
  <2> QED BY <1>1, <1>3, <2>1, PacketsStay DEF WaitsOnlyBehindTheCap
<1> QED BY <1>2, <1>4 DEF FramingInv

\* What TakePacket takes is the next packet, whole.
LEMMA TakenPacket ==
    ASSUME FramingInv, TakePacket, NEW n \in Nat, n = Len(got)
    PROVE  /\ n + 1 \in 1..Len(sent) /\ sent[n + 1].pkt.size <= MaxLen
           /\ consumed' = End(n + 1) /\ consumed' \in Nat /\ consumed' <= read
           /\ <<consumed + HeadLenSize + HeadLen, consumed'>> = Body(n + 1)
           /\ Body(n + 1) \in Nat \X Nat
           /\ \/ /\ dealt' = dealt + 1
                 /\ got' = Append(got, Body(n + 1))
                 /\ reader' = reader
              \/ /\ sent[n + 1].pkt.zip
                 /\ reader' = "refused"
                 /\ UNCHANGED <<dealt, got>>
<1>0. reader = "dealing" /\ HeadIsIn
  BY DEF TakePacket, Deal
<1>1. PICK k \in InPlace :
          /\ sent[k].pkt.size <= MaxLen
          /\ IsIn(k)
          /\ consumed' = consumed + PktLen(sent[k].pkt)
          /\ \/ /\ dealt' = dealt + 1
                /\ got' = Append(got, <<consumed + HeadLenSize + HeadLen, consumed'>>)
                /\ UNCHANGED reader
             \/ /\ sent[k].pkt.zip
                /\ reader' = "refused"
                /\ UNCHANGED <<dealt, got>>
  BY DEF TakePacket
<1>2. k = n + 1 /\ k \in 1..Len(sent) /\ Start(k) = consumed /\ consumed \in Nat /\ read \in Nat
  BY <1>0, NextPacket DEF InPlace
<1>3. /\ End(k) = consumed + PktLen(sent[k].pkt) /\ End(k) \in Nat
      /\ PktLen(sent[k].pkt) \in Nat /\ read - consumed >= PktLen(sent[k].pkt)
  BY <1>1, <1>2, Places DEF FramingInv, IsIn, rlen
<1>4. consumed' = End(k) /\ consumed' \in Nat /\ consumed' <= read
  <2> DEFINE l == PktLen(sent[k].pkt)
  <2>1. l \in Nat /\ read - consumed >= l /\ consumed' = consumed + l
    BY <1>1, <1>3
  <2> HIDE DEF l
  <2>2. consumed' <= read
    BY <1>2, <2>1
  <2> QED BY <1>1, <1>3, <2>2
<1>5. <<consumed + HeadLenSize + HeadLen, consumed'>> = Body(k)
  BY <1>2, <1>4 DEF Body
<1>6. Body(k) \in Nat \X Nat
  <2>1. Start(k) + HeadLenSize + HeadLen \in Nat
    BY <1>2, FramingAssumption DEF HeadLenSize
  <2> QED BY <1>3, <2>1 DEF Body
<1> QED BY <1>1, <1>2, <1>4, <1>5, <1>6

LEMMA TakeStep == FramingInv /\ TakePacket => FramingInv'
<1> SUFFICES ASSUME FramingInv, TakePacket PROVE FramingInv'
  OBVIOUS
<1>1. PICK n \in Nat : n = Len(got)
  BY Places DEF FramingInv
<1>2. /\ n + 1 \in 1..Len(sent) /\ consumed' = End(n + 1) /\ consumed' \in Nat /\ consumed' <= read
      /\ Body(n + 1) \in Nat \X Nat
      /\ \/ /\ dealt' = dealt + 1
            /\ got' = Append(got, Body(n + 1))
            /\ reader' = reader
         \/ /\ reader' = "refused"
            /\ UNCHANGED <<dealt, got>>
  BY <1>1, TakenPacket
<1>3. UNCHANGED <<writer, sent, read>> /\ reader = "dealing" /\ dealt < DealMax
  BY DEF TakePacket, Deal
<1>4. /\ Append(got, Body(n + 1)) \in Seq(Nat \X Nat)
      /\ Len(Append(got, Body(n + 1))) = n + 1
      /\ \A j \in 1..n : Append(got, Body(n + 1))[j] = got[j]
      /\ Append(got, Body(n + 1))[n + 1] = Body(n + 1)
  BY <1>1, <1>2, AfterAppend DEF FramingInv, FramingTypeOK
<1>5. Len(sent) \in Nat
  BY Places DEF FramingInv
<1>6. FramingTypeOK'
  <2>1. read' \in 0..Written' /\ consumed' \in 0..read'
    <3>1. Written' = Written
      BY <1>3, PacketsStay
    <3>2. read \in 0..Written /\ Written \in Nat
      BY Places DEF FramingInv, FramingTypeOK
    <3> QED BY <1>2, <1>3, <3>1, <3>2
  <2>2. dealt' \in 0..DealMax /\ got' \in Seq(Nat \X Nat)
    <3>1. dealt \in 0..DealMax /\ DealMax \in Nat /\ got \in Seq(Nat \X Nat)
      BY FramingAssumption DEF FramingInv, FramingTypeOK
    <3>2. dealt + 1 \in 0..DealMax
      BY <1>3, <3>1
    <3> QED BY <1>2, <1>4, <3>1, <3>2
  <2>3. reader' \in {"reading", "dealing", "lost", "refused"}
    BY <1>2, <1>3
  <2> QED BY <1>3, <2>1, <2>2, <2>3 DEF FramingInv, FramingTypeOK
<1>7. InStep'
  <2>1. Len(got) <= Len(sent) /\ \A j \in 1..n : got[j] = Body(j)
    BY <1>1 DEF FramingInv, InStep
  <2>2. Offset(n + 1) = End(n + 1)
    BY DEF Offset
  <2>3. CASE got' = Append(got, Body(n + 1))
    <3>1. \A j \in 1..n + 1 : got'[j] = Body(j)
      BY <1>4, <2>1, <2>3
    <3>2. Len(got') = n + 1 /\ n + 1 <= Len(sent')
      BY <1>2, <1>3, <1>4, <1>5, <2>3
    <3> QED BY <1>2, <1>3, <2>2, <3>1, <3>2, PacketsStay DEF InStep
  <2>4. CASE reader' = "refused" /\ got' = got
    BY <1>1, <1>3, <2>1, <2>4, PacketsStay DEF InStep
  <2> QED BY <1>2, <2>3, <2>4
<1>8. Laid' /\ WaitsOnlyBehindTheCap'
  BY <1>2, <1>3, PacketsStay DEF FramingInv, WaitsOnlyBehindTheCap
<1> QED BY <1>6, <1>7, <1>8 DEF FramingInv

LEMMA FramingStep == FramingInv /\ [Next]_vars => FramingInv'
<1> SUFFICES ASSUME FramingInv, [Next]_vars PROVE FramingInv'
  OBVIOUS
<1>1. CASE Read
  <2>1. UNCHANGED <<writer, sent, consumed, got>> /\ reader' = "dealing" /\ dealt' = 0
    BY <1>1 DEF Read
  <2>2. read' \in 0..Written /\ consumed \in 0..read'
    <3>1. PICK n \in 1..OnceBuffer : read + n <= Written /\ read' = read + n
      BY <1>1 DEF Read
    <3>2. Written \in Nat /\ read \in 0..Written /\ consumed \in 0..read /\ n \in Nat
      BY Places, FramingAssumption DEF FramingInv, FramingTypeOK
    <3> QED BY <3>1, <3>2
  <2>3. FramingTypeOK'
    BY <2>1, <2>2, PacketsStay, FramingAssumption DEF FramingInv, FramingTypeOK
  <2>4. InStep'
    BY <1>1, <2>1, PacketsStay DEF Read, FramingInv, InStep
  <2> QED BY <2>1, <2>3, <2>4, PacketsStay DEF FramingInv, WaitsOnlyBehindTheCap
<1>2. CASE ReadFails \/ HeadRefused
  <2>1. UNCHANGED <<writer, sent, read, consumed, dealt, got>> /\ reader' \in {"lost", "refused"}
        /\ reader \in {"reading", "dealing"}
    BY <1>2 DEF ReadFails, HeadRefused, Deal
  <2>2. FramingTypeOK' /\ InStep'
    BY <2>1, PacketsStay DEF FramingInv, FramingTypeOK, InStep
  <2> QED BY <2>1, <2>2, PacketsStay DEF FramingInv, WaitsOnlyBehindTheCap
<1>3. CASE UNCHANGED vars
  BY <1>3, PacketsStay DEF vars, FramingInv, FramingTypeOK, InStep, WaitsOnlyBehindTheCap
<1> QED BY <1>1, <1>2, <1>3, WriteStep, DealEndsStep, TakeStep DEF Next, DealMsg

LEMMA FramingInit == Init => FramingInv
<1> SUFFICES ASSUME Init PROVE FramingInv
  OBVIOUS
<1>1. sent = <<>> /\ got = <<>> /\ Len(sent) = 0 /\ Len(got) = 0 /\ DOMAIN sent = {}
  BY DEF Init
<1>2. Written = 0 /\ Offset(0) = 0
  BY <1>1 DEF Written, Offset
<1>3. FramingTypeOK
  <2>1. sent \in Seq([at : Nat, pkt : {p \in Packets : p.by = writer}]) /\ got \in Seq(Nat \X Nat)
    BY <1>1
  <2>2. 0 \in 0..0 /\ 0 \in 0..DealMax /\ 0 <= MaxPackets
    BY FramingAssumption
  <2> QED BY <1>1, <1>2, <2>1, <2>2 DEF Init, FramingTypeOK
<1>4. Laid /\ InStep /\ WaitsOnlyBehindTheCap
  BY <1>1, <1>2 DEF Init, Laid, InStep, WaitsOnlyBehindTheCap
<1> QED BY <1>3, <1>4 DEF FramingInv

LEMMA FramingAlways == Spec => []FramingInv
BY FramingInit, FramingStep, PTL DEF Spec

-----------------------------------------------------------------------------
(* The refinement. *)

\* What Stream calls written and handled.
Pkts == [k \in DOMAIN sent |-> sent[k].pkt]

FirstHandled ==
    /\ Pkts \in Seq(Packets) /\ Len(Pkts) = Len(sent)
    /\ \A k \in 1..Len(sent) : Pkts[k] = sent[k].pkt
    /\ Handled \in Seq(Packets) /\ Len(Handled) = Len(got)
    /\ Len(got) \in Nat /\ Len(sent) \in Nat /\ Len(got) <= Len(sent)
    /\ \A j \in 1..Len(got) : Handled[j] = sent[j].pkt

\* The bodies in got are those of the first packets: two packets' bodies lie
\* apart, so that each is recognised.
LEMMA HandledAreTheFirst == FramingInv => FirstHandled
<1> SUFFICES ASSUME FramingInv PROVE FirstHandled
  OBVIOUS
<1>1. /\ Len(got) \in Nat /\ Len(sent) \in Nat /\ Len(got) <= Len(sent)
      /\ DOMAIN got = 1..Len(got) /\ DOMAIN sent = 1..Len(sent)
      /\ \A k \in 1..Len(sent) : sent[k].pkt \in Packets
  BY Places DEF FramingInv, InStep
<1>2. ASSUME NEW j \in 1..Len(sent), NEW k \in 1..Len(sent), Body(k) = Body(j)
      PROVE  k = j
  <2>1. End(k) = End(j)
    BY <1>2 DEF Body
  <2>2. /\ End(k) \in Nat /\ End(j) \in Nat /\ Start(k) \in Nat /\ Start(j) \in Nat
        /\ Start(k) < End(k) /\ Start(j) < End(j)
    BY Places DEF FramingInv
  <2>3. ASSUME k \in 1..j - 1 PROVE FALSE
    <3>1. End(k) <= Start(j)
      BY <2>3 DEF FramingInv, Laid
    <3> QED BY <2>1, <2>2, <3>1
  <2>4. ASSUME j \in 1..k - 1 PROVE FALSE
    <3>1. End(j) <= Start(k)
      BY <2>4 DEF FramingInv, Laid
    <3> QED BY <2>1, <2>2, <3>1
  <2> QED BY <1>1, <2>3, <2>4
<1>3. ASSUME NEW j \in 1..Len(got) PROVE Handled[j] = sent[j].pkt
  <2>1. j \in 1..Len(sent) /\ got[j] = Body(j)
    BY <1>1 DEF FramingInv, InStep
  <2>2. \A k \in DOMAIN sent : Body(k) = got[j] <=> k = j
    BY <1>1, <1>2, <2>1
  <2>3. (CHOOSE k \in DOMAIN sent : Body(k) = got[j]) = j
    BY <1>1, <2>1, <2>2
  <2>4. \E k \in DOMAIN sent : Body(k) = got[j]
    BY <1>1, <2>1, <2>2
  <2> QED BY <1>1, <2>3, <2>4 DEF Handled
<1>4. Handled \in Seq(Packets) /\ Len(Handled) = Len(got)
  <2>1. DOMAIN Handled = 1..Len(got) /\ Handled = [j \in 1..Len(got) |-> Handled[j]]
    BY <1>1 DEF Handled
  <2>2. \A j \in 1..Len(got) : Handled[j] \in Packets
    BY <1>1, <1>3
  <2>3. Handled \in [1..Len(got) -> Packets]
    BY <2>1, <2>2
  <2> QED BY <1>1, <2>3
<1>5. Pkts \in Seq(Packets) /\ Len(Pkts) = Len(sent) /\ \A k \in 1..Len(sent) : Pkts[k] = sent[k].pkt
  <2>1. Pkts \in [1..Len(sent) -> Packets]
    BY <1>1 DEF Pkts
  <2> QED BY <1>1, <2>1 DEF Pkts
<1> QED BY <1>1, <1>3, <1>4, <1>5 DEF FirstHandled

\* The same after a step.
LEMMA HandledAfter == FramingInv' => FirstHandled'
BY HandledAreTheFirst, PTL

\* The next packet is Stream's Turn.
LEMMA WriteImplements ==
    ASSUME FramingInv, FramingInv', WriteMsg
    PROVE  S!Write
<1>1. PICK L \in Nat : L = Len(sent)
  BY Places DEF FramingInv
<1>2. PICK n \in BodySizes : \E p \in Wire(writer, n) :
         sent' = Append(sent, [at |-> Written, pkt |-> p])
  BY DEF WriteMsg
<1>3. PICK p \in Wire(writer, n) : sent' = Append(sent, [at |-> Written, pkt |-> p])
  BY <1>2
<1>4. p \in Packets
  BY WirePackets DEF FramingInv, FramingTypeOK
<1>5. Written \in Nat /\ sent \in Seq([at : Nat, pkt : Packets])
  <2>1. Written \in Nat
    BY Places DEF FramingInv
  <2> DEFINE Ours == [at : Nat, pkt : {q \in Packets : q.by = writer}]
             All  == [at : Nat, pkt : Packets]
  <2>2. Ours \subseteq All
    OBVIOUS
  <2>3. sent \in Seq(Ours)
    BY DEF FramingInv, FramingTypeOK
  <2>4. sent \in Seq(All)
    <3> HIDE DEF Ours, All
    <3> QED BY <2>2, <2>3, SeqMonotonic
  <2> QED BY <2>1, <2>4
<1>6. /\ Len(sent') = L + 1 /\ sent'[L + 1] = [at |-> Written, pkt |-> p]
      /\ \A k \in 1..L : sent'[k] = sent[k]
  BY <1>1, <1>3, <1>4, <1>5, AfterAppend
<1>7. UNCHANGED <<got, reader>>
  BY DEF WriteMsg
<1>8. Pkts' = Append(Pkts, p)
  <2>1. Pkts' \in Seq(Packets) /\ Len(Pkts') = L + 1 /\ \A k \in 1..L + 1 : Pkts'[k] = sent'[k].pkt
    BY <1>6, HandledAfter DEF FirstHandled
  <2>2. Pkts \in Seq(Packets) /\ Len(Pkts) = L /\ \A k \in 1..L : Pkts[k] = sent[k].pkt
    BY <1>1, HandledAreTheFirst DEF FirstHandled
  <2>3. /\ Append(Pkts, p) \in Seq(Packets) /\ Len(Append(Pkts, p)) = L + 1
        /\ \A k \in 1..L : Append(Pkts, p)[k] = Pkts[k]
        /\ Append(Pkts, p)[L + 1] = p
    BY <1>4, <2>2, AfterAppend
  <2>4. \A k \in 1..L + 1 : Pkts'[k] = Append(Pkts, p)[k]
    <3>1. \A k \in 1..L + 1 : k \in 1..L \/ k = L + 1
      OBVIOUS
    <3> QED BY <1>6, <2>1, <2>2, <2>3, <3>1
  <2> QED BY <2>1, <2>3, <2>4, SeqEqual
<1>9. Handled' = Handled
  <2>1. /\ Handled \in Seq(Packets) /\ Handled' \in Seq(Packets)
        /\ Len(Handled) = Len(got) /\ Len(Handled') = Len(got)
        /\ Len(got) <= L /\ Len(got) \in Nat
        /\ \A j \in 1..Len(got) : Handled[j] = sent[j].pkt /\ Handled'[j] = sent'[j].pkt
    BY <1>1, <1>7, HandledAreTheFirst, HandledAfter DEF FirstHandled
  <2>2. \A j \in 1..Len(Handled) : Handled[j] = Handled'[j]
    BY <1>6, <2>1
  <2> QED BY <2>1, <2>2, SeqEqual
<1> QED BY <1>4, <1>7, <1>8, <1>9 DEF S!Write, Pkts

LEMMA TakeImplements ==
    ASSUME FramingInv, FramingInv', TakePacket
    PROVE  S!Handle \/ S!Refuse
<1>1. PICK n \in Nat : n = Len(got)
  BY Places DEF FramingInv
<1>2. /\ n + 1 \in 1..Len(sent) /\ sent[n + 1].pkt.size <= MaxLen
      /\ \/ /\ got' = Append(got, Body(n + 1))
            /\ reader' = reader
         \/ /\ sent[n + 1].pkt.zip
            /\ reader' = "refused"
            /\ got' = got
      /\ Body(n + 1) \in Nat \X Nat
  BY <1>1, TakenPacket
<1>3. UNCHANGED sent /\ reader = "dealing" /\ Pkts' = Pkts
  BY DEF TakePacket, Deal, Pkts
<1>4. /\ Handled \in Seq(Packets) /\ Len(Handled) = n /\ Len(Pkts) = Len(sent)
      /\ \A j \in 1..n : Handled[j] = sent[j].pkt
      /\ Pkts[n + 1] = sent[n + 1].pkt /\ Len(sent) \in Nat
  BY <1>1, <1>2, HandledAreTheFirst DEF FirstHandled
<1>5. sent[n + 1].pkt \in Packets /\ sent[n + 1].pkt.by = writer
  BY <1>2, Places DEF FramingInv
<1>6. n < Len(sent)
  BY <1>2, <1>4
<1>7. CASE got' = Append(got, Body(n + 1)) /\ reader' = reader
  <2>1. Len(got') = n + 1
    BY <1>1, <1>2, <1>7, AfterAppend DEF FramingInv, FramingTypeOK
  <2>2. Handled' = Append(Handled, Pkts[n + 1])
    <3>1. /\ Handled' \in Seq(Packets) /\ Len(Handled') = n + 1
          /\ \A j \in 1..n + 1 : Handled'[j] = sent[j].pkt
      BY <1>3, <2>1, HandledAfter DEF FirstHandled
    <3>2. /\ Append(Handled, Pkts[n + 1]) \in Seq(Packets)
          /\ Len(Append(Handled, Pkts[n + 1])) = n + 1
          /\ \A j \in 1..n : Append(Handled, Pkts[n + 1])[j] = Handled[j]
          /\ Append(Handled, Pkts[n + 1])[n + 1] = Pkts[n + 1]
      BY <1>4, <1>5, AfterAppend
    <3>3. \A j \in 1..n + 1 : Handled'[j] = Append(Handled, Pkts[n + 1])[j]
      <4>1. \A j \in 1..n + 1 : j \in 1..n \/ j = n + 1
        OBVIOUS
      <4> QED BY <1>4, <3>1, <3>2, <4>1
    <3> QED BY <3>1, <3>2, <3>3, SeqEqual
  <2>3. Pkts[n + 1] \notin {p \in Packets : p.size > IF p.by = "client" THEN ServerMax ELSE ClientMax}
    <3>1. sent[n + 1].pkt.size \in Nat /\ MaxLen \in Nat
      BY <1>5, PacketShape, FramingAssumption DEF MaxLen
    <3>2. ~(sent[n + 1].pkt.size > MaxLen)
      BY <1>2, <3>1
    <3>3. MaxLen = IF sent[n + 1].pkt.by = "client" THEN ServerMax ELSE ClientMax
      BY <1>5 DEF MaxLen
    <3> QED BY <1>4, <3>2, <3>3
  <2> QED BY <1>3, <1>4, <1>6, <1>7, <2>2, <2>3 DEF S!Handle, S!Turn, Pkts
<1>8. CASE sent[n + 1].pkt.zip /\ reader' = "refused" /\ got' = got
  <2>1. Pkts[n + 1] \in {p \in Packets : p.by = "server" /\ p.zip}
    BY <1>4, <1>5, <1>8, PacketShape
  <2>2. Handled' = Handled
    BY <1>3, <1>8 DEF Handled, Body, Start, End
  <2> QED BY <1>3, <1>4, <1>6, <1>8, <2>1, <2>2 DEF S!Refuse, S!Turn, Pkts
<1> QED BY <1>2, <1>7, <1>8

LEMMA HeadRefusedImplements ==
    ASSUME FramingInv, HeadRefused
    PROVE  S!Refuse
<1>1. PICK n \in Nat : n = Len(got)
  BY Places DEF FramingInv
<1>2. UNCHANGED <<sent, got>> /\ reader = "dealing" /\ reader' = "refused" /\ HeadIsIn
  BY DEF HeadRefused, Deal
<1>3. n < Len(sent) /\ sent[n + 1].pkt.size > MaxLen
  BY <1>1, <1>2, NextPacket DEF HeadRefused
<1>4. Len(sent) \in Nat /\ n + 1 \in 1..Len(sent)
  BY <1>3, Places DEF FramingInv
<1>5. /\ Len(Handled) = n /\ Len(Pkts) = Len(sent) /\ Pkts[n + 1] = sent[n + 1].pkt
  BY <1>1, <1>4, HandledAreTheFirst DEF FirstHandled
<1>6. Pkts[n + 1] \in {p \in Packets : p.size > IF p.by = "client" THEN ServerMax ELSE ClientMax}
  <2>1. sent[n + 1].pkt \in Packets /\ sent[n + 1].pkt.by = writer
    BY <1>4, Places DEF FramingInv
  <2>2. MaxLen = IF sent[n + 1].pkt.by = "client" THEN ServerMax ELSE ClientMax
    BY <2>1 DEF MaxLen
  <2> QED BY <1>3, <1>5, <2>1, <2>2
<1>7. Handled' = Handled /\ Pkts' = Pkts
  BY <1>2 DEF Handled, Body, Start, End, Pkts
<1> QED BY <1>2, <1>3, <1>5, <1>6, <1>7 DEF S!Refuse, S!Turn, Pkts

LEMMA StepImplements ==
    ASSUME FramingInv, FramingInv', [Next]_vars
    PROVE  [S!StreamNext]_S!streamVars
<1>1. CASE WriteMsg
  BY <1>1, WriteImplements DEF S!StreamNext
<1>2. CASE TakePacket
  BY <1>2, TakeImplements DEF S!StreamNext
<1>3. CASE HeadRefused
  BY <1>3, HeadRefusedImplements DEF S!StreamNext
<1>4. CASE ReadFails
  <2>1. UNCHANGED <<sent, got>> /\ reader = "reading" /\ reader' = "lost"
    BY <1>4 DEF ReadFails
  <2>2. Handled' = Handled /\ Pkts' = Pkts
    BY <2>1 DEF Handled, Body, Start, End, Pkts
  <2> QED BY <2>1, <2>2 DEF S!StreamNext, S!Lose, Pkts
<1>5. CASE Read \/ DealEnds \/ UNCHANGED vars
  <2>1. UNCHANGED <<sent, got>>
        /\ (reader' = reader \/ {reader, reader'} \subseteq {"reading", "dealing"})
    BY <1>5 DEF Read, DealEnds, vars
  <2>2. Handled' = Handled /\ Pkts' = Pkts
    BY <2>1 DEF Handled, Body, Start, End, Pkts
  <2> QED BY <2>1, <2>2 DEF S!streamVars, Pkts
<1> QED BY <1>1, <1>2, <1>3, <1>4, <1>5 DEF Next, DealMsg

LEMMA InitImplements == Init => S!StreamInit
<1> SUFFICES ASSUME Init PROVE S!StreamInit
  OBVIOUS
<1>1. FramingInv /\ Len(sent) = 0 /\ Len(got) = 0 /\ reader = "reading"
  BY FramingInit DEF Init
<1>2. /\ Pkts \in Seq(Packets) /\ Len(Pkts) = 0
      /\ Handled \in Seq(Packets) /\ Len(Handled) = 0
  BY <1>1, HandledAreTheFirst DEF FirstHandled
<1>3. Pkts = <<>> /\ Handled = <<>>
  BY <1>2, EmptySeq
<1> QED BY <1>1, <1>3 DEF S!StreamInit, Pkts

-----------------------------------------------------------------------------
(* The theorems. *)

\* What a reader has taken out of its buffer it has read, what it has read was
\* written, and it handles no more than DealMax packets after a read.
THEOREM FramingTypes == Spec => []FramingTypeOK
BY FramingAlways, PTL DEF FramingInv

\* A reader with a whole packet in its buffer waits for the network only after
\* DealMax of them (DealMsgExt, cs.go:76).
THEOREM WaitsBehindTheCap == Spec => []WaitsOnlyBehindTheCap
BY FramingAlways, PTL DEF FramingInv

\* However TCP cuts the stream, a reader gives its handler the packets that were
\* written, in order, once and whole, until it gives up: DealMsgExt and dealMsg
\* over doWriteMsg, Write2Socket and send implement Stream.
THEOREM FramingImplementsStream == Spec => ImplementsStream
<1>1. Init => S!StreamInit
  BY InitImplements
<1>2. FramingInv /\ FramingInv' /\ [Next]_vars => [S!StreamNext]_S!streamVars
  BY StepImplements
<1> QED BY <1>1, <1>2, FramingAlways, PTL DEF Spec, ImplementsStream, S!StreamSpec

=============================================================================
