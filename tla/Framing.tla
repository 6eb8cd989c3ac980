------------------------------ MODULE Framing -------------------------------
(***************************************************************************)
(* Packets over a TCP connection: framework/msg/cs/cs.go, the readers'     *)
(* loop of game/player.go, and their counterparts in client/agent/agent.go.*)
(*                                                                         *)
(* A packet is a byte that holds the length of its head, the head, and the *)
(* body whose length the head holds.  TCP delivers the bytes in order, in  *)
(* pieces of any size; the reader appends each piece to recvBuffer and     *)
(* handles at most DealMax packets of it before it reads again.  Bytes are *)
(* the offsets they have in the stream.                                    *)
(*                                                                         *)
(* A behaviour is one direction of one connection: requests that a client  *)
(* writes and the server reads, or what the server writes to a client.     *)
(* Encryption is off in the program (game.Init) and left out.              *)
(***************************************************************************)
EXTENDS Integers, Sequences

CONSTANTS
    BodySizes,       \* sizes a marshalled body may have
    HeadLen,         \* size of a marshalled head
    ServerMax,       \* maxMsgLen, 10000 in game.Init
    ClientMax,       \* 1000 in the client's dealMsg
    MinCompressSize, \* 1024 in game.Init
    DealMax,         \* packets handled after a read, 16 in both readers
    OnceBuffer,      \* bytes a read returns at most, 4096
    MaxPackets       \* bound on the packets written

HeadLenSize == 1

ASSUME FramingAssumption ==
    /\ BodySizes \subseteq Nat \ {0}
    /\ HeadLen \in 2..255 /\ HeadLen <= ClientMax /\ HeadLen <= ServerMax
    /\ ServerMax \in Nat /\ ClientMax \in Nat
    /\ MinCompressSize \in Nat \ {0} /\ DealMax \in Nat \ {0} /\ OnceBuffer \in Nat \ {0}
    /\ MaxPackets \in Nat

VARIABLES
    writer,   \* which end writes: "client" or "server"
    sent,     \* the packets in the stream, with the offset each begins at
    read,     \* how much of the stream has been read
    consumed, \* how much of it the reader has taken out of recvBuffer
    reader,   \* reading, dealing; lost, or refused: the reader has given up
    dealt,    \* packets handled since the last read
    got       \* the bytes of each body given to msgHandler: from, to

vars == <<writer, sent, read, consumed, reader, dealt, got>>

Init ==
    /\ writer \in {"client", "server"}
    /\ sent = <<>>
    /\ read = 0 /\ consumed = 0
    /\ reader = "reading" /\ dealt = 0
    /\ got = <<>>

-----------------------------------------------------------------------------
(* Writing. *)

\* GetCompressData: the server compresses a large body if that makes it
\* smaller.  The client's send does not compress.
Wire(by, n) ==
    {[by |-> by, size |-> n, zip |-> FALSE]} \cup
    (IF by = "server" /\ n >= MinCompressSize
     THEN {[by |-> by, size |-> z, zip |-> TRUE] : z \in 1..n - 1} ELSE {})

Packets == UNION {Wire(by, n) : by \in {"client", "server"}, n \in BodySizes}

PktLen(p) == HeadLenSize + HeadLen + p.size
Start(k) == sent[k].at
End(k) == sent[k].at + PktLen(sent[k].pkt)
Written == IF sent = <<>> THEN 0 ELSE End(Len(sent))

\* doWriteMsg, Write2Socket and the client's send: TCPConn.Write takes all the
\* bytes of the packet or none.
WriteMsg ==
    /\ Len(sent) < MaxPackets
    /\ \E n \in BodySizes : \E p \in Wire(writer, n) :
          sent' = Append(sent, [at |-> Written, pkt |-> p])
    /\ UNCHANGED <<writer, read, consumed, reader, dealt, got>>

-----------------------------------------------------------------------------
(* Reading. *)

MaxLen == IF writer = "client" THEN ServerMax ELSE ClientMax

Read ==
    /\ reader = "reading"
    /\ \E n \in 1..OnceBuffer : read + n <= Written /\ read' = read + n
    /\ reader' = "dealing"
    /\ dealt' = 0
    /\ UNCHANGED <<writer, sent, consumed, got>>

\* The connection has ended or broken.
ReadFails ==
    /\ reader = "reading"
    /\ reader' = "lost"
    /\ UNCHANGED <<writer, sent, read, consumed, dealt, got>>

\* The packet that begins where recvBuffer begins.  A reader that had lost
\* its place would take some other byte for a head's length.
rlen == read - consumed
InPlace == {k \in DOMAIN sent : Start(k) = consumed}
HeadIsIn == rlen >= HeadLenSize + HeadLen
IsInByNow(k) == rlen > PktLen(sent[k].pkt)  \* wrong variants: one byte late,
IsInAlready(k) == rlen > HeadLenSize + HeadLen  \* and before the body is in
IsIn(k) == rlen >= PktLen(sent[k].pkt)

Deal == reader = "dealing" /\ dealt < DealMax

\* Wrong variant: one packet after each read.
DealEndsAtOnce ==
    /\ reader = "dealing"
    /\ \/ dealt = 1
       \/ rlen < HeadLenSize + HeadLen
       \/ \E k \in InPlace : sent[k].pkt.size <= MaxLen /\ ~IsIn(k)
    /\ reader' = "reading"
    /\ UNCHANGED <<writer, sent, read, consumed, dealt, got>>

\* Nothing whole is left, or DealMax packets have been handled.
DealEnds ==
    /\ reader = "dealing"
    /\ \/ dealt = DealMax
       \/ rlen < HeadLenSize + HeadLen
       \/ \E k \in InPlace : sent[k].pkt.size <= MaxLen /\ ~IsIn(k)
    /\ reader' = "reading"
    /\ UNCHANGED <<writer, sent, read, consumed, dealt, got>>

\* The head says that the body is too long, or is no head.
HeadRefused ==
    /\ Deal
    /\ HeadIsIn
    /\ \A k \in InPlace : sent[k].pkt.size > MaxLen
    /\ reader' = "refused"
    /\ UNCHANGED <<writer, sent, read, consumed, dealt, got>>

\* Wrong variant: all of recvBuffer is taken for one packet.
TakeAll ==
    /\ Deal
    /\ HeadIsIn
    /\ \E k \in InPlace : sent[k].pkt.size <= MaxLen /\ IsIn(k)
    /\ consumed' = read
    /\ dealt' = dealt + 1
    /\ got' = Append(got, <<consumed + HeadLenSize + HeadLen, consumed'>>)
    /\ UNCHANGED <<writer, sent, read, reader>>

\* The packet is taken out of recvBuffer, and its body given to msgHandler.  A
\* compressed body is not decompressed by the client: it may fail to unmarshal.
TakePacket ==
    /\ Deal
    /\ HeadIsIn
    /\ \E k \in InPlace :
          /\ sent[k].pkt.size <= MaxLen
          /\ IsIn(k)
          /\ consumed' = consumed + PktLen(sent[k].pkt)
          /\ \/ /\ dealt' = dealt + 1
                /\ got' = Append(got, <<consumed + HeadLenSize + HeadLen, consumed'>>)
                /\ UNCHANGED reader
             \/ /\ sent[k].pkt.zip
                /\ reader' = "refused"
                /\ UNCHANGED <<dealt, got>>
    /\ UNCHANGED <<writer, sent, read>>

-----------------------------------------------------------------------------
DealMsg == DealEnds \/ HeadRefused \/ TakePacket
Next == WriteMsg \/ Read \/ ReadFails \/ DealMsg

Spec == Init /\ [][Next]_vars

\* A reader's goroutine goes on while it has something to do, and TCP delivers
\* what was written.  Nothing is assumed of the writer.
Fairness == WF_vars(DealMsg) /\ WF_vars(Read)

FairSpec == Spec /\ Fairness

-----------------------------------------------------------------------------
FramingTypeOK ==
    /\ writer \in {"client", "server"}
    /\ sent \in Seq([at : Nat, pkt : {p \in Packets : p.by = writer}])
    /\ Len(sent) <= MaxPackets
    /\ read \in 0..Written /\ consumed \in 0..read
    /\ reader \in {"reading", "dealing", "lost", "refused"}
    /\ dealt \in 0..DealMax
    /\ got \in Seq(Nat \X Nat)

\* The packets the bodies in got belong to: exactly a packet's, or garbage.
Body(k) == <<Start(k) + HeadLenSize + HeadLen, End(k)>>
Handled ==
    [j \in DOMAIN got |->
       IF \E k \in DOMAIN sent : Body(k) = got[j]
       THEN sent[CHOOSE k \in DOMAIN sent : Body(k) = got[j]].pkt
       ELSE <<"garbage", got[j]>>]

S == INSTANCE Stream WITH
        Refused <- {p \in Packets : p.size > IF p.by = "client" THEN ServerMax ELSE ClientMax},
        Unreadable <- {p \in Packets : p.by = "server" /\ p.zip},
        written <- [k \in DOMAIN sent |-> sent[k].pkt],
        handled <- Handled,
        state <- IF reader \in {"reading", "dealing"} THEN "open" ELSE reader

\* However TCP cuts the stream, each reader gives its handler the packets that
\* were written, in order, once and whole, and it gives up only where the
\* connection fails, a packet exceeds its limit, or the client meets a
\* compressed packet (DealMsgExt, dealMsg).
ImplementsStream == S!StreamSpec

\* A reader waits for the network with a whole packet in its buffer only if it
\* has just handled DealMax packets: the rest is left until the peer sends
\* again, which a client that waits for an answer does not (cs.go:76).
WaitsOnlyBehindTheCap ==
    reader = "reading" /\ dealt < DealMax =>
       \A k \in DOMAIN sent : Start(k) >= consumed => End(k) > read

\* What was written is handled in the end, unless the connection ends or the
\* reader is left waiting behind DealMax packets, all read and nothing more
\* written.
StreamDrains ==
    \A k \in 1..MaxPackets :
       Len(sent) >= k ~> \/ Len(got) >= k
                         \/ reader \in {"lost", "refused"}
                         \/ reader = "reading" /\ dealt = DealMax /\ read = Written
=============================================================================
