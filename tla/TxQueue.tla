------------------------------- MODULE TxQueue ------------------------------
(***************************************************************************)
(* tcp.ringTx and its sentlist (tcp/txqueue.go): one buffer that holds the *)
(* bytes sent and not acknowledged, then the bytes not sent yet, with the  *)
(* list of packets the sent bytes went out in.                             *)
(***************************************************************************)
EXTENDS SeqSpace, Sequences

R == INSTANCE Ring

\* What Reset leaves: room for maxPkts packets in a buffer it does not clear.
NewTx(buf, maxPkts, iss) ==
    [rawbuf |-> buf, unsentoff |-> 0, unsentend |-> 0, sentoff |-> 0, sentend |-> 0,
     pkts |-> <<>>, maxPkts |-> maxPkts, ssn |-> iss, iss |-> iss]

Reset(q, iss) == NewTx(q.rawbuf, q.maxPkts, iss)

Size(q) == Len(q.rawbuf)

ring(q, off, end) == [Buf |-> q.rawbuf, Off |-> off, End |-> end]
unsentRing(q) == ring(q, q.unsentoff, q.unsentend)
sentRing(q) == ring(q, q.sentoff, q.sentend)

sentAndUnsentBuffer(q) ==
    IF q.unsentend = 0 THEN ring(q, q.sentoff, q.sentend)
    ELSE IF q.sentend = 0 THEN ring(q, q.unsentoff, q.unsentend)
    ELSE ring(q, q.sentoff, q.unsentend)

Free(q) == R!Free(sentAndUnsentBuffer(q))
BufferedUnsent(q) == R!Buffered(unsentRing(q))
BufferedSent(q) == R!Buffered(sentRing(q))

endSeq(pkt) == Add(pkt.seq, pkt.size)
Newest(q) == q.pkts[Len(q.pkts)]

Ret(q, err) == [q |-> q, err |-> err]

\* Mutant: the sent bytes are not a limit to the write.
WriteMutant(q, b) ==
    LET w == R!Write(unsentRing(q), b)
    IN  IF w.err # "nil" THEN Ret(q, w.err)
        ELSE Ret([q EXCEPT !.rawbuf = w.ring.Buf, !.unsentend = w.ring.End], "nil")

\* The write stops short of the oldest sent byte.
Write(q, b) ==
    LET w == IF q.sentend = 0 THEN R!Write(unsentRing(q), b)
             ELSE R!WriteLimited(unsentRing(q), b, q.sentoff)
    IN  IF w.err # "nil" THEN Ret(q, w.err)
        ELSE Ret([q EXCEPT !.rawbuf = w.ring.Buf, !.unsentend = w.ring.End], "nil")

addEnd(a, b, size) == IF a + b > size THEN a + b - size ELSE a + b
addOff(a, b, size) == IF a + b >= size THEN a + b - size ELSE a + b

\* sentlist.AddPacket panics when the packet does not follow the last one.
AddPacketFits(q, off) ==
    Len(q.pkts) = 0 \/ (IF off = 0 THEN Newest(q).end = Size(q) ELSE off = Newest(q).end)

Packet(q, err, data) == [q |-> q, err |-> err, data |-> data]

\* Unsent bytes, up to n, become the packet that starts at currentSeq.
sendNew(q, n, currentSeq) ==
    LET unsent == unsentRing(q)
        rd     == R!Read(unsent, n)
        len    == Len(rd.data)
        pkt    == [off |-> unsent.Off, end |-> addEnd(unsent.Off, len, Size(q)),
                   seq |-> currentSeq, size |-> len]
    IN  IF R!IsEmpty(unsent) THEN Packet(q, "nil", <<>>)
        ELSE IF ~AddPacketFits(q, pkt.off) THEN Packet(q, "panic", <<>>)
        ELSE Packet([q EXCEPT !.pkts = Append(@, pkt),
                              !.sentoff = IF q.sentend = 0 THEN pkt.off ELSE @,
                              !.sentend = pkt.end,
                              !.unsentoff = IF rd.ring.End = 0 THEN pkt.end ELSE rd.ring.Off,
                              !.unsentend = rd.ring.End],
                    "nil", rd.data)

\* A sequence number below the end of what was sent asks for that packet again.
MakePacket(q, n, currentSeq) ==
    LET again == {i \in DOMAIN q.pkts : q.pkts[i].seq = currentSeq}
        pkt   == q.pkts[CHOOSE i \in again : \A j \in again : i <= j]
    IN  IF Len(q.pkts) = q.maxPkts THEN Packet(q, "full", <<>>)
        ELSE IF Len(q.pkts) > 0 /\ LessThan(currentSeq, endSeq(Newest(q)))
             THEN IF again = {} THEN Packet(q, "bug", <<>>)
                  ELSE LET rd == R!Read(ring(q, pkt.off, pkt.end), n)
                       IN  Packet(q, rd.err, rd.data)
        ELSE sendNew(q, n, currentSeq)

\* An acknowledgement inside the oldest packet shortens it.
ackPartial(pkts, ack, size) ==
    LET p     == pkts[1]
        acked == Sizeof(p.seq, ack)
    IN  IF pkts = <<>> \/ acked = 0 \/ LessThan(ack, p.seq) THEN pkts
        ELSE [pkts EXCEPT ![1] = [off |-> addOff(p.off, acked, size), end |-> p.end,
                                  seq |-> ack, size |-> p.size - acked]]

\* How many packets, from the oldest on, ack covers in full.
fullyAcked(q, ack) ==
    CHOOSE n \in 0 .. Len(q.pkts) :
        /\ \A i \in 1 .. n : LessThanEq(endSeq(q.pkts[i]), ack)
        /\ n < Len(q.pkts) => ~LessThanEq(endSeq(q.pkts[n + 1]), ack)

\* RecvACK, with sentlist.RecvAck, removeRecvd and consolidateBufs.
RecvACK(q, ack) ==
    LET n    == fullyAcked(q, ack)
        pkts == ackPartial(SubSeq(q.pkts, n + 1, Len(q.pkts)), ack, Size(q))
        ssn  == IF n = 0 THEN q.ssn ELSE endSeq(q.pkts[n])
        none == pkts = <<>>
        gone == none /\ q.unsentend = 0
    IN  IF Len(q.pkts) = 0 \/ LessThan(endSeq(Newest(q)), ack) THEN Ret(q, "drop")
        ELSE Ret([q EXCEPT !.pkts = pkts, !.ssn = ssn,
                           !.sentoff = IF gone THEN 0 ELSE IF none THEN @ ELSE pkts[1].off,
                           !.sentend = IF none THEN 0 ELSE pkts[Len(pkts)].end,
                           !.unsentoff = IF gone THEN 0 ELSE @], "nil")

\* The first packet whose range covers seq, or 0.
packetContaining(q, seq) ==
    LET covers == {i \in DOMAIN q.pkts : /\ LessThanEq(q.pkts[i].seq, seq)
                                         /\ LessThan(seq, endSeq(q.pkts[i]))}
    IN  IF covers = {} THEN 0 ELSE CHOOSE i \in covers : \A j \in covers : i <= j

\* Mutant: the rewound packets are dropped and their bytes stay sent.
RetransmitFromMutant(q, seq) ==
    LET i == packetContaining(q, seq)
    IN  IF i = 0 THEN q
        ELSE [q EXCEPT !.pkts = SubSeq(@, 1, i - 1),
                       !.sentend = IF i = 1 THEN 0 ELSE q.pkts[i].off]

\* The packet that covers seq, and all after it, become unsent again.
RetransmitFrom(q, seq) ==
    LET i   == packetContaining(q, seq)
        pkt == q.pkts[i]
        all == pkt.off = q.sentoff
    IN  IF i = 0 THEN q
        ELSE [q EXCEPT !.sentoff = IF all THEN 0 ELSE @,
                       !.sentend = IF all THEN 0 ELSE pkt.off,
                       !.unsentoff = pkt.off,
                       !.unsentend = IF @ = 0 THEN q.sentend ELSE @,
                       !.pkts = SubSeq(@, 1, i - 1),
                       !.ssn = IF i = 1 THEN pkt.seq ELSE @]
=============================================================================
