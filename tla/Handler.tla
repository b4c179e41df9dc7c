------------------------------- MODULE Handler --------------------------------
(***************************************************************************)
(* tcp.Handler (tcp/handler.go): one TCP connection, which joins a control *)
(* block, a transmit queue, a receive ring with out-of-order reassembly    *)
(* and a Policy (rto.Timer, or none).  A handler is a record; each method  *)
(* is an operator that returns the handler it leaves, with an error, and   *)
(* the frame that goes out where the method writes one.                    *)
(*                                                                         *)
(* A frame keeps its ports, the segment's fields, the payload and the two  *)
(* options of a SYN: mss, and ws, the window shift or -1 when absent.      *)
(***************************************************************************)
EXTENDS SeqSpace, Sequences

-----------------------------------------------------------------------------
(***************************************************************************)
(* tcp.reassembly (tcp/reassembly.go): segments that arrived ahead of      *)
(* rcv.NXT.  Their bytes are staged in the free part of the receive ring,  *)
(* at the place they will have once the gap is filled; held lists their    *)
(* ranges in the order of their sequence numbers.                          *)
(***************************************************************************)

CONSTANT maxReasmSegments    \* 8 in the code

Rx == INSTANCE Ring
LOCAL Seqs == INSTANCE SequencesExt

bufferedBytes(held) == Seqs!FoldLeft(LAMBDA n, s : n + s.n, 0, held)

\* Where a segment that starts at seq belongs: how many of held come before it.
insertAt(held, seq) ==
    CHOOSE i \in 0 .. Len(held) :
        /\ \A j \in 1 .. i : LessThan(held[j].seq, seq)
        /\ i < Len(held) => ~LessThan(held[i + 1].seq, seq)

Stored(held, rx, ok) == [held |-> held, rx |-> rx, ok |-> ok]

\* Mutant: the payload is staged at the start of the free space, not behind the gap.
storeMutant(held, rx, rcvNxt, seq, payload) ==
    LET i == insertAt(held, seq)
        w == Rx!PeekWrite(rx, payload, 0)
    IN  IF payload = <<>> \/ Len(held) >= maxReasmSegments \/ w.err # "nil"
        THEN Stored(held, rx, FALSE)
        ELSE Stored(Seqs!InsertAt(held, i + 1, [seq |-> seq, n |-> Len(payload)]), w.ring, TRUE)

store(held, rx, rcvNxt, seq, payload) ==
    LET gap  == Sizeof(rcvNxt, seq)
        end  == Add(seq, Len(payload))
        i    == insertAt(held, seq)
        prev == held[i]
        next == held[i + 1]
        w    == Rx!PeekWrite(rx, payload, gap)
    IN  IF \/ payload = <<>> \/ Len(held) >= maxReasmSegments
           \/ gap + Len(payload) > Rx!Free(rx)
           \/ i > 0 /\ LessThan(seq, Add(prev.seq, prev.n))
        THEN Stored(held, rx, FALSE)
        ELSE IF i < Len(held) /\ next.seq = seq THEN Stored(held, rx, TRUE)
        ELSE IF (i < Len(held) /\ LessThan(next.seq, end)) \/ w.err # "nil"
        THEN Stored(held, rx, FALSE)
        ELSE Stored(Seqs!InsertAt(held, i + 1, [seq |-> seq, n |-> Len(payload)]), w.ring, TRUE)

\* One held segment: delivered when it is next, dropped when it is old, kept, with
\* all that follow it, behind a gap or a full ring.
reassembleStep(a, seg) ==
    LET c == Rx!Commit(a.rx, seg.n)
    IN  IF a.stop \/ (seg.seq # a.nxt /\ ~LessThan(seg.seq, a.nxt))
                  \/ (seg.seq = a.nxt /\ c.err # "nil")
        THEN [a EXCEPT !.held = Append(@, seg), !.stop = TRUE]
        ELSE IF seg.seq = a.nxt
        THEN [a EXCEPT !.rx = c.ring, !.nxt = Add(@, seg.n), !.delivered = @ + seg.n]
        ELSE a

reassemble(held, rx, nxt) ==
    Seqs!FoldLeft(reassembleStep,
        [held |-> <<>>, rx |-> rx, nxt |-> nxt, delivered |-> 0, stop |-> FALSE], held)

-----------------------------------------------------------------------------
(***************************************************************************)
(* rto.Timer (tcp/rto/timer.go): the retransmission timer of a connection, *)
(* RFC 6298.  A timer is a record; a hook of the Policy interface is an    *)
(* operator that takes the clock's reading.                                *)
(***************************************************************************)

CONSTANTS
    rtoInitial, rtoMin, rtoMax,    \* 1 s, 200 ms and 60 s in the code
    backoffMax                     \* 12 in the code

NewTimer ==
    [srtt |-> 0, rttvar |-> 0, rto |-> rtoInitial, haveRTT |-> FALSE,
     haveSeq |-> FALSE, sndUNA |-> 0, sndNXT |-> 0,
     timing |-> FALSE, timedSeq |-> 0, timedAt |-> 0,
     running |-> FALSE, deadline |-> 0, backoff |-> 0]

clamp(rto) == IF rto < rtoMin THEN rtoMin ELSE IF rto > rtoMax THEN rtoMax ELSE rto

CurrentRTO(r) == clamp(r.rto)

rtoArm(r, now) == [r EXCEPT !.running = TRUE, !.deadline = now + CurrentRTO(r)]

\* The gains 1/8 and 1/4 are arithmetic shifts, which round down.
updateRTT(r, sample) ==
    LET diff == IF r.srtt < sample THEN sample - r.srtt ELSE r.srtt - sample
        var  == IF r.haveRTT THEN r.rttvar + (diff - r.rttvar) \div 4 ELSE sample \div 2
        srtt == IF r.haveRTT THEN r.srtt + (sample - r.srtt) \div 8 ELSE sample
    IN  IF sample <= 0 THEN r
        ELSE [r EXCEPT !.srtt = srtt, !.rttvar = var, !.haveRTT = TRUE, !.rto = srtt + 4 * var]

\* An acknowledgement that covers the timed segment completes its sample.
sampled(r, ack, now) ==
    IF r.timing /\ ~LessThan(ack, r.timedSeq)
    THEN [updateRTT(r, now - r.timedAt) EXCEPT !.timing = FALSE, !.backoff = 0]
    ELSE r

rtoAcked(r, ack) ==
    IF LessThan(r.sndUNA, ack) /\ ~LessThan(r.sndNXT, ack)
    THEN [r EXCEPT !.sndUNA = ack] ELSE r

\* Mutant: any acknowledgement stops the timer.
rtoPostRxMutant(r, seg, now) ==
    IF ~r.haveSeq \/ "ACK" \notin seg.Flags THEN r
    ELSE [rtoAcked(sampled(r, seg.ACK, now), seg.ACK) EXCEPT !.running = FALSE]

rtoPostRx(r, seg, now) ==
    LET s == rtoAcked(sampled(r, seg.ACK, now), seg.ACK)
    IN  IF ~r.haveSeq \/ "ACK" \notin seg.Flags THEN r
        ELSE IF s.sndUNA = s.sndNXT THEN [s EXCEPT !.running = FALSE]
        ELSE rtoArm(s, now)

rtoExpired(r, now) == r.running /\ now >= r.deadline /\ r.sndUNA # r.sndNXT

\* The timer after an expiry; the caller retransmits from snd.UNA.
timedOut(r, now) ==
    LET slower == IF r.backoff < backoffMax
                  THEN [r EXCEPT !.backoff = @ + 1,
                                 !.rto = IF 2 * CurrentRTO(r) < rtoMax THEN 2 * CurrentRTO(r) ELSE rtoMax]
                  ELSE r
    IN  rtoArm([slower EXCEPT !.timing = FALSE], now)

rtoPreTx(r, now) == IF rtoExpired(r, now) THEN timedOut(r, now) ELSE r

\* seqLen counts the sequence numbers of the segment, a FIN included.
rtoPostTx(r, seg, seqLen, now) ==
    LET s    == IF r.haveSeq THEN r
                ELSE [r EXCEPT !.haveSeq = TRUE, !.sndUNA = seg.SEQ, !.sndNXT = seg.SEQ]
        end  == Add(seg.SEQ, seqLen)
        sent == IF s.timing THEN [s EXCEPT !.sndNXT = end]
                ELSE [s EXCEPT !.sndNXT = end, !.timing = TRUE, !.timedSeq = end, !.timedAt = now]
    IN  IF seg.DATALEN = 0 THEN r
        ELSE IF ~LessThan(s.sndNXT, end) THEN [s EXCEPT !.timing = FALSE]
        ELSE IF sent.running THEN sent ELSE rtoArm(sent, now)

-----------------------------------------------------------------------------
CONSTANTS
    maxWindow, maxChallengeRejects, Int8, Uint8Max, rstJump, scrambleIRS(_),
    wireWndMax,    \* the largest window the wire field holds, 0xFFFF in the code
    maxWndShift    \* 14 in the code

ASSUME HandlerAssumption ==
    /\ wireWndMax \in Nat /\ maxWndShift \in Nat
    /\ maxWindow = wireWndMax * 2^maxWndShift
    /\ {rtoInitial, rtoMin, rtoMax, backoffMax} \subseteq Nat
    /\ rtoMin <= rtoInitial /\ rtoInitial <= rtoMax

CB == INSTANCE ControlBlock
Tx == INSTANCE TxQueue

NoPolicy == [on |-> FALSE, timer |-> NewTimer]
TimerPolicy == [on |-> TRUE, timer |-> NewTimer]

minBufferSize == 2

\* A handler that has its buffers and was never opened (SetBuffers).
NewHandler(txSize, rxSize, packets, policy) ==
    [connid |-> 0, scb |-> CB!SetRecvWindow(CB!ZeroTCB, rxSize),
     bufTx |-> Tx!NewTx([i \in 1 .. txSize |-> 0], packets, 0),
     bufRx |-> [Buf |-> [i \in 1 .. rxSize |-> 0], Off |-> 0, End |-> 0],
     held |-> <<>>, policy |-> policy, localPort |-> 0, remotePort |-> 0,
     wndShiftPeer |-> 0, peerOfferedWS |-> FALSE,
     closing |-> FALSE, shutdownRx |-> FALSE, requeueControl |-> FALSE]

\* Everything but the control block starts over; buffers and settings stay.
reset(h, localPort, remotePort, iss) ==
    [h EXCEPT !.connid = @ + 1, !.localPort = localPort, !.remotePort = remotePort,
              !.policy.timer = NewTimer, !.held = <<>>,
              !.bufTx = Tx!Reset(@, iss), !.bufRx = Rx!Reset(@),
              !.wndShiftPeer = 0, !.peerOfferedWS = FALSE,
              !.closing = FALSE, !.shutdownRx = FALSE, !.requeueControl = FALSE]

Ret(h, err) == [h |-> h, err |-> err]

buffersTooSmall(h) == Rx!Size(h.bufRx) < minBufferSize \/ Tx!Size(h.bufTx) < minBufferSize

OpenActive(h, localPort, remotePort, iss) ==
    IF remotePort = 0 THEN Ret(h, "zeroDestination")
    ELSE IF buffersTooSmall(h) THEN Ret(h, "bufferTooSmall")
    ELSE IF ~CB!IsClosed(h.scb.state) THEN Ret(h, "needClosed")
    ELSE Ret([reset(h, localPort, remotePort, iss)
                EXCEPT !.scb = CB!SetRecvWindow(CB!ZeroTCB, Rx!Size(h.bufRx))], "nil")

OpenListen(h, localPort, iss) ==
    LET o == CB!Open(h.scb, iss, Rx!Size(h.bufRx))
    IN  IF localPort = 0 THEN Ret(h, "zeroSource")
        ELSE IF buffersTooSmall(h) THEN Ret(h, "bufferTooSmall")
        ELSE IF ~CB!Ok(o) THEN Ret(h, o.err)
        ELSE Ret([reset(h, localPort, 0, iss) EXCEPT !.scb = o.tcb], "nil")

Abort(h) == [reset(h, 0, 0, 0) EXCEPT !.scb = CB!Abort(h.scb)]

AwaitingSynSend(h) == h.remotePort # 0 /\ h.scb.state = "Closed"
AwaitingSynResponse(h) == h.remotePort # 0 /\ h.scb.state = "SynSent"
IsAwaitingControl(h) == AwaitingSynResponse(h) \/ h.scb.state = "SynRcvd"

IsTxOver(h) ==
    \/ h.scb.state = "Closed" /\ ~AwaitingSynSend(h)
    \/ h.scb.state = "TimeWait" /\ ~CB!HasPending(h.scb)

RequeueControl(h) == IF IsAwaitingControl(h) THEN [h EXCEPT !.requeueControl = TRUE] ELSE h

ShutdownRead(h) == [h EXCEPT !.shutdownRx = TRUE]

Close(h) ==
    IF h.closing THEN Ret(h, "closing")
    ELSE IF CB!IsClosed(h.scb.state) THEN Ret(h, "closed")
    ELSE Ret([h EXCEPT !.closing = TRUE], "nil")

-----------------------------------------------------------------------------
(* Windows.                                                                *)

\* Mutant: the window of an empty buffer.
recvWindowMutant(h) == Rx!Size(h.bufRx)

recvWindow(h) ==
    LET free == Rx!Free(h.bufRx)
        ooo  == bufferedBytes(h.held)
    IN  IF ooo < free THEN free - ooo ELSE 0

wndShiftFor(bufSize) ==
    CHOOSE s \in 0 .. maxWndShift :
        /\ s = maxWndShift \/ bufSize \div 2^s <= wireWndMax
        /\ \A q \in 0 .. s - 1 : bufSize \div 2^q > wireWndMax

wndShiftLocal(h) == wndShiftFor(Rx!Size(h.bufRx))

\* A SYN's window is never scaled.
wireWnd(h, seg) ==
    LET wnd == IF h.peerOfferedWS /\ "SYN" \notin seg.Flags
               THEN seg.WND \div 2^wndShiftLocal(h) ELSE seg.WND
    IN  IF wnd > wireWndMax THEN wireWndMax ELSE wnd

maybeQueueWindowUpdate(h) ==
    LET grown  == recvWindow(h) - h.scb.rcv.WND
        half   == Rx!Size(h.bufRx) \div 2
        mss    == h.scb.snd.MSS
        thresh == IF mss > 0 /\ mss < half THEN mss ELSE half
    IN  IF grown > 0 /\ grown >= thresh
        THEN [h EXCEPT !.scb = CB!queueFlags(@, {"ACK"})] ELSE h

-----------------------------------------------------------------------------
(* Recv.                                                                   *)

segmentOf(h, f) ==
    [SEQ |-> f.SEQ, ACK |-> f.ACK, DATALEN |-> Len(f.payload), Flags |-> f.Flags,
     WND |-> IF h.peerOfferedWS /\ "SYN" \notin f.Flags
             THEN f.WND * 2^h.wndShiftPeer ELSE f.WND]

\* What handleOutOfOrder does with the segment; ok says that it took it.
handleOutOfOrder(h, seg, payload) ==
    LET nxt == h.scb.rcv.NXT
        wnd == h.scb.rcv.WND
        s   == store(h.held, h.bufRx, nxt, seg.SEQ, payload)
        pass == \/ h.shutdownRx \/ seg.DATALEN = 0 \/ CB!HasAny(seg.Flags, CB!flagctl)
                \/ seg.SEQ = nxt
                \/ ~InWindow(seg.SEQ, nxt, wnd) \/ ~InWindow(CB!Last(seg), nxt, wnd)
    IN  IF pass \/ ~s.ok THEN [ok |-> FALSE, h |-> h]
        ELSE [ok |-> TRUE,
              h  |-> [h EXCEPT !.held = s.held, !.bufRx = s.rx,
                               !.scb = CB!queueFlags(@, {"ACK"})]]

deliverReassembled(h) ==
    LET d == reassemble(h.held, h.bufRx, h.scb.rcv.NXT)
        g == [h EXCEPT !.held = d.held, !.bufRx = d.rx]
    IN  IF h.held = <<>> THEN h
        ELSE IF h.shutdownRx THEN [h EXCEPT !.held = <<>>]
        ELSE IF d.delivered > 0
        THEN [g EXCEPT !.scb = CB!queueFlags([@ EXCEPT !.rcv.NXT = Add(@, d.delivered)], {"ACK"})]
        ELSE g

\* The payload, then what it joins.
takePayload(h, seg, ring) ==
    IF seg.DATALEN = 0 THEN h
    ELSE deliverReassembled(IF h.shutdownRx THEN h ELSE [h EXCEPT !.bufRx = ring])

\* The transmit queue learns of an acknowledgement that moved snd.UNA.
takeAck(h, seg, prevUNA) ==
    IF "ACK" \in seg.Flags /\ seg.ACK # prevUNA
    THEN [h EXCEPT !.bufTx = Tx!RecvACK(@, seg.ACK).q] ELSE h

\* The options of a SYN.
takeOptions(h, f) ==
    IF "SYN" \notin f.Flags THEN h
    ELSE [h EXCEPT !.scb.snd.MSS = IF f.mss > 0 THEN f.mss ELSE @,
                   !.peerOfferedWS = @ \/ f.ws >= 0,
                   !.wndShiftPeer = IF f.ws < 0 THEN @ ELSE IF f.ws < maxWndShift THEN f.ws ELSE maxWndShift,
                   !.remotePort = IF @ = 0 THEN f.SrcPort ELSE @]

\* Mutant: the transmit queue forgets all that was sent.
acceptedMutant(h, f, seg, prevUNA) ==
    LET w == Rx!Write(h.bufRx, f.payload)
    IN  Ret(takeOptions(takeAck(takePayload(h, seg, w.ring), [seg EXCEPT !.ACK = h.scb.snd.NXT], prevUNA), f),
            "nil")

\* What follows once the control block took the segment: the payload, the transmit
\* queue and the options, in this order.
accepted(h, f, seg, prevUNA) ==
    LET w == Rx!Write(h.bufRx, f.payload)
    IN  IF seg.DATALEN > 0 /\ ~h.shutdownRx /\ w.err # "nil" THEN Ret(h, w.err)
        ELSE Ret(takeOptions(takeAck(takePayload(h, seg, w.ring), seg, prevUNA), f), "nil")

\* The policy sees every segment the control block accepted.
PostRx(h, seg, now) ==
    IF h.policy.on THEN [h EXCEPT !.policy.timer = rtoPostRx(@, seg, now)] ELSE h

\* r is what the control block made of the segment.
recvd(h, f, seg, r, now) ==
    LET got  == [h EXCEPT !.scb = r.tcb]
        seen == PostRx(got, seg, now)
        noReader == /\ seg.DATALEN > 0 /\ h.shutdownRx
                    /\ r.tcb.state \in {"FinWait1", "FinWait2"}
    IN  IF r.err = "panic" THEN Ret(h, "panic")
        ELSE IF r.tcb.state = "Closed" THEN Ret(got, "closed")
        ELSE IF r.err # "nil" THEN Ret(got, r.err)
        ELSE IF noReader THEN Ret([seen EXCEPT !.scb = CB!QueueRST(@, seg.ACK)], "nil")
        ELSE accepted(seen, f, seg, h.scb.snd.UNA)

Recv(h, f, now) ==
    LET seg == segmentOf(h, f)
        ooo == handleOutOfOrder(h, seg, f.payload)
    IN  IF IsTxOver(h) THEN Ret(h, "closed")
        ELSE IF f.SrcPort = 0 \/ f.DstPort = 0 THEN Ret(h, "invalid")
        ELSE IF h.remotePort \notin {0, f.SrcPort} \/ h.localPort # f.DstPort THEN Ret(h, "mismatch")
        ELSE IF CB!IncomingIsKeepalive(h.scb, seg) THEN Ret(h, "nil")
        ELSE IF ooo.ok THEN Ret(ooo.h, "nil")
        ELSE IF ~h.shutdownRx /\ Len(f.payload) > Rx!Free(h.bufRx) THEN Ret(h, "bufferFull")
        ELSE recvd(h, f, seg, CB!Recv(h.scb, seg), now)

-----------------------------------------------------------------------------
(* Send.                                                                   *)

Out(h, err, frames) == [h |-> h, err |-> err, frames |-> frames]
Nothing(h, err) == Out(h, err, <<>>)

\* PreTx: an expired timer rewinds the control block and the transmit queue.
preTx(h, now) ==
    LET una == h.scb.snd.UNA
        r   == CB!RetransmitFrom(h.scb, una)
        g   == [h EXCEPT !.policy.timer = rtoPreTx(@, now)]
    IN  IF ~h.policy.on THEN h
        ELSE IF rtoExpired(h.policy.timer, now) /\ r.ok
        THEN [g EXCEPT !.scb = r.tcb, !.bufTx = Tx!RetransmitFrom(@, una)]
        ELSE g

\* Close was called, or the peer closed and nothing is left to send.
withClosing(h) ==
    IF /\ h.scb.state = "CloseWait" /\ Tx!BufferedUnsent(h.bufTx) = 0
       /\ ~CB!HasPending(h.scb)
    THEN [h EXCEPT !.closing = TRUE] ELSE h

closesNow(h) ==
    /\ Tx!BufferedUnsent(h.bufTx) = 0 /\ h.closing
    /\ h.scb.state # "CloseWait" \/ ~CB!HasPending(h.scb)

synOptions(h, f, room, isSynack) ==
    [f EXCEPT !.mss = room,
              !.ws = IF isSynack /\ ~h.peerOfferedWS THEN -1 ELSE wndShiftLocal(h)]

frameOf(h, seg, payload) ==
    [SrcPort |-> h.localPort, DstPort |-> h.remotePort, SEQ |-> seg.SEQ, ACK |-> seg.ACK,
     WND |-> wireWnd(h, seg), Flags |-> seg.Flags, payload |-> payload, mss |-> 0, ws |-> -1]

\* The frame leaves.  Answering in TIME-WAIT and sending an RST end the connection.
onWire(h, state, f) ==
    IF state = "TimeWait" /\ "ACK" \in f.Flags THEN Out(reset(h, 0, 0, 0), "nil", <<f>>)
    ELSE IF "RST" \in f.Flags THEN Out(Abort(h), "nil", <<f>>)
    ELSE Out(h, "nil", <<f>>)

\* The segment goes through the control block, to the policy and onto the wire.
emit(h, seg, payload, room, now) ==
    LET r == CB!Send(h.scb, seg)
        f == frameOf(h, seg, payload)
    IN  IF ~CB!Ok(r) THEN Nothing(h, r.err)
        ELSE onWire([h EXCEPT !.scb = r.tcb, !.requeueControl = FALSE,
                              !.policy.timer = IF h.policy.on
                                               THEN rtoPostTx(@, seg, CB!LEN(seg), now) ELSE @],
                    h.scb.state,
                    IF "SYN" \in seg.Flags
                    THEN synOptions(h, f, room, "ACK" \in seg.Flags) ELSE f)

\* The segment takes the payload of the packet the transmit queue made.
withPacket(seg, pkt) ==
    [seg EXCEPT !.DATALEN = Len(pkt.data),
                !.Flags = IF pkt.data # <<>> THEN @ \cup {"PSH"} ELSE @]

sendData(h, seg, pkt, room, now) ==
    IF pkt.err # "nil" THEN Nothing([h EXCEPT !.bufTx = pkt.q], pkt.err)
    ELSE emit([h EXCEPT !.bufTx = pkt.q], withPacket(seg, pkt), pkt.data, room, now)

sendSegment(h, seg, room, now) ==
    IF seg.Flags = CB!synack \/ seg.DATALEN = 0 THEN emit(h, seg, <<>>, room, now)
    ELSE sendData(h, seg, Tx!MakePacket(h.bufTx, seg.DATALEN, seg.SEQ), room, now)

\* The control block's pending segment, with payload when it may carry any.
sendPending(h, room, now) ==
    LET p == CB!PendingSegment(h.scb, room)
    IN  IF ~p.ok THEN Nothing(h, "nil")
        ELSE sendSegment(h, [p.seg EXCEPT !.WND = recvWindow(h)], room, now)

\* Send once the buffers are looked at and a due close is made.
sendNext(h, awaitingSyn, room, now) ==
    LET syn == CB!ClientSynSegment(h.bufTx.iss, Rx!Size(h.bufRx))
        synack == [SEQ |-> h.scb.snd.UNA, ACK |-> h.scb.rcv.NXT, DATALEN |-> 0,
                   WND |-> Rx!Free(h.bufRx), Flags |-> CB!synack]
        again == awaitingSyn \/ (h.requeueControl /\ h.scb.state = "SynSent")
    IN  IF again \/ (h.requeueControl /\ h.scb.state = "SynRcvd")
        THEN emit(h, IF again THEN syn ELSE synack, <<>>, room, now)
        ELSE IF h.requeueControl THEN Nothing([h EXCEPT !.requeueControl = FALSE], "nil")
        ELSE sendPending(h, room, now)

\* Send after the policy; closes if it is time to.
sendOrClose(h, room, now) ==
    LET c == CB!Close(h.scb)
        idle == /\ ~AwaitingSynSend(h) /\ ~h.requeueControl /\ ~h.closing
                /\ Tx!BufferedUnsent(h.bufTx) = 0 /\ ~CB!HasPending(h.scb)
    IN  IF idle THEN Nothing(h, "nil")
        ELSE IF closesNow(h) /\ ~CB!Ok(c) THEN Nothing(Abort(h), "EOF")
        ELSE sendNext(IF closesNow(h) THEN [h EXCEPT !.closing = FALSE, !.scb = c.tcb] ELSE h,
                      AwaitingSynSend(h), room, now)

\* room is what the caller's buffer leaves after a TCP header without options; the
\* policy reads its clock twice, before and after.
Send(h, room, before, now) ==
    IF IsTxOver(h) THEN Nothing(h, "closed")
    ELSE sendOrClose(withClosing(preTx(h, before)), room, now)

-----------------------------------------------------------------------------
(* Read and Write.                                                         *)

Write(h, b) ==
    LET w == Tx!Write(h.bufTx, b)
    IN  IF h.closing THEN Ret(h, "closing")
        ELSE IF ~CB!TxDataOpen(h.scb.state) THEN Ret(h, "closed")
        ELSE Ret([h EXCEPT !.bufTx = w.q], w.err)

Read(h, n) ==
    LET rd == Rx!Read(h.bufRx, n)
        s  == h.scb.state
        none == IF CB!IsClosed(s) THEN "closed" ELSE IF ~CB!RxDataOpen(s) THEN "EOF" ELSE "nil"
    IN  IF h.shutdownRx THEN [h |-> h, err |-> "EOF", data |-> <<>>]
        ELSE IF Rx!Buffered(h.bufRx) = 0 \/ rd.data = <<>>
        THEN [h |-> h, err |-> none, data |-> <<>>]
        ELSE [h |-> maybeQueueWindowUpdate(deliverReassembled([h EXCEPT !.bufRx = rd.ring])),
              err |-> "nil", data |-> rd.data]
=============================================================================
