--------------------------------- MODULE UDP ----------------------------------
(***************************************************************************)
(* udp.Handler and the udp.Conn around it (udp/handler.go, udp/conn.go): a *)
(* connected datagram socket.  Payloads lie one after the other in a ring, *)
(* and a queue holds their lengths.  Each section of Conn that holds the   *)
(* mutex is one operator, which returns the connection it leaves.  A frame *)
(* keeps its addresses and ports, whether its length field is right (bad)  *)
(* and its payload.                                                        *)
(***************************************************************************)
EXTENDS Integers, Sequences

LOCAL R == INSTANCE Ring
LOCAL F == INSTANCE FiniteSetsExt

sizeHeader == 8
NoDeadline == -1

newRing(size) == [Buf |-> [i \in 1 .. size |-> 0], Off |-> 0, End |-> 0]

\* A configuration: the sizes of the buffers and of the queues.
validConfig(cfg) == cfg.rx >= sizeHeader /\ cfg.tx >= sizeHeader /\ cfg.rxq > 0 /\ cfg.txq > 0

ZeroConn ==
    [kind |-> "udp", connid |-> 0, rxRing |-> newRing(0), rxDgrams |-> <<>>, rxCap |-> 0,
     txRing |-> newRing(0), txDgrams |-> <<>>, txCap |-> 0, closeCalled |-> FALSE,
     lport |-> 0, rport |-> 0, remoteAddr |-> "none", rdead |-> NoDeadline, wdead |-> NoDeadline]

\* Conn.abort and Handler.Abort: buffers stay, what they hold is gone.
Abort(c) ==
    [c EXCEPT !.connid = @ + 1, !.rxRing = R!Reset(@), !.txRing = R!Reset(@),
              !.rxDgrams = <<>>, !.txDgrams = <<>>, !.closeCalled = FALSE, !.lport = 0, !.rport = 0,
              !.rdead = NoDeadline, !.wdead = NoDeadline, !.remoteAddr = "none"]

\* A connection that is refused its configuration is aborted all the same.
Configure(c, cfg) ==
    LET a == Abort(c)
    IN  IF ~validConfig(cfg) THEN [c |-> a, err |-> "invalidConfig"]
        ELSE [c |-> [a EXCEPT !.connid = @ + 1, !.rxRing = newRing(cfg.rx), !.txRing = newRing(cfg.tx),
                              !.rxCap = F!Max({@, cfg.rxq}), !.txCap = F!Max({@, cfg.txq})],
              err |-> "nil"]

IsOpen(c) == ~c.closeCalled /\ c.lport > 0

\* Open, with SetPorts; a connection that was closed stays closed.
Open(c, localPort, addr, port) ==
    IF IsOpen(c) THEN [c |-> c, err |-> "stillOpen"]
    ELSE IF localPort = 0 THEN [c |-> c, err |-> "zeroSource"]
    ELSE IF port = 0 THEN [c |-> c, err |-> "zeroDestination"]
    ELSE [c |-> [c EXCEPT !.lport = localPort, !.rport = port, !.remoteAddr = addr], err |-> "nil"]

Close(c) == [c EXCEPT !.closeCalled = TRUE]

\* Conn.Demux and Handler.Recv.
Demux(c, f) ==
    LET w == R!Write(c.rxRing, f.payload)
    IN  IF c.closeCalled THEN [c |-> c, err |-> "closed"]
        ELSE IF f.dport # c.lport \/ f.sport # c.rport THEN [c |-> c, err |-> "mismatch"]
        ELSE IF f.bad # "nil" THEN [c |-> c, err |-> f.bad]
        ELSE IF Len(c.rxDgrams) = c.rxCap THEN [c |-> c, err |-> "exhausted"]
        ELSE IF w.err # "nil" THEN [c |-> c, err |-> w.err]
        ELSE [c |-> [c EXCEPT !.rxRing = w.ring, !.rxDgrams = Append(@, Len(f.payload))], err |-> "nil"]

\* Conn.Encapsulate and Handler.Send, into a frame with room for that much payload.
Encapsulate(c, room) ==
    LET rd == R!Read(c.txRing, Head(c.txDgrams))
        none(err) == [c |-> c, err |-> err, frames |-> <<>>]
    IN  IF c.closeCalled THEN none("closed")
        ELSE IF c.txDgrams = <<>> THEN none("nil")
        ELSE IF room < Head(c.txDgrams) THEN none("shortBuffer")
        ELSE IF rd.err # "nil" \/ Len(rd.data) # Head(c.txDgrams) THEN none("panic")
        ELSE [c |-> [c EXCEPT !.txRing = rd.ring, !.txDgrams = Tail(@)], err |-> "nil",
              frames |-> <<[sport |-> c.lport, dport |-> c.rport, to |-> c.remoteAddr, payload |-> rd.data]>>]

\* Handler.Write.
write(c, b) ==
    LET w == R!Write(c.txRing, b)
    IN  IF Len(c.txDgrams) = c.txCap THEN [c |-> c, n |-> 0, err |-> "exhausted"]
        ELSE IF w.err # "nil" THEN [c |-> c, n |-> 0, err |-> w.err]
        ELSE [c |-> [c EXCEPT !.txRing = w.ring, !.txDgrams = Append(@, Len(b))], n |-> Len(b), err |-> "nil"]

\* Mutant: the rest of a datagram that was read in part stays in the ring.
ReadNextMutant(c, size) ==
    LET len == Head(c.rxDgrams)
        rd  == R!Read(c.rxRing, F!Min({size, len}))
    IN  IF c.rxDgrams = <<>> THEN [c |-> c, data |-> <<>>, err |-> "nil"]
        ELSE [c |-> [c EXCEPT !.rxRing = rd.ring, !.rxDgrams = Tail(@)], data |-> rd.data, err |-> "nil"]

\* The next datagram, up to size bytes of it; what does not fit is discarded.
ReadNext(c, size) ==
    LET len == Head(c.rxDgrams)
        rd  == R!Read(c.rxRing, F!Min({size, len}))
        ds  == R!ReadDiscard(rd.ring, len - size)
        rest == IF len > size THEN ds ELSE [ring |-> rd.ring, err |-> "nil"]
    IN  IF c.rxDgrams = <<>> THEN [c |-> c, data |-> <<>>, err |-> "nil"]
        ELSE IF rd.err # "nil" \/ rest.err # "nil" THEN [c |-> c, data |-> <<>>, err |-> "panic"]
        ELSE [c |-> [c EXCEPT !.rxRing = rest.ring, !.rxDgrams = Tail(@)], data |-> rd.data, err |-> "nil"]

BufferedInput(c) == R!Buffered(c.rxRing)

\* What Read and Write begin with: the identifier of the connection they are for.
lockPipeConnID(c) ==
    IF c.closeCalled /\ c.rxDgrams = <<>> THEN [id |-> 0, err |-> "closed"] ELSE [id |-> c.connid, err |-> "nil"]

\* One turn of the loop in Write; it ends the call unless wait.
writeTurn(c, id, b) ==
    LET w == write(c, b)
    IN  IF c.closeCalled \/ id # c.connid THEN [c |-> c, wait |-> FALSE, err |-> "closed", n |-> 0]
        ELSE [c |-> w.c, wait |-> w.n = 0, err |-> w.err, n |-> w.n]

\* One turn of the loop in Read.
readTurn(c, id, size) ==
    LET rd == ReadNext(c, size)
    IN  IF (c.closeCalled /\ BufferedInput(c) = 0) \/ id # c.connid
        THEN [c |-> c, wait |-> FALSE, err |-> "closed", data |-> <<>>]
        ELSE [c |-> rd.c, wait |-> rd.data = <<>> /\ rd.err = "nil", err |-> rd.err, data |-> rd.data]

\* SetDeadline, SetReadDeadline and SetWriteDeadline; sides says which.
SetDeadline(c, sides, t) ==
    IF c.closeCalled THEN c
    ELSE [c EXCEPT !.rdead = IF "r" \in sides THEN t ELSE @, !.wdead = IF "w" \in sides THEN t ELSE @]

deadlineExceeded(deadline, now) == deadline # NoDeadline /\ now > deadline

-----------------------------------------------------------------------------
(***************************************************************************)
(* udp.muxHandler and the udp.PacketConn around it (udp/mux.go,            *)
(* udp/packetconn.go): a datagram socket that names the peer of each       *)
(* datagram.  Frames are those of udp.Conn; of an address it matters       *)
(* which family it has.                                                    *)
(***************************************************************************)

CONSTANT Addrs6      \* the addresses that are of IP version 6

portMod == 65536

ZeroPacketConn ==
    [kind |-> "packet", connid |-> 0, filterLPorts |-> <<>>,
     rxRing |-> newRing(0), rxDgrams |-> <<>>, rxCap |-> 0,
     txRing |-> newRing(0), txDgrams |-> <<>>, txCap |-> 0, closeCalled |-> FALSE,
     lport |-> 0, rdead |-> NoDeadline, wdead |-> NoDeadline]

\* muxHandler.Abort and PacketConn.abort; lport is the port of localAddr.
muxAbort(m) ==
    [m EXCEPT !.connid = @ + 1, !.filterLPorts = <<>>, !.rxRing = R!Reset(@), !.txRing = R!Reset(@),
              !.rxDgrams = <<>>, !.txDgrams = <<>>, !.closeCalled = FALSE,
              !.lport = 0, !.rdead = NoDeadline, !.wdead = NoDeadline]

\* muxHandler.Configure, which aborts what PacketConn.Configure aborted before.
muxConfigure(m, cfg) ==
    LET a == muxAbort(m)
    IN  IF ~validConfig(cfg) THEN [c |-> a, err |-> "invalidConfig"]
        ELSE [c |-> [muxAbort(a) EXCEPT !.rxRing = newRing(cfg.rx), !.txRing = newRing(cfg.tx),
                                        !.rxCap = F!Max({@, cfg.rxq}), !.txCap = F!Max({@, cfg.txq})],
              err |-> "nil"]

FilterAddLocalPort(m, startPort, nports) ==
    IF startPort + nports > portMod - 1 THEN [c |-> m, err |-> "panic"]
    ELSE [c |-> [m EXCEPT !.filterLPorts = Append(@, [start |-> startPort, n |-> nports])], err |-> "nil"]

\* Whether the port is kept out.
FilterLocalPort(m, lport) ==
    /\ m.filterLPorts # <<>>
    /\ \A i \in DOMAIN m.filterLPorts :
          LET f == m.filterLPorts[i] IN lport < f.start \/ lport >= (f.start + f.n) % portMod

\* PacketConn.Open.
muxOpen(m, localPort) ==
       IF m.lport # 0 THEN [c |-> m, err |-> "stillOpen"]
       ELSE IF localPort = 0 THEN [c |-> m, err |-> "zeroSource"]
       ELSE FilterAddLocalPort([m EXCEPT !.lport = localPort, !.filterLPorts = <<>>], localPort, 1)

muxClose(m) == [m EXCEPT !.closeCalled = TRUE]

muxDemux(m, f) ==
    LET w == R!Write(m.rxRing, f.payload)
        d == [length |-> Len(f.payload), lport |-> f.dport, rport |-> f.sport, raddr |-> f.src]
    IN  IF m.closeCalled THEN [c |-> m, err |-> "closed"]
        ELSE IF FilterLocalPort(m, f.dport) THEN [c |-> m, err |-> "mismatch"]
        ELSE IF f.bad # "nil" THEN [c |-> m, err |-> f.bad]
        ELSE IF Len(m.rxDgrams) = m.rxCap THEN [c |-> m, err |-> "exhausted"]
        ELSE IF w.err # "nil" THEN [c |-> m, err |-> w.err]
        ELSE [c |-> [m EXCEPT !.rxRing = w.ring, !.rxDgrams = Append(@, d)], err |-> "nil"]

\* A datagram that is too long for the frame is discarded whole.
tooLong(m, d) == [m EXCEPT !.txDgrams = Tail(@), !.txRing = R!ReadDiscard(@, d.length).ring]

\* Encapsulate, on IP version 4; a datagram for the other version is taken off the queue and lost.
muxEncapsulate(m, room) ==
    LET d    == Head(m.txDgrams)
        rd   == R!Read(m.txRing, d.length)
        sent == [m EXCEPT !.txDgrams = Tail(@), !.txRing = rd.ring]
        none(n, err) == [c |-> n, err |-> err, frames |-> <<>>]
    IN  IF m.closeCalled THEN none(m, "closed")
        ELSE IF m.txDgrams = <<>> THEN none(m, "nil")
        ELSE IF room < d.length THEN none(tooLong(m, d), "shortBuffer")
        ELSE IF rd.err # "nil" \/ Len(rd.data) # d.length THEN none(m, "panic")
        ELSE IF d.raddr \in Addrs6 THEN none(sent, "unsupported")
        ELSE [c |-> sent, err |-> "nil",
              frames |-> <<[sport |-> d.lport, dport |-> d.rport, to |-> d.raddr, payload |-> rd.data]>>]

\* muxHandler.WriteTo.
WriteTo(m, b, lport, raddr, rport) ==
    LET w == R!Write(m.txRing, b)
        d == [length |-> Len(b), lport |-> lport, rport |-> rport, raddr |-> raddr]
    IN  IF m.closeCalled THEN [c |-> m, err |-> "closed"]
        ELSE IF rport = 0 THEN [c |-> m, err |-> "zeroDestination"]
        ELSE IF lport = 0 THEN [c |-> m, err |-> "zeroSource"]
        ELSE IF Len(m.txDgrams) = m.txCap THEN [c |-> m, err |-> "exhausted"]
        ELSE IF R!Free(m.txRing) < Len(b) THEN [c |-> m, err |-> "bufferFull"]
        ELSE IF w.err # "nil" THEN [c |-> m, err |-> "bug"]
        ELSE [c |-> [m EXCEPT !.txRing = w.ring, !.txDgrams = Append(@, d)], err |-> "nil"]

muxReadNext(m, size) ==
    LET d  == Head(m.rxDgrams)
        rd == R!Read(m.rxRing, F!Min({d.length, size}))
        n  == Len(rd.data)
    IN  IF m.rxDgrams = <<>> THEN [c |-> m, data |-> <<>>, from |-> "none"]
        ELSE [c |-> [m EXCEPT !.rxDgrams = Tail(@),
                              !.rxRing = IF n < d.length THEN R!ReadDiscard(rd.ring, d.length - n).ring
                                         ELSE rd.ring],
              data |-> rd.data, from |-> d.raddr]

muxBufferedInput(m) == R!Buffered(m.rxRing)

lockConnID(m) ==
    IF m.closeCalled /\ muxBufferedInput(m) = 0 THEN [id |-> 0, err |-> "closed"] ELSE [id |-> m.connid, err |-> "nil"]

\* One turn of the loop in ReadFrom.
muxReadTurn(m, id, size) ==
    LET rd == muxReadNext(m, size)
    IN  IF (m.closeCalled /\ muxBufferedInput(m) = 0) \/ id # m.connid
        THEN [c |-> m, wait |-> FALSE, err |-> "closed", data |-> <<>>, from |-> "none"]
        ELSE [c |-> rd.c, wait |-> rd.data = <<>>, err |-> "nil", data |-> rd.data, from |-> rd.from]

\* Mutant: a closed socket is waited for.
muxWriteTurnMutant(m, id, b, raddr, rport) ==
    LET w == WriteTo(m, b, m.lport, raddr, rport)
    IN  [c |-> w.c, wait |-> w.err \in {"exhausted", "bufferFull", "closed"}, err |-> w.err,
         n |-> IF w.err = "nil" THEN Len(b) ELSE 0]

\* One turn of the loop in PacketConn.WriteTo: it waits for room and for nothing else.
muxWriteTurn(m, id, b, raddr, rport) ==
    LET w == WriteTo(m, b, m.lport, raddr, rport)
    IN  IF m.closeCalled \/ id # m.connid THEN [c |-> m, wait |-> FALSE, err |-> "closed", n |-> 0]
        ELSE [c |-> w.c, wait |-> w.err \in {"exhausted", "bufferFull"}, err |-> w.err,
              n |-> IF w.err = "nil" THEN Len(b) ELSE 0]
=============================================================================
