------------------------------ MODULE MCSockets -----------------------------
(* Small sockets and short programs for Sockets.                           *)
EXTENDS Sockets, Bitwise

MCScrambleIRS(irs) == irs ^^ (58957 % SeqMod)

C(op) == [op |-> op, s |-> "s1", fd |-> 0, data |-> <<>>, size |-> 0, to |-> "peer", port |-> 0, sides |-> {}]
Rd(size) == [C("Read") EXCEPT !.size = size]
Wr(n, tag) == [C("Write") EXCEPT !.data = [i \in 1 .. n |-> 10 * tag + i], !.port = 2]
WrTo(n, tag, to) == [Wr(n, tag) EXCEPT !.to = to]
Limit(sides) == [C("SetDeadline") EXCEPT !.sides = sides]
Fd(op, fd) == [C(op) EXCEPT !.fd = fd]

Frame(n, tag) ==
    [src |-> "peer", sport |-> 2, dport |-> 7, bad |-> "nil", payload |-> [i \in 1 .. n |-> 10 * tag + i]]

Cfg == [rx |-> 8, tx |-> 8, rxq |-> 2, txq |-> 2]
Udp == U!Open(U!Configure(U!ZeroConn, Cfg).c, 7, "peer", 2).c
Packet == U!muxOpen(U!muxConfigure(U!ZeroPacketConn, Cfg).c, 7).c

Base ==
    [tcp |-> FALSE, socks |-> [s1 |-> Udp], registered |-> <<"s1">>, nodes |-> 2, cfg |-> Cfg, room |-> 6,
     frames |-> <<>>, ready |-> 0, peer |-> [rx |-> 2, writes |-> 0, closes |-> FALSE, reads |-> TRUE],
     prog |-> [a |-> <<>>]]

\* Three readers, frames that do not fit, are empty, malformed or for another port, and a close.
Readers ==
    [Base EXCEPT !.frames = <<Frame(3, 1), Frame(6, 2), Frame(2, 3), [Frame(1, 4) EXCEPT !.sport = 3],
                              [Frame(1, 5) EXCEPT !.bad = "truncated"], Frame(0, 6), Frame(4, 7)>>,
                 !.prog = [a |-> <<Rd(8), Rd(2)>>, b |-> <<Rd(2)>>, c |-> <<C("Close")>>]]

\* The socket is aborted, set up again and opened again under its readers.
Reopened ==
    [Base EXCEPT !.frames = <<Frame(3, 1), Frame(2, 2), Frame(4, 3)>>,
                 !.prog = [a |-> <<Rd(2), Rd(8)>>, b |-> <<Wr(3, 1)>>,
                           c |-> <<C("Abort"), C("Configure"), [C("Dial") EXCEPT !.port = 7], C("Close")>>]]

\* Two writers, more than the queue and the ring hold, and one datagram that no frame takes.
Writers ==
    [Base EXCEPT !.prog = [a |-> <<Wr(3, 1), Wr(4, 2)>>, b |-> <<Wr(2, 3), Wr(7, 4)>>,
                           c |-> <<Limit({"w"}), Wr(5, 5)>>]]

\* A packet socket writes to two families, and one datagram is too long.
Packets ==
    [Base EXCEPT !.socks = [s1 |-> Packet], !.room = 4, !.frames = <<Frame(3, 1), Frame(6, 2), Frame(2, 3)>>,
                 !.prog = [a |-> <<WrTo(3, 1, "peer"), WrTo(5, 2, "peer"), WrTo(2, 3, "peer6")>>,
                           b |-> <<Rd(2), WrTo(3, 4, "peer")>>, c |-> <<Rd(8), C("Close")>>]]

\* A packet socket is set up again and listens again; a second one wants its port.
Listens ==
    [Base EXCEPT !.socks = [s1 |-> Packet, s2 |-> U!muxConfigure(U!ZeroPacketConn, Cfg).c],
                 !.frames = <<Frame(3, 1), Frame(2, 2)>>,
                 !.prog = [a |-> <<Rd(8)>>,
                           b |-> <<C("Abort"), [C("Listen") EXCEPT !.port = 7], Limit({"r", "w"})>>,
                           c |-> <<[C("Listen") EXCEPT !.s = "s2", !.port = 7], [Limit({"r"}) EXCEPT !.s = "s2"],
                                   [Rd(8) EXCEPT !.s = "s2"]>>]]

Tcp == [Base EXCEPT !.tcp = TRUE, !.registered = <<>>, !.room = 2]

\* Two writers and a close, on a connection with room for two bytes.
Streams ==
    [Tcp EXCEPT !.prog = [a |-> <<Wr(3, 1)>>, b |-> <<Wr(2, 2), C("Flush")>>, c |-> <<C("Close")>>]]

\* The peer does not read: who waits for room or for the lock has a deadline.
Stalled ==
    [Tcp EXCEPT !.peer.reads = FALSE,
                !.prog = [a |-> <<Wr(5, 1)>>, b |-> <<C("Flush")>>, c |-> <<Limit({"r", "w"}), Rd(1)>>]]

\* Two readers, and a peer that writes three bytes and closes.
Ends ==
    [Tcp EXCEPT !.peer.writes = 3, !.peer.closes = TRUE,
                !.prog = [a |-> <<Rd(2), Rd(2)>>, b |-> <<Rd(1)>>]]

\* This side closes while it still reads, and the peer writes two bytes and closes after it.
HalfClosed ==
    [Tcp EXCEPT !.peer.writes = 2, !.peer.closes = TRUE,
                !.prog = [a |-> <<Rd(1), Rd(2), Rd(1)>>, b |-> <<C("Close")>>]]

\* The connection is aborted and dialled again under its readers.
Redialled ==
    [Tcp EXCEPT !.peer.writes = 1, !.peer.closes = TRUE,
                !.prog = [a |-> <<Rd(2)>>, b |-> <<Rd(1), C("CloseRead")>>, c |-> <<C("Abort"), C("Dial")>>]]

\* Descriptors are connected, used and closed by three callers.
Fds ==
    [Base EXCEPT !.socks = <<>>, !.registered = <<>>, !.nodes = 1,
                 !.prog = [a |-> <<[C("Socket") EXCEPT !.s = "udp"], Fd("Connect", 3),
                                   [Fd("Send", 3) EXCEPT !.data = <<1>>],
                                   [Fd("Recv", 3) EXCEPT !.size = 2, !.sides = {"r"}]>>,
                           b |-> <<Fd("CloseFD", 3), Fd("CloseFD", 4)>>,
                           c |-> <<[C("Socket") EXCEPT !.s = "udp"], Fd("Bind", 4), Fd("Connect", 4)>>]]

\* A listener accepts while others close it and what it accepted.
Accepts ==
    [Base EXCEPT !.socks = <<>>, !.registered = <<>>, !.ready = 1,
                 !.prog = [a |-> <<[C("Socket") EXCEPT !.s = "tcp"], [Fd("Bind", 3) EXCEPT !.port = 9],
                                   Fd("ListenFD", 3), Fd("Accept", 3), Fd("CloseFD", 3)>>,
                           b |-> <<Fd("CloseFD", 3), Fd("CloseFD", 5), Fd("Send", 5)>>,
                           c |-> <<[C("Socket") EXCEPT !.s = "tcp"], [Fd("Bind", 4) EXCEPT !.port = 9],
                                   Fd("ListenFD", 4), Fd("Connect", 4), Fd("Accept", 4)>>]]

\* Two calls connect one descriptor and a third listens on it; two close it.
Raced ==
    [Base EXCEPT !.socks = <<>>, !.registered = <<>>,
                 !.prog = [a |-> <<[C("Socket") EXCEPT !.s = "tcp"], Fd("Connect", 3), Fd("CloseFD", 3)>>,
                           b |-> <<Fd("Connect", 3), Fd("Send", 3)>>,
                           c |-> <<Fd("ListenFD", 3), Fd("CloseFD", 3)>>]]

Used == {Readers, Reopened, Writers, Packets, Listens, Streams, Stalled, Ends, HalfClosed, Redialled, Fds,
         Accepts, Raced}
=============================================================================
