------------------------------ MODULE Sockets -------------------------------
(***************************************************************************)
(* The blocking sockets of the stack and their callers: udp.Conn,          *)
(* udp.PacketConn, tcp.Conn, the Go interface that opens them              *)
(* (x/xnet/stack-go.go) and the descriptors above it (Berkeley).  Several  *)
(* callers, each with its list of calls, use the sockets at the same time; *)
(* a call goes from one section under a mutex to the next, and anything    *)
(* may happen in between.  The stack polls the sockets and hands them      *)
(* frames.  A TCP connection has a peer across a perfect network.          *)
(***************************************************************************)
EXTENDS Handler, Integers, Sequences, FiniteSets, TLC

CONSTANTS
    Addrs6,       \* the addresses of IP version 6
    Scenarios,    \* the settings to run with
    MaxTime,      \* where the clock stops: no fewer than the deadlines that are set
    EphPorts      \* how many ephemeral ports there are, 16384 in the code

U == INSTANCE UDP
T == INSTANCE NodeTable
LOCAL Sq == INSTANCE SequencesExt

-----------------------------------------------------------------------------
(***************************************************************************)
(* The blocking calls of tcp.Conn (tcp/conn.go) on its handler.  Each      *)
(* section that holds the mutex, and each operation on the atomic write    *)
(* lock, is one operator: the calls below are put together from them.      *)
(* The write lock holds the identifier of the connection whose writer has  *)
(* it, or 0.                                                               *)
(***************************************************************************)

NoDeadline == -1

\* A configured connection that was never opened.
newTCPConn(tx, rx) ==
    [kind |-> "tcp", h |-> NewHandler(tx, rx, 2, NoPolicy), writeLock |-> 0,
     rdead |-> NoDeadline, wdead |-> NoDeadline]

\* Conn.reset.
resetConn(c, h) == [c EXCEPT !.h = h, !.writeLock = 0, !.rdead = NoDeadline, !.wdead = NoDeadline]

connAbort(c) == resetConn(c, Abort(c.h))

connOpenActive(c, lport, rport, iss) ==
    LET o == OpenActive(c.h, lport, rport, iss) IN IF o.err = "nil" THEN resetConn(c, o.h) ELSE c

\* checkPipeOpen; nothing sets abortErr.
checkPipeOpen(c) == ~CB!IsClosed(c.h.scb.state)

CloseRead(c) == IF checkPipeOpen(c) THEN [c EXCEPT !.h = ShutdownRead(@)] ELSE c

connSetDeadline(c, sides, t) ==
    IF ~checkPipeOpen(c) THEN c
    ELSE [c EXCEPT !.rdead = IF "r" \in sides THEN t ELSE @, !.wdead = IF "w" \in sides THEN t ELSE @]

exceeded(deadline, now) == deadline # NoDeadline /\ now > deadline

checkPipe(c, id, deadline, now) ==
    IF id # c.h.connid \/ CB!IsClosed(c.h.scb.state) THEN "closed"
    ELSE IF exceeded(deadline, now) THEN "deadline" ELSE "nil"

\* Mutant: the lock is there for whoever comes.
swapLockMutant(c, id) == [c |-> [c EXCEPT !.writeLock = id], ok |-> TRUE]

\* The compare-and-swap of acquireWriteLock.
swapLock(c, id) ==
    IF c.writeLock = 0 THEN [c |-> [c EXCEPT !.writeLock = id], ok |-> TRUE] ELSE [c |-> c, ok |-> FALSE]

releaseWriteLock(c, id) == IF c.writeLock = id THEN [c EXCEPT !.writeLock = 0] ELSE c

min(a, b) == IF a < b THEN a ELSE b

\* What the loop of Write does under the mutex with the bytes that are left.
writeTurn(c, b) ==
    LET n == min(Tx!Free(c.h.bufTx), Len(b))
        w == Write(c.h, SubSeq(b, 1, n))
    IN  IF n = 0 THEN [c |-> c, n |-> 0, err |-> "nil", wait |-> TRUE]
        ELSE IF w.err \notin {"nil", "full"} THEN [c |-> c, n |-> 0, err |-> w.err, wait |-> FALSE]
        ELSE [c |-> [c EXCEPT !.h = w.h], n |-> n, err |-> "nil", wait |-> FALSE]

unsent(c) == Tx!BufferedUnsent(c.h.bufTx)

\* One turn of the loop of Read, with room for size more bytes after n.
readTurn(c, id, size, n) ==
    LET rd == Read(c.h, size)
        st == c.h.scb.state
        ends(err) == [c |-> c, data |-> <<>>, err |-> err, next |-> "end"]
    IN  IF id # c.h.connid THEN ends("closed")
        ELSE IF Rx!Buffered(c.h.bufRx) > 0
        THEN [c |-> [c EXCEPT !.h = rd.h], data |-> rd.data, err |-> rd.err,
              next |-> IF rd.err # "nil" \/ Len(rd.data) = size THEN "end" ELSE "again"]
        ELSE IF n > 0 THEN ends("nil")
        ELSE IF CB!IsClosed(st) THEN ends("closed")
        ELSE IF ~CB!RxDataOpen(st) \/ c.h.shutdownRx THEN ends("EOF")
        ELSE [c |-> c, data |-> <<>>, err |-> "nil", next |-> "wait"]

-----------------------------------------------------------------------------
(***************************************************************************)
(* xnet.StackBerkeley (x/xnet/stack-berkeley.go): file descriptors for the *)
(* sockets of the Go interface.  A descriptor is pending until Connect or  *)
(* Listen promotes it.  Each section that holds the mutex is an operator.  *)
(***************************************************************************)

NewBerkeleyStack == [nextFD |-> 3, pending |-> <<>>, listeners |-> <<>>, conns |-> <<>>]

\* Socket: a new pending descriptor, which is nextFD.
Socket(b, protocol) ==
    [b EXCEPT !.nextFD = @ + 1,
              !.pending = Append(@, [fd |-> b.nextFD, protocol |-> protocol, bound |-> 0])]

entryAt(socks, fd) == Sq!SelectInSeq(socks, LAMBDA s : s.fd = fd)

isvalid(socks, fd) == entryAt(socks, fd) # 0
getFD(socks, fd) == socks[entryAt(socks, fd)]
deleteFD(socks, fd) == SelectSeq(socks, LAMBDA s : s.fd # fd)

\* Bind keeps the port of the local address.
Bind(b, fd, port) ==
    IF ~isvalid(b.pending, fd) THEN b ELSE [b EXCEPT !.pending[entryAt(b.pending, fd)].bound = port]

\* Mutant: the descriptor stays pending.
connectedMutant(b, fd, sock) == [b EXCEPT !.conns = Append(@, [fd |-> fd, sock |-> sock])]

\* The last section of Connect.
connected(b, fd, sock) ==
    [b EXCEPT !.pending = deleteFD(@, fd), !.conns = Append(@, [fd |-> fd, sock |-> sock])]

\* The last section of Listen.
listening(b, fd, sock) ==
    [b EXCEPT !.pending = deleteFD(@, fd), !.listeners = Append(@, [fd |-> fd, sock |-> sock])]

\* The last section of Accept: the connection has a descriptor of its own.
acceptedAs(b, sock) ==
    [b EXCEPT !.nextFD = @ + 1, !.conns = Append(@, [fd |-> b.nextFD, sock |-> sock])]

\* The last section of Close, by the table the descriptor was found in.
closedIn(b, table, fd) ==
    IF table = "conns" THEN [b EXCEPT !.conns = deleteFD(@, fd)]
    ELSE [b EXCEPT !.listeners = deleteFD(@, fd)]

\* What Close finds first: conns, then listeners, then pending.
tableOf(b, fd) ==
    IF isvalid(b.conns, fd) THEN "conns"
    ELSE IF isvalid(b.listeners, fd) THEN "listeners"
    ELSE IF isvalid(b.pending, fd) THEN "pending" ELSE "none"

-----------------------------------------------------------------------------
VARIABLES
    scn,      \* the scenario: sockets, programs of the callers, frames to come
    socks,    \* the sockets, by name
    table,    \* the nodes of the UDP stack
    bk,       \* the descriptors
    at,       \* where each caller is: the call, the step in it and its locals
    ret,      \* what each caller's calls returned
    peer,     \* the peer of the TCP connection, with what it has left to do
    frames,   \* the UDP frames still to arrive
    now,      \* the time
    ephPort,  \* what the next ephemeral port is counted from
    hist      \* what went in and out, for the properties

vars == <<scn, socks, table, bk, at, ret, peer, frames, now, ephPort, hist>>

Callers == DOMAIN scn.prog
Conn == "t"    \* the name of the TCP connection

fresh(k) == [k |-> k, step |-> "start", id |-> 0, s |-> "none", n |-> 0, data |-> <<>>, err |-> "nil", table |-> "none"]

\* One frame each way between the connection's handler and its peer's.
exchange(x) ==
    LET a == Send(x.h, scn.room, -1, 0)
        p == IF a.frames = <<>> THEN x.g ELSE Recv(x.g, a.frames[1], 0).h
        b == Send(p, scn.room, -1, 0)
    IN  [h |-> IF b.frames = <<>> THEN a.h ELSE Recv(a.h, b.frames[1], 0).h, g |-> b.h]

lport == 1
rport == 2
dialled(c) == connOpenActive(c, lport, rport, 13 % SeqMod)
waiting == OpenListen(NewHandler(2, scn.peer.rx, 2, NoPolicy), rport, 5 % SeqMod).h

idOf(k) == IF k.kind \in {"udp", "packet"} THEN k.connid ELSE 0
ids(all) == [s \in DOMAIN all |-> idOf(all[s])]

node(all, s) == [who |-> s, id |-> idOf(all[s]), proto |-> 17, lport |-> all[s].lport]
register(tab, all, s) == T!registerByPortProto(tab, node(all, s), ids(all))

\* Each socket of the scenario is as the scenario has it; a TCP connection is the only socket, and
\* established with its peer.
Init ==
    /\ scn \in Scenarios
    /\ \E c \in {dialled(newTCPConn(2, 2))} :
       \E x \in {IF scn.tcp THEN exchange([h |-> c.h, g |-> waiting]) ELSE [h |-> 0, g |-> 0]} :
       \E y \in {IF scn.tcp THEN exchange(x) ELSE x} :
          /\ socks = IF scn.tcp THEN (Conn :> [c EXCEPT !.h = y.h]) ELSE scn.socks
          /\ peer = [h |-> y.g, left |-> scn.peer.writes, closes |-> scn.peer.closes, said |-> <<>>, heard |-> <<>>]
    /\ table = Sq!FoldLeft(LAMBDA t, s : register(t, socks, s).tab, T!newTable(scn.nodes), scn.registered)
    /\ bk = NewBerkeleyStack
    /\ at = [c \in Callers |-> fresh(1)]
    /\ ret = [c \in Callers |-> <<>>]
    /\ frames = scn.frames
    /\ now = 0
    /\ ephPort = 1
    /\ hist = [in |-> <<>>, got |-> <<>>, wrote |-> <<>>, out |-> <<>>, stream |-> <<>>,
               made |-> {}, filed |-> <<>>]

-----------------------------------------------------------------------------
(* Calls.                                                                  *)

busy(c) == at[c].k <= Len(scn.prog[c])
cur(c) == scn.prog[c][at[c].k]
step(c, op, st) == busy(c) /\ cur(c).op \in op /\ at[c].step = st

\* The socket the call is about: its own, or the one its descriptor stands for.
on(c) == IF at[c].s # "none" THEN at[c].s ELSE cur(c).s
sk(c) == socks[on(c)]
is(c, kinds) == on(c) \in DOMAIN socks /\ sk(c).kind \in kinds

returns(c, err, data, n) ==
    /\ at' = [at EXCEPT ![c] = fresh(at[c].k + 1)]
    /\ ret' = [ret EXCEPT ![c] = Append(@, [op |-> cur(c).op, err |-> err, data |-> data, n |-> n])]
goes(c, st) == at' = [at EXCEPT ![c].step = st] /\ UNCHANGED ret
sets(c, k) == socks' = [socks EXCEPT ![on(c)] = k]

reads == {"Read", "Recv"}
writes == {"Write", "Send"}
entry(c) == \/ step(c, {"Read", "Write"}, "start") \/ step(c, {"Recv", "Send"}, "enter")

-----------------------------------------------------------------------------
(* Datagram sockets.                                                       *)

locked(k) == IF k.kind = "udp" THEN U!lockPipeConnID(k) ELSE U!lockConnID(k)

\* Read, Write, ReadFrom and WriteTo begin.
DgEnter(c) ==
    /\ entry(c) /\ is(c, {"udp", "packet"})
    /\ IF cur(c).op \in writes /\ cur(c).data = <<>> THEN returns(c, "nil", <<>>, 0)
       ELSE IF locked(sk(c)).err # "nil" THEN returns(c, "closed", <<>>, 0)
       ELSE at' = [at EXCEPT ![c].step = "turn", ![c].id = locked(sk(c)).id] /\ UNCHANGED ret
    /\ UNCHANGED <<scn, socks, table, bk, peer, frames, now, ephPort, hist>>

turnOf(c, k) ==
    IF cur(c).op \in reads
    THEN IF k.kind = "udp" THEN U!readTurn(k, at[c].id, cur(c).size)
         ELSE U!muxReadTurn(k, at[c].id, cur(c).size)
    ELSE IF k.kind = "udp" THEN U!writeTurn(k, at[c].id, cur(c).data)
    ELSE U!muxWriteTurn(k, at[c].id, cur(c).data, cur(c).to, cur(c).port)

\* What the caller now has, or gave.
tookTurn(c, k, r) ==
    IF r.wait \/ r.err # "nil" THEN hist
    ELSE IF cur(c).op \in reads
    THEN [hist EXCEPT !.got = Append(@, [s |-> on(c), id |-> at[c].id, size |-> cur(c).size, payload |-> r.data,
                                         from |-> IF k.kind = "udp" THEN "peer" ELSE r.from])]
    ELSE [hist EXCEPT !.wrote = Append(@, [s |-> on(c), id |-> at[c].id, payload |-> cur(c).data,
                                           to |-> IF k.kind = "udp" THEN "peer" ELSE cur(c).to])]

\* One turn of the loop, under the mutex.
DgTurn(c) ==
    /\ step(c, reads \cup writes, "turn") /\ is(c, {"udp", "packet"})
    /\ \E r \in {turnOf(c, sk(c))} :
          /\ sets(c, r.c)
          /\ hist' = tookTurn(c, sk(c), r)
          /\ IF r.wait THEN goes(c, "slow")
             ELSE IF cur(c).op \in reads THEN returns(c, r.err, r.data, Len(r.data))
             ELSE returns(c, r.err, <<>>, r.n)
    /\ UNCHANGED <<scn, table, bk, peer, frames, now, ephPort>>

\* The deadline is looked at in a section of its own; then the caller backs off.
DgSlow(c) ==
    /\ step(c, reads \cup writes, "slow") /\ is(c, {"udp", "packet"})
    /\ IF U!deadlineExceeded(IF cur(c).op \in reads THEN sk(c).rdead ELSE sk(c).wdead, now)
       THEN returns(c, "deadline", <<>>, 0) ELSE goes(c, "turn")
    /\ UNCHANGED <<scn, socks, table, bk, peer, frames, now, ephPort, hist>>

closed(k) == IF k.kind = "udp" THEN U!Close(k) ELSE U!muxClose(k)
aborted(k) == IF k.kind = "udp" THEN U!Abort(k) ELSE U!muxAbort(k)

DgClose(c) ==
    /\ step(c, {"Close"}, "start") /\ is(c, {"udp", "packet"})
    /\ sets(c, closed(sk(c))) /\ returns(c, "nil", <<>>, 0)
    /\ UNCHANGED <<scn, table, bk, peer, frames, now, ephPort, hist>>

DgAbort(c) ==
    /\ step(c, {"Abort"}, "start") /\ is(c, {"udp", "packet"})
    /\ sets(c, aborted(sk(c))) /\ returns(c, "nil", <<>>, 0)
    /\ UNCHANGED <<scn, table, bk, peer, frames, now, ephPort, hist>>

DgSetDeadline(c) ==
    /\ step(c, {"SetDeadline"}, "start") /\ is(c, {"udp", "packet"})
    /\ sets(c, U!SetDeadline(sk(c), cur(c).sides, now)) /\ returns(c, "nil", <<>>, 0)
    /\ UNCHANGED <<scn, table, bk, peer, frames, now, ephPort, hist>>

configured(k) == IF k.kind = "udp" THEN U!Configure(k, scn.cfg) ELSE U!muxConfigure(k, scn.cfg)

DgConfigure(c) ==
    /\ step(c, {"Configure"}, "start") /\ is(c, {"udp", "packet"})
    /\ \E r \in {configured(sk(c))} : sets(c, r.c) /\ returns(c, r.err, <<>>, 0)
    /\ UNCHANGED <<scn, table, bk, peer, frames, now, ephPort, hist>>

\* PacketConn.Open, before RegisterListenerUDP.
DgOpen(c) ==
    /\ step(c, {"Listen"}, "start") /\ is(c, {"packet"})
    /\ \E r \in {U!muxOpen(sk(c), cur(c).port)} :
          /\ sets(c, r.c)
          /\ IF r.err = "nil" THEN goes(c, "register") ELSE returns(c, r.err, <<>>, 0)
    /\ UNCHANGED <<scn, table, bk, peer, frames, now, ephPort, hist>>

DgRegister(c) ==
    /\ step(c, {"Listen"}, "register")
    /\ \E r \in {register(table, socks, on(c))} : table' = r.tab /\ returns(c, r.err, <<>>, 0)
    /\ UNCHANGED <<scn, socks, bk, peer, frames, now, ephPort, hist>>

\* DialUDP4 once the peer's hardware address is asked for: a connection that cannot be registered
\* is aborted.
dialUDP(tab, all, s, port, to) ==
    LET o == U!Open(all[s], port, to, rport)
        opened == [all EXCEPT ![s] = o.c]
        r == register(tab, opened, s)
    IN  IF o.err # "nil" THEN [tab |-> tab, socks |-> all, err |-> o.err]
        ELSE [tab |-> r.tab, err |-> r.err,
              socks |-> IF r.err = "nil" THEN opened ELSE [opened EXCEPT ![s] = U!Abort(@)]]

DgDial(c) ==
    /\ step(c, {"Dial"}, "start") /\ is(c, {"udp"})
    /\ \E r \in {dialUDP(table, socks, on(c), cur(c).port, cur(c).to)} :
          table' = r.tab /\ socks' = r.socks /\ returns(c, r.err, <<>>, 0)
    /\ UNCHANGED <<scn, bk, peer, frames, now, ephPort, hist>>

Datagram(c) ==
    \/ DgEnter(c) \/ DgTurn(c) \/ DgSlow(c) \/ DgClose(c) \/ DgAbort(c) \/ DgSetDeadline(c)
    \/ DgConfigure(c) \/ DgOpen(c) \/ DgRegister(c) \/ DgDial(c)

-----------------------------------------------------------------------------
(* The stack and the clock.                                                *)

\* A node that answers net.ErrClosed is taken out of the table.
dropped(tab, all, s, err) ==
    IF err # "closed" THEN tab
    ELSE T!destroy(tab, {i \in DOMAIN tab.nodes : tab.nodes[i].who = s /\ ~T!IsInvalid(tab.nodes[i], ids(all))})

polled(k) == IF k.kind = "udp" THEN U!Encapsulate(k, scn.room) ELSE U!muxEncapsulate(k, scn.room)

\* The stack polls one of its UDP nodes.
Poll ==
    \E i \in DOMAIN table.nodes :
        LET s == table.nodes[i].who
        IN  /\ ~T!IsInvalid(table.nodes[i], ids(socks))
            /\ \E r \in {polled(socks[s])} :
                  /\ socks' = [socks EXCEPT ![s] = r.c]
                  /\ table' = dropped(table, socks, s, r.err)
                  /\ hist' = [hist EXCEPT !.out = @ \o [j \in DOMAIN r.frames |->
                                 [s |-> s, id |-> socks[s].connid, payload |-> r.frames[j].payload,
                                  to |-> r.frames[j].to]]]
                  /\ <<socks', table'>> # <<socks, table>>
    /\ UNCHANGED <<scn, bk, at, ret, peer, frames, now, ephPort>>

given(k, f) == IF k.kind = "udp" THEN U!Demux(k, f) ELSE U!muxDemux(k, f)

\* A UDP frame arrives; the node of its port gets it.
Arrive ==
    /\ frames # <<>>
    /\ frames' = Tail(frames)
    /\ \E i \in {T!nodeByPort(table, Head(frames).dport, ids(socks))} :
          IF i = 0 THEN UNCHANGED <<socks, table, hist>>
          ELSE LET s == table.nodes[i].who
               IN  \E r \in {given(socks[s], Head(frames))} :
                      /\ socks' = [socks EXCEPT ![s] = r.c]
                      /\ table' = dropped(table, socks, s, r.err)
                      /\ hist' = IF r.err # "nil" THEN hist
                                 ELSE [hist EXCEPT !.in = Append(@, [s |-> s, id |-> socks[s].connid,
                                          payload |-> Head(frames).payload, from |-> Head(frames).src])]
    /\ UNCHANGED <<scn, bk, at, ret, peer, now, ephPort>>

\* A deadline is still to pass.
limited == \E s \in DOMAIN socks : /\ socks[s].kind \in {"udp", "packet", "tcp"}
                                   /\ now <= socks[s].rdead \/ now <= socks[s].wdead

Tick ==
    /\ now < MaxTime /\ limited
    /\ now' = now + 1
    /\ UNCHANGED <<scn, socks, table, bk, at, ret, peer, frames, ephPort, hist>>

-----------------------------------------------------------------------------
(* The TCP connection.                                                     *)

conn == socks[Conn]
tcpSets(c) == socks' = [socks EXCEPT ![Conn] = c]
locking == {"Write", "Flush", "Close"}
tcpStep(c, op, st) == scn.tcp /\ step(c, op, st)

deadlineOf(c) == IF cur(c).op = "Close" THEN NoDeadline ELSE conn.wdead

\* acquireWriteLock learns the connection's identifier.
TcpEnter(c) ==
    /\ tcpStep(c, locking, "start")
    /\ at' = [at EXCEPT ![c].step = "check", ![c].id = conn.h.connid]
    /\ UNCHANGED <<scn, socks, table, bk, ret, peer, frames, now, ephPort, hist>>

TcpCheck(c) ==
    /\ tcpStep(c, locking, "check")
    /\ \E err \in {checkPipe(conn, at[c].id, deadlineOf(c), now)} :
          IF err = "nil" THEN goes(c, "swap") ELSE returns(c, err, <<>>, 0)
    /\ UNCHANGED <<scn, socks, table, bk, peer, frames, now, ephPort, hist>>

TcpSwap(c) ==
    /\ tcpStep(c, locking, "swap")
    /\ \E r \in {swapLock(conn, at[c].id)} :
          /\ tcpSets(r.c)
          /\ at' = [at EXCEPT ![c].step = IF r.ok THEN "held" ELSE "check"]
    /\ UNCHANGED <<scn, table, bk, ret, peer, frames, now, ephPort, hist>>

\* The call is over but for the lock.
ends(c, err, n) == at' = [at EXCEPT ![c].step = "release", ![c].err = err, ![c].n = n] /\ UNCHANGED ret

TcpRelease(c) ==
    /\ tcpStep(c, locking, "release")
    /\ tcpSets(releaseWriteLock(conn, at[c].id))
    /\ returns(c, at[c].err, <<>>, at[c].n)
    /\ UNCHANGED <<scn, table, bk, peer, frames, now, ephPort, hist>>

\* Write holds the lock and looks at its deadline.
WriteHeld(c) ==
    /\ tcpStep(c, {"Write"}, "held")
    /\ IF exceeded(conn.wdead, now) THEN ends(c, "deadline", 0)
       ELSE IF cur(c).data = <<>> THEN ends(c, "nil", 0) ELSE goes(c, "pipe")
    /\ UNCHANGED <<scn, socks, table, bk, peer, frames, now, ephPort, hist>>

TcpPipe(c) ==
    /\ tcpStep(c, {"Write", "Flush"}, "pipe")
    /\ \E err \in {checkPipe(conn, at[c].id, conn.wdead, now)} :
          IF err # "nil" THEN ends(c, err, at[c].n)
          ELSE goes(c, IF cur(c).op = "Write" THEN "work" ELSE "held")
    /\ UNCHANGED <<scn, socks, table, bk, peer, frames, now, ephPort, hist>>

remains(c) == SubSeq(cur(c).data, at[c].n + 1, Len(cur(c).data))
written(c, n) == SubSeq(cur(c).data, at[c].n + 1, at[c].n + n)

\* The bytes go to the connection there is now.
WriteWork(c) ==
    /\ tcpStep(c, {"Write"}, "work")
    /\ \E r \in {writeTurn(conn, remains(c))} :
          /\ tcpSets(r.c)
          /\ hist' = [hist EXCEPT !.stream = @ \o [i \in 1 .. r.n |->
                         [by |-> c, k |-> at[c].k, id |-> at[c].id, conn |-> conn.h.connid,
                          byte |-> written(c, r.n)[i]]]]
          /\ IF r.wait THEN goes(c, "slow")
             ELSE IF r.err # "nil" \/ at[c].n + r.n = Len(cur(c).data) THEN ends(c, r.err, at[c].n + r.n)
             ELSE at' = [at EXCEPT ![c].step = "pipe", ![c].n = @ + r.n] /\ UNCHANGED ret
    /\ UNCHANGED <<scn, table, bk, peer, frames, now, ephPort>>

WriteSlow(c) ==
    /\ tcpStep(c, {"Write"}, "slow")
    /\ IF exceeded(conn.wdead, now) THEN ends(c, "deadline", at[c].n) ELSE goes(c, "pipe")
    /\ UNCHANGED <<scn, socks, table, bk, peer, frames, now, ephPort, hist>>

FlushHeld(c) ==
    /\ tcpStep(c, {"Flush"}, "held")
    /\ IF unsent(conn) = 0 THEN ends(c, "nil", 0) ELSE goes(c, "pipe")
    /\ UNCHANGED <<scn, socks, table, bk, peer, frames, now, ephPort, hist>>

\* Close does not ask again which connection it has.
CloseHeld(c) ==
    /\ tcpStep(c, {"Close"}, "held")
    /\ \E r \in {Close(conn.h)} : tcpSets([conn EXCEPT !.h = r.h]) /\ ends(c, r.err, 0)
    /\ UNCHANGED <<scn, table, bk, peer, frames, now, ephPort, hist>>

ReadEnter(c) ==
    /\ tcpStep(c, {"Read"}, "start")
    /\ at' = [at EXCEPT ![c].step = "turn", ![c].id = conn.h.connid]
    /\ UNCHANGED <<scn, socks, table, bk, ret, peer, frames, now, ephPort, hist>>

ReadTurn(c) ==
    /\ tcpStep(c, {"Read"}, "turn")
    /\ \E r \in {readTurn(conn, at[c].id, cur(c).size - at[c].n, at[c].n)} :
          /\ tcpSets(r.c)
          /\ hist' = [hist EXCEPT !.got = @ \o [i \in DOMAIN r.data |-> [id |-> at[c].id, byte |-> r.data[i]]]]
          /\ IF r.next = "end" THEN returns(c, r.err, at[c].data \o r.data, at[c].n + Len(r.data))
             ELSE at' = [at EXCEPT ![c].step = IF r.next = "wait" THEN "slow" ELSE "turn",
                                   ![c].n = @ + Len(r.data), ![c].data = @ \o r.data] /\ UNCHANGED ret
    /\ UNCHANGED <<scn, table, bk, peer, frames, now, ephPort>>

ReadSlow(c) ==
    /\ tcpStep(c, {"Read"}, "slow")
    /\ IF exceeded(conn.rdead, now) THEN returns(c, "deadline", <<>>, 0) ELSE goes(c, "turn")
    /\ UNCHANGED <<scn, socks, table, bk, peer, frames, now, ephPort, hist>>

\* The calls that are one section.
TcpControl(c) ==
    /\ tcpStep(c, {"CloseRead", "Abort", "SetDeadline"}, "start")
    /\ tcpSets(CASE cur(c).op = "CloseRead" -> CloseRead(conn)
                 [] cur(c).op = "Abort" -> connAbort(conn)
                 [] OTHER -> connSetDeadline(conn, cur(c).sides, now))
    /\ returns(c, IF cur(c).op = "Abort" \/ checkPipeOpen(conn) THEN "nil" ELSE "closed", <<>>, 0)
    /\ UNCHANGED <<scn, table, bk, peer, frames, now, ephPort, hist>>

\* The application uses the connection again, to a peer that waits for it.
TcpDial(c) ==
    /\ tcpStep(c, {"Dial"}, "start")
    /\ CB!IsClosed(conn.h.scb.state)
    /\ tcpSets(dialled(conn))
    /\ peer' = [peer EXCEPT !.h = waiting, !.left = scn.peer.writes, !.closes = scn.peer.closes, !.said = <<>>, !.heard = <<>>]
    /\ returns(c, "nil", <<>>, 0)
    /\ UNCHANGED <<scn, table, bk, frames, now, ephPort, hist>>

Stream(c) ==
    \/ TcpEnter(c) \/ TcpCheck(c) \/ TcpSwap(c) \/ TcpRelease(c) \/ WriteHeld(c) \/ TcpPipe(c)
    \/ WriteWork(c) \/ WriteSlow(c) \/ FlushHeld(c) \/ CloseHeld(c) \/ ReadEnter(c) \/ ReadTurn(c)
    \/ ReadSlow(c) \/ TcpControl(c) \/ TcpDial(c)

\* The peer's application takes what there is, unless it does not read.
takesAll(g) == IF scn.peer.reads THEN Read(g, Rx!Size(g.bufRx)) ELSE [h |-> g, data |-> <<>>]

\* The stack polls the connection, and the frame reaches the peer.
StreamOut ==
    /\ scn.tcp
    /\ \E r \in {Send(conn.h, scn.room, -1, 0)} :
       \E g \in {takesAll(IF r.frames = <<>> THEN peer.h ELSE Recv(peer.h, r.frames[1], 0).h)} :
          /\ tcpSets([conn EXCEPT !.h = r.h])
          /\ peer' = [peer EXCEPT !.h = g.h, !.heard = @ \o g.data]
          /\ <<socks', peer'>> # <<socks, peer>>
    /\ UNCHANGED <<scn, table, bk, at, ret, frames, now, ephPort, hist>>

\* The peer sends, and the frame reaches the connection.
StreamIn ==
    /\ scn.tcp
    /\ \E r \in {Send(peer.h, scn.room, -1, 0)} :
          /\ peer' = [peer EXCEPT !.h = r.h]
          /\ tcpSets([conn EXCEPT !.h = IF r.frames = <<>> THEN @ ELSE Recv(@, r.frames[1], 0).h])
          /\ <<socks', peer'>> # <<socks, peer>>
    /\ UNCHANGED <<scn, table, bk, at, ret, frames, now, ephPort, hist>>

\* The peer can still write: the connection may be closed already on this side.
peerOpen == peer.h.scb.state \in {"Established", "CloseWait"}

\* The peer's application writes its bytes and then closes.
PeerApp ==
    /\ scn.tcp /\ peerOpen
    /\ \/ /\ peer.left > 0
          /\ \E w \in {Write(peer.h, <<peer.left>>)} :
                /\ w.err = "nil"
                /\ peer' = [peer EXCEPT !.h = w.h, !.left = @ - 1, !.said = Append(@, peer.left)]
       \/ /\ peer.left = 0 /\ peer.closes
          /\ peer' = [peer EXCEPT !.h = Close(@).h, !.closes = FALSE]
    /\ UNCHANGED <<scn, socks, table, bk, at, ret, frames, now, ephPort, hist>>

-----------------------------------------------------------------------------
(* Descriptors.                                                            *)

name(n) == <<"s1", "s2", "s3", "s4">>[n]
newName == name(Cardinality(DOMAIN socks) + 1)
adds(k) == socks' = (newName :> k) @@ socks
stream == [kind |-> "stream", open |-> TRUE]
opens(c, st) == at' = [at EXCEPT ![c].step = st, ![c].s = newName] /\ UNCHANGED ret
makes(s) == hist' = [hist EXCEPT !.made = @ \cup {s}]

FdSocket(c) ==
    /\ step(c, {"Socket"}, "start")
    /\ bk' = Socket(bk, cur(c).s)
    /\ returns(c, "nil", <<>>, bk.nextFD)
    /\ UNCHANGED <<scn, socks, table, peer, frames, now, ephPort, hist>>

FdBind(c) ==
    /\ step(c, {"Bind"}, "start")
    /\ bk' = Bind(bk, cur(c).fd, cur(c).port)
    /\ returns(c, IF isvalid(bk.pending, cur(c).fd) THEN "nil" ELSE "unknown", <<>>, 0)
    /\ UNCHANGED <<scn, socks, table, peer, frames, now, ephPort, hist>>

\* Connect and Listen look for the pending descriptor.
FdPending(c) ==
    /\ step(c, {"Connect", "ListenFD"}, "start")
    /\ IF isvalid(bk.pending, cur(c).fd)
       THEN LET p == getFD(bk.pending, cur(c).fd)
            IN  at' = [at EXCEPT ![c].step = IF cur(c).op = "Connect" THEN p.protocol ELSE "listen",
                                 ![c].n = p.bound] /\ UNCHANGED ret
       ELSE returns(c, "unknown", <<>>, 0)
    /\ UNCHANGED <<scn, socks, table, bk, peer, frames, now, ephPort, hist>>

\* StackGo.SocketNetip takes the next ephemeral port for a socket that is not bound.
portOf(c) == IF at[c].n # 0 THEN at[c].n ELSE 10 + (ephPort % EphPorts)
takesPort(c) == ephPort' = IF at[c].n # 0 THEN ephPort ELSE ephPort + 1

\* SocketNetip for a UDP dial: a new connection, which only this call knows until it is registered.
FdDialUDP(c) ==
    /\ step(c, {"Connect"}, "udp")
    /\ \E r \in {dialUDP(table, (newName :> U!Configure(U!ZeroConn, scn.cfg).c) @@ socks, newName, portOf(c), "peer")} :
          /\ table' = r.tab
          /\ IF r.err = "nil"
             THEN socks' = r.socks /\ opens(c, "promote") /\ makes(newName)
             ELSE returns(c, r.err, <<>>, 0) /\ UNCHANGED <<socks, hist>>
    /\ takesPort(c)
    /\ UNCHANGED <<scn, bk, peer, frames, now>>

\* SocketNetip for a TCP dial that ends: established, refused or given up, or in a state it did not
\* expect.  The last hands out an error value in place of a connection, which Connect does not take.
FdDialTCP(c) ==
    /\ step(c, {"Connect"}, "tcp")
    /\ \/ adds(stream) /\ opens(c, "promote") /\ makes(newName)
       \/ returns(c, "dial", <<>>, 0) /\ UNCHANGED <<socks, hist>>
       \/ returns(c, "nonConn", <<>>, 0) /\ UNCHANGED <<socks, hist>>
    /\ takesPort(c)
    /\ UNCHANGED <<scn, table, bk, peer, frames, now>>

listeners(port) == {s \in DOMAIN socks : socks[s].kind = "listener" /\ socks[s].open /\ socks[s].lport = port}

\* SocketNetip for a TCP listener; its port is registered once.
FdListenTCP(c) ==
    /\ step(c, {"ListenFD"}, "listen")
    /\ IF listeners(portOf(c)) = {}
       THEN /\ adds([kind |-> "listener", open |-> TRUE, lport |-> portOf(c), ready |-> scn.ready])
            /\ opens(c, "promote") /\ makes(newName)
       ELSE returns(c, "registered", <<>>, 0) /\ UNCHANGED <<socks, hist>>
    /\ takesPort(c)
    /\ UNCHANGED <<scn, table, bk, peer, frames, now>>

\* The last section of Connect, Listen and Accept.
FdPromote(c) ==
    /\ step(c, {"Connect", "ListenFD", "Accept"}, "promote")
    /\ bk' = CASE cur(c).op = "Connect" -> connected(bk, cur(c).fd, at[c].s)
               [] cur(c).op = "ListenFD" -> listening(bk, cur(c).fd, at[c].s)
               [] OTHER -> acceptedAs(bk, at[c].s)
    /\ returns(c, "nil", <<>>, IF cur(c).op = "Accept" THEN bk.nextFD ELSE 0)
    /\ hist' = [hist EXCEPT !.filed = Append(@, [fd |-> IF cur(c).op = "Accept" THEN bk.nextFD ELSE cur(c).fd,
                                                 s |-> at[c].s])]
    /\ UNCHANGED <<scn, socks, table, peer, frames, now, ephPort>>

\* Send, Recv and Accept look for the socket of their descriptor.
FdFind(c) ==
    /\ step(c, {"Send", "Recv", "Accept"}, "start")
    /\ \E all \in {IF cur(c).op = "Accept" THEN bk.listeners ELSE bk.conns} :
          IF isvalid(all, cur(c).fd)
          THEN at' = [at EXCEPT ![c].step = IF cur(c).op = "Accept" THEN "accept" ELSE "limit",
                                ![c].s = getFD(all, cur(c).fd).sock] /\ UNCHANGED ret
          ELSE returns(c, "unknown", <<>>, 0)
    /\ UNCHANGED <<scn, socks, table, bk, peer, frames, now, ephPort, hist>>

\* A deadline that is given is set before the call; a stream socket ends here.
FdLimit(c) ==
    /\ step(c, {"Send", "Recv"}, "limit")
    /\ IF is(c, {"udp"})
       THEN /\ sets(c, IF cur(c).sides = {} THEN sk(c) ELSE U!SetDeadline(sk(c), cur(c).sides, now))
            /\ goes(c, "enter")
       ELSE UNCHANGED socks /\ returns(c, IF sk(c).open THEN "nil" ELSE "closed", <<>>, 0)
    /\ UNCHANGED <<scn, table, bk, peer, frames, now, ephPort, hist>>

\* tcplistener.Accept asks until there is a connection or the listener is closed.
FdAccept(c) ==
    /\ step(c, {"Accept"}, "accept")
    /\ IF ~sk(c).open THEN returns(c, "closed", <<>>, 0) /\ UNCHANGED <<socks, hist>>
       ELSE /\ sk(c).ready > 0
            /\ socks' = (newName :> stream) @@ [socks EXCEPT ![at[c].s].ready = @ - 1]
            /\ opens(c, "promote") /\ makes(newName)
    /\ UNCHANGED <<scn, table, bk, peer, frames, now, ephPort>>

\* Close by descriptor: a pending one is forgotten at once.
FdClose(c) ==
    /\ step(c, {"CloseFD"}, "start")
    /\ \E tab \in {tableOf(bk, cur(c).fd)} :
          CASE tab = "none" -> returns(c, "unknown", <<>>, 0) /\ UNCHANGED bk
            [] tab = "pending" -> /\ bk' = [bk EXCEPT !.pending = deleteFD(@, cur(c).fd)]
                                  /\ returns(c, "nil", <<>>, 0)
            [] OTHER -> /\ at' = [at EXCEPT ![c].step = "shut", ![c].table = tab,
                                            ![c].s = getFD(IF tab = "conns" THEN bk.conns ELSE bk.listeners,
                                                           cur(c).fd).sock]
                        /\ UNCHANGED <<ret, bk>>
    /\ UNCHANGED <<scn, socks, table, peer, frames, now, ephPort, hist>>

\* The socket is closed without the mutex.
FdShut(c) ==
    /\ step(c, {"CloseFD"}, "shut")
    /\ sets(c, IF is(c, {"udp"}) THEN U!Close(sk(c)) ELSE [sk(c) EXCEPT !.open = FALSE])
    /\ goes(c, "forget")
    /\ UNCHANGED <<scn, table, bk, peer, frames, now, ephPort, hist>>

FdForget(c) ==
    /\ step(c, {"CloseFD"}, "forget")
    /\ bk' = closedIn(bk, at[c].table, cur(c).fd)
    /\ returns(c, "nil", <<>>, 0)
    /\ UNCHANGED <<scn, socks, table, peer, frames, now, ephPort, hist>>

Descriptor(c) ==
    \/ FdSocket(c) \/ FdBind(c) \/ FdPending(c) \/ FdDialUDP(c) \/ FdDialTCP(c) \/ FdListenTCP(c)
    \/ FdPromote(c) \/ FdFind(c) \/ FdLimit(c) \/ FdAccept(c) \/ FdClose(c) \/ FdShut(c) \/ FdForget(c)

-----------------------------------------------------------------------------
Call(c) == Datagram(c) \/ Stream(c) \/ Descriptor(c)

Next ==
    \/ \E c \in Callers : Call(c)
    \/ Poll \/ Arrive \/ Tick \/ StreamOut \/ StreamIn \/ PeerApp

\* The stack has nothing to send and no frame to come.
Idle ==
    /\ frames = <<>>
    /\ \A i \in DOMAIN table.nodes :
          T!IsInvalid(table.nodes[i], ids(socks)) \/
          \E r \in {polled(socks[table.nodes[i].who])} : r.c = socks[table.nodes[i].who] /\ r.err # "closed"
    /\ scn.tcp => /\ Send(conn.h, scn.room, -1, 0).h = conn.h /\ Send(peer.h, scn.room, -1, 0).h = peer.h
                  /\ peerOpen => peer.left = 0 /\ ~peer.closes

\* The caller has a step to take: only Accept waits without looking at the time.
runs(c) ==
    /\ c \in Callers /\ busy(c)
    /\ at[c].step = "accept" => sk(c).ready > 0 \/ ~sk(c).open

\* Goroutines run, the driver polls the stack and hands it frames until there are none, and the
\* clock goes on until every deadline has passed.
Fair ==
    /\ \A c \in {"a", "b", "c"} : []<>~runs(c) \/ []<><<c \in Callers /\ at[c]' # at[c]>>_vars
    /\ []<>Idle
    /\ []<>~limited

Spec == Init /\ [][Next]_vars /\ Fair

-----------------------------------------------------------------------------
(* Properties.                                                             *)

of(seq, s, id) == SelectSeq(seq, LAMBDA e : e.s = s /\ e.id = id)
sessions(s) == 0 .. socks[s].connid
dgSocks == {s \in DOMAIN socks : socks[s].kind \in {"udp", "packet"}}
cut(b, size) == SubSeq(b, 1, min(size, Len(b)))

\* Whatever the readers and whenever the socket is closed, aborted or opened again, the reads of a
\* connection return its datagrams in the order they came, each from its first byte and as far as
\* the reader had room, and never one of another connection (udp.Conn.Read, PacketConn.ReadFrom).
ReadsAreWhole ==
    ~scn.tcp => \A s \in dgSocks : \A id \in sessions(s) :
        \E got \in {of(hist.got, s, id)} : \E came \in {of(hist.in, s, id)} :
            /\ Len(got) <= Len(came)
            /\ \A i \in DOMAIN got : /\ got[i].payload = cut(came[i].payload, got[i].size)
                                     /\ got[i].from \in {"peer", came[i].from}

\* A datagram that Encapsulate can send.
sendable(d) == Len(d.payload) <= scn.room /\ d.to \notin Addrs6

lengthOf(d, k) == IF k.kind = "udp" THEN d ELSE d.length
lengths(k) == [i \in DOMAIN k.txDgrams |-> lengthOf(k.txDgrams[i], k)]
sumTo(ls, n) == Sq!FoldLeft(LAMBDA a, b : a + b, 0, SubSeq(ls, 1, n))

\* The datagrams that wait to be sent, as the queue cuts them out of the ring.
queued(k) ==
    LET ls == lengths(k)
        bytes == Rx!Read(k.txRing, Rx!Buffered(k.txRing)).data
    IN  [i \in DOMAIN ls |->
            [payload |-> SubSeq(bytes, sumTo(ls, i - 1) + 1, sumTo(ls, i)),
             to |-> IF k.kind = "udp" THEN "peer" ELSE k.txDgrams[i].raddr]]

bare(ds) == [i \in DOMAIN ds |-> [payload |-> ds[i].payload, to |-> ds[i].to]]

\* What goes out of a connection is what was written to it, each datagram whole, to its addressee
\* and in order; as long as the socket is open nothing that can be sent is missing.
WritesGoOut ==
    ~scn.tcp => \A s \in dgSocks : \A id \in sessions(s) :
        \E out \in {bare(of(hist.out, s, id))} :
        \E wrote \in {SelectSeq(bare(of(hist.wrote, s, id)), sendable)} :
            /\ Sq!IsPrefix(out, wrote)
            /\ (id = socks[s].connid /\ ~socks[s].closeCalled) =>
                  out \o SelectSeq(queued(socks[s]), sendable) = wrote

\* Datagrams go in and out of a socket whole, in order and in their own connection.
DatagramsAreWhole == ReadsAreWhole /\ WritesGoOut

entries == bk.pending \o bk.listeners \o bk.conns
isOpen(k) == IF k.kind = "udp" THEN ~k.closeCalled ELSE k.open
holds(c, s) == busy(c) /\ at[c].s = s /\ at[c].step = "promote"
heldBy(s) == {i \in DOMAIN bk.listeners : bk.listeners[i].sock = s}
    \cup {-i : i \in {j \in DOMAIN bk.conns : bk.conns[j].sock = s}}

filedTwice(fd) == Cardinality({i \in DOMAIN hist.filed : hist.filed[i].fd = fd}) > 1
fdOf(s) == {hist.filed[i].fd : i \in {j \in DOMAIN hist.filed : hist.filed[j].s = s}}
closedByFd(fd) == \E c \in Callers : \E i \in DOMAIN ret[c] :
                     ret[c][i].op = "CloseFD" /\ ret[c][i].err = "nil" /\ scn.prog[c][i].fd = fd

\* No two entries have one descriptor, and each socket that was opened for a descriptor and not closed
\* has exactly one, or a call that is about to give it one: nothing is left open that nobody can
\* close.  The one exception is a descriptor that two calls of Connect or Listen were given at once:
\* both find it pending before either files its socket.  It stands for both, none of them is lost
\* until it is closed, and then Close closes the first and forgets them all (StackBerkeley).
FdsAreExact ==
    /\ \A i, j \in DOMAIN entries : (i # j /\ entries[i].fd = entries[j].fd) => filedTwice(entries[i].fd)
    /\ \A s \in hist.made : isOpen(socks[s]) =>
          \/ Cardinality(heldBy(s)) + Cardinality({c \in Callers : holds(c, s)}) = 1
          \/ heldBy(s) = {} /\ \E fd \in fdOf(s) : filedTwice(fd) /\ closedByFd(fd)

\* The bytes of one Write are next to each other, and in order, in the stream of the connection: the
\* write lock keeps writers apart while they wait for room (Conn.Write).
WritesUnmixed ==
    \A i, j \in DOMAIN hist.stream :
        LET x == hist.stream[i] y == hist.stream[j]
        IN  (i < j /\ x.by = y.by /\ x.k = y.k) =>
                /\ x.byte < y.byte
                /\ \A m \in i .. j : hist.stream[m].by = x.by /\ hist.stream[m].k = x.k

\* Close waits for the writer that was there first: no Write is cut short by it (Conn.writeLock).
CloseWaits == \A c \in Callers : \A i \in DOMAIN ret[c] :
                 (ret[c][i].op = "Write" /\ ret[c][i].err = "closing") => ret[c][i].n = 0

shut == \E c \in Callers : \E i \in DOMAIN ret[c] : ret[c][i].op \in {"CloseRead", "Abort", "Dial"}

readEnds(err) == \E c \in Callers : \E i \in DOMAIN ret[c] : ret[c][i].op = "Read" /\ ret[c][i].err = err
hasClosed == \E c \in Callers : \/ step(c, {"Close"}, "release") /\ at[c].err = "nil"
                               \/ \E i \in DOMAIN ret[c] : ret[c][i].op = "Close" /\ ret[c][i].err = "nil"
peerEnded == ~peerOpen \/ (peer.left = 0 /\ ~peer.closes)

\* The end of the stream is reported after its last byte: until then every byte the peer wrote is
\* either read or still to be read.  A reader is told that the connection is closed before the last
\* byte only on a connection this side has closed, and only once the peer has sent its end too: the
\* handler forgets the bytes it holds when it sends the last acknowledgement (Conn.Read, Handler.Send).
EOFIsLast ==
    (scn.tcp /\ ~shut) =>
        /\ Sq!IsPrefix([i \in DOMAIN hist.got |-> hist.got[i].byte], peer.said)
        /\ (readEnds("EOF") \/ readEnds("closed")) => peerEnded
        /\ (readEnds("EOF") \/ (readEnds("closed") /\ ~hasClosed)) => Len(hist.got) = Len(peer.said)

\* The streams of a connection are whole with several callers in it: no Write is mixed with another or cut
\* by a Close, and no reader is told of the end before the last byte.
StreamsAreWhole == WritesUnmixed /\ CloseWaits /\ EOFIsLast

\* Every call returns: a socket that is closed or aborted, a deadline that passes, room or data that
\* comes, each wakes who waits for it.
CallsEnd == \A c \in {"a", "b", "c"} : <>(c \in Callers => ~busy(c))
=============================================================================
