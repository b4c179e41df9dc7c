------------------------------- MODULE Server -------------------------------
(***************************************************************************)
(* A TCP server and its clients.  The server is a StackPorts with one      *)
(* Listener, a TCPPool whose timeouts another goroutine checks, and an     *)
(* application that accepts connections and closes them.  A client is one  *)
(* handler that dials, may close or vanish, and dials again from the same  *)
(* port.                                                                   *)
(***************************************************************************)
EXTENDS Handler, FiniteSets

LOCAL Sq == INSTANCE SequencesExt

CONSTANTS
    estbTimeout, closingTimeout,
    issStep,     \* what each connection adds to the initial sequence number, 1000
    Scenarios,   \* the settings to run with; see Init
    MaxFrames    \* frames on their way in one direction

-----------------------------------------------------------------------------
(***************************************************************************)
(* xnet.TCPPool (x/xnet/tcppool.go) with the connections it lends out      *)
(* (tcp/conn.go).  A connection is its handler and the address of its peer,*)
(* 0 when it has none.  The times the pool keeps are ages: Never for the   *)
(* zero time, else how long ago, capped where they exceed every timeout.   *)
(***************************************************************************)

Never == -1
oldAge == (IF estbTimeout > closingTimeout THEN estbTimeout ELSE closingTimeout) + 1

NoPeer == 0
newConn(tx, rx) == [h |-> NewHandler(tx, rx, 2, NoPolicy), raddr |-> NoPeer]

\* Conn.Abort.
connAbort(c) == [h |-> Abort(c.h), raddr |-> NoPeer]

\* Conn.Close gives up on a connection that is closed already.
connClose(c) == [c EXCEPT !.h = Close(c.h).h]

opened(c, r) ==
    [c |-> IF r.err = "nil" THEN [h |-> r.h, raddr |-> NoPeer] ELSE [c EXCEPT !.h = r.h], err |-> r.err]
connOpenListen(c, port, iss) == opened(c, OpenListen(c.h, port, iss))

\* Conn.Demux: the first segment that is taken tells the peer's address.
took(c, from, r) ==
    [c |-> [h |-> r.h, raddr |-> IF r.err = "nil" /\ c.raddr = NoPeer /\ r.h.remotePort # 0
                                 THEN from ELSE c.raddr],
     err |-> r.err]
connDemux(c, from, f) ==
    IF c.raddr \notin {NoPeer, from} THEN [c |-> c, err |-> "mismatch"] ELSE took(c, from, Recv(c.h, f, 0))

gave(c, r) == [c |-> [c EXCEPT !.h = r.h], err |-> r.err, frames |-> IF r.err = "nil" THEN r.frames ELSE <<>>]
connEncapsulate(c, room) ==
    IF c.raddr = NoPeer THEN [c |-> c, err |-> "noRemoteAddr", frames |-> <<>>]
    ELSE gave(c, Send(c.h, room, -1, 0))

NewTCPPool(size, tx, rx) ==
    [conns |-> [i \in 1 .. size |-> newConn(tx, rx)], acquiredAt |-> [i \in 1 .. size |-> Never],
     closingAt |-> [i \in 1 .. size |-> Never], abortedAt |-> [i \in 1 .. size |-> Never],
     nextISS |-> 0, naqcuired |-> 0]

acquired(p) == {i \in DOMAIN p.conns : p.acquiredAt[i] # Never}

\* The index of the connection GetTCP lends, or 0.
free(p) ==
    LET f == DOMAIN p.conns \ acquired(p) IN IF f = {} THEN 0 ELSE CHOOSE i \in f : \A j \in f : i <= j

GetTCP(p) ==
    IF free(p) = 0 THEN p
    ELSE [p EXCEPT !.acquiredAt[free(p)] = 0, !.nextISS = Add(@, issStep % SeqMod), !.naqcuired = @ + 1]

PutTCP(p, i) ==
    [p EXCEPT !.conns[i] = connAbort(@), !.acquiredAt[i] = Never, !.closingAt[i] = Never,
              !.abortedAt[i] = Never, !.naqcuired = @ - 1]

IsClosing(s) == s \in {"FinWait1", "FinWait2", "Closing", "LastAck", "CloseWait"}

\* What CheckTimeouts does about connection i, whose state it read as st.
checked(p, i, st) ==
        IF st = "Established" \/ p.acquiredAt[i] = Never THEN p
        ELSE IF CB!IsPreestablished(st) /\ p.acquiredAt[i] > estbTimeout
        THEN [p EXCEPT !.conns[i] = connClose(@)]
        ELSE IF ~(CB!IsClosed(st) \/ IsClosing(st)) THEN p
        ELSE IF p.closingAt[i] = Never THEN [p EXCEPT !.closingAt[i] = 0]
        ELSE IF p.abortedAt[i] = Never /\ p.closingAt[i] > closingTimeout
        THEN [p EXCEPT !.abortedAt[i] = 0, !.conns[i] = connAbort(@)]
        ELSE p

\* The next connection after i that CheckTimeouts does something about, and the state it read: it has the lock
\* of the pool all along, and that of the connection for the reading only.
Unread == [conn |-> 0, st |-> "none"]
stateRead(p, i) ==
    LET st(j) == p.conns[j].h.scb.state
        due == {j \in DOMAIN p.conns : j > i /\ checked(p, j, st(j)) # p}
    IN  IF due = {} THEN Unread ELSE LET j == CHOOSE j \in due : \A k \in due : j <= k IN [conn |-> j, st |-> st(j)]

\* The clock goes on by one.
older(ages) == [i \in DOMAIN ages |-> IF ages[i] = Never \/ ages[i] = oldAge THEN ages[i] ELSE ages[i] + 1]
elapse(p) == [p EXCEPT !.acquiredAt = older(@), !.closingAt = older(@), !.abortedAt = older(@)]

-----------------------------------------------------------------------------
(***************************************************************************)
(* tcp.Listener (tcp/listener.go) with its reset queue (tcp/rst.go).  A    *)
(* listener keeps two lists of the connections it got from the pool: those *)
(* that come in and those the application accepted.  Its methods change    *)
(* the pool too, so they take and return a server: [l, p].                 *)
(***************************************************************************)

CONSTANT rstSlots    \* 4 in the code

Nil == [conn |-> 0, id |-> 0]

newListener(port) == [port |-> port, connID |-> 1, incoming |-> <<>>, accepted |-> <<>>, rst |-> <<>>]

isClosed(l) == l.port = 0

\* Mutant: the queue is full before its first entry.
QueueMutant(q, e) == IF Len(q) + 1 < rstSlots - 1 THEN Append(q, e) ELSE q

Queue(q, e) == IF Len(q) < rstSlots THEN Append(q, e) ELSE q

\* A reset: for the peer at addr and rport.
rstEntry(addr, rport, lport, seq, ack, flags) ==
    [to |-> addr, f |-> [SrcPort |-> lport, DstPort |-> rport, SEQ |-> seq, ACK |-> ack, WND |-> 0,
                         Flags |-> flags, payload |-> <<>>, mss |-> 0, ws |-> -1]]

conn(s, e) == s.p.conns[e.conn]
state(s, e) == conn(s, e).h.scb.state

\* The entry in place i of a list is given back to the pool.
returned(s, list, i) ==
    [l |-> [s.l EXCEPT ![list][i] = Nil], p |-> PutTCP(s.p, s.l[list][i].conn)]

live(es) == Sq!SelectSeq(es, LAMBDA e : e # Nil)

\* A connection that comes in is past or out of its handshake, and was not accepted.
over(st) == st \notin {"SynRcvd", "SynSent", "Established"}

maintainConns(s) ==
    LET gone == {i \in DOMAIN s.l.incoming : s.l.incoming[i] # Nil /\ over(state(s, s.l.incoming[i]))}
        t    == Sq!FoldLeft(LAMBDA r, i : IF i \in gone THEN returned(r, "incoming", i) ELSE r, s,
                            [i \in DOMAIN s.l.incoming |-> i])
    IN  [t EXCEPT !.l.accepted = live(@), !.l.incoming = live(@)]

\* The first connection that is ready, or 0.
ready(s) == Sq!SelectInSeq(s.l.incoming, LAMBDA e : e # Nil /\ state(s, e) = "Established")

\* Mutant: the connection stays in the list it came in by.
acceptMutant(s) == [s EXCEPT !.l.accepted = Append(@, s.l.incoming[ready(s)])]

\* TryAccept, once the lists are maintained.
accept(s) ==
    [s EXCEPT !.l.accepted = Append(@, s.l.incoming[ready(s)]), !.l.incoming[ready(s)] = Nil]

\* What Encapsulate came to: the server, the segment that goes out and its address.
Sent(s, out) == [s |-> s, out |-> out]

toPeer(c, frames) == [i \in DOMAIN frames |-> [to |-> c.raddr, f |-> frames[i]]]

putConn(s, e, c) == [s EXCEPT !.p.conns[e.conn] = c]

\* One connection is polled, if nothing was sent yet; r is what it answered.
polledConn(acc, list, i, r) ==
    LET e == acc.s.l[list][i]
        t == putConn(acc.s, e, r.c)
    IN  Sent(IF r.err = "closed" THEN returned(t, list, i) ELSE t, toPeer(conn(acc.s, e), r.frames))

pollIncoming(acc, i, room) ==
    LET e == acc.s.l.incoming[i]
    IN  IF acc.out # <<>> \/ e = Nil \/ state(acc.s, e) = "Established" THEN acc
        ELSE polledConn(acc, "incoming", i, connEncapsulate(conn(acc.s, e), room))

\* A connection that was aborted, or ended, since it was accepted goes back.
pollAccepted(acc, i, room) ==
    LET e == acc.s.l.accepted[i]
    IN  IF acc.out # <<>> \/ e = Nil THEN acc
        ELSE IF conn(acc.s, e).h.connid # e.id THEN Sent(returned(acc.s, "accepted", i), <<>>)
        ELSE polledConn(acc, "accepted", i, connEncapsulate(conn(acc.s, e), room))

\* Nothing to send: a reset, the newest first, and upkeep when there is none.
pollRST(acc) ==
    LET q == acc.s.l.rst
    IN  IF acc.out # <<>> THEN acc
        ELSE IF q # <<>> THEN Sent([acc.s EXCEPT !.l.rst = Sq!Front(@)], <<q[Len(q)]>>)
        ELSE Sent(maintainConns(acc.s), <<>>)

Encapsulate(s, room) ==
    LET all(es) == [i \in DOMAIN es |-> i]
        a == Sq!FoldLeft(LAMBDA acc, i : pollIncoming(acc, i, room), Sent(s, <<>>), all(s.l.incoming))
    IN  pollRST(Sq!FoldLeft(LAMBDA acc, i : pollAccepted(acc, i, room), a, all(s.l.accepted)))

\* The entry of a list for the peer, or 0.
getConn(s, es, from, f) ==
    Sq!SelectInSeq(es, LAMBDA e : e # Nil /\ conn(s, e).h.remotePort = f.SrcPort /\ conn(s, e).raddr = from)

\* The list that knows the peer, accepted connections first.
listFor(s, from, f) ==
    IF getConn(s, s.l.accepted, from, f) # 0 THEN "accepted"
    ELSE IF getConn(s, s.l.incoming, from, f) # 0 THEN "incoming" ELSE "none"

\* maintainConn: a connection that the segment closed goes back.
demuxedConn(s, list, i, r) ==
    LET t == putConn(s, s.l[list][i], r.c)
    IN  IF r.err = "closed" THEN [s |-> returned(t, list, i), err |-> "nil"] ELSE [s |-> t, err |-> r.err]

tryDemux(s, list, from, f) ==
    LET i == getConn(s, s.l[list], from, f)
        e == s.l[list][i]
    IN  demuxedConn(s, list, i, connDemux(conn(s, e), from, f))

opens(f) == "SYN" \in f.Flags /\ "ACK" \notin f.Flags

\* Mutant: the reset has the sequence number of the segment.
refuseMutant(s, from, f) ==
    IF "RST" \notin f.Flags /\ "ACK" \in f.Flags
    THEN [s EXCEPT !.l.rst = Queue(@, rstEntry(from, f.SrcPort, s.l.port, f.SEQ, 0, {"RST"}))]
    ELSE s

\* A segment of no connection that cannot open one is answered with a reset.
refuse(s, from, f) ==
    IF "RST" \notin f.Flags /\ "ACK" \in f.Flags
    THEN [s EXCEPT !.l.rst = Queue(@, rstEntry(from, f.SrcPort, s.l.port, f.ACK, 0, {"RST"}))]
    ELSE s

\* The pool has no connection left.
exhausted(s, from, f) ==
    [s EXCEPT !.l.rst = Queue(@, rstEntry(from, f.SrcPort, s.l.port, 0, Add(f.SEQ, 1), {"RST", "ACK"}))]

\* Connection i of the pool takes the SYN that it was got for.
admitted(s, i, r) ==
    LET t == [s EXCEPT !.p.conns[i] = r.c]
    IN  IF r.err # "nil" THEN [s |-> [t EXCEPT !.p = PutTCP(@, i)], err |-> "drop"]
        ELSE [s |-> [t EXCEPT !.l.incoming = Append(@, [conn |-> i, id |-> r.c.h.connid])], err |-> "nil"]

admitOpen(s, i, from, f, o) ==
    IF o.err # "nil" THEN [s |-> [s EXCEPT !.p = PutTCP([@ EXCEPT !.conns[i] = o.c], i)], err |-> o.err]
    ELSE admitted(s, i, connDemux(o.c, from, f))

admit(s, i, from, f) == admitOpen(s, i, from, f, connOpenListen(s.p.conns[i], s.l.port, s.p.nextISS))

-----------------------------------------------------------------------------
VARIABLES
    sc,      \* the scenario
    s,       \* the server: listener and pool
    prst,    \* resets StackPorts owes
    opening, \* the connection Listener.Demux got and has not opened yet, with the SYN
    held,    \* the application's connections
    check,   \* where CheckTimeouts is: a connection and the state it read, or Unread
    late,    \* the clients whose connection was closed through a pointer to an earlier one, for the properties
    cl,      \* the clients: handler, whether it is attached to its stack, dials made
    toS, toC,\* the segments on their way
    budget   \* what is left of the scenario's bounds

vars == <<sc, s, prst, opening, held, check, late, cl, toS, toC, budget>>

Client == DOMAIN cl
None == [conn |-> 0]
serverPort == 1
room == 2

Init ==
    /\ sc \in Scenarios
    /\ s = [l |-> newListener(serverPort), p |-> NewTCPPool(sc.poolSize, 2, 2)]
    /\ prst = <<>> /\ opening = None /\ held = {} /\ check = Unread /\ late = {}
    /\ cl = [c \in DOMAIN sc.clients |-> [h |-> NewHandler(2, 2, 2, NoPolicy), on |-> FALSE, dials |-> 0]]
    /\ toS = <<>> /\ toC = [c \in DOMAIN sc.clients |-> <<>>]
    /\ budget = sc.budget

spend(b) == budget[b] > 0 /\ budget' = [budget EXCEPT ![b] = @ - 1]

-----------------------------------------------------------------------------
(* Clients.                                                                *)

clientIs(c, h, on) == cl' = [cl EXCEPT ![c].h = h, ![c].on = on]

\* What the stack of a client makes of its connection's answer.
clientAnswered(c, r) == clientIs(c, r.h, r.err # "closed" /\ r.h.connid = cl[c].h.connid)

dials(c) == cl[c].dials < sc.dials[c] /\ ~cl[c].on

\* The client dials, with another initial sequence number each time.
Dial(c) ==
    /\ dials(c)
    /\ cl' = [cl EXCEPT ![c] =
        [h |-> OpenActive(cl[c].h, sc.clients[c], serverPort, (13 + 5 * cl[c].dials) % SeqMod).h,
         on |-> TRUE, dials |-> @.dials + 1]]
    /\ UNCHANGED <<sc, s, prst, opening, held, check, late, toS, toC, budget>>

changes(c, r) == r.frames # <<>> \/ r.h # cl[c].h \/ r.err = "closed"
clientPolls(c) == cl[c].on /\ Len(toS) < MaxFrames /\ changes(c, Send(cl[c].h, room, -1, 0))

clientSends(c, r) ==
    /\ changes(c, r)
    /\ clientAnswered(c, r)
    /\ toS' = toS \o [i \in DOMAIN r.frames |-> [from |-> c, f |-> r.frames[i]]]

ClientPoll(c) ==
    /\ cl[c].on /\ Len(toS) < MaxFrames
    /\ clientSends(c, Send(cl[c].h, room, -1, 0))
    /\ UNCHANGED <<sc, s, prst, opening, held, check, late, toC, budget>>

ClientDemux(c) ==
    /\ toC[c] # <<>>
    /\ IF cl[c].on THEN clientAnswered(c, Recv(cl[c].h, Head(toC[c]), 0)) ELSE UNCHANGED cl
    /\ toC' = [toC EXCEPT ![c] = Tail(@)]
    /\ UNCHANGED <<sc, s, prst, opening, held, check, late, toS, budget>>

ClientClose(c) ==
    /\ cl[c].on /\ Close(cl[c].h).err = "nil" /\ cl[c].h.scb.state = "Established"
    /\ sc.waits => \E e \in held : s.p.conns[e.conn].raddr = c
    /\ spend("close")
    /\ clientIs(c, Close(cl[c].h).h, TRUE)
    /\ UNCHANGED <<sc, s, prst, opening, held, check, late, toS, toC>>

\* The client gives up without a word.
ClientAbort(c) ==
    /\ cl[c].on /\ spend("abort")
    /\ clientIs(c, Abort(cl[c].h), FALSE)
    /\ UNCHANGED <<sc, s, prst, opening, held, check, late, toS, toC>>

\* DoDialTCP asks for its SYN again.
redials(c) == cl[c].on /\ IsAwaitingControl(cl[c].h) /\ ~cl[c].h.requeueControl /\ budget.redial > 0

DialRetry(c) ==
    /\ redials(c) /\ spend("redial")
    /\ clientIs(c, RequeueControl(cl[c].h), TRUE)
    /\ UNCHANGED <<sc, s, prst, opening, held, check, late, toS, toC>>
-----------------------------------------------------------------------------
(* The server's stack.  Its lock, and the listener's, is held while a      *)
(* connection is opened.                                                   *)

\* The listener is registered with the connection number it has from the start.
valid == s.l.connID = newListener(serverPort).connID

\* StackPorts answers a SYN that was dropped with a reset, whoever dropped it.
portReset(err, from, f) ==
    IF err = "drop" /\ "SYN" \in f.Flags /\ f.Flags \cap {"RST", "ACK"} = {}
    THEN Queue(prst, rstEntry(from, f.SrcPort, f.DstPort, 0, Add(f.SEQ, 1), {"RST", "ACK"}))
    ELSE prst

\* GetTCP and PutTCP wait for CheckTimeouts to return.
poolFree == check = Unread \/ s'.p.acquiredAt = s.p.acquiredAt

demuxed(r, m) == s' = r.s /\ prst' = portReset(r.err, m.from, m.f) /\ UNCHANGED opening
dropped(t) == [s |-> t, err |-> "drop"]

\* StackPorts.Demux and Listener.Demux, which stops after it got a connection.
ServerDemux ==
    /\ toS # <<>> /\ opening = None
    /\ LET m == Head(toS)
           list == listFor(s, m.from, m.f)
       IN  IF ~valid THEN demuxed(dropped(s), m)
           ELSE IF list # "none" THEN demuxed(tryDemux(s, list, m.from, m.f), m)
           ELSE IF ~opens(m.f) THEN demuxed(dropped(refuse(s, m.from, m.f)), m)
           ELSE IF free(s.p) = 0 THEN demuxed(dropped(exhausted(s, m.from, m.f)), m)
           ELSE /\ s' = [s EXCEPT !.p = GetTCP(@)]
                /\ opening' = [conn |-> free(s.p), from |-> m.from, f |-> m.f]
                /\ UNCHANGED prst
    /\ poolFree
    /\ toS' = Tail(toS)
    /\ UNCHANGED <<sc, held, check, late, cl, toC, budget>>

\* The rest of Listener.Demux.
ServerOpen ==
    /\ opening # None
    /\ \E r \in {admit(s, opening.conn, opening.from, opening.f)} :
        s' = r.s /\ prst' = portReset(r.err, opening.from, opening.f)
    /\ poolFree
    /\ opening' = None
    /\ UNCHANGED <<sc, held, check, late, cl, toS, toC, budget>>

puts(out) == toC' = [c \in Client |-> IF out # <<>> /\ out[1].to = c THEN Append(toC[c], out[1].f) ELSE toC[c]]

\* What a poll of the ports leaves: the server, resets still owed and what goes out.
drained(r) ==
    IF r.out = <<>> /\ prst # <<>>
    THEN [s |-> r.s, prst |-> Sq!Front(prst), out |-> <<prst[Len(prst)]>>]
    ELSE [s |-> r.s, prst |-> prst, out |-> r.out]

polled == drained(IF valid THEN Encapsulate(s, room) ELSE Sent(s, <<>>))
idle == [s |-> s, prst |-> prst, out |-> <<>>]
roomToC == \A c \in Client : Len(toC[c]) < MaxFrames

ServerPoll ==
    /\ opening = None /\ roomToC
    /\ \E r \in {polled} : r # idle /\ s' = r.s /\ prst' = r.prst /\ puts(r.out)
    /\ poolFree
    /\ UNCHANGED <<sc, opening, held, check, late, cl, toS, budget>>
-----------------------------------------------------------------------------
(* The server's application and the pool's goroutine.                      *)

accepts == opening = None /\ ~isClosed(s.l) /\ ready(maintainConns(s)) # 0

TryAccept ==
    \E t \in {maintainConns(s)} :
        /\ opening = None /\ ~isClosed(s.l) /\ ready(t) # 0
        /\ s' = accept(t) /\ poolFree
        /\ held' = held \cup {t.l.incoming[ready(t)]}
        /\ UNCHANGED <<sc, prst, opening, check, late, cl, toS, toC, budget>>

\* The application closes, through the pointer it has, and forgets the connection.  It
\* may come too late: the connection is back in the pool, or another client's.
AppClose(e) ==
    /\ s' = [s EXCEPT !.p.conns[e.conn] = connClose(@)]
    /\ held' = held \ {e}
    /\ late' = IF conn(s, e).h.connid = e.id THEN late ELSE late \cup ({conn(s, e).raddr} \ {NoPeer})
    /\ UNCHANGED <<sc, prst, opening, check, cl, toS, toC, budget>>

\* CheckTimeouts: the state of a connection may change between its reading and what is done about it.
PoolRead ==
    /\ sc.timed /\ check = Unread /\ stateRead(s.p, 0) # Unread
    /\ check' = stateRead(s.p, 0)
    /\ UNCHANGED <<sc, s, prst, opening, held, late, cl, toS, toC, budget>>

PoolCheck ==
    /\ check # Unread
    /\ s' = [s EXCEPT !.p = checked(@, check.conn, check.st)]
    /\ check' = stateRead(s'.p, check.conn)
    /\ UNCHANGED <<sc, prst, opening, held, late, cl, toS, toC, budget>>

\* Listener.Demux takes less than a unit of time.
Tick ==
    /\ sc.timed /\ opening = None /\ elapse(s.p) # s.p
    /\ s' = [s EXCEPT !.p = elapse(@)]
    /\ UNCHANGED <<sc, prst, opening, held, check, late, cl, toS, toC, budget>>

\* The listener closes: its connection number goes on and its port is 0.
ListenerClose ==
    /\ opening = None /\ ~isClosed(s.l) /\ spend("unlisten")
    /\ s' = [s EXCEPT !.l.connID = @ + 1, !.l.port = 0]
    /\ UNCHANGED <<sc, prst, opening, held, check, late, cl, toS, toC>>
-----------------------------------------------------------------------------
\* The network loses a segment.
Lose ==
    /\ spend("loss")
    /\ \/ toS # <<>> /\ toS' = Tail(toS) /\ UNCHANGED toC
       \/ \E c \in Client : toC[c] # <<>> /\ toC' = [toC EXCEPT ![c] = Tail(@)] /\ UNCHANGED toS
    /\ UNCHANGED <<sc, s, prst, opening, held, check, late, cl>>

DuplicateSYN ==
    /\ toS # <<>> /\ opens(toS[1].f) /\ Len(toS) < MaxFrames /\ spend("dup")
    /\ toS' = Append(toS, toS[1])
    /\ UNCHANGED <<sc, s, prst, opening, held, check, late, cl, toC>>

Next ==
    \/ \E c \in Client : Dial(c) \/ ClientPoll(c) \/ ClientDemux(c) \/ ClientClose(c) \/ ClientAbort(c) \/ DialRetry(c)
    \/ ServerDemux \/ ServerOpen \/ ServerPoll \/ TryAccept \/ (\E e \in held : AppClose(e))
    \/ PoolRead \/ PoolCheck \/ Tick \/ ListenerClose \/ Lose \/ DuplicateSYN

Spec == Init /\ [][Next]_vars

\* Nothing is left to do: no segment to deliver or to send, no dial, no connection to
\* accept or to close, no timeout to run out or to act on.
quiet ==
    /\ toS = <<>> /\ opening = None /\ held = {} /\ check = Unread /\ (roomToC => polled = idle) /\ ~accepts
    /\ \A c \in Client : toC[c] = <<>> /\ ~clientPolls(c) /\ ~dials(c) /\ ~redials(c)
    /\ sc.timed => stateRead(s.p, 0) = Unread /\ elapse(s.p) = s.p

\* Stacks are polled, segments arrive, the application serves, time goes on and the
\* timeouts are checked: nothing stops with work left.
FairSpec == Spec /\ (<>[]quiet \/ []<><<TRUE>>_vars)
-----------------------------------------------------------------------------
(* What the server promises.                                               *)

entries == s.l.incoming \o s.l.accepted

\* The pool and the listener agree: a connection that is lent is in one place of one of
\* the listener's lists, or being opened, and one that is not is closed and in none; and
\* no peer has two of them, as what it sends would reach the first only (GetTCP, PutTCP,
\* returnAccepted, returnIncoming, maintainConn, getConn).
PoolIsExact ==
    LET places(i) == {k \in DOMAIN entries : entries[k].conn = i}
        count(i)  == Cardinality(places(i)) + (IF opening.conn = i THEN 1 ELSE 0)
        peer(k)   == LET c == conn(s, entries[k]) IN <<c.raddr, c.h.remotePort>>
    IN  /\ s.p.naqcuired = Cardinality(acquired(s.p))
        /\ \A i \in DOMAIN s.p.conns :
            /\ count(i) = (IF i \in acquired(s.p) THEN 1 ELSE 0)
            /\ i \notin acquired(s.p) => s.p.conns[i].h.scb.state = "Closed" /\ s.p.conns[i].raddr = NoPeer
        /\ \A j, k \in DOMAIN entries :
            j # k /\ entries[j] # Nil /\ entries[k] # Nil /\ peer(j)[1] # NoPeer /\ peer(j)[2] # 0
            => peer(j) # peer(k)

\* The server has a connection that is the other end of the client's.
met(c) ==
    \E k \in DOMAIN entries :
        LET t == conn(s, entries[k])
        IN  /\ entries[k] # Nil /\ t.raddr = c /\ t.h.remotePort = sc.clients[c]
            /\ t.h.scb.snd.ISS = cl[c].h.scb.rcv.IRS /\ t.h.scb.rcv.IRS = cl[c].h.scb.snd.ISS

\* When nothing is left to do, a client that is connected is connected to the connection
\* the server has for it, whatever was left of its earlier ones, or it knows better
\* (Listener.Demux and its resets).
SettledTogether ==
    quiet /\ ~sc.timed => \A c \in Client : cl[c].on /\ cl[c].h.scb.state = "Established" => met(c)

\* Where nothing is lost and nobody gives up, every client that dials is through in the
\* end: it was served, or refused because the pool was exhausted.  Only one whose connection
\* the application closed through the pointer to an earlier one may be left waiting, for the
\* answer to its SYN, when its handshake was cut short, or to its FIN, when the connection
\* was closed twice and Send aborted it.  And every connection finds its way back to the
\* pool: those that were served and, as the timeouts are checked, those whose client
\* vanished and those nobody accepted (Listener's maintainConns, Encapsulate and tryDemux,
\* TCPPool.CheckTimeouts, Conn.Close).
EveryDialEnds ==
    /\ sc.serves => <>[](\A c \in Client : cl[c].on => c \in late /\ cl[c].h.scb.state \in {"SynSent", "LastAck"})
    /\ sc.drains => <>[](s.p.naqcuired = 0)
=============================================================================
