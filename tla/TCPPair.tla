------------------------------- MODULE TCPPair --------------------------------
(***************************************************************************)
(* Two handlers, a client that dials and a server that listens, on their   *)
(* stacks (tcp/conn.go, internet/definitions.go), and a network that       *)
(* loses, duplicates and reorders.  The stacks poll their connections for  *)
(* what to send and hand them what arrives; a connection that answers      *)
(* net.ErrClosed is detached.  Time enters as the expiry of the timer: its *)
(* clock reads 0 when the deadline is met and -1 before.                   *)
(***************************************************************************)
EXTENDS Handler

CONSTANTS
    ISS,          \* initial sequence number of each side
    MaxFrames,    \* frames on their way to one side
    Scenarios     \* the settings to run with; see Scenario

Side == {"client", "server"}
Peer(x) == IF x = "client" THEN "server" ELSE "client"
Port == [client |-> 2, server |-> 1]

\* A frame is of one kind for the losses a scenario admits.
Kind(f) == IF "SYN" \in f.Flags THEN (IF "ACK" \in f.Flags THEN "synack" ELSE "syn")
           ELSE IF "FIN" \in f.Flags THEN "fin"
           ELSE IF f.payload # <<>> THEN "data" ELSE "ack"

Scenario ==
    [tx : [Side -> Nat], rx : [Side -> Nat], packets : [Side -> Nat],  \* buffers
     room : [Side -> Nat],         \* payload a frame has room for
     timers : SUBSET Side,         \* the sides that have an rto.Timer
     stream : [Side -> Nat],       \* bytes each application writes in all
     chunk : Nat,                  \* the largest write
     closes : [Side -> Nat],       \* how often each application calls Close after that
     shutters : SUBSET Side,       \* the sides whose application may shut reading down
     redial : Nat,                 \* how often a dial asks for its SYN again
     reorders : BOOLEAN,           \* whether frames overtake each other
     losable : SUBSET {"syn", "synack", "fin", "data", "ack"},
     loss : Nat, dup : Nat,        \* what the network may lose and deliver twice
     early : Nat]                  \* expiries while the answer is still on its way

LOCAL Seqs == INSTANCE SequencesExt

ASSUME ScenarioAssumption == \A s \in Scenarios : DOMAIN s = DOMAIN CHOOSE t \in Scenarios : TRUE

VARIABLES
    sc,       \* the scenario
    h,        \* each side's handler
    node,     \* the connection id its stack registered, 0 once detached
    net,      \* the frames on their way to each side
    wrote,    \* how many bytes its application wrote: 1, 2, 3, ...
    got,      \* the bytes its application read
    failure,  \* what the code reports as impossible: a panic or a "bug" error
    budget    \* what is left of the scenario's bounds

vars == <<sc, h, node, net, wrote, got, failure, budget>>

New(s, x) == NewHandler(s.tx[x], s.rx[x], s.packets[x],
                        IF x \in s.timers THEN TimerPolicy ELSE NoPolicy)

Init ==
    /\ sc \in Scenarios
    /\ h = [client |-> OpenActive(New(sc, "client"), Port["client"], Port["server"], ISS["client"]).h,
            server |-> OpenListen(New(sc, "server"), Port["server"], ISS["server"]).h]
    /\ node = [x \in Side |-> h[x].connid]
    /\ net = [x \in Side |-> <<>>]
    /\ wrote = [x \in Side |-> 0]
    /\ got = [x \in Side |-> <<>>]
    /\ failure = {}
    /\ budget = [loss |-> sc.loss, dup |-> sc.dup, early |-> sc.early,
                 closes |-> sc.closes, redial |-> sc.redial]

\* A node whose connection id moved on is invalid.
attached(x) == node[x] # 0 /\ node[x] = h[x].connid

\* tryHandleError: an error of a closed or replaced connection destroys its node.
detach(x, g, err) ==
    [node EXCEPT ![x] = IF err = "closed" \/ (err # "nil" /\ g.connid # node[x]) THEN 0 ELSE @]

report(err) == failure' = failure \cup ({err} \cap {"panic", "bug"})

\* Conn.Encapsulate needs to know the remote address.
canEncapsulate(x) == attached(x) /\ h[x].remotePort # 0 /\ Len(net[Peer(x)]) < MaxFrames

\* The handler's answer, taken by the stack.
answered(x, r) ==
    /\ h' = [h EXCEPT ![x] = r.h]
    /\ node' = detach(x, r.h, r.err)
    /\ report(r.err)

sent(x, out) == answered(x, out) /\ net' = [net EXCEPT ![Peer(x)] = @ \o out.frames]

\* Conn.Encapsulate, polled by the stack.
Encapsulate(x, before) ==
    /\ canEncapsulate(x)
    /\ sent(x, Send(h[x], sc.room[x], before, 0))
    /\ UNCHANGED <<sc, wrote, got>>

Poll(x) == Encapsulate(x, -1) /\ UNCHANGED budget

changes(x, out) == out.h # h[x] \/ detach(x, out.h, out.err) # node \/ out.frames # <<>>

\* A poll of x would change something.
polls(x) == canEncapsulate(x) /\ changes(x, Send(h[x], sc.room[x], -1, 0))

\* No answer to x is on its way or about to be sent.
silent(x) == (\A y \in Side : net[y] = <<>>) /\ ~polls(Peer(x))

expired(x) == h[x].policy.on /\ rtoExpired(h[x].policy.timer, 0)

\* The poll finds the retransmission timer expired.
PollExpired(x) ==
    /\ expired(x)
    /\ \/ silent(x) /\ UNCHANGED budget
       \/ ~silent(x) /\ budget.early > 0 /\ budget' = [budget EXCEPT !.early = @ - 1]
    /\ Encapsulate(x, 0)

\* Conn.Demux, for a frame that a valid node waits for.
Demux(x, f) ==
    /\ IF attached(x) THEN answered(x, Recv(h[x], f, 0)) ELSE UNCHANGED <<h, node, failure>>
    /\ UNCHANGED <<sc, wrote, got>>

\* What may arrive next, and the network without it.
arriving(x) == IF sc.reorders THEN DOMAIN net[x] ELSE DOMAIN net[x] \cap {1}
without(x, i) == [net EXCEPT ![x] = Seqs!RemoveAt(@, i)]

Deliver(x) ==
    \E i \in arriving(x) :
        /\ Demux(x, net[x][i])
        /\ net' = without(x, i)
        /\ UNCHANGED budget

\* The frame stays behind and arrives again later.
DeliverTwice(x) ==
    \E i \in arriving(x) :
        /\ budget.dup > 0
        /\ Demux(x, net[x][i])
        /\ budget' = [budget EXCEPT !.dup = @ - 1]
        /\ UNCHANGED net

Lose(x) ==
    \E i \in DOMAIN net[x] :
        /\ budget.loss > 0 /\ Kind(net[x][i]) \in sc.losable
        /\ net' = without(x, i)
        /\ budget' = [budget EXCEPT !.loss = @ - 1]
        /\ UNCHANGED <<sc, h, node, wrote, got, failure>>

AppStep(x, g) ==
    h' = [h EXCEPT ![x] = g] /\ UNCHANGED <<sc, node, net, failure>>

\* DoDialTCP asks for the SYN again when the handshake takes too long.
DialRetry ==
    /\ budget.redial > 0
    /\ IsAwaitingControl(h["client"]) /\ ~h["client"].requeueControl
    /\ AppStep("client", RequeueControl(h["client"]))
    /\ budget' = [budget EXCEPT !.redial = @ - 1]
    /\ UNCHANGED <<wrote, got>>

minimum(S) == CHOOSE k \in S : \A q \in S : k <= q

\* Conn.Write: as much of the next chunk as fits.
AppWrite(x) ==
    LET n == minimum({Tx!Free(h[x].bufTx), sc.stream[x] - wrote[x], sc.chunk})
        w == Write(h[x], [i \in 1 .. n |-> wrote[x] + i])
    IN  /\ n > 0 /\ w.err = "nil"
        /\ AppStep(x, w.h)
        /\ wrote' = [wrote EXCEPT ![x] = @ + n]
        /\ UNCHANGED <<got, budget>>

\* Conn.Read, into a buffer as large as the ring.
AppRead(x) ==
    LET r == Read(h[x], sc.rx[x])
    IN  /\ r.data # <<>>
        /\ AppStep(x, r.h)
        /\ got' = [got EXCEPT ![x] = @ \o r.data]
        /\ UNCHANGED <<wrote, budget>>

AppClose(x) ==
    LET c == Close(h[x])
    IN  /\ budget.closes[x] > 0 /\ wrote[x] = sc.stream[x] /\ c.err = "nil"
        /\ AppStep(x, c.h)
        /\ budget' = [budget EXCEPT !.closes[x] = @ - 1]
        /\ UNCHANGED <<wrote, got>>

AppShutdownRead(x) ==
    /\ x \in sc.shutters /\ ~h[x].shutdownRx /\ ~CB!IsClosed(h[x].scb.state)
    /\ AppStep(x, ShutdownRead(h[x]))
    /\ UNCHANGED <<wrote, got, budget>>

\* A panic ends the program.
running == "panic" \notin failure

Next ==
    /\ running
    /\ \/ DialRetry
       \/ \E x \in Side :
            \/ Poll(x) \/ PollExpired(x)
            \/ Deliver(x) \/ DeliverTwice(x) \/ Lose(x)
            \/ AppWrite(x) \/ AppRead(x) \/ AppClose(x) \/ AppShutdownRead(x)

Spec == Init /\ [][Next]_vars

-----------------------------------------------------------------------------
(* What the connection promises.                                           *)

\* The bytes x has received in order: read ones, then buffered ones.
received(x) == got[x] \o Rx!copyOut(h[x].bufRx, h[x].bufRx.Off, Rx!Buffered(h[x].bufRx))

\* What x receives is a prefix of what its peer wrote, whatever the network loses,
\* repeats and reorders, and all of it once the state says that the peer's FIN came: a
\* reader that meets EOF has read everything (Handler.Recv, Read, reassembly.store,
\* reassemble, ringTx).
ReceivedIsPrefix ==
    \A x \in Side :
        LET r == received(x)
        IN  /\ r = [i \in 1 .. Len(r) |-> i] /\ Len(r) <= wrote[Peer(x)]
            /\ /\ h[x].scb.state \in {"CloseWait", "LastAck", "Closing", "TimeWait"}
               /\ h[x].connid = 1 /\ ~h[x].shutdownRx
               => Len(r) = wrote[Peer(x)]

\* The connection of x was neither aborted nor ended.
open(x) == h[x].connid = 1 /\ h[x].scb.state # "Closed"

\* The bytes x still keeps for retransmission or has not sent.
kept(x) == Tx!BufferedSent(h[x].bufTx) + Tx!BufferedUnsent(h[x].bufTx)

\* A byte leaves the transmit buffer only once the peer has it, and the transmit queue
\* and the control block agree on what is in flight, also after a timeout rewound both
\* (ringTx.RecvACK, Handler.Send, RetransmitFrom).
KeptUntilReceived ==
    \A x \in Side :
        LET snd == h[x].scb.snd
        IN  /\ open(x) /\ open(Peer(x)) /\ ~h[Peer(x)].shutdownRx
               => wrote[x] - kept(x) <= Len(received(Peer(x)))
            /\ open(x) /\ h[x].scb.state \in {"Established", "CloseWait"}
               => Tx!BufferedSent(h[x].bufTx) = Sizeof(snd.UNA, snd.NXT)

\* Data that arrives next in order always fits the receive buffer: no window
\* advertised, kept or scaled promises more (Handler.recvWindow, wireWnd).
WindowKept ==
    \A x \in Side : \A i \in DOMAIN net[x] :
        /\ open(x) /\ h[x].scb.state = "Established" /\ ~h[x].shutdownRx
        /\ net[x][i].SEQ = h[x].scb.rcv.NXT
        => Len(net[x][i].payload) <= Rx!Free(h[x].bufRx)

\* Neither a panic nor an error the code calls a bug is reached.
NoFailure == failure = {}

\* The one failure there is: a side in TIME-WAIT that still owes an ACK, and so did
\* not leave its stack, was handed one more segment (ControlBlock.Recv).
FailsOnlyInTimeWait ==
    failure # {} =>
        /\ failure = {"panic"}
        /\ \E x \in Side : /\ attached(x) /\ h[x].scb.state = "TimeWait"
                           /\ CB!HasPending(h[x].scb)

-----------------------------------------------------------------------------
(***************************************************************************)
(* TCPPair with the fairness its stacks and applications provide: as long  *)
(* as one of them has something to do, something is done.                  *)
(***************************************************************************)

\* What can be done at the moment; see also polls.
expires(x) == expired(x) /\ silent(x) /\ canEncapsulate(x)

writes(x) == /\ wrote[x] < sc.stream[x] /\ Tx!Free(h[x].bufTx) > 0
             /\ Write(h[x], <<0>>).err = "nil"

reads(x) == Read(h[x], sc.rx[x]).data # <<>>

closes(x) == budget.closes[x] > 0 /\ wrote[x] = sc.stream[x] /\ Close(h[x]).err = "nil"

redials == budget.redial > 0 /\ IsAwaitingControl(h["client"]) /\ ~h["client"].requeueControl

quiet ==
    \/ ~running
    \/ ~redials /\ \A x \in Side :
         /\ ~polls(x) /\ ~expires(x) /\ net[x] = <<>>
         /\ ~writes(x) /\ ~reads(x) /\ ~closes(x)

\* An application takes boundedly many steps, so that being fair to one is that it
\* is not possible time and again.  The last line is about the stacks: nothing stops
\* with work left, be it a frame to send or deliver or an expired timer.
Fairness ==
    /\ \A x \in Side : []<>(~running \/ ~(writes(x) \/ reads(x) \/ closes(x)))
    /\ []<>(~running \/ ~redials)
    /\ <>[]quiet \/ []<><<TRUE>>_vars

FairSpec == Spec /\ Fairness

\* Everything the applications mean to say is read in the end, losses included: the
\* timer resends, the reassembly joins, windows close and open again.  When both
\* applications close, both connections end and leave their stacks.
AllArrives ==
    /\ (sc.shutters = {} /\ \A x \in Side : sc.closes[x] = 0)
        => <>(\A x \in Side : Len(got[Peer(x)]) = sc.stream[x])
    /\ (\A x \in Side : sc.closes[x] > 0)
        => <>(~running \/ \A x \in Side : ~attached(x))
=============================================================================
