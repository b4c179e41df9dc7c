-------------------------- MODULE ControlBlockSpec --------------------------
(***************************************************************************)
(* One control block between a user and a network that may deliver any     *)
(* segment at any time.  The actions are the calls tcp.Handler makes:      *)
(* Open and the active SYN, Recv, PendingSegment followed by Send, the     *)
(* requeued handshake segment, Close, Abort and RetransmitFrom.            *)
(*                                                                         *)
(* The network is adversarial on purpose: it may repeat, reorder, delay    *)
(* and invent segments, so what holds here holds over every peer.  The     *)
(* segments it draws are placed relative to the block's own sequence       *)
(* numbers; with SeqDeltas = AckDeltas = Value it can send any segment.    *)
(***************************************************************************)
EXTENDS ControlBlock

CONSTANTS
    ISSs,         \* initial sequence numbers a user may choose
    Lens,         \* payload lengths
    Wnds,         \* window sizes, of either side
    SeqDeltas,    \* distance of a segment's SEQ from rcv.NXT
    AckDeltas,    \* distance of a segment's ACK from snd.UNA
    FlagSets      \* flag combinations on the wire

ASSUME ControlBlockSpecAssumption ==
    /\ ISSs \subseteq Value
    /\ Lens \subseteq Value
    /\ Wnds \subseteq 0 .. maxWindow
    /\ SeqDeltas \subseteq Value /\ AckDeltas \subseteq Value
    /\ FlagSets \subseteq SUBSET Flag

VARIABLES
    tcb,    \* the control block
    ret     \* how the last call ended: "ok", "refused" with an error, or "panic"

vars == <<tcb, ret>>

outcome(err) == CASE err = "nil" -> "ok"
                  [] err = "panic" -> "panic"
                  [] OTHER -> "refused"

returned(r) == tcb' = r.tcb /\ ret' = outcome(r.err)

\* A panic ends the program.
Running == ret # "panic"

Init == tcb = ZeroTCB /\ ret = "ok"

OpenListen(iss, wnd) ==
    /\ Running
    /\ returned(Open(tcb, iss, wnd))

\* OpenActive readies a closed block, the next Send emits the SYN.
OpenActive(iss, wnd) ==
    /\ Running
    /\ tcb.state \in {"Closed", "TimeWait"}
    /\ wnd > 0
    /\ returned(Send(SetRecvWindow(ZeroTCB, wnd), ClientSynSegment(iss, wnd)))

networkSegments ==
    [SEQ : {Add(tcb.rcv.NXT, d) : d \in SeqDeltas},
     ACK : {Add(tcb.snd.UNA, d) : d \in AckDeltas},
     DATALEN : Lens, WND : Wnds, Flags : FlagSets]

Receive(seg) ==
    /\ Running
    /\ returned(Recv(tcb, seg))

\* A sent RST tears the connection down.
afterSend(r, seg) ==
    IF Ok(r) /\ "RST" \in seg.Flags THEN Ret(Abort(r.tcb), r.err) ELSE r

\* The Handler offers the payload it has room for and sends as many of those
\* bytes as its buffer holds, with the window its receive buffer has left.
Transmit(room, wnd) ==
    LET p == PendingSegment(tcb, room)
    IN  /\ Running
        /\ p.ok
        /\ \E len \in 0 .. p.seg.DATALEN :
             LET seg == [p.seg EXCEPT !.DATALEN = len, !.WND = wnd]
             IN  returned(afterSend(Send(tcb, seg), seg))

\* requeueControl: the unanswered SYN or SYN-ACK goes out again.
Requeue(wnd) ==
    LET seg == IF tcb.state = "SynSent"
               THEN ClientSynSegment(tcb.snd.ISS, wnd)
               ELSE [SEQ |-> tcb.snd.UNA, ACK |-> tcb.rcv.NXT, DATALEN |-> 0,
                     WND |-> wnd, Flags |-> synack]
    IN  /\ Running
        /\ tcb.state \in {"SynSent", "SynRcvd"}
        /\ returned(Send(tcb, seg))

UserClose ==
    /\ Running
    /\ tcb.state # "Closed"
    /\ returned(Close(tcb))

UserAbort ==
    /\ Running
    /\ tcb.state # "Closed"
    /\ returned(Ret(Abort(tcb), "nil"))

\* A Policy may ask for any sequence number.
Retransmit(newNxt) ==
    LET r == RetransmitFrom(tcb, newNxt)
    IN  /\ Running
        /\ r.ok
        /\ returned(Ret(r.tcb, "nil"))

Next ==
    \/ \E iss \in ISSs, wnd \in Wnds : OpenListen(iss, wnd)
    \/ \E iss \in ISSs, wnd \in Wnds : OpenActive(iss, wnd)
    \/ \E seg \in networkSegments : Receive(seg)
    \/ \E room \in Lens, wnd \in Wnds : Transmit(room, wnd)
    \/ \E wnd \in Wnds : Requeue(wnd)
    \/ UserClose
    \/ UserAbort
    \/ \E v \in Value : Retransmit(v)

Spec == Init /\ [][Next]_vars

-----------------------------------------------------------------------------

\* The control block keeps the widths of its fields.
TypeOK == tcb \in TCB /\ ret \in {"ok", "refused", "panic"}

\* Whatever the network sends and however the windows move, what is sent and
\* unacknowledged fits the largest window plus a FIN.  sendSpace's comparisons are
\* made modulo 2^32 and mean nothing when the two ends of the send space are half
\* the space apart.
SendSpaceBounded == tcb.state # "Closed" => inFlight(tcb) <= maxWindow + 1

\* A segment that PendingSegment offers without payload (ACK, challenge ACK,
\* SYN-ACK, FIN, RST) is one Send accepts, in every state and with any window:
\* a control segment is never stuck in front of the queue.
PendingIsSendable ==
    LET p == PendingSegment(tcb, 0)
    IN  Running /\ p.ok => Ok(Send(tcb, p.seg))

synchronized(s) == s \notin {"Closed", "Listen", "SynSent", "SynRcvd"}

UnaStep ==
    synchronized(tcb.state) /\ synchronized(tcb'.state)
        => Sizeof(tcb.snd.UNA, tcb'.snd.UNA) <= inFlight(tcb)

RefusalStep ==
    (synchronized(tcb.state) /\ synchronized(tcb'.state) /\ ret' # "ok")
        => tcb'.snd = tcb.snd /\ tcb'.rcv = tcb.rcv

\* Within a connection an acknowledgement moves snd.UNA forward over sent data
\* only: never back, and never past snd.NXT.  A segment that Recv refuses, and that does
\* not close the connection, moves neither sequence space; neither does any other call
\* that fails.
SequencesKept == [][UnaStep /\ RefusalStep]_vars

-----------------------------------------------------------------------------
(* What every reachable control block satisfies.                           *)

finUnsent(t) == t.state \in {"Established", "CloseWait"} \/ "FIN" \in t.pending[0]

\* How much of the send space each state may have in flight.
flightBound(t) ==
    IF t.state = "Listen" THEN 0
    ELSE IF t.state \in {"SynSent", "SynRcvd"} THEN 1
    ELSE IF finUnsent(t) THEN maxWindow ELSE maxWindow + 1

FlightInv(t) == t.state # "Closed" => inFlight(t) <= flightBound(t)

OpeningInv(t) == IsPreestablished(t.state) => t.snd.UNA = t.snd.ISS

PendingInv(t) ==
    /\ t.pending[1] = {}
    /\ "SYN" \in t.pending[0] => t.state = "SynRcvd" /\ inFlight(t) = 0
    /\ "FIN" \in t.pending[0] =>
         /\ t.state \in {"SynRcvd", "Established", "CloseWait", "LastAck"}
         /\ "SYN" \notin t.pending[0]

ClosedInv(t) == t.state = "Closed" => t.pending[0] = {} /\ t.challengeAcks = 0

\* Retransmissions stop being counted early enough for dupack to stay a uint8.
CounterInv(t) ==
    t.nRetransmit <= Uint8Max - retransmitMaxQueued - retransmitAfterDupacks

BlockInv(t) ==
    FlightInv(t) /\ OpeningInv(t) /\ PendingInv(t) /\ ClosedInv(t) /\ CounterInv(t)

Inv == TypeOK /\ BlockInv(tcb)

\* LessThan orders two numbers both ways when they are exactly half the space
\* apart; this says that no segment acknowledges that number.
NoHalfwayAck == Half \notin AckDeltas

=============================================================================
