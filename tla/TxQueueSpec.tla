----------------------------- MODULE TxQueueSpec ------------------------------
(***************************************************************************)
(* A transmit queue as the Handler drives it: the application writes, the  *)
(* control block asks for the segment at snd.NXT, or again for the one at  *)
(* snd.UNA, acknowledgements move snd.UNA and the timer rewinds snd.NXT.   *)
(*                                                                         *)
(* The byte at stream position k is k, so a byte out of place shows.       *)
(***************************************************************************)
EXTENDS TxQueue

CONSTANTS
    ISS,         \* the stream's first sequence number
    BufSize, MaxPkts,
    MSS,         \* the longest packet
    MaxStream    \* bound: bytes the application writes

ASSUME TxQueueAssumption ==
    /\ ISS \in Value
    /\ BufSize \in Nat /\ BufSize >= 2 /\ BufSize < Half
    /\ MaxPkts \in 1 .. BufSize
    /\ MSS \in Nat \ {0}
    /\ MaxStream \in Nat

VARIABLES
    q,          \* the queue
    written,    \* stream bytes accepted so far
    una, nxt,   \* snd.UNA and snd.NXT, as stream positions
    sent        \* what the last MakePacket returned, and for which position

vars == <<q, written, una, nxt, sent>>

seqOf(pos) == Add(ISS, pos)
stream(from, to) == [k \in 1 .. to - from |-> from + k - 1]
Nothing == [pos |-> 0, data |-> <<>>, err |-> "nil"]

Init == /\ q = NewTx([i \in 1 .. BufSize |-> -1], MaxPkts, ISS)
        /\ written = 0 /\ una = 0 /\ nxt = 0
        /\ sent = Nothing

AppWrite(n) ==
    LET w == Write(q, stream(written, written + n))
    IN  /\ written + n <= MaxStream
        /\ w.err = "nil"
        /\ q' = w.q /\ written' = written + n /\ sent' = Nothing
        /\ UNCHANGED <<una, nxt>>

\* PendingSegment offers n bytes at snd.NXT, MakePacket fills them, and Send
\* advances snd.NXT.
SendNext(n) ==
    LET p == MakePacket(q, n, seqOf(nxt))
    IN  /\ q' = p.q /\ sent' = [pos |-> nxt, data |-> p.data, err |-> p.err]
        /\ nxt' = nxt + Len(p.data)
        /\ UNCHANGED <<written, una>>

\* Three duplicate acknowledgements: the segment at snd.UNA once more.
SendAgain(n) ==
    LET p == MakePacket(q, n, seqOf(una))
    IN  /\ una < nxt
        /\ q' = p.q /\ sent' = [pos |-> una, data |-> p.data, err |-> p.err]
        /\ UNCHANGED <<written, una, nxt>>

Ack(pos) ==
    /\ pos \in una + 1 .. nxt
    /\ una' = pos
    /\ q' = RecvACK(q, seqOf(pos)).q
    /\ sent' = Nothing
    /\ UNCHANGED <<written, nxt>>

\* An expired timer rewinds the control block and the queue to snd.UNA.
Rewind ==
    /\ q' = RetransmitFrom(q, seqOf(una))
    /\ nxt' = una
    /\ sent' = Nothing
    /\ UNCHANGED <<written, una>>

Next ==
    \/ \E n \in 1 .. BufSize : AppWrite(n)
    \/ \E n \in 1 .. MSS : SendNext(n) \/ SendAgain(n)
    \/ \E pos \in una + 1 .. nxt : Ack(pos)
    \/ Rewind

Spec == Init /\ [][Next]_vars

-----------------------------------------------------------------------------
contents(r) == IF R!IsEmpty(r) THEN <<>> ELSE R!read(r, R!Size(r))

\* The bytes kept for retransmission and those not sent yet are exactly the stream
\* from snd.UNA on: nothing unacknowledged is overwritten, freed or reordered,
\* through any number of wraps, partial acknowledgements and rewinds.  The rest of the
\* buffer is what Free promises and what a Write is given (txqueue.go:84,
\* handler.go:542-543).
StreamIntact ==
    /\ contents(sentRing(q)) = stream(una, nxt)
    /\ contents(unsentRing(q)) = stream(nxt, written)
    /\ \A n \in 1 .. BufSize : (Write(q, stream(0, n)).err = "nil") <=> n <= Free(q)

\* Every packet carries the bytes its sequence number stands for, a retransmission
\* included, and the queue never meets a state it calls a bug: MakePacket finds the
\* packet that snd.NXT or snd.UNA names and AddPacket does not panic (txqueue.go:136,
\* 154, 388).
PacketsCarryTheirBytes ==
    /\ sent.err \notin {"panic", "bug"}
    /\ sent.data = stream(sent.pos, sent.pos + Len(sent.data))
=============================================================================
