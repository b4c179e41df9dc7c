---------------------------- MODULE ControlBlock ----------------------------
(***************************************************************************)
(* The Transmission Control Block of one TCP endpoint (tcp/control.go and  *)
(* tcp/control_rcvhandlers.go).  Every method of the code is an operator   *)
(* from a TCB record to a TCB record; a method that can fail returns a     *)
(* record [tcb, err].  The modules that own the state (ControlBlockSpec,   *)
(* TCPPair) turn these operators into actions.                             *)
(*                                                                         *)
(* Flags are sets of flag names.  A Segment keeps the five fields the      *)
(* control block reads.                                                    *)
(***************************************************************************)
EXTENDS SeqSpace

CONSTANTS
    maxWindow,            \* largest window a peer may advertise, 0xFFFF << 14
    maxChallengeRejects,  \* 8 in the code
    Int8,                 \* an int8 is in -Int8 .. Int8-1; 128 in the code
    Uint8Max,             \* 255 in the code
    rstJump,              \* what a refused passive open adds to its ISS; 100 in the code
    scrambleIRS(_)        \* 3_14159_2653 ^ IRS

retransmitAfterDupacks == 3
retransmitMaxQueued == 2

ASSUME ControlBlockAssumption ==
    /\ maxWindow \in Nat \ {0} /\ maxWindow + 1 < Half
    /\ maxChallengeRejects \in Nat
    /\ Int8 \in Nat /\ maxChallengeRejects + 1 < Int8
    /\ Uint8Max \in Nat /\ Uint8Max > retransmitMaxQueued + retransmitAfterDupacks
    /\ rstJump \in Nat
    /\ \A v \in Value : scrambleIRS(v) \in Value

-----------------------------------------------------------------------------
(* Flags, segments and connection states (tcp/definitions.go).             *)

Flag == {"FIN", "SYN", "RST", "PSH", "ACK"}
synack == {"SYN", "ACK"}
flagctl == {"SYN", "FIN", "RST"}

HasAny(flags, mask) == flags \cap mask # {}

\* SYN and FIN occupy a sequence number each.
LEN(seg) ==
    seg.DATALEN + (IF "FIN" \in seg.Flags THEN 1 ELSE 0)
                + (IF "SYN" \in seg.Flags THEN 1 ELSE 0)

Last(seg) == IF LEN(seg) = 0 THEN seg.SEQ ELSE Add(seg.SEQ, LEN(seg) - 1)

isFirstSYN(seg) ==
    seg.Flags = {"SYN"} /\ seg.ACK = 0 /\ seg.DATALEN = 0 /\ seg.WND > 0

ClientSynSegment(clientISS, clientWND) ==
    [SEQ |-> clientISS, ACK |-> 0, DATALEN |-> 0, WND |-> clientWND, Flags |-> {"SYN"}]

State == {"Closed", "Listen", "SynRcvd", "SynSent", "Established", "FinWait1",
          "FinWait2", "Closing", "TimeWait", "CloseWait", "LastAck"}

IsPreestablished(s) == s \in {"SynRcvd", "SynSent", "Listen"}
IsClosed(s) == s \in {"Closed", "TimeWait"}
TxDataOpen(s) == s \in {"Established", "CloseWait"}
txQueuedDataOpen(s) == TxDataOpen(s) \/ s \in {"FinWait1", "Closing", "LastAck"}
RxDataOpen(s) == s \in {"Established", "FinWait1", "FinWait2"}

-----------------------------------------------------------------------------
(* The control block.                                                      *)

sendSpace == [ISS : Value, UNA : Value, NXT : Value, WND : 0 .. maxWindow,
              MSS : Nat, WL1 : Value, WL2 : Value]

recvSpace == [IRS : Value, NXT : Value, WND : 0 .. maxWindow]

TCB == [state : State, snd : sendSpace, rcv : recvSpace, rstPtr : Value,
        pending : [0 .. 1 -> SUBSET Flag],
        challengeAcks : -Int8 .. Int8 - 1,
        dupack : 0 .. Uint8Max, nRetransmit : 0 .. Uint8Max]

NoFlags == [i \in 0 .. 1 |-> {}]

\* resetSnd and resetRcv start from these.
newSnd(localISS, remoteWND) ==
    [ISS |-> localISS, UNA |-> localISS, NXT |-> localISS, WND |-> remoteWND,
     MSS |-> 0, WL1 |-> 0, WL2 |-> 0]

newRcv(localWND, remoteISS) ==
    [IRS |-> remoteISS, NXT |-> remoteISS, WND |-> localWND]

ZeroTCB ==
    [state |-> "Closed", snd |-> newSnd(0, 0), rcv |-> newRcv(0, 0), rstPtr |-> 0,
     pending |-> NoFlags, challengeAcks |-> 0, dupack |-> 0, nRetransmit |-> 0]

\* Abort and reset: nothing of the connection is left.
Abort(t) == ZeroTCB

prepareToHandshake(t, iss, wnd, newState) ==
    [ZeroTCB EXCEPT !.state = newState, !.snd = newSnd(iss, 1), !.rcv = newRcv(wnd, 0)]

SetRecvWindow(t, wnd) == [t EXCEPT !.rcv.WND = wnd]

inFlight(t) == Sizeof(t.snd.UNA, t.snd.NXT)

\* What the peer's window still admits; 0 when it shrank below what is in flight.
maxSend(t) == IF inFlight(t) >= t.snd.WND THEN 0 ELSE t.snd.WND - inFlight(t)

queueFlags(t, flags) == [t EXCEPT !.pending[0] = @ \cup flags]

QueueRST(t, seq) ==
    [t EXCEPT !.pending = [NoFlags EXCEPT ![0] = {"RST"}], !.rstPtr = seq]

-----------------------------------------------------------------------------
(* Challenge ACKs.  The sign of the counter says that one is waiting to be *)
(* sent; negating the smallest int8 yields the smallest int8 again.        *)

negInt8(c) == IF c = -Int8 THEN c ELSE -c

pendingChallengeAck(t) == t.challengeAcks < 0

triggerChallengeAckEmit(t) ==
    IF t.challengeAcks >= 0 THEN [t EXCEPT !.challengeAcks = -@ - 1] ELSE t

triggerChallengeAckSent(t) ==
    IF t.challengeAcks < 0 THEN [t EXCEPT !.challengeAcks = negInt8(@)] ELSE t

tooManyChallengeAcks(t) ==
    \/ t.challengeAcks > maxChallengeRejects
    \/ t.challengeAcks < -maxChallengeRejects

-----------------------------------------------------------------------------
(* Questions the code asks of a control block.                             *)

IncomingIsKeepalive(t, seg) ==
    /\ seg.SEQ = Sizeof(1, t.rcv.NXT)
    /\ seg.Flags = {"ACK"}
    /\ seg.ACK = t.snd.NXT
    /\ seg.DATALEN = 0

IncomingIsDupACK(t, ack) == ack = t.snd.UNA /\ LessThan(ack, t.snd.NXT)

HasPendingRetransmit(t) ==
    /\ TxDataOpen(t.state)
    /\ t.dupack >= retransmitAfterDupacks
    /\ t.nRetransmit <= t.dupack - retransmitAfterDupacks

HasPending(t) ==
    t.pending[0] # {} \/ pendingChallengeAck(t) \/ HasPendingRetransmit(t)

-----------------------------------------------------------------------------
(* Recv.                                                                   *)

Ret(t, e) == [tcb |-> t, err |-> e]

Ok(r) == r.err = "nil"

handleRST(t, seq) ==
    CASE t.state = "SynSent" -> Ret(Abort(t), "closed")
      [] t.state = "Listen" -> Ret(t, "drop")
      [] t.state = "SynRcvd" ->
           Ret([t EXCEPT !.pending[0] = {},
                         !.state = "Listen",
                         !.snd = newSnd(Add(t.snd.ISS, rstJump), t.snd.WND),
                         !.rcv = newRcv(t.rcv.WND, scrambleIRS(t.rcv.IRS))], "drop")
      [] OTHER ->
           IF seq # t.rcv.NXT
           THEN Ret(queueFlags(triggerChallengeAckEmit(t), {"ACK"}), "drop")
           ELSE Ret(Abort(t), "closed")

\* The acceptability test: which of the checks, in the code's order, refuses seg.
refusal(t, seg) ==
    LET checkSEQ == ("SYN" \notin seg.Flags \/ ~IsPreestablished(t.state))
                    /\ t.state # "Listen"
        zeroWindowOK == t.rcv.WND = 0 /\ seg.DATALEN = 0 /\ seg.SEQ = t.rcv.NXT
    IN  IF seg.WND > maxWindow THEN "windowOverflow"
        ELSE IF t.state = "Closed" THEN "closedPipe"
        ELSE IF /\ checkSEQ
                /\ \/ t.rcv.WND = 0 /\ seg.DATALEN > 0 /\ seg.SEQ = t.rcv.NXT
                   \/ ~InWindow(seg.SEQ, t.rcv.NXT, t.rcv.WND) /\ ~zeroWindowOK
                   \/ ~InWindow(Last(seg), t.rcv.NXT, t.rcv.WND) /\ ~zeroWindowOK
                   \/ "RST" \notin seg.Flags /\ seg.SEQ # t.rcv.NXT
        THEN "reject"
        ELSE "nil"

validateIncomingSegment(t, seg) ==
    LET hasAck == "ACK" \in seg.Flags
        established == t.state = "Established"
        acksOld == hasAck /\ ~LessThan(t.snd.UNA, seg.ACK)
        acksUnsentData == hasAck /\ ~LessThanEq(seg.ACK, t.snd.NXT)
        ctlOrData == seg.DATALEN > 0 \/ HasAny(seg.Flags, {"FIN", "RST"})
        err == refusal(t, seg)
    IN  IF err # "nil"
        THEN IF err # "reject" \/ "RST" \in seg.Flags THEN Ret(t, err)
             ELSE IF tooManyChallengeAcks(t) THEN Ret(Abort(t), "closed")
             ELSE Ret(triggerChallengeAckEmit(t), err)
        ELSE IF "RST" \in seg.Flags THEN handleRST(t, seg.SEQ)
        ELSE IF established /\ acksOld /\ ~ctlOrData THEN Ret(t, "nil")
        ELSE IF established /\ acksUnsentData THEN Ret(queueFlags(t, {"ACK"}), "drop")
        ELSE IF IsPreestablished(t.state) /\ (acksOld \/ acksUnsentData)
        THEN Ret([t EXCEPT !.pending[0] = {"RST"},
                           !.rstPtr = seg.ACK,
                           !.snd = newSnd(t.snd.ISS, seg.WND)], "drop")
        ELSE Ret(t, "nil")

\* Each rcv<State> handler returns the new block, the flags it queues and an error.
Handled(t, p, e) == [tcb |-> t, pending |-> p, err |-> e]

rcvListen(t, seg) ==
    IF "SYN" \notin seg.Flags
    THEN Handled(t, {}, "expectedSYN")
    ELSE Handled([t EXCEPT !.snd = newSnd(t.snd.ISS, seg.WND),
                           !.rcv = newRcv(t.rcv.WND, seg.SEQ),
                           !.pending[0] = synack,
                           !.state = "SynRcvd"], synack, "nil")

rcvSynSent(t, seg) ==
    IF "SYN" \notin seg.Flags
    THEN Handled(t, {}, "expectedSYN")
    ELSE IF "ACK" \in seg.Flags
    THEN IF seg.ACK # Add(t.snd.UNA, 1)
         THEN Handled(t, {}, "badSegack")
         ELSE Handled([t EXCEPT !.state = "Established",
                                !.rcv = newRcv(t.rcv.WND, seg.SEQ)], {"ACK"}, "nil")
    ELSE \* Both sides sent a SYN.
         Handled([t EXCEPT !.state = "SynRcvd",
                           !.snd = newSnd(t.snd.ISS, seg.WND),
                           !.rcv = newRcv(t.rcv.WND, seg.SEQ)], synack, "nil")

rcvSynRcvd(t, seg) ==
    IF "ACK" \notin seg.Flags \/ seg.ACK # Add(t.snd.UNA, 1)
    THEN Handled(t, {}, "badSegack")
    ELSE Handled([t EXCEPT !.state = "Established"], {}, "nil")

\* The ACK owed for data or a FIN.
owedAck(seg) == IF seg.DATALEN > 0 \/ "FIN" \in seg.Flags THEN {"ACK"} ELSE {}

rcvEstablished(t, seg) ==
    Handled(IF "FIN" \in seg.Flags THEN [t EXCEPT !.state = "CloseWait"] ELSE t,
            owedAck(seg), "nil")

rcvFinWait1(t, seg) ==
    LET hasFin == "FIN" \in seg.Flags
        hasAck == "ACK" \in seg.Flags
        acksNxt == hasAck /\ seg.ACK = t.snd.NXT
        next == IF hasFin THEN IF acksNxt THEN "TimeWait" ELSE "Closing"
                          ELSE IF acksNxt THEN "FinWait2" ELSE t.state
    IN  IF ~hasFin /\ ~hasAck
        THEN Handled(t, {}, "finwaitExpectedACK")
        ELSE Handled([t EXCEPT !.state = next], owedAck(seg), "nil")

rcvFinWait2(t, seg) ==
    Handled(IF "FIN" \in seg.Flags THEN [t EXCEPT !.state = "TimeWait"] ELSE t,
            owedAck(seg), "nil")

\* LAST-ACK and CLOSING take any acknowledgement for the one of their FIN.
rcvLastAck(t, seg) == Handled(IF "ACK" \in seg.Flags THEN Abort(t) ELSE t, {}, "nil")

\* Mutant: CLOSING has no case either.
rcvClosingMutant(t, seg) == Handled(t, {}, "panic")

rcvClosing(t, seg) ==
    Handled(IF "ACK" \in seg.Flags THEN [t EXCEPT !.state = "TimeWait"] ELSE t, {}, "nil")

\* TIME-WAIT has no case in the code's switch: its default case panics.
rcvByState(t, seg) ==
    CASE t.state = "Listen" -> rcvListen(t, seg)
      [] t.state = "SynSent" -> rcvSynSent(t, seg)
      [] t.state = "SynRcvd" -> rcvSynRcvd(t, seg)
      [] t.state = "Established" -> rcvEstablished(t, seg)
      [] t.state = "FinWait1" -> rcvFinWait1(t, seg)
      [] t.state = "FinWait2" -> rcvFinWait2(t, seg)
      [] t.state = "CloseWait" -> Handled(t, {}, "nil")
      [] t.state = "LastAck" -> rcvLastAck(t, seg)
      [] t.state = "Closing" -> rcvClosing(t, seg)
      [] OTHER -> Handled(t, {}, "panic")

\* RFC 9293 step 5: the window is taken from a segment that is not older than
\* the one that set it last; WL1 = WL2 = 0 says that none did.
updateSendWindow(t, seg) ==
    LET snd == t.snd
        fresh == \/ snd.WL1 = 0 /\ snd.WL2 = 0
                 \/ LessThan(snd.WL1, seg.SEQ)
                 \/ snd.WL1 = seg.SEQ /\ LessThanEq(snd.WL2, seg.ACK)
        takes == LessThan(snd.UNA, seg.ACK) \/ seg.WND > snd.WND
    IN  IF ~fresh THEN t
        ELSE [t EXCEPT !.snd.WND = IF takes THEN seg.WND ELSE @,
                       !.snd.WL1 = seg.SEQ,
                       !.snd.WL2 = seg.ACK]

\* Mutant: an acknowledgement of unsent sequence numbers is taken too.
updateUNAMutant(t, seg) ==
    IF "ACK" \in seg.Flags /\ LessThan(t.snd.UNA, seg.ACK)
    THEN [t EXCEPT !.snd.UNA = seg.ACK, !.dupack = 0, !.nRetransmit = 0]
    ELSE t

updateUNA(t, seg) ==
    IF "ACK" \notin seg.Flags \/ ~LessThanEq(seg.ACK, t.snd.NXT)
    THEN t
    ELSE IF /\ IncomingIsDupACK(t, seg.ACK)
            /\ TxDataOpen(t.state)
            /\ ~HasAny(seg.Flags, flagctl)
            /\ t.dupack < t.nRetransmit + retransmitMaxQueued + retransmitMaxQueued
    THEN [t EXCEPT !.dupack = @ + 1]
    ELSE IF LessThan(t.snd.UNA, seg.ACK)
    THEN [t EXCEPT !.snd.UNA = seg.ACK, !.dupack = 0, !.nRetransmit = 0]
    ELSE t

advanceRcv(t, seg) == [t EXCEPT !.rcv.NXT = Add(@, LEN(seg))]

\* What Recv does once the state's handler accepted the segment.
accept(h, seg) ==
    advanceRcv(updateUNA(updateSendWindow(
        [queueFlags(h.tcb, h.pending) EXCEPT !.challengeAcks = 0], seg), seg), seg)

Recv(t, seg) ==
    LET v == validateIncomingSegment(t, seg)
        h == rcvByState(t, seg)
    IN  IF ~Ok(v) THEN v
        ELSE IF "SYN" \in seg.Flags /\ ~IsPreestablished(t.state)
        THEN Ret(queueFlags(triggerChallengeAckEmit(t), {"ACK"}), "drop")
        ELSE IF ~Ok(h) THEN Ret(t, h.err)
        ELSE Ret(accept(h, seg), "nil")

-----------------------------------------------------------------------------
(* Send.                                                                   *)

MakeChallengeACK(t) ==
    [SEQ |-> t.snd.NXT, ACK |-> t.rcv.NXT, DATALEN |-> 0, WND |-> t.rcv.WND,
     Flags |-> {"ACK"}]

\* The segment to send next, given payloadLen bytes that could go with it.
PendingSegment(t, payloadLen) ==
    LET open == txQueuedDataOpen(t.state)
        want == IF open THEN payloadLen ELSE 0
        fits == IF want > maxSend(t) THEN maxSend(t) ELSE want
        len == IF t.snd.MSS > 0 /\ fits > t.snd.MSS THEN t.snd.MSS ELSE fits
        flags == IF open THEN t.pending[0] \cup {"ACK"} ELSE t.pending[0]
    IN  IF pendingChallengeAck(t)
        THEN [ok |-> TRUE, seg |-> MakeChallengeACK(t)]
        ELSE IF ~HasAny(t.pending[0], flagctl) /\ HasPendingRetransmit(t)
        THEN [ok |-> TRUE,
              seg |-> [SEQ |-> t.snd.UNA, ACK |-> t.rcv.NXT, DATALEN |-> payloadLen,
                       WND |-> t.rcv.WND, Flags |-> {"ACK"}]]
        ELSE [ok |-> t.pending[0] # {} \/ (want > 0 /\ maxSend(t) > 0),
              seg |-> [SEQ |-> IF "RST" \in flags THEN t.rstPtr ELSE t.snd.NXT,
                       ACK |-> IF "ACK" \in flags THEN t.rcv.NXT ELSE 0,
                       DATALEN |-> len, WND |-> t.rcv.WND, Flags |-> flags]]

\* Mutant: the sequence number of an RST is checked like any other.
outgoingErrMutant(t, seg) ==
    LET isFirst == t.state = "Closed" /\ isFirstSYN(seg)
        outside == /\ ~InWindow(seg.SEQ, t.snd.NXT, t.snd.WND)
                   /\ ~InRange(seg.SEQ, t.snd.UNA, t.snd.NXT)
    IN  IF t.state = "Closed" /\ ~isFirst THEN "closedPipe"
        ELSE IF ~isFirst /\ outside THEN "reject"
        ELSE "nil"

outgoingErr(t, seg) ==
    LET isFirst == t.state = "Closed" /\ isFirstSYN(seg)
        checkSeq == ~isFirst /\ "RST" \notin seg.Flags
        zeroWindowOK == t.snd.WND = 0 /\ seg.DATALEN = 0 /\ seg.SEQ = t.snd.NXT
        isRetransmit == checkSeq /\ InRange(seg.SEQ, t.snd.UNA, t.snd.NXT)
        outside(v) == /\ checkSeq
                      /\ ~InWindow(v, t.snd.NXT, t.snd.WND)
                      /\ ~zeroWindowOK /\ ~isRetransmit
    IN  IF t.state = "Closed" /\ ~isFirst THEN "closedPipe"
        ELSE IF seg.WND > maxWindow THEN "windowTooLarge"
        ELSE IF \/ "ACK" \in seg.Flags /\ seg.ACK # t.rcv.NXT
                \/ outside(seg.SEQ)
                \/ seg.DATALEN > 0 /\ t.state = "FinWait2"
                \/ checkSeq /\ t.snd.WND = 0 /\ seg.DATALEN > 0 /\ seg.SEQ = t.snd.NXT
                \/ outside(Last(seg))
        THEN "reject"
        ELSE "nil"

\* The state Send leaves behind; an active open starts from a fresh block.
sendState(t, seg) ==
    CASE t.state = "Closed" /\ seg.Flags = {"SYN"} ->
           prepareToHandshake(t, seg.SEQ, seg.WND, "SynSent")
      [] t.state \in {"SynRcvd", "Established"} /\ "FIN" \in seg.Flags ->
           [t EXCEPT !.state = "FinWait1"]
      [] t.state = "Closing" /\ "ACK" \in seg.Flags -> [t EXCEPT !.state = "TimeWait"]
      [] t.state = "CloseWait" /\ "FIN" \in seg.Flags -> [t EXCEPT !.state = "LastAck"]
      [] OTHER -> t

advancePending(t, seg) ==
    LET rest == t.pending[0] \ seg.Flags
    IN  [t EXCEPT !.pending =
           IF rest = {}
           THEN [NoFlags EXCEPT ![0] = t.pending[1] \ (seg.Flags \cap {"FIN"})]
           ELSE [t.pending EXCEPT ![0] = rest]]

advanceSnd(t, seg) ==
    IF LessThan(seg.SEQ, t.snd.NXT)
    THEN IF t.nRetransmit < Uint8Max - retransmitMaxQueued - retransmitAfterDupacks
         THEN [t EXCEPT !.nRetransmit = @ + 1]
         ELSE t
    ELSE [t EXCEPT !.snd.NXT = Add(@, LEN(seg))]

Send(t, seg) ==
    LET err == outgoingErr(t, seg)
        queued == advancePending(sendState(t, seg), seg)
        challenged == IF "ACK" \in seg.Flags THEN triggerChallengeAckSent(queued) ELSE queued
    IN  IF err # "nil" THEN Ret(t, err)
        ELSE Ret(SetRecvWindow(advanceSnd(challenged, seg), seg.WND), "nil")

-----------------------------------------------------------------------------
(* The user calls.                                                         *)

Open(t, iss, wnd) ==
    IF ~IsClosed(t.state) THEN Ret(t, "needClosed")
    ELSE IF wnd > maxWindow THEN Ret(t, "windowTooLarge")
    ELSE Ret(prepareToHandshake(t, iss, wnd, "Listen"), "nil")

Close(t) ==
    CASE t.state = "Closed" -> Ret(t, "connNotExist")
      [] t.state = "CloseWait" ->
           Ret([t EXCEPT !.state = "LastAck",
                         !.pending = [NoFlags EXCEPT ![0] = {"FIN", "ACK"}]], "nil")
      [] t.state \in {"Listen", "SynSent"} -> Ret(Abort(t), "nil")
      [] t.state \in {"SynRcvd", "Established"} ->
           Ret([t EXCEPT !.pending[0] = (@ \cap {"ACK"}) \cup {"FIN"}], "nil")
      [] OTHER -> Ret(t, "closing")

RetransmitFrom(t, newNxt) ==
    IF \/ ~txQueuedDataOpen(t.state)
       \/ LessThan(newNxt, t.snd.UNA)
       \/ LessThan(t.snd.NXT, newNxt)
    THEN [ok |-> FALSE, tcb |-> t]
    ELSE [ok |-> TRUE,
          tcb |-> [t EXCEPT !.snd.NXT = newNxt, !.dupack = 0, !.nRetransmit = 0]]

=============================================================================
