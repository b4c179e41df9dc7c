------------------------- MODULE ControlBlock_proofs --------------------------
(* Proofs about ControlBlockSpec, for every sequence space, window and     *)
(* segment set its assumptions allow.  This first part has the arithmetic  *)
(* of the sequence space and the receive path.                             *)
EXTENDS ControlBlockSpec, TLAPS

-----------------------------------------------------------------------------
(* Arithmetic of the sequence space.                                       *)

\* The word's modulus is twice its half, so the halves meet without a gap.
LEMMA HalfDouble == Half \in Nat /\ 2 * Half = SeqMod
BY SeqModAssumption DEF Half

\* Adding to a sequence number wraps into the sequence space.
LEMMA AddType == \A v \in Value, n \in Nat : Add(v, n) \in Value
BY SeqModAssumption DEF Add, Value

\* The wrapping sum of two words.
LEMMA AddIs ==
    \A v, n \in Value :
        Add(v, n) = IF v + n < SeqMod THEN v + n ELSE v + n - SeqMod
BY SeqModAssumption DEF Add, Value

\* The wrapping difference of two words.
LEMMA SizeofIs ==
    \A v, w \in Value :
        Sizeof(v, w) = IF w >= v THEN w - v ELSE w - v + SeqMod
BY SeqModAssumption DEF Sizeof, Value

\* The distance between two sequence numbers is a natural number.
LEMMA SizeofNat == \A v, w \in Value : Sizeof(v, w) \in Nat
BY SeqModAssumption DEF Sizeof, Value

-----------------------------------------------------------------------------
(* The operators of ControlBlock keep a block a block.                     *)

\* Segments the network may deliver.
Seg == [SEQ : Value, ACK : Value, DATALEN : Value, WND : 0 .. maxWindow,
        Flags : SUBSET Flag]

\* The word 0 and the word 1 exist.
LEMMA SmallValues == 0 \in Value /\ 1 \in Value
BY SeqModAssumption DEF Value

\* A fresh send space is one.
LEMMA NewSndType ==
    \A iss \in Value, wnd \in 0 .. maxWindow : newSnd(iss, wnd) \in sendSpace
BY SmallValues DEF newSnd, sendSpace

\* A fresh receive space is one.
LEMMA NewRcvType ==
    \A irs \in Value, wnd \in 0 .. maxWindow : newRcv(wnd, irs) \in recvSpace
BY DEF newRcv, recvSpace

\* The zeroed block of Abort is a block.
LEMMA ZeroType == ZeroTCB \in TCB
<1>1. newSnd(0, 0) \in sendSpace /\ newRcv(0, 0) \in recvSpace
  BY NewSndType, NewRcvType, SmallValues, ControlBlockAssumption
<1>2. NoFlags \in [0 .. 1 -> SUBSET Flag]
  BY DEF NoFlags
<1>3. 0 \in -Int8 .. Int8 - 1 /\ 0 \in 0 .. Uint8Max
  BY ControlBlockAssumption
<1> QED BY <1>1, <1>2, <1>3, SmallValues DEF ZeroTCB, TCB, State

\* A handshake starts from a block.
LEMMA HandshakeType ==
    ASSUME NEW t \in TCB, NEW iss \in Value, NEW wnd \in 0 .. maxWindow,
           NEW s \in State
    PROVE  prepareToHandshake(t, iss, wnd, s) \in TCB
<1>1. newSnd(iss, 1) \in sendSpace /\ newRcv(wnd, 0) \in recvSpace
  BY NewSndType, NewRcvType, SmallValues, ControlBlockAssumption
<1> QED BY <1>1, ZeroType, Zenon DEF prepareToHandshake, TCB

\* Queuing flags keeps the block's type.
LEMMA QueueType ==
    ASSUME NEW t \in TCB, NEW flags \in SUBSET Flag
    PROVE  queueFlags(t, flags) \in TCB
BY DEF queueFlags, TCB

\* The challenge counter keeps its width, at both ends.
LEMMA ChallengeType ==
    ASSUME NEW t \in TCB
    PROVE  triggerChallengeAckEmit(t) \in TCB /\ triggerChallengeAckSent(t) \in TCB
<1>1. triggerChallengeAckEmit(t) \in TCB
  BY ControlBlockAssumption DEF triggerChallengeAckEmit, TCB
<1>2. triggerChallengeAckSent(t) \in TCB
  BY ControlBlockAssumption DEF triggerChallengeAckSent, negInt8, TCB
<1> QED BY <1>1, <1>2

\* A segment occupies a natural number of sequence numbers.
LEMMA LenType == \A seg \in Seg : LEN(seg) \in Nat
BY SeqModAssumption DEF LEN, Seg, Value

\* The verdict on an incoming segment leaves a block.
LEMMA ValidateType ==
    ASSUME NEW t \in TCB, NEW seg \in Seg
    PROVE  validateIncomingSegment(t, seg).tcb \in TCB
<1>1. handleRST(t, seg.SEQ).tcb \in TCB
  <2>1. newSnd(Add(t.snd.ISS, rstJump), t.snd.WND) \in sendSpace
    BY NewSndType, AddType, ControlBlockAssumption, Zenon DEF TCB, sendSpace
  <2>2. newRcv(t.rcv.WND, scrambleIRS(t.rcv.IRS)) \in recvSpace
    BY NewRcvType, ControlBlockAssumption, Zenon DEF TCB, recvSpace
  <2>3. queueFlags(triggerChallengeAckEmit(t), {"ACK"}) \in TCB
    BY ChallengeType, QueueType DEF Flag
  <2>4. Abort(t) \in TCB
    BY ZeroType DEF Abort
  <2> DEFINE back == [t EXCEPT !.pending[0] = {},
                               !.state = "Listen",
                               !.snd = newSnd(Add(t.snd.ISS, rstJump), t.snd.WND),
                               !.rcv = newRcv(t.rcv.WND, scrambleIRS(t.rcv.IRS))]
  <2>5. back \in TCB
    BY <2>1, <2>2, Zenon DEF TCB, State
  <2> QED BY <2>3, <2>4, <2>5 DEF handleRST, Ret
<1>2. queueFlags(t, {"ACK"}) \in TCB
  BY QueueType DEF Flag
<1>3. Abort(t) \in TCB /\ triggerChallengeAckEmit(t) \in TCB
  BY ZeroType, ChallengeType DEF Abort
<1>4. newSnd(t.snd.ISS, seg.WND) \in sendSpace
  BY NewSndType, Zenon DEF TCB, sendSpace, Seg
<1>5. [t EXCEPT !.pending[0] = {"RST"}, !.rstPtr = seg.ACK,
                !.snd = newSnd(t.snd.ISS, seg.WND)] \in TCB
  BY <1>4, Zenon DEF TCB, Seg, Flag
<1> QED
  BY <1>1, <1>2, <1>3, <1>5 DEF validateIncomingSegment, Ret, refusal

\* Each state's handler leaves a block and queues flags.
LEMMA HandlerType ==
    ASSUME NEW t \in TCB, NEW seg \in Seg
    PROVE  /\ rcvByState(t, seg).tcb \in TCB
           /\ rcvByState(t, seg).pending \in SUBSET Flag
<1> DEFINE ok(h) == h.tcb \in TCB /\ h.pending \in SUBSET Flag
<1>1. newSnd(t.snd.ISS, seg.WND) \in sendSpace /\ newRcv(t.rcv.WND, seg.SEQ) \in recvSpace
  BY NewSndType, NewRcvType, Zenon DEF TCB, sendSpace, recvSpace, Seg
<1>2. owedAck(seg) \in SUBSET Flag
  BY DEF owedAck, Flag
<1>3. \A s \in State : [t EXCEPT !.state = s] \in TCB
  BY DEF TCB
<1>4. Abort(t) \in TCB
  BY ZeroType DEF Abort
<1>5. ok(rcvListen(t, seg))
  BY <1>1, Zenon DEF rcvListen, Handled, TCB, State, synack, Flag
<1>6. ok(rcvSynSent(t, seg))
  BY <1>1, Zenon DEF rcvSynSent, Handled, TCB, State, synack, Flag
<1>7. ok(rcvSynRcvd(t, seg))
  BY <1>3 DEF rcvSynRcvd, Handled, State
<1>8. ok(rcvEstablished(t, seg)) /\ ok(rcvFinWait2(t, seg))
  BY <1>2, <1>3 DEF rcvEstablished, rcvFinWait2, Handled, State
<1>9. ok(rcvFinWait1(t, seg))
  BY <1>2, <1>3, Zenon DEF rcvFinWait1, Handled, TCB, State
<1>10. ok(rcvLastAck(t, seg)) /\ ok(rcvClosing(t, seg))
  BY <1>3, <1>4 DEF rcvLastAck, rcvClosing, Handled, State
<1>11. ok(Handled(t, {}, "nil")) /\ ok(Handled(t, {}, "panic"))
  BY DEF Handled
<1> HIDE DEF ok
<1>12. ok(rcvByState(t, seg))
  BY <1>5, <1>6, <1>7, <1>8, <1>9, <1>10, <1>11 DEF rcvByState, TCB, State
<1> QED BY <1>12 DEF ok

-----------------------------------------------------------------------------
(* Every operator takes a good block to a good block.                      *)

GoodBlock(t) == t \in TCB /\ BlockInv(t)

\* Nothing lies between a sequence number and itself.
LEMMA SizeofSelf == \A v \in Value : Sizeof(v, v) = 0
BY SizeofIs DEF Value

\* An acknowledgement that is not exactly half the space away, that is after UNA
\* and not after NXT splits what is in flight in two.
LEMMA AckSplitsFlight ==
    ASSUME NEW una \in Value, NEW nxt \in Value, NEW ack \in Value,
           Sizeof(una, ack) # Half, LessThan(una, ack), LessThanEq(ack, nxt)
    PROVE  /\ Sizeof(una, ack) >= 1
           /\ Sizeof(una, ack) + Sizeof(ack, nxt) = Sizeof(una, nxt)
<1> DEFINE dist(v, w) == IF w >= v THEN w - v ELSE w - v + SeqMod
<1>1. /\ Sizeof(una, ack) = dist(una, ack) /\ Sizeof(ack, una) = dist(ack, una)
      /\ Sizeof(ack, nxt) = dist(ack, nxt) /\ Sizeof(nxt, ack) = dist(nxt, ack)
      /\ Sizeof(una, nxt) = dist(una, nxt)
  BY SizeofIs
<1> QED BY <1>1, HalfDouble, SeqModAssumption DEF LessThan, LessThanEq, Value

\* The zeroed block is good.
LEMMA ZeroGood == GoodBlock(ZeroTCB)
BY ZeroType, ControlBlockAssumption
   DEF GoodBlock, BlockInv, FlightInv, OpeningInv, PendingInv, ClosedInv, CounterInv,
       ZeroTCB, IsPreestablished, NoFlags, retransmitMaxQueued, retransmitAfterDupacks

\* A fresh send space has nothing in flight.
LEMMA NewSndFlight ==
    ASSUME NEW iss \in Value, NEW wnd, NEW t, t.snd = newSnd(iss, wnd)
    PROVE  inFlight(t) = 0
BY SizeofSelf DEF inFlight, newSnd

\* A block is as good as one that differs from it in its challenge counter, its
\* pointer, its windows and a pending ACK only, unless it is closed.
LEMMA SameFlightGood ==
    ASSUME NEW t, GoodBlock(t), t.state # "Closed",
           NEW u \in TCB, u.state = t.state,
           u.snd.ISS = t.snd.ISS, u.snd.UNA = t.snd.UNA, u.snd.NXT = t.snd.NXT,
           u.pending[1] = t.pending[1],
           \A f \in {"SYN", "FIN"} : f \in u.pending[0] <=> f \in t.pending[0],
           CounterInv(u)
    PROVE  GoodBlock(u)
<1>1. inFlight(u) = inFlight(t)
  BY DEF inFlight
<1>2. finUnsent(u) = finUnsent(t)
  BY DEF finUnsent
<1>3. flightBound(u) = flightBound(t)
  BY <1>2 DEF flightBound
<1>4. PendingInv(u)
  BY <1>1 DEF GoodBlock, BlockInv, PendingInv
<1> QED
  BY <1>1, <1>3, <1>4
  DEF GoodBlock, BlockInv, FlightInv, OpeningInv, ClosedInv

\* The blocks a verdict can leave.
backToListen(t) ==
    [t EXCEPT !.pending[0] = {},
              !.state = "Listen",
              !.snd = newSnd(Add(t.snd.ISS, rstJump), t.snd.WND),
              !.rcv = newRcv(t.rcv.WND, scrambleIRS(t.rcv.IRS))]

answerRST(t, seg) ==
    [t EXCEPT !.pending[0] = {"RST"}, !.rstPtr = seg.ACK,
              !.snd = newSnd(t.snd.ISS, seg.WND)]

\* What the verdict on an incoming segment can do to the block.
LEMMA ValidateCases ==
    ASSUME NEW t, NEW seg
    PROVE  LET u == validateIncomingSegment(t, seg).tcb
               emit == triggerChallengeAckEmit(t)
           IN  \/ u = t
               \/ u = ZeroTCB
               \/ u = emit /\ t.state # "Closed"
               \/ u = queueFlags(emit, {"ACK"}) /\ t.state # "Closed"
               \/ u = queueFlags(t, {"ACK"}) /\ t.state # "Closed"
               \/ u = backToListen(t)
               \/ u = answerRST(t, seg) /\ IsPreestablished(t.state)
<1> DEFINE v == validateIncomingSegment(t, seg)
           err == refusal(t, seg)
<1>1. t.state = "Closed" => err \notin {"reject", "nil"}
  BY DEF refusal
<1>2. CASE err # "nil"
  BY <1>1, <1>2 DEF validateIncomingSegment, Ret, Abort
<1>3. CASE err = "nil" /\ "RST" \in seg.Flags
  <2>1. v = handleRST(t, seg.SEQ)
    BY <1>3 DEF validateIncomingSegment
  <2> QED BY <1>1, <1>3, <2>1 DEF handleRST, Ret, Abort, backToListen
<1>4. CASE err = "nil" /\ "RST" \notin seg.Flags
  BY <1>4 DEF validateIncomingSegment, Ret, answerRST
<1> QED BY <1>2, <1>3, <1>4

\* The verdict on an incoming segment leaves a good block.
LEMMA ValidateGood ==
    ASSUME NEW t, GoodBlock(t), NEW seg \in Seg
    PROVE  GoodBlock(validateIncomingSegment(t, seg).tcb)
<1> DEFINE v == validateIncomingSegment(t, seg)
           emit == triggerChallengeAckEmit(t)
<1>1. t \in TCB /\ BlockInv(t)
  BY DEF GoodBlock
<1>2. v.tcb \in TCB
  BY <1>1, ValidateType
<1>4. CASE v.tcb = t \/ v.tcb = ZeroTCB
  BY <1>4, ZeroGood
<1>5. CASE v.tcb = emit /\ t.state # "Closed"
  BY <1>1, <1>2, <1>5, SameFlightGood
  DEF triggerChallengeAckEmit, BlockInv, CounterInv, TCB
<1>6. CASE v.tcb = queueFlags(emit, {"ACK"}) /\ t.state # "Closed"
  BY <1>1, <1>2, <1>6, SameFlightGood
  DEF triggerChallengeAckEmit, queueFlags, BlockInv, CounterInv, TCB
<1>7. CASE v.tcb = queueFlags(t, {"ACK"}) /\ t.state # "Closed"
  BY <1>1, <1>2, <1>7, SameFlightGood
  DEF queueFlags, BlockInv, CounterInv, TCB
<1>8. CASE v.tcb = backToListen(t)
  <2>1. Add(t.snd.ISS, rstJump) \in Value
    BY <1>1, AddType, ControlBlockAssumption DEF TCB, sendSpace
  <2>2. inFlight(backToListen(t)) = 0
    BY <1>1, <2>1, NewSndFlight, Zenon DEF TCB, backToListen
  <2> QED
    BY <1>1, <1>2, <1>8, <2>2
    DEF GoodBlock, BlockInv, FlightInv, flightBound, OpeningInv, PendingInv, ClosedInv,
        CounterInv, IsPreestablished, newSnd, TCB, backToListen
<1>9. CASE v.tcb = answerRST(t, seg) /\ IsPreestablished(t.state)
  <2>1. inFlight(answerRST(t, seg)) = 0
    BY <1>1, NewSndFlight, Zenon DEF TCB, sendSpace, answerRST
  <2> QED
    BY <1>1, <1>2, <1>9, <2>1, ControlBlockAssumption
    DEF GoodBlock, BlockInv, FlightInv, flightBound, OpeningInv, PendingInv, ClosedInv,
        CounterInv, IsPreestablished, newSnd, TCB, answerRST
<1> QED BY ValidateCases, <1>4, <1>5, <1>6, <1>7, <1>8, <1>9

\* A segment that validation accepts leaves the block alone, found it open, and
\* in a handshake acknowledges what was sent, if it acknowledges at all.
LEMMA ValidateOk ==
    ASSUME NEW t \in TCB, NEW seg \in Seg, Ok(validateIncomingSegment(t, seg))
    PROVE  /\ validateIncomingSegment(t, seg).tcb = t
           /\ t.state # "Closed"
           /\ IsPreestablished(t.state) /\ "ACK" \in seg.Flags
                => LessThan(t.snd.UNA, seg.ACK) /\ LessThanEq(seg.ACK, t.snd.NXT)
<1>1. Ok(handleRST(t, seg.SEQ)) = FALSE
  BY DEF handleRST, Ok, Ret
<1>2. t.state = "Closed" => refusal(t, seg) # "nil"
  BY DEF refusal
<1>3. refusal(t, seg) = "nil" /\ "RST" \notin seg.Flags
  BY <1>1 DEF validateIncomingSegment, Ok, Ret
<1> QED
  BY <1>2, <1>3 DEF validateIncomingSegment, Ok, Ret, IsPreestablished

\* What the state's handler and the flags it queues leave of a good block.
handled(t, seg) ==
    [queueFlags(rcvByState(t, seg).tcb, rcvByState(t, seg).pending)
        EXCEPT !.challengeAcks = 0]

\* The handler of the segment's state leaves a good block, one whose handshake is
\* unfinished only when the segment carries no acknowledgement.
LEMMA HandledGood ==
    ASSUME NEW t, GoodBlock(t), NEW seg \in Seg, Sizeof(t.snd.UNA, seg.ACK) # Half,
           Ok(validateIncomingSegment(t, seg)),
           Ok(rcvByState(t, seg))
    PROVE  /\ GoodBlock(handled(t, seg))
           /\ IsPreestablished(handled(t, seg).state) => "ACK" \notin seg.Flags
           /\ \/ handled(t, seg).state = "Closed"
              \/ handled(t, seg).snd.UNA = t.snd.UNA
<1> DEFINE h == rcvByState(t, seg)
           q == handled(t, seg)
<1>1. t \in TCB /\ BlockInv(t)
  BY DEF GoodBlock
<1>2. h.tcb \in TCB /\ h.pending \in SUBSET Flag
  BY <1>1, HandlerType
<1>3. queueFlags(h.tcb, h.pending) \in TCB
  BY <1>2, QueueType
<1>4. q \in TCB
  BY <1>3, ControlBlockAssumption DEF handled, TCB
<1>5. /\ t.state # "Closed"
      /\ IsPreestablished(t.state) /\ "ACK" \in seg.Flags
           => LessThan(t.snd.UNA, seg.ACK) /\ LessThanEq(seg.ACK, t.snd.NXT)
  BY <1>1, ValidateOk
<1>6. /\ q.state = h.tcb.state /\ q.snd = h.tcb.snd /\ q.challengeAcks = 0
      /\ q.pending[0] = h.tcb.pending[0] \cup h.pending
      /\ q.pending[1] = h.tcb.pending[1]
      /\ q.nRetransmit = h.tcb.nRetransmit
  BY <1>2, <1>3 DEF handled, queueFlags, TCB
<1>7. inFlight(q) = inFlight(h.tcb)
  BY <1>6 DEF inFlight
<1>8. t.snd.UNA \in Value /\ t.snd.NXT \in Value /\ t.snd.ISS \in Value /\ seg.ACK \in Value
  BY <1>1 DEF TCB, sendSpace, Seg
<1> HIDE DEF q, h
<1>9. "ACK" \in seg.Flags /\ IsPreestablished(t.state) => inFlight(t) >= 1
  <2> SUFFICES ASSUME "ACK" \in seg.Flags, IsPreestablished(t.state)
               PROVE  inFlight(t) >= 1
    OBVIOUS
  <2>1. Sizeof(seg.ACK, t.snd.NXT) \in Nat
    BY <1>8, SizeofNat
  <2>2. /\ Sizeof(t.snd.UNA, seg.ACK) >= 1
        /\ Sizeof(t.snd.UNA, seg.ACK) + Sizeof(seg.ACK, t.snd.NXT) = inFlight(t)
    BY <1>5, <1>8, AckSplitsFlight DEF inFlight
  <2>3. Sizeof(t.snd.UNA, seg.ACK) \in Nat
    BY <1>8, SizeofNat
  <2> QED BY <2>1, <2>2, <2>3
<1>10. h.tcb.snd = newSnd(t.snd.ISS, seg.WND) => inFlight(h.tcb) = 0
  BY <1>8, NewSndFlight
<1>11. h.tcb.snd = t.snd => inFlight(h.tcb) = inFlight(t)
  BY DEF inFlight
<1>12. inFlight(t) \in Nat /\ maxWindow \in Nat /\ maxWindow >= 1
  BY <1>8, SizeofNat, ControlBlockAssumption DEF inFlight
<1>13. CASE t.state = "Listen"
  <2>1. h = rcvListen(t, seg)
    BY <1>13 DEF h, rcvByState
  <2>2. "ACK" \notin seg.Flags
    BY <1>1, <1>9, <1>12, <1>13 DEF BlockInv, FlightInv, flightBound, IsPreestablished
  <2>3. /\ h.tcb.snd = newSnd(t.snd.ISS, seg.WND) /\ h.tcb.state = "SynRcvd"
        /\ h.tcb.pending[0] = synack /\ h.tcb.pending[1] = t.pending[1]
        /\ h.pending = synack /\ h.tcb.nRetransmit = t.nRetransmit
    BY <1>1, <2>1 DEF rcvListen, Handled, Ok, TCB, h
  <2> QED
    BY <1>1, <1>4, <1>6, <1>7, <1>10, <1>12, <1>13, <2>2, <2>3
    DEF GoodBlock, BlockInv, FlightInv, flightBound, OpeningInv, PendingInv, ClosedInv,
        CounterInv, IsPreestablished, newSnd, synack, q
<1>14. CASE t.state = "SynSent"
  <2>1. h = rcvSynSent(t, seg)
    BY <1>14 DEF h, rcvByState
  <2>2. /\ h.tcb.pending = t.pending /\ h.tcb.nRetransmit = t.nRetransmit
        /\ \/ /\ "ACK" \in seg.Flags /\ h.pending = {"ACK"}
              /\ h.tcb.state = "Established" /\ h.tcb.snd = t.snd
           \/ /\ "ACK" \notin seg.Flags /\ h.pending = synack
              /\ h.tcb.state = "SynRcvd" /\ h.tcb.snd = newSnd(t.snd.ISS, seg.WND)
    BY <1>1, <2>1 DEF rcvSynSent, Handled, Ok, TCB, h
  <2>3. "SYN" \notin t.pending[0] /\ "FIN" \notin t.pending[0] /\ inFlight(t) <= 1
    BY <1>1, <1>14
    DEF BlockInv, PendingInv, FlightInv, flightBound, IsPreestablished
  <2> QED
    BY <1>1, <1>4, <1>6, <1>7, <1>10, <1>11, <1>12, <1>14, <2>2, <2>3
    DEF GoodBlock, BlockInv, FlightInv, flightBound, finUnsent, OpeningInv, PendingInv,
        ClosedInv, CounterInv, IsPreestablished, newSnd, synack, q
<1>15. CASE t.state = "SynRcvd"
  <2>1. h = rcvSynRcvd(t, seg)
    BY <1>15 DEF h, rcvByState
  <2>2. /\ "ACK" \in seg.Flags /\ h.pending = {} /\ h.tcb = [t EXCEPT !.state = "Established"]
    BY <1>1, <2>1 DEF rcvSynRcvd, Handled, Ok, TCB, h
  <2>3. "SYN" \notin t.pending[0] /\ inFlight(t) <= 1
    BY <1>1, <1>9, <1>12, <1>15, <2>2
    DEF BlockInv, PendingInv, FlightInv, flightBound, IsPreestablished
  <2>4. /\ h.tcb.state = "Established" /\ h.tcb.snd = t.snd /\ h.tcb.pending = t.pending
        /\ h.tcb.nRetransmit = t.nRetransmit
    BY <1>1, <2>2 DEF TCB
  <2> QED
    BY <1>1, <1>4, <1>6, <1>7, <1>11, <1>12, <2>2, <2>3, <2>4
    DEF GoodBlock, BlockInv, FlightInv, flightBound, finUnsent, OpeningInv, PendingInv,
        ClosedInv, CounterInv, IsPreestablished, q
<1>16. CASE t.state = "LastAck" /\ "ACK" \in seg.Flags
  <2>1. h.tcb = ZeroTCB /\ h.pending = {}
    BY <1>16 DEF h, rcvByState, rcvLastAck, Handled, Abort
  <2> QED
    BY <1>4, <1>6, <2>1, ZeroGood
    DEF GoodBlock, BlockInv, FlightInv, OpeningInv, PendingInv, ClosedInv, CounterInv,
        IsPreestablished, ZeroTCB, q
<1>17. CASE /\ t.state \in {"Established", "FinWait1", "FinWait2", "CloseWait", "Closing",
                          "LastAck"}
            /\ t.state = "LastAck" => "ACK" \notin seg.Flags
  <2>1. /\ h.tcb.snd = t.snd /\ h.tcb.pending = t.pending
        /\ h.tcb.nRetransmit = t.nRetransmit
        /\ h.pending \subseteq {"ACK"}
        /\ \/ h.tcb.state = t.state
           \/ t.state = "Established" /\ h.tcb.state = "CloseWait"
           \/ /\ t.state \in {"FinWait1", "FinWait2", "Closing"}
              /\ h.tcb.state \in {"FinWait2", "Closing", "TimeWait"}
    BY <1>1, <1>17, Zenon
    DEF h, rcvByState, rcvEstablished, rcvFinWait1, rcvFinWait2, rcvClosing, rcvLastAck,
        owedAck, Handled, TCB
  <2> QED
    BY <1>1, <1>4, <1>6, <1>7, <1>11, <1>12, <1>17, <2>1
    DEF GoodBlock, BlockInv, FlightInv, flightBound, finUnsent, OpeningInv, PendingInv,
        ClosedInv, CounterInv, IsPreestablished, q
<1>18. CASE t.state = "TimeWait"
  BY <1>18 DEF rcvByState, Handled, Ok
<1>19. t.state \in State \ {"Closed"}
  BY <1>1, <1>5 DEF TCB
<1> QED
  BY <1>13, <1>14, <1>15, <1>16, <1>17, <1>18, <1>19 DEF State

\* Taking the window from a segment touches nothing the invariant speaks of.
LEMMA UpdateWindowGood ==
    ASSUME NEW t, GoodBlock(t), NEW seg \in Seg
    PROVE  /\ GoodBlock(updateSendWindow(t, seg))
           /\ updateSendWindow(t, seg).state = t.state
           /\ updateSendWindow(t, seg).snd.UNA = t.snd.UNA
           /\ updateSendWindow(t, seg).snd.NXT = t.snd.NXT
<1> DEFINE u == updateSendWindow(t, seg)
<1>1. t \in TCB /\ BlockInv(t)
  BY DEF GoodBlock
<1>2. /\ u \in TCB /\ u.state = t.state /\ u.pending = t.pending
      /\ u.snd.ISS = t.snd.ISS /\ u.snd.UNA = t.snd.UNA /\ u.snd.NXT = t.snd.NXT
      /\ u.challengeAcks = t.challengeAcks /\ u.nRetransmit = t.nRetransmit
  BY <1>1, Zenon DEF updateSendWindow, TCB, sendSpace, Seg
<1>3. CASE t.state = "Closed"
  BY <1>1, <1>2, <1>3
  DEF GoodBlock, BlockInv, FlightInv, OpeningInv, PendingInv, ClosedInv, CounterInv,
      IsPreestablished
<1>4. CASE t.state # "Closed"
  BY <1>1, <1>2, <1>4, SameFlightGood DEF BlockInv, CounterInv
<1> QED BY <1>2, <1>3, <1>4

\* Moving snd.UNA over what was sent keeps a good block good; what is in flight
\* shrinks by as much as UNA advances.
LEMMA UpdateUNAGood ==
    ASSUME NEW t, GoodBlock(t), NEW seg \in Seg,
           IsPreestablished(t.state) => "ACK" \notin seg.Flags,
           t.state = "Closed" \/ Sizeof(t.snd.UNA, seg.ACK) # Half
    PROVE  /\ GoodBlock(updateUNA(t, seg))
           /\ updateUNA(t, seg).state = t.state
           /\ t.state # "Closed"
                => Sizeof(t.snd.UNA, updateUNA(t, seg).snd.UNA) <= inFlight(t)
<1> DEFINE u == updateUNA(t, seg)
<1>1. t \in TCB /\ BlockInv(t)
  BY DEF GoodBlock
<1>2. /\ t.snd.UNA \in Value /\ t.snd.NXT \in Value /\ seg.ACK \in Value
      /\ t.dupack \in 0 .. Uint8Max /\ t.nRetransmit \in 0 .. Uint8Max
  BY <1>1 DEF TCB, sendSpace, Seg
<1>3. Sizeof(t.snd.UNA, t.snd.UNA) = 0 /\ inFlight(t) \in Nat
  BY <1>2, SizeofSelf, SizeofNat DEF inFlight
<1>4. CASE u = t
  BY <1>3, <1>4
<1>5. CASE u = [t EXCEPT !.dupack = @ + 1]
           /\ t.dupack < t.nRetransmit + retransmitMaxQueued + retransmitMaxQueued
           /\ t.state # "Closed"
  <2>1. t.dupack + 1 \in 0 .. Uint8Max
    BY <1>1, <1>2, <1>5, ControlBlockAssumption
    DEF BlockInv, CounterInv, retransmitMaxQueued, retransmitAfterDupacks
  <2>2. u \in TCB /\ u.state = t.state /\ u.pending = t.pending /\ u.snd = t.snd
        /\ u.nRetransmit = t.nRetransmit
    BY <1>1, <1>5, <2>1 DEF TCB
  <2>3. GoodBlock(u)
    BY <1>1, <1>5, <2>2, SameFlightGood, Zenon DEF BlockInv, CounterInv
  <2> QED BY <1>3, <2>2, <2>3
<1>6. CASE /\ u = [t EXCEPT !.snd.UNA = seg.ACK, !.dupack = 0, !.nRetransmit = 0]
           /\ "ACK" \in seg.Flags
           /\ LessThanEq(seg.ACK, t.snd.NXT) /\ LessThan(t.snd.UNA, seg.ACK)
  <2>1. /\ u \in TCB /\ u.state = t.state /\ u.pending = t.pending
        /\ u.snd.UNA = seg.ACK /\ u.snd.NXT = t.snd.NXT
        /\ u.challengeAcks = t.challengeAcks /\ u.nRetransmit = 0
    <3> DEFINE una == [t.snd EXCEPT !.UNA = seg.ACK]
    <3>1. una \in sendSpace /\ una.UNA = seg.ACK /\ una.NXT = t.snd.NXT
      BY <1>1, <1>2 DEF TCB, sendSpace
    <3>2. 0 \in 0 .. Uint8Max
      BY ControlBlockAssumption
    <3>3. u = [t EXCEPT !.snd = una, !.dupack = 0, !.nRetransmit = 0]
      BY <1>6
    <3> HIDE DEF una, u
    <3> QED BY <1>1, <3>1, <3>2, <3>3, Zenon DEF TCB
  <2>2. CounterInv(u)
    BY <2>1, ControlBlockAssumption
    DEF CounterInv, retransmitMaxQueued, retransmitAfterDupacks
  <2>3. CASE t.state = "Closed"
    BY <1>1, <2>1, <2>2, <2>3
    DEF GoodBlock, BlockInv, FlightInv, OpeningInv, PendingInv, ClosedInv,
        IsPreestablished
  <2>4. CASE t.state # "Closed"
    <3>1. /\ Sizeof(t.snd.UNA, seg.ACK) + inFlight(u) = inFlight(t)
          /\ Sizeof(t.snd.UNA, seg.ACK) >= 1
      BY <1>2, <1>6, <2>1, <2>4, AckSplitsFlight DEF inFlight
    <3>2. Sizeof(t.snd.UNA, seg.ACK) \in Nat /\ inFlight(u) \in Nat
      BY <1>2, <2>1, SizeofNat DEF inFlight
    <3>3. inFlight(u) <= inFlight(t) /\ Sizeof(t.snd.UNA, u.snd.UNA) <= inFlight(t)
      BY <1>3, <2>1, <3>1, <3>2
    <3>4. inFlight(t) # 0
      BY <1>3, <3>1, <3>2
    <3>5. ~IsPreestablished(t.state)
      BY <1>6
    <3>6. flightBound(u) = flightBound(t) /\ flightBound(t) \in Nat
      BY <2>1, ControlBlockAssumption DEF flightBound, finUnsent
    <3>7. FlightInv(u)
      BY <1>1, <1>3, <2>1, <3>2, <3>3, <3>6 DEF BlockInv, FlightInv
    <3> QED
      BY <1>1, <2>1, <2>2, <2>4, <3>3, <3>4, <3>5, <3>7
      DEF GoodBlock, BlockInv, OpeningInv, PendingInv, ClosedInv
  <2> QED BY <2>3, <2>4
<1>7. t.state = "Closed" => ~TxDataOpen(t.state)
  BY DEF TxDataOpen
<1> QED
  BY <1>4, <1>5, <1>6, <1>7 DEF updateUNA

\* Recv takes a good block to a good block, moves snd.UNA over sent data only,
\* and when it refuses the segment leaves both sequence spaces alone.
LEMMA RecvGood ==
    ASSUME NEW t, GoodBlock(t), NEW seg \in Seg, Sizeof(t.snd.UNA, seg.ACK) # Half
    PROVE  LET r == Recv(t, seg)
               both == synchronized(t.state) /\ synchronized(r.tcb.state)
           IN  /\ GoodBlock(r.tcb)
               /\ both => Sizeof(t.snd.UNA, r.tcb.snd.UNA) <= inFlight(t)
               /\ both /\ ~Ok(r) => r.tcb.snd = t.snd /\ r.tcb.rcv = t.rcv
<1> DEFINE v == validateIncomingSegment(t, seg)
           h == rcvByState(t, seg)
           emit == triggerChallengeAckEmit(t)
           r == Recv(t, seg)
           both == synchronized(t.state) /\ synchronized(r.tcb.state)
           Same(u) == u.snd = t.snd /\ u.rcv = t.rcv
<1>1. t \in TCB /\ BlockInv(t) /\ t.snd.UNA \in Value /\ t.snd.NXT \in Value
  BY DEF GoodBlock, TCB, sendSpace
<1>2. \A u : Same(u) => Sizeof(t.snd.UNA, u.snd.UNA) <= inFlight(t)
  BY <1>1, SizeofSelf, SizeofNat DEF inFlight
<1>3. emit \in TCB /\ Same(emit) /\ emit.state = t.state
  BY <1>1, ChallengeType DEF triggerChallengeAckEmit, TCB
<1>4. Same(queueFlags(emit, {"ACK"})) /\ Same(queueFlags(t, {"ACK"}))
  BY <1>1, <1>3 DEF queueFlags, TCB
<1>5. CASE ~Ok(v)
  <2>1. r = v
    BY <1>5 DEF Recv
  <2>2. GoodBlock(r.tcb)
    BY <2>1, ValidateGood
  <2>3. both => Same(r.tcb)
    <3>1. ~synchronized(ZeroTCB.state)
      BY DEF ZeroTCB, synchronized
    <3>2. ~synchronized(backToListen(t).state)
      BY <1>1 DEF backToListen, synchronized, TCB
    <3>3. IsPreestablished(t.state) => ~synchronized(t.state)
      BY DEF IsPreestablished, synchronized
    <3> QED BY <1>3, <1>4, <2>1, <3>1, <3>2, <3>3, ValidateCases
  <2> QED BY <1>2, <2>2, <2>3
<1>6. CASE Ok(v) /\ "SYN" \in seg.Flags /\ ~IsPreestablished(t.state)
  <2>1. r.tcb = queueFlags(emit, {"ACK"})
    BY <1>6 DEF Recv, Ret
  <2>2. t.state # "Closed"
    BY <1>1, <1>6, ValidateOk
  <2>3. r.tcb \in TCB
    BY <1>3, <2>1, QueueType DEF Flag
  <2>4. GoodBlock(r.tcb)
    BY <1>1, <1>3, <2>1, <2>2, <2>3, SameFlightGood
    DEF triggerChallengeAckEmit, queueFlags, BlockInv, CounterInv, TCB
  <2> QED BY <1>2, <1>4, <2>1, <2>4
<1>7. CASE Ok(v) /\ ~("SYN" \in seg.Flags /\ ~IsPreestablished(t.state)) /\ ~Ok(h)
  <2>1. r.tcb = t
    BY <1>7 DEF Recv, Ret
  <2> QED BY <1>2, <2>1
<1>8. CASE Ok(v) /\ ~("SYN" \in seg.Flags /\ ~IsPreestablished(t.state)) /\ Ok(h)
  <2> DEFINE q == handled(t, seg)
             w == updateSendWindow(q, seg)
             u == updateUNA(w, seg)
  <2>1. r.tcb = advanceRcv(u, seg) /\ Ok(r)
    BY <1>8 DEF Recv, Ret, Ok, accept, handled
  <2>2. /\ GoodBlock(q)
        /\ IsPreestablished(q.state) => "ACK" \notin seg.Flags
        /\ q.state = "Closed" \/ q.snd.UNA = t.snd.UNA
    BY <1>8, HandledGood
  <2> HIDE DEF q
  <2>3. /\ GoodBlock(w) /\ w.state = q.state
        /\ w.snd.UNA = q.snd.UNA /\ w.snd.NXT = q.snd.NXT
    BY <2>2, UpdateWindowGood
  <2> HIDE DEF w
  <2>4. /\ GoodBlock(u) /\ u.state = w.state
        /\ w.state # "Closed" => Sizeof(w.snd.UNA, u.snd.UNA) <= inFlight(w)
    BY <2>2, <2>3, UpdateUNAGood
  <2> HIDE DEF u
  <2>5. /\ r.tcb \in TCB /\ r.tcb.state = u.state /\ r.tcb.snd = u.snd
        /\ r.tcb.pending = u.pending /\ r.tcb.challengeAcks = u.challengeAcks
        /\ r.tcb.nRetransmit = u.nRetransmit
    <3>1. u \in TCB /\ u.rcv.NXT \in Value
      BY <2>4 DEF GoodBlock, TCB, recvSpace
    <3>2. Add(u.rcv.NXT, LEN(seg)) \in Value
      BY <3>1, LenType, AddType
    <3> QED BY <2>1, <3>1, <3>2 DEF advanceRcv, TCB, recvSpace
  <2>6. GoodBlock(r.tcb)
    BY <2>4, <2>5
    DEF GoodBlock, BlockInv, FlightInv, flightBound, finUnsent, inFlight, OpeningInv,
        PendingInv, ClosedInv, CounterInv
  <2>7. synchronized(t.state) => q.snd = t.snd \/ q.state = "Closed"
    BY <1>1, <1>8, Zenon
    DEF q, handled, queueFlags, synchronized, rcvByState, rcvEstablished, rcvFinWait1,
        rcvFinWait2, rcvLastAck, rcvClosing, Handled, Abort, ZeroTCB, TCB, State
  <2>8. both => Sizeof(t.snd.UNA, r.tcb.snd.UNA) <= inFlight(t)
    BY <2>3, <2>4, <2>5, <2>7 DEF inFlight, synchronized
  <2> QED BY <2>1, <2>6, <2>8
<1> QED BY <1>5, <1>6, <1>7, <1>8

-----------------------------------------------------------------------------
(* The send path and the user calls: what PendingSegment offers, and the   *)
(* calls that queue control bits, keep the inductive invariant.            *)

-----------------------------------------------------------------------------
(* Send.                                                                   *)

\* Adding a word and measuring the distance gives the word back.
LEMMA SizeofAdd == \A v, n \in Value : Sizeof(v, Add(v, n)) = n
<1> TAKE v, n \in Value
<1>1. Add(v, n) = IF v + n < SeqMod THEN v + n ELSE v + n - SeqMod
  BY AddIs
<1>2. Add(v, n) \in Value
  BY <1>1, SeqModAssumption DEF Value
<1>3. Sizeof(v, Add(v, n)) = IF Add(v, n) >= v THEN Add(v, n) - v ELSE Add(v, n) - v + SeqMod
  BY <1>2, SizeofIs
<1> QED BY <1>1, <1>3, SeqModAssumption DEF Value

\* Sending n sequence numbers adds n to what is in flight, short of a full turn.
LEMMA FlightAdd ==
    ASSUME NEW una \in Value, NEW nxt \in Value, NEW n \in Nat,
           Sizeof(una, nxt) + n < SeqMod
    PROVE  Sizeof(una, Add(nxt, n)) = Sizeof(una, nxt) + n
<1> DEFINE end == Add(nxt, n)
<1>1. Sizeof(una, nxt) = IF nxt >= una THEN nxt - una ELSE nxt - una + SeqMod
  BY SizeofIs
<1>2. n \in Value
  BY <1>1, SeqModAssumption DEF Value
<1>3. end = IF nxt + n < SeqMod THEN nxt + n ELSE nxt + n - SeqMod
  BY <1>2, AddIs
<1>4. end \in Value
  BY <1>2, <1>3, SeqModAssumption DEF Value
<1>5. Sizeof(una, end) = IF end >= una THEN end - una ELSE end - una + SeqMod
  BY <1>4, SizeofIs
<1> HIDE DEF end
<1> QED BY <1>1, <1>2, <1>3, <1>5, SeqModAssumption DEF Value, end

\* What an accepted Send does to an open block.
LEMMA SendEffect ==
    ASSUME NEW t \in TCB, NEW seg \in Seg, t.state # "Closed", Ok(Send(t, seg)),
           CounterInv(t)
    PROVE  LET u == Send(t, seg).tcb
           IN  /\ u \in TCB /\ CounterInv(u)
               /\ u.state = sendState(t, seg).state
               /\ u.snd.UNA = t.snd.UNA /\ u.snd.ISS = t.snd.ISS
               /\ u.snd.NXT = IF LessThan(seg.SEQ, t.snd.NXT) THEN t.snd.NXT
                              ELSE Add(t.snd.NXT, LEN(seg))
               /\ u.pending = advancePending(t, seg).pending
<1> DEFINE s == sendState(t, seg)
           q == advancePending(s, seg)
           c == IF "ACK" \in seg.Flags THEN triggerChallengeAckSent(q) ELSE q
           a == advanceSnd(c, seg)
           u == Send(t, seg).tcb
<1>1. u = SetRecvWindow(a, seg.WND)
  BY DEF Send, Ok, Ret
<1>2. /\ s \in TCB /\ s.snd = t.snd /\ s.pending = t.pending /\ s.nRetransmit = t.nRetransmit
  BY DEF sendState, TCB, State
<1> HIDE DEF s
<1>3. /\ q \in TCB /\ q.state = s.state /\ q.snd = t.snd /\ q.nRetransmit = t.nRetransmit
      /\ q.pending = advancePending(t, seg).pending
  BY <1>2 DEF advancePending, TCB, NoFlags
<1> HIDE DEF q
<1>4. /\ c \in TCB /\ c.state = q.state /\ c.snd = q.snd /\ c.pending = q.pending
      /\ c.nRetransmit = q.nRetransmit
  BY <1>3, ChallengeType DEF triggerChallengeAckSent, TCB
<1> HIDE DEF c
<1>5. Add(t.snd.NXT, LEN(seg)) \in Value
  BY LenType, AddType DEF TCB, sendSpace
<1>6. /\ a \in TCB /\ a.state = c.state /\ a.pending = c.pending
      /\ a.snd.UNA = c.snd.UNA /\ a.snd.ISS = c.snd.ISS
      /\ a.snd.NXT = IF LessThan(seg.SEQ, c.snd.NXT) THEN c.snd.NXT
                     ELSE Add(c.snd.NXT, LEN(seg))
      /\ CounterInv(a)
  BY <1>3, <1>4, <1>5, ControlBlockAssumption
  DEF advanceSnd, CounterInv, retransmitMaxQueued, retransmitAfterDupacks, TCB, sendSpace
<1> HIDE DEF a
<1>7. /\ u \in TCB /\ u.state = a.state /\ u.snd = a.snd /\ u.pending = a.pending
      /\ u.nRetransmit = a.nRetransmit
  BY <1>1, <1>6 DEF SetRecvWindow, TCB, recvSpace, Seg
<1> QED BY <1>3, <1>4, <1>6, <1>7 DEF CounterInv, s

\* What fits the peer's window with what is in flight fits the largest window.
LEMMA MaxSendBound ==
    ASSUME NEW t \in TCB
    PROVE  /\ maxSend(t) \in 0 .. maxWindow
           /\ maxSend(t) > 0 => inFlight(t) + maxSend(t) <= maxWindow
<1>1. inFlight(t) \in Nat /\ t.snd.WND \in 0 .. maxWindow
  BY SizeofNat DEF inFlight, TCB, sendSpace
<1> QED BY <1>1, ControlBlockAssumption DEF maxSend

\* The three kinds of segment PendingSegment offers: a challenge ACK, the
\* retransmission of the first unacknowledged segment, or the queued flags with
\* as much data as the window admits.  A closed block offers none.
LEMMA PendingShape ==
    ASSUME NEW t, GoodBlock(t), NEW room \in Value, PendingSegment(t, room).ok
    PROVE  LET seg == PendingSegment(t, room).seg
           IN  /\ t.state # "Closed"
               /\ seg \in Seg
               /\ seg.WND = t.rcv.WND
               /\ "ACK" \in seg.Flags => seg.ACK = t.rcv.NXT
               /\ \/ seg.Flags = {"ACK"} /\ seg.SEQ = t.snd.NXT /\ seg.DATALEN = 0
                  \/ /\ seg.Flags = {"ACK"} /\ seg.SEQ = t.snd.UNA /\ seg.DATALEN = room
                     /\ TxDataOpen(t.state)
                  \/ /\ t.pending[0] \subseteq seg.Flags
                     /\ seg.Flags \subseteq t.pending[0] \cup {"ACK"}
                     /\ seg.SEQ = t.snd.NXT \/ "RST" \in seg.Flags
                     /\ seg.DATALEN <= maxSend(t)
                     /\ ~txQueuedDataOpen(t.state) => seg.DATALEN = 0
                     /\ seg.DATALEN <= room
<1> DEFINE p == PendingSegment(t, room)
<1>1. t \in TCB /\ BlockInv(t) /\ t.pending[0] \in SUBSET Flag
  BY DEF GoodBlock, TCB
<1>2. /\ t.snd.NXT \in Value /\ t.snd.UNA \in Value /\ t.rcv.NXT \in Value /\ t.rstPtr \in Value
      /\ t.rcv.WND \in 0 .. maxWindow /\ t.snd.MSS \in Nat
  BY <1>1 DEF TCB, sendSpace, recvSpace
<1>3. maxSend(t) \in 0 .. maxWindow /\ maxWindow \in Nat /\ maxWindow \in Value /\ 0 \in Value
  BY <1>1, MaxSendBound, ControlBlockAssumption, HalfDouble, SeqModAssumption DEF Value
<1>4. t.state # "Closed"
  <2> SUFFICES ASSUME t.state = "Closed" PROVE FALSE
    OBVIOUS
  <2>1. t.pending[0] = {} /\ ~pendingChallengeAck(t)
    BY <1>1 DEF BlockInv, ClosedInv, pendingChallengeAck
  <2>2. ~HasPendingRetransmit(t) /\ ~txQueuedDataOpen(t.state)
    BY DEF HasPendingRetransmit, TxDataOpen, txQueuedDataOpen
  <2>3. p.ok <=> t.pending[0] # {} \/ (0 > 0 /\ maxSend(t) > 0)
    BY <2>1, <2>2, Zenon DEF PendingSegment
  <2> QED BY <2>1, <2>3
<1>5. CASE pendingChallengeAck(t)
  BY <1>2, <1>3, <1>4, <1>5, Zenon DEF PendingSegment, MakeChallengeACK, Seg, Flag
<1>6. CASE ~pendingChallengeAck(t) /\ ~HasAny(t.pending[0], flagctl) /\ HasPendingRetransmit(t)
  BY <1>2, <1>4, <1>6, Zenon DEF PendingSegment, HasPendingRetransmit, Seg, Flag
<1>7. CASE ~pendingChallengeAck(t) /\ ~(~HasAny(t.pending[0], flagctl) /\ HasPendingRetransmit(t))
  <2> DEFINE open == txQueuedDataOpen(t.state)
             want == IF open THEN room ELSE 0
             fits == IF want > maxSend(t) THEN maxSend(t) ELSE want
             len == IF t.snd.MSS > 0 /\ fits > t.snd.MSS THEN t.snd.MSS ELSE fits
             flags == IF open THEN t.pending[0] \cup {"ACK"} ELSE t.pending[0]
             seg == p.seg
  <2>1. /\ len \in Nat /\ len <= maxSend(t) /\ len <= room /\ (~open => len = 0)
        /\ len \in Value
    BY <1>2, <1>3, SeqModAssumption DEF Value
  <2>2. flags \in SUBSET Flag
    BY <1>1 DEF Flag
  <2>3. seg = [SEQ |-> IF "RST" \in flags THEN t.rstPtr ELSE t.snd.NXT,
               ACK |-> IF "ACK" \in flags THEN t.rcv.NXT ELSE 0,
               DATALEN |-> len, WND |-> t.rcv.WND, Flags |-> flags]
    BY <1>7 DEF PendingSegment
  <2>4. t.pending[0] \subseteq flags /\ flags \subseteq t.pending[0] \cup {"ACK"}
    OBVIOUS
  <2> HIDE DEF len, flags, seg, open
  <2>5. seg \in Seg
    BY <1>2, <1>3, <2>1, <2>2, <2>3 DEF Seg
  <2>6. /\ seg.WND = t.rcv.WND /\ seg.Flags = flags /\ seg.DATALEN = len
        /\ "ACK" \in flags => seg.ACK = t.rcv.NXT
        /\ "RST" \notin flags => seg.SEQ = t.snd.NXT
    BY <2>3
  <2> QED BY <1>4, <2>1, <2>4, <2>5, <2>6, Zenon DEF seg, open
<1> QED BY <1>5, <1>6, <1>7

\* Send accepts a segment of new data, not a retransmission, only inside the window.
LEMMA SendWithinWindow ==
    ASSUME NEW t \in TCB, NEW seg \in Seg, Ok(Send(t, seg)), t.state # "Closed",
           seg.SEQ = t.snd.NXT, t.snd.NXT = t.snd.UNA, seg.Flags = {"ACK"}
    PROVE  seg.DATALEN <= t.snd.WND
<1>1. /\ t.snd.NXT \in Value /\ t.snd.UNA \in Value /\ t.snd.WND \in 0 .. maxWindow
      /\ seg.DATALEN \in Value /\ seg.DATALEN \in Nat
  BY SeqModAssumption DEF TCB, sendSpace, Seg, Value
<1>2. t.snd.WND \in Value /\ maxWindow \in Nat
  BY <1>1, ControlBlockAssumption, HalfDouble, SeqModAssumption DEF Value
<1>3. outgoingErr(t, seg) = "nil"
  BY DEF Send, Ok, Ret
<1>4. ~InRange(seg.SEQ, t.snd.UNA, t.snd.NXT)
  BY <1>1, SizeofSelf DEF InRange
<1>5. seg.DATALEN = 0 \/ InWindow(Last(seg), t.snd.NXT, t.snd.WND)
  BY <1>3, <1>4 DEF outgoingErr
<1>6. CASE seg.DATALEN = 0
  BY <1>1, <1>6
<1>7. CASE seg.DATALEN # 0
  <2>1. LEN(seg) = seg.DATALEN
    BY <1>1 DEF LEN
  <2>2. seg.DATALEN - 1 \in Value
    BY <1>1, <1>7, SeqModAssumption DEF Value
  <2>3. Last(seg) = Add(t.snd.NXT, seg.DATALEN - 1)
    BY <1>7, <2>1 DEF Last
  <2>4. Sizeof(t.snd.NXT, Last(seg)) = seg.DATALEN - 1
    BY <1>1, <2>2, <2>3, SizeofAdd
  <2>5. Sizeof(t.snd.NXT, Add(t.snd.NXT, t.snd.WND)) = t.snd.WND
    BY <1>1, <1>2, SizeofAdd
  <2>6. seg.DATALEN - 1 < t.snd.WND
    BY <1>5, <1>7, <2>4, <2>5 DEF InWindow, InRange
  <2> QED BY <1>1, <1>2, <2>6
<1> QED BY <1>6, <1>7

\* The state a Send from an open block leads to.
LEMMA SendStateIs ==
    ASSUME NEW t \in TCB, NEW seg, t.state # "Closed"
    PROVE  LET after == sendState(t, seg).state
           IN  /\ t.state \in {"SynRcvd", "Established"} /\ "FIN" \in seg.Flags
                    => after = "FinWait1"
               /\ t.state = "CloseWait" /\ "FIN" \in seg.Flags => after = "LastAck"
               /\ t.state = "Closing" => after \in {"Closing", "TimeWait"}
               /\ t.state \notin {"SynRcvd", "Established", "CloseWait", "Closing"}
                    => after = t.state
               /\ t.state # "Closing" /\ "FIN" \notin seg.Flags => after = t.state
               /\ IsPreestablished(after) => IsPreestablished(t.state)
<1>1. \A x \in State : [t EXCEPT !.state = x].state = x
  BY DEF TCB
<1> QED BY <1>1 DEF sendState, State, IsPreestablished

\* Sending the handshake's SYN or SYN-ACK again keeps a good block good.
LEMMA RequeueGood ==
    ASSUME NEW t, GoodBlock(t), t.state \in {"SynSent", "SynRcvd"}, NEW seg \in Seg,
           seg.SEQ = t.snd.UNA, seg.DATALEN = 0,
           "SYN" \in seg.Flags, "FIN" \notin seg.Flags
    PROVE  /\ GoodBlock(Send(t, seg).tcb)
           /\ ~synchronized(t.state)
<1> DEFINE u == Send(t, seg).tcb
<1>0. ~synchronized(t.state)
  BY DEF synchronized
<1>1. t \in TCB /\ BlockInv(t)
  BY DEF GoodBlock
<1>2. CASE ~Ok(Send(t, seg))
  <2>1. u = t
    BY <1>2 DEF Send, Ok, Ret
  <2> QED BY <1>0, <2>1
<1>3. CASE Ok(Send(t, seg))
  <2>1. /\ u \in TCB /\ CounterInv(u) /\ u.state = sendState(t, seg).state
        /\ u.snd.UNA = t.snd.UNA /\ u.snd.ISS = t.snd.ISS
        /\ u.snd.NXT = IF LessThan(seg.SEQ, t.snd.NXT) THEN t.snd.NXT
                       ELSE Add(t.snd.NXT, LEN(seg))
        /\ u.pending = advancePending(t, seg).pending
    BY <1>1, <1>3, SendEffect, Zenon DEF BlockInv
  <2> SUFFICES GoodBlock(u)
    BY <1>0
  <2> HIDE DEF u
  <2>2. u.state = t.state
    BY <1>1, <2>1, SendStateIs
  <2>3. /\ t.snd.UNA \in Value /\ t.snd.NXT \in Value /\ inFlight(t) \in Nat
        /\ inFlight(t) <= 1
    BY <1>1, SizeofNat DEF TCB, sendSpace, inFlight, BlockInv, FlightInv, flightBound
  <2>4. inFlight(u) <= 1 /\ (inFlight(u) = 1 \/ inFlight(u) = inFlight(t))
    <3>1. CASE LessThan(t.snd.UNA, t.snd.NXT)
      BY <2>1, <2>3, <3>1 DEF inFlight
    <3>2. CASE ~LessThan(t.snd.UNA, t.snd.NXT)
      <4>1. inFlight(t) = 0
        <5>1. /\ Sizeof(t.snd.NXT, t.snd.UNA) = IF t.snd.UNA >= t.snd.NXT
                   THEN t.snd.UNA - t.snd.NXT ELSE t.snd.UNA - t.snd.NXT + SeqMod
              /\ Sizeof(t.snd.UNA, t.snd.NXT) = IF t.snd.NXT >= t.snd.UNA
                   THEN t.snd.NXT - t.snd.UNA ELSE t.snd.NXT - t.snd.UNA + SeqMod
          BY <2>3, SizeofIs
        <5>2. 1 < Half
          BY ControlBlockAssumption, HalfDouble
        <5> QED
          BY <2>3, <3>2, <5>1, <5>2, HalfDouble, SeqModAssumption DEF LessThan, inFlight, Value
      <4>2. u.snd.NXT = Add(t.snd.NXT, 1)
        <5>1. LEN(seg) = 1
          BY DEF LEN
        <5> QED BY <2>1, <3>2, <5>1
      <4>3. inFlight(u) = 1
        BY <2>1, <2>3, <4>1, <4>2, FlightAdd, SeqModAssumption DEF inFlight
      <4> QED BY <4>3
    <3> QED BY <3>1, <3>2
  <2>5. u.pending[1] = {} /\ u.pending[0] \subseteq t.pending[0] /\ u.pending[0] = t.pending[0] \ seg.Flags
    BY <1>1, <2>1 DEF advancePending, NoFlags, BlockInv, PendingInv, TCB
  <2> QED
    BY <1>1, <2>1, <2>2, <2>4, <2>5, Zenon
    DEF GoodBlock, BlockInv, FlightInv, flightBound, OpeningInv, PendingInv, ClosedInv,
        IsPreestablished
<1> QED BY <1>2, <1>3

-----------------------------------------------------------------------------
(* The user calls.                                                         *)

\* A block readied for a handshake is good.
LEMMA HandshakeGood ==
    ASSUME NEW t \in TCB, NEW iss \in Value, NEW wnd \in 0 .. maxWindow,
           NEW s \in {"Listen", "SynSent"}
    PROVE  GoodBlock(prepareToHandshake(t, iss, wnd, s))
<1> DEFINE u == prepareToHandshake(t, iss, wnd, s)
<1>1. u \in TCB
  BY HandshakeType DEF State
<1>2. /\ u.state = s /\ u.snd = newSnd(iss, 1) /\ u.pending = NoFlags
      /\ u.challengeAcks = 0 /\ u.nRetransmit = 0
  BY DEF prepareToHandshake, ZeroTCB
<1>3. inFlight(u) = 0
  BY <1>2, NewSndFlight
<1> HIDE DEF u
<1>4. CounterInv(u)
  BY <1>2, ControlBlockAssumption DEF CounterInv, retransmitMaxQueued, retransmitAfterDupacks
<1>5. GoodBlock(u)
  BY <1>1, <1>2, <1>3, <1>4
  DEF GoodBlock, BlockInv, FlightInv, flightBound, OpeningInv, PendingInv, ClosedInv,
      NoFlags, newSnd
<1> QED BY <1>5 DEF u

\* The active open's SYN leaves a good block.
LEMMA ActiveOpenGood ==
    ASSUME NEW iss \in Value, NEW wnd \in 0 .. maxWindow
    PROVE  LET u == Send(SetRecvWindow(ZeroTCB, wnd), ClientSynSegment(iss, wnd)).tcb
           IN  GoodBlock(u) /\ u.state \in {"Closed", "SynSent"}
<1> DEFINE z == SetRecvWindow(ZeroTCB, wnd)
           seg == ClientSynSegment(iss, wnd)
           u == Send(z, seg).tcb
           p == prepareToHandshake(z, iss, wnd, "SynSent")
<1>1. z \in TCB
  BY ZeroType DEF SetRecvWindow, TCB, recvSpace
<1>2. GoodBlock(z)
  BY <1>1, ZeroGood
  DEF GoodBlock, BlockInv, FlightInv, OpeningInv, PendingInv, ClosedInv, CounterInv,
      SetRecvWindow, ZeroTCB, IsPreestablished
<1>3. CASE ~Ok(Send(z, seg))
  <2>1. u = z
    BY <1>3 DEF Send, Ok, Ret
  <2>2. z.state = "Closed"
    BY DEF SetRecvWindow, ZeroTCB
  <2> QED BY <1>2, <2>1, <2>2
<1>4. CASE Ok(Send(z, seg))
  <2>1. GoodBlock(p)
    BY <1>1, HandshakeGood
  <2>2. /\ p \in TCB /\ p.snd.NXT = iss /\ p.snd.UNA = iss /\ p.snd.ISS = iss
        /\ p.state = "SynSent" /\ p.pending = NoFlags
    BY <2>1 DEF GoodBlock, prepareToHandshake, ZeroTCB, newSnd
  <2>3. seg \in Seg /\ seg.SEQ = iss /\ seg.Flags = {"SYN"} /\ seg.WND = wnd /\ LEN(seg) = 1
    BY SmallValues DEF ClientSynSegment, Seg, Flag, LEN
  <2>4. sendState(z, seg) = p
    BY <2>3 DEF sendState, SetRecvWindow, ZeroTCB, ClientSynSegment
  <2>5. advancePending(p, seg) = p
    <3>1. p.pending[0] = {} /\ p.pending[1] = {}
      BY <2>2 DEF NoFlags
    <3>2. [NoFlags EXCEPT ![0] = {}] = NoFlags
      BY DEF NoFlags
    <3>3. [p EXCEPT !.pending = p.pending] = p
      BY <2>2 DEF TCB
    <3> QED BY <2>2, <3>1, <3>2, <3>3 DEF advancePending
  <2>6. ~LessThan(iss, iss)
    BY SizeofSelf, HalfDouble, SeqModAssumption DEF LessThan
  <2>7. u = SetRecvWindow([p EXCEPT !.snd.NXT = Add(@, 1)], wnd)
    <3>1. u = SetRecvWindow(advanceSnd(IF "ACK" \in seg.Flags
                                       THEN triggerChallengeAckSent(advancePending(p, seg))
                                       ELSE advancePending(p, seg), seg), seg.WND)
      BY <1>4, <2>4 DEF Send, Ok, Ret
    <3>2. u = SetRecvWindow(advanceSnd(p, seg), wnd)
      BY <2>3, <2>5, <3>1
    <3> HIDE DEF p, seg, u
    <3> QED BY <2>2, <2>3, <2>6, <3>2 DEF advanceSnd
  <2> HIDE DEF p, seg, z, u
  <2>8. Add(iss, 1) \in Value
    BY AddType
  <2>9. /\ u \in TCB /\ u.state = "SynSent" /\ u.pending = p.pending
        /\ u.snd.NXT = Add(iss, 1) /\ u.snd.UNA = iss /\ u.snd.ISS = iss
        /\ u.nRetransmit = p.nRetransmit
    <3> DEFINE n == [p EXCEPT !.snd.NXT = Add(@, 1)]
    <3>1. /\ n \in TCB /\ n.state = "SynSent" /\ n.pending = p.pending
          /\ n.snd.NXT = Add(iss, 1) /\ n.snd.UNA = iss /\ n.snd.ISS = iss
          /\ n.nRetransmit = p.nRetransmit
      BY <2>2, <2>8 DEF TCB, sendSpace
    <3> HIDE DEF n
    <3> QED BY <2>7, <3>1, Zenon DEF SetRecvWindow, TCB, recvSpace, n
  <2>10. inFlight(u) = 1
    BY <2>9, SizeofAdd, SmallValues DEF inFlight
  <2>11. GoodBlock(u)
    BY <2>1, <2>2, <2>9, <2>10
    DEF GoodBlock, BlockInv, FlightInv, flightBound, OpeningInv, PendingInv, ClosedInv,
        CounterInv, NoFlags
  <2> QED BY <2>9, <2>11 DEF u, z, seg
<1> QED BY <1>3, <1>4

\* Close leaves a good block, and the send space of an open one alone.
LEMMA CloseGood ==
    ASSUME NEW t, GoodBlock(t), t.state # "Closed"
    PROVE  /\ GoodBlock(Close(t).tcb)
           /\ synchronized(t.state) => Close(t).tcb.snd = t.snd /\ Close(t).tcb.rcv = t.rcv
<1> DEFINE u == Close(t).tcb
<1>1. t \in TCB /\ BlockInv(t)
  BY DEF GoodBlock
<1>2. CASE t.state = "CloseWait"
  <2>1. u = [t EXCEPT !.state = "LastAck", !.pending = [NoFlags EXCEPT ![0] = {"FIN", "ACK"}]]
    BY <1>2 DEF Close, Ret
  <2>2. /\ u \in TCB /\ u.state = "LastAck" /\ u.snd = t.snd /\ u.rcv = t.rcv
        /\ u.nRetransmit = t.nRetransmit
        /\ u.pending[0] = {"FIN", "ACK"} /\ u.pending[1] = {}
    <3> DEFINE f == [NoFlags EXCEPT ![0] = {"FIN", "ACK"}]
    <3>1. f \in [0 .. 1 -> SUBSET Flag] /\ f[0] = {"FIN", "ACK"} /\ f[1] = {}
      BY DEF NoFlags, Flag
    <3>2. u = [t EXCEPT !.state = "LastAck", !.pending = f]
      BY <2>1
    <3> HIDE DEF f, u
    <3> QED BY <1>1, <3>1, <3>2, Zenon DEF TCB, State
  <2> QED
    BY <1>1, <1>2, <2>2
    DEF GoodBlock, BlockInv, FlightInv, flightBound, finUnsent, inFlight, OpeningInv,
        PendingInv, ClosedInv, CounterInv, IsPreestablished
<1>3. CASE t.state \in {"Listen", "SynSent"}
  BY <1>3, ZeroGood DEF Close, Ret, Abort, synchronized
<1>4. CASE t.state \in {"SynRcvd", "Established"}
  <2>1. u = [t EXCEPT !.pending[0] = (@ \cap {"ACK"}) \cup {"FIN"}]
    BY <1>4 DEF Close, Ret
  <2>2. /\ u \in TCB /\ u.state = t.state /\ u.snd = t.snd /\ u.rcv = t.rcv
        /\ u.nRetransmit = t.nRetransmit
        /\ "FIN" \in u.pending[0] /\ "SYN" \notin u.pending[0] /\ u.pending[1] = t.pending[1]
    BY <1>1, <2>1 DEF TCB, Flag
  <2> QED
    BY <1>1, <1>4, <2>2
    DEF GoodBlock, BlockInv, FlightInv, flightBound, finUnsent, inFlight, OpeningInv,
        PendingInv, ClosedInv, CounterInv, IsPreestablished
<1>5. CASE t.state \in {"FinWait1", "FinWait2", "Closing", "TimeWait", "LastAck"}
  BY <1>5 DEF Close, Ret
<1>6. t.state \in State \ {"Closed"}
  BY <1>1 DEF TCB
<1> QED BY <1>2, <1>3, <1>4, <1>5, <1>6 DEF State

\* An accepted rewind moves snd.NXT back within what is in flight.
LEMMA RetransmitGood ==
    ASSUME NEW t, GoodBlock(t), NEW newNxt \in Value, RetransmitFrom(t, newNxt).ok
    PROVE  /\ GoodBlock(RetransmitFrom(t, newNxt).tcb)
           /\ RetransmitFrom(t, newNxt).tcb.snd.UNA = t.snd.UNA
<1> DEFINE u == RetransmitFrom(t, newNxt).tcb
<1>1. t \in TCB /\ BlockInv(t)
  BY DEF GoodBlock
<1>2. /\ u = [t EXCEPT !.snd.NXT = newNxt, !.dupack = 0, !.nRetransmit = 0]
      /\ txQueuedDataOpen(t.state)
      /\ ~LessThan(newNxt, t.snd.UNA) /\ ~LessThan(t.snd.NXT, newNxt)
  BY Zenon DEF RetransmitFrom
<1> HIDE DEF u
<1>3. /\ u \in TCB /\ u.state = t.state /\ u.pending = t.pending
      /\ u.snd.NXT = newNxt /\ u.snd.UNA = t.snd.UNA /\ u.snd.ISS = t.snd.ISS
      /\ u.nRetransmit = 0
  <2> DEFINE n == [t.snd EXCEPT !.NXT = newNxt]
  <2>1. n \in sendSpace /\ n.NXT = newNxt /\ n.UNA = t.snd.UNA /\ n.ISS = t.snd.ISS
    BY <1>1 DEF TCB, sendSpace
  <2>2. 0 \in 0 .. Uint8Max
    BY ControlBlockAssumption
  <2>3. u = [t EXCEPT !.snd = n, !.dupack = 0, !.nRetransmit = 0]
    BY <1>2
  <2> HIDE DEF n
  <2> QED BY <1>1, <2>1, <2>2, <2>3, Zenon DEF TCB
<1>4. t.snd.UNA \in Value /\ t.snd.NXT \in Value
  BY <1>1 DEF TCB, sendSpace
<1>5. inFlight(u) \in Nat /\ inFlight(t) \in Nat /\ inFlight(u) <= inFlight(t)
  <2> DEFINE dist(v, w) == IF w >= v THEN w - v ELSE w - v + SeqMod
  <2>1. /\ Sizeof(t.snd.UNA, newNxt) = dist(t.snd.UNA, newNxt)
        /\ Sizeof(newNxt, t.snd.NXT) = dist(newNxt, t.snd.NXT)
        /\ Sizeof(t.snd.UNA, t.snd.NXT) = dist(t.snd.UNA, t.snd.NXT)
    BY <1>4, SizeofIs
  <2>2. Sizeof(t.snd.UNA, newNxt) < Half /\ Sizeof(newNxt, t.snd.NXT) < Half
    BY <1>2, <1>4, SizeofNat, HalfDouble DEF LessThan
  <2>3. inFlight(u) = Sizeof(t.snd.UNA, newNxt) /\ inFlight(t) = Sizeof(t.snd.UNA, t.snd.NXT)
    BY <1>3 DEF inFlight
  <2> QED BY <1>4, <2>1, <2>2, <2>3, HalfDouble, SeqModAssumption DEF Value
<1>6. t.state # "Closed" /\ ~IsPreestablished(t.state)
  BY <1>2 DEF txQueuedDataOpen, TxDataOpen, IsPreestablished
<1>7. flightBound(u) = flightBound(t) /\ flightBound(t) \in Nat
  BY <1>3, ControlBlockAssumption DEF flightBound, finUnsent
<1>8. FlightInv(u)
  BY <1>1, <1>5, <1>6, <1>7 DEF FlightInv, BlockInv
<1>9. CounterInv(u)
  BY <1>3, ControlBlockAssumption DEF CounterInv, retransmitMaxQueued, retransmitAfterDupacks
<1>10. PendingInv(u) /\ OpeningInv(u) /\ ClosedInv(u)
  <2>1. "SYN" \notin t.pending[0]
    BY <1>1, <1>6 DEF BlockInv, PendingInv, IsPreestablished
  <2> QED BY <1>1, <1>3, <1>6, <2>1 DEF BlockInv, PendingInv, OpeningInv, ClosedInv
<1>11. GoodBlock(u) /\ u.snd.UNA = t.snd.UNA
  BY <1>3, <1>8, <1>9, <1>10 DEF GoodBlock, BlockInv
<1> QED BY <1>11 DEF u

-----------------------------------------------------------------------------
(* Sending the segment PendingSegment offers keeps the inductive invariant. *)

\* Sending what PendingSegment offers, or less data, keeps a good block good.
LEMMA TransmitGood ==
    ASSUME NEW t, GoodBlock(t), NEW room \in Value, PendingSegment(t, room).ok,
           NEW seg \in Seg, PendingSegment(t, room).seg.SEQ = seg.SEQ,
           PendingSegment(t, room).seg.Flags = seg.Flags,
           seg.DATALEN <= PendingSegment(t, room).seg.DATALEN,
           Ok(Send(t, seg)), "RST" \notin seg.Flags
    PROVE  GoodBlock(Send(t, seg).tcb) /\ Send(t, seg).tcb.snd.UNA = t.snd.UNA
<1> DEFINE p == PendingSegment(t, room).seg
           u == Send(t, seg).tcb
           len == seg.DATALEN
<1>1. t \in TCB /\ BlockInv(t)
  BY DEF GoodBlock
<1>2. t.state # "Closed" /\ p \in Seg
  BY PendingShape
<1>3. seg.DATALEN = len /\ len <= p.DATALEN /\ len \in Nat
  BY SeqModAssumption DEF Seg, Value
<1>4. \/ seg.Flags = {"ACK"} /\ seg.SEQ = t.snd.NXT /\ len = 0
      \/ seg.Flags = {"ACK"} /\ seg.SEQ = t.snd.UNA /\ TxDataOpen(t.state)
      \/ /\ t.pending[0] \subseteq seg.Flags /\ seg.Flags \subseteq t.pending[0] \cup {"ACK"}
         /\ seg.SEQ = t.snd.NXT /\ len <= maxSend(t)
         /\ ~txQueuedDataOpen(t.state) => len = 0
  <2>1. maxSend(t) \in Nat
    BY <1>1, MaxSendBound, ControlBlockAssumption
  <2>2. p.DATALEN \in Nat
    BY <1>2, SeqModAssumption DEF Seg, Value
  <2> QED BY <1>3, <2>1, <2>2, PendingShape
<1> HIDE DEF p, len
<1>5. /\ u \in TCB /\ CounterInv(u)
      /\ u.state = sendState(t, seg).state
      /\ u.snd.UNA = t.snd.UNA /\ u.snd.ISS = t.snd.ISS
      /\ u.snd.NXT = IF LessThan(seg.SEQ, t.snd.NXT) THEN t.snd.NXT
                     ELSE Add(t.snd.NXT, LEN(seg))
      /\ u.pending = advancePending(t, seg).pending
  BY <1>1, <1>2, <1>3, SendEffect, Zenon DEF BlockInv
<1> SUFFICES GoodBlock(u)
  BY <1>5
<1> HIDE DEF u
<1>6. /\ t.snd.UNA \in Value /\ t.snd.NXT \in Value /\ t.snd.WND \in 0 .. maxWindow
      /\ maxWindow \in Nat /\ maxWindow >= 1 /\ maxWindow + 1 < SeqMod
  BY <1>1, ControlBlockAssumption, HalfDouble, SeqModAssumption DEF TCB, sendSpace
<1>7. inFlight(t) \in Nat /\ inFlight(t) <= flightBound(t)
  BY <1>1, <1>2, <1>6, SizeofNat DEF inFlight, BlockInv, FlightInv
<1>8. LEN(seg) = len + (IF "FIN" \in seg.Flags THEN 1 ELSE 0)
                     + (IF "SYN" \in seg.Flags THEN 1 ELSE 0)
  BY <1>3 DEF LEN
<1>9. /\ u.pending[1] = {}
      /\ \A f \in Flag : f \in u.pending[0] <=> f \in t.pending[0] /\ f \notin seg.Flags
  BY <1>1, <1>5 DEF advancePending, NoFlags, BlockInv, PendingInv, TCB
<1>10. ASSUME NEW n \in Nat, u.snd.NXT = Add(t.snd.NXT, n), inFlight(t) + n <= maxWindow + 1
       PROVE  inFlight(u) = inFlight(t) + n
  <2>1. inFlight(t) + n < SeqMod
    BY <1>6, <1>7, <1>10, SeqModAssumption
  <2> QED BY <1>5, <1>6, <1>10, <2>1, FlightAdd DEF inFlight
<1>11. t.snd.NXT = Add(t.snd.NXT, 0)
  BY <1>6, AddIs, SmallValues, SeqModAssumption DEF Value
<1>12. ~LessThan(t.snd.NXT, t.snd.NXT)
  BY <1>6, SizeofSelf, HalfDouble, SeqModAssumption DEF LessThan
<1>13. CASE "FIN" \notin seg.Flags /\ "SYN" \notin seg.Flags
            /\ u.snd.NXT = t.snd.NXT
  <2>1. inFlight(u) = inFlight(t)
    BY <1>5, <1>13 DEF inFlight
  <2>2. u.state = t.state \/ (t.state = "Closing" /\ u.state = "TimeWait")
    <3>1. CASE t.state = "Closing"
      <4>1. sendState(t, seg).state \in {"Closing", "TimeWait"}
        BY <1>1, <1>2, <3>1, SendStateIs
      <4> QED BY <1>5, <3>1, <4>1
    <3>2. CASE t.state # "Closing"
      <4>1. sendState(t, seg).state = t.state
        BY <1>1, <1>2, <1>13, <3>2, SendStateIs
      <4> QED BY <1>5, <4>1
    <3> QED BY <3>1, <3>2
  <2>3. "FIN" \in u.pending[0] <=> "FIN" \in t.pending[0]
    BY <1>9, <1>13 DEF Flag
  <2>4. "SYN" \in u.pending[0] <=> "SYN" \in t.pending[0]
    BY <1>9, <1>13 DEF Flag
  <2>5. t.pending[1] = {}
    BY <1>1 DEF BlockInv, PendingInv
  <2>6. CASE u.state = t.state
    BY <1>2, <1>5, <1>9, <1>13, <2>3, <2>4, <2>5, <2>6, SameFlightGood, Zenon
  <2>7. CASE t.state = "Closing" /\ u.state = "TimeWait"
    BY <1>1, <1>5, <1>7, <1>9, <2>1, <2>3, <2>4, <2>7, Zenon
    DEF GoodBlock, BlockInv, FlightInv, flightBound, finUnsent, OpeningInv, PendingInv,
        ClosedInv, IsPreestablished
  <2> QED BY <1>5, <2>2, <2>6, <2>7
<1>14. CASE seg.Flags = {"ACK"} /\ seg.SEQ = t.snd.NXT /\ len = 0
  BY <1>5, <1>8, <1>11, <1>12, <1>13, <1>14
<1>15. CASE seg.Flags = {"ACK"} /\ seg.SEQ = t.snd.UNA /\ TxDataOpen(t.state)
  <2>1. CASE LessThan(t.snd.UNA, t.snd.NXT)
    BY <1>5, <1>13, <1>15, <2>1
  <2>2. CASE ~LessThan(t.snd.UNA, t.snd.NXT)
    <3>1. inFlight(t) <= maxWindow
      BY <1>7, <1>15 DEF flightBound, finUnsent, TxDataOpen, IsPreestablished
    <3>2. t.snd.UNA = t.snd.NXT
      <4>1. Sizeof(t.snd.NXT, t.snd.UNA) < Half
        BY <1>6, <2>2, SizeofNat, HalfDouble DEF LessThan
      <4>2. Sizeof(t.snd.UNA, t.snd.NXT) < Half
        BY <1>6, <1>7, <3>1, HalfDouble, ControlBlockAssumption DEF inFlight
      <4>3. /\ Sizeof(t.snd.NXT, t.snd.UNA) = IF t.snd.UNA >= t.snd.NXT
                 THEN t.snd.UNA - t.snd.NXT ELSE t.snd.UNA - t.snd.NXT + SeqMod
            /\ Sizeof(t.snd.UNA, t.snd.NXT) = IF t.snd.NXT >= t.snd.UNA
                 THEN t.snd.NXT - t.snd.UNA ELSE t.snd.NXT - t.snd.UNA + SeqMod
        BY <1>6, SizeofIs
      <4> QED BY <1>6, <4>1, <4>2, <4>3, HalfDouble, SeqModAssumption DEF Value
    <3>3. len <= t.snd.WND
      BY <1>1, <1>2, <1>3, <1>15, <3>2, SendWithinWindow
    <3>4. inFlight(t) = 0
      BY <1>6, <3>2, SizeofSelf DEF inFlight
    <3>5. LEN(seg) = len
      BY <1>3, <1>8, <1>15
    <3>6. inFlight(u) <= maxWindow
      BY <1>3, <1>5, <1>6, <1>10, <1>15, <2>2, <3>3, <3>4, <3>5
    <3>7. u.state = t.state
      BY <1>1, <1>2, <1>5, <1>15, SendStateIs, Zenon DEF TxDataOpen
    <3>8. /\ "FIN" \in u.pending[0] <=> "FIN" \in t.pending[0]
          /\ "SYN" \in u.pending[0] <=> "SYN" \in t.pending[0]
      BY <1>9, <1>15 DEF Flag
    <3> QED
      BY <1>1, <1>2, <1>5, <1>9, <1>15, <3>6, <3>7, <3>8, Zenon
      DEF GoodBlock, BlockInv, FlightInv, flightBound, finUnsent, OpeningInv, PendingInv,
          ClosedInv, IsPreestablished, TxDataOpen
  <2> QED BY <2>1, <2>2
<1>16. CASE /\ t.pending[0] \subseteq seg.Flags /\ seg.Flags \subseteq t.pending[0] \cup {"ACK"}
            /\ seg.SEQ = t.snd.NXT /\ len <= maxSend(t)
            /\ ~txQueuedDataOpen(t.state) => len = 0
  <2>1. u.snd.NXT = Add(t.snd.NXT, LEN(seg))
    BY <1>5, <1>12, <1>16
  <2>2. /\ "FIN" \in seg.Flags <=> "FIN" \in t.pending[0]
        /\ "SYN" \in seg.Flags <=> "SYN" \in t.pending[0]
    BY <1>16
  <2>3. "FIN" \notin u.pending[0] /\ "SYN" \notin u.pending[0]
    BY <1>9, <1>16 DEF Flag
  <2>4. PendingInv(t) /\ OpeningInv(t)
    BY <1>1 DEF BlockInv
  <2>5. len = 0 \/ (len > 0 /\ inFlight(t) + len <= maxWindow)
    BY <1>1, <1>3, <1>6, <1>7, <1>16, MaxSendBound
  <2>6. ASSUME NEW b \in Nat, flightBound(u) = b, b <= maxWindow + 1,
               inFlight(t) + LEN(seg) <= b,
               u.state \in State \ {"Closed"}
        PROVE  GoodBlock(u)
    <3>1. LEN(seg) \in Nat
      BY <1>3, LenType
    <3>2. inFlight(u) = inFlight(t) + LEN(seg)
      BY <1>6, <1>7, <1>10, <2>1, <2>6, <3>1
    <3>3. FlightInv(u)
      BY <2>6, <3>2 DEF FlightInv
    <3>4. OpeningInv(u)
      <4>1. IsPreestablished(u.state) => IsPreestablished(t.state)
        BY <1>1, <1>2, <1>5, SendStateIs, Zenon
      <4> QED BY <1>5, <2>4, <4>1 DEF OpeningInv
    <3> QED BY <1>5, <1>9, <2>3, <2>6, <3>3, <3>4, Zenon DEF GoodBlock, BlockInv, PendingInv, ClosedInv
  <2>7. CASE t.state \in {"Listen", "SynSent"}
    <3>1. "FIN" \notin seg.Flags /\ "SYN" \notin seg.Flags
      BY <2>2, <2>4, <2>7 DEF PendingInv
    <3>2. len = 0
      BY <1>16, <2>7 DEF txQueuedDataOpen, TxDataOpen
    <3>3. LEN(seg) = 0
      BY <1>8, <3>1, <3>2
    <3> QED BY <1>11, <1>13, <2>1, <3>1, <3>3
  <2>8. CASE t.state = "SynRcvd"
    <3>1. len = 0 /\ inFlight(t) <= 1
      <4>1. flightBound(t) = 1 /\ ~txQueuedDataOpen(t.state)
        BY <2>8 DEF flightBound, txQueuedDataOpen, TxDataOpen
      <4> QED BY <1>7, <1>16, <4>1
    <3>2. CASE "FIN" \in seg.Flags
      <4>1. "SYN" \notin seg.Flags
        BY <2>2, <2>4, <3>2 DEF PendingInv
      <4>2. u.state = "FinWait1"
        BY <1>1, <1>2, <1>5, <2>8, <3>2, SendStateIs, Zenon
      <4>3. flightBound(u) = maxWindow + 1
        BY <2>3, <4>2 DEF flightBound, finUnsent
      <4>4. LEN(seg) = 1
        BY <1>8, <3>1, <3>2, <4>1
      <4> QED BY <1>6, <1>7, <2>6, <3>1, <4>2, <4>3, <4>4 DEF State
    <3>3. CASE "FIN" \notin seg.Flags
      <4>1. u.state = "SynRcvd"
        BY <1>1, <1>2, <1>5, <2>8, <3>3, SendStateIs, Zenon
      <4>2. flightBound(u) = 1
        BY <4>1 DEF flightBound
      <4>3. inFlight(t) + LEN(seg) <= 1
        BY <1>7, <1>8, <2>2, <2>4, <3>1, <3>3 DEF PendingInv
      <4> QED BY <1>6, <2>6, <4>1, <4>2, <4>3 DEF State
    <3> QED BY <3>2, <3>3
  <2>9. CASE /\ t.state \in {"Established", "CloseWait", "LastAck"}
             /\ t.state = "LastAck" => "FIN" \in seg.Flags
    <3>1. "SYN" \notin seg.Flags
      BY <2>2, <2>4, <2>9 DEF PendingInv
    <3>2. inFlight(t) <= maxWindow
      BY <1>7, <2>2, <2>9 DEF flightBound, finUnsent, IsPreestablished
    <3>3. CASE "FIN" \in seg.Flags
      <4>1. u.state \in {"FinWait1", "LastAck"}
        BY <1>1, <1>2, <1>5, <2>9, <3>3, SendStateIs, Zenon
      <4>2. flightBound(u) = maxWindow + 1
        BY <2>3, <4>1 DEF flightBound, finUnsent
      <4>3. LEN(seg) = len + 1
        BY <1>3, <1>8, <3>1, <3>3
      <4> QED BY <1>3, <1>6, <1>7, <2>5, <2>6, <3>2, <4>1, <4>2, <4>3 DEF State
    <3>4. CASE "FIN" \notin seg.Flags
      <4>1. u.state = t.state /\ t.state \in {"Established", "CloseWait"}
        <5>1. t.state \in {"Established", "CloseWait"}
          BY <2>9, <3>4
        <5>2. sendState(t, seg).state = t.state
          BY <1>1, <1>2, <3>4, <5>1, SendStateIs
        <5> QED BY <1>5, <5>1, <5>2
      <4>2. flightBound(u) = maxWindow
        BY <4>1 DEF flightBound, finUnsent, IsPreestablished
      <4>3. LEN(seg) = len
        BY <1>3, <1>8, <3>1, <3>4
      <4> QED BY <1>3, <1>6, <1>7, <2>5, <2>6, <3>2, <4>1, <4>2, <4>3 DEF State
    <3> QED BY <3>3, <3>4
  <2>10. CASE /\ t.state \in {"FinWait1", "FinWait2", "Closing", "TimeWait", "LastAck"}
              /\ "FIN" \notin seg.Flags
    <3>1. "SYN" \notin seg.Flags
      BY <2>2, <2>4, <2>10 DEF PendingInv
    <3>2. inFlight(t) <= maxWindow + 1
      BY <1>6, <1>7, <2>2, <2>10 DEF flightBound, finUnsent, IsPreestablished
    <3>3. u.state \in {"FinWait1", "FinWait2", "Closing", "TimeWait", "LastAck"}
      BY <1>1, <1>2, <1>5, <2>10, SendStateIs, Zenon
    <3>4. flightBound(u) = maxWindow + 1
      BY <2>3, <3>3 DEF flightBound, finUnsent
    <3>5. LEN(seg) = len
      BY <1>3, <1>8, <2>10, <3>1
    <3> QED BY <1>3, <1>6, <1>7, <2>5, <2>6, <3>2, <3>3, <3>4, <3>5 DEF State
  <2>11. t.state \in State \ {"Closed"}
    BY <1>1, <1>2 DEF TCB
  <2>12. t.state \in {"FinWait1", "FinWait2", "Closing", "TimeWait"} => "FIN" \notin seg.Flags
    BY <2>2, <2>4 DEF PendingInv
  <2> QED BY <2>7, <2>8, <2>9, <2>10, <2>11, <2>12 DEF State
<1> QED BY <1>4, <1>14, <1>15, <1>16

-----------------------------------------------------------------------------
(* The inductive invariant of ControlBlockSpec and the theorems that       *)
(* follow from it.                                                         *)

-----------------------------------------------------------------------------
(* The invariant and the action properties.                                *)

\* A segment drawn by the network is a segment, and does not acknowledge the
\* number halfway around the space.
LEMMA NetworkSegment ==
    ASSUME NoHalfwayAck, tcb \in TCB, NEW seg \in networkSegments
    PROVE  seg \in Seg /\ Sizeof(tcb.snd.UNA, seg.ACK) # Half
<1>1. tcb.rcv.NXT \in Value /\ tcb.snd.UNA \in Value
  BY DEF TCB, sendSpace, recvSpace
<1>2. PICK d \in SeqDeltas : seg.SEQ = Add(tcb.rcv.NXT, d)
  BY DEF networkSegments
<1>3. PICK e \in AckDeltas : seg.ACK = Add(tcb.snd.UNA, e)
  BY DEF networkSegments
<1>4. d \in Value /\ e \in Value /\ d \in Nat /\ e \in Nat
  BY ControlBlockSpecAssumption, SeqModAssumption DEF Value
<1>5. seg.SEQ \in Value /\ seg.ACK \in Value
  BY <1>1, <1>2, <1>3, <1>4, AddType, Zenon
<1>6. Sizeof(tcb.snd.UNA, seg.ACK) = e
  <2>1. Sizeof(tcb.snd.UNA, Add(tcb.snd.UNA, e)) = e
    BY <1>1, <1>4, SizeofAdd, Zenon
  <2> QED BY <1>3, <2>1
<1>7. e # Half
  BY <1>3 DEF NoHalfwayAck
<1>8. seg \in Seg
  <2>1. seg.DATALEN \in Value /\ seg.WND \in 0 .. maxWindow /\ seg.Flags \in SUBSET Flag
    BY ControlBlockSpecAssumption, Zenon DEF networkSegments
  <2>2. seg = [SEQ |-> seg.SEQ, ACK |-> seg.ACK, DATALEN |-> seg.DATALEN,
               WND |-> seg.WND, Flags |-> seg.Flags]
    BY DEF networkSegments
  <2> QED BY <1>5, <2>1, <2>2 DEF Seg
<1> QED BY <1>6, <1>7, <1>8

\* Every step of the specification preserves the invariant, moves snd.UNA over
\* sent data only, and moves no sequence number when the call fails.
LEMMA Step ==
    ASSUME NoHalfwayAck, Inv, [Next]_vars
    PROVE  Inv' /\ (UnaStep \/ UNCHANGED vars) /\ (RefusalStep \/ UNCHANGED vars)
<1>1. tcb \in TCB /\ GoodBlock(tcb)
  BY DEF Inv, TypeOK, GoodBlock
<1>2. tcb.snd.UNA \in Value /\ tcb.snd.NXT \in Value
  BY <1>1 DEF TCB, sendSpace
<1>3. \A e : outcome(e) \in {"ok", "refused", "panic"}
  BY DEF outcome
<1>4. ASSUME NEW r, returned(r), GoodBlock(r.tcb)
      PROVE  Inv'
  BY <1>3, <1>4 DEF returned, Inv, TypeOK, GoodBlock
<1>5. tcb'.snd.UNA = tcb.snd.UNA => UnaStep
  BY <1>2, SizeofSelf, SizeofNat DEF UnaStep, inFlight
<1>6. tcb'.snd = tcb.snd /\ tcb'.rcv = tcb.rcv => UnaStep /\ RefusalStep
  BY <1>5 DEF RefusalStep
<1>7. ~synchronized(tcb.state) \/ ~synchronized(tcb'.state) => UnaStep /\ RefusalStep
  BY DEF UnaStep, RefusalStep
<1>8. ~synchronized(ZeroTCB.state)
  BY DEF synchronized, ZeroTCB
<1>9. ASSUME NEW iss \in ISSs, NEW wnd \in Wnds, OpenListen(iss, wnd)
      PROVE  Inv' /\ UnaStep /\ RefusalStep
  <2> DEFINE r == Open(tcb, iss, wnd)
  <2>1. iss \in Value /\ wnd \in 0 .. maxWindow
    BY ControlBlockSpecAssumption
  <2>2. returned(r) /\ tcb' = r.tcb
    BY <1>9 DEF OpenListen, returned
  <2>3. r.tcb = tcb \/ r.tcb = prepareToHandshake(tcb, iss, wnd, "Listen")
    BY DEF Open, Ret
  <2>4. GoodBlock(r.tcb)
    BY <1>1, <2>1, <2>3, HandshakeGood
  <2>5. prepareToHandshake(tcb, iss, wnd, "Listen").state = "Listen"
    BY DEF prepareToHandshake, ZeroTCB
  <2>6. UnaStep /\ RefusalStep
    BY <1>6, <1>7, <2>2, <2>3, <2>5 DEF synchronized
  <2> QED BY <1>4, <2>2, <2>4, <2>6
<1>10. ASSUME NEW iss \in ISSs, NEW wnd \in Wnds, OpenActive(iss, wnd)
       PROVE  Inv' /\ UnaStep /\ RefusalStep
  <2> DEFINE r == Send(SetRecvWindow(ZeroTCB, wnd), ClientSynSegment(iss, wnd))
  <2>1. iss \in Value /\ wnd \in 0 .. maxWindow
    BY ControlBlockSpecAssumption
  <2>2. returned(r) /\ tcb' = r.tcb
    BY <1>10 DEF OpenActive, returned
  <2>3. GoodBlock(r.tcb)
    BY <2>1, ActiveOpenGood
  <2>4. r.tcb.state \in {"Closed", "SynSent"}
    BY <2>1, ActiveOpenGood
  <2>5. UnaStep /\ RefusalStep
    BY <1>7, <2>2, <2>4 DEF synchronized
  <2> HIDE DEF r
  <2> QED BY <1>4, <2>2, <2>3, <2>5
<1>11. ASSUME NEW seg \in networkSegments, Receive(seg)
       PROVE  Inv' /\ UnaStep /\ RefusalStep
  <2> DEFINE r == Recv(tcb, seg)
  <2>1. seg \in Seg /\ Sizeof(tcb.snd.UNA, seg.ACK) # Half
    BY <1>1, NetworkSegment
  <2>2. returned(r) /\ tcb' = r.tcb /\ ret' = outcome(r.err)
    BY <1>11 DEF Receive, returned
  <2>3. LET both == synchronized(tcb.state) /\ synchronized(r.tcb.state)
        IN  /\ GoodBlock(r.tcb)
            /\ both => Sizeof(tcb.snd.UNA, r.tcb.snd.UNA) <= inFlight(tcb)
            /\ both /\ ~Ok(r) => r.tcb.snd = tcb.snd /\ r.tcb.rcv = tcb.rcv
    BY <1>1, <2>1, RecvGood
  <2>4. ret' # "ok" => ~Ok(r)
    BY <2>2 DEF outcome, Ok
  <2> HIDE DEF r
  <2>5. UnaStep /\ RefusalStep
    BY <2>2, <2>3, <2>4 DEF UnaStep, RefusalStep
  <2> QED BY <1>4, <2>2, <2>3, <2>5
<1>12. ASSUME NEW room \in Lens, NEW wnd \in Wnds, Transmit(room, wnd)
       PROVE  Inv' /\ UnaStep /\ RefusalStep
  <2> DEFINE p == PendingSegment(tcb, room)
             seg(len) == [p.seg EXCEPT !.DATALEN = len, !.WND = wnd]
             r(len) == afterSend(Send(tcb, seg(len)), seg(len))
  <2>1. room \in Value /\ wnd \in 0 .. maxWindow
    BY ControlBlockSpecAssumption
  <2>2. PICK len \in 0 .. p.seg.DATALEN : p.ok /\ returned(r(len))
    BY <1>12, Zenon DEF Transmit
  <2>3. tcb' = r(len).tcb /\ ret' = outcome(r(len).err)
    BY <2>2 DEF returned
  <2>4. CASE ~Ok(Send(tcb, seg(len)))
    <3>1. r(len).tcb = tcb
      BY <2>4 DEF afterSend, Send, Ok, Ret
    <3> HIDE DEF r
    <3> QED BY <1>1, <1>4, <1>6, <2>2, <2>3, <3>1
  <2>5. CASE Ok(Send(tcb, seg(len))) /\ "RST" \in seg(len).Flags
    <3>1. r(len).tcb = ZeroTCB
      BY <2>5 DEF afterSend, Ret, Abort
    <3> HIDE DEF r
    <3> QED BY <1>4, <1>7, <1>8, <2>2, <2>3, <3>1, ZeroGood
  <2>6. CASE Ok(Send(tcb, seg(len))) /\ "RST" \notin seg(len).Flags
    <3>1. r(len) = Send(tcb, seg(len))
      BY <2>6 DEF afterSend
    <3>2. GoodBlock(Send(tcb, seg(len)).tcb) /\ Send(tcb, seg(len)).tcb.snd.UNA = tcb.snd.UNA
      <4> DEFINE g == seg(len)
      <4>1. p.seg \in Seg
        BY <1>1, <2>1, <2>2, PendingShape
      <4>2. p.seg.DATALEN \in Value
        BY <4>1 DEF Seg
      <4>3. len \in Value /\ len <= p.seg.DATALEN
        BY <2>2, <4>2, SeqModAssumption DEF Value
      <4>4. /\ g \in Seg /\ g.SEQ = p.seg.SEQ /\ g.Flags = p.seg.Flags
            /\ g.DATALEN <= p.seg.DATALEN
        BY <2>1, <4>1, <4>3, Zenon DEF Seg
      <4>5. Ok(Send(tcb, g)) /\ "RST" \notin g.Flags
        BY <2>6
      <4> HIDE DEF g, seg, r
      <4>6. GoodBlock(Send(tcb, g).tcb) /\ Send(tcb, g).tcb.snd.UNA = tcb.snd.UNA
        BY <1>1, <2>1, <2>2, <4>4, <4>5, TransmitGood
      <4> QED BY <4>6 DEF g
    <3>3. ret' = "ok"
      BY <2>3, <2>6, <3>1 DEF outcome, Ok
    <3> HIDE DEF r, seg
    <3> QED BY <1>4, <1>5, <2>2, <2>3, <3>1, <3>2, <3>3 DEF RefusalStep
  <2> QED BY <2>4, <2>5, <2>6
<1>13. ASSUME NEW wnd \in Wnds, Requeue(wnd)
       PROVE  Inv' /\ UnaStep /\ RefusalStep
  <2> DEFINE seg == IF tcb.state = "SynSent"
                    THEN ClientSynSegment(tcb.snd.ISS, wnd)
                    ELSE [SEQ |-> tcb.snd.UNA, ACK |-> tcb.rcv.NXT, DATALEN |-> 0,
                          WND |-> wnd, Flags |-> synack]
             r == Send(tcb, seg)
  <2>1. wnd \in 0 .. maxWindow
    BY ControlBlockSpecAssumption
  <2>2. tcb.state \in {"SynSent", "SynRcvd"} /\ returned(r) /\ tcb' = r.tcb
    BY <1>13 DEF Requeue, returned
  <2>3. tcb.snd.ISS = tcb.snd.UNA /\ tcb.rcv.NXT \in Value
    BY <1>1, <2>2
    DEF GoodBlock, BlockInv, OpeningInv, IsPreestablished, TCB, recvSpace
  <2>4. /\ seg \in Seg /\ seg.SEQ = tcb.snd.UNA /\ seg.DATALEN = 0
        /\ "SYN" \in seg.Flags /\ "FIN" \notin seg.Flags
    BY <1>2, <2>1, <2>3, SmallValues DEF ClientSynSegment, Seg, synack, Flag
  <2> HIDE DEF seg
  <2>5. GoodBlock(r.tcb) /\ ~synchronized(tcb.state)
    BY <1>1, <2>2, <2>4, RequeueGood
  <2> HIDE DEF r
  <2> QED BY <1>4, <1>7, <2>2, <2>5
<1>14. CASE UserClose
  <2>1. tcb.state # "Closed" /\ returned(Close(tcb)) /\ tcb' = Close(tcb).tcb
    BY <1>14 DEF UserClose, returned
  <2>2. /\ GoodBlock(Close(tcb).tcb)
        /\ synchronized(tcb.state)
             => Close(tcb).tcb.snd = tcb.snd /\ Close(tcb).tcb.rcv = tcb.rcv
    BY <1>1, <2>1, CloseGood
  <2> QED BY <1>4, <1>6, <1>7, <2>1, <2>2
<1>15. CASE UserAbort
  <2> DEFINE r == Ret(Abort(tcb), "nil")
  <2>1. returned(r) /\ tcb' = r.tcb /\ r.tcb = ZeroTCB
    BY <1>15 DEF UserAbort, returned, Ret, Abort
  <2> HIDE DEF r
  <2> QED BY <1>4, <1>7, <1>8, <2>1, ZeroGood
<1>16. ASSUME NEW v \in Value, Retransmit(v)
       PROVE  Inv' /\ UnaStep /\ RefusalStep
  <2> DEFINE u == RetransmitFrom(tcb, v).tcb
             r == Ret(u, "nil")
  <2>1. RetransmitFrom(tcb, v).ok /\ returned(r) /\ tcb' = r.tcb /\ ret' = outcome("nil")
    BY <1>16 DEF Retransmit, returned, Ret
  <2>2. GoodBlock(u) /\ u.snd.UNA = tcb.snd.UNA
    BY <1>1, <2>1, RetransmitGood
  <2>3. r.tcb = u /\ ret' = "ok"
    BY <2>1 DEF Ret, outcome
  <2> HIDE DEF r, u
  <2> QED BY <1>4, <1>5, <2>1, <2>2, <2>3 DEF RefusalStep
<1>17. CASE UNCHANGED vars
  BY <1>17 DEF vars, Inv, TypeOK
<1> QED
  BY <1>9, <1>10, <1>11, <1>12, <1>13, <1>14, <1>15, <1>16, <1>17 DEF Next

\* The invariant holds in every reachable state.
LEMMA InvariantHolds ==
    ASSUME NoHalfwayAck
    PROVE  Spec => []Inv
<1>1. Init => Inv
  BY ZeroGood DEF Init, Inv, TypeOK, GoodBlock
<1>2. Inv /\ [Next]_vars => Inv'
  BY Step
<1> QED BY <1>1, <1>2, PTL DEF Spec

-----------------------------------------------------------------------------
(* What follows from the invariant.                                        *)

\* A segment of at most one sequence number ends where it begins.
LEMMA ShortLast ==
    ASSUME NEW seg \in Seg, seg.DATALEN = 0, ~("SYN" \in seg.Flags /\ "FIN" \in seg.Flags)
    PROVE  Last(seg) = seg.SEQ
<1>1. seg.SEQ \in Value /\ 0 \in Value /\ LEN(seg) \in {0, 1}
  BY SmallValues DEF Seg, LEN
<1>2. Add(seg.SEQ, 0) = seg.SEQ
  BY <1>1, SeqModAssumption DEF Add, Value
<1> QED BY <1>1, <1>2 DEF Last

\* Send accepts a segment without data that carries an RST, is a retransmission,
\* or starts at snd.NXT.
LEMMA EmptyAccepted ==
    ASSUME NEW t, NEW seg, t.state # "Closed", seg.DATALEN = 0,
           ~(seg.WND > maxWindow),
           "ACK" \in seg.Flags => seg.ACK = t.rcv.NXT, Last(seg) = seg.SEQ,
           \/ "RST" \in seg.Flags
           \/ InRange(seg.SEQ, t.snd.UNA, t.snd.NXT)
           \/ InWindow(seg.SEQ, t.snd.NXT, t.snd.WND)
           \/ t.snd.WND = 0 /\ seg.SEQ = t.snd.NXT
    PROVE  Ok(Send(t, seg))
<1>1. outgoingErr(t, seg) = "nil"
  BY DEF outgoingErr
<1> QED BY <1>1 DEF Send, Ok, Ret

\* A good block sends the control segment it offers.
LEMMA ControlSendable ==
    ASSUME NEW t, GoodBlock(t), PendingSegment(t, 0).ok
    PROVE  Ok(Send(t, PendingSegment(t, 0).seg))
<1> DEFINE seg == PendingSegment(t, 0).seg
<1>1. /\ t \in TCB /\ BlockInv(t) /\ 0 \in Value
      /\ t.snd.NXT \in Value /\ t.snd.UNA \in Value
      /\ t.snd.WND \in 0 .. maxWindow /\ t.rcv.WND \in 0 .. maxWindow
  BY SmallValues DEF GoodBlock, TCB, sendSpace, recvSpace
<1>2. /\ t.state # "Closed" /\ seg \in Seg /\ seg.WND = t.rcv.WND
      /\ "ACK" \in seg.Flags => seg.ACK = t.rcv.NXT
  BY <1>1, PendingShape
<1>3. /\ seg.DATALEN = 0
      /\ seg.SEQ \in {t.snd.NXT, t.snd.UNA} \/ "RST" \in seg.Flags
      /\ seg.Flags = {"ACK"} \/ seg.Flags \subseteq t.pending[0] \cup {"ACK"}
  <2>1. seg.DATALEN \in Value /\ (seg.DATALEN <= 0 => seg.DATALEN = 0)
    BY <1>2, SeqModAssumption DEF Seg, Value
  <2> QED BY <1>1, <2>1, PendingShape
<1>4. ~("SYN" \in seg.Flags /\ "FIN" \in seg.Flags)
  BY <1>1, <1>3 DEF BlockInv, PendingInv
<1>5. Last(seg) = seg.SEQ
  BY <1>2, <1>3, <1>4, ShortLast
<1>6. ~(seg.WND > maxWindow)
  BY <1>1, <1>2, ControlBlockAssumption
<1> HIDE DEF seg
<1>7. CASE "RST" \in seg.Flags
  BY <1>2, <1>3, <1>5, <1>6, <1>7, EmptyAccepted DEF seg
<1>8. CASE "RST" \notin seg.Flags
  <2>1. seg.SEQ = t.snd.UNA /\ t.snd.UNA # t.snd.NXT => InRange(seg.SEQ, t.snd.UNA, t.snd.NXT)
    <3>1. Sizeof(t.snd.UNA, t.snd.UNA) = 0 /\ Sizeof(t.snd.UNA, t.snd.NXT) \in Nat
      BY <1>1, SizeofSelf, SizeofNat
    <3>2. Sizeof(t.snd.UNA, t.snd.NXT) = IF t.snd.NXT >= t.snd.UNA
            THEN t.snd.NXT - t.snd.UNA ELSE t.snd.NXT - t.snd.UNA + SeqMod
      BY <1>1, SizeofIs
    <3>3. t.snd.UNA # t.snd.NXT => Sizeof(t.snd.UNA, t.snd.NXT) > 0
      BY <1>1, <3>2, SeqModAssumption DEF Value
    <3> QED BY <3>1, <3>3 DEF InRange
  <2>2. seg.SEQ = t.snd.NXT /\ t.snd.WND # 0 => InWindow(seg.SEQ, t.snd.NXT, t.snd.WND)
    <3>1. t.snd.WND \in Value
      BY <1>1, ControlBlockAssumption, HalfDouble, SeqModAssumption DEF Value
    <3>2. Sizeof(t.snd.NXT, t.snd.NXT) = 0
          /\ Sizeof(t.snd.NXT, Add(t.snd.NXT, t.snd.WND)) = t.snd.WND
      BY <1>1, <3>1, SizeofSelf, SizeofAdd
    <3> QED BY <1>1, <3>2, ControlBlockAssumption DEF InWindow, InRange
  <2>3. \/ InRange(seg.SEQ, t.snd.UNA, t.snd.NXT)
        \/ InWindow(seg.SEQ, t.snd.NXT, t.snd.WND)
        \/ t.snd.WND = 0 /\ seg.SEQ = t.snd.NXT
    BY <1>3, <1>8, <2>1, <2>2
  <2> QED BY <1>2, <1>3, <1>5, <1>6, <2>3, EmptyAccepted DEF seg
<1> QED BY <1>7, <1>8 DEF seg

\* The fields of the control block keep their widths, whatever the network sends.
THEOREM TypeCorrect ==
    ASSUME NoHalfwayAck
    PROVE  Spec => []TypeOK
<1>1. Inv => TypeOK
  BY DEF Inv
<1> QED BY <1>1, InvariantHolds, PTL

\* What is sent and unacknowledged fits the largest window and a FIN: the wrapping
\* comparisons of the send space are exact.
THEOREM FlightFits ==
    ASSUME NoHalfwayAck
    PROVE  Spec => []SendSpaceBounded
<1>1. Inv => SendSpaceBounded
  <2> SUFFICES ASSUME Inv, tcb.state # "Closed" PROVE inFlight(tcb) <= maxWindow + 1
    BY DEF SendSpaceBounded
  <2>1. tcb.snd.UNA \in Value /\ tcb.snd.NXT \in Value /\ inFlight(tcb) <= flightBound(tcb)
    BY DEF Inv, TypeOK, BlockInv, FlightInv, TCB, sendSpace
  <2>2. inFlight(tcb) \in Nat /\ maxWindow \in Nat \ {0}
    BY <2>1, SizeofNat, ControlBlockAssumption DEF inFlight
  <2>3. flightBound(tcb) \in {0, 1, maxWindow, maxWindow + 1}
    BY DEF flightBound
  <2> QED BY <2>1, <2>2, <2>3
<1> QED BY <1>1, InvariantHolds, PTL

\* Every control segment PendingSegment offers is one Send accepts.
THEOREM ControlNeverStuck ==
    ASSUME NoHalfwayAck
    PROVE  Spec => []PendingIsSendable
<1>1. Inv => PendingIsSendable
  BY ControlSendable DEF Inv, TypeOK, GoodBlock, PendingIsSendable
<1> QED BY <1>1, InvariantHolds, PTL

\* An acknowledgement moves snd.UNA forward over sent data only, and a refused call moves
\* no sequence number of a live connection.
THEOREM SequencesAreKept ==
    ASSUME NoHalfwayAck
    PROVE  Spec => SequencesKept
<1>1. Inv /\ [Next]_vars => [UnaStep /\ RefusalStep]_vars
  BY Step
<1> QED BY <1>1, InvariantHolds, PTL DEF Spec, SequencesKept
=============================================================================
