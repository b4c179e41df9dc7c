---------------------------- MODULE Runner_proofs ---------------------------
(* Proofs about Runner, for every size of the pool, every sequence space   *)
(* and any number of frames.                                               *)
EXTENDS Runner, TLAPS

\* The slots somebody owns: the handler's is claimed, the loop's is taken, and the
\* one a scan found stays taken, because only the loop frees a slot.  The handler
\* is not executing when Run clears the pool.
Inv ==
    /\ TypeOK
    /\ NoRaceToRelease
    /\ writing => slot[p.i].lenAcquire = lenClaimed
    /\ c.pc \in {"egress", "txUnmark", "txFree"} => c.buf # -1 /\ slot[c.buf].lenAcquire = 1
    /\ c.oldest # -1 => /\ c.pc \in {"scan", "confirm", "ingress", "unmark", "free"}
                        /\ slot[c.oldest].lenAcquire = 1
    /\ c.pc \in {"confirm", "ingress", "unmark", "free"} => c.oldest # -1
    /\ c.pc \in {"ingress", "unmark", "free"} => c.buf = c.oldest
    /\ c.pc = "stopped" => p.pc = "idle"

-----------------------------------------------------------------------------
(* Types.                                                                  *)

Slot == [lenAcquire : {lenClaimed, 0, 1}, isRx : BOOLEAN, seq : Value, buf : 0 .. MaxFrames]

LoopPc == {"service", "scan", "confirm", "ingress", "unmark", "free", "numFree",
           "acquire", "reacquire", "egress", "txUnmark", "txFree", "idle",
           "teardown", "stopped", "panic"}

LoopState == [pc : LoopPc, i : Slots, oldest : Slots \cup {-1}, oldestSeq : Value,
              buf : Slots \cup {-1}, moved : BOOLEAN, n : BOOLEAN, err : BOOLEAN,
              second : BOOLEAN, drain : 0 .. NSlots, opt : Options]

HandlerState == [pc : {"idle", "claim", "mark", "number", "copy", "publish", "wake"},
                 i : Slots, frame : 0 .. MaxFrames]

\* TypeOK in these words.
LEMMA Types ==
    TypeOK <=> /\ slot \in [Slots -> Slot] /\ nextSeq \in Value /\ wake \in BOOLEAN
               /\ p \in HandlerState /\ c \in LoopState
               /\ arrived \in 0 .. MaxFrames /\ ingress \in 0 .. MaxFrames
BY DEF TypeOK, Slot, LoopState, LoopPc, HandlerState

\* The pool has a slot, slots are not negative, and the sequence space has its words.
LEMMA Basics == /\ 0 \in Slots /\ -1 \notin Slots /\ Slots \subseteq Nat /\ 0 \in Value
                /\ \A v \in Value : Add(v, 1) \in Value
                /\ 0 \in 0 .. NSlots /\ 1 \in 0 .. NSlots /\ 0 \in 0 .. MaxFrames
BY RunnerAssumption, SeqModAssumption DEF Slots, Value, Add

\* The end of a doRx: a scan, or Tx; nothing is held and no slot is remembered.
LEMMA RxDoneIs ==
    ASSUME NEW r \in LoopState, r.oldest = -1
    PROVE  /\ rxDone(r) \in LoopState /\ rxDone(r).oldest = -1
           /\ rxDone(r).pc \in {"acquire", "scan", "reacquire"}
<1> DEFINE q == [r EXCEPT !.second = FALSE, !.buf = -1, !.n = FALSE, !.err = FALSE,
                          !.moved = @ \/ (r.n /\ (r.drain = 0 \/ ~r.err))]
<1>1. q \in LoopState /\ q.oldest = -1 /\ q.drain = r.drain
  BY DEF LoopState
<1>2. rxDone(r) = IF r.drain = 0 THEN go(q, "acquire")
                  ELSE IF r.drain < NSlots /\ ~r.err THEN go([q EXCEPT !.drain = @ + 1], "scan")
                  ELSE go(q, "reacquire")
  BY DEF rxDone
<1> HIDE DEF q
<1>3. \A pc \in {"acquire", "reacquire"} :
        go(q, pc) \in LoopState /\ go(q, pc).oldest = -1 /\ go(q, pc).pc = pc
  BY <1>1, Basics DEF go, LoopState, LoopPc
<1>4. ASSUME r.drain < NSlots
      PROVE  LET t == go([q EXCEPT !.drain = @ + 1], "scan")
             IN  t \in LoopState /\ t.oldest = -1 /\ t.pc = "scan"
  <2>1. r.drain + 1 \in 0 .. NSlots
    BY <1>4, RunnerAssumption DEF LoopState
  <2> QED BY <1>1, <2>1, Basics DEF go, LoopState, LoopPc
<1> QED BY <1>2, <1>3, <1>4

\* The end of a processAsyncRx: the same, or the pump of a polled device.
LEMMA AsyncRxDoneIs ==
    ASSUME NEW r \in LoopState, r.oldest = -1
    PROVE  /\ asyncRxDone(r) \in LoopState /\ asyncRxDone(r).oldest = -1
           /\ asyncRxDone(r).pc \in {"acquire", "scan", "reacquire", "numFree"}
<1>1. CASE r.opt.poll /\ ~r.second
  BY <1>1, Basics DEF asyncRxDone, go, LoopState, LoopPc
<1>2. CASE ~(r.opt.poll /\ ~r.second)
  <2>1. asyncRxDone(r) = rxDone(r)
    BY <1>2 DEF asyncRxDone
  <2> QED BY <2>1, RxDoneIs
<1> QED BY <1>1, <1>2

\* A scan begins again with nothing found.
LEMMA RestartIs ==
    ASSUME NEW r \in LoopState
    PROVE  restart(r) \in LoopState /\ restart(r).oldest = -1 /\ restart(r).pc = "scan"
BY Basics DEF restart, go, LoopState, LoopPc

-----------------------------------------------------------------------------
(* The steps.                                                              *)

\* The handler's steps.
LEMMA HandlerStep == Inv /\ (HandlerCalled \/ Handler) => Inv'
<1> SUFFICES ASSUME Inv, HandlerCalled \/ Handler PROVE Inv'
  OBVIOUS
<1> USE Basics DEF Inv, NoRaceToRelease, writing
<1>0. /\ slot \in [Slots -> Slot] /\ nextSeq \in Value /\ wake \in BOOLEAN
      /\ p \in HandlerState /\ c \in LoopState
      /\ arrived \in 0 .. MaxFrames /\ ingress \in 0 .. MaxFrames
  BY Types
<1>1. CASE HandlerCalled
  <2>1. p' \in HandlerState /\ p'.pc \in {"idle", "claim"} /\ arrived' \in 0 .. MaxFrames
    BY <1>0, <1>1, RunnerAssumption DEF HandlerCalled, HandlerState
  <2>2. UNCHANGED <<slot, nextSeq, wake, c, ingress>> /\ c.pc # "stopped"
    BY <1>1 DEF HandlerCalled
  <2>3. TypeOK'
    BY <1>0, <2>1, <2>2 DEF TypeOK, Slot, LoopState, LoopPc, HandlerState
  <2> QED BY <2>1, <2>2, <2>3
<1>2. CASE PutClaim
  <2>1. UNCHANGED <<nextSeq, wake, c, arrived, ingress>> /\ p.pc = "claim"
    BY <1>2 DEF PutClaim
  <2>2. CASE slot[p.i].lenAcquire = 0
    <3>1. slot' = [slot EXCEPT ![p.i].lenAcquire = lenClaimed] /\ p' = [p EXCEPT !.pc = "mark"]
      BY <1>2, <2>2 DEF PutClaim
    <3>2. slot' \in [Slots -> Slot] /\ p' \in HandlerState /\ p'.i = p.i /\ p.i \in Slots
      BY <1>0, <3>1 DEF Slot, HandlerState
    <3>3. /\ slot'[p.i].lenAcquire = lenClaimed
          /\ \A j \in Slots : slot[j].lenAcquire = 1 => slot'[j].lenAcquire = 1
      BY <1>0, <2>2, <3>1, <3>2 DEF Slot
    <3>4. TypeOK'
      BY <1>0, <2>1, <3>2 DEF TypeOK, Slot, LoopState, LoopPc, HandlerState
    <3> QED BY <1>0, <2>1, <3>2, <3>3, <3>4 DEF LoopState
  <2>3. CASE slot[p.i].lenAcquire # 0
    <3>1. slot' = slot /\ p' \in HandlerState /\ p'.pc \in {"claim", "idle"}
      BY <1>0, <1>2, <2>1, <2>3 DEF PutClaim, HandlerState
    <3>2. TypeOK'
      BY <1>0, <2>1, <3>1 DEF TypeOK, Slot, LoopState, LoopPc, HandlerState
    <3> QED BY <1>0, <2>1, <3>1, <3>2
  <2> QED BY <2>2, <2>3
<1>3. CASE PutMark \/ PutNumber \/ PutCopy
  <2>1. /\ UNCHANGED <<wake, c, arrived, ingress>> /\ p.pc \in {"mark", "number", "copy"}
        /\ p.i \in Slots /\ p.frame \in 0 .. MaxFrames
    BY <1>0, <1>3 DEF PutMark, PutNumber, PutCopy, HandlerState
  <2>2. /\ p' \in HandlerState /\ p'.i = p.i /\ p'.pc \in {"number", "copy", "publish"}
    BY <1>0, <1>3 DEF PutMark, PutNumber, PutCopy, HandlerState
  <2>3. nextSeq' \in Value
    BY <1>0, <1>3 DEF PutMark, PutNumber, PutCopy
  <2>4. slot' \in [Slots -> Slot] /\ \A j \in Slots : slot'[j].lenAcquire = slot[j].lenAcquire
    <3>1. CASE PutMark
      BY <1>0, <2>1, <3>1 DEF PutMark, Slot
    <3>2. CASE PutNumber
      BY <1>0, <2>1, <2>3, <3>2 DEF PutNumber, Slot
    <3>3. CASE PutCopy
      BY <1>0, <2>1, <3>3 DEF PutCopy, Slot
    <3> QED BY <1>3, <3>1, <3>2, <3>3
  <2>5. TypeOK'
    BY <1>0, <2>1, <2>2, <2>3, <2>4 DEF TypeOK, Slot, LoopState, LoopPc, HandlerState
  <2> QED BY <1>0, <2>1, <2>2, <2>4, <2>5 DEF LoopState
<1>4. CASE PutPublish
  <2>1. /\ UNCHANGED <<nextSeq, wake, c, arrived, ingress>> /\ p.pc = "publish" /\ p.i \in Slots
        /\ slot' = [slot EXCEPT ![p.i].lenAcquire = 1] /\ p' = [p EXCEPT !.pc = "wake"]
    BY <1>0, <1>4 DEF PutPublish, HandlerState
  <2>2. /\ p' \in HandlerState /\ p'.pc = "wake" /\ slot' \in [Slots -> Slot]
        /\ \A j \in Slots : slot[j].lenAcquire = 1 => slot'[j].lenAcquire = 1
    BY <1>0, <2>1 DEF HandlerState, Slot
  <2>3. TypeOK'
    BY <1>0, <2>1, <2>2 DEF TypeOK, Slot, LoopState, LoopPc, HandlerState
  <2> QED BY <1>0, <2>1, <2>2, <2>3 DEF LoopState
<1>5. CASE Wake
  <2>1. /\ UNCHANGED <<slot, nextSeq, c, arrived, ingress>> /\ wake' = TRUE
        /\ p' \in HandlerState /\ p'.pc = "idle"
    BY <1>0, <1>5 DEF Wake, HandlerState
  <2>2. TypeOK'
    BY <1>0, <2>1 DEF TypeOK, Slot, LoopState, LoopPc, HandlerState
  <2> QED BY <2>1, <2>2
<1> QED BY <1>1, <1>2, <1>3, <1>4, <1>5 DEF Handler

\* The loop's steps that leave the pool alone.
LEMMA LookStep ==
    Inv /\ (Service \/ scanOldest \/ hasPendingOlderThan \/ processAsyncRx \/ numFree
            \/ idle \/ cancel \/ teardown) => Inv'
<1> SUFFICES ASSUME Inv,
                    Service \/ scanOldest \/ hasPendingOlderThan \/ processAsyncRx \/ numFree
                    \/ idle \/ cancel \/ teardown
             PROVE  Inv'
  OBVIOUS
<1> USE Basics DEF Inv, NoRaceToRelease
<1>0. /\ slot \in [Slots -> Slot] /\ nextSeq \in Value /\ wake \in BOOLEAN
      /\ p \in HandlerState /\ c \in LoopState
      /\ arrived \in 0 .. MaxFrames /\ ingress \in 0 .. MaxFrames
  BY Types
<1>1. /\ UNCHANGED <<slot, nextSeq, p, arrived>> /\ wake' \in BOOLEAN /\ ingress' \in 0 .. MaxFrames
  <2>1. CASE processAsyncRx
    <3>1. c.buf \in Slots
      BY <1>0, <2>1 DEF processAsyncRx, LoopState
    <3> QED BY <1>0, <2>1, <3>1 DEF processAsyncRx, Slot
  <2>2. CASE Service \/ scanOldest \/ hasPendingOlderThan \/ numFree \/ idle \/ cancel \/ teardown
    BY <1>0, <2>2 DEF Service, scanOldest, hasPendingOlderThan, numFree, idle, cancel, teardown
  <2> QED BY <2>1, <2>2
<1>2. ASSUME c' \in LoopState PROVE TypeOK'
  BY <1>0, <1>1, <1>2 DEF TypeOK, Slot, LoopState, LoopPc, HandlerState
<1>3. writing' = writing
  BY <1>1 DEF writing
\* It is enough to follow the loop's own record.
<1>4. ASSUME /\ c' \in LoopState /\ c'.pc \notin {"panic", "egress", "txUnmark", "txFree"}
             /\ c'.oldest # -1 => /\ c'.pc \in {"scan", "confirm", "ingress", "unmark", "free"}
                                  /\ slot[c'.oldest].lenAcquire = 1
             /\ c'.pc \in {"confirm", "ingress", "unmark", "free"} => c'.oldest # -1
             /\ c'.pc \in {"ingress", "unmark", "free"} => c'.buf = c'.oldest
             /\ c'.pc = "stopped" => p.pc = "idle"
      PROVE  Inv'
  BY <1>1, <1>2, <1>3, <1>4
<1>5. CASE Service \/ idle \/ cancel \/ teardown
  <2>1. c.oldest = -1
    BY <1>5 DEF Service, idle, cancel, teardown
  <2>2. /\ c' \in LoopState /\ c'.oldest = -1 /\ c'.pc \in {"scan", "service", "teardown", "stopped"}
        /\ c'.pc = "stopped" => p.pc = "idle"
    <3>1. CASE Service
      <4> DEFINE t == [c EXCEPT !.moved = FALSE, !.drain = 0]
      <4>1. t \in LoopState /\ t.oldest = -1
        BY <1>0, <2>1 DEF LoopState
      <4>2. c' = go(t, "scan")
        BY <3>1 DEF Service
      <4> HIDE DEF t
      <4> QED BY <4>1, <4>2 DEF go, LoopState, LoopPc
    <3>2. CASE idle
      <4>1. c' = go(c, "service")
        BY <3>2 DEF idle
      <4> QED BY <1>0, <2>1, <4>1 DEF go, LoopState, LoopPc
    <3>3. CASE cancel
      BY <1>0, <2>1, <3>3 DEF cancel, go, LoopState, LoopPc
    <3>4. CASE teardown
      BY <1>0, <2>1, <3>4 DEF teardown, go, LoopState, LoopPc
    <3> QED BY <1>5, <3>1, <3>2, <3>3, <3>4
  <2> QED BY <1>4, <2>2
<1>6. CASE scanOldest
  <2> DEFINE i == c.i
             older == pendingRx(i) /\ (c.oldest < 0 \/ lessThan(slot[i].seq, c.oldestSeq))
             r == IF older THEN [c EXCEPT !.oldest = i, !.oldestSeq = slot[i].seq] ELSE c
  <2>1. /\ c.pc = "scan" /\ i \in Slots
        /\ c' = IF i + 1 \in Slots THEN [r EXCEPT !.i = i + 1]
                ELSE IF r.oldest < 0 THEN asyncRxDone(r) ELSE go(r, "confirm")
    BY <1>0, <1>6 DEF scanOldest, LoopState
  <2>2. r \in LoopState /\ r.pc = "scan" /\ (r.oldest # -1 => slot[r.oldest].lenAcquire = 1)
    <3>1. CASE older
      <4>1. slot[i].lenAcquire = 1 /\ slot[i].seq \in Value
        <5>1. slot[i] \in Slot /\ slot[i].lenAcquire > 0
          BY <1>0, <2>1, <3>1 DEF pendingRx
        <5> QED BY <5>1 DEF Slot, lenClaimed
      <4> HIDE DEF older
      <4> QED BY <1>0, <2>1, <3>1, <4>1 DEF LoopState, LoopPc
    <3>2. CASE ~older
      BY <1>0, <2>1, <3>2
    <3> QED BY <3>1, <3>2
  <2> HIDE DEF r
  <2>3. CASE i + 1 \in Slots
    <3>1. c' = [r EXCEPT !.i = i + 1]
      BY <2>1, <2>3
    <3>2. c' \in LoopState /\ c'.pc = "scan" /\ c'.oldest = r.oldest
      BY <2>2, <2>3, <3>1 DEF LoopState
    <3> QED BY <1>4, <2>2, <3>2
  <2>4. CASE i + 1 \notin Slots /\ r.oldest < 0
    <3>1. c' = asyncRxDone(r) /\ r.oldest = -1
      BY <2>1, <2>2, <2>4 DEF LoopState
    <3> QED BY <1>4, <2>2, <3>1, AsyncRxDoneIs
  <2>5. CASE i + 1 \notin Slots /\ ~(r.oldest < 0)
    <3>1. c' = go(r, "confirm") /\ r.oldest # -1
      BY <2>1, <2>2, <2>5 DEF LoopState
    <3>2. c' \in LoopState /\ c'.pc = "confirm" /\ c'.oldest = r.oldest
      BY <2>2, <3>1 DEF go, LoopState, LoopPc
    <3> QED BY <1>4, <2>2, <3>1, <3>2
  <2> QED BY <2>3, <2>4, <2>5
<1>7. CASE hasPendingOlderThan
  <2>1. c.pc = "confirm" /\ c.oldest # -1 /\ slot[c.oldest].lenAcquire = 1
    BY <1>7 DEF hasPendingOlderThan
  <2>2. \/ c' = restart(c)
        \/ c.i + 1 \in Slots /\ c' = [c EXCEPT !.i = @ + 1]
        \/ c' = go([c EXCEPT !.buf = c.oldest], "ingress")
    BY <1>7 DEF hasPendingOlderThan
  <2>3. CASE c' = restart(c)
    BY <1>0, <1>4, <2>3, RestartIs
  <2>4. CASE c.i + 1 \in Slots /\ c' = [c EXCEPT !.i = @ + 1]
    <3>1. c' \in LoopState /\ c'.pc = "confirm" /\ c'.oldest = c.oldest
      BY <1>0, <2>1, <2>4 DEF LoopState
    <3> QED BY <1>4, <2>1, <3>1
  <2>5. CASE c' = go([c EXCEPT !.buf = c.oldest], "ingress")
    <3>1. c' \in LoopState /\ c'.pc = "ingress" /\ c'.oldest = c.oldest /\ c'.buf = c.oldest
      BY <1>0, <2>1, <2>5 DEF go, LoopState, LoopPc
    <3> QED BY <1>4, <2>1, <3>1
  <2> QED BY <2>2, <2>3, <2>4, <2>5
<1>8. CASE processAsyncRx
  <2>1. c.pc = "ingress" /\ c.oldest # -1 /\ c.buf = c.oldest /\ slot[c.oldest].lenAcquire = 1
    BY <1>8 DEF processAsyncRx
  <2>2. PICK err \in BOOLEAN : c' = go([c EXCEPT !.n = TRUE, !.err = @ \/ err], "unmark")
    BY <1>8 DEF processAsyncRx
  <2>3. c' \in LoopState /\ c'.pc = "unmark" /\ c'.oldest = c.oldest /\ c'.buf = c.oldest
    BY <1>0, <2>1, <2>2 DEF go, LoopState, LoopPc
  <2> QED BY <1>4, <2>1, <2>3
<1>9. CASE numFree
  <2>1. c.pc = "numFree" /\ c.oldest = -1
    BY <1>9 DEF numFree
  <2>2. \/ c' = restart([c EXCEPT !.second = TRUE])
        \/ c.i + 1 \in Slots /\ c' = [c EXCEPT !.i = @ + 1]
        \/ c' = rxDone(c)
    BY <1>9 DEF numFree
  <2>3. CASE c' = restart([c EXCEPT !.second = TRUE])
    <3>1. [c EXCEPT !.second = TRUE] \in LoopState
      BY <1>0 DEF LoopState
    <3> QED BY <1>4, <2>3, <3>1, RestartIs
  <2>4. CASE c.i + 1 \in Slots /\ c' = [c EXCEPT !.i = @ + 1]
    <3>1. c' \in LoopState /\ c'.pc = "numFree" /\ c'.oldest = -1
      BY <1>0, <2>1, <2>4 DEF LoopState
    <3> QED BY <1>4, <3>1
  <2>5. CASE c' = rxDone(c)
    BY <1>0, <1>4, <2>1, <2>5, RxDoneIs
  <2> QED BY <2>2, <2>3, <2>4, <2>5
<1> QED BY <1>5, <1>6, <1>7, <1>8, <1>9

\* The loop's steps that change the pool.
LEMMA PoolStep == Inv /\ (releaseUnmark \/ releaseFree \/ acquire \/ egress \/ Run) => Inv'
<1> SUFFICES ASSUME Inv, releaseUnmark \/ releaseFree \/ acquire \/ egress \/ Run PROVE Inv'
  OBVIOUS
<1> USE Basics DEF Inv, NoRaceToRelease
<1>0. /\ slot \in [Slots -> Slot] /\ nextSeq \in Value /\ wake \in BOOLEAN
      /\ p \in HandlerState /\ c \in LoopState
      /\ arrived \in 0 .. MaxFrames /\ ingress \in 0 .. MaxFrames
  BY Types
<1>1. UNCHANGED <<wake, p, arrived, ingress>> /\ nextSeq' \in Value
  BY <1>0 DEF releaseUnmark, releaseFree, acquire, egress, Run
<1>2. ASSUME c' \in LoopState, slot' \in [Slots -> Slot] PROVE TypeOK'
  BY <1>0, <1>1, <1>2 DEF TypeOK, Slot, LoopState, LoopPc, HandlerState
<1>3. writing' = writing /\ p.i \in Slots
  BY <1>0, <1>1 DEF writing, HandlerState
<1>4. CASE releaseUnmark
  <2>1. c.buf \in Slots /\ c.pc \in {"unmark", "txUnmark"} /\ slot[c.buf].lenAcquire = 1
    BY <1>0, <1>4 DEF releaseUnmark, LoopState
  <2>2. slot' = [slot EXCEPT ![c.buf].isRx = FALSE]
    BY <1>4 DEF releaseUnmark
  <2>3. slot' \in [Slots -> Slot] /\ \A j \in Slots : slot'[j].lenAcquire = slot[j].lenAcquire
    BY <1>0, <2>1, <2>2 DEF Slot
  <2>4. /\ c' \in LoopState /\ c'.buf = c.buf /\ c'.oldest = c.oldest
        /\ c.pc = "unmark" => c'.pc = "free"
        /\ c.pc = "txUnmark" => c'.pc = "txFree"
    BY <1>0, <1>4 DEF releaseUnmark, holdsTx, LoopState, LoopPc
  <2>5. c.oldest # -1 => c.oldest \in Slots
    BY <1>0 DEF LoopState
  <2> QED BY <1>1, <1>2, <1>3, <2>1, <2>3, <2>4, <2>5
<1>5. CASE releaseFree
  <2>1. c.buf \in Slots /\ c.pc \in {"free", "txFree"} /\ slot[c.buf].lenAcquire = 1
    BY <1>0, <1>5 DEF releaseFree, LoopState
  <2>2. /\ slot' = [slot EXCEPT ![c.buf].lenAcquire = 0]
        /\ c' = IF holdsTx THEN go([c EXCEPT !.buf = -1], "idle")
                ELSE asyncRxDone([c EXCEPT !.oldest = -1, !.oldestSeq = 0])
    BY <1>5, <2>1 DEF releaseFree
  <2>3. /\ slot' \in [Slots -> Slot]
        /\ \A j \in Slots : slot[j].lenAcquire = lenClaimed => slot'[j].lenAcquire = lenClaimed
    BY <1>0, <2>1, <2>2 DEF Slot, lenClaimed
  <2>4. c' \in LoopState /\ c'.oldest = -1 /\ c'.pc \in {"idle", "acquire", "scan", "reacquire", "numFree"}
    <3>1. CASE holdsTx
      <4>1. c.oldest = -1
        BY <3>1 DEF holdsTx
      <4> QED BY <1>0, <2>2, <3>1, <4>1 DEF go, LoopState, LoopPc
    <3>2. CASE ~holdsTx
      <4> DEFINE r == [c EXCEPT !.oldest = -1, !.oldestSeq = 0]
      <4>1. r \in LoopState /\ r.oldest = -1
        BY <1>0 DEF LoopState
      <4> HIDE DEF r
      <4>2. c' = asyncRxDone(r)
        BY <2>2, <3>2 DEF r
      <4> QED BY <4>1, <4>2, AsyncRxDoneIs
    <3> QED BY <3>1, <3>2
  <2> QED BY <1>1, <1>2, <1>3, <2>3, <2>4
<1>6. CASE acquire
  <2>1. c.pc \in {"acquire", "reacquire"} /\ c.oldest = -1 /\ c.i \in Slots
    BY <1>0, <1>6 DEF acquire, LoopState
  <2>2. CASE slot[c.i].lenAcquire = 0
    <3>1. /\ slot' = [slot EXCEPT ![c.i].lenAcquire = 1]
          /\ c' = [c EXCEPT !.pc = "egress", !.buf = c.i]
      BY <1>6, <2>2 DEF acquire
    <3>2. /\ slot' \in [Slots -> Slot] /\ slot'[c.i].lenAcquire = 1
          /\ \A j \in Slots : slot[j].lenAcquire = lenClaimed => slot'[j].lenAcquire = lenClaimed
      BY <1>0, <2>1, <2>2, <3>1 DEF Slot, lenClaimed
    <3>3. c' \in LoopState /\ c'.pc = "egress" /\ c'.buf = c.i /\ c'.oldest = -1
      BY <1>0, <2>1, <3>1 DEF LoopState, LoopPc
    <3> QED BY <1>1, <1>2, <1>3, <2>1, <3>2, <3>3
  <2>3. CASE slot[c.i].lenAcquire # 0
    <3>1. slot' = slot
      BY <1>6, <2>3 DEF acquire
    <3>2. \/ c.i + 1 \in Slots /\ c' = [c EXCEPT !.i = @ + 1]
          \/ c' = restart([c EXCEPT !.drain = 1])
          \/ c' = go(c, "idle")
      BY <1>6, <2>3 DEF acquire
    <3>3. c' \in LoopState /\ c'.oldest = -1 /\ c'.pc \in {"acquire", "reacquire", "scan", "idle"}
      <4>1. CASE c.i + 1 \in Slots /\ c' = [c EXCEPT !.i = @ + 1]
        BY <1>0, <2>1, <4>1 DEF LoopState
      <4>2. CASE c' = restart([c EXCEPT !.drain = 1])
        <5>1. [c EXCEPT !.drain = 1] \in LoopState
          BY <1>0, RunnerAssumption DEF LoopState
        <5> QED BY <4>2, <5>1, RestartIs
      <4>3. CASE c' = go(c, "idle")
        BY <1>0, <2>1, <4>3 DEF go, LoopState, LoopPc
      <4> QED BY <3>2, <4>1, <4>2, <4>3
    <3> QED BY <1>0, <1>1, <1>2, <1>3, <3>1, <3>3
  <2> QED BY <2>2, <2>3
<1>7. CASE egress
  <2>1. c.buf \in Slots /\ c.pc = "egress" /\ slot[c.buf].lenAcquire = 1 /\ c.oldest = -1
    BY <1>0, <1>7 DEF egress, LoopState
  <2>2. slot' = [slot EXCEPT ![c.buf].buf = NoFrame]
    BY <1>7 DEF egress
  <2>3. slot' \in [Slots -> Slot] /\ \A j \in Slots : slot'[j].lenAcquire = slot[j].lenAcquire
    BY <1>0, <2>1, <2>2, RunnerAssumption DEF Slot, NoFrame
  <2>4. c' \in LoopState /\ c'.buf = c.buf /\ c'.oldest = -1 /\ c'.pc = "txUnmark"
    <3>1. \/ c' = [c EXCEPT !.pc = "txUnmark"]
          \/ c' = [c EXCEPT !.pc = "txUnmark", !.moved = TRUE]
      BY <1>7 DEF egress
    <3>2. CASE c' = [c EXCEPT !.pc = "txUnmark"]
      BY <1>0, <2>1, <3>2 DEF LoopState, LoopPc
    <3>3. CASE c' = [c EXCEPT !.pc = "txUnmark", !.moved = TRUE]
      BY <1>0, <2>1, <3>3 DEF LoopState, LoopPc
    <3> QED BY <3>1, <3>2, <3>3
  <2> QED BY <1>1, <1>2, <1>3, <2>1, <2>3, <2>4
<1>8. CASE Run
  <2>1. c.pc = "stopped" /\ p.pc = "idle" /\ c.oldest = -1
    BY <1>8 DEF Run
  <2>2. slot' = [i \in Slots |-> [slot[i] EXCEPT !.isRx = FALSE, !.lenAcquire = 0]]
    BY <1>8 DEF Run
  <2>3. slot' \in [Slots -> Slot]
    BY <1>0, <2>2 DEF Slot
  <2>4. c' \in LoopState /\ c'.oldest = -1 /\ c'.pc = "service"
    BY <1>0, <1>8, <2>1 DEF Run, go, LoopState, LoopPc
  <2>5. ~writing
    BY <2>1 DEF writing
  <2> QED BY <1>1, <1>2, <1>3, <2>3, <2>4, <2>5
<1> QED BY <1>4, <1>5, <1>6, <1>7, <1>8

-----------------------------------------------------------------------------
(* The results.                                                            *)

\* The invariant holds of every behaviour.
LEMMA InvariantHolds == Spec => []Inv
<1>1. Init => Inv
  <2> SUFFICES ASSUME Init PROVE Inv
    OBVIOUS
  <2>1. TypeOK
    <3>1. slot \in [Slots -> Slot]
      BY Basics, RunnerAssumption DEF Init, Slot, freeSlot, NoFrame
    <3>2. p \in HandlerState
      BY Basics, RunnerAssumption DEF Init, HandlerState, NoFrame
    <3>3. c \in LoopState
      <4>1. PICK opt \in Options :
              c = [pc |-> "service", i |-> 0, oldest |-> -1, oldestSeq |-> 0, buf |-> -1,
                   moved |-> FALSE, n |-> FALSE, err |-> FALSE, second |-> FALSE, drain |-> 0,
                   opt |-> opt]
        BY DEF Init
      <4> QED BY <4>1, Basics DEF LoopState, LoopPc
    <3>4. nextSeq \in Value /\ wake \in BOOLEAN /\ arrived \in 0 .. MaxFrames /\ ingress \in 0 .. MaxFrames
      <4>1. FirstSeqs \subseteq Value
        BY RunnerAssumption
      <4> QED BY <4>1, Basics DEF Init, NoFrame
    <3> QED BY <3>1, <3>2, <3>3, <3>4, Types
  <2> QED BY <2>1 DEF Init, Inv, NoRaceToRelease, writing
<1>2. Inv /\ [Next]_vars => Inv'
  <2> SUFFICES ASSUME Inv, [Next]_vars PROVE Inv'
    OBVIOUS
  <2>1. CASE UNCHANGED vars
    BY <2>1 DEF vars, Inv, TypeOK, NoRaceToRelease, writing
  <2> QED BY <2>1, HandlerStep, LookStep, PoolStep DEF Next, Loop
<1> QED BY <1>1, <1>2, PTL DEF Spec

\* The pool and both goroutines stay well typed, for every number of slots.
THEOREM RunnerTypeCorrect == Spec => []TypeOK
<1>1. Inv => TypeOK
  BY DEF Inv
<1> QED BY <1>1, InvariantHolds, PTL

\* The panic "bs:race to release" (buffer.go:168) is unreachable however the
\* goroutines interleave.
THEOREM ReleaseNeverRaces == Spec => []NoRaceToRelease
<1>1. Inv => NoRaceToRelease
  BY DEF Inv
<1> QED BY <1>1, InvariantHolds, PTL

\* The receive handler never writes into a buffer the stack reads or writes, though
\* neither takes a lock (runner.go:353-354).
THEOREM SlotsHaveOneOwner == Spec => []SlotHasOneOwner
<1>1. Inv => SlotHasOneOwner
  BY DEF Inv, SlotHasOneOwner, holding, lenClaimed
<1> QED BY <1>1, InvariantHolds, PTL
=============================================================================
