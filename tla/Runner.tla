------------------------------- MODULE Runner -------------------------------
(***************************************************************************)
(* netdev.Runner and its pool of frame buffers, bufferSelect               *)
(* (x/netdev/runner.go, x/netdev/buffer.go).                               *)
(*                                                                         *)
(* Two goroutines share the pool without a lock: the device's receive      *)
(* handler (recvEthHandler, the producer) and the run loop (Run, the       *)
(* consumer).  Every atomic load, store or compare-and-swap of the code is *)
(* a step here, so the scans of the pool interleave with the producer.     *)
(* The device is driven asynchronously; with poll the loop also pumps it.  *)
(*                                                                         *)
(* Frames are numbered in the order the device hands them over.            *)
(***************************************************************************)
EXTENDS SeqSpace

CONSTANTS
    NSlots,       \* buffers in the pool
    Options,      \* the settings of RunnerConfig to run with: poll, RunnerInterfacePoll
                  \* is set next to RunnerInterfaceAsync; backoff, RunnerNoBackoff is
                  \* not set and a timer also ends the wait
    FirstSeqs,    \* arrival numbers the run may have reached with the pool drained
    MaxFrames     \* bound: frames the device hands over from there

ASSUME RunnerAssumption ==
    /\ NSlots \in Nat \ {0} /\ NSlots < Half
    /\ Options \subseteq [poll : BOOLEAN, backoff : BOOLEAN]
    /\ FirstSeqs \subseteq Value
    /\ MaxFrames \in Nat

Slots == 0 .. NSlots - 1
lenClaimed == -1
NoFrame == 0        \* what a buffer holds that was not yet copied into

VARIABLES
    slot,         \* the pool: lenAcquire, isRx, seq and buf of every slot
    nextSeq,
    wake,         \* the one-element channel holds a signal
    p,            \* the receive handler: [pc, i, frame]
    c,            \* the run loop: its place pc, the scan's i, oldest and oldestSeq,
                  \* the slot buf it holds, whether the service (moved) or this doRx
                  \* (n, err) got something, how often doRx ran (second, drain),
                  \* and its settings opt
    arrived,      \* frames handed over so far
    ingress       \* the last frame the stack got

vars == <<slot, nextSeq, wake, p, c, arrived, ingress>>

\* Mutant: sequence numbers compared as plain integers.
lessThanMutant(a, b) == a < b

lessThan(a, b) == LessThan(a, b)

freeSlot == [lenAcquire |-> 0, isRx |-> FALSE, seq |-> 0, buf |-> NoFrame]

\* Run begins with releaseAll and the handler installed; a run that has been going
\* on for long is back here whenever the pool is drained.
Init ==
    /\ slot = [i \in Slots |-> freeSlot]
    /\ nextSeq \in FirstSeqs
    /\ wake = FALSE
    /\ p = [pc |-> "idle", i |-> 0, frame |-> NoFrame]
    /\ c \in {[pc |-> "service", i |-> 0, oldest |-> -1, oldestSeq |-> 0, buf |-> -1,
              moved |-> FALSE, n |-> FALSE, err |-> FALSE, second |-> FALSE, drain |-> 0,
              opt |-> opt] : opt \in Options}
    /\ arrived = 0
    /\ ingress = NoFrame

-----------------------------------------------------------------------------
(* The receive handler: goroPutRx, then Wake.                              *)

\* The device delivers a frame while the handler is installed; an empty or
\* oversize one is dropped.
HandlerCalled ==
    /\ p.pc = "idle" /\ c.pc \notin {"stopped", "teardown"}
    /\ arrived < MaxFrames
    /\ arrived' = arrived + 1
    /\ \E fits \in BOOLEAN :
         p' = IF fits THEN [pc |-> "claim", i |-> 0, frame |-> arrived + 1] ELSE p
    /\ UNCHANGED <<slot, nextSeq, wake, c, ingress>>

\* No free slot: the frame is lost.
PutClaim ==
    /\ p.pc = "claim"
    /\ IF slot[p.i].lenAcquire = 0
       THEN /\ slot' = [slot EXCEPT ![p.i].lenAcquire = lenClaimed]
            /\ p' = [p EXCEPT !.pc = "mark"]
       ELSE /\ p' = IF p.i + 1 \in Slots THEN [p EXCEPT !.i = @ + 1]
                                         ELSE [p EXCEPT !.pc = "idle", !.i = 0]
            /\ UNCHANGED slot
    /\ UNCHANGED <<nextSeq, wake, c, arrived, ingress>>

PutMark ==
    /\ p.pc = "mark"
    /\ slot' = [slot EXCEPT ![p.i].isRx = TRUE]
    /\ p' = [p EXCEPT !.pc = "number"]
    /\ UNCHANGED <<nextSeq, wake, c, arrived, ingress>>

PutNumber ==
    /\ p.pc = "number"
    /\ nextSeq' = Add(nextSeq, 1)
    /\ slot' = [slot EXCEPT ![p.i].seq = nextSeq']
    /\ p' = [p EXCEPT !.pc = "copy"]
    /\ UNCHANGED <<wake, c, arrived, ingress>>

PutCopy ==
    /\ p.pc = "copy"
    /\ slot' = [slot EXCEPT ![p.i].buf = p.frame]
    /\ p' = [p EXCEPT !.pc = "publish"]
    /\ UNCHANGED <<nextSeq, wake, c, arrived, ingress>>

PutPublish ==
    /\ p.pc = "publish"
    /\ slot' = [slot EXCEPT ![p.i].lenAcquire = 1]
    /\ p' = [p EXCEPT !.pc = "wake"]
    /\ UNCHANGED <<nextSeq, wake, c, arrived, ingress>>

\* Mutant: the loop is not woken.
WakeMutant ==
    /\ p.pc = "wake"
    /\ p' = [p EXCEPT !.pc = "idle", !.i = 0]
    /\ UNCHANGED <<slot, nextSeq, wake, c, arrived, ingress>>

\* Signals coalesce and never block.
Wake ==
    /\ p.pc = "wake"
    /\ wake' = TRUE
    /\ p' = [p EXCEPT !.pc = "idle", !.i = 0]
    /\ UNCHANGED <<slot, nextSeq, c, arrived, ingress>>

-----------------------------------------------------------------------------
(* The run loop.  go moves it to another place in its program, with the    *)
(* scans starting from slot 0.                                             *)

go(r, pc) == [r EXCEPT !.pc = pc, !.i = 0]

\* One doRx is over: the first of a service, or one of those that drain the pool
\* when Tx found no buffer.  An error ends the draining and forgets what that
\* doRx received.
rxDone(r) ==
    LET q == [r EXCEPT !.second = FALSE, !.buf = -1, !.n = FALSE, !.err = FALSE,
                       !.moved = @ \/ (r.n /\ (r.drain = 0 \/ ~r.err))]
    IN  IF r.drain = 0 THEN go(q, "acquire")
        ELSE IF r.drain < NSlots /\ ~r.err THEN go([q EXCEPT !.drain = @ + 1], "scan")
        ELSE go(q, "reacquire")

\* One processAsyncRx is over; a polled device is pumped between two of them.
asyncRxDone(r) ==
    IF r.opt.poll /\ ~r.second THEN go([r EXCEPT !.buf = -1], "numFree") ELSE rxDone(r)

Service ==
    /\ c.pc = "service"
    /\ c' = go([c EXCEPT !.moved = FALSE, !.drain = 0], "scan")
    /\ UNCHANGED <<slot, nextSeq, wake, p, arrived, ingress>>

pendingRx(i) == slot[i].lenAcquire > 0 /\ slot[i].isRx

\* scanOldest looks at one slot; isRx and seq of a slot whose length is positive
\* are written by its owner, this goroutine.
scanOldest ==
    /\ c.pc = "scan"
    /\ LET i == c.i
           older == pendingRx(i) /\ (c.oldest < 0 \/ lessThan(slot[i].seq, c.oldestSeq))
           r == IF older THEN [c EXCEPT !.oldest = i, !.oldestSeq = slot[i].seq] ELSE c
       IN  c' = IF i + 1 \in Slots THEN [r EXCEPT !.i = i + 1]
                ELSE IF r.oldest < 0 THEN asyncRxDone(r)
                ELSE go(r, "confirm")
    /\ UNCHANGED <<slot, nextSeq, wake, p, arrived, ingress>>

restart(r) == go([r EXCEPT !.oldest = -1, !.oldestSeq = 0], "scan")

\* The confirming scan: an older frame published behind the first scan restarts it.
hasPendingOlderThan ==
    /\ c.pc = "confirm"
    /\ c' = IF pendingRx(c.i) /\ lessThan(slot[c.i].seq, c.oldestSeq)
            THEN restart(c)
            ELSE IF c.i + 1 \in Slots THEN [c EXCEPT !.i = @ + 1]
            ELSE go([c EXCEPT !.buf = c.oldest], "ingress")
    /\ UNCHANGED <<slot, nextSeq, wake, p, arrived, ingress>>

\* processAsyncRx hands the frame to the stack, which may refuse it.
processAsyncRx ==
    /\ c.pc = "ingress"
    /\ ingress' = slot[c.buf].buf
    /\ \E err \in BOOLEAN :
         c' = go([c EXCEPT !.n = TRUE, !.err = @ \/ err], "unmark")
    /\ UNCHANGED <<slot, nextSeq, wake, p, arrived>>

\* release of a received frame, or of the transmit buffer when Tx holds one.
holdsTx == c.pc \in {"txUnmark", "txFree"}

releaseUnmark ==
    /\ c.pc \in {"unmark", "txUnmark"}
    /\ slot' = [slot EXCEPT ![c.buf].isRx = FALSE]
    /\ c' = [c EXCEPT !.pc = IF holdsTx THEN "txFree" ELSE "free"]
    /\ UNCHANGED <<nextSeq, wake, p, arrived, ingress>>

\* The compare-and-swap; a slot that is not owned panics with "bs:race to release".
releaseFree ==
    /\ c.pc \in {"free", "txFree"}
    /\ IF slot[c.buf].lenAcquire > 0
       THEN /\ slot' = [slot EXCEPT ![c.buf].lenAcquire = 0]
            /\ c' = IF holdsTx
                    THEN go([c EXCEPT !.buf = -1], "idle")
                    ELSE asyncRxDone([c EXCEPT !.oldest = -1, !.oldestSeq = 0])
       ELSE c' = go(c, "panic") /\ UNCHANGED slot
    /\ UNCHANGED <<nextSeq, wake, p, arrived, ingress>>

\* numFree > 0 pumps the device, which calls the handler as it likes, and a
\* second frame is processed.
numFree ==
    /\ c.pc = "numFree"
    /\ c' = IF slot[c.i].lenAcquire = 0 THEN restart([c EXCEPT !.second = TRUE])
            ELSE IF c.i + 1 \in Slots THEN [c EXCEPT !.i = @ + 1]
            ELSE rxDone(c)
    /\ UNCHANGED <<slot, nextSeq, wake, p, arrived, ingress>>

\* Mutant: a slot that is only claimed counts as free.
acquireMutant ==
    /\ c.pc \in {"acquire", "reacquire"}
    /\ IF slot[c.i].lenAcquire <= 0
       THEN /\ slot' = [slot EXCEPT ![c.i].lenAcquire = 1]
            /\ c' = [c EXCEPT !.pc = "egress", !.buf = c.i]
       ELSE /\ c' = IF c.i + 1 \in Slots THEN [c EXCEPT !.i = @ + 1]
                    ELSE IF c.pc = "acquire" THEN restart([c EXCEPT !.drain = 1])
                    ELSE go(c, "idle")
            /\ UNCHANGED slot
    /\ UNCHANGED <<nextSeq, wake, p, arrived, ingress>>

\* acquire tries one slot.  Tx that finds none drains the pool once and then
\* skips its turn.
acquire ==
    /\ c.pc \in {"acquire", "reacquire"}
    /\ IF slot[c.i].lenAcquire = 0
       THEN /\ slot' = [slot EXCEPT ![c.i].lenAcquire = 1]
            /\ c' = [c EXCEPT !.pc = "egress", !.buf = c.i]
       ELSE /\ c' = IF c.i + 1 \in Slots THEN [c EXCEPT !.i = @ + 1]
                    ELSE IF c.pc = "acquire" THEN restart([c EXCEPT !.drain = 1])
                    ELSE go(c, "idle")
            /\ UNCHANGED slot
    /\ UNCHANGED <<nextSeq, wake, p, arrived, ingress>>

\* The stack writes a frame, and it is sent, or it has none.  A frame longer than
\* the buffer makes Run return.
egress ==
    /\ c.pc = "egress"
    /\ \/ c' = [c EXCEPT !.pc = "txUnmark"]
       \/ c' = [c EXCEPT !.pc = "txUnmark", !.moved = TRUE]
    /\ slot' = [slot EXCEPT ![c.buf].buf = NoFrame]
    /\ UNCHANGED <<nextSeq, wake, p, arrived, ingress>>

\* The end of an iteration: go on when something moved, else wait for a signal,
\* or for the timer when there is one.
idle ==
    /\ c.pc = "idle"
    /\ \/ c.moved /\ UNCHANGED wake
       \/ ~c.moved /\ wake /\ wake' = FALSE
       \/ ~c.moved /\ c.opt.backoff /\ UNCHANGED wake
    /\ c' = go(c, "service")
    /\ UNCHANGED <<slot, nextSeq, p, arrived, ingress>>

\* ctx is cancelled, or the stack wrote an invalid frame: Run removes the handler.
cancel ==
    /\ c.pc \in {"idle", "service"}
    /\ c' = go(c, "teardown")
    /\ UNCHANGED <<slot, nextSeq, wake, p, arrived, ingress>>

\* SetEthRecvHandler(nil) returns once the handler is not executing.
teardown ==
    /\ c.pc = "teardown" /\ p.pc = "idle"
    /\ c' = go(c, "stopped")
    /\ UNCHANGED <<slot, nextSeq, wake, p, arrived, ingress>>

\* Run again: releaseAll, and a new handler.  What was pending is lost.
Run ==
    /\ c.pc = "stopped"
    /\ slot' = [i \in Slots |-> [slot[i] EXCEPT !.isRx = FALSE, !.lenAcquire = 0]]
    /\ nextSeq' = 0
    /\ c' = go(c, "service")
    /\ UNCHANGED <<wake, p, arrived, ingress>>

Handler == \/ PutClaim \/ PutMark \/ PutNumber \/ PutCopy \/ PutPublish \/ Wake

Loop == \/ Service \/ scanOldest \/ hasPendingOlderThan \/ processAsyncRx
        \/ releaseUnmark \/ releaseFree \/ numFree \/ acquire \/ egress \/ idle
        \/ teardown

Next == HandlerCalled \/ Handler \/ Loop \/ cancel \/ Run

\* Both goroutines are scheduled; nobody has to call the handler or cancel Run,
\* and nobody has to run it again.
Spec == Init /\ [][Next]_vars /\ WF_vars(Handler) /\ WF_vars(Loop)

-----------------------------------------------------------------------------
writing == p.pc \in {"mark", "number", "copy", "publish"}
holding == c.pc \in {"ingress", "unmark", "free", "egress", "txUnmark", "txFree"}

TypeOK ==
    /\ slot \in [Slots -> [lenAcquire : {lenClaimed, 0, 1}, isRx : BOOLEAN,
                           seq : Value, buf : 0 .. MaxFrames]]
    /\ nextSeq \in Value
    /\ wake \in BOOLEAN
    /\ p \in [pc : {"idle", "claim", "mark", "number", "copy", "publish", "wake"},
              i : Slots, frame : 0 .. MaxFrames]
    /\ c \in [pc : {"service", "scan", "confirm", "ingress", "unmark", "free", "numFree",
                    "acquire", "reacquire", "egress", "txUnmark", "txFree", "idle",
                    "teardown", "stopped", "panic"},
              i : Slots, oldest : Slots \cup {-1}, oldestSeq : Value,
              buf : Slots \cup {-1}, moved : BOOLEAN, n : BOOLEAN, err : BOOLEAN,
              second : BOOLEAN, drain : 0 .. NSlots, opt : Options]
    /\ arrived \in 0 .. MaxFrames
    /\ ingress \in 0 .. MaxFrames

\* release never finds its slot given away: the panic "bs:race to release"
\* (buffer.go:168) is unreachable.
NoRaceToRelease == c.pc # "panic"

\* The handler never writes into a buffer the stack is reading or writing
\* (runner.go:353-354: "rather than steal a slot the receive handler may be
\* writing into").
SlotHasOneOwner == writing /\ holding => p.i # c.buf

=============================================================================
