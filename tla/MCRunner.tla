------------------------------ MODULE MCRunner ------------------------------
(* Instances of Runner for TLC, and its refinement of FrameFifo. *)
EXTENDS Runner

\* A polled device without a timer, and one that only calls back with a timer.
MCOptions == {[poll |-> TRUE, backoff |-> FALSE], [poll |-> FALSE, backoff |-> TRUE]}

Seqs == INSTANCE SequencesExt

\* The frames waiting for the stack, oldest first: published and not the one the
\* stack got and the loop is about to release.
waiting == {slot[i].buf : i \in {j \in Slots : pendingRx(j) /\ ~(c.pc = "unmark" /\ c.buf = j)}}

Fifo == INSTANCE FrameFifo WITH
    Capacity <- NSlots, Frames <- 1 .. MaxFrames,
    queue <- Seqs!SetToSortSeq(waiting, LAMBDA a, b : a < b),
    out <- ingress, up <- c.pc # "stopped"

\* The pool and the loop implement a bounded FIFO queue: frames reach the stack in
\* the order the device delivered them, each once, and none that was accepted is
\* lost while Run runs (buffer.go:28-29, 111-117).
FifoSpec == Fifo!Spec

\* No wakeup is lost: without a timer (RunnerNoBackoff) a frame that was accepted
\* still reaches the stack, unless Run is stopped (runner.go:144-157, 319-324).
FrameReachesStack ==
    \A f \in 1 .. MaxFrames : f \in waiting ~> (f \notin waiting \/ c.pc = "stopped")
=============================================================================
