----------------------------- MODULE ByteQueue ------------------------------
(***************************************************************************)
(* What internal.Ring promises: a bounded queue of bytes, and bytes staged *)
(* ahead of its end that keep their distance from it while the queue is    *)
(* written and read, and join it when they are committed.                  *)
(***************************************************************************)
EXTENDS Naturals, Sequences

CONSTANTS Byte, Capacity

VARIABLES
    queue,     \* the readable bytes
    ahead,     \* the staged bytes, by distance from the end of the queue
    put, got   \* what the last call wrote, and read

Strings == UNION {[1 .. n -> Byte] : n \in 1 .. Capacity}

Init == queue = <<>> /\ ahead = <<>> /\ put = <<>> /\ got = <<>>

\* What is staged after n bytes joined the queue.
shifted(n) == [k \in {d - n : d \in {e \in DOMAIN ahead : e >= n}} |-> ahead[k + n]]

Write(b) ==
    /\ Len(queue) + Len(b) <= Capacity
    /\ queue' = queue \o b
    /\ ahead' = shifted(Len(b)) /\ put' = b /\ got' = <<>>

Stage(b, d) ==
    /\ Len(queue) + d + Len(b) <= Capacity
    /\ ahead' = [k \in DOMAIN ahead \cup (d .. d + Len(b) - 1) |->
                    IF k \in d .. d + Len(b) - 1 THEN b[k - d + 1] ELSE ahead[k]]
    /\ put' = b /\ got' = <<>> /\ UNCHANGED queue

Commit(n) ==
    /\ 0 .. n - 1 \subseteq DOMAIN ahead
    /\ queue' = queue \o [k \in 1 .. n |-> ahead[k - 1]]
    /\ ahead' = shifted(n) /\ put' = <<>> /\ got' = <<>>

\* A read of n bytes, or a discard.
Take(n) ==
    /\ n <= Len(queue)
    /\ queue' = SubSeq(queue, n + 1, Len(queue))
    /\ got' \in {SubSeq(queue, 1, n), <<>>}
    /\ put' = <<>> /\ UNCHANGED ahead

Clear == queue' = <<>> /\ ahead' = <<>> /\ put' = <<>> /\ got' = <<>>

Next ==
    \/ \E b \in Strings : Write(b)
    \/ \E b \in Strings, d \in 0 .. Capacity : Stage(b, d)
    \/ \E n \in 1 .. Capacity : Commit(n) \/ Take(n)
    \/ Clear

Spec == Init /\ [][Next]_<<queue, ahead, put, got>>
=============================================================================
