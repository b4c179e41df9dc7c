------------------------------- MODULE RingSpec -------------------------------
(***************************************************************************)
(* One ring and a user who calls its methods in any order.  put and got   *)
(* are what the last call wrote and read; ahead records the bytes the user *)
(* staged, by distance from the write position.                            *)
(***************************************************************************)
EXTENDS Ring

CONSTANTS Byte, RingSize

ASSUME RingAssumption == RingSize \in Nat \ {0}

VARIABLES ring, put, got, ahead

vars == <<ring, put, got, ahead>>

Strings == UNION {[1 .. n -> Byte] : n \in 1 .. RingSize}

Contents(r) == IF IsEmpty(r) THEN <<>> ELSE read(r, Size(r))

Init == /\ ring \in [Buf : [1 .. RingSize -> Byte], Off : {0}, End : {0}]
        /\ put = <<>> /\ got = <<>>
        /\ ahead = <<>>

shifted(n) == [k \in {d - n : d \in {e \in DOMAIN ahead : e >= n}} |-> ahead[k + n]]

DoWrite(b) ==
    LET w == Write(ring, b)
    IN  /\ w.err = "nil"
        /\ ring' = w.ring /\ ahead' = shifted(Len(b)) /\ put' = b /\ got' = <<>>

\* A write that stops short of index limit, which the user chooses inside the
\* free space, as ringTx does with the oldest byte it still needs.
DoWriteLimited(b, limit) ==
    LET w == WriteLimited(ring, b, limit)
    IN  /\ w.err = "nil"
        /\ ring' = w.ring /\ ahead' = shifted(Len(b)) /\ put' = b /\ got' = <<>>

DoPeekWrite(b, d) ==
    LET w == PeekWrite(ring, b, d)
        new == d .. d + Len(b) - 1
    IN  /\ w.err = "nil"
        /\ ring' = w.ring /\ put' = b /\ got' = <<>>
        /\ ahead' = [k \in DOMAIN ahead \cup new |->
                        IF k \in new THEN b[k - d + 1] ELSE ahead[k]]

\* Only bytes that were staged are committed.
DoCommit(n) ==
    LET w == Commit(ring, n)
    IN  /\ 0 .. n - 1 \subseteq DOMAIN ahead
        /\ w.err = "nil"
        /\ ring' = w.ring /\ ahead' = shifted(n) /\ put' = <<>> /\ got' = <<>>

DoRead(n) ==
    LET w == Read(ring, n)
    IN  /\ w.err = "nil"
        /\ ring' = w.ring /\ put' = <<>> /\ got' = w.data /\ UNCHANGED ahead

DoReadDiscard(n) ==
    LET w == ReadDiscard(ring, n)
    IN  /\ w.err = "nil"
        /\ ring' = w.ring /\ put' = <<>> /\ got' = <<>> /\ UNCHANGED ahead

DoReset == ring' = Reset(ring) /\ ahead' = <<>> /\ put' = <<>> /\ got' = <<>>

Next ==
    \/ \E b \in Strings : DoWrite(b)
    \/ \E b \in Strings, limit \in 0 .. RingSize : DoWriteLimited(b, limit)
    \/ \E b \in Strings, d \in 0 .. RingSize - 1 : DoPeekWrite(b, d)
    \/ \E n \in 1 .. RingSize : DoCommit(n) \/ DoRead(n) \/ DoReadDiscard(n)
    \/ DoReset

Spec == Init /\ [][Next]_vars

-----------------------------------------------------------------------------
Abstract == INSTANCE ByteQueue WITH
    Capacity <- RingSize, queue <- Contents(ring)

\* The ring is a bounded byte queue whose staged bytes keep their place: whatever
\* the order of calls, what is read is what was written or staged, in order
\* (ring.go:108-112, 227-230).
QueueSpec == Abstract!Spec

\* Free counts exactly the bytes a Write accepts: it and the readable bytes make up
\* the buffer, in every layout (ring.go:249-264).
FreeIsExact ==
    /\ Free(ring) + Len(Contents(ring)) = RingSize
    /\ IsFull(ring) <=> Free(ring) = 0

\* ReadAt peeks what that many Reads would return.
ReadAtMatchesRead ==
    \A off \in 0 .. RingSize, n \in 1 .. RingSize :
        off + n <= Buffered(ring) =>
            ReadAt(ring, n, off).data = SubSeq(Contents(ring), off + 1, off + n)

\* A write that FreeLimited allows leaves the byte at the limit alone, and the
\* data too (ring.go:37-38, 273-276).
LimitIsRespected ==
    \A limit \in 0 .. RingSize - 1 :
        LET n == FreeLimited(ring, limit)
        IN  /\ n <= Free(ring)
            /\ \A k \in 0 .. n - 1 : (writeStart(ring) + k) % RingSize # limit
=============================================================================
