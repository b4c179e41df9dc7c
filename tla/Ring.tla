-------------------------------- MODULE Ring --------------------------------
(***************************************************************************)
(* internal.Ring (internal/ring.go): a byte ring on a fixed buffer, with   *)
(* bytes that can be staged ahead of the write position and committed      *)
(* later.  A ring is a record; each method is an operator that returns the *)
(* ring it leaves, with an error and what it read where it has them.       *)
(***************************************************************************)
EXTENDS Integers, Sequences

Size(r) == Len(r.Buf)

Reset(r) == [r EXCEPT !.Off = 0, !.End = 0]

IsEmpty(r) == r.End = 0

IsFull(r) == r.End # 0 /\ (r.End = r.Off \/ (r.End = Size(r) /\ r.Off = 0))

Free(r) ==
    IF r.End = 0 \/ r.Off = 0 THEN Size(r) - r.End
    ELSE IF r.Off < r.End THEN r.Off + (Size(r) - r.End)
    ELSE r.Off - r.End

Buffered(r) == Size(r) - Free(r)

midFree(r) == IF r.End >= r.Off \/ r.End = 0 THEN 0 ELSE r.Off - r.End

\* An index plus a distance, both at most the size: 0 only when both are 0.
addOff(r, a, b) == IF a + b > Size(r) THEN a + b - Size(r) ELSE a + b

\* The bytes b laid into the buffer from index at, wrapping.
copyIn(r, at, b) ==
    [r EXCEPT !.Buf = [i \in DOMAIN r.Buf |->
        LET k == (i - 1 - at) % Size(r) IN IF k < Len(b) THEN b[k + 1] ELSE r.Buf[i]]]

\* n bytes of the buffer from index at, wrapping.
copyOut(r, at, n) == [k \in 1 .. n |-> r.Buf[((at + k - 1) % Size(r)) + 1]]

Ret(r, err) == [ring |-> r, err |-> err]

Write(r, b) ==
    LET at == IF r.End = 0 THEN r.Off ELSE r.End
    IN  IF Len(b) = 0 THEN Ret(r, "noData")
        ELSE IF IsFull(r) \/ Free(r) < Len(b) THEN Ret(r, "full")
        ELSE IF midFree(r) > 0
             THEN Ret([copyIn(r, r.End, b) EXCEPT !.End = r.End + Len(b)], "nil")
             ELSE Ret([copyIn(r, at, b) EXCEPT !.End = addOff(r, at, Len(b))], "nil")

\* Where the next Write or Commit begins.
writeStart(r) == IF r.End = 0 THEN r.Off ELSE IF r.End = Size(r) THEN 0 ELSE r.End

\* Stages b, offset bytes ahead of the write position.
PeekWrite(r, b, offset) ==
    LET off == writeStart(r) + offset
    IN  IF offset < 0 \/ offset + Len(b) > Free(r) THEN Ret(r, "no")
        ELSE Ret(copyIn(r, IF off >= Size(r) THEN off - Size(r) ELSE off, b), "nil")

Commit(r, n) ==
    LET at == IF r.End = 0 THEN r.Off ELSE r.End
    IN  IF n <= 0 THEN Ret(r, "invalid")
        ELSE IF n > Free(r) THEN Ret(r, "full")
        ELSE Ret([r EXCEPT !.End = addOff(r, at, n)], "nil")

\* Mutant: an emptied ring rewinds its write position.
emptiedMutant(r) == Reset(r)

\* The write position stays where it is, so staged bytes keep their place.
emptied(r) == [r EXCEPT !.Off = IF r.End = Size(r) THEN 0 ELSE r.End, !.End = 0]

ReadDiscard(r, n) ==
    IF n <= 0 THEN Ret(r, "invalid")
    ELSE IF n > Buffered(r) THEN Ret(r, "exceeds")
    ELSE IF n = Buffered(r) THEN Ret(emptied(r), "nil")
    ELSE Ret([r EXCEPT !.Off = addOff(r, r.Off, n)], "nil")

\* Up to n bytes from the front; the two spans when the data wraps.
read(r, n) ==
    LET span == IF r.End > r.Off THEN r.End - r.Off ELSE Size(r) - r.Off + r.End
    IN  copyOut(r, r.Off, IF n < span THEN n ELSE span)

onReadEnd(r, total) ==
    LET newOff == addOff(r, r.Off, total)
    IN  IF newOff = r.End THEN emptied(r)
        ELSE [r EXCEPT !.Off = IF newOff = Size(r) THEN 0 ELSE newOff]

Read(r, n) ==
    IF n = 0 THEN [ring |-> r, err |-> "nil", data |-> <<>>]
    ELSE IF IsEmpty(r) THEN [ring |-> r, err |-> "EOF", data |-> <<>>]
    ELSE LET d == read(r, n) IN [ring |-> onReadEnd(r, Len(d)), err |-> "nil", data |-> d]

\* ReadAt peeks n bytes, off bytes after the front.
ReadAt(r, n, off) ==
    IF off + n > Buffered(r) THEN [err |-> "UnexpectedEOF", data |-> <<>>]
    ELSE IF n = 0 THEN [err |-> "nil", data |-> <<>>]
    ELSE IF IsEmpty(r) THEN [err |-> "EOF", data |-> <<>>]
    ELSE [err |-> "nil", data |-> read([r EXCEPT !.Off = addOff(r, r.Off, off)], n)]

min(a, b) == IF a < b THEN a ELSE b

\* Room up to index limit, or up to the data, whichever comes first.
FreeLimited(r, limit) ==
    IF IsFull(r) THEN 0
    ELSE IF r.End = 0
         THEN IF limit >= r.Off THEN limit - r.Off ELSE Size(r) - r.Off + limit
    ELSE IF r.End <= limit /\ r.End <= r.Off THEN min(r.Off, limit) - r.End
    ELSE IF r.End <= limit THEN limit - r.End
    ELSE IF r.End <= r.Off THEN r.Off - r.End
    ELSE Size(r) - r.End + min(limit, r.Off)

WriteLimited(r, b, limit) ==
    IF limit > Size(r) THEN Ret(r, "panic")
    ELSE IF Len(b) > Size(r) THEN Ret(r, "short")
    ELSE IF Len(b) > FreeLimited(r, limit) THEN Ret(r, "full")
    ELSE Write(r, b)
=============================================================================
