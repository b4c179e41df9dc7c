------------------------- MODULE TxQueueBytes_proofs ------------------------
(***************************************************************************)
(* What the transmit queue holds, for every size of the buffer and of the  *)
(* sequence space: the inductive invariant, what it says of the two rings  *)
(* on the buffer, and what Write and MakePacket make of them.              *)
(***************************************************************************)
EXTENDS TxQueueSpec, TLAPS

-----------------------------------------------------------------------------
(* Sequence numbers of stream positions.                                   *)

\* The space has two halves.
LEMMA HalfDouble == Half \in Nat /\ 2 * Half = SeqMod /\ Half >= 1
BY SeqModAssumption DEF Half

\* The remainder in range is the only one.
LEMMA ModUnique ==
    ASSUME NEW k \in Int, NEW r \in 0 .. SeqMod - 1
    PROVE  (SeqMod * k + r) % SeqMod = r
<1>1. SeqMod \in Nat /\ SeqMod > 1
  BY SeqModAssumption
<1> QED BY <1>1, SMTT(60)

\* Every number is some turns of the space and a remainder.
LEMMA ModSplit ==
    ASSUME NEW x \in Int
    PROVE  \E k \in Int : x = SeqMod * k + (x % SeqMod) /\ x % SeqMod \in 0 .. SeqMod - 1
<1>1. SeqMod \in Nat /\ SeqMod > 1
  BY SeqModAssumption
<1>2. /\ x \div SeqMod \in Int /\ x = SeqMod * (x \div SeqMod) + (x % SeqMod)
      /\ x % SeqMod \in 0 .. SeqMod - 1
  BY <1>1
<1> QED BY <1>2, Zenon

\* The number n bytes after a position's is that of the position n later.
LEMMA SeqAdd ==
    ASSUME NEW a \in Nat, NEW n \in Nat
    PROVE  Add(seqOf(a), n) = seqOf(a + n)
<1> DEFINE r == seqOf(a)
           s == (r + n) % SeqMod
<1>0. ISS \in Int /\ SeqMod \in Nat
  BY TxQueueAssumption, SeqModAssumption DEF Value
<1>1. PICK k \in Int : ISS + a = SeqMod * k + r /\ r \in 0 .. SeqMod - 1
  <2>1. ISS + a \in Int
    BY <1>0
  <2> QED BY <2>1, ModSplit, Zenon DEF seqOf, Add
<1>2. PICK j \in Int : r + n = SeqMod * j + s /\ s \in 0 .. SeqMod - 1
  <2>1. r + n \in Int
    BY <1>0, <1>1
  <2> QED BY <2>1, ModSplit, Zenon
<1>3. ISS + (a + n) = SeqMod * (k + j) + s
  <2> HIDE DEF r, s
  <2> QED BY <1>0, <1>1, <1>2
<1>4. (ISS + (a + n)) % SeqMod = s
  <2> HIDE DEF r, s
  <2> QED BY <1>2, <1>3, ModUnique
<1> QED BY <1>4 DEF seqOf, Add

\* The distance between two positions less than a turn apart.
LEMMA SeqDist ==
    ASSUME NEW a \in Nat, NEW b \in Nat, b - a > -SeqMod, b - a < SeqMod
    PROVE  Sizeof(seqOf(a), seqOf(b)) = IF a <= b THEN b - a ELSE b - a + SeqMod
<1> DEFINE r == seqOf(a)
           s == seqOf(b)
           d == IF a <= b THEN b - a ELSE b - a + SeqMod
<1>0. ISS \in Int /\ SeqMod \in Nat
  BY TxQueueAssumption, SeqModAssumption DEF Value
<1>1. PICK k \in Int : ISS + a = SeqMod * k + r /\ r \in 0 .. SeqMod - 1
  <2>1. ISS + a \in Int
    BY <1>0
  <2> QED BY <2>1, ModSplit, Zenon DEF seqOf, Add
<1>2. PICK j \in Int : ISS + b = SeqMod * j + s /\ s \in 0 .. SeqMod - 1
  <2>1. ISS + b \in Int
    BY <1>0
  <2> QED BY <2>1, ModSplit, Zenon DEF seqOf, Add
<1>3. d \in 0 .. SeqMod - 1
  BY <1>0
<1>4. \E l \in Int : s - r = SeqMod * l + d
  <2> HIDE DEF r, s
  <2>1. s - r = SeqMod * (k - j) + (b - a)
    BY <1>0, <1>1, <1>2
  <2>2. SeqMod * (k - j) + (b - a) = SeqMod * (k - j - 1) + (b - a + SeqMod)
    BY <1>0
  <2> QED BY <2>1, <2>2
<1>5. (s - r) % SeqMod = d
  <2> HIDE DEF r, s, d
  <2> QED BY <1>3, <1>4, ModUnique
<1> QED BY <1>5 DEF Sizeof

\* Numbers of positions less than half a turn apart compare as the positions do.
LEMMA SeqOrder ==
    ASSUME NEW a \in Nat, NEW b \in Nat, b - a > -Half, b - a < Half
    PROVE  /\ LessThan(seqOf(a), seqOf(b)) <=> a < b
           /\ LessThanEq(seqOf(a), seqOf(b)) <=> a <= b
           /\ seqOf(a) = seqOf(b) <=> a = b
<1>0. SeqMod \in Nat /\ Half \in Nat /\ 2 * Half = SeqMod /\ Half >= 1
  BY HalfDouble, SeqModAssumption
<1>1. Sizeof(seqOf(b), seqOf(a)) = IF b <= a THEN a - b ELSE a - b + SeqMod
  BY <1>0, SeqDist
<1>2. LessThan(seqOf(a), seqOf(b)) <=> a < b
  BY <1>0, <1>1 DEF LessThan
<1>3. seqOf(a) = seqOf(b) <=> a = b
  <2>1. Sizeof(seqOf(a), seqOf(a)) = 0
    BY <1>0, SeqDist
  <2> QED BY <1>0, <1>1, <2>1
<1> QED BY <1>2, <1>3 DEF LessThanEq

-----------------------------------------------------------------------------
(* The inductive invariant.  The stream from snd.UNA on lies in the buffer *)
(* from index o, in order and wrapping; f[i] is the position packet i      *)
(* starts at, and its last value where the last packet ends.               *)

\* Indices wrap at the buffer's end; the end of a range wraps one later.
wrap(x) == IF x >= BufSize THEN x - BufSize ELSE x
endAt(x) == IF x > BufSize THEN x - BufSize ELSE x

Pkt == [off : 0 .. BufSize, end : 1 .. BufSize, seq : Value, size : 1 .. BufSize]

Queue == [rawbuf : [1 .. BufSize -> Int], unsentoff : 0 .. BufSize, unsentend : 0 .. BufSize,
          sentoff : 0 .. BufSize, sentend : 0 .. BufSize, pkts : Seq(Pkt), maxPkts : {MaxPkts},
          ssn : Value, iss : {ISS}]

\* Packet p holds the bytes from position a up to b.
packetHolds(p, o, u, a, b) ==
    /\ a < b /\ p.size = b - a /\ p.seq = seqOf(a)
    /\ wrap(p.off) = wrap(o + a - u) /\ p.end = endAt(o + b - u)

Holds(x, u, n, w, o, f) ==
    /\ x \in Queue
    /\ u \in Nat /\ n \in Nat /\ w \in Nat /\ u <= n /\ n <= w /\ w - u <= BufSize
    /\ o \in 0 .. BufSize - 1
    /\ f \in [1 .. Len(x.pkts) + 1 -> u .. n]
    /\ f[1] = u /\ f[Len(x.pkts) + 1] = n
    /\ \A d \in 0 .. w - u - 1 : x.rawbuf[wrap(o + d) + 1] = u + d
    /\ \A i \in 1 .. Len(x.pkts) : packetHolds(x.pkts[i], o, u, f[i], f[i + 1])
    /\ IF x.pkts = <<>> THEN x.sentend = 0
       ELSE x.sentoff = x.pkts[1].off /\ x.sentend = x.pkts[Len(x.pkts)].end
    /\ wrap(x.unsentoff) = wrap(o + n - u)
    /\ x.unsentend = IF w = n THEN 0 ELSE endAt(o + w - u)
    /\ x.pkts # <<>> /\ w = n => x.unsentoff # 0

SentOk ==
    /\ sent.pos \in Nat /\ sent.data \in Seq(Int)
    /\ PacketsCarryTheirBytes

Inv == (\E o, f : Holds(q, una, nxt, written, o, f)) /\ SentOk

-----------------------------------------------------------------------------
(* The rings on the buffer.                                                *)

\* The ring's remainder is a wrap, from one turn below to two above.
LEMMA ModIs ==
    \A x \in -BufSize .. 2 * BufSize - 1 :
        x % BufSize = IF x = -BufSize THEN 0 ELSE IF x < 0 THEN x + BufSize ELSE wrap(x)
BY TxQueueAssumption DEF wrap

\* What the invariant says of the bytes sent: whether there are any, and where.
LEMMA SentSpan ==
    ASSUME NEW x, NEW u, NEW n, NEW w, NEW o, NEW f, Holds(x, u, n, w, o, f)
    PROVE  /\ Len(x.pkts) \in Nat
           /\ x.pkts = <<>> => n = u /\ x.sentend = 0 /\ Len(x.pkts) = 0
           /\ x.pkts # <<>> => /\ u < n /\ Len(x.pkts) >= 1
                               /\ x.sentoff \in 0 .. BufSize /\ wrap(x.sentoff) = wrap(o)
                               /\ x.sentend = endAt(o + n - u) /\ x.sentend # 0
<1>0. BufSize \in Nat /\ BufSize >= 2
  BY TxQueueAssumption
<1>1. x.pkts \in Seq(Pkt) /\ Len(x.pkts) \in Nat
  BY DEF Holds, Queue
<1>2. CASE x.pkts = <<>>
  BY <1>0, <1>1, <1>2 DEF Holds
<1>3. CASE x.pkts # <<>>
  <2>1. Len(x.pkts) >= 1
    BY <1>1, <1>3
  <2>2. /\ packetHolds(x.pkts[1], o, u, f[1], f[2])
        /\ packetHolds(x.pkts[Len(x.pkts)], o, u, f[Len(x.pkts)], f[Len(x.pkts) + 1])
    <3>1. 1 + 1 = 2 /\ 1 \in 1 .. Len(x.pkts) /\ Len(x.pkts) \in 1 .. Len(x.pkts)
      BY <1>1, <2>1
    <3> QED BY <3>1, Zenon DEF Holds
  <2>3. /\ f[1] = u /\ f[Len(x.pkts) + 1] = n /\ f[2] \in u .. n
        /\ u \in Nat /\ n \in Nat /\ w \in Nat /\ n <= w /\ w - u <= BufSize /\ o \in 0 .. BufSize - 1
        /\ x.sentoff = x.pkts[1].off /\ x.sentend = x.pkts[Len(x.pkts)].end
        /\ x.sentoff \in 0 .. BufSize
    BY <1>1, <1>3, <2>1 DEF Holds, Queue
  <2>4. u < n
    BY <2>2, <2>3 DEF packetHolds
  <2>5. wrap(x.sentoff) = wrap(o) /\ x.sentend = endAt(o + n - u)
    BY <2>2, <2>3 DEF packetHolds
  <2>6. x.sentend # 0
    BY <1>0, <2>3, <2>4, <2>5 DEF endAt
  <2> QED BY <1>1, <1>3, <2>1, <2>3, <2>4, <2>5, <2>6
<1> QED BY <1>2, <1>3

\* The buffer's fields, as numbers.
LEMMA Fields ==
    ASSUME NEW x, NEW u, NEW n, NEW w, NEW o, NEW f, Holds(x, u, n, w, o, f)
    PROVE  /\ BufSize \in Nat /\ BufSize >= 2 /\ Size(x) = BufSize /\ Len(x.rawbuf) = BufSize
           /\ x.rawbuf \in [1 .. BufSize -> Int]
           /\ u \in Nat /\ n \in Nat /\ w \in Nat /\ u <= n /\ n <= w /\ w - u <= BufSize
           /\ o \in 0 .. BufSize - 1
           /\ x.unsentoff \in 0 .. BufSize /\ wrap(x.unsentoff) = wrap(o + n - u)
           /\ x.unsentend = IF w = n THEN 0 ELSE endAt(o + w - u)
BY TxQueueAssumption DEF Holds, Queue, Size

\* A ring over l bytes from index o on has room for the others.
LEMMA RoomIs ==
    ASSUME NEW r, Len(r.Buf) = BufSize, NEW o \in 0 .. BufSize - 1, NEW l \in 1 .. BufSize,
           r.Off \in 0 .. BufSize, wrap(r.Off) = wrap(o), r.End = endAt(o + l)
    PROVE  /\ R!Free(r) = BufSize - l
           /\ R!IsFull(r) <=> l = BufSize
<1>0. BufSize \in Nat /\ BufSize >= 2 /\ R!Size(r) = BufSize
  BY TxQueueAssumption DEF R!Size
<1>1. r.End \in 1 .. BufSize
  BY <1>0 DEF endAt
<1>2. R!Free(r) = IF r.Off = 0 THEN BufSize - r.End ELSE IF r.Off < r.End THEN r.Off + (BufSize - r.End)
                  ELSE r.Off - r.End
  BY <1>0, <1>1 DEF R!Free
<1>3. R!Free(r) = BufSize - l
  BY <1>0, <1>2 DEF wrap, endAt
<1>4. R!IsFull(r) <=> l = BufSize
  BY <1>0, <1>1 DEF wrap, endAt, R!IsFull
<1> QED BY <1>3, <1>4

\* Free is the room the stream leaves in the buffer.
LEMMA FreeIs ==
    ASSUME NEW x, NEW u, NEW n, NEW w, NEW o, NEW f, Holds(x, u, n, w, o, f)
    PROVE  Free(x) = BufSize - (w - u)
<1> DEFINE r == sentAndUnsentBuffer(x)
<1>0. /\ BufSize \in Nat /\ BufSize >= 2 /\ Len(x.rawbuf) = BufSize
      /\ u \in Nat /\ n \in Nat /\ w \in Nat /\ u <= n /\ n <= w /\ w - u <= BufSize
      /\ o \in 0 .. BufSize - 1
      /\ x.unsentoff \in 0 .. BufSize /\ wrap(x.unsentoff) = wrap(o + n - u)
      /\ x.unsentend = IF w = n THEN 0 ELSE endAt(o + w - u)
  BY Fields
<1>1. /\ x.pkts = <<>> => n = u /\ x.sentend = 0
      /\ x.pkts # <<>> => /\ u < n /\ x.sentend # 0 /\ x.sentend = endAt(o + n - u)
                          /\ x.sentoff \in 0 .. BufSize /\ wrap(x.sentoff) = wrap(o)
  BY SentSpan
<1>2. Free(x) = R!Free(r) /\ r.Buf = x.rawbuf
  BY DEF Free, sentAndUnsentBuffer, ring
<1>3. CASE w = n
  <2>1. r.Off = x.sentoff /\ r.End = x.sentend
    BY <1>0, <1>3 DEF sentAndUnsentBuffer, ring
  <2> HIDE DEF r
  <2>2. CASE x.pkts = <<>>
    BY <1>0, <1>1, <1>2, <1>3, <2>1, <2>2 DEF R!Free, R!Size
  <2>3. CASE x.pkts # <<>>
    <3>1. /\ n - u \in 1 .. BufSize /\ r.Off \in 0 .. BufSize /\ Len(r.Buf) = BufSize
          /\ wrap(r.Off) = wrap(o) /\ r.End = endAt(o + (n - u))
      BY <1>0, <1>1, <1>2, <1>3, <2>1, <2>3
    <3>2. R!Free(r) = BufSize - (n - u)
      BY <1>0, <3>1, RoomIs, Zenon
    <3> QED BY <1>2, <1>3, <3>2
  <2> QED BY <2>2, <2>3
<1>4. CASE w # n /\ x.pkts = <<>>
  <2>1. x.unsentend # 0
    BY <1>0, <1>4 DEF endAt
  <2>2. r.Off = x.unsentoff /\ r.End = x.unsentend
    BY <1>1, <1>4, <2>1 DEF sentAndUnsentBuffer, ring
  <2>3. wrap(r.Off) = wrap(o) /\ r.End = endAt(o + (w - u))
    BY <1>0, <1>1, <1>4, <2>2
  <2>4. w - u \in 1 .. BufSize /\ r.Off \in 0 .. BufSize /\ Len(r.Buf) = BufSize
    BY <1>0, <1>1, <1>2, <1>4, <2>2
  <2> HIDE DEF r
  <2>5. R!Free(r) = BufSize - (w - u)
    BY <1>0, <2>3, <2>4, RoomIs, Zenon
  <2> QED BY <1>2, <2>5
<1>5. CASE w # n /\ x.pkts # <<>>
  <2>1. x.unsentend # 0
    BY <1>0, <1>5 DEF endAt
  <2>2. r.Off = x.sentoff /\ r.End = x.unsentend
    BY <1>1, <1>5, <2>1 DEF sentAndUnsentBuffer, ring
  <2>3. wrap(r.Off) = wrap(o) /\ r.End = endAt(o + (w - u))
    BY <1>0, <1>1, <1>5, <2>2
  <2>4. w - u \in 1 .. BufSize /\ r.Off \in 0 .. BufSize /\ Len(r.Buf) = BufSize
    BY <1>0, <1>1, <1>2, <1>5, <2>2
  <2> HIDE DEF r
  <2>5. R!Free(r) = BufSize - (w - u)
    BY <1>0, <2>3, <2>4, RoomIs, Zenon
  <2> QED BY <1>2, <2>5
<1> QED BY <1>3, <1>4, <1>5

\* buf is old with the bytes b laid into it, D bytes after index o.
Laid(buf, old, o, D, b) ==
    \A d \in 0 .. BufSize - 1 :
        buf[wrap(o + d) + 1] = IF d \in D .. D + Len(b) - 1 THEN b[d - D + 1] ELSE old[wrap(o + d) + 1]

\* Index at is D bytes after index o, and the bytes b fit there.
FitsAt(old, o, D, b, at) ==
    /\ old \in [1 .. BufSize -> Int] /\ o \in 0 .. BufSize - 1 /\ D \in Nat
    /\ b \in Seq(Int) /\ Len(b) >= 1 /\ D + Len(b) <= BufSize
    /\ at \in 0 .. BufSize /\ wrap(at) = wrap(o + D)

\* What copyIn does.
LEMMA LaidIn ==
    ASSUME NEW r, NEW o, NEW b, NEW D, NEW at, FitsAt(r.Buf, o, D, b, at)
    PROVE  \E buf \in [1 .. BufSize -> Int] :
                /\ R!copyIn(r, at, b) = [r EXCEPT !.Buf = buf]
                /\ Laid(buf, r.Buf, o, D, b)
<1> DEFINE old == r.Buf
<1>a. /\ old \in [1 .. BufSize -> Int] /\ o \in 0 .. BufSize - 1 /\ D \in Nat
      /\ b \in Seq(Int) /\ Len(b) >= 1 /\ D + Len(b) <= BufSize
      /\ at \in 0 .. BufSize /\ wrap(at) = wrap(o + D)
  BY DEF FitsAt
<1> USE <1>a
<1> DEFINE buf == [i \in 1 .. BufSize |-> LET k == (i - 1 - at) % BufSize
                                       IN  IF k < Len(b) THEN b[k + 1] ELSE old[i]]
<1>0. BufSize \in Nat /\ BufSize >= 2 /\ R!Size(r) = BufSize /\ DOMAIN old = 1 .. BufSize /\ Len(b) \in Nat
  BY TxQueueAssumption DEF R!Size
<1>1. R!copyIn(r, at, b) = [r EXCEPT !.Buf = buf]
  <2>1. r.Buf = old /\ R!Size(r) = BufSize /\ DOMAIN r.Buf = 1 .. BufSize
    BY <1>0
  <2> DEFINE g(n, v) == [i \in 1 .. BufSize |-> LET k == (i - 1 - at) % n
                                               IN  IF k < Len(b) THEN b[k + 1] ELSE v[i]]
  <2>2. R!copyIn(r, at, b) = [r EXCEPT !.Buf = g(R!Size(r), r.Buf)]
    BY <2>1, Zenon DEF R!copyIn
  <2> QED BY <2>1, <2>2, Zenon
<1>2. ASSUME NEW i \in 1 .. BufSize
      PROVE  (i - 1 - at) % BufSize \in 0 .. BufSize - 1
  BY <1>0
<1>3. buf \in [1 .. BufSize -> Int]
  <2>1. ASSUME NEW i \in 1 .. BufSize
        PROVE  LET k == (i - 1 - at) % BufSize
               IN  (IF k < Len(b) THEN b[k + 1] ELSE old[i]) \in Int
    BY <1>0, <1>2, SMTT(30)
  <2> QED BY <2>1, Zenon
<1>4. ASSUME NEW d \in 0 .. BufSize - 1
      PROVE  buf[wrap(o + d) + 1] = IF d \in D .. D + Len(b) - 1 THEN b[d - D + 1]
                                    ELSE old[wrap(o + d) + 1]
  <2>1. wrap(o + d) \in 0 .. BufSize - 1
    BY <1>0 DEF wrap
  <2>2. wrap(o + d) - at \in -BufSize .. 2 * BufSize - 1
    <3>1. at \in 0 .. BufSize
      OBVIOUS
    <3> QED BY ONLY <1>0, <2>1, <3>1
  <2> DEFINE y == wrap(o + d) - at
  <2>3. y % BufSize = IF y = -BufSize THEN 0 ELSE IF y < 0 THEN y + BufSize ELSE wrap(y)
    BY <2>2, ModIs
  <2>4. (IF y = -BufSize THEN 0 ELSE IF y < 0 THEN y + BufSize ELSE wrap(y))
            = IF d >= D THEN d - D ELSE d - D + BufSize
    <3>1. /\ o + d < BufSize => y = o + d - at
          /\ o + d >= BufSize => y = o + d - BufSize - at
          /\ at = BufSize => o + D = 0 \/ o + D = BufSize
          /\ at < BufSize => at = o + D \/ at = o + D - BufSize
          /\ y \in -BufSize .. BufSize - 1
      BY <1>0, <2>1 DEF wrap
    <3> HIDE DEF y
    <3>2. CASE d >= D
      BY <1>0, <3>1, <3>2 DEF wrap
    <3>3. CASE d < D
      BY <1>0, <3>1, <3>3 DEF wrap
    <3> QED BY <1>0, <3>2, <3>3
  <2>5. PICK i \in 1 .. BufSize : i = wrap(o + d) + 1
    BY <1>0, <2>1
  <2> DEFINE k == (i - 1 - at) % BufSize
  <2>6. buf[i] = IF k < Len(b) THEN b[k + 1] ELSE old[i]
    OBVIOUS
  <2>7. k = IF d >= D THEN d - D ELSE d - D + BufSize
    <3>1. i - 1 - at = y
      BY <1>0, <2>1, <2>5
    <3> HIDE DEF y
    <3> QED BY <2>3, <2>4, <3>1
  <2> HIDE DEF buf, k
  <2>8. CASE d \in D .. D + Len(b) - 1
    BY <1>0, <2>5, <2>6, <2>7, <2>8
  <2>9. CASE d \notin D .. D + Len(b) - 1
    BY <1>0, <2>5, <2>6, <2>7, <2>9, SMTT(30)
  <2> QED BY <2>8, <2>9
<1> HIDE DEF buf
<1>5. Laid(buf, old, o, D, b)
  BY <1>4 DEF Laid
<1> QED BY <1>1, <1>3, <1>5, Zenon

\* An index that stands for x, which is less than two turns.
LEMMA Unwrap ==
    ASSUME NEW a \in 0 .. BufSize, NEW x \in 0 .. 2 * BufSize - 1, wrap(a) = wrap(x)
    PROVE  \/ x = 0 /\ (a = 0 \/ a = BufSize)
           \/ x > 0 /\ x < BufSize /\ a = x
           \/ x = BufSize /\ (a = 0 \/ a = BufSize)
           \/ x > BufSize /\ a = x - BufSize
BY TxQueueAssumption DEF wrap

\* The ring r has its data from index y up to z, both less than two turns.
Spans(r, y, z) ==
    /\ r.Buf \in [1 .. BufSize -> Int] /\ r.Off \in 0 .. BufSize
    /\ y \in Nat /\ z \in Nat /\ y <= z /\ z - y <= BufSize /\ z < 2 * BufSize
    /\ wrap(r.Off) = wrap(y)
    /\ r.End = IF z = y THEN 0 ELSE endAt(z)

least(c, l) == IF c < l THEN c ELSE l
bytesFrom(r, y, m) == [k \in 1 .. m |-> r.Buf[wrap(y + k - 1) + 1]]

\* A read of up to c bytes: which, and where the rest begins.
LEMMA ReadSpan ==
    ASSUME NEW r, NEW y, NEW z, Spans(r, y, z), y < z, NEW c \in Nat, c >= 1
    PROVE  /\ R!read(r, c) = bytesFrom(r, y, least(c, z - y))
           /\ R!addOff(r, r.Off, least(c, z - y)) = endAt(y + least(c, z - y))
<1>0. /\ BufSize \in Nat /\ BufSize >= 2 /\ R!Size(r) = BufSize
      /\ y \in Nat /\ z \in Nat /\ z - y <= BufSize /\ z < 2 * BufSize
      /\ r.Off \in 0 .. BufSize /\ wrap(r.Off) = wrap(y) /\ r.End = endAt(z)
  BY TxQueueAssumption DEF R!Size, Spans
<1>m. PICK m \in Nat : m = least(c, z - y) /\ m = IF c < z - y THEN c ELSE z - y
  BY <1>0 DEF least
<1>1. PICK off \in 0 .. BufSize, end \in 1 .. BufSize :
            /\ off = r.Off /\ end = r.End
            /\ (z <= BufSize /\ end = z) \/ (z > BufSize /\ end = z - BufSize)
            /\ \/ y = 0 /\ (off = 0 \/ off = BufSize)
               \/ y > 0 /\ y < BufSize /\ off = y
               \/ y = BufSize /\ (off = 0 \/ off = BufSize)
               \/ y > BufSize /\ off = y - BufSize
  <2>1. r.Off \in 0 .. BufSize /\ y \in 0 .. 2 * BufSize - 1 /\ wrap(r.Off) = wrap(y)
    BY <1>0
  <2>2. \/ y = 0 /\ (r.Off = 0 \/ r.Off = BufSize)
        \/ y > 0 /\ y < BufSize /\ r.Off = y
        \/ y = BufSize /\ (r.Off = 0 \/ r.Off = BufSize)
        \/ y > BufSize /\ r.Off = y - BufSize
    BY <2>1, Unwrap
  <2>3. (z <= BufSize /\ r.End = z) \/ (z > BufSize /\ r.End = z - BufSize)
    BY <1>0 DEF endAt
  <2>4. r.End \in 1 .. BufSize
    BY <1>0, <2>3
  <2> QED BY <2>1, <2>2, <2>3, <2>4
<1>2. (IF end > off THEN end - off ELSE BufSize - off + end) = z - y
  BY <1>0, <1>1
<1>3. R!read(r, c) = R!copyOut(r, off, m)
  BY <1>0, <1>1, <1>2, <1>m DEF R!read
<1>4. ASSUME NEW k \in 1 .. m
      PROVE  (off + k - 1) % BufSize = wrap(y + k - 1)
  <2>1. off + k - 1 \in -BufSize .. 2 * BufSize - 1 /\ off + k - 1 >= 0
    BY <1>0, <1>1, <1>m
  <2>2. (off + k - 1) % BufSize = wrap(off + k - 1)
    BY <1>0, <2>1, ModIs
  <2>3. wrap(off + k - 1) = wrap(y + k - 1)
    BY <1>0, <1>1, <1>m DEF wrap
  <2> QED BY <2>2, <2>3
<1>5. R!copyOut(r, off, m) = [k \in 1 .. m |-> r.Buf[wrap(y + k - 1) + 1]]
  BY <1>0, <1>4, Zenon DEF R!copyOut
<1>6. R!addOff(r, off, m) = endAt(y + m)
  <2>1. m >= 1 /\ m <= z - y
    BY <1>0, <1>m
  <2>2. R!addOff(r, off, m) = IF off + m > BufSize THEN off + m - BufSize ELSE off + m
    BY <1>0 DEF R!addOff
  <2> QED BY <1>0, <1>1, <2>1, <2>2 DEF endAt
<1> QED BY <1>1, <1>3, <1>5, <1>6, <1>m DEF bytesFrom

\* The arithmetic of FreeLimited: the limit is at index o, the data ends at y.
LEMMA LimitSent ==
    ASSUME NEW o \in 0 .. BufSize - 1, NEW y \in Nat, y > o, y - o <= BufSize,
           NEW off \in 1 .. BufSize, NEW lim \in 0 .. BufSize,
           wrap(off) = wrap(y), wrap(lim) = wrap(o)
    PROVE  (IF lim >= off THEN lim - off ELSE BufSize - off + lim) = BufSize - (y - o)
<1>0. BufSize \in Nat /\ BufSize >= 2 /\ y \in 0 .. 2 * BufSize - 1 /\ o \in 0 .. 2 * BufSize - 1
  BY TxQueueAssumption
<1>1. /\ \/ y > 0 /\ y < BufSize /\ off = y
         \/ y = BufSize /\ (off = 0 \/ off = BufSize)
         \/ y > BufSize /\ off = y - BufSize
      /\ \/ o = 0 /\ (lim = 0 \/ lim = BufSize)
         \/ o > 0 /\ lim = o
  BY <1>0, Unwrap
<1> QED BY <1>0, <1>1

\* FreeLimited of a ring with data.
roomTo(lim, off, end) ==
    IF end <= lim /\ end <= off THEN (IF off < lim THEN off ELSE lim) - end
    ELSE IF end <= lim THEN lim - end
    ELSE IF end <= off THEN off - end
    ELSE BufSize - end + (IF lim < off THEN lim ELSE off)

\* The same with unsent data from y to z.
LEMMA LimitUnsent ==
    ASSUME NEW o \in 0 .. BufSize - 1, NEW y \in Nat, NEW z \in Nat, y > o, z > y, z - o <= BufSize,
           NEW off \in 0 .. BufSize, NEW lim \in 0 .. BufSize, wrap(off) = wrap(y), wrap(lim) = wrap(o)
    PROVE  /\ endAt(z) \in 1 .. BufSize /\ endAt(z) # off /\ (endAt(z) = BufSize => off # 0)
           /\ roomTo(lim, off, endAt(z)) = BufSize - (z - o)
<1>0. BufSize \in Nat /\ BufSize >= 2 /\ y \in 0 .. 2 * BufSize - 1 /\ o \in 0 .. 2 * BufSize - 1
  BY TxQueueAssumption
<1>1. /\ \/ y > 0 /\ y < BufSize /\ off = y
         \/ y = BufSize /\ (off = 0 \/ off = BufSize)
         \/ y > BufSize /\ off = y - BufSize
      /\ \/ o = 0 /\ (lim = 0 \/ lim = BufSize)
         \/ o > 0 /\ lim = o
  BY <1>0, Unwrap
<1>2. (z <= BufSize /\ endAt(z) = z) \/ (z > BufSize /\ endAt(z) = z - BufSize)
  BY <1>0 DEF endAt
<1> QED BY <1>0, <1>1, <1>2 DEF roomTo

\* The room before the oldest sent byte.
LEMMA LimitIs ==
    ASSUME NEW x, NEW u, NEW n, NEW w, NEW o, NEW f, Holds(x, u, n, w, o, f), x.pkts # <<>>
    PROVE  R!FreeLimited(unsentRing(x), x.sentoff) = BufSize - (w - u)
<1> DEFINE r == unsentRing(x)
<1>0. /\ BufSize \in Nat /\ BufSize >= 2 /\ Len(x.rawbuf) = BufSize
      /\ u \in Nat /\ n \in Nat /\ w \in Nat /\ n <= w /\ w - u <= BufSize
      /\ o \in 0 .. BufSize - 1
      /\ x.unsentoff \in 0 .. BufSize /\ wrap(x.unsentoff) = wrap(o + n - u)
      /\ x.unsentend = IF w = n THEN 0 ELSE endAt(o + w - u)
  BY Fields
<1>1. u < n /\ x.sentoff \in 0 .. BufSize /\ wrap(x.sentoff) = wrap(o)
  BY SentSpan
<1>2. w = n => x.unsentoff # 0
  BY DEF Holds
<1>3. r.Off = x.unsentoff /\ r.End = x.unsentend /\ R!Size(r) = BufSize
  BY <1>0 DEF unsentRing, ring, R!Size
<1> HIDE DEF r
<1>4. PICK y \in Nat, z \in Nat : y = o + n - u /\ z = o + w - u
  BY <1>0, <1>1
<1>5. y > o /\ z >= y /\ z - o <= BufSize /\ (w = n <=> y = z) /\ BufSize - (w - u) = BufSize - (z - o)
  BY <1>0, <1>1, <1>4
<1>6. PICK off \in 0 .. BufSize, l \in 0 .. BufSize : off = x.unsentoff /\ l = x.sentoff
  BY <1>0, <1>1
<1>7. wrap(off) = wrap(y) /\ wrap(l) = wrap(o) /\ r.Off = off
  BY <1>0, <1>1, <1>3, <1>4, <1>6
<1>8. CASE y = z
  <2>1. r.End = 0 /\ ~R!IsFull(r) /\ off # 0
    BY <1>0, <1>2, <1>3, <1>5, <1>6, <1>8 DEF R!IsFull
  <2>2. R!FreeLimited(r, l) = IF l >= off THEN l - off ELSE BufSize - off + l
    BY <1>3, <1>7, <2>1 DEF R!FreeLimited
  <2>3. off \in 1 .. BufSize /\ y - o <= BufSize
    BY <1>5, <1>6, <1>8, <2>1
  <2>4. (IF l >= off THEN l - off ELSE BufSize - off + l) = BufSize - (y - o)
    <3>1. o \in 0 .. BufSize - 1 /\ y \in Nat /\ off \in 1 .. BufSize /\ l \in 0 .. BufSize
      BY <1>0, <1>4, <1>6, <2>3
    <3>2. y > o /\ y - o <= BufSize /\ wrap(off) = wrap(y) /\ wrap(l) = wrap(o)
      BY <1>5, <1>7, <2>3
    <3> QED BY ONLY <3>1, <3>2, LimitSent
  <2> QED BY <1>5, <1>6, <1>8, <2>2, <2>4 DEF r
<1>9. CASE y # z
  <2>1. z > y
    BY <1>4, <1>5, <1>9
  <2>2. /\ endAt(z) \in 1 .. BufSize /\ endAt(z) # off /\ (endAt(z) = BufSize => off # 0)
        /\ roomTo(l, off, endAt(z)) = BufSize - (z - o)
    BY <1>0, <1>4, <1>5, <1>6, <1>7, <2>1, LimitUnsent
  <2>3. r.End = endAt(z)
    BY <1>0, <1>3, <1>4, <1>5, <1>9
  <2>4. ~R!IsFull(r) /\ r.End # 0
    BY <1>3, <1>7, <2>2, <2>3 DEF R!IsFull
  <2>5. R!FreeLimited(r, l) = roomTo(l, off, endAt(z))
    BY <1>3, <1>7, <2>3, <2>4 DEF R!FreeLimited, R!min, roomTo
  <2> QED BY <1>5, <1>6, <2>2, <2>5 DEF r
<1> QED BY <1>8, <1>9

-----------------------------------------------------------------------------
(* Write.                                                                  *)

\* The arithmetic of a write to a ring whose data goes from y to z.
LEMMA WriteNumbers ==
    ASSUME NEW y \in Nat, NEW z \in Nat, y <= z, z - y <= BufSize, z < 2 * BufSize,
           NEW off \in 0 .. BufSize, wrap(off) = wrap(y), NEW k \in Nat, k >= 1, k <= BufSize - (z - y),
           z + k < 2 * BufSize
    PROVE  /\ z = y => /\ wrap(off) = wrap(z)
                       /\ (IF off + k > BufSize THEN off + k - BufSize ELSE off + k) = endAt(z + k)
           /\ z # y => /\ endAt(z) \in 1 .. BufSize /\ wrap(endAt(z)) = wrap(z)
                       /\ endAt(z) < off => endAt(z) + k = endAt(z + k)
                       /\ endAt(z) >= off =>
                            (IF endAt(z) + k > BufSize THEN endAt(z) + k - BufSize ELSE endAt(z) + k)
                                = endAt(z + k)
<1>0. BufSize \in Nat /\ BufSize >= 2 /\ y \in 0 .. 2 * BufSize - 1
  BY TxQueueAssumption
<1>1. \/ y = 0 /\ (off = 0 \/ off = BufSize)
      \/ y > 0 /\ y < BufSize /\ off = y
      \/ y = BufSize /\ (off = 0 \/ off = BufSize)
      \/ y > BufSize /\ off = y - BufSize
  BY <1>0, Unwrap
<1>2. /\ (z <= BufSize /\ endAt(z) = z) \/ (z > BufSize /\ endAt(z) = z - BufSize)
      /\ (z + k <= BufSize /\ endAt(z + k) = z + k) \/ (z + k > BufSize /\ endAt(z + k) = z + k - BufSize)
  BY <1>0 DEF endAt
<1>3. z # y => endAt(z) \in 1 .. BufSize /\ wrap(endAt(z)) = wrap(z)
  BY <1>0, <1>2 DEF wrap
<1>4. z = y => (IF off + k > BufSize THEN off + k - BufSize ELSE off + k) = endAt(z + k)
  BY <1>0, <1>1, <1>2
<1>5. z # y /\ endAt(z) < off => endAt(z) + k = endAt(z + k)
  BY <1>0, <1>1, <1>2
<1>6. z # y /\ endAt(z) >= off =>
        (IF endAt(z) + k > BufSize THEN endAt(z) + k - BufSize ELSE endAt(z) + k) = endAt(z + k)
  BY <1>0, <1>1, <1>2
<1> QED BY <1>3, <1>4, <1>5, <1>6

\* A write to a ring fails for want of room only.
LEMMA RingWrite ==
    ASSUME NEW r, NEW y, NEW z, Spans(r, y, z),
           NEW b \in Seq(Int), Len(b) >= 1, Len(b) > BufSize - (z - y) \/ z + Len(b) < 2 * BufSize
    PROVE  /\ Len(b) > BufSize - (z - y) => R!Write(r, b).err = "full"
           /\ Len(b) <= BufSize - (z - y) =>
                /\ R!Write(r, b).err = "nil"
                /\ \E at \in 0 .. BufSize :
                     /\ wrap(at) = wrap(z)
                     /\ R!Write(r, b).ring = [R!copyIn(r, at, b) EXCEPT !.End = endAt(z + Len(b))]
<1>0. /\ BufSize \in Nat /\ BufSize >= 2 /\ R!Size(r) = BufSize /\ Len(b) \in Nat /\ Len(r.Buf) = BufSize
      /\ y \in Nat /\ z \in Nat /\ y <= z /\ z - y <= BufSize /\ z < 2 * BufSize
      /\ r.Off \in 0 .. BufSize /\ wrap(r.Off) = wrap(y) /\ r.End = IF z = y THEN 0 ELSE endAt(z)
  BY TxQueueAssumption DEF R!Size, Spans
<1>off. PICK off \in 0 .. BufSize, end \in {r.End} : off = r.Off /\ end = r.End
  BY <1>0
<1>1. /\ R!Free(r) = BufSize - (z - y)
      /\ R!IsFull(r) => z - y = BufSize
  <2>1. CASE z = y
    BY <1>0, <1>off, <2>1 DEF R!Free, R!IsFull
  <2>2. CASE z # y
    <3>1. PICK c \in 0 .. BufSize - 1, l \in 1 .. BufSize : c = wrap(y) /\ l = z - y
      <4>1. wrap(y) \in 0 .. BufSize - 1
        BY <1>0 DEF wrap
      <4>2. z - y \in 1 .. BufSize
        BY <1>0, <1>off, <2>2
      <4> QED BY <4>1, <4>2, Zenon
    <3>2. wrap(r.Off) = wrap(c) /\ r.End = endAt(c + l)
      BY <1>0, <1>off, <2>2, <3>1 DEF wrap, endAt
    <3> QED BY <1>0, <3>1, <3>2, RoomIs, Zenon
  <2> QED BY <2>1, <2>2
<1>2. Len(b) > BufSize - (z - y) => R!Write(r, b).err = "full"
  BY <1>0, <1>1 DEF R!Write, R!Ret
<1>3. ASSUME Len(b) <= BufSize - (z - y)
      PROVE  /\ R!Write(r, b).err = "nil"
             /\ \E at \in 0 .. BufSize :
                  /\ wrap(at) = wrap(z)
                  /\ R!Write(r, b).ring = [R!copyIn(r, at, b) EXCEPT !.End = endAt(z + Len(b))]
  <2>1. ~R!IsFull(r) /\ ~(R!Free(r) < Len(b)) /\ Len(b) # 0
    BY <1>0, <1>1, <1>3
  <2>2. z + Len(b) < 2 * BufSize
    BY <1>3, <1>0
  <2> DEFINE k == Len(b)
  <2>3. /\ z = y => /\ wrap(off) = wrap(z)
                    /\ (IF off + k > BufSize THEN off + k - BufSize ELSE off + k) = endAt(z + k)
        /\ z # y => /\ endAt(z) \in 1 .. BufSize /\ wrap(endAt(z)) = wrap(z)
                    /\ endAt(z) < off => endAt(z) + k = endAt(z + k)
                    /\ endAt(z) >= off =>
                            (IF endAt(z) + k > BufSize THEN endAt(z) + k - BufSize ELSE endAt(z) + k)
                                = endAt(z + k)
    <3>1. k \in Nat /\ k >= 1 /\ k <= BufSize - (z - y) /\ z + k < 2 * BufSize
      BY <1>0, <1>3, <2>2
    <3> HIDE DEF k
    <3>2. y \in Nat /\ z \in Nat /\ y <= z /\ z - y <= BufSize /\ z < 2 * BufSize /\ wrap(off) = wrap(y)
      BY <1>0, <1>off
    <3> QED BY <1>off, <3>1, <3>2, WriteNumbers
  <2> HIDE DEF k
  <2>4. CASE z = y
    <3>1. r.End = 0 /\ r.Off = off /\ ~(R!midFree(r) > 0)
      BY <1>0, <1>off, <2>4 DEF R!midFree
    <3>2. R!Write(r, b) = R!Ret([R!copyIn(r, off, b) EXCEPT !.End = R!addOff(r, off, k)], "nil")
      BY <1>0, <1>off, <2>1, <3>1, Zenon DEF R!Write, k
    <3>3. R!addOff(r, off, k) = endAt(z + k)
      BY <1>0, <1>off, <2>3, <2>4 DEF R!addOff
    <3>4. /\ R!Write(r, b).err = "nil"
          /\ R!Write(r, b).ring = [R!copyIn(r, off, b) EXCEPT !.End = endAt(z + k)]
      BY <3>2, <3>3 DEF R!Ret
    <3> QED BY <1>off, <2>3, <2>4, <3>4, Zenon DEF k
  <2>5. CASE z # y /\ endAt(z) < off
    <3>1. end = endAt(z) /\ R!midFree(r) > 0
      BY <1>0, <1>off, <2>3, <2>5 DEF R!midFree
    <3>2. R!Write(r, b) = R!Ret([R!copyIn(r, end, b) EXCEPT !.End = end + k], "nil")
      BY <1>0, <1>off, <2>1, <3>1 DEF R!Write, k
    <3>3. end \in 0 .. BufSize /\ wrap(end) = wrap(z) /\ end + k = endAt(z + k)
      BY <2>3, <2>5, <3>1
    <3>4. /\ R!Write(r, b).err = "nil"
          /\ R!Write(r, b).ring = [R!copyIn(r, end, b) EXCEPT !.End = endAt(z + k)]
      BY <3>2, <3>3 DEF R!Ret
    <3> QED BY <3>3, <3>4, Zenon DEF k
  <2>6. CASE z # y /\ endAt(z) >= off
    <3>1. end = endAt(z) /\ R!midFree(r) = 0 /\ end # 0
      BY <1>0, <1>off, <2>3, <2>6 DEF R!midFree
    <3>2. R!Write(r, b) = R!Ret([R!copyIn(r, end, b) EXCEPT !.End = R!addOff(r, end, k)], "nil")
      BY <1>0, <1>off, <2>1, <3>1 DEF R!Write, k
    <3>3. R!addOff(r, end, k) = endAt(z + k)
      BY <1>0, <1>off, <2>3, <2>6, <3>1 DEF R!addOff
    <3>4. end \in 0 .. BufSize /\ wrap(end) = wrap(z)
      BY <2>3, <2>6, <3>1
    <3>5. /\ R!Write(r, b).err = "nil"
          /\ R!Write(r, b).ring = [R!copyIn(r, end, b) EXCEPT !.End = endAt(z + k)]
      BY <3>2, <3>3 DEF R!Ret
    <3> QED BY <3>4, <3>5, Zenon DEF k
  <2>7. endAt(z) < off \/ endAt(z) >= off
    BY <1>0, <1>off, <2>3 DEF endAt
  <2> QED BY <2>4, <2>5, <2>6, <2>7
<1> QED BY <1>2, <1>3

\* The unsent ring spans the stream from snd.NXT to what was written.
LEMMA UnsentSpans ==
    ASSUME NEW x, NEW u, NEW n, NEW w, NEW o, NEW f, Holds(x, u, n, w, o, f)
    PROVE  Spans(unsentRing(x), o + (n - u), o + (w - u))
<1>0. /\ BufSize \in Nat /\ BufSize >= 2 /\ x.rawbuf \in [1 .. BufSize -> Int]
      /\ u \in Nat /\ n \in Nat /\ w \in Nat /\ u <= n /\ n <= w /\ w - u <= BufSize
      /\ o \in 0 .. BufSize - 1
      /\ x.unsentoff \in 0 .. BufSize /\ wrap(x.unsentoff) = wrap(o + n - u)
      /\ x.unsentend = IF w = n THEN 0 ELSE endAt(o + w - u)
  BY Fields
<1>1. PICK y \in Nat, z \in Nat : y = o + (n - u) /\ z = o + (w - u)
  BY <1>0
<1>2. o + n - u = y /\ o + w - u = z /\ (w = n <=> z = y)
  BY <1>0, <1>1
<1>3. y <= z /\ z - y <= BufSize /\ z < 2 * BufSize
  BY <1>0, <1>1
<1>4. Spans(unsentRing(x), y, z)
  BY <1>0, <1>1, <1>2, <1>3 DEF Spans, unsentRing, ring
<1> QED BY <1>1, <1>4

\* The queue after a write: other bytes in the buffer, and another end of the unsent ones.
Bytes == [1 .. BufSize -> Int]
wrote(x, buf, end) == [x EXCEPT !.rawbuf = buf, !.unsentend = end]

\* Write takes exactly what Free promises, and lays it after the stream.
LEMMA WriteIs ==
    ASSUME NEW x, NEW u, NEW n, NEW w, NEW o, NEW f, Holds(x, u, n, w, o, f),
           NEW b \in Seq(Int), NEW k \in 1 .. BufSize, k = Len(b), NEW D \in Nat, D = w - u
    PROVE  /\ Write(x, b).err = "nil" <=> k <= Free(x)
           /\ k <= Free(x) =>
                \E buf \in Bytes :
                    /\ Write(x, b).q = wrote(x, buf, endAt(o + D + k))
                    /\ Laid(buf, x.rawbuf, o, D, b)
<1> DEFINE r == unsentRing(x)
           t == R!Write(r, b)
<1>0. /\ BufSize \in Nat /\ BufSize >= 2 /\ x.rawbuf \in [1 .. BufSize -> Int]
      /\ u \in Nat /\ n \in Nat /\ w \in Nat /\ u <= n /\ n <= w /\ w - u <= BufSize
      /\ o \in 0 .. BufSize - 1 /\ Len(x.rawbuf) = BufSize
  BY Fields
<1>1. Free(x) = BufSize - D
  BY FreeIs
<1>2. r = [Buf |-> x.rawbuf, Off |-> x.unsentoff, End |-> x.unsentend]
  BY DEF unsentRing, ring
<1>3. PICK y \in Nat, z \in Nat : y = o + (n - u) /\ z = o + D
  BY <1>0
<1>4. Spans(r, y, z)
  BY <1>3, UnsentSpans
<1>5. x.pkts = <<>> => y = o /\ x.sentend = 0
  <2>1. x.pkts = <<>> => n = u /\ x.sentend = 0
    BY SentSpan
  <2> QED BY <1>0, <1>3, <2>1
<1>6. x.pkts # <<>> => x.sentend # 0 /\ x.sentoff \in 0 .. BufSize /\ R!FreeLimited(r, x.sentoff) = BufSize - D
  BY SentSpan, LimitIs
<1>7. R!Size(r) = BufSize
  BY <1>0, <1>2 DEF R!Size
<1> DEFINE v == IF x.sentend = 0 THEN R!Write(r, b) ELSE R!WriteLimited(r, b, x.sentoff)
<1>8. Write(x, b) = IF v.err # "nil" THEN Ret(x, v.err)
                    ELSE Ret([x EXCEPT !.rawbuf = v.ring.Buf, !.unsentend = v.ring.End], "nil")
  BY DEF Write
<1>9. CASE k > BufSize - D
  <2> HIDE DEF r
  <2>1. v.err = "full"
    <3>1. CASE x.pkts = <<>>
      <4>1. k > BufSize - (z - y)
        BY <1>0, <1>3, <1>5, <1>9, <3>1
      <4>2. R!Write(r, b).err = "full"
        BY <1>4, <4>1, RingWrite
      <4> QED BY <1>5, <3>1, <4>2
    <3>2. CASE x.pkts # <<>>
      BY <1>0, <1>6, <1>7, <1>9, <3>2 DEF R!WriteLimited, R!Ret
    <3> QED BY <3>1, <3>2
  <2> HIDE DEF v
  <2>2. Write(x, b).err # "nil"
    BY <1>8, <2>1 DEF Ret
  <2>3. ~(k <= Free(x))
    BY <1>0, <1>1, <1>9
  <2> QED BY <2>2, <2>3, Zenon
<1>10. CASE k <= BufSize - D
  <2>1. k <= BufSize - (z - y) /\ z + k < 2 * BufSize /\ z + k = o + D + k
    BY <1>0, <1>3, <1>10
  <2> HIDE DEF r
  <2>2. /\ t.err = "nil"
        /\ \E at \in 0 .. BufSize :
             /\ wrap(at) = wrap(z)
             /\ t.ring = [R!copyIn(r, at, b) EXCEPT !.End = endAt(z + k)]
    BY <1>4, <2>1, RingWrite
  <2>3. PICK at \in 0 .. BufSize :
             /\ wrap(at) = wrap(z)
             /\ t.ring = [R!copyIn(r, at, b) EXCEPT !.End = endAt(z + k)]
    BY <2>2
  <2>4. v = t
    BY <1>0, <1>5, <1>6, <1>7, <1>10, SMTT(30) DEF R!WriteLimited
  <2>5. wrap(at) = wrap(o + D)
    BY <1>3, <2>3
  <2>6. D + Len(b) <= BufSize /\ Len(b) >= 1 /\ x.rawbuf \in [1 .. BufSize -> Int] /\ o \in 0 .. BufSize - 1
    <3> HIDE DEF t, v
    <3> QED BY <1>0, <1>10
  <2>7. PICK buf \in [1 .. BufSize -> Int] :
            /\ R!copyIn(r, at, b) = [r EXCEPT !.Buf = buf]
            /\ Laid(buf, x.rawbuf, o, D, b)
    <3>1. at \in 0 .. BufSize
      BY <2>3
    <3>2. r.Buf = x.rawbuf
      BY <1>2
    <3>3. FitsAt(r.Buf, o, D, b, at)
      BY <2>5, <2>6, <3>1, <3>2 DEF FitsAt
    <3>4. \E buf \in [1 .. BufSize -> Int] :
            /\ R!copyIn(r, at, b) = [r EXCEPT !.Buf = buf]
            /\ Laid(buf, r.Buf, o, D, b)
      BY <3>3, LaidIn, Zenon
    <3> QED BY <3>2, <3>4, Zenon
  <2>8. t.ring = [[Buf |-> buf, Off |-> x.unsentoff, End |-> x.unsentend] EXCEPT !.End = endAt(z + k)]
    <3>1. [r EXCEPT !.Buf = buf] = [Buf |-> buf, Off |-> x.unsentoff, End |-> x.unsentend]
      BY <1>2
    <3> QED BY <2>3, <2>7, <3>1, Zenon
  <2> HIDE DEF t, v
  <2>9. t.ring.Buf = buf /\ t.ring.End = endAt(o + D + k)
    BY <2>1, <2>8
  <2>10. /\ Write(x, b).err = "nil"
         /\ Write(x, b).q = [x EXCEPT !.rawbuf = buf, !.unsentend = endAt(o + D + k)]
    <3>1. v.err = "nil" /\ v.ring.Buf = buf /\ v.ring.End = endAt(o + D + k)
      BY <2>2, <2>4, <2>9, Zenon DEF t
    <3>2. Write(x, b) = Ret([x EXCEPT !.rawbuf = v.ring.Buf, !.unsentend = v.ring.End], "nil")
      BY <1>8, <3>1, Zenon
    <3>3. Write(x, b) = Ret([x EXCEPT !.rawbuf = buf, !.unsentend = endAt(o + D + k)], "nil")
      BY <3>1, <3>2, Zenon
    <3> DEFINE y2 == [x EXCEPT !.rawbuf = buf, !.unsentend = endAt(o + D + k)]
    <3> HIDE DEF y2
    <3>4. Ret(y2, "nil").err = "nil" /\ Ret(y2, "nil").q = y2
      BY DEF Ret
    <3> QED BY <3>3, <3>4, Zenon DEF y2
  <2>11. k <= Free(x)
    BY <1>1, <1>10
  <2>12. \E c \in Bytes :
            /\ Write(x, b).q = wrote(x, c, endAt(o + D + k))
            /\ Laid(c, x.rawbuf, o, D, b)
    BY <2>7, <2>10, Zenon DEF Bytes, wrote
  <2> QED BY <2>10, <2>11, <2>12, Zenon
<1>11. k > BufSize - D \/ k <= BufSize - D
  BY <1>0
<1> QED BY <1>9, <1>10, <1>11, Zenon

\* A stretch of the stream is its positions, one after the other.
LEMMA StreamIs ==
    ASSUME NEW a \in Nat, NEW k \in Nat
    PROVE  /\ stream(a, a + k) \in Seq(Int) /\ Len(stream(a, a + k)) = k
           /\ \A i \in 1 .. k : stream(a, a + k)[i] = a + i - 1
<1>1. a + k - a = k
  OBVIOUS
<1>2. stream(a, a + k) = [i \in 1 .. k |-> a + i - 1]
  BY <1>1 DEF stream
<1> QED BY <1>2

\* What the application writes follows the stream.
LEMMA WriteHolds ==
    ASSUME NEW x, NEW u, NEW n, NEW w, NEW o, NEW f, Holds(x, u, n, w, o, f),
           NEW k \in 1 .. BufSize, Write(x, stream(w, w + k)).err = "nil"
    PROVE  Holds(Write(x, stream(w, w + k)).q, u, n, w + k, o, f)
<1> DEFINE b == stream(w, w + k)
           y == Write(x, b).q
<1>0. /\ BufSize \in Nat /\ BufSize >= 2 /\ x.rawbuf \in [1 .. BufSize -> Int]
      /\ u \in Nat /\ n \in Nat /\ w \in Nat /\ u <= n /\ n <= w /\ w - u <= BufSize
      /\ o \in 0 .. BufSize - 1 /\ k \in Nat
  BY Fields
<1>1. b \in Seq(Int) /\ Len(b) = k /\ \A i \in 1 .. k : b[i] = w + i - 1
  BY <1>0, StreamIs, Zenon
<1>2. PICK D \in Nat : D = w - u
  BY <1>0
<1> HIDE DEF b
<1>3. k <= Free(x) /\ Free(x) = BufSize - D
  <2>1. k <= Free(x)
    BY <1>1, <1>2, WriteIs, Zenon DEF b
  <2> QED BY <1>2, <2>1, FreeIs
<1>4. PICK buf \in Bytes :
            /\ y = wrote(x, buf, endAt(o + D + k))
            /\ Laid(buf, x.rawbuf, o, D, b)
  <2>1. k = Len(b) /\ b \in Seq(Int)
    BY <1>1
  <2>2. Holds(x, u, n, w, o, f) /\ D = w - u /\ D \in Nat /\ k \in 1 .. BufSize /\ k <= Free(x)
    BY <1>2, <1>3
  <2> QED BY ONLY <2>1, <2>2, WriteIs
<1> HIDE DEF y
<1>5. endAt(o + D + k) \in 0 .. BufSize /\ o + D + k = o + (w + k) - u /\ w + k # n
  BY <1>0, <1>2, <1>3 DEF endAt
<1>6. /\ y \in Queue /\ y.rawbuf = buf /\ y.unsentend = endAt(o + D + k)
      /\ y.unsentoff = x.unsentoff /\ y.pkts = x.pkts /\ y.sentoff = x.sentoff /\ y.sentend = x.sentend
  <2>1. x \in Queue
    BY DEF Holds
  <2> QED BY <1>4, <1>5, <2>1, Zenon DEF Queue, Bytes, wrote
<1>7. ASSUME NEW d \in 0 .. (w + k) - u - 1
      PROVE  y.rawbuf[wrap(o + d) + 1] = u + d
  <2>1. d \in 0 .. BufSize - 1
    BY <1>0, <1>2, <1>3
  <2>2. buf[wrap(o + d) + 1] = IF d \in D .. D + k - 1 THEN b[d - D + 1] ELSE x.rawbuf[wrap(o + d) + 1]
    BY <1>1, <1>4, <2>1 DEF Laid
  <2>3. CASE d \in D .. D + k - 1
    <3>1. d - D + 1 \in 1 .. k /\ w + (d - D + 1) - 1 = u + d
      <4>1. w = u + D
        BY <1>0, <1>2
      <4>2. d \in Int /\ D <= d /\ d <= D + k - 1
        BY <1>0, <1>2, <2>3
      <4> QED BY <1>0, <1>2, <4>1, <4>2
    <3> QED BY <1>1, <1>6, <2>2, <2>3, <3>1
  <2>4. CASE d \notin D .. D + k - 1
    <3>1. d \in 0 .. w - u - 1
      BY <1>0, <1>2, <2>4
    <3>2. x.rawbuf[wrap(o + d) + 1] = u + d
      BY <3>1 DEF Holds
    <3> QED BY <1>6, <2>2, <2>4, <3>2
  <2> QED BY <2>3, <2>4
<1>8. (w + k) - u <= BufSize /\ w + k \in Nat /\ n <= w + k
  BY <1>0, <1>2, <1>3
<1>9. Holds(y, u, n, w + k, o, f)
  BY <1>5, <1>6, <1>7, <1>8, Zenon DEF Holds
<1> QED BY <1>9 DEF y, b

-----------------------------------------------------------------------------
(* Reading.                                                                *)

\* The ring r is over x's bytes from position a up to b.
Over(r, x, u, w, o, a, b) ==
    /\ r.Buf = x.rawbuf /\ Spans(r, o + (a - u), o + (b - u))
    /\ a \in Nat /\ b \in Nat /\ u <= a /\ a < b /\ b <= w

\* Reading a ring over the stream from a to b gives the stream from a on.
LEMMA ReadHeld ==
    ASSUME NEW x, NEW u, NEW n, NEW w, NEW o, NEW f, Holds(x, u, n, w, o, f),
           NEW r, NEW a, NEW b, Over(r, x, u, w, o, a, b), NEW c \in Nat, c >= 1
    PROVE  /\ R!read(r, c) = stream(a, a + least(c, b - a))
           /\ R!addOff(r, r.Off, least(c, b - a)) = endAt(o + (a - u) + least(c, b - a))
<1>0. u \in Nat /\ w \in Nat /\ o \in Nat /\ BufSize \in Nat
  BY Fields
<1>a. /\ r.Buf = x.rawbuf /\ Spans(r, o + (a - u), o + (b - u))
      /\ a \in Nat /\ b \in Nat /\ u <= a /\ a < b /\ b <= w
  BY DEF Over
<1> USE <1>a
<1>1. PICK y \in Nat, z \in Nat : y = o + (a - u) /\ z = o + (b - u)
  BY <1>0
<1>2. y < z /\ z - y = b - a /\ Spans(r, y, z)
  BY <1>0, <1>1
<1>m. PICK m \in Nat : m = least(c, b - a) /\ m <= b - a
  BY <1>0 DEF least
<1>3. R!read(r, c) = bytesFrom(r, y, m) /\ R!addOff(r, r.Off, m) = endAt(y + m)
  <2>1. least(c, z - y) = m
    BY <1>2, <1>m
  <2>2. /\ R!read(r, c) = bytesFrom(r, y, least(c, z - y))
        /\ R!addOff(r, r.Off, least(c, z - y)) = endAt(y + least(c, z - y))
    BY <1>2, ReadSpan
  <2> QED BY <2>1, <2>2
<1>4. ASSUME NEW k \in 1 .. m
      PROVE  r.Buf[wrap(y + k - 1) + 1] = a + k - 1
  <2>1. PICK d \in 0 .. w - u - 1 : d = (a - u) + k - 1
    BY <1>0, <1>m
  <2>2. x.rawbuf[wrap(o + d) + 1] = u + d
    BY DEF Holds
  <2>3. y + k - 1 = o + d /\ u + d = a + k - 1
    BY <1>0, <1>1, <2>1
  <2> QED BY <2>2, <2>3
<1>5. stream(a, a + m) = [k \in 1 .. m |-> a + k - 1]
  <2>1. a + m - a = m
    OBVIOUS
  <2> QED BY <2>1 DEF stream
<1>6. bytesFrom(r, y, m) = [k \in 1 .. m |-> a + k - 1]
  BY <1>4 DEF bytesFrom
<1> QED BY <1>1, <1>3, <1>5, <1>6, <1>m

\* The packets' places in the buffer and in the stream.
LEMMA PacketAt ==
    ASSUME NEW x, NEW u, NEW n, NEW w, NEW o, NEW f, Holds(x, u, n, w, o, f), NEW i \in 1 .. Len(x.pkts)
    PROVE  LET p == x.pkts[i]
           IN  /\ p \in Pkt /\ f[i] \in Nat /\ f[i + 1] \in Nat
               /\ u <= f[i] /\ f[i] < f[i + 1] /\ f[i + 1] <= n
               /\ p.size = f[i + 1] - f[i] /\ p.seq = seqOf(f[i]) /\ endSeq(p) = seqOf(f[i + 1])
               /\ p.end = endAt(o + (f[i + 1] - u))
               /\ Over(ring(x, p.off, p.end), x, u, w, o, f[i], f[i + 1])
<1> DEFINE p == x.pkts[i]
<1>0. /\ BufSize \in Nat /\ BufSize >= 2 /\ x.rawbuf \in [1 .. BufSize -> Int]
      /\ u \in Nat /\ n \in Nat /\ w \in Nat /\ u <= n /\ n <= w /\ w - u <= BufSize
      /\ o \in 0 .. BufSize - 1
  BY Fields
<1>1. x.pkts \in Seq(Pkt) /\ Len(x.pkts) \in Nat
  BY DEF Holds, Queue
<1>2. p \in Pkt /\ i \in 1 .. Len(x.pkts) + 1 /\ i + 1 \in 1 .. Len(x.pkts) + 1
  BY <1>1
<1>3. /\ f[i] \in u .. n /\ f[i + 1] \in u .. n /\ packetHolds(p, o, u, f[i], f[i + 1])
  BY <1>2, Zenon DEF Holds
<1> HIDE DEF p
<1>4. PICK a \in Nat, b \in Nat : a = f[i] /\ b = f[i + 1] /\ u <= a /\ a <= n /\ u <= b /\ b <= n
  BY <1>0, <1>3
<1>5. /\ a < b /\ p.size = b - a /\ p.seq = seqOf(a)
      /\ wrap(p.off) = wrap(o + a - u) /\ p.end = endAt(o + b - u)
  BY <1>3, <1>4 DEF packetHolds
<1>6. endSeq(p) = seqOf(b)
  <2>1. PICK k \in Nat : k = b - a
    BY <1>4, <1>5
  <2>2. Add(seqOf(a), k) = seqOf(a + k)
    BY <1>4, <2>1, SeqAdd, Zenon
  <2>3. a + k = b
    BY <1>4, <2>1
  <2> QED BY <1>5, <2>1, <2>2, <2>3 DEF endSeq
<1>7. o + a - u = o + (a - u) /\ o + b - u = o + (b - u) /\ o + (a - u) \in Nat /\ o + (b - u) \in Nat
  <2>1. o \in Int /\ a \in Int /\ b \in Int /\ u \in Int /\ o >= 0 /\ u <= a /\ u <= b
    BY <1>0, <1>4
  <2> QED BY ONLY <2>1
<1>8. Spans(ring(x, p.off, p.end), o + (a - u), o + (b - u))
  <2>1. PICK y \in Nat, z \in Nat : y = o + (a - u) /\ z = o + (b - u)
    BY <1>7
  <2>2. y < z /\ z - y <= BufSize /\ z < 2 * BufSize /\ p.off \in 0 .. BufSize
    <3>1. p.off \in 0 .. BufSize
      BY <1>2 DEF Pkt
    <3>2. u \in Int /\ n \in Int /\ w \in Int /\ n <= w /\ w - u <= BufSize /\ o <= BufSize - 1 /\ a < b /\ u <= a /\ b <= n
      BY <1>0, <1>4, <1>5
    <3> QED BY <1>0, <2>1, <3>1, <3>2
  <2>3. wrap(p.off) = wrap(y) /\ p.end = endAt(z)
    BY <1>5, <1>7, <2>1
  <2>4. Spans(ring(x, p.off, p.end), y, z)
    BY <1>0, <2>1, <2>2, <2>3 DEF Spans, ring
  <2> QED BY <2>1, <2>4
<1>9. p.end = endAt(o + (b - u)) /\ Over(ring(x, p.off, p.end), x, u, w, o, a, b)
  <2>1. ring(x, p.off, p.end).Buf = x.rawbuf /\ b <= w
    BY <1>0, <1>4 DEF ring
  <2> QED BY <1>4, <1>5, <1>7, <1>8, <2>1 DEF Over
<1>10. p = x.pkts[i]
  BY DEF p
<1> QED BY <1>2, <1>4, <1>5, <1>6, <1>9, <1>10

\* The invariant's queue holds the stream.
LEMMA HoldsIntact ==
    ASSUME NEW x, NEW u, NEW n, NEW w, NEW o, NEW f, Holds(x, u, n, w, o, f)
    PROVE  /\ contents(sentRing(x)) = stream(u, n)
           /\ contents(unsentRing(x)) = stream(n, w)
           /\ \A k \in 1 .. BufSize : (Write(x, stream(0, k)).err = "nil") <=> k <= Free(x)
<1>0. /\ BufSize \in Nat /\ BufSize >= 2 /\ x.rawbuf \in [1 .. BufSize -> Int] /\ Len(x.rawbuf) = BufSize
      /\ u \in Nat /\ n \in Nat /\ w \in Nat /\ u <= n /\ n <= w /\ w - u <= BufSize
      /\ o \in 0 .. BufSize - 1
      /\ x.unsentend = IF w = n THEN 0 ELSE endAt(o + w - u)
  BY Fields
<1>1. ASSUME NEW a \in Nat
      PROVE  stream(a, a) = <<>>
  <2>1. a - a = 0
    OBVIOUS
  <2> QED BY <2>1 DEF stream
<1>2. contents(sentRing(x)) = stream(u, n)
  <2> DEFINE r == sentRing(x)
  <2>0. r.Buf = x.rawbuf /\ r.Off = x.sentoff /\ r.End = x.sentend /\ R!Size(r) = BufSize
    BY <1>0 DEF sentRing, ring, R!Size
  <2>1. CASE x.pkts = <<>>
    <3>1. n = u /\ x.sentend = 0
      BY <2>1, SentSpan
    <3> QED BY <1>0, <1>1, <2>0, <3>1 DEF contents, R!IsEmpty
  <2>2. CASE x.pkts # <<>>
    <3>1. /\ u < n /\ x.sentoff \in 0 .. BufSize /\ wrap(x.sentoff) = wrap(o)
          /\ x.sentend = endAt(o + n - u) /\ x.sentend # 0
      BY <2>2, SentSpan
    <3> HIDE DEF r
    <3>2. Spans(r, o + (u - u), o + (n - u))
      <4>1. PICK z \in Nat : z = o + n - u
        BY <1>0
      <4>2. Spans(r, o, z)
        BY <1>0, <2>0, <3>1, <4>1 DEF Spans
      <4>3. o + (u - u) = o /\ o + (n - u) = z
        BY <1>0, <4>1
      <4> QED BY <4>2, <4>3
    <3>3. R!read(r, BufSize) = stream(u, u + least(BufSize, n - u))
      <4>1. Over(r, x, u, w, o, u, n)
        BY <1>0, <2>0, <3>1, <3>2 DEF Over
      <4> QED BY <1>0, <4>1, ReadHeld
    <3>4. u + least(BufSize, n - u) = n
      BY <1>0, <3>1 DEF least
    <3> QED BY <2>0, <3>1, <3>3, <3>4 DEF contents, R!IsEmpty, r
  <2> QED BY <2>1, <2>2
<1>3. contents(unsentRing(x)) = stream(n, w)
  <2> DEFINE r == unsentRing(x)
  <2>0. r.Buf = x.rawbuf /\ r.Off = x.unsentoff /\ r.End = x.unsentend /\ R!Size(r) = BufSize
    BY <1>0 DEF unsentRing, ring, R!Size
  <2>1. CASE w = n
    BY <1>0, <1>1, <2>0, <2>1 DEF contents, R!IsEmpty
  <2>2. CASE w # n
    <3>1. Spans(r, o + (n - u), o + (w - u))
      BY UnsentSpans
    <3> HIDE DEF r
    <3>2. n < w /\ BufSize >= 1
      BY <1>0, <2>2
    <3>3. R!read(r, BufSize) = stream(n, n + least(BufSize, w - n))
      <4>1. Over(r, x, u, w, o, n, w)
        BY <1>0, <2>0, <3>1, <3>2 DEF Over
      <4> QED BY <1>0, <4>1, ReadHeld
    <3>4. n + least(BufSize, w - n) = w
      BY <1>0, <3>2 DEF least
    <3>5. r.End # 0
      BY <1>0, <2>0, <2>2 DEF endAt
    <3> QED BY <2>0, <3>3, <3>4, <3>5 DEF contents, R!IsEmpty, r
  <2> QED BY <2>1, <2>2
<1>4. ASSUME NEW k \in 1 .. BufSize
      PROVE  (Write(x, stream(0, k)).err = "nil") <=> k <= Free(x)
  <2>1. k \in Nat /\ 0 + k = k
    BY <1>0
  <2>2. stream(0, k) \in Seq(Int) /\ Len(stream(0, k)) = k
    BY <2>1, StreamIs, Zenon
  <2>3. PICK D \in Nat : D = w - u
    BY <1>0
  <2> QED BY <2>2, <2>3, WriteIs
<1> QED BY <1>2, <1>3, <1>4
-----------------------------------------------------------------------------
(* MakePacket.                                                             *)

\* A position has a sequence number.
LEMMA SeqValue ==
    ASSUME NEW a \in Nat
    PROVE  seqOf(a) \in Value
<1>1. SeqMod \in Nat /\ SeqMod > 1 /\ ISS \in Int
  BY SeqModAssumption, TxQueueAssumption DEF Value
<1>2. ISS + a \in Int
  BY <1>1
<1>3. (ISS + a) % SeqMod \in 0 .. SeqMod - 1
  BY <1>2, ModSplit
<1> QED BY <1>3 DEF seqOf, Add, Value

\* Taking up to c unsent bytes from the ring.
LEMMA TakeIs ==
    ASSUME NEW x, NEW u, NEW n, NEW w, NEW o, NEW f, Holds(x, u, n, w, o, f), n < w,
           NEW c \in Nat, c >= 1
    PROVE  LET m  == least(c, w - n)
               rd == R!Read(unsentRing(x), c)
           IN  /\ m \in 1 .. BufSize /\ n + m <= w
               /\ rd.data = stream(n, n + m)
               /\ addEnd(x.unsentoff, m, BufSize) = endAt(o + (n - u) + m)
               /\ rd.ring.End = IF n + m = w THEN 0 ELSE x.unsentend
               /\ n + m # w => /\ rd.ring.Off \in 0 .. BufSize
                               /\ wrap(rd.ring.Off) = wrap(o + (n - u) + m)
<1> DEFINE r == unsentRing(x)
<1>0. /\ BufSize \in Nat /\ BufSize >= 2 /\ x.rawbuf \in [1 .. BufSize -> Int] /\ Len(x.rawbuf) = BufSize
      /\ u \in Nat /\ n \in Nat /\ w \in Nat /\ u <= n /\ n <= w /\ w - u <= BufSize
      /\ o \in 0 .. BufSize - 1
      /\ x.unsentoff \in 0 .. BufSize
      /\ x.unsentend = endAt(o + w - u)
  BY Fields
<1>1. PICK m \in 1 .. BufSize : m = least(c, w - n) /\ n + m <= w
  <2>1. PICK l \in Nat : l = w - n /\ l >= 1 /\ l <= BufSize
    BY <1>0
  <2>2. least(c, l) \in 1 .. BufSize /\ least(c, l) <= l
    BY <1>0, <2>1 DEF least
  <2>3. n + least(c, l) <= w
    BY <1>0, <2>1, <2>2
  <2> QED BY <2>1, <2>2, <2>3
<1>2. /\ r = [Buf |-> x.rawbuf, Off |-> x.unsentoff, End |-> x.unsentend]
      /\ r.Buf = x.rawbuf /\ r.Off = x.unsentoff /\ r.End = x.unsentend /\ R!Size(r) = BufSize
  BY <1>0 DEF unsentRing, ring, R!Size
<1>3. Over(r, x, u, w, o, n, w)
  BY <1>0, <1>2, UnsentSpans DEF Over
<1> HIDE DEF r
<1>4. R!read(r, c) = stream(n, n + m) /\ R!addOff(r, r.Off, m) = endAt(o + (n - u) + m)
  BY <1>1, <1>3, ReadHeld
<1>5. PICK v \in Nat, z \in Nat : v = o + (n - u) + m /\ z = o + w - u
  BY <1>0, <1>1, SMTT(30)
<1>6. v >= 1 /\ v <= z /\ z - v < BufSize /\ z < 2 * BufSize /\ (n + m = w <=> v = z)
  <2>1. m \in Int /\ 1 <= m /\ n + m <= w /\ o \in Int /\ 0 <= o /\ o <= BufSize - 1
    BY <1>0, <1>1
  <2> QED BY <1>0, <1>5, <2>1
<1>7. /\ endAt(v) \in 1 .. BufSize /\ endAt(z) \in 1 .. BufSize
      /\ endAt(v) = endAt(z) <=> v = z
      /\ endAt(v) = BufSize => wrap(0) = wrap(v)
      /\ wrap(endAt(v)) = wrap(v)
  BY <1>0, <1>5, <1>6 DEF endAt, wrap
<1>8. Len(stream(n, n + m)) = m
  <2>1. m \in Nat
    BY <1>0, <1>1
  <2> QED BY <1>0, <2>1, StreamIs, Zenon
<1>9. r.End # 0 /\ r.End = endAt(z)
  BY <1>0, <1>2, <1>5, <1>7
<1>10. R!Read(r, c) = [ring |-> R!onReadEnd(r, m), err |-> "nil", data |-> stream(n, n + m)]
  BY <1>4, <1>8, <1>9 DEF R!Read, R!IsEmpty
<1>11. R!onReadEnd(r, m) = IF endAt(v) = endAt(z) THEN R!emptied(r)
                           ELSE [r EXCEPT !.Off = IF endAt(v) = BufSize THEN 0 ELSE endAt(v)]
  BY <1>2, <1>4, <1>5, <1>9 DEF R!onReadEnd
<1>12. v = z => R!onReadEnd(r, m).End = 0
  BY <1>2, <1>7, <1>11, Zenon DEF R!emptied
<1>13. v # z => /\ R!onReadEnd(r, m).End = x.unsentend
                /\ R!onReadEnd(r, m).Off = IF endAt(v) = BufSize THEN 0 ELSE endAt(v)
  BY <1>2, <1>7, <1>11
<1>14. v # z => /\ R!onReadEnd(r, m).Off \in 0 .. BufSize
                /\ wrap(R!onReadEnd(r, m).Off) = wrap(v)
  BY <1>0, <1>7, <1>13
<1>15. addEnd(x.unsentoff, m, BufSize) = endAt(v)
  BY <1>2, <1>4, <1>5 DEF addEnd, R!addOff
<1>16. R!Read(r, c).data = stream(n, n + m) /\ R!Read(r, c).ring = R!onReadEnd(r, m)
  BY <1>10
<1>17. R!Read(r, c).ring.End = IF n + m = w THEN 0 ELSE x.unsentend
  BY <1>6, <1>12, <1>13, <1>16
<1>18. n + m # w => R!Read(r, c).ring.Off \in 0 .. BufSize /\ wrap(R!Read(r, c).ring.Off) = wrap(v)
  BY <1>6, <1>14, <1>16
<1> QED BY <1>1, <1>5, <1>15, <1>16, <1>17, <1>18 DEF r

\* The packet that follows the last one starts where that one ends.
LEMMA Follows ==
    ASSUME NEW x, NEW u, NEW n, NEW w, NEW o, NEW f, Holds(x, u, n, w, o, f)
    PROVE  AddPacketFits(x, x.unsentoff)
<1>0. /\ BufSize \in Nat /\ BufSize >= 2 /\ Size(x) = BufSize
      /\ u \in Nat /\ n \in Nat /\ w \in Nat /\ u <= n /\ n <= w /\ w - u <= BufSize
      /\ o \in 0 .. BufSize - 1
      /\ x.unsentoff \in 0 .. BufSize /\ wrap(x.unsentoff) = wrap(o + n - u)
  BY Fields
<1>1. CASE x.pkts = <<>>
  BY <1>1 DEF AddPacketFits
<1>2. CASE x.pkts # <<>>
  <2>1. u < n /\ x.sentend = endAt(o + n - u)
    BY <1>2, SentSpan
  <2>2. Newest(x).end = endAt(o + n - u)
    BY <1>2, <2>1 DEF Holds, Newest
  <2>3. PICK y \in 0 .. 2 * BufSize - 1, off \in 0 .. BufSize : y = o + n - u /\ off = x.unsentoff /\ y >= 1
    BY <1>0, <2>1
  <2>4. \/ y > 0 /\ y < BufSize /\ off = y
        \/ y = BufSize /\ (off = 0 \/ off = BufSize)
        \/ y > BufSize /\ off = y - BufSize
    BY <1>0, <2>3, Unwrap
  <2>5. IF off = 0 THEN endAt(y) = BufSize ELSE off = endAt(y)
    BY <1>0, <2>3, <2>4 DEF endAt
  <2> QED BY <1>0, <2>2, <2>3, <2>5 DEF AddPacketFits
<1> QED BY <1>1, <1>2

\* A packet added after the last one, with the bytes from n up to n + m.
LEMMA AddHolds ==
    ASSUME NEW x, NEW u, NEW n, NEW w, NEW o, NEW f, Holds(x, u, n, w, o, f),
           NEW m \in 1 .. BufSize, n + m <= w, NEW y, NEW uoff \in 0 .. BufSize, NEW p,
           p = [off |-> x.unsentoff, end |-> endAt(o + (n - u) + m), seq |-> seqOf(n), size |-> m],
           wrap(uoff) = wrap(o + (n - u) + m), n + m = w => uoff # 0,
           y \in Queue, y.pkts = Append(x.pkts, p), y.rawbuf = x.rawbuf, y.sentend = p.end,
           y.sentoff = IF x.sentend = 0 THEN p.off ELSE x.sentoff,
           y.unsentoff = uoff, y.unsentend = IF n + m = w THEN 0 ELSE x.unsentend
    PROVE  \E g : Holds(y, u, n + m, w, o, g)
<1>0. /\ BufSize \in Nat /\ BufSize >= 2 /\ x.rawbuf \in [1 .. BufSize -> Int]
      /\ u \in Nat /\ n \in Nat /\ w \in Nat /\ u <= n /\ n <= w /\ w - u <= BufSize
      /\ o \in 0 .. BufSize - 1 /\ m \in Nat /\ m >= 1
      /\ x.unsentoff \in 0 .. BufSize /\ wrap(x.unsentoff) = wrap(o + n - u)
      /\ x.unsentend = IF w = n THEN 0 ELSE endAt(o + w - u)
  BY Fields, SMTT(30)
<1>1. x.pkts \in Seq(Pkt) /\ Len(x.pkts) \in Nat
  <2>1. x \in Queue
    BY DEF Holds
  <2>2. x.pkts \in Seq(Pkt)
    BY <2>1 DEF Queue
  <2> QED BY <2>2
<1>2. PICK l \in Nat : l = Len(x.pkts)
  BY <1>1
<1>3. endAt(o + (n - u) + m) \in 1 .. BufSize
  <2>1. PICK v \in Nat : v = o + (n - u) + m /\ v >= 1 /\ v < 2 * BufSize
    BY <1>0, SMTT(30)
  <2>2. endAt(v) \in 1 .. BufSize
    BY <1>0, <2>1 DEF endAt
  <2> QED BY <2>1, <2>2
<1>4. /\ p \in Pkt /\ p.off = x.unsentoff /\ p.end = endAt(o + (n - u) + m) /\ p.seq = seqOf(n) /\ p.size = m
  <2>1. seqOf(n) \in Value
    BY <1>0, SeqValue
  <2> QED BY <1>0, <1>3, <2>1 DEF Pkt
<1>5. Append(x.pkts, p) \in Seq(Pkt) /\ Len(Append(x.pkts, p)) = l + 1
  BY <1>1, <1>2, <1>4
<1>6. \A i \in 1 .. l : Append(x.pkts, p)[i] = x.pkts[i]
  BY <1>1, <1>2, <1>4
<1>7. Append(x.pkts, p)[l + 1] = p /\ Append(x.pkts, p) # <<>>
  BY <1>1, <1>2, <1>4, SMTT(30)
<1> DEFINE g == [j \in 1 .. l + 2 |-> IF j = l + 2 THEN n + m ELSE f[j]]
<1>8. /\ f \in [1 .. l + 1 -> u .. n] /\ f[1] = u /\ f[l + 1] = n
      /\ \A i \in 1 .. l : packetHolds(x.pkts[i], o, u, f[i], f[i + 1])
  BY <1>2 DEF Holds
<1>9. /\ g \in [1 .. l + 2 -> u .. n + m] /\ g[1] = u /\ g[l + 1] = n /\ g[l + 2] = n + m
      /\ \A i \in 1 .. l : g[i] = f[i] /\ g[i + 1] = f[i + 1]
  <2>1. 1 \in 1 .. l + 2 /\ l + 1 \in 1 .. l + 2 /\ l + 2 \in 1 .. l + 2 /\ 1 # l + 2 /\ l + 1 # l + 2
    BY <1>2
  <2>2. \A i \in 1 .. l : i \in 1 .. l + 2 /\ i + 1 \in 1 .. l + 2 /\ i # l + 2 /\ i + 1 # l + 2
    BY <1>2
  <2>3. g[1] = u /\ g[l + 1] = n /\ g[l + 2] = n + m
    BY <1>8, <2>1
  <2>4. \A i \in 1 .. l : g[i] = f[i] /\ g[i + 1] = f[i + 1]
    BY <2>2
  <2>5. ASSUME NEW j \in 1 .. l + 2
        PROVE  (IF j = l + 2 THEN n + m ELSE f[j]) \in u .. n + m
    <3>0. n \in Nat /\ m \in Nat /\ u \in Nat /\ u <= n /\ l \in Nat /\ j \in 1 .. l + 2 /\ n + m \in Nat
      BY <1>0
    <3>1. n + m \in u .. n + m
      BY ONLY <3>0
    <3>2. CASE j # l + 2
      <4>1. j \in 1 .. l + 1
        BY ONLY <3>0, <3>2
      <4>2. f[j] \in u .. n
        BY <1>8, <4>1
      <4>3. f[j] \in u .. n + m
        BY ONLY <3>0, <4>2
      <4> QED BY <3>2, <4>3
    <3> QED BY <3>1, <3>2
  <2> QED BY <2>3, <2>4, <2>5
<1> HIDE DEF g
<1>10. packetHolds(p, o, u, n, n + m)
  <2>0. o \in Int /\ n \in Int /\ u \in Int /\ m \in Int /\ m >= 1
    BY <1>0
  <2>1. o + (n + m) - u = o + (n - u) + m /\ (n + m) - n = m /\ n < n + m
    BY ONLY <2>0
  <2> QED BY <1>0, <1>4, <2>1 DEF packetHolds
<1>11. ASSUME NEW i \in 1 .. l + 1
       PROVE  packetHolds(y.pkts[i], o, u, g[i], g[i + 1])
  <2>1. CASE i \in 1 .. l
    <3>1. y.pkts[i] = x.pkts[i] /\ g[i] = f[i] /\ g[i + 1] = f[i + 1]
      BY <1>6, <1>9, <2>1, Zenon
    <3>2. packetHolds(x.pkts[i], o, u, f[i], f[i + 1])
      BY <1>8, <2>1
    <3> QED BY ONLY <3>1, <3>2
  <2>2. CASE i = l + 1
    <3>1. i + 1 = l + 2
      BY <1>2, <2>2
    <3> QED BY <1>7, <1>9, <1>10, <2>2, <3>1, Zenon
  <2>3. i \in 1 .. l \/ i = l + 1
    BY <1>2
  <2> QED BY <2>1, <2>2, <2>3, Zenon
<1>12. y.sentoff = y.pkts[1].off /\ y.sentend = y.pkts[l + 1].end
  <2>1. CASE x.pkts = <<>>
    <3>1. l = 0 /\ x.sentend = 0
      BY <1>2, <2>1, SentSpan
    <3>2. l + 1 = 1
      BY <3>1
    <3> QED BY <1>7, <3>1, <3>2
  <2>2. CASE x.pkts # <<>>
    <3>1. 1 \in 1 .. l /\ x.sentend # 0
      BY <1>2, <2>2, SentSpan
    <3>2. x.sentoff = x.pkts[1].off
      BY <2>2 DEF Holds
    <3> QED BY <1>6, <1>7, <3>1, <3>2, Zenon
  <2> QED BY <2>1, <2>2, Zenon
<1>13. /\ wrap(y.unsentoff) = wrap(o + (n + m) - u)
       /\ y.unsentend = IF w = n + m THEN 0 ELSE endAt(o + w - u)
       /\ y.pkts # <<>> /\ w = n + m => y.unsentoff # 0
  <2>1. o + (n + m) - u = o + (n - u) + m /\ w # n
    BY <1>0
  <2>2. wrap(y.unsentoff) = wrap(o + (n + m) - u)
    BY <2>1, Zenon
  <2>3. y.unsentend = IF w = n + m THEN 0 ELSE endAt(o + w - u)
    BY <1>0, <2>1, Zenon
  <2> QED BY <2>2, <2>3, Zenon
<1>14. \A d \in 0 .. w - u - 1 : y.rawbuf[wrap(o + d) + 1] = u + d
  BY Zenon DEF Holds
<1>15. Len(y.pkts) = l + 1 /\ y.pkts # <<>> /\ l + 1 + 1 = l + 2
  BY <1>2, <1>5, <1>7
<1>16. u <= n + m /\ n + m \in Nat
  BY <1>0
<1>17. Holds(y, u, n + m, w, o, g)
  BY <1>0, <1>9, <1>11, <1>12, <1>13, <1>14, <1>15, <1>16, Zenon DEF Holds
<1> QED BY <1>17

\* What SendNext makes of the queue.
SentFrom(p, u, n, w, o) ==
    /\ p.err \in {"nil", "full"} /\ p.data \in Seq(Int) /\ p.data = stream(n, n + Len(p.data))
    /\ \E g : Holds(p.q, u, n + Len(p.data), w, o, g)

\* A packet without bytes leaves the queue alone (MakePacket with nothing to send, or
\* with no room in the list).
LEMMA SendsNothing ==
    ASSUME NEW x, NEW u, NEW n, NEW w, NEW o, NEW f, Holds(x, u, n, w, o, f), NEW e \in {"nil", "full"}
    PROVE  SentFrom(Packet(x, e, <<>>), u, n, w, o)
<1>1. n \in Nat
  BY Fields
<1>2. n + Len(<<>>) = n /\ n - n = 0 /\ <<>> \in Seq(Int)
  BY <1>1
<1>3. stream(n, n + Len(<<>>)) = <<>>
  BY <1>2 DEF stream
<1>4. /\ Packet(x, e, <<>>).q = x /\ Packet(x, e, <<>>).err = e /\ Packet(x, e, <<>>).data = <<>>
  BY DEF Packet
<1> QED BY <1>2, <1>3, <1>4, Zenon DEF SentFrom

\* sendNew makes a packet of the next unsent bytes.
LEMMA SendNewHolds ==
    ASSUME NEW x, NEW u, NEW n, NEW w, NEW o, NEW f, Holds(x, u, n, w, o, f), NEW c \in Nat, c >= 1
    PROVE  SentFrom(sendNew(x, c, seqOf(n)), u, n, w, o)
<1>0. /\ BufSize \in Nat /\ BufSize >= 2 /\ Size(x) = BufSize
      /\ u \in Nat /\ n \in Nat /\ w \in Nat /\ u <= n /\ n <= w /\ w - u <= BufSize
      /\ o \in 0 .. BufSize - 1
      /\ x.unsentend = IF w = n THEN 0 ELSE endAt(o + w - u)
  BY Fields
<1>1. unsentRing(x).Off = x.unsentoff /\ (R!IsEmpty(unsentRing(x)) <=> x.unsentend = 0)
  BY DEF unsentRing, ring, R!IsEmpty
<1>2. CASE w = n
  <2>1. sendNew(x, c, seqOf(n)) = Packet(x, "nil", <<>>)
    BY <1>0, <1>1, <1>2 DEF sendNew
  <2> QED BY <2>1, SendsNothing
<1>3. CASE w # n
  <2> DEFINE rd == R!Read(unsentRing(x), c)
  <2>0. n < w
    BY <1>0, <1>3
  <2>1. PICK m \in 1 .. BufSize :
            /\ n + m <= w
            /\ rd.data = stream(n, n + m)
            /\ addEnd(x.unsentoff, m, BufSize) = endAt(o + (n - u) + m)
            /\ rd.ring.End = IF n + m = w THEN 0 ELSE x.unsentend
            /\ n + m # w => rd.ring.Off \in 0 .. BufSize /\ wrap(rd.ring.Off) = wrap(o + (n - u) + m)
    BY <2>0, TakeIs
  <2> HIDE DEF rd
  <2>2. m \in Nat /\ rd.data \in Seq(Int) /\ Len(rd.data) = m
    <3>1. m \in Nat
      BY <1>0, <2>1
    <3>2. stream(n, n + m) \in Seq(Int) /\ Len(stream(n, n + m)) = m
      BY <1>0, <3>1, StreamIs, Zenon
    <3> QED BY <2>1, <3>1, <3>2
  <2>3. x.unsentend # 0 /\ ~R!IsEmpty(unsentRing(x)) /\ AddPacketFits(x, x.unsentoff)
    <3>1. PICK z \in Nat : z = o + w - u /\ z >= 1
      BY <1>0, <2>0
    <3>2. endAt(z) # 0
      BY <1>0, <3>1 DEF endAt
    <3> QED BY <1>0, <1>1, <1>3, <3>1, <3>2, Follows
  <2> DEFINE p == [off |-> x.unsentoff, end |-> endAt(o + (n - u) + m), seq |-> seqOf(n), size |-> m]
             P == Append(x.pkts, p)
             so == IF x.sentend = 0 THEN p.off ELSE x.sentoff
             uo == IF rd.ring.End = 0 THEN p.end ELSE rd.ring.Off
             ue == rd.ring.End
             y == [x EXCEPT !.pkts = P, !.sentoff = so, !.sentend = p.end, !.unsentoff = uo, !.unsentend = ue]
  <2>4. sendNew(x, c, seqOf(n)) = Packet(y, "nil", rd.data)
    <3>1. [off |-> unsentRing(x).Off, end |-> addEnd(unsentRing(x).Off, Len(rd.data), Size(x)),
           seq |-> seqOf(n), size |-> Len(rd.data)] = p
      BY <1>0, <1>1, <2>1, <2>2
    <3> HIDE DEF p
    <3>2. AddPacketFits(x, p.off)
      BY <2>3 DEF p
    <3> QED BY <2>3, <3>1, <3>2, Zenon DEF sendNew, rd
  <2>5. endAt(o + (n - u) + m) \in 1 .. BufSize /\ wrap(endAt(o + (n - u) + m)) = wrap(o + (n - u) + m)
    <3>1. PICK v \in Nat : v = o + (n - u) + m /\ v >= 1 /\ v < 2 * BufSize
      BY <1>0, <2>1
    <3>2. endAt(v) \in 1 .. BufSize /\ wrap(endAt(v)) = wrap(v)
      BY <1>0, <3>1 DEF endAt, wrap
    <3> QED BY <3>1, <3>2
  <2>6. x \in Queue /\ x.unsentoff \in 0 .. BufSize /\ x.sentoff \in 0 .. BufSize /\ x.pkts \in Seq(Pkt)
        /\ x.unsentend \in 0 .. BufSize
    <3>1. x \in Queue
      BY DEF Holds
    <3> QED BY <3>1 DEF Queue
  <2>7. p \in Pkt /\ p.off = x.unsentoff /\ p.end = endAt(o + (n - u) + m)
    <3>1. seqOf(n) \in Value
      BY <1>0, SeqValue
    <3> QED BY <2>5, <2>6, <3>1 DEF Pkt
  <2> HIDE DEF p
  <2>8. /\ uo \in 0 .. BufSize /\ wrap(uo) = wrap(o + (n - u) + m) /\ (n + m = w => uo # 0)
        /\ ue = (IF n + m = w THEN 0 ELSE x.unsentend) /\ ue \in 0 .. BufSize
    BY <1>0, <2>1, <2>3, <2>5, <2>6, <2>7, SMTT(30)
  <2>9. P \in Seq(Pkt) /\ so \in 0 .. BufSize /\ p.end \in 0 .. BufSize
    BY <2>5, <2>6, <2>7
  <2>10. /\ y \in Queue /\ y.pkts = P /\ y.sentoff = so /\ y.sentend = p.end /\ y.unsentoff = uo
         /\ y.unsentend = ue /\ y.rawbuf = x.rawbuf
    <3> HIDE DEF P, so, uo, ue
    <3> QED BY <2>6, <2>8, <2>9, Zenon DEF Queue
  <2> HIDE DEF y, uo, ue
  <2>11. \E g : Holds(y, u, n + m, w, o, g)
    <3>1. y.unsentend = IF n + m = w THEN 0 ELSE x.unsentend
      BY <2>8, <2>10
    <3> QED BY <2>1, <2>8, <2>10, <3>1, AddHolds, Zenon DEF p
  <2>12. SentFrom(Packet(y, "nil", rd.data), u, n, w, o)
    <3>1. /\ Packet(y, "nil", rd.data).q = y /\ Packet(y, "nil", rd.data).err = "nil"
          /\ Packet(y, "nil", rd.data).data = rd.data
      BY DEF Packet
    <3> QED BY <2>1, <2>2, <2>11, <3>1 DEF SentFrom
  <2> QED BY <2>4, <2>12
<1> QED BY <1>2, <1>3

\* MakePacket at snd.NXT: what was sent ends there, so the packet is a new one.
LEMMA SendNextHolds ==
    ASSUME NEW x, NEW u, NEW n, NEW w, NEW o, NEW f, Holds(x, u, n, w, o, f), NEW c \in Nat, c >= 1
    PROVE  SentFrom(MakePacket(x, c, seqOf(n)), u, n, w, o)
<1>0. n \in Nat /\ x.pkts \in Seq(Pkt) /\ Len(x.pkts) \in Nat
  <2>1. n \in Nat /\ x \in Queue
    BY DEF Holds
  <2> QED BY <2>1 DEF Queue
<1>1. CASE Len(x.pkts) = x.maxPkts
  <2>1. MakePacket(x, c, seqOf(n)) = Packet(x, "full", <<>>)
    BY <1>1 DEF MakePacket
  <2> QED BY <2>1, SendsNothing
<1>2. CASE Len(x.pkts) # x.maxPkts
  <2>1. ~(Len(x.pkts) > 0 /\ LessThan(seqOf(n), endSeq(Newest(x))))
    <3>1. CASE Len(x.pkts) > 0
      <4>1. Len(x.pkts) \in 1 .. Len(x.pkts)
        BY <1>0, <3>1
      <4>2. endSeq(x.pkts[Len(x.pkts)]) = seqOf(f[Len(x.pkts) + 1])
        BY <4>1, PacketAt
      <4>3. f[Len(x.pkts) + 1] = n
        BY DEF Holds
      <4>4. endSeq(Newest(x)) = seqOf(n)
        BY <4>2, <4>3 DEF Newest
      <4>5. ~LessThan(seqOf(n), seqOf(n))
        <5>1. n - n > -Half /\ n - n < Half /\ ~(n < n)
          BY <1>0, HalfDouble
        <5> QED BY <1>0, <5>1, SeqOrder
      <4> QED BY <4>4, <4>5
    <3> QED BY <3>1
  <2>2. MakePacket(x, c, seqOf(n)) = sendNew(x, c, seqOf(n))
    BY <1>2, <2>1, Zenon DEF MakePacket
  <2> QED BY <2>2, SendNewHolds
<1> QED BY <1>1, <1>2

\* MakePacket at snd.UNA, when something is sent: the first packet's bytes again.
LEMMA SendAgainIs ==
    ASSUME NEW x, NEW u, NEW n, NEW w, NEW o, NEW f, Holds(x, u, n, w, o, f), u < n, NEW c \in Nat, c >= 1
    PROVE  LET p == MakePacket(x, c, seqOf(u))
           IN  /\ p.q = x /\ p.err \in {"nil", "full"} /\ p.data \in Seq(Int)
               /\ p.data = stream(u, u + Len(p.data))
<1>0. /\ x.pkts \in Seq(Pkt) /\ Len(x.pkts) \in Nat
      /\ u \in Nat /\ n \in Nat /\ w \in Nat /\ u <= n /\ n <= w /\ w - u <= BufSize
      /\ BufSize \in Nat /\ BufSize >= 2 /\ BufSize < Half /\ Half \in Nat
  <2>1. x \in Queue
    BY DEF Holds
  <2> QED BY <2>1, Fields, HalfDouble, TxQueueAssumption DEF Queue
<1>1. 1 \in 1 .. Len(x.pkts) /\ Len(x.pkts) \in 1 .. Len(x.pkts)
  <2>1. x.pkts # <<>>
    BY <1>0, SentSpan
  <2> QED BY <1>0, <2>1, SentSpan
<1>2. ASSUME NEW e \in {"nil", "full"}, NEW d \in Seq(Int), d = stream(u, u + Len(d)),
             MakePacket(x, c, seqOf(u)) = Packet(x, e, d)
      PROVE  LET p == MakePacket(x, c, seqOf(u))
             IN  /\ p.q = x /\ p.err \in {"nil", "full"} /\ p.data \in Seq(Int)
                 /\ p.data = stream(u, u + Len(p.data))
  BY <1>2 DEF Packet
<1>3. CASE Len(x.pkts) = x.maxPkts
  <2>1. MakePacket(x, c, seqOf(u)) = Packet(x, "full", <<>>)
    BY <1>3 DEF MakePacket
  <2>2. u + Len(<<>>) = u /\ u - u = 0 /\ <<>> \in Seq(Int)
    BY <1>0
  <2>3. stream(u, u + Len(<<>>)) = <<>>
    BY <2>2 DEF stream
  <2>4. <<>> = stream(u, u + Len(<<>>))
    BY <2>3
  <2>5. "full" \in {"nil", "full"}
    OBVIOUS
  <2> QED BY <1>2, <2>1, <2>2, <2>4, <2>5, Zenon
<1>4. CASE Len(x.pkts) # x.maxPkts
  <2>1. Len(x.pkts) > 0 /\ LessThan(seqOf(u), endSeq(Newest(x)))
    <3>1. endSeq(x.pkts[Len(x.pkts)]) = seqOf(f[Len(x.pkts) + 1])
      BY <1>1, PacketAt
    <3>2. f[Len(x.pkts) + 1] = n
      BY DEF Holds
    <3>3. LessThan(seqOf(u), seqOf(n))
      <4>1. n - u > -Half /\ n - u < Half
        BY <1>0
      <4> QED BY <1>0, <4>1, SeqOrder
    <3> QED BY <1>0, <1>1, <3>1, <3>2, <3>3 DEF Newest
  <2> DEFINE again == {i \in DOMAIN x.pkts : x.pkts[i].seq = seqOf(u)}
             first == CHOOSE i \in again : \A j \in again : i <= j
  <2>2. again \subseteq Nat /\ 1 \in again /\ \A j \in again : 1 <= j
    <3>1. x.pkts[1].seq = seqOf(u)
      <4>1. x.pkts[1].seq = seqOf(f[1])
        BY <1>1, PacketAt
      <4>2. f[1] = u
        BY DEF Holds
      <4> QED BY <4>1, <4>2
    <3>2. DOMAIN x.pkts = 1 .. Len(x.pkts)
      BY <1>0
    <3> QED BY <1>0, <1>1, <3>1, <3>2
  <2>3. first = 1
    <3>1. \A i \in again : (\A j \in again : i <= j) => i = 1
      <4> HIDE DEF again
      <4> QED BY <2>2
    <3> HIDE DEF again
    <3> QED BY <2>2, <3>1, Zenon
  <2> DEFINE rd == R!Read(ring(x, x.pkts[1].off, x.pkts[1].end), c)
  <2>4. MakePacket(x, c, seqOf(u)) = Packet(x, rd.err, rd.data)
    <3>1. again # {}
      BY <2>2
    <3>2. MakePacket(x, c, seqOf(u)) = LET rf == R!Read(ring(x, x.pkts[first].off, x.pkts[first].end), c)
                                       IN  Packet(x, rf.err, rf.data)
      BY <1>4, <2>1, <3>1, Zenon DEF MakePacket
    <3> HIDE DEF first
    <3> QED BY <2>3, <3>2
  <2>5. rd.err = "nil" /\ rd.data \in Seq(Int) /\ rd.data = stream(u, u + Len(rd.data))
    <3> DEFINE r == ring(x, x.pkts[1].off, x.pkts[1].end)
    <3>1. /\ f[1 + 1] \in Nat /\ f[1] < f[1 + 1] /\ f[1] = u
          /\ Over(r, x, u, w, o, f[1], f[1 + 1]) /\ x.pkts[1].end \in 1 .. BufSize
      <4>1. x.pkts[1] \in Pkt
        BY <1>0, <1>1
      <4>2. f[1] = u /\ x.pkts[1].end \in 1 .. BufSize
        BY <4>1 DEF Holds, Pkt
      <4> QED BY <1>1, <4>2, PacketAt
    <3>2. ~R!IsEmpty(r)
      BY <3>1 DEF ring, R!IsEmpty
    <3> HIDE DEF r
    <3>3. PICK b \in Nat : b = f[1 + 1] /\ u < b /\ Over(r, x, u, w, o, u, b)
      BY <3>1
    <3>4. R!read(r, c) = stream(u, u + least(c, b - u))
      BY <3>3, ReadHeld
    <3>5. PICK m \in Nat : m = least(c, b - u)
      BY <1>0, <3>3 DEF least
    <3>6. stream(u, u + m) \in Seq(Int) /\ Len(stream(u, u + m)) = m
      BY <1>0, <3>5, StreamIs, Zenon
    <3>7. R!Read(r, c).err = "nil" /\ R!Read(r, c).data = stream(u, u + m)
      BY <3>2, <3>4, <3>5 DEF R!Read
    <3> QED BY <3>6, <3>7 DEF r
  <2> HIDE DEF rd
  <2> QED BY <1>2, <2>4, <2>5
<1> QED BY <1>3, <1>4
=============================================================================
