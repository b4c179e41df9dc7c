----------------------------- MODULE Ring_proofs ----------------------------
(* Proofs about RingSpec, for every buffer size and every set of bytes.    *)
EXTENDS RingSpec, SequenceTheorems, TLAPS

-----------------------------------------------------------------------------
(* The layouts a ring can be in.                                           *)

\* Off may rest at the end of the buffer, one past its last index, where
\* ReadDiscard leaves it, but never while the ring is empty: Write would begin
\* there.
Layout(r) ==
    /\ r \in [Buf : [1 .. RingSize -> Byte], Off : 0 .. RingSize, End : 0 .. RingSize]
    /\ r.End = 0 => r.Off < RingSize

\* A buffer is as long as its index set.
LEMMA SizeIs == ASSUME NEW r, Layout(r) PROVE Size(r) = RingSize
BY RingAssumption DEF Layout, Size

\* Reading n bytes gives a sequence of n.
LEMMA CopyLength == ASSUME NEW r, NEW at, NEW n \in Nat PROVE Len(copyOut(r, at, n)) = n
BY DEF copyOut

\* Free is between nothing and the whole buffer.
LEMMA FreeType == ASSUME NEW r, Layout(r) PROVE Free(r) \in 0 .. RingSize
BY SizeIs, RingAssumption DEF Layout, Free

\* In every layout the free bytes and the readable ones make up the buffer.
LEMMA LayoutIsExact ==
    ASSUME NEW r, Layout(r)
    PROVE  /\ Free(r) + Len(Contents(r)) = RingSize
           /\ IsFull(r) <=> Free(r) = 0
<1> USE RingAssumption DEF Layout
<1>0. Size(r) = RingSize
  BY SizeIs
<1>1. CASE r.End = 0
  <2>1. Contents(r) = <<>> /\ Len(<<>>) = 0
    BY <1>1 DEF Contents, IsEmpty
  <2> QED BY <1>0, <1>1, <2>1 DEF Free, IsFull
<1>2. CASE r.End # 0
  <2> DEFINE span == IF r.End > r.Off THEN r.End - r.Off ELSE RingSize - r.Off + r.End
  <2>1. span \in 1 .. RingSize
    BY <1>2
  <2>2. Contents(r) = copyOut(r, r.Off, span)
    BY <1>0, <1>2, <2>1 DEF Contents, IsEmpty, read
  <2>3. Len(Contents(r)) = span
    BY <2>1, <2>2, CopyLength
  <2> QED BY <1>0, <1>2, <2>3 DEF Free, IsFull
<1> QED BY <1>1, <1>2

-----------------------------------------------------------------------------
(* The buffer seen from the write position: cell 0 is where the next byte  *)
(* goes, the free bytes come first and the readable ones last.             *)

wrap(x) == x % RingSize

cell(r, d) == r.Buf[wrap(writeStart(r) + d) + 1]

\* The index a sum or difference of indices wraps to.
LEMMA WrapIs ==
    \A x \in -RingSize .. 2 * RingSize - 1 :
        wrap(x) = IF x = -RingSize THEN 0 ELSE IF x < 0 THEN x + RingSize
                  ELSE IF x < RingSize THEN x ELSE x - RingSize
BY RingAssumption DEF wrap

\* The index a sum of indices wraps to.
LEMMA WrapSum ==
    \A x \in 0 .. 2 * RingSize - 1 : wrap(x) = IF x < RingSize THEN x ELSE x - RingSize
BY WrapIs, RingAssumption

\* Indices one turn apart are the same.
LEMMA WrapEq ==
    \A x, y \in 0 .. 2 * RingSize - 1 :
        y = x \/ y = x + RingSize \/ y = x - RingSize => wrap(x) = wrap(y)
BY WrapSum, RingAssumption

\* The write position is an index.
LEMMA StartType == ASSUME NEW r, Layout(r) PROVE writeStart(r) \in 0 .. RingSize - 1
BY SizeIs, RingAssumption DEF Layout, writeStart

\* The readable bytes are the cells after the free ones.
LEMMA ContentsAre ==
    ASSUME NEW r, Layout(r)
    PROVE  Contents(r) = [k \in 1 .. RingSize - Free(r) |-> cell(r, Free(r) + k - 1)]
<1> USE RingAssumption DEF Layout
<1>0. Size(r) = RingSize
  BY SizeIs
<1>1. CASE r.End = 0
  <2>1. Contents(r) = <<>>
    BY <1>1 DEF Contents, IsEmpty
  <2>2. RingSize - Free(r) = 0
    BY <1>0, <1>1 DEF Free
  <2> QED BY <2>1, <2>2
<1>2. CASE r.End # 0
  <2> DEFINE span == IF r.End > r.Off THEN r.End - r.Off ELSE RingSize - r.Off + r.End
             f == Free(r)
             w == writeStart(r)
  <2>1. span \in 1 .. RingSize /\ f \in 0 .. RingSize /\ span = RingSize - f
    BY <1>0, <1>2 DEF Free
  <2>2. Contents(r) = copyOut(r, r.Off, span)
    BY <1>0, <1>2, <2>1 DEF Contents, IsEmpty, read
  <2>3. ASSUME NEW k \in 1 .. span
        PROVE  wrap(r.Off + k - 1) = wrap(w + (f + k - 1))
    <3>1. w \in 0 .. RingSize - 1 /\ r.Off \in 0 .. RingSize
      BY StartType
    <3>2. w + f = r.Off \/ w + f = r.Off + RingSize \/ w + f = r.Off - RingSize
      BY <1>0, <1>2 DEF writeStart, Free
    <3> HIDE DEF w, f, span
    <3>3. r.Off + k - 1 \in 0 .. 2 * RingSize - 1 /\ w + (f + k - 1) \in 0 .. 2 * RingSize - 1
      BY <2>1, <3>1
    <3>4. \/ w + (f + k - 1) = r.Off + k - 1
          \/ w + (f + k - 1) = r.Off + k - 1 + RingSize
          \/ w + (f + k - 1) = r.Off + k - 1 - RingSize
      BY <2>1, <3>1, <3>2
    <3> QED BY <3>3, <3>4, WrapEq
  <2> QED BY <1>0, <2>1, <2>2, <2>3 DEF copyOut, cell, wrap
<1> QED BY <1>1, <1>2

-----------------------------------------------------------------------------
(* What the methods do to the cells.                                       *)

\* A string has bytes, no more than the buffer.
LEMMA StringIs ==
    ASSUME NEW b \in Strings
    PROVE  /\ Len(b) \in 1 .. RingSize
           /\ \A k \in 1 .. Len(b) : b[k] \in Byte
BY RingAssumption DEF Strings

\* Bytes laid in at distance o of the write position replace the cells from o on.
LEMMA LaidIn ==
    ASSUME NEW r, Layout(r), NEW b \in Strings, NEW o \in 0 .. RingSize - 1, NEW at \in 0 .. RingSize,
           o + Len(b) <= RingSize,
           wrap(at) = wrap(writeStart(r) + o)
    PROVE  LET w == copyIn(r, at, b)
           IN  /\ Layout(w) /\ w.Off = r.Off /\ w.End = r.End
               /\ \A d \in 0 .. RingSize - 1 :
                    cell(w, d) = IF d \in o .. o + Len(b) - 1 THEN b[d - o + 1] ELSE cell(r, d)
<1> DEFINE w == copyIn(r, at, b)
           s == writeStart(r)
<1>0. Size(r) = RingSize
  BY SizeIs
<1>1. s \in 0 .. RingSize - 1
  BY StartType
<1>2. Len(b) \in 1 .. RingSize /\ \A k \in 1 .. Len(b) : b[k] \in Byte
  BY StringIs
<1>3. /\ w.Off = r.Off /\ w.End = r.End
      /\ w.Buf = [i \in 1 .. RingSize |->
                    LET k == wrap(i - 1 - at) IN IF k < Len(b) THEN b[k + 1] ELSE r.Buf[i]]
      /\ w = [Buf |-> w.Buf, Off |-> r.Off, End |-> r.End]
  BY <1>0 DEF copyIn, Layout, wrap
<1>4. Layout(w)
  <2>1. \A i \in 1 .. RingSize : wrap(i - 1 - at) \in Nat
    BY WrapIs, RingAssumption
  <2>2. \A i \in 1 .. RingSize : r.Buf[i] \in Byte
    BY DEF Layout
  <2>3. w.Buf \in [1 .. RingSize -> Byte]
    BY <1>2, <1>3, <2>1, <2>2
  <2> QED BY <1>3, <2>3 DEF Layout
<1>5. writeStart(w) = s
  BY <1>0, <1>3, <1>4, SizeIs DEF writeStart
<1>6. ASSUME NEW d \in 0 .. RingSize - 1
      PROVE  cell(w, d) = IF d \in o .. o + Len(b) - 1 THEN b[d - o + 1] ELSE cell(r, d)
  <2> DEFINE x == wrap(s + d)
             y == wrap(s + o)
             k == wrap(x - at)
  <2>1. x = IF s + d < RingSize THEN s + d ELSE s + d - RingSize
    BY <1>1, WrapSum, RingAssumption
  <2>2. y = IF s + o < RingSize THEN s + o ELSE s + o - RingSize
    BY <1>1, WrapSum, RingAssumption
  <2>3. at = y \/ (at = RingSize /\ y = 0)
    <3>1. wrap(at) = IF at < RingSize THEN at ELSE at - RingSize
      BY WrapSum, RingAssumption
    <3>2. wrap(at) = y
      OBVIOUS
    <3> QED BY <1>1, <2>2, <3>1, <3>2, RingAssumption
  <2> HIDE DEF x, y, s
  <2>4. x \in 0 .. RingSize - 1 /\ x - at \in -RingSize .. RingSize - 1
    BY <2>1, <1>1, RingAssumption
  <2>5. k = IF x - at = -RingSize THEN 0 ELSE IF x - at < 0 THEN x - at + RingSize ELSE x - at
    BY <2>4, WrapIs, RingAssumption
  <2> HIDE DEF k
  <2>6. k = IF d >= o THEN d - o ELSE d - o + RingSize
    BY <2>1, <2>2, <2>3, <2>5, <1>1, RingAssumption
  <2>7. cell(w, d) = w.Buf[x + 1]
    BY <1>5 DEF cell, x
  <2>8. cell(r, d) = r.Buf[x + 1]
    BY DEF cell, x, s
  <2> HIDE DEF w
  <2>9. w.Buf[x + 1] = IF k < Len(b) THEN b[k + 1] ELSE r.Buf[x + 1]
    <3>1. x + 1 \in 1 .. RingSize /\ (x + 1) - 1 - at = x - at
      BY <2>4, RingAssumption
    <3> QED BY <1>3, <3>1 DEF k
  <2>10. k < Len(b) <=> d \in o .. o + Len(b) - 1
    <3> DEFINE n == Len(b)
    <3>1. n \in Nat /\ o + n <= RingSize
      BY <1>2
    <3> HIDE DEF n
    <3>2. k < n <=> d \in o .. o + n - 1
      BY <2>6, <3>1, RingAssumption
    <3> QED BY <3>2 DEF n
  <2> QED BY <2>6, <2>7, <2>8, <2>9, <2>10, <1>2
<1> QED BY <1>3, <1>4, <1>6

\* The ring after n more bytes are counted as written.
advanced(r, n) == [r EXCEPT !.End = addOff(r, IF r.End = 0 THEN r.Off ELSE r.End, n)]

\* Counting n free bytes as written moves every cell n places towards the front.
LEMMA Advanced ==
    ASSUME NEW r, Layout(r), NEW n \in 1 .. Free(r)
    PROVE  LET w == advanced(r, n)
           IN  /\ Layout(w) /\ Free(w) = Free(r) - n
               /\ \A d \in 0 .. RingSize - 1 :
                    cell(w, d) = IF d + n < RingSize THEN cell(r, d + n) ELSE cell(r, d + n - RingSize)
<1> DEFINE w == advanced(r, n)
           at == IF r.End = 0 THEN r.Off ELSE r.End
           s == writeStart(r)
<1>0. Size(r) = RingSize /\ Free(r) \in 0 .. RingSize
  BY SizeIs, FreeType
<1>1. n \in 1 .. RingSize
  BY <1>0, RingAssumption
<1>2. /\ w.Buf = r.Buf /\ w.Off = r.Off
      /\ w.End = IF at + n > RingSize THEN at + n - RingSize ELSE at + n
      /\ w = [Buf |-> r.Buf, Off |-> r.Off, End |-> w.End]
  BY <1>0 DEF advanced, addOff, Layout
<1>3. Layout(w)
  BY <1>1, <1>2, RingAssumption DEF Layout
<1>4. Size(w) = RingSize
  BY <1>3, SizeIs
<1> HIDE DEF w
<1>5. Free(w) = Free(r) - n
  BY <1>0, <1>1, <1>2, <1>4, RingAssumption DEF Layout, Free
<1>6. /\ s \in 0 .. RingSize - 1
      /\ writeStart(w) = IF s + n < RingSize THEN s + n ELSE s + n - RingSize
  BY <1>0, <1>1, <1>2, <1>4, RingAssumption DEF Layout, writeStart
<1>7. ASSUME NEW d \in 0 .. RingSize - 1
      PROVE  cell(w, d) = IF d + n < RingSize THEN cell(r, d + n) ELSE cell(r, d + n - RingSize)
  <2> DEFINE t == writeStart(w)
             e == IF d + n < RingSize THEN d + n ELSE d + n - RingSize
  <2>1. t = IF s + n < RingSize THEN s + n ELSE s + n - RingSize
    BY <1>6
  <2>2. e \in 0 .. RingSize - 1
    BY <1>1, RingAssumption
  <2>3. wrap(t + d) = wrap(s + e)
    <3> HIDE DEF s, t
    <3>1. t + d \in 0 .. 2 * RingSize - 1 /\ s + e \in 0 .. 2 * RingSize - 1
      BY <1>1, <1>6, <2>1, <2>2, RingAssumption
    <3>2. s + e = t + d \/ s + e = t + d + RingSize \/ s + e = t + d - RingSize
      BY <1>1, <1>6, <2>1, RingAssumption
    <3> DEFINE x == t + d
               y == s + e
    <3> HIDE DEF e, x, y
    <3>3. /\ x \in 0 .. 2 * RingSize - 1 /\ y \in 0 .. 2 * RingSize - 1
          /\ y = x \/ y = x + RingSize \/ y = x - RingSize
      BY <1>6, <2>1, <2>2, <3>1, <3>2, RingAssumption DEF x, y
    <3>4. wrap(x) = wrap(y)
      BY <3>3, WrapEq
    <3> QED BY <3>4 DEF x, y
  <2>4. cell(w, d) = cell(r, e)
    BY <1>2, <2>3 DEF cell
  <2> QED BY <2>4
<1> QED BY <1>3, <1>5, <1>7 DEF w

\* An emptied ring is free, and its cells stay where they are.
LEMMA Emptied ==
    ASSUME NEW r, Layout(r), r.End # 0
    PROVE  LET w == emptied(r)
           IN  /\ Layout(w) /\ Free(w) = RingSize
               /\ \A d \in 0 .. RingSize - 1 : cell(w, d) = cell(r, d)
<1> DEFINE w == emptied(r)
<1>0. Size(r) = RingSize
  BY SizeIs
<1>1. w = [Buf |-> r.Buf, Off |-> IF r.End = RingSize THEN 0 ELSE r.End, End |-> 0]
  <2> DEFINE off == IF r.End = RingSize THEN 0 ELSE r.End
  <2>1. w = [r EXCEPT !.Off = off, !.End = 0]
    BY <1>0 DEF emptied
  <2> HIDE DEF off, w
  <2>2. w = [Buf |-> r.Buf, Off |-> off, End |-> 0]
    BY <2>1 DEF Layout
  <2> QED BY <2>2 DEF off
<1>2. Layout(w)
  BY <1>1, RingAssumption DEF Layout
<1>3. Size(w) = RingSize
  BY <1>2, SizeIs
<1> HIDE DEF w
<1>4. Free(w) = RingSize
  BY <1>1, <1>3, RingAssumption DEF Free
<1>5. writeStart(w) = writeStart(r)
  BY <1>0, <1>1, <1>3 DEF writeStart
<1> QED BY <1>1, <1>2, <1>4, <1>5 DEF cell, w

\* Taking some of the readable bytes, not all, frees them.
LEMMA Moved ==
    ASSUME NEW r, Layout(r), r.End # 0, NEW n \in 1 .. RingSize - Free(r) - 1,
           NEW off \in 0 .. RingSize,
           off = addOff(r, r.Off, n) \/ (off = 0 /\ addOff(r, r.Off, n) = RingSize)
    PROVE  LET w == [r EXCEPT !.Off = off]
           IN  /\ Layout(w) /\ Free(w) = Free(r) + n
               /\ \A d \in 0 .. RingSize - 1 : cell(w, d) = cell(r, d)
<1> DEFINE w == [r EXCEPT !.Off = off]
<1>0. Size(r) = RingSize /\ Free(r) \in 0 .. RingSize
  BY SizeIs, FreeType
<1>1. w = [Buf |-> r.Buf, Off |-> off, End |-> r.End]
  BY DEF Layout
<1>2. Layout(w)
  BY <1>1 DEF Layout
<1>3. Size(w) = RingSize
  BY <1>2, SizeIs
<1> HIDE DEF w
<1>4. Free(w) = Free(r) + n
  <2>1. /\ r.Off \in 0 .. RingSize /\ r.End \in 1 .. RingSize /\ n \in Nat
        /\ w.Off = off /\ w.End = r.End
    BY <1>0, <1>1, RingAssumption DEF Layout
  <2>2. addOff(r, r.Off, n) = IF r.Off + n > RingSize THEN r.Off + n - RingSize ELSE r.Off + n
    BY <1>0 DEF addOff
  <2>3. Free(r) = IF r.Off = 0 THEN RingSize - r.End
                  ELSE IF r.Off < r.End THEN r.Off + (RingSize - r.End) ELSE r.Off - r.End
    BY <1>0 DEF Free
  <2>4. Free(w) = IF off = 0 THEN RingSize - r.End
                  ELSE IF off < r.End THEN off + (RingSize - r.End) ELSE off - r.End
    BY <1>3, <2>1 DEF Free
  <2>5. n < RingSize - Free(r)
    BY <1>0, RingAssumption
  <2>6. off = addOff(r, r.Off, n) \/ (off = 0 /\ addOff(r, r.Off, n) = RingSize)
    OBVIOUS
  <2> USE RingAssumption
  <2>7. CASE r.Off < r.End
    BY <2>1, <2>2, <2>3, <2>4, <2>5, <2>6, <2>7
  <2>8. CASE r.Off >= r.End
    BY <2>1, <2>2, <2>3, <2>4, <2>5, <2>6, <2>8
  <2> QED BY <2>1, <2>7, <2>8
<1>5. writeStart(w) = writeStart(r)
  BY <1>0, <1>1, <1>3 DEF writeStart
<1> QED BY <1>1, <1>2, <1>4, <1>5 DEF cell, w

\* Where the front goes when n bytes are taken: to the end of the data exactly
\* when they are all of it.
LEMMA FrontMoves ==
    ASSUME NEW r, Layout(r), r.End # 0, NEW n \in 1 .. RingSize - Free(r)
    PROVE  /\ addOff(r, r.Off, n) \in 0 .. RingSize
           /\ addOff(r, r.Off, n) = r.End <=> n = RingSize - Free(r)
<1>0. Size(r) = RingSize /\ Free(r) \in 0 .. RingSize
  BY SizeIs, FreeType
<1>1. r.Off \in 0 .. RingSize /\ r.End \in 1 .. RingSize /\ n \in 1 .. RingSize /\ n <= RingSize - Free(r)
  BY <1>0, RingAssumption DEF Layout
<1>2. addOff(r, r.Off, n) = IF r.Off + n > RingSize THEN r.Off + n - RingSize ELSE r.Off + n
  BY <1>0 DEF addOff
<1>3. Free(r) = IF r.Off = 0 THEN RingSize - r.End
                ELSE IF r.Off < r.End THEN r.Off + (RingSize - r.End) ELSE r.Off - r.End
  BY <1>0 DEF Free
<1> QED BY <1>1, <1>2, <1>3, RingAssumption

-----------------------------------------------------------------------------
(* What they do to the queue of readable bytes.                            *)

\* Every cell holds a byte.
LEMMA CellType ==
    ASSUME NEW r, Layout(r), NEW d \in 0 .. RingSize - 1
    PROVE  cell(r, d) \in Byte
<1>1. writeStart(r) \in 0 .. RingSize - 1
  BY StartType
<1>2. wrap(writeStart(r) + d) \in 0 .. RingSize - 1
  BY <1>1, WrapSum, RingAssumption
<1>3. wrap(writeStart(r) + d) + 1 \in 1 .. RingSize
  BY <1>2, RingAssumption
<1> QED BY <1>3 DEF cell, Layout

\* The queue, its length and its bytes.
LEMMA QueueIs ==
    ASSUME NEW r, Layout(r)
    PROVE  /\ Contents(r) \in Seq(Byte)
           /\ Len(Contents(r)) = RingSize - Free(r)
           /\ \A k \in 1 .. RingSize - Free(r) : Contents(r)[k] = cell(r, Free(r) + k - 1)
<1> DEFINE n == RingSize - Free(r)
<1>1. n \in 0 .. RingSize /\ Free(r) \in 0 .. RingSize
  BY FreeType, RingAssumption
<1>2. Contents(r) = [k \in 1 .. n |-> cell(r, Free(r) + k - 1)]
  BY ContentsAre
<1>3. \A k \in 1 .. n : cell(r, Free(r) + k - 1) \in Byte
  <2> TAKE k \in 1 .. n
  <2>1. Free(r) + k - 1 \in 0 .. RingSize - 1
    BY <1>1, RingAssumption
  <2> QED BY <2>1, CellType
<1> HIDE DEF n
<1>4. Contents(r) \in [1 .. n -> Byte]
  BY <1>2, <1>3
<1>5. Contents(r) \in Seq(Byte) /\ Len(Contents(r)) = n
  BY <1>1, <1>4
<1> QED BY <1>2, <1>5 DEF n

\* Bytes that follow the readable ones and are counted as written join the queue.
LEMMA Joined ==
    ASSUME NEW r, NEW w, Layout(r), Layout(w), NEW b \in Seq(Byte),
           Len(b) <= Free(r), Free(w) = Free(r) - Len(b),
           \A k \in 1 .. RingSize - Free(r) : cell(w, Free(w) + k - 1) = cell(r, Free(r) + k - 1),
           \A k \in 1 .. Len(b) : cell(w, RingSize - Len(b) + k - 1) = b[k]
    PROVE  Contents(w) = Contents(r) \o b
<1> DEFINE q == Contents(r)
           v == Contents(w)
           n == Len(b)
           l == RingSize - Free(r)
<1>1. Free(r) \in 0 .. RingSize /\ l \in 0 .. RingSize /\ n \in Nat /\ RingSize - Free(w) = l + n
  BY FreeType, RingAssumption
<1>2. q \in Seq(Byte) /\ Len(q) = l /\ \A k \in 1 .. l : q[k] = cell(r, Free(r) + k - 1)
  BY QueueIs
<1>3. v \in Seq(Byte) /\ Len(v) = l + n /\ \A k \in 1 .. l + n : v[k] = cell(w, Free(w) + k - 1)
  BY <1>1, QueueIs
<1>4. /\ q \o b \in Seq(Byte) /\ Len(q \o b) = l + n
      /\ \A k \in 1 .. l + n : (q \o b)[k] = IF k <= l THEN q[k] ELSE b[k - l]
  <2> HIDE DEF q
  <2>1. /\ q \o b \in Seq(Byte) /\ Len(q \o b) = Len(q) + Len(b)
        /\ \A k \in 1 .. Len(q) + Len(b) : (q \o b)[k] = IF k <= Len(q) THEN q[k] ELSE b[k - Len(q)]
    BY <1>2, ConcatProperties, Zenon
  <2> QED BY <1>2, <2>1
<1>5. ASSUME NEW k \in 1 .. l + n PROVE v[k] = (q \o b)[k]
  <2>1. CASE k <= l
    <3>1. k \in 1 .. l
      BY <1>1, <2>1
    <3> QED BY <1>2, <1>3, <1>4, <2>1, <3>1
  <2>2. CASE k > l
    <3>1. k - l \in 1 .. n /\ Free(w) + k - 1 = RingSize - n + (k - l) - 1
      BY <1>1, <2>2, RingAssumption
    <3>2. cell(w, RingSize - n + (k - l) - 1) = b[k - l]
      BY <3>1
    <3> QED BY <1>1, <1>3, <1>4, <2>2, <3>1, <3>2
  <2>3. k <= l \/ k > l
    BY <1>1
  <2> QED BY <2>1, <2>2, <2>3
<1> HIDE DEF q, v
<1> QED BY <1>3, <1>4, <1>5, SeqEqual DEF q, v

\* Taking n readable bytes leaves the rest of the queue.
LEMMA Left ==
    ASSUME NEW r, NEW w, Layout(r), Layout(w), NEW n \in 0 .. RingSize - Free(r),
           Free(w) = Free(r) + n,
           \A d \in Free(r) .. RingSize - 1 : cell(w, d) = cell(r, d)
    PROVE  Contents(w) = SubSeq(Contents(r), n + 1, Len(Contents(r)))
<1> DEFINE q == Contents(r)
           v == Contents(w)
           l == RingSize - Free(r)
           t == SubSeq(q, n + 1, l)
<1>1. Free(r) \in 0 .. RingSize /\ l \in 0 .. RingSize /\ n \in 0 .. l /\ RingSize - Free(w) = l - n
  BY FreeType, RingAssumption
<1>2. q \in Seq(Byte) /\ Len(q) = l /\ \A k \in 1 .. l : q[k] = cell(r, Free(r) + k - 1)
  BY QueueIs
<1>3. v \in Seq(Byte) /\ Len(v) = l - n /\ \A k \in 1 .. l - n : v[k] = cell(w, Free(w) + k - 1)
  BY <1>1, QueueIs
<1> HIDE DEF q, v, l
<1>4. \A i \in n + 1 .. l : q[i] \in Byte
  BY <1>1, <1>2
<1>5. /\ t \in Seq(Byte) /\ Len(t) = l - n
      /\ \A i \in 1 .. l - n : t[i] = q[n + i]
  <2>1. n + 1 \in Int /\ l \in Int
    BY <1>1
  <2>2. /\ t \in Seq(Byte) /\ Len(t) = IF n + 1 <= l THEN l - (n + 1) + 1 ELSE 0
        /\ \A i \in 1 .. l - (n + 1) + 1 : t[i] = q[(n + 1) + i - 1]
    BY <1>4, <2>1, SubSeqProperties
  <2> HIDE DEF t
  <2> QED BY <1>1, <2>2
<1>6. ASSUME NEW k \in 1 .. l - n PROVE v[k] = t[k]
  <2>1. n + k \in 1 .. l /\ Free(w) + k - 1 = Free(r) + (n + k) - 1 /\ Free(w) + k - 1 \in Free(r) .. RingSize - 1
    BY <1>1, RingAssumption
  <2>2. cell(w, Free(w) + k - 1) = cell(r, Free(w) + k - 1)
    BY <2>1
  <2> QED BY <1>2, <1>3, <1>5, <2>1, <2>2
<1> HIDE DEF t
<1>7. v = t
  BY <1>3, <1>5, <1>6, SeqEqual
<1> QED BY <1>2, <1>7 DEF v, t, q

\* An accepted write appends its bytes; what is staged behind them keeps its place.
LEMMA WriteIs ==
    ASSUME NEW r, Layout(r), NEW b \in Strings, Write(r, b).err = "nil"
    PROVE  LET w == Write(r, b).ring
               n == Len(b)
           IN  /\ Layout(w) /\ n <= Free(r) /\ Free(w) = Free(r) - n
               /\ Contents(w) = Contents(r) \o b
               /\ \A d \in n .. Free(r) - 1 : cell(w, d - n) = cell(r, d)
<1> DEFINE n == Len(b)
           at == IF r.End = 0 THEN r.Off ELSE r.End
           c == copyIn(r, at, b)
           w == Write(r, b).ring
<1>0. Size(r) = RingSize /\ Free(r) \in 0 .. RingSize
  BY SizeIs, FreeType
<1>1. n \in 1 .. RingSize /\ b \in Seq(Byte)
  BY StringIs, RingAssumption DEF Strings
<1>2. n <= Free(r)
  BY <1>0, <1>1 DEF Write, Ret
<1>3. at \in 0 .. RingSize /\ wrap(at) = wrap(writeStart(r) + 0)
  <2>1. at \in 0 .. RingSize /\ writeStart(r) = IF at = RingSize THEN 0 ELSE at
    BY <1>0, RingAssumption DEF Layout, writeStart
  <2> HIDE DEF at
  <2> QED BY <2>1, WrapSum, RingAssumption
<1>4. /\ Layout(c) /\ c.Off = r.Off /\ c.End = r.End
      /\ \A d \in 0 .. RingSize - 1 :
            cell(c, d) = IF d \in 0 .. 0 + Len(b) - 1 THEN b[d - 0 + 1] ELSE cell(r, d)
  <2>1. 0 \in 0 .. RingSize - 1 /\ 0 + Len(b) <= RingSize
    BY <1>1, RingAssumption
  <2> HIDE DEF at
  <2> QED BY <1>3, <2>1, LaidIn
<1>5. Size(c) = RingSize /\ Free(c) = Free(r)
  BY <1>0, <1>4, SizeIs DEF Free
<1>6. w = advanced(c, n)
  <2>1. CASE midFree(r) > 0
    <3>1. w = [copyIn(r, r.End, b) EXCEPT !.End = r.End + Len(b)]
      BY <2>1, <1>2 DEF Write, Ret
    <3>2. r.End # 0 /\ r.End < r.Off
      BY <2>1 DEF midFree, Layout
    <3>3. Free(r) <= r.Off - r.End
      BY <1>0, <3>2 DEF Free, Layout
    <3>4. addOff(c, at, n) = r.End + n
      BY <1>1, <1>2, <1>5, <3>2, <3>3, <1>0, RingAssumption DEF addOff, Layout
    <3> HIDE DEF w
    <3> QED BY <1>4, <3>1, <3>2, <3>4 DEF advanced
  <2>2. CASE ~(midFree(r) > 0)
    <3>1. w = [c EXCEPT !.End = addOff(r, at, Len(b))]
      BY <2>2, <1>2 DEF Write, Ret
    <3>2. addOff(r, at, Len(b)) = addOff(c, at, n)
      BY <1>0, <1>5 DEF addOff
    <3> HIDE DEF w
    <3> QED BY <1>4, <3>1, <3>2 DEF advanced
  <2> QED BY <2>1, <2>2
<1> HIDE DEF c, w, n
<1>7. /\ Layout(w) /\ Free(w) = Free(r) - n
      /\ \A d \in 0 .. RingSize - 1 :
            cell(w, d) = IF d + n < RingSize THEN cell(c, d + n) ELSE cell(c, d + n - RingSize)
  <2>1. n \in 1 .. Free(c)
    BY <1>0, <1>1, <1>2, <1>5
  <2> QED BY <1>4, <1>5, <1>6, <2>1, Advanced
<1>8. /\ \A d \in 0 .. n - 1 : cell(c, d) = b[d + 1]
      /\ \A d \in n .. RingSize - 1 : cell(c, d) = cell(r, d)
  BY <1>1, <1>4, RingAssumption DEF n
<1>9. ASSUME NEW k \in 1 .. RingSize - Free(r)
      PROVE  cell(w, Free(w) + k - 1) = cell(r, Free(r) + k - 1)
  <2>1. /\ Free(w) + k - 1 \in 0 .. RingSize - 1
        /\ (Free(w) + k - 1) + n = Free(r) + k - 1 /\ Free(r) + k - 1 \in n .. RingSize - 1
    <3>1. Free(w) = Free(r) - n
      BY <1>7
    <3> QED BY <1>0, <1>1, <1>2, <3>1, RingAssumption
  <2> QED BY <1>1, <1>7, <1>8, <2>1, RingAssumption
<1>10. ASSUME NEW k \in 1 .. n
       PROVE  cell(w, RingSize - n + k - 1) = b[k]
  <2>1. /\ RingSize - n + k - 1 \in 0 .. RingSize - 1 /\ k - 1 \in 0 .. n - 1
        /\ (RingSize - n + k - 1) + n >= RingSize
        /\ (RingSize - n + k - 1) + n - RingSize = k - 1 /\ (k - 1) + 1 = k
    BY <1>1, RingAssumption
  <2>2. cell(w, RingSize - n + k - 1) = cell(c, k - 1)
    BY <1>1, <1>7, <2>1, RingAssumption
  <2> QED BY <1>8, <2>1, <2>2
<1>11. ASSUME NEW d \in n .. Free(r) - 1
       PROVE  cell(w, d - n) = cell(r, d)
  <2>1. d - n \in 0 .. RingSize - 1 /\ (d - n) + n = d /\ d \in n .. RingSize - 1
    BY <1>0, <1>1, RingAssumption
  <2>2. cell(w, d - n) = cell(c, d)
    BY <1>1, <1>7, <2>1, RingAssumption
  <2> QED BY <1>8, <2>1, <2>2
<1>12. Contents(w) = Contents(r) \o b
  BY <1>1, <1>2, <1>7, <1>9, <1>10, Joined DEF n
<1> QED BY <1>2, <1>7, <1>11, <1>12 DEF w, n

\* Staged bytes land at their distance from the write position and touch nothing else.
LEMMA StageIs ==
    ASSUME NEW r, Layout(r), NEW b \in Strings, NEW o \in 0 .. RingSize - 1,
           PeekWrite(r, b, o).err = "nil"
    PROVE  LET w == PeekWrite(r, b, o).ring
           IN  /\ Layout(w) /\ o + Len(b) <= Free(r) /\ Free(w) = Free(r)
               /\ Contents(w) = Contents(r)
               /\ \A d \in 0 .. Free(r) - 1 :
                    cell(w, d) = IF d \in o .. o + Len(b) - 1 THEN b[d - o + 1] ELSE cell(r, d)
<1> DEFINE n == Len(b)
           off == writeStart(r) + o
           at == IF off >= RingSize THEN off - RingSize ELSE off
           w == PeekWrite(r, b, o).ring
<1>0. Size(r) = RingSize /\ Free(r) \in 0 .. RingSize /\ writeStart(r) \in 0 .. RingSize - 1
  BY SizeIs, FreeType, StartType
<1>1. n \in 1 .. RingSize
  BY StringIs
<1>2. o + n <= Free(r)
  BY <1>0, <1>1 DEF PeekWrite, Ret
<1>3. w = copyIn(r, at, b)
  BY <1>0, <1>1, <1>2 DEF PeekWrite, Ret
<1>4. at \in 0 .. RingSize /\ wrap(at) = wrap(writeStart(r) + o)
  BY <1>0, WrapSum, RingAssumption
<1> HIDE DEF w, at
<1>5. /\ Layout(w) /\ w.Off = r.Off /\ w.End = r.End
      /\ \A d \in 0 .. RingSize - 1 :
            cell(w, d) = IF d \in o .. o + Len(b) - 1 THEN b[d - o + 1] ELSE cell(r, d)
  <2>1. o + Len(b) <= RingSize
    BY <1>0, <1>1, <1>2, RingAssumption
  <2> QED BY <1>3, <1>4, <2>1, LaidIn
<1>6. Size(w) = RingSize /\ Free(w) = Free(r)
  BY <1>0, <1>5, SizeIs DEF Free
<1>7. \A d \in Free(r) .. RingSize - 1 : cell(w, d) = cell(r, d)
  BY <1>0, <1>1, <1>2, <1>5, RingAssumption
<1>8. Contents(w) = Contents(r)
  <2>1. Contents(w) = SubSeq(Contents(r), 0 + 1, Len(Contents(r)))
    <3>1. 0 \in 0 .. RingSize - Free(r) /\ Free(w) = Free(r) + 0
      BY <1>0, <1>6, RingAssumption
    <3> QED BY <1>5, <1>7, <3>1, Left
  <2>2. Contents(r) \in Seq(Byte)
    BY QueueIs
  <2>3. SubSeq(Contents(r), 1, Len(Contents(r))) = Contents(r)
    BY <2>2, SubSeqFull
  <2> QED BY <2>1, <2>3
<1>9. \A d \in 0 .. Free(r) - 1 : d \in 0 .. RingSize - 1
  BY <1>0, RingAssumption
<1> QED BY <1>2, <1>5, <1>6, <1>8, <1>9 DEF w

\* A commit appends the first n cells.
LEMMA CommitIs ==
    ASSUME NEW r, Layout(r), NEW n \in 1 .. RingSize, Commit(r, n).err = "nil"
    PROVE  LET w == Commit(r, n).ring
           IN  /\ Layout(w) /\ n <= Free(r) /\ Free(w) = Free(r) - n
               /\ Contents(w) = Contents(r) \o [k \in 1 .. n |-> cell(r, k - 1)]
               /\ \A d \in n .. Free(r) - 1 : cell(w, d - n) = cell(r, d)
<1> DEFINE w == Commit(r, n).ring
           b == [k \in 1 .. n |-> cell(r, k - 1)]
<1>0. Size(r) = RingSize /\ Free(r) \in 0 .. RingSize
  BY SizeIs, FreeType
<1>1. n <= Free(r) /\ w = advanced(r, n)
  BY <1>0, RingAssumption DEF Commit, Ret, advanced
<1> HIDE DEF w
<1>2. /\ Layout(w) /\ Free(w) = Free(r) - n
      /\ \A d \in 0 .. RingSize - 1 :
            cell(w, d) = IF d + n < RingSize THEN cell(r, d + n) ELSE cell(r, d + n - RingSize)
  <2>1. n \in 1 .. Free(r)
    BY <1>0, <1>1, RingAssumption
  <2> QED BY <1>1, <2>1, Advanced
<1>3. b \in Seq(Byte) /\ Len(b) = n /\ \A k \in 1 .. n : b[k] = cell(r, k - 1)
  <2>1. \A k \in 1 .. n : cell(r, k - 1) \in Byte
    <3> TAKE k \in 1 .. n
    <3>1. k - 1 \in 0 .. RingSize - 1
      BY RingAssumption
    <3> QED BY <3>1, CellType
  <2>2. b \in [1 .. n -> Byte]
    BY <2>1
  <2> QED BY <2>2
<1> HIDE DEF b
<1>4. ASSUME NEW k \in 1 .. RingSize - Free(r)
      PROVE  cell(w, Free(w) + k - 1) = cell(r, Free(r) + k - 1)
  <2>1. /\ Free(w) + k - 1 \in 0 .. RingSize - 1
        /\ (Free(w) + k - 1) + n = Free(r) + k - 1 /\ Free(r) + k - 1 < RingSize
    <3>1. Free(w) = Free(r) - n
      BY <1>2
    <3> QED BY <1>0, <1>1, <3>1, RingAssumption
  <2> QED BY <1>2, <2>1, RingAssumption
<1>5. ASSUME NEW k \in 1 .. n
      PROVE  cell(w, RingSize - n + k - 1) = b[k]
  <2>1. /\ RingSize - n + k - 1 \in 0 .. RingSize - 1
        /\ (RingSize - n + k - 1) + n >= RingSize
        /\ (RingSize - n + k - 1) + n - RingSize = k - 1
    BY RingAssumption
  <2>2. cell(w, RingSize - n + k - 1) = cell(r, k - 1)
    BY <1>2, <2>1, RingAssumption
  <2> QED BY <1>3, <2>2
<1>6. ASSUME NEW d \in n .. Free(r) - 1
      PROVE  cell(w, d - n) = cell(r, d)
  <2>1. d - n \in 0 .. RingSize - 1 /\ (d - n) + n = d /\ d < RingSize
    BY <1>0, RingAssumption
  <2> QED BY <1>2, <2>1, RingAssumption
<1>7. Contents(w) = Contents(r) \o b
  BY <1>1, <1>2, <1>3, <1>4, <1>5, Joined
<1> QED BY <1>1, <1>2, <1>6, <1>7 DEF w, b

\* A discard frees the n oldest bytes and moves no cell.
LEMMA DiscardIs ==
    ASSUME NEW r, Layout(r), NEW n \in 1 .. RingSize, ReadDiscard(r, n).err = "nil"
    PROVE  LET w == ReadDiscard(r, n).ring
           IN  /\ Layout(w) /\ n <= RingSize - Free(r) /\ Free(w) = Free(r) + n
               /\ \A d \in 0 .. RingSize - 1 : cell(w, d) = cell(r, d)
<1> DEFINE w == ReadDiscard(r, n).ring
<1>0. Size(r) = RingSize /\ Free(r) \in 0 .. RingSize /\ Buffered(r) = RingSize - Free(r)
  BY SizeIs, FreeType DEF Buffered
<1>1. n <= RingSize - Free(r)
  BY <1>0, RingAssumption DEF ReadDiscard, Ret
<1>2. r.End # 0
  BY <1>0, <1>1, RingAssumption DEF Free
<1>3. CASE n = RingSize - Free(r)
  <2>1. w = emptied(r)
    BY <1>0, <1>3, RingAssumption DEF ReadDiscard, Ret
  <2> HIDE DEF w
  <2>2. Free(r) + n = RingSize
    BY <1>0, <1>3, RingAssumption
  <2> QED BY <1>1, <1>2, <2>1, <2>2, Emptied DEF w
<1>4. CASE n # RingSize - Free(r)
  <2>1. w = [r EXCEPT !.Off = addOff(r, r.Off, n)]
    BY <1>0, <1>1, <1>4, RingAssumption DEF ReadDiscard, Ret
  <2> HIDE DEF w
  <2>2. n \in 1 .. RingSize - Free(r) /\ n \in 1 .. RingSize - Free(r) - 1
    BY <1>0, <1>1, <1>4, RingAssumption
  <2>3. addOff(r, r.Off, n) \in 0 .. RingSize
    BY <1>2, <2>2, FrontMoves
  <2> QED BY <1>1, <1>2, <2>1, <2>2, <2>3, Moved DEF w
<1> QED BY <1>3, <1>4

\* A peek of m bytes, no more than there are, is the front of the queue.
LEMMA FrontIs ==
    ASSUME NEW r, Layout(r), r.End # 0, NEW m \in 1 .. RingSize - Free(r)
    PROVE  copyOut(r, r.Off, m) = SubSeq(Contents(r), 1, m)
<1> DEFINE span == IF r.End > r.Off THEN r.End - r.Off ELSE RingSize - r.Off + r.End
           q == Contents(r)
           t == SubSeq(q, 1, m)
           u == copyOut(r, r.Off, m)
<1>0. Size(r) = RingSize /\ Free(r) \in 0 .. RingSize
  BY SizeIs, FreeType
<1>1. span \in 1 .. RingSize /\ span = RingSize - Free(r)
  BY <1>0, RingAssumption DEF Free, Layout
<1>2. q = copyOut(r, r.Off, span)
  BY <1>0, <1>1, RingAssumption DEF Contents, IsEmpty, read
<1>3. q \in Seq(Byte) /\ Len(q) = span
  BY <1>1, QueueIs
<1> HIDE DEF span, q
<1>4. m \in 1 .. span
  BY <1>1
<1>5. \A i \in 1 .. m : i \in 1 .. span /\ q[i] \in Byte
  BY <1>1, <1>3, <1>4
<1>6. t \in Seq(Byte) /\ Len(t) = m /\ \A i \in 1 .. m : t[i] = q[i]
  <2>1. /\ t \in Seq(Byte) /\ Len(t) = IF 1 <= m THEN m - 1 + 1 ELSE 0
        /\ \A i \in 1 .. m - 1 + 1 : t[i] = q[1 + i - 1]
    BY <1>5, SubSeqProperties
  <2> HIDE DEF t
  <2> QED BY <1>1, <1>4, <2>1
<1>7. u = [k \in 1 .. m |-> q[k]]
  BY <1>2, <1>4, <1>5 DEF copyOut
<1>8. u \in Seq(Byte) /\ Len(u) = m /\ \A i \in 1 .. m : u[i] = q[i]
  BY <1>1, <1>4, <1>5, <1>7
<1> HIDE DEF u, t
<1> QED BY <1>6, <1>8, SeqEqual DEF u, t, q

\* A read takes the front of the queue.
LEMMA ReadIs ==
    ASSUME NEW r, Layout(r), NEW n \in 1 .. RingSize, Read(r, n).err = "nil"
    PROVE  LET w == Read(r, n).ring
               m == IF n < RingSize - Free(r) THEN n ELSE RingSize - Free(r)
           IN  /\ Layout(w) /\ m \in 1 .. RingSize - Free(r) /\ Free(w) = Free(r) + m
               /\ Read(r, n).data = SubSeq(Contents(r), 1, m)
               /\ \A d \in 0 .. RingSize - 1 : cell(w, d) = cell(r, d)
<1> DEFINE w == Read(r, n).ring
           m == IF n < RingSize - Free(r) THEN n ELSE RingSize - Free(r)
           span == IF r.End > r.Off THEN r.End - r.Off ELSE RingSize - r.Off + r.End
<1>0. Size(r) = RingSize /\ Free(r) \in 0 .. RingSize
  BY SizeIs, FreeType
<1>1. r.End # 0
  BY RingAssumption DEF Read, IsEmpty
<1>2. span \in 1 .. RingSize /\ span = RingSize - Free(r)
  BY <1>0, <1>1, RingAssumption DEF Free, Layout
<1>3. m \in 1 .. RingSize - Free(r)
  BY <1>0, <1>2, RingAssumption
<1>4. read(r, n) = copyOut(r, r.Off, m)
  BY <1>0, <1>2 DEF read
<1> HIDE DEF m
<1>5. Len(read(r, n)) = m
  BY <1>0, <1>3, <1>4, CopyLength, RingAssumption
<1>6. Read(r, n).data = SubSeq(Contents(r), 1, m)
  BY <1>1, <1>3, <1>4, FrontIs, RingAssumption DEF Read, IsEmpty
<1>7. w = onReadEnd(r, m)
  BY <1>1, <1>5, RingAssumption DEF Read, IsEmpty
<1>8. /\ addOff(r, r.Off, m) \in 0 .. RingSize
      /\ addOff(r, r.Off, m) = r.End <=> m = RingSize - Free(r)
  BY <1>1, <1>3, FrontMoves
<1> HIDE DEF w
<1>9. CASE m = RingSize - Free(r)
  <2>1. w = emptied(r) /\ Free(r) + m = RingSize
    BY <1>0, <1>7, <1>8, <1>9, RingAssumption DEF onReadEnd
  <2> QED BY <1>1, <1>3, <1>6, <2>1, Emptied DEF w, m
<1>10. CASE m # RingSize - Free(r)
  <2> DEFINE off == IF addOff(r, r.Off, m) = RingSize THEN 0 ELSE addOff(r, r.Off, m)
  <2>1. w = [r EXCEPT !.Off = off]
    BY <1>0, <1>7, <1>8, <1>10 DEF onReadEnd
  <2>2. /\ off \in 0 .. RingSize
        /\ off = addOff(r, r.Off, m) \/ (off = 0 /\ addOff(r, r.Off, m) = RingSize)
    BY <1>8, RingAssumption
  <2>3. m \in 1 .. RingSize - Free(r) - 1
    BY <1>0, <1>3, <1>10, RingAssumption
  <2> HIDE DEF off
  <2> QED BY <1>1, <1>3, <1>6, <2>1, <2>2, <2>3, Moved DEF w, m
<1> QED BY <1>9, <1>10

-----------------------------------------------------------------------------
(* The inductive invariant, and the queue the ring implements.             *)

\* What was staged is in the free cells, at its distance.
Staged == \A d \in DOMAIN ahead : d \in 0 .. Free(ring) - 1 /\ ahead[d] = cell(ring, d)

Inv == Layout(ring) /\ Staged

\* When n bytes join the queue, what is staged behind them moves up n cells.
LEMMA ShiftedStaged ==
    ASSUME Inv, NEW n \in 1 .. RingSize, NEW w, Layout(w), ring' = w, ahead' = shifted(n),
           n <= Free(ring), Free(w) = Free(ring) - n,
           \A d \in n .. Free(ring) - 1 : cell(w, d - n) = cell(ring, d)
    PROVE  Inv'
<1>0. Free(ring) \in 0 .. RingSize
  BY FreeType DEF Inv
<1>1. ASSUME NEW k \in DOMAIN ahead'
      PROVE  k \in 0 .. Free(w) - 1 /\ ahead'[k] = cell(w, k)
  <2>1. PICK d \in DOMAIN ahead : d >= n /\ k = d - n
    BY DEF shifted
  <2>2. d \in 0 .. Free(ring) - 1 /\ ahead[d] = cell(ring, d)
    BY DEF Inv, Staged
  <2>3. k \in 0 .. Free(w) - 1 /\ k + n = d /\ d \in n .. Free(ring) - 1
    BY <1>0, <2>1, <2>2, RingAssumption
  <2>4. ahead'[k] = ahead[k + n]
    BY DEF shifted
  <2>5. cell(w, d - n) = cell(ring, d)
    BY <2>3
  <2> QED BY <2>1, <2>2, <2>3, <2>4, <2>5
<1>2. Staged'
  BY <1>1 DEF Staged, cell, Free, writeStart, Size
<1>3. Layout(ring)'
  BY DEF Layout
<1> QED BY <1>2, <1>3 DEF Inv

\* A write is a write to the queue.
LEMMA WriteStep ==
    ASSUME Inv, NEW b \in Strings, Write(ring, b).err = "nil", ring' = Write(ring, b).ring,
           ahead' = shifted(Len(b)), put' = b, got' = <<>>
    PROVE  Inv' /\ Abstract!Write(b)
<1> DEFINE w == Write(ring, b).ring
           n == Len(b)
<1>1. /\ Layout(w) /\ n <= Free(ring) /\ Free(w) = Free(ring) - n
      /\ Contents(w) = Contents(ring) \o b
      /\ \A d \in n .. Free(ring) - 1 : cell(w, d - n) = cell(ring, d)
  BY WriteIs DEF Inv
<1>2. n \in 1 .. RingSize /\ Free(ring) \in 0 .. RingSize /\ Len(Contents(ring)) = RingSize - Free(ring)
  BY StringIs, FreeType, QueueIs DEF Inv
<1> HIDE DEF w, n
<1>3. ring' = w
  BY DEF w
<1>4. Inv'
  BY <1>1, <1>2, <1>3, ShiftedStaged DEF n
<1>5. Contents(ring)' = Contents(ring) \o b
  <2>1. Contents(ring)' = Contents(w)
    BY <1>3
  <2> QED BY <1>1, <2>1
<1>6. Len(Contents(ring)) + Len(b) <= RingSize
  BY <1>1, <1>2, RingAssumption DEF n
<1> QED BY <1>4, <1>5, <1>6 DEF Abstract!Write, Abstract!shifted, shifted

\* A staged write is a staging, and a commit a commit.
LEMMA StageStep ==
    ASSUME Inv, NEW b \in Strings, NEW o \in 0 .. RingSize - 1, DoPeekWrite(b, o)
    PROVE  Inv' /\ Abstract!Stage(b, o)
<1> DEFINE w == PeekWrite(ring, b, o).ring
           new == o .. o + Len(b) - 1
<1>1. /\ PeekWrite(ring, b, o).err = "nil" /\ ring' = w /\ put' = b /\ got' = <<>>
      /\ ahead' = [k \in DOMAIN ahead \cup new |-> IF k \in new THEN b[k - o + 1] ELSE ahead[k]]
  BY DEF DoPeekWrite
<1>2. /\ Layout(w) /\ o + Len(b) <= Free(ring) /\ Free(w) = Free(ring)
      /\ Contents(w) = Contents(ring)
      /\ \A d \in 0 .. Free(ring) - 1 :
            cell(w, d) = IF d \in o .. o + Len(b) - 1 THEN b[d - o + 1] ELSE cell(ring, d)
  BY <1>1, StageIs DEF Inv
<1>3. /\ Len(b) \in 1 .. RingSize /\ Free(ring) \in 0 .. RingSize
      /\ Len(Contents(ring)) = RingSize - Free(ring)
  BY StringIs, FreeType, QueueIs DEF Inv
<1> HIDE DEF w
<1>4. ASSUME NEW k \in DOMAIN ahead'
      PROVE  k \in 0 .. Free(w) - 1 /\ ahead'[k] = cell(w, k)
  <2>1. k \in DOMAIN ahead \cup new
    BY <1>1
  <2>2. CASE k \in new
    <3>1. k \in 0 .. Free(ring) - 1
      BY <1>2, <1>3, <2>2, RingAssumption
    <3>2. ahead'[k] = b[k - o + 1]
      BY <1>1, <2>1, <2>2
    <3>3. cell(w, k) = b[k - o + 1]
      BY <1>2, <2>2, <3>1
    <3> QED BY <1>2, <3>1, <3>2, <3>3
  <2>3. CASE k \notin new
    <3>1. k \in 0 .. Free(ring) - 1 /\ ahead[k] = cell(ring, k)
      BY <2>1, <2>3 DEF Inv, Staged
    <3> QED BY <1>1, <1>2, <2>1, <2>3, <3>1
  <2> QED BY <2>2, <2>3
<1>5. Inv'
  <2>1. Staged'
    BY <1>1, <1>4 DEF Staged, cell, Free, writeStart, Size
  <2>2. Layout(ring)'
    BY <1>1, <1>2 DEF Layout
  <2> QED BY <2>1, <2>2 DEF Inv
<1>6. Contents(ring)' = Contents(ring)
  <2>1. Contents(ring)' = Contents(w)
    BY <1>1
  <2> QED BY <1>2, <2>1
<1>7. Len(Contents(ring)) + o + Len(b) <= RingSize
  BY <1>2, <1>3, RingAssumption
<1> QED BY <1>1, <1>5, <1>6, <1>7 DEF Abstract!Stage

\* A commit moves staged bytes into the queue.
LEMMA CommitStep ==
    ASSUME Inv, NEW n \in 1 .. RingSize, DoCommit(n)
    PROVE  Inv' /\ Abstract!Commit(n)
<1> DEFINE w == Commit(ring, n).ring
<1>1. /\ Commit(ring, n).err = "nil" /\ ring' = w /\ ahead' = shifted(n) /\ put' = <<>> /\ got' = <<>>
      /\ 0 .. n - 1 \subseteq DOMAIN ahead
  BY DEF DoCommit
<1>2. /\ Layout(w) /\ n <= Free(ring) /\ Free(w) = Free(ring) - n
      /\ Contents(w) = Contents(ring) \o [k \in 1 .. n |-> cell(ring, k - 1)]
      /\ \A d \in n .. Free(ring) - 1 : cell(w, d - n) = cell(ring, d)
  BY <1>1, CommitIs DEF Inv
<1> HIDE DEF w
<1>3. Inv'
  BY <1>1, <1>2, ShiftedStaged
<1>4. [k \in 1 .. n |-> cell(ring, k - 1)] = [k \in 1 .. n |-> ahead[k - 1]]
  <2>1. ASSUME NEW k \in 1 .. n PROVE cell(ring, k - 1) = ahead[k - 1]
    <3>1. k - 1 \in DOMAIN ahead
      BY <1>1
    <3> QED BY <3>1 DEF Inv, Staged
  <2> QED BY <2>1
<1>5. Contents(ring)' = Contents(ring) \o [k \in 1 .. n |-> ahead[k - 1]]
  <2>1. Contents(ring)' = Contents(w)
    BY <1>1
  <2> QED BY <1>2, <1>4, <2>1
<1> QED BY <1>1, <1>3, <1>5 DEF Abstract!Commit, Abstract!shifted, shifted

\* Taking bytes keeps what is staged: no cell moves and none free is lost.
LEMMA TakenStaged ==
    ASSUME Inv, NEW m \in 1 .. RingSize - Free(ring), NEW w, Layout(w), ring' = w, ahead' = ahead,
           Free(w) = Free(ring) + m,
           \A d \in 0 .. RingSize - 1 : cell(w, d) = cell(ring, d)
    PROVE  Inv' /\ Contents(ring)' = SubSeq(Contents(ring), m + 1, Len(Contents(ring)))
<1>0. Free(ring) \in 0 .. RingSize
  BY FreeType DEF Inv
<1>1. ASSUME NEW k \in DOMAIN ahead
      PROVE  k \in 0 .. Free(w) - 1 /\ ahead[k] = cell(w, k)
  <2>1. k \in 0 .. Free(ring) - 1 /\ ahead[k] = cell(ring, k)
    BY DEF Inv, Staged
  <2>2. k \in 0 .. Free(w) - 1 /\ k \in 0 .. RingSize - 1
    BY <1>0, <2>1, RingAssumption
  <2> QED BY <2>1, <2>2
<1>2. Staged'
  BY <1>1 DEF Staged, cell, Free, writeStart, Size
<1>3. Layout(ring)'
  BY DEF Layout
<1>4. Contents(w) = SubSeq(Contents(ring), m + 1, Len(Contents(ring)))
  <2>1. m \in 0 .. RingSize - Free(ring) /\ \A d \in Free(ring) .. RingSize - 1 : d \in 0 .. RingSize - 1
    BY <1>0, RingAssumption
  <2> QED BY <2>1, Left DEF Inv
<1>5. Contents(ring)' = Contents(w)
  OBVIOUS
<1> QED BY <1>2, <1>3, <1>4, <1>5 DEF Inv

\* A read or a discard takes the oldest bytes.
LEMMA TakeStep ==
    ASSUME Inv, NEW n \in 1 .. RingSize, DoRead(n) \/ DoReadDiscard(n)
    PROVE  Inv' /\ \E m \in 1 .. RingSize : Abstract!Take(m)
<1>0. Free(ring) \in 0 .. RingSize /\ Len(Contents(ring)) = RingSize - Free(ring)
  BY FreeType, QueueIs DEF Inv
<1>1. CASE DoRead(n)
  <2> DEFINE w == Read(ring, n).ring
             m == IF n < RingSize - Free(ring) THEN n ELSE RingSize - Free(ring)
  <2>1. /\ Read(ring, n).err = "nil" /\ ring' = w /\ put' = <<>> /\ got' = Read(ring, n).data
        /\ ahead' = ahead
    BY <1>1 DEF DoRead
  <2>2. /\ Layout(w) /\ m \in 1 .. RingSize - Free(ring) /\ Free(w) = Free(ring) + m
        /\ Read(ring, n).data = SubSeq(Contents(ring), 1, m)
        /\ \A d \in 0 .. RingSize - 1 : cell(w, d) = cell(ring, d)
    BY <2>1, ReadIs DEF Inv
  <2> HIDE DEF w, m
  <2>3. Inv' /\ Contents(ring)' = SubSeq(Contents(ring), m + 1, Len(Contents(ring)))
    BY <2>1, <2>2, TakenStaged
  <2>4. m \in 1 .. RingSize /\ m <= Len(Contents(ring))
    BY <1>0, <2>2, RingAssumption
  <2>5. Abstract!Take(m)
    BY <2>1, <2>2, <2>3, <2>4 DEF Abstract!Take
  <2> QED BY <2>3, <2>4, <2>5
<1>2. CASE DoReadDiscard(n)
  <2> DEFINE w == ReadDiscard(ring, n).ring
  <2>1. /\ ReadDiscard(ring, n).err = "nil" /\ ring' = w /\ put' = <<>> /\ got' = <<>>
        /\ ahead' = ahead
    BY <1>2 DEF DoReadDiscard
  <2>2. /\ Layout(w) /\ n <= RingSize - Free(ring) /\ Free(w) = Free(ring) + n
        /\ \A d \in 0 .. RingSize - 1 : cell(w, d) = cell(ring, d)
    BY <2>1, DiscardIs DEF Inv
  <2> HIDE DEF w
  <2>3. n \in 1 .. RingSize - Free(ring) /\ n <= Len(Contents(ring))
    BY <1>0, <2>2, RingAssumption
  <2>4. Inv' /\ Contents(ring)' = SubSeq(Contents(ring), n + 1, Len(Contents(ring)))
    BY <2>1, <2>2, <2>3, TakenStaged
  <2>5. Abstract!Take(n)
    BY <2>1, <2>3, <2>4 DEF Abstract!Take
  <2> QED BY <2>4, <2>5
<1> QED BY <1>1, <1>2

\* A reset clears the queue and what is staged.
LEMMA ResetStep ==
    ASSUME Inv, DoReset
    PROVE  Inv' /\ Abstract!Clear
<1>1. ring' = [Buf |-> ring.Buf, Off |-> 0, End |-> 0] /\ ahead' = <<>>
  BY DEF DoReset, Reset, Inv, Layout
<1>2. Layout(ring)'
  BY <1>1, RingAssumption DEF Inv, Layout
<1>3. Staged'
  BY <1>1 DEF Staged
<1>4. Contents(ring)' = <<>>
  BY <1>1 DEF Contents, IsEmpty
<1> QED BY <1>2, <1>3, <1>4 DEF Inv, Abstract!Clear, DoReset

\* Every call keeps the invariant and is a call of the queue.
LEMMA Step ==
    ASSUME Inv, [Next]_vars
    PROVE  Inv' /\ [Abstract!Next]_<<Contents(ring), ahead, put, got>>
<1>1. CASE \E b \in Strings : DoWrite(b)
  <2>1. PICK b \in Strings : DoWrite(b)
    BY <1>1
  <2>2. Inv' /\ Abstract!Write(b)
    BY <2>1, WriteStep DEF DoWrite
  <2> QED BY <2>2 DEF Abstract!Next, Abstract!Strings, Strings
<1>2. CASE \E b \in Strings, limit \in 0 .. RingSize : DoWriteLimited(b, limit)
  <2>1. PICK b \in Strings, limit \in 0 .. RingSize : DoWriteLimited(b, limit)
    BY <1>2
  <2>2. WriteLimited(ring, b, limit) = Write(ring, b)
    BY <2>1 DEF DoWriteLimited, WriteLimited, Ret
  <2>3. Inv' /\ Abstract!Write(b)
    BY <2>1, <2>2, WriteStep DEF DoWriteLimited
  <2> QED BY <2>3 DEF Abstract!Next, Abstract!Strings, Strings
<1>3. CASE \E b \in Strings, d \in 0 .. RingSize - 1 : DoPeekWrite(b, d)
  <2>1. PICK b \in Strings, d \in 0 .. RingSize - 1 : DoPeekWrite(b, d)
    BY <1>3
  <2>2. Inv' /\ Abstract!Stage(b, d)
    BY <2>1, StageStep
  <2>3. d \in 0 .. RingSize
    BY RingAssumption
  <2> QED BY <2>2, <2>3 DEF Abstract!Next, Abstract!Strings, Strings
<1>4. CASE \E n \in 1 .. RingSize : DoCommit(n)
  BY <1>4, CommitStep DEF Abstract!Next
<1>5. CASE \E n \in 1 .. RingSize : DoRead(n) \/ DoReadDiscard(n)
  BY <1>5, TakeStep DEF Abstract!Next
<1>6. CASE DoReset
  BY <1>6, ResetStep DEF Abstract!Next
<1>7. CASE UNCHANGED vars
  BY <1>7 DEF vars, Inv, Layout, Staged, cell, Free, writeStart, Size, Contents, read, IsEmpty, copyOut
<1> QED BY <1>1, <1>2, <1>3, <1>4, <1>5, <1>6, <1>7 DEF Next

\* A peek off bytes into the queue.
LEMMA PeekIs ==
    ASSUME NEW r, Layout(r), NEW off \in 0 .. RingSize, NEW n \in 1 .. RingSize,
           off + n <= Buffered(r)
    PROVE  ReadAt(r, n, off).data = SubSeq(Contents(r), off + 1, off + n)
<1> DEFINE s == [r EXCEPT !.Off = addOff(r, r.Off, off)]
           q == Contents(r)
<1>0. Size(r) = RingSize /\ Free(r) \in 0 .. RingSize /\ Buffered(r) = RingSize - Free(r)
  BY SizeIs, FreeType DEF Buffered
<1>1. r.End # 0
  BY <1>0, RingAssumption DEF Free
<1>2. ReadAt(r, n, off).data = read(s, n)
  BY <1>0, <1>1, RingAssumption DEF ReadAt, IsEmpty
<1>3. /\ Layout(s) /\ Free(s) = Free(r) + off /\ s.End = r.End
      /\ \A d \in 0 .. RingSize - 1 : cell(s, d) = cell(r, d)
  <2>1. CASE off = 0
    <3>1. addOff(r, r.Off, off) = r.Off
      BY <1>0, <2>1, RingAssumption DEF addOff, Layout
    <3>2. s = r
      BY <3>1 DEF Layout
    <3> QED BY <1>0, <2>1, <3>2, RingAssumption
  <2>2. CASE off # 0
    <3>1. off \in 1 .. RingSize - Free(r) - 1 /\ off \in 1 .. RingSize - Free(r)
      BY <1>0, <2>2, RingAssumption
    <3>2. addOff(r, r.Off, off) \in 0 .. RingSize
      BY <1>1, <3>1, FrontMoves
    <3>3. s.End = r.End
      BY DEF Layout
    <3> QED BY <1>1, <3>1, <3>2, <3>3, Moved
  <2> QED BY <2>1, <2>2
<1> HIDE DEF s
<1>4. Size(s) = RingSize
  BY <1>3, SizeIs
<1>5. n \in 1 .. RingSize - Free(s)
  BY <1>0, <1>3, RingAssumption
<1>6. read(s, n) = copyOut(s, s.Off, n)
  <2> DEFINE span == IF s.End > s.Off THEN s.End - s.Off ELSE RingSize - s.Off + s.End
  <2>1. span = RingSize - Free(s) /\ span \in 1 .. RingSize
    BY <1>1, <1>3, <1>4, RingAssumption DEF Free, Layout
  <2>2. read(s, n) = copyOut(s, s.Off, IF n < span THEN n ELSE span)
    BY <1>4 DEF read
  <2> HIDE DEF span
  <2>3. n <= span
    BY <1>5, <2>1, RingAssumption
  <2>4. (IF n < span THEN n ELSE span) = n
    BY <2>1, <2>3
  <2> QED BY <2>2, <2>4
<1>7. copyOut(s, s.Off, n) = SubSeq(Contents(s), 1, n)
  BY <1>1, <1>3, <1>5, FrontIs
<1>8. q \in Seq(Byte) /\ Len(q) = RingSize - Free(r)
  BY QueueIs
<1>9. Contents(s) = SubSeq(q, off + 1, Len(q))
  <2>1. off \in 0 .. RingSize - Free(r) /\ \A d \in Free(r) .. RingSize - 1 : d \in 0 .. RingSize - 1
    BY <1>0, RingAssumption
  <2> QED BY <1>3, <2>1, Left
<1> HIDE DEF q
<1>10. SubSeq(SubSeq(q, off + 1, Len(q)), 1, n) = SubSeq(q, off + 1, off + n)
  <2>1. /\ off + 1 \in 1 .. Len(q) /\ Len(q) \in 1 .. Len(q)
        /\ 1 \in 1 .. Len(q) - (off + 1) + 1 /\ n \in 1 .. Len(q) - (off + 1) + 1
    BY <1>0, <1>8, RingAssumption
  <2>2. SubSeq(SubSeq(q, off + 1, Len(q)), 1, n) = SubSeq(q, (off + 1) + 1 - 1, (off + 1) + n - 1)
    BY <1>8, <2>1, SubSeqOfSubSeq
  <2>3. (off + 1) + 1 - 1 = off + 1 /\ (off + 1) + n - 1 = off + n
    OBVIOUS
  <2> QED BY <2>2, <2>3
<1> QED BY <1>2, <1>6, <1>7, <1>9, <1>10 DEF q

\* A limited write fits, and ends before the limit.
LEMMA LimitHolds ==
    ASSUME NEW r, Layout(r), NEW limit \in 0 .. RingSize - 1
    PROVE  /\ FreeLimited(r, limit) <= Free(r)
           /\ \A k \in 0 .. FreeLimited(r, limit) - 1 : wrap(writeStart(r) + k) # limit
<1> DEFINE n == FreeLimited(r, limit)
           s == writeStart(r)
<1>0. /\ Size(r) = RingSize /\ Free(r) \in 0 .. RingSize
      /\ r.Off \in 0 .. RingSize /\ r.End \in 0 .. RingSize /\ s \in 0 .. RingSize - 1
  BY SizeIs, FreeType, StartType DEF Layout
<1>1. n \in Int /\ n <= Free(r)
  BY <1>0, RingAssumption DEF FreeLimited, Free, IsFull, min, Layout
<1>2. ASSUME NEW k \in 0 .. n - 1 PROVE wrap(s + k) # limit
  <2>1. k \in Nat /\ k < n
    BY <1>1
  <2>2. wrap(s + k) = IF s + k < RingSize THEN s + k ELSE s + k - RingSize
    BY <1>0, <1>1, <2>1, WrapSum, RingAssumption
  <2>3. CASE r.End = 0
    BY <1>0, <2>1, <2>2, <2>3, RingAssumption DEF FreeLimited, writeStart, IsFull, Layout
  <2>4. CASE r.End # 0
    <3>1. s = IF r.End = RingSize THEN 0 ELSE r.End
      BY <1>0, <2>4 DEF writeStart
    <3> HIDE DEF s
    <3> QED BY <1>0, <2>1, <2>2, <2>4, <3>1, RingAssumption DEF FreeLimited, IsFull, min
  <2> QED BY <2>3, <2>4
<1> QED BY <1>1, <1>2

\* A ring begins empty, with nothing staged.
LEMMA Start == Init => Inv /\ Abstract!Init
<1> SUFFICES ASSUME Init PROVE Inv /\ Abstract!Init
  OBVIOUS
<1>1. Layout(ring)
  BY RingAssumption DEF Init, Layout
<1>2. Staged
  BY DEF Init, Staged
<1>3. Contents(ring) = <<>>
  BY DEF Init, Contents, IsEmpty
<1> QED BY <1>1, <1>2, <1>3 DEF Inv, Abstract!Init, Init

\* The invariant holds of every behaviour.
LEMMA InvariantHolds == Spec => []Inv
<1>1. Init => Inv
  BY Start
<1>2. Inv /\ [Next]_vars => Inv'
  BY Step
<1> QED BY <1>1, <1>2, PTL DEF Spec

-----------------------------------------------------------------------------
(* The results.                                                            *)

\* Free counts exactly the bytes a Write accepts, in every layout of a buffer of
\* any size (ring.go:249-264).
THEOREM RingFreeIsExact == Spec => []FreeIsExact
<1>1. Inv => FreeIsExact
  BY LayoutIsExact DEF Inv, FreeIsExact
<1> QED BY <1>1, InvariantHolds, PTL

\* ReadAt peeks what that many Reads would return, whatever the size of the buffer
\* and wherever its data wraps.
THEOREM RingPeeksExactly == Spec => []ReadAtMatchesRead
<1>1. Inv => ReadAtMatchesRead
  BY PeekIs DEF Inv, ReadAtMatchesRead
<1> QED BY <1>1, InvariantHolds, PTL

\* A write that FreeLimited allows never reaches the byte at the limit nor the data
\* (ring.go:37-38, 273-276).
THEOREM RingRespectsLimit == Spec => []LimitIsRespected
<1>1. Inv => LimitIsRespected
  BY LimitHolds DEF Inv, LimitIsRespected, wrap
<1> QED BY <1>1, InvariantHolds, PTL

\* The ring implements the byte queue for every size and every alphabet: any order
\* of writes, staged writes, commits, reads and discards returns the bytes in order
\* (ring.go:108-112, 227-230).
THEOREM RingIsQueue == Spec => QueueSpec
<1>1. Init => Abstract!Init
  BY Start
<1>2. Inv /\ [Next]_vars => [Abstract!Next]_<<Contents(ring), ahead, put, got>>
  BY Step
<1> QED BY <1>1, <1>2, InvariantHolds, PTL DEF Spec, QueueSpec, Abstract!Spec
=============================================================================
