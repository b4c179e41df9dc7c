--------------------------- MODULE TxQueue_proofs ---------------------------
(***************************************************************************)
(* The transmit queue keeps the stream, whatever is sent, sent again,      *)
(* acknowledged and rewound, for every size of the buffer, of the packets  *)
(* and of the sequence space.                                              *)
(***************************************************************************)
EXTENDS TxQueueBytes_proofs, WellFoundedInduction

-----------------------------------------------------------------------------
(* Acknowledgements.                                                       *)

\* A set of numbers has a least one.
LEMMA LeastOf ==
    ASSUME NEW T \in SUBSET Nat, T # {}
    PROVE  \E i \in T : \A j \in T : i <= j
<1> DEFINE less == {ss \in Nat \X Nat : ss[1] < ss[2]}
<1>1. IsWellFoundedOn(less, Nat)
  BY NatLessThanWellFounded DEF OpToRel
<1>2. \A i \in Nat, j \in Nat : i < j => <<i, j>> \in less
  OBVIOUS
<1> HIDE DEF less
<1>3. PICK i \in T : \A j \in T : ~ (<<j, i>> \in less)
  BY <1>1, WFMin, Zenon
<1>4. \A j \in T : i <= j
  <2> TAKE j \in T
  <2>1. ~(j < i) /\ i \in Nat /\ j \in Nat
    BY <1>2, <1>3, Zenon
  <2> QED BY <2>1
<1> QED BY <1>4

\* Which packets an acknowledgement covers in full.
LEMMA AckedCount ==
    ASSUME NEW x, NEW u, NEW n, NEW w, NEW o, NEW f, Holds(x, u, n, w, o, f),
           NEW pos \in Nat, u < pos, pos <= n
    PROVE  LET k == fullyAcked(x, seqOf(pos))
           IN  /\ k \in 0 .. Len(x.pkts) /\ f[k + 1] <= pos
               /\ k < Len(x.pkts) => pos < f[k + 2]
               /\ k = Len(x.pkts) => pos = n
<1>0. /\ x.pkts \in Seq(Pkt) /\ Len(x.pkts) \in Nat
      /\ u \in Nat /\ n \in Nat /\ w \in Nat /\ u <= n /\ n <= w /\ w - u <= BufSize
      /\ BufSize \in Nat /\ BufSize >= 2 /\ BufSize < Half /\ Half \in Nat
  <2>1. x \in Queue
    BY DEF Holds
  <2> QED BY <2>1, Fields, HalfDouble, TxQueueAssumption DEF Queue
<1>1. PICK L \in Nat : L = Len(x.pkts)
  BY <1>0
<1>2. ASSUME NEW i \in 1 .. L
      PROVE  LessThanEq(endSeq(x.pkts[i]), seqOf(pos)) <=> f[i + 1] <= pos
  <2>1. endSeq(x.pkts[i]) = seqOf(f[i + 1]) /\ f[i + 1] \in Nat /\ u <= f[i + 1] /\ f[i + 1] <= n
    <3>1. /\ endSeq(x.pkts[i]) = seqOf(f[i + 1]) /\ f[i] \in Nat /\ f[i + 1] \in Nat /\ u <= f[i]
          /\ f[i] < f[i + 1] /\ f[i + 1] <= n
      BY <1>1, PacketAt
    <3> QED BY <1>0, <3>1
  <2>2. PICK b \in Nat : b = f[i + 1]
    BY <2>1
  <2>3. pos - b > -Half /\ pos - b < Half
    BY <1>0, <2>1, <2>2
  <2>4. LessThanEq(seqOf(b), seqOf(pos)) <=> b <= pos
    BY <2>2, <2>3, SeqOrder
  <2> QED BY <2>1, <2>2, <2>4
<1>3. f[1] = u /\ f[L + 1] = n /\ \A i \in 1 .. L + 1 : f[i] \in Nat
  <2>1. f[1] = u /\ f[L + 1] = n /\ f \in [1 .. L + 1 -> u .. n]
    BY <1>1 DEF Holds
  <2> QED BY <1>0, <2>1
<1> DEFINE T == {j \in 0 .. L : j = L \/ pos < f[j + 2]}
           Q(j) == /\ \A i \in 1 .. j : LessThanEq(endSeq(x.pkts[i]), seqOf(pos))
                   /\ j < L => ~LessThanEq(endSeq(x.pkts[j + 1]), seqOf(pos))
<1>4. \E j \in 0 .. L : Q(j)
  <2>1. T \in SUBSET Nat /\ T # {}
    <3>1. L \in T
      BY <1>1
    <3> QED BY <1>1, <3>1
  <2>2. PICK j \in T : \A i \in T : j <= i
    <3> HIDE DEF T
    <3> QED BY <2>1, LeastOf
  <2>3. j \in 0 .. L /\ (j = L \/ pos < f[j + 2])
    BY <2>2
  <2>4. ASSUME NEW i \in 1 .. j
        PROVE  LessThanEq(endSeq(x.pkts[i]), seqOf(pos))
    <3>1. i \in 1 .. L /\ i - 1 \in 0 .. L /\ i - 1 # L /\ (i - 1) + 2 = i + 1 /\ ~(j <= i - 1)
      BY <1>1, <2>3
    <3>2. i - 1 \notin T
      BY <2>2, <3>1
    <3>3. ~(pos < f[i + 1])
      BY <3>1, <3>2
    <3>4. f[i + 1] \in Nat
      BY <1>1, <1>3, <3>1
    <3> QED BY <1>2, <3>1, <3>3, <3>4
  <2>5. ASSUME j < L
        PROVE  ~LessThanEq(endSeq(x.pkts[j + 1]), seqOf(pos))
    <3>1. j + 1 \in 1 .. L /\ (j + 1) + 1 = j + 2 /\ j # L /\ j + 2 \in 1 .. L + 1
      BY <1>1, <2>3, <2>5
    <3>2. f[j + 2] \in Nat /\ pos < f[j + 2]
      BY <1>3, <2>3, <3>1
    <3> QED BY <1>2, <3>1, <3>2
  <2> QED BY <2>3, <2>4, <2>5
<1> DEFINE k == fullyAcked(x, seqOf(pos))
<1>5. k \in 0 .. L /\ Q(k)
  BY <1>1, <1>4, Zenon DEF fullyAcked
<1> HIDE DEF k
<1>6. f[k + 1] <= pos
  <2>1. CASE k = 0
    <3>1. 0 + 1 = 1
      OBVIOUS
    <3> QED BY <1>0, <1>3, <2>1, <3>1
  <2>2. CASE k # 0
    <3>1. k \in 1 .. k /\ k \in 1 .. L
      BY <1>1, <1>5, <2>2
    <3> QED BY <1>2, <1>5, <3>1
  <2> QED BY <2>1, <2>2
<1>7. k < L => pos < f[k + 2]
  <2> SUFFICES ASSUME k < L PROVE pos < f[k + 2]
    OBVIOUS
  <2>1. k + 1 \in 1 .. L /\ (k + 1) + 1 = k + 2 /\ k + 2 \in 1 .. L + 1
    BY <1>1, <1>5
  <2>2. ~(f[k + 2] <= pos) /\ f[k + 2] \in Nat
    BY <1>2, <1>3, <1>5, <2>1
  <2> QED BY <2>2
<1>8. k = L => pos = n
  BY <1>0, <1>1, <1>3, <1>6
<1> QED BY <1>1, <1>5, <1>6, <1>7, <1>8 DEF k

\* Every packet after the last one covered in full ends past the acknowledgement.
LEMMA Beyond ==
    ASSUME NEW x, NEW u, NEW n, NEW w, NEW o, NEW f, Holds(x, u, n, w, o, f),
           NEW pos \in Nat, NEW k \in Nat, k < Len(x.pkts), pos < f[k + 2]
    PROVE  \A j \in k + 2 .. Len(x.pkts) + 1 : f[j] \in Nat /\ pos < f[j]
<1>0. /\ x.pkts \in Seq(Pkt) /\ Len(x.pkts) \in Nat /\ u \in Nat /\ n \in Nat
      /\ f \in [1 .. Len(x.pkts) + 1 -> u .. n]
  <2>1. x \in Queue
    BY DEF Holds
  <2> QED BY <2>1 DEF Queue, Holds
<1>1. PICK L \in Nat : L = Len(x.pkts)
  BY <1>0
<1> DEFINE T == {j \in k + 2 .. L + 1 : ~(pos < f[j])}
<1>2. T = {}
  <2> SUFFICES ASSUME T # {} PROVE FALSE
    OBVIOUS
  <2>1. T \in SUBSET Nat
    BY <1>1
  <2>2. PICK j \in T : \A i \in T : j <= i
    <3> HIDE DEF T
    <3> QED BY <2>1, LeastOf
  <2>3. j \in k + 2 .. L + 1 /\ ~(pos < f[j]) /\ j # k + 2
    BY <2>2
  <2>4. j - 1 \in k + 2 .. L + 1 /\ j - 1 \in 1 .. L /\ (j - 1) + 1 = j /\ ~(j <= j - 1)
    BY <1>1, <2>3
  <2>5. pos < f[j - 1]
    BY <2>2, <2>4
  <2>6. f[j - 1] \in Nat /\ f[j] \in Nat /\ f[j - 1] < f[j]
    <3>1. PICK i \in 1 .. Len(x.pkts) : i = j - 1 /\ i + 1 = j
      BY <1>1, <2>4
    <3>2. f[i] \in Nat /\ f[i + 1] \in Nat /\ f[i] < f[i + 1]
      BY PacketAt
    <3> QED BY <3>1, <3>2
  <2> QED BY <2>3, <2>5, <2>6
<1>3. \A j \in k + 2 .. L + 1 : f[j] \in Nat
  <2> TAKE j \in k + 2 .. L + 1
  <2>1. j \in 1 .. L + 1
    BY <1>1
  <2> QED BY <1>0, <1>1, <2>1, SMTT(30)
<1> QED BY <1>1, <1>2, <1>3

\* The stream's oldest byte moves from position u, at index o, to position pos, at index o2.
MovesTo(o, u, pos, w, o2) ==
    /\ o \in 0 .. BufSize - 1 /\ u \in Nat /\ pos \in Nat /\ w \in Nat
    /\ u <= pos /\ pos <= w /\ w - u <= BufSize /\ o2 = wrap(o + pos - u)

\* Counted from the new snd.UNA, a position lies where it lay.
LEMMA Rebased ==
    ASSUME NEW o, NEW u, NEW pos, NEW w, NEW o2, MovesTo(o, u, pos, w, o2), NEW a \in Nat, pos <= a, a <= w
    PROVE  /\ o2 \in 0 .. BufSize - 1
           /\ wrap(o2 + a - pos) = wrap(o + a - u)
           /\ pos < a => endAt(o2 + a - pos) = endAt(o + a - u)
<1>0. /\ o \in 0 .. BufSize - 1 /\ u \in Nat /\ pos \in Nat /\ w \in Nat
      /\ u <= pos /\ pos <= w /\ w - u <= BufSize /\ BufSize \in Nat /\ BufSize >= 2
  BY TxQueueAssumption DEF MovesTo
<1>1. \/ o + pos - u < BufSize /\ o2 = o + pos - u
      \/ o + pos - u >= BufSize /\ o2 = o + pos - u - BufSize
  BY <1>0 DEF MovesTo, wrap
<1>2. o2 \in 0 .. BufSize - 1
  BY <1>0, <1>1
<1>3. wrap(o2 + a - pos) = wrap(o + a - u)
  BY <1>0, <1>1 DEF wrap
<1>4. pos < a => endAt(o2 + a - pos) = endAt(o + a - u)
  BY <1>0, <1>1 DEF endAt
<1> QED BY <1>2, <1>3, <1>4

\* A packet beyond the acknowledgement holds what it held.
LEMMA PacketMoves ==
    ASSUME NEW o, NEW u, NEW pos, NEW w, NEW o2, MovesTo(o, u, pos, w, o2),
           NEW a \in Nat, NEW b \in Nat, pos <= a, b <= w, NEW p, packetHolds(p, o, u, a, b)
    PROVE  packetHolds(p, o2, pos, a, b)
<1>1. a < b /\ p.size = b - a /\ p.seq = seqOf(a)
      /\ wrap(p.off) = wrap(o + a - u) /\ p.end = endAt(o + b - u)
  BY DEF packetHolds
<1>2. a <= w /\ pos < b /\ pos <= b
  BY <1>1 DEF MovesTo
<1>3. wrap(o2 + a - pos) = wrap(o + a - u)
  BY <1>2, Rebased
<1>4. endAt(o2 + b - pos) = endAt(o + b - u)
  BY <1>2, Rebased
<1> QED BY <1>1, <1>3, <1>4 DEF packetHolds

\* ackPartial's packet.
shortened(p, pos, a) ==
    [off |-> addOff(p.off, pos - a, BufSize), end |-> p.end, seq |-> seqOf(pos), size |-> p.size - (pos - a)]

\* A packet acknowledged in part holds the rest (ackPartial).
LEMMA PacketShortens ==
    ASSUME NEW o, NEW u, NEW pos, NEW w, NEW o2, MovesTo(o, u, pos, w, o2),
           NEW a \in Nat, NEW b \in Nat, u <= a, a < pos, pos < b, b <= w,
           NEW p \in Pkt, packetHolds(p, o, u, a, b)
    PROVE  /\ shortened(p, pos, a) \in Pkt
           /\ packetHolds(shortened(p, pos, a), o2, pos, pos, b)
<1>0. /\ o \in 0 .. BufSize - 1 /\ u \in Nat /\ pos \in Nat /\ w \in Nat
      /\ u <= pos /\ pos <= w /\ w - u <= BufSize /\ BufSize \in Nat /\ BufSize >= 2
  BY TxQueueAssumption DEF MovesTo
<1>1. /\ p.size = b - a /\ wrap(p.off) = wrap(o + a - u) /\ p.end = endAt(o + b - u)
      /\ p.off \in 0 .. BufSize /\ p.end \in 1 .. BufSize
  BY DEF packetHolds, Pkt
<1>2. wrap(o2 + pos - pos) = wrap(o + pos - u) /\ endAt(o2 + b - pos) = endAt(o + b - u)
  <2>1. pos <= pos /\ pos <= b
    BY <1>0
  <2>2. wrap(o2 + pos - pos) = wrap(o + pos - u)
    BY <1>0, <2>1, Rebased
  <2>3. endAt(o2 + b - pos) = endAt(o + b - u)
    BY <1>0, <2>1, Rebased
  <2> QED BY <2>2, <2>3
<1>3. PICK off \in 0 .. BufSize, y \in 0 .. 2 * BufSize - 1, d \in 1 .. BufSize :
            off = p.off /\ y = o + a - u /\ d = pos - a /\ y + d = o + pos - u /\ y + d < 2 * BufSize
  BY <1>0, <1>1
<1>4. \/ y = 0 /\ (off = 0 \/ off = BufSize)
      \/ y > 0 /\ y < BufSize /\ off = y
      \/ y = BufSize /\ (off = 0 \/ off = BufSize)
      \/ y > BufSize /\ off = y - BufSize
  BY <1>1, <1>3, Unwrap
<1>5. addOff(off, d, BufSize) \in 0 .. BufSize /\ wrap(addOff(off, d, BufSize)) = wrap(y + d)
  BY <1>0, <1>3, <1>4 DEF addOff, wrap
<1>6. /\ p.size - (pos - a) = b - pos /\ b - pos \in 1 .. BufSize /\ seqOf(pos) \in Value
  <2>1. seqOf(pos) \in Value
    BY <1>0, SeqValue
  <2>2. p.size - (pos - a) = b - pos /\ b - pos \in 1 .. BufSize
    BY <1>0, <1>1
  <2> QED BY <2>1, <2>2
<1> DEFINE s == shortened(p, pos, a)
<1>7. s.off = addOff(off, d, BufSize) /\ s.end = p.end /\ s.seq = seqOf(pos) /\ s.size = b - pos
  BY <1>3, <1>6 DEF shortened
<1>8. s \in Pkt
  BY <1>1, <1>3, <1>5, <1>6 DEF shortened, Pkt
<1> HIDE DEF s
<1>9. packetHolds(s, o2, pos, pos, b)
  BY <1>1, <1>2, <1>3, <1>5, <1>7 DEF packetHolds
<1> QED BY <1>8, <1>9 DEF s

\* The packets an acknowledgement leaves.
leftOf(x, pos) ==
    ackPartial(SubSeq(x.pkts, fullyAcked(x, seqOf(pos)) + 1, Len(x.pkts)), seqOf(pos), Size(x))

\* g says where packets Q, the oldest of them at position u, lie in the stream up to n.
Laying(Q, o, u, n, g) ==
    /\ Q \in Seq(Pkt) /\ g \in [1 .. Len(Q) + 1 -> u .. n] /\ g[1] = u /\ g[Len(Q) + 1] = n
    /\ \A i \in 1 .. Len(Q) : packetHolds(Q[i], o, u, g[i], g[i + 1])

\* What is left of a list of packets.
LEMMA TailIs ==
    ASSUME NEW s \in Seq(Pkt), NEW k \in Nat, NEW l \in Nat, NEW L \in Nat, L = k + l, Len(s) = L
    PROVE  LET rest == SubSeq(s, k + 1, L)
           IN  rest \in Seq(Pkt) /\ Len(rest) = l /\ \A i \in 1 .. l : rest[i] = s[k + i]
<1>1. k + 1 \in 1 .. L + 1 /\ L \in k .. L /\ L - (k + 1) + 1 = l
  OBVIOUS
<1>2. \A i \in 1 .. l : k + 1 + i - 1 = k + i /\ k + i \in 1 .. L
  OBVIOUS
<1> QED BY <1>1, <1>2

\* The packets an acknowledgement leaves hold the stream from it on (RecvACK of sentlist).
LEMMA AckLeaves ==
    ASSUME NEW x, NEW u, NEW n, NEW w, NEW o, NEW f, Holds(x, u, n, w, o, f),
           NEW pos \in Nat, u < pos, pos <= n, NEW o2, MovesTo(o, u, pos, w, o2)
    PROVE  \E g : Laying(leftOf(x, pos), o2, pos, n, g)
<1>0. /\ x.pkts \in Seq(Pkt) /\ Len(x.pkts) \in Nat /\ Size(x) = BufSize
      /\ u \in Nat /\ n \in Nat /\ w \in Nat /\ u <= n /\ n <= w /\ w - u <= BufSize
      /\ BufSize \in Nat /\ BufSize >= 2 /\ BufSize < Half /\ Half \in Nat /\ 2 * Half = SeqMod
      /\ f \in [1 .. Len(x.pkts) + 1 -> u .. n] /\ f[Len(x.pkts) + 1] = n
  <2>1. x \in Queue
    BY DEF Holds
  <2>2. f \in [1 .. Len(x.pkts) + 1 -> u .. n] /\ f[Len(x.pkts) + 1] = n
    BY DEF Holds
  <2>3. x.pkts \in Seq(Pkt) /\ Len(x.pkts) \in Nat
    BY <2>1 DEF Queue
  <2>4. /\ Size(x) = BufSize /\ u \in Nat /\ n \in Nat /\ w \in Nat /\ u <= n /\ n <= w /\ w - u <= BufSize
    BY Fields
  <2> QED BY <2>2, <2>3, <2>4, HalfDouble, TxQueueAssumption
<1>1. PICK L \in Nat : L = Len(x.pkts)
  BY <1>0
<1>2. PICK k \in 0 .. L : /\ k = fullyAcked(x, seqOf(pos)) /\ f[k + 1] <= pos
                          /\ k < L => pos < f[k + 2]
                          /\ k = L => pos = n
  BY <1>1, AckedCount
<1>3. PICK l \in Nat : l = L - k
  BY <1>1, <1>2
<1>n. k \in Nat /\ L \in Nat /\ l \in Nat /\ L = k + l
  BY <1>1, <1>2, <1>3
<1>p. pos \in Nat /\ u \in Nat /\ n \in Nat /\ w \in Nat /\ u <= pos /\ pos <= n /\ n <= w /\ w - u <= BufSize
  BY <1>0
<1> DEFINE rest == SubSeq(x.pkts, k + 1, L)
           Q == leftOf(x, pos)
           g == [j \in 1 .. l + 1 |-> IF j = 1 THEN pos ELSE f[k + j]]
<1>4. rest \in Seq(Pkt) /\ Len(rest) = l /\ \A i \in 1 .. l : rest[i] = x.pkts[k + i]
  <2>3. x.pkts \in Seq(Pkt) /\ Len(x.pkts) = L
    BY <1>0, <1>1
  <2> QED BY <1>n, <2>3, TailIs
<1>5. Q = ackPartial(rest, seqOf(pos), BufSize)
  BY <1>0, <1>1, <1>2 DEF leftOf
<1>6. \A j \in 2 .. l + 1 : f[k + j] \in Nat /\ pos < f[k + j] /\ f[k + j] <= n
  <2> TAKE j \in 2 .. l + 1
  <2>1. k \in Nat /\ k < L /\ k + j \in k + 2 .. L + 1 /\ k + j \in 1 .. L + 1
    BY <1>n
  <2>2. f[k + j] \in Nat /\ pos < f[k + j]
    BY <1>1, <1>2, <2>1, Beyond
  <2>3. f[k + j] \in u .. n
    BY <1>0, <1>1, <2>1, SMTT(30)
  <2> QED BY <1>0, <2>2, <2>3
<1>7. g \in [1 .. l + 1 -> pos .. n] /\ g[1] = pos /\ g[l + 1] = n
  <2>1. ASSUME NEW j \in 1 .. l + 1
        PROVE  (IF j = 1 THEN pos ELSE f[k + j]) \in pos .. n
    <3>1. CASE j = 1
      BY <1>0, <3>1
    <3>2. CASE j # 1
      <4>1. j \in 2 .. l + 1
        BY <1>3, <3>2
      <4>2. f[k + j] \in Nat /\ pos < f[k + j] /\ f[k + j] <= n
        BY <1>6, <4>1
      <4>3. f[k + j] \in pos .. n
        BY <1>p, <4>2
      <4> QED BY <3>2, <4>3
    <3> QED BY <3>1, <3>2
  <2>2. g[1] = pos
    BY <1>3
  <2>3. g[l + 1] = n
    <3>1. CASE l = 0
      <4>1. k = L /\ l + 1 = 1
        BY ONLY <1>n, <3>1
      <4> QED BY <1>2, <2>2, <4>1, Zenon
    <3>2. CASE l # 0
      <4>1. l + 1 # 1 /\ k + (l + 1) = L + 1 /\ l + 1 \in 1 .. l + 1
        BY ONLY <1>n, <3>2
      <4> QED BY <1>0, <1>1, <4>1
    <3> QED BY <3>1, <3>2
  <2> QED BY <2>1, <2>2, <2>3, Zenon
<1>8. ASSUME NEW i \in 2 .. l
      PROVE  packetHolds(rest[i], o2, pos, g[i], g[i + 1])
  <2>1. /\ k + i \in 1 .. L /\ i \in 1 .. l /\ i \in 1 .. l + 1 /\ i + 1 \in 1 .. l + 1 /\ i # 1 /\ i + 1 # 1
        /\ (k + i) + 1 = k + (i + 1) /\ i \in 2 .. l + 1 /\ i + 1 \in 2 .. l + 1
    BY <1>n
  <2>2. g[i] = f[k + i] /\ g[i + 1] = f[k + (i + 1)] /\ rest[i] = x.pkts[k + i]
    BY <1>4, <2>1
  <2>3. packetHolds(x.pkts[k + i], o, u, f[k + i], f[(k + i) + 1])
    BY <1>1, <2>1 DEF Holds
  <2>4. PICK a \in Nat, b \in Nat : a = f[k + i] /\ b = f[k + (i + 1)] /\ pos <= a /\ b <= w
    <3>1. /\ f[k + i] \in Nat /\ pos < f[k + i]
          /\ f[k + (i + 1)] \in Nat /\ f[k + (i + 1)] <= n
      BY <1>6, <2>1
    <3>2. pos <= f[k + i] /\ f[k + (i + 1)] <= w
      BY <1>p, <3>1
    <3> QED BY <3>1, <3>2
  <2>5. packetHolds(x.pkts[k + i], o, u, a, b)
    BY <2>1, <2>3, <2>4
  <2>6. packetHolds(x.pkts[k + i], o2, pos, a, b)
    BY <2>4, <2>5, PacketMoves
  <2> QED BY <2>2, <2>4, <2>6, Zenon
<1>9. CASE l = 0
  <2>1. rest = <<>>
    BY <1>4, <1>9
  <2>2. Q = <<>>
    BY <1>5, <2>1 DEF ackPartial
  <2>3. Q \in Seq(Pkt) /\ Len(Q) = 0
    BY <2>2
  <2> HIDE DEF g, Q
  <2>4. Laying(Q, o2, pos, n, g)
    BY <1>7, <1>9, <2>3 DEF Laying
  <2> QED BY <2>4 DEF Q
<1>10. CASE l # 0
  <2> DEFINE p == rest[1]
  <2>0. 1 \in 1 .. l /\ k + 1 \in 1 .. L /\ (k + 1) + 1 = k + 2 /\ 1 + 1 = 2 /\ 2 \in 1 .. l + 1 /\ 2 # 1 /\ k < L
    BY <1>n, <1>10
  <2>1. p = x.pkts[k + 1] /\ p \in Pkt /\ rest # <<>>
    <3> HIDE DEF rest
    <3> QED BY <1>4, <2>0
  <2>2. PICK a \in Nat, b \in Nat : /\ a = f[k + 1] /\ b = f[k + 2] /\ u <= a /\ a <= pos /\ pos < b /\ b <= n
                                    /\ packetHolds(p, o, u, a, b)
    <3>1. f[k + 1] \in u .. n /\ f[k + 2] \in u .. n
      <4>1. k + 1 \in 1 .. L + 1 /\ k + 2 \in 1 .. L + 1
        BY <1>n, <2>0
      <4> QED BY <1>0, <1>1, <4>1, Zenon
    <3>2. packetHolds(x.pkts[k + 1], o, u, f[k + 1], f[(k + 1) + 1])
      BY <1>1, <2>0 DEF Holds
    <3>3. packetHolds(p, o, u, f[k + 1], f[k + 2])
      BY <2>0, <2>1, <3>2
    <3>4. f[k + 1] \in Nat /\ f[k + 2] \in Nat /\ u <= f[k + 1] /\ f[k + 2] <= n
      BY <1>p, <3>1
    <3> HIDE DEF p
    <3> QED BY <1>2, <2>0, <3>3, <3>4
  <2>3. g[1] = pos /\ g[1 + 1] = b
    BY <1>7, <2>0, <2>2
  <2>4. p.seq = seqOf(a) /\ Sizeof(p.seq, seqOf(pos)) = pos - a /\ ~LessThan(seqOf(pos), p.seq)
    <3>1. p.seq = seqOf(a)
      BY <2>2, Zenon DEF packetHolds
    <3>2. pos - a > -SeqMod /\ pos - a < SeqMod /\ a - pos > -Half /\ a - pos < Half
      <4>1. a \in Nat /\ u <= a /\ a <= pos
        BY <2>2
      <4>2. BufSize \in Nat /\ BufSize < Half /\ Half \in Nat /\ 2 * Half = SeqMod
        BY <1>0
      <4> QED BY ONLY <1>p, <4>1, <4>2
    <3>3. Sizeof(seqOf(a), seqOf(pos)) = pos - a
      BY <2>2, <3>2, SeqDist
    <3>4. ~LessThan(seqOf(pos), seqOf(a))
      BY <2>2, <3>2, SeqOrder
    <3> QED BY <3>1, <3>3, <3>4, Zenon
  <2>5. b <= w /\ a \in Nat /\ b \in Nat
    BY <1>0, <2>2
  <2>6. CASE a = pos
    <3>1. Q = rest
      <4>1. pos - a = 0
        BY <1>p, <2>6
      <4>2. Sizeof(p.seq, seqOf(pos)) = 0
        BY <2>4, <4>1, Zenon
      <4> QED BY <1>5, <4>2, Zenon DEF ackPartial
    <3>2. packetHolds(p, o2, pos, pos, b)
      <4> HIDE DEF p
      <4>1. packetHolds(p, o, u, a, b) /\ pos <= a
        BY <2>2, <2>6
      <4>2. packetHolds(p, o2, pos, a, b)
        BY <2>5, <4>1, PacketMoves
      <4> QED BY <2>6, <4>2
    <3>3. ASSUME NEW i \in 1 .. l PROVE packetHolds(rest[i], o2, pos, g[i], g[i + 1])
      <4>1. CASE i = 1
        BY <2>3, <3>2, <4>1, Zenon
      <4>2. CASE i # 1
        <5>1. i \in 2 .. l
          BY <1>3, <4>2
        <5> QED BY <1>8, <5>1, Zenon
      <4> QED BY <4>1, <4>2, Zenon
    <3> HIDE DEF g, rest, Q
    <3>4. Laying(Q, o2, pos, n, g)
      BY <1>4, <1>7, <3>1, <3>3 DEF Laying
    <3> QED BY <3>4 DEF Q
  <2>7. CASE a # pos
    <3> DEFINE s == shortened(p, pos, a)
    <3>1. Q = [rest EXCEPT ![1] = s]
      <4>1. pos - a # 0
        BY <2>2, <2>7
      <4> HIDE DEF rest
      <4> QED BY <1>5, <2>1, <2>4, <4>1, Zenon DEF ackPartial, shortened
    <3>2. s \in Pkt /\ packetHolds(s, o2, pos, pos, b)
      <4>1. a < pos
        BY <2>2, <2>7
      <4> QED BY <2>1, <2>2, <2>5, <4>1, PacketShortens
    <3> HIDE DEF s
    <3>3. Q \in Seq(Pkt) /\ Len(Q) = l /\ Q[1] = s /\ \A i \in 2 .. l : Q[i] = rest[i]
      <4> HIDE DEF rest, Q
      <4> QED BY <1>3, <1>4, <2>0, <3>1, <3>2
    <3>4. ASSUME NEW i \in 1 .. l PROVE packetHolds(Q[i], o2, pos, g[i], g[i + 1])
      <4>1. CASE i = 1
        BY <2>3, <3>2, <3>3, <4>1
      <4>2. CASE i # 1
        <5>1. i \in 2 .. l
          BY <1>3, <4>2
        <5> QED BY <1>8, <3>3, <5>1, Zenon
      <4> QED BY <4>1, <4>2
    <3> HIDE DEF g, rest, Q
    <3>5. Laying(Q, o2, pos, n, g)
      BY <1>7, <3>3, <3>4, Zenon DEF Laying
    <3> QED BY <3>5 DEF Q
  <2> QED BY <2>6, <2>7
<1> QED BY <1>9, <1>10

\* RecvACK keeps what is not acknowledged.
LEMMA AckHolds ==
    ASSUME NEW x, NEW u, NEW n, NEW w, NEW o, NEW f, Holds(x, u, n, w, o, f),
           NEW pos \in Nat, u < pos, pos <= n
    PROVE  \E o2, g : Holds(RecvACK(x, seqOf(pos)).q, pos, n, w, o2, g)
<1>0. /\ BufSize \in Nat /\ BufSize >= 2 /\ BufSize < Half /\ Half \in Nat
      /\ u \in Nat /\ n \in Nat /\ w \in Nat /\ u <= n /\ n <= w /\ w - u <= BufSize
      /\ o \in 0 .. BufSize - 1 /\ x.rawbuf \in [1 .. BufSize -> Int]
      /\ wrap(x.unsentoff) = wrap(o + n - u)
      /\ x.unsentend = IF w = n THEN 0 ELSE endAt(o + w - u)
  BY Fields, HalfDouble, TxQueueAssumption
<1>1. /\ x \in Queue /\ x.pkts \in Seq(Pkt) /\ Len(x.pkts) \in Nat
      /\ x.sentoff \in 0 .. BufSize /\ x.unsentoff \in 0 .. BufSize /\ x.ssn \in Value
  <2>1. x \in Queue
    BY DEF Holds
  <2> QED BY <2>1 DEF Queue
<1>2. x.pkts # <<>> /\ Len(x.pkts) # 0 /\ Len(x.pkts) \in 1 .. Len(x.pkts)
  <2>1. x.pkts # <<>>
    BY <1>0, SentSpan
  <2> QED BY <1>1, <2>1
<1>3. ~LessThan(endSeq(Newest(x)), seqOf(pos))
  <2>1. endSeq(x.pkts[Len(x.pkts)]) = seqOf(f[Len(x.pkts) + 1])
    BY <1>2, PacketAt
  <2>2. f[Len(x.pkts) + 1] = n
    BY DEF Holds
  <2>3. pos - n > -Half /\ pos - n < Half /\ ~(n < pos)
    BY <1>0
  <2>4. ~LessThan(seqOf(n), seqOf(pos))
    BY <1>0, <2>3, SeqOrder
  <2> QED BY <2>1, <2>2, <2>4 DEF Newest
<1>4. PICK o2 : MovesTo(o, u, pos, w, o2)
  BY <1>0 DEF MovesTo
<1>5. PICK g : Laying(leftOf(x, pos), o2, pos, n, g)
  BY <1>4, AckLeaves
<1> DEFINE Q == leftOf(x, pos)
           k == fullyAcked(x, seqOf(pos))
           ssn == IF k = 0 THEN x.ssn ELSE endSeq(x.pkts[k])
           none == Q = <<>>
           gone == none /\ x.unsentend = 0
           so == IF gone THEN 0 ELSE IF none THEN x.sentoff ELSE Q[1].off
           se == IF none THEN 0 ELSE Q[Len(Q)].end
           uo == IF gone THEN 0 ELSE x.unsentoff
           y == [x EXCEPT !.pkts = Q, !.ssn = ssn, !.sentoff = so, !.sentend = se, !.unsentoff = uo]
<1>6. RecvACK(x, seqOf(pos)).q = y
  <2>1. RecvACK(x, seqOf(pos)) = Ret(y, "nil")
    BY <1>2, <1>3, Zenon DEF RecvACK, leftOf
  <2> HIDE DEF y
  <2> QED BY <2>1 DEF Ret
<1>7. ssn \in Value
  <2>1. CASE k = 0
    BY <1>1, <2>1
  <2>2. CASE k # 0
    <3>1. k \in 1 .. Len(x.pkts)
      <4>1. k \in 0 .. Len(x.pkts)
        BY AckedCount
      <4> HIDE DEF k
      <4> QED BY <1>1, <2>2, <4>1
    <3> HIDE DEF k
    <3>2. endSeq(x.pkts[k]) = seqOf(f[k + 1]) /\ f[k + 1] \in Nat
      BY <3>1, PacketAt
    <3> QED BY <2>2, <3>2, SeqValue
  <2> QED BY <2>1, <2>2
<1> HIDE DEF Q, ssn
<1>8. /\ Q \in Seq(Pkt) /\ g \in [1 .. Len(Q) + 1 -> pos .. n] /\ g[1] = pos /\ g[Len(Q) + 1] = n
      /\ \A i \in 1 .. Len(Q) : packetHolds(Q[i], o2, pos, g[i], g[i + 1])
      /\ Len(Q) \in Nat
  BY <1>5 DEF Laying, Q
<1>9. ~none => /\ Q[1] \in Pkt /\ Q[Len(Q)] \in Pkt /\ Q[1].off \in 0 .. BufSize
               /\ Q[Len(Q)].end \in 0 .. BufSize
  <2>1. ~none => 1 \in 1 .. Len(Q) /\ Len(Q) \in 1 .. Len(Q)
    BY <1>8
  <2>2. ~none => Q[1] \in Pkt /\ Q[Len(Q)] \in Pkt
    BY <1>8, <2>1
  <2>3. \A p \in Pkt : p.off \in 0 .. BufSize /\ p.end \in 0 .. BufSize
    BY <1>0 DEF Pkt
  <2> QED BY <2>2, <2>3
<1>10. so \in 0 .. BufSize /\ se \in 0 .. BufSize /\ uo \in 0 .. BufSize
  BY <1>0, <1>1, <1>9
<1>11. /\ y \in Queue /\ y.pkts = Q /\ y.sentoff = so /\ y.sentend = se /\ y.unsentoff = uo
       /\ y.unsentend = x.unsentend /\ y.rawbuf = x.rawbuf
  <2> HIDE DEF so, se, uo
  <2> QED BY <1>1, <1>7, <1>8, <1>10, Zenon DEF Queue
<1>12. IF Q = <<>> THEN y.sentend = 0 ELSE y.sentoff = Q[1].off /\ y.sentend = Q[Len(Q)].end
  BY <1>11
<1>13. gone => uo = 0
  OBVIOUS
<1>14. ~gone => uo = x.unsentoff
  OBVIOUS
<1> HIDE DEF y, so, se, uo, k
<1>15. w - pos <= BufSize /\ pos <= n
  BY <1>0
<1>16. CASE gone
  <2>1. w = n
    <3>1. w # n => o + w - u \in Nat /\ o + w - u >= 1
      BY <1>0
    <3>2. ASSUME NEW z \in Nat, z >= 1 PROVE endAt(z) # 0
      BY <1>0, <3>2 DEF endAt
    <3> QED BY <1>0, <1>16, <3>1, <3>2
  <2>2. Len(Q) = 0 /\ pos = n
    <3>1. Len(Q) = 0
      BY <1>16
    <3>2. Len(Q) + 1 = 1
      BY <3>1
    <3> QED BY <1>8, <3>1, <3>2
  <2>3. /\ 0 \in 0 .. BufSize - 1 /\ 0 + n - pos = 0 /\ (0 .. w - pos - 1) = {}
    BY <1>0, <2>1, <2>2
  <2>4. Holds(y, pos, n, w, 0, g)
    <3>1. \A i \in 1 .. Len(Q) : packetHolds(Q[i], 0, pos, g[i], g[i + 1])
      BY <2>2
    <3>2. wrap(y.unsentoff) = wrap(0 + n - pos) /\ y.unsentend = 0
      BY <1>11, <1>13, <1>16, <2>3
    <3>3. Q = <<>>
      BY <1>16
    <3>4. \A d \in 0 .. w - pos - 1 : y.rawbuf[wrap(0 + d) + 1] = pos + d
      BY <2>3
    <3> QED BY <1>0, <1>8, <1>11, <1>12, <1>15, <2>1, <2>3, <3>1, <3>2, <3>3, <3>4, SMTT(30) DEF Holds
  <2> QED BY <1>6, <2>4
<1>17. CASE ~gone
  <2>1. o2 \in 0 .. BufSize - 1 /\ wrap(o2 + n - pos) = wrap(o + n - u)
    BY <1>0, <1>4, Rebased, SMTT(30)
  <2>2. w # n => endAt(o2 + w - pos) = endAt(o + w - u)
    <3>1. w # n => pos <= w /\ pos < w /\ w <= w
      BY <1>0
    <3>2. w \in Nat
      BY <1>0
    <3> QED BY <1>4, <3>1, <3>2, Rebased
  <2>3. ASSUME NEW d \in 0 .. w - pos - 1 PROVE y.rawbuf[wrap(o2 + d) + 1] = pos + d
    <3>0. d \in Nat /\ d <= w - pos - 1 /\ w \in Nat
      BY <1>0
    <3>1. PICK a \in Nat : a = pos + d /\ pos <= a /\ a < w /\ a <= w
      BY <3>0
    <3>2. wrap(o2 + a - pos) = wrap(o + a - u)
      BY <1>4, <3>1, Rebased
    <3>3. PICK e \in 0 .. w - u - 1 : e = a - u
      <4>1. u \in Nat /\ w \in Nat /\ u <= pos
        BY <1>0
      <4>2. a - u \in 0 .. w - u - 1
        BY <3>1, <4>1
      <4> QED BY <4>2
    <3>4. x.rawbuf[wrap(o + e) + 1] = u + e
      BY DEF Holds
    <3>5. o + e = o + a - u /\ u + e = pos + d /\ o2 + a - pos = o2 + d
      <4>1. o \in Int /\ u \in Int /\ o2 \in Int /\ pos \in Int /\ d \in Int
        BY <1>0, <2>1, <3>0
      <4> QED BY ONLY <3>1, <3>3, <4>1
    <3> QED BY <1>11, <3>2, <3>4, <3>5
  <2>4. Q # <<>> /\ w = n => y.unsentoff # 0
    <3>1. w = n => x.unsentoff # 0
      BY <1>2 DEF Holds
    <3> QED BY <1>11, <1>14, <1>17, <3>1
  <2>5. wrap(y.unsentoff) = wrap(o2 + n - pos) /\ y.unsentend = IF w = n THEN 0 ELSE endAt(o2 + w - pos)
    BY <1>0, <1>11, <1>14, <1>17, <2>1, <2>2
  <2>6. Holds(y, pos, n, w, o2, g)
    BY <1>0, <1>8, <1>11, <1>12, <1>15, <2>1, <2>3, <2>4, <2>5, SMTT(30) DEF Holds
  <2> QED BY <1>6, <2>6
<1> QED BY <1>16, <1>17

-----------------------------------------------------------------------------
(* Rewinding.                                                              *)

\* RetransmitFrom at snd.UNA makes all that was sent unsent again.
LEMMA RewindHolds ==
    ASSUME NEW x, NEW u, NEW n, NEW w, NEW o, NEW f, Holds(x, u, n, w, o, f)
    PROVE  \E g : Holds(RetransmitFrom(x, seqOf(u)), u, u, w, o, g)
<1>0. /\ BufSize \in Nat /\ BufSize >= 2 /\ BufSize < Half /\ Half \in Nat
      /\ u \in Nat /\ n \in Nat /\ w \in Nat /\ u <= n /\ n <= w /\ w - u <= BufSize
      /\ o \in 0 .. BufSize - 1 /\ x.rawbuf \in [1 .. BufSize -> Int]
      /\ x.unsentend = IF w = n THEN 0 ELSE endAt(o + w - u)
  BY Fields, HalfDouble, TxQueueAssumption
<1>1. /\ x \in Queue /\ x.pkts \in Seq(Pkt) /\ Len(x.pkts) \in Nat
      /\ x.sentend \in 0 .. BufSize /\ x.unsentend \in 0 .. BufSize
  <2>1. x \in Queue
    BY Zenon DEF Holds
  <2>2. x.pkts \in Seq(Pkt) /\ x.sentend \in 0 .. BufSize /\ x.unsentend \in 0 .. BufSize
    BY <2>1, SMTT(20) DEF Queue
  <2> QED BY <2>1, <2>2
<1> DEFINE covers == {i \in DOMAIN x.pkts : /\ LessThanEq(x.pkts[i].seq, seqOf(u))
                                            /\ LessThan(seqOf(u), endSeq(x.pkts[i]))}
           i0 == packetContaining(x, seqOf(u))
<1>2. i0 = IF covers = {} THEN 0 ELSE CHOOSE i \in covers : \A j \in covers : i <= j
  BY DEF packetContaining
<1>3. DOMAIN x.pkts = 1 .. Len(x.pkts)
  <2>1. x.pkts \in Seq(Pkt)
    BY <1>1, Zenon
  <2> QED BY ONLY <2>1
<1>4. CASE x.pkts = <<>>
  <2>1. covers = {}
    <3>1. 1 .. Len(x.pkts) = {}
      BY <1>4
    <3> QED BY <1>3, <3>1, Zenon
  <2>2. i0 = 0
    BY <1>2, <2>1
  <2>3. RetransmitFrom(x, seqOf(u)) = x /\ n = u
    BY <1>4, <2>2, SentSpan DEF RetransmitFrom
  <2> QED BY <2>3
<1>5. CASE x.pkts # <<>>
  <2>1. u < n /\ 1 \in 1 .. Len(x.pkts) /\ x.sentend = endAt(o + n - u) /\ x.sentend # 0
    BY <1>1, <1>5, SentSpan
  <2>2. /\ x.pkts[1] \in Pkt /\ x.pkts[1].seq = seqOf(u) /\ wrap(x.pkts[1].off) = wrap(o + u - u)
        /\ f[1] = u /\ x.sentoff = x.pkts[1].off
    <3>1. f[1] = u /\ x.sentoff = x.pkts[1].off /\ packetHolds(x.pkts[1], o, u, f[1], f[1 + 1])
      BY <1>5, <2>1 DEF Holds
    <3>2. x.pkts[1] \in Pkt
      BY <1>1, <2>1
    <3> QED BY <3>1, <3>2 DEF packetHolds
  <2>3. 1 \in covers /\ covers \subseteq Nat /\ \A j \in covers : 1 <= j
    <3>1. PICK b \in Nat : b = f[1 + 1] /\ endSeq(x.pkts[1]) = seqOf(b) /\ u < b /\ b <= n
      <4>1. /\ f[1 + 1] \in Nat /\ f[1] < f[1 + 1] /\ f[1 + 1] <= n
            /\ endSeq(x.pkts[1]) = seqOf(f[1 + 1])
        BY <2>1, PacketAt
      <4> QED BY <2>2, <4>1, Zenon
    <3>2. LessThan(seqOf(u), seqOf(b))
      <4>1. b - u > -Half /\ b - u < Half
        BY <1>0, <3>1
      <4> QED BY <1>0, <3>1, <4>1, SeqOrder
    <3>3. LessThanEq(x.pkts[1].seq, seqOf(u))
      BY <2>2 DEF LessThanEq
    <3> QED BY <1>1, <1>3, <2>1, <3>1, <3>2, <3>3
  <2>4. i0 = 1
    <3> HIDE DEF covers
    <3>1. \A i \in covers : (\A j \in covers : i <= j) => i = 1
      BY <2>3
    <3> HIDE DEF i0
    <3> QED BY <1>2, <2>3, <3>1
  <2> DEFINE p == x.pkts[1]
             ue == IF x.unsentend = 0 THEN x.sentend ELSE x.unsentend
             y == [x EXCEPT !.sentoff = 0, !.sentend = 0, !.unsentoff = p.off, !.unsentend = ue,
                            !.pkts = <<>>, !.ssn = p.seq]
  <2>5. RetransmitFrom(x, seqOf(u)) = y
    <3>1. SubSeq(x.pkts, 1, 1 - 1) = <<>>
      BY <1>1
    <3>2. 1 # 0
      OBVIOUS
    <3>3. RetransmitFrom(x, seqOf(u)) =
            [x EXCEPT !.sentoff = IF p.off = x.sentoff THEN 0 ELSE @,
                      !.sentend = IF p.off = x.sentoff THEN 0 ELSE p.off,
                      !.unsentoff = p.off,
                      !.unsentend = IF @ = 0 THEN x.sentend ELSE @,
                      !.pkts = SubSeq(@, 1, 1 - 1),
                      !.ssn = IF 1 = 1 THEN p.seq ELSE @]
      BY <2>4, <3>2, Zenon DEF RetransmitFrom
    <3> QED BY <2>2, <3>1, <3>3, Zenon
  <2>6. p.off \in 0 .. BufSize /\ p.seq \in Value /\ ue \in 0 .. BufSize /\ <<>> \in Seq(Pkt) /\ 0 \in 0 .. BufSize
    BY <1>0, <1>1, <2>2 DEF Pkt
  <2> HIDE DEF p, ue
  <2>7. /\ y \in Queue /\ y.pkts = <<>> /\ y.sentoff = 0 /\ y.sentend = 0 /\ y.unsentoff = p.off
        /\ y.unsentend = ue /\ y.rawbuf = x.rawbuf
    BY <1>1, <2>6, Zenon DEF Queue
  <2> HIDE DEF y
  <2>8. ue = IF w = u THEN 0 ELSE endAt(o + w - u)
    <3>1. w # u /\ w - u >= 1
      BY <1>0, <2>1
    <3>2. w # n => endAt(o + w - u) # 0
      <4>1. PICK z \in Nat : z = o + w - u /\ z >= 1
        BY <1>0, <3>1
      <4>2. endAt(z) # 0
        BY <1>0, <4>1 DEF endAt
      <4> QED BY <4>1, <4>2
    <3> QED BY <1>0, <2>1, <3>1, <3>2 DEF ue
  <2> DEFINE g == [i \in 1 .. 1 |-> u]
  <2>9. g \in [1 .. 1 -> u .. u] /\ g[1] = u
    BY <1>0
  <2>10. Len(y.pkts) = 0 /\ 0 + 1 = 1 /\ (1 .. 0) = {} /\ wrap(y.unsentoff) = wrap(o + u - u)
    BY <2>2, <2>7 DEF p
  <2>11. \A d \in 0 .. w - u - 1 : y.rawbuf[wrap(o + d) + 1] = u + d
    BY <2>7 DEF Holds
  <2> HIDE DEF g
  <2>12. u <= u /\ u <= w
    BY <1>0
  <2>13. Holds(y, u, u, w, o, g)
    BY <1>0, <2>7, <2>8, <2>9, <2>10, <2>11, <2>12 DEF Holds
  <2> QED BY <2>5, <2>13
<1> QED BY <1>4, <1>5

\* Between two packets nothing is out of place.
LEMMA NothingOk ==
    /\ Nothing.pos \in Nat /\ Nothing.data \in Seq(Int) /\ Nothing.err \notin {"panic", "bug"}
    /\ Nothing.data = stream(Nothing.pos, Nothing.pos + Len(Nothing.data))
<1>1. Nothing.pos = 0 /\ Nothing.data = <<>> /\ Nothing.err = "nil"
  BY DEF Nothing
<1>2. stream(0, 0 + Len(<<>>)) = <<>>
  <2>1. Len(<<>>) = 0 /\ 0 + 0 = 0
    OBVIOUS
  <2>2. /\ stream(0, 0 + 0) \in Seq(Int) /\ Len(stream(0, 0 + 0)) = 0
    BY StreamIs
  <2> HIDE DEF stream
  <2> QED BY <2>1, <2>2
<1> QED BY <1>1, <1>2

-----------------------------------------------------------------------------
(* The specification.                                                      *)

\* A queue that Reset leaves holds the empty stream.
LEMMA InitInv == Init => Inv
<1> SUFFICES ASSUME Init PROVE Inv
  OBVIOUS
<1>0. BufSize \in Nat /\ BufSize >= 2 /\ MaxPkts \in Nat /\ ISS \in Value
  BY TxQueueAssumption
<1> DEFINE f == [i \in 1 .. 1 |-> 0]
           buf == [i \in 1 .. BufSize |-> -1]
<1>1. /\ q.rawbuf = buf /\ q.pkts = <<>> /\ q.sentend = 0 /\ q.unsentoff = 0 /\ q.unsentend = 0
  BY DEF Init, NewTx
<1>2. q \in Queue
  <2>1. buf \in [1 .. BufSize -> Int] /\ 0 \in 0 .. BufSize /\ <<>> \in Seq(Pkt)
    BY <1>0
  <2> HIDE DEF buf
  <2>2. q = NewTx(buf, MaxPkts, ISS)
    BY DEF Init, buf
  <2> QED BY <1>0, <2>1, <2>2 DEF NewTx, Queue
<1>3. /\ f \in [1 .. 1 -> 0 .. 0] /\ f[1] = 0 /\ Len(q.pkts) = 0 /\ 0 + 1 = 1 /\ (1 .. 0) = {}
      /\ wrap(q.unsentoff) = wrap(0 + 0 - 0) /\ (0 .. 0 - 0 - 1) = {} /\ 0 \in 0 .. BufSize - 1
      /\ 0 \in Nat /\ 0 <= 0 /\ 0 - 0 <= BufSize
  BY <1>0, <1>1
<1> HIDE DEF f
<1>4. Holds(q, 0, 0, 0, 0, f)
  BY <1>1, <1>2, <1>3 DEF Holds
<1>5. sent = Nothing
  BY DEF Init
<1>6. SentOk
  BY <1>5, NothingOk DEF SentOk, PacketsCarryTheirBytes
<1>7. una = 0 /\ nxt = 0 /\ written = 0
  BY DEF Init
<1> QED BY <1>4, <1>6, <1>7 DEF Inv

\* Every operation of the Handler on the queue keeps it.
LEMMA NextInv == Inv /\ [Next]_vars => Inv'
<1> SUFFICES ASSUME Inv, [Next]_vars PROVE Inv'
  OBVIOUS
<1>1. PICK o, f : Holds(q, una, nxt, written, o, f)
  BY DEF Inv
<1>2. SentOk /\ una \in Nat /\ nxt \in Nat
  BY <1>1 DEF Inv, Holds
<1>3. sent' = Nothing => SentOk'
  BY NothingOk DEF SentOk, PacketsCarryTheirBytes
<1>4. ASSUME NEW n \in 1 .. BufSize, AppWrite(n) PROVE Inv'
  <2>1. Holds(Write(q, stream(written, written + n)).q, una, nxt, written + n, o, f)
    BY <1>1, <1>4, WriteHolds DEF AppWrite
  <2>2. Holds(q', una', nxt', written', o, f)
    BY <1>4, <2>1, Zenon DEF AppWrite
  <2>3. SentOk'
    BY <1>3, <1>4 DEF AppWrite
  <2> QED BY <2>2, <2>3 DEF Inv
<1>5. ASSUME NEW n \in 1 .. MSS, SendNext(n) PROVE Inv'
  <2> DEFINE p == MakePacket(q, n, seqOf(nxt))
  <2>1. n \in Nat /\ n >= 1
    BY TxQueueAssumption
  <2>2. SentFrom(p, una, nxt, written, o)
    BY <1>1, <2>1, SendNextHolds
  <2>3. /\ q' = p.q /\ sent' = [pos |-> nxt, data |-> p.data, err |-> p.err]
        /\ nxt' = nxt + Len(p.data) /\ una' = una /\ written' = written
    BY <1>5 DEF SendNext
  <2> HIDE DEF p
  <2>4. \E g : Holds(q', una', nxt', written', o, g)
    BY <2>2, <2>3, Zenon DEF SentFrom
  <2>5. SentOk'
    BY <1>2, <2>2, <2>3 DEF SentFrom, SentOk, PacketsCarryTheirBytes
  <2> QED BY <2>4, <2>5 DEF Inv
<1>6. ASSUME NEW n \in 1 .. MSS, SendAgain(n) PROVE Inv'
  <2> DEFINE p == MakePacket(q, n, seqOf(una))
  <2>1. n \in Nat /\ n >= 1
    BY TxQueueAssumption
  <2>2. una < nxt /\ q' = p.q /\ sent' = [pos |-> una, data |-> p.data, err |-> p.err]
        /\ nxt' = nxt /\ una' = una /\ written' = written
    BY <1>6 DEF SendAgain
  <2>3. /\ p.q = q /\ p.err \in {"nil", "full"} /\ p.data \in Seq(Int)
        /\ p.data = stream(una, una + Len(p.data))
    BY <1>1, <2>1, <2>2, SendAgainIs
  <2> HIDE DEF p
  <2>4. Holds(q', una', nxt', written', o, f)
    BY <1>1, <2>2, <2>3, Zenon
  <2>5. SentOk'
    BY <1>2, <2>2, <2>3 DEF SentOk, PacketsCarryTheirBytes
  <2> QED BY <2>4, <2>5 DEF Inv
<1>7. ASSUME NEW pos \in una + 1 .. nxt, Ack(pos) PROVE Inv'
  <2>1. pos \in Nat /\ una < pos /\ pos <= nxt
    BY <1>2
  <2>2. \E o2, g : Holds(RecvACK(q, seqOf(pos)).q, pos, nxt, written, o2, g)
    BY <1>1, <2>1, AckHolds
  <2>3. \E o2, g : Holds(q', una', nxt', written', o2, g)
    BY <1>7, <2>2, Zenon DEF Ack
  <2>4. SentOk'
    BY <1>3, <1>7 DEF Ack
  <2> QED BY <2>3, <2>4 DEF Inv
<1>8. ASSUME Rewind PROVE Inv'
  <2>1. \E g : Holds(RetransmitFrom(q, seqOf(una)), una, una, written, o, g)
    BY <1>1, RewindHolds
  <2>2. \E g : Holds(q', una', nxt', written', o, g)
    BY <1>8, <2>1, Zenon DEF Rewind
  <2>3. SentOk'
    BY <1>3, <1>8 DEF Rewind
  <2> QED BY <2>2, <2>3 DEF Inv
<1>9. CASE UNCHANGED vars
  <2>1. Holds(q', una', nxt', written', o, f)
    BY <1>1, <1>9, Zenon DEF vars
  <2>2. SentOk'
    BY <1>2, <1>9 DEF vars, SentOk, PacketsCarryTheirBytes
  <2> QED BY <2>1, <2>2 DEF Inv
<1> QED BY <1>4, <1>5, <1>6, <1>7, <1>8, <1>9 DEF Next

\* In every state the bytes kept for retransmission and those not sent yet are the
\* stream from snd.UNA on, and Write takes just what Free promises, whatever the sizes
\* of the buffer, the packets and the sequence space (txqueue.go:84, handler.go:542-543).
THEOREM TxStreamIntact == Spec => []StreamIntact
<1>1. Inv => StreamIntact
  <2> SUFFICES ASSUME Inv PROVE StreamIntact
    OBVIOUS
  <2>1. PICK o, f : Holds(q, una, nxt, written, o, f)
    BY DEF Inv
  <2> QED BY <2>1, HoldsIntact DEF StreamIntact
<1> QED BY <1>1, InitInv, NextInv, PTL DEF Spec

\* Every packet MakePacket fills, a retransmission included, carries the bytes of its
\* sequence number, and neither the panic of AddPacket nor a packet that MakePacket
\* misses is reachable (txqueue.go:136, 154, 388).
THEOREM TxPacketsCarryTheirBytes == Spec => []PacketsCarryTheirBytes
<1>1. Inv => PacketsCarryTheirBytes
  BY DEF Inv, SentOk
<1> QED BY <1>1, InitInv, NextInv, PTL DEF Spec
=============================================================================
