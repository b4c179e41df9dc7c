----------------------------- MODULE Link_proofs -----------------------------
(***************************************************************************)
(* The hosts of a link know no wrong hardware address, and their caches    *)
(* give up an answer or a query they owe only when nothing else can go:    *)
(* for any hosts, addresses, sizes of the caches and tables, losses and    *)
(* repetitions, over ARP and over neighbour discovery.                     *)
(***************************************************************************)
EXTENDS Link, WellFoundedInduction, TLAPS

-----------------------------------------------------------------------------
(* Places in sequences.                                                    *)

\* A set of numbers has a least one.
LEMMA LeastOf ==
    ASSUME NEW T \in SUBSET Nat, T # {}
    PROVE  \E i \in T : \A j \in T : i <= j
<1> DEFINE less == {ss \in Nat \X Nat : ss[1] < ss[2]}
<1>1. IsWellFoundedOn(less, Nat)
  BY NatLessThanWellFounded DEF OpToRel
<1>2. \A i \in Nat, j \in Nat : i < j => <<i, j>> \in less
  OBVIOUS
<1> HIDE DEF less
<1>3. PICK i \in T : \A j \in T : ~ (<<j, i>> \in less)
  BY <1>1, WFMin, Zenon
<1>4. \A j \in T : i <= j
  <2> TAKE j \in T
  <2>1. ~(j < i) /\ i \in Nat /\ j \in Nat
    BY <1>2, <1>3, Zenon
  <2> QED BY <2>1
<1> QED BY <1>4

LEMMA FirstIs ==
    ASSUME NEW T \in SUBSET Nat
    PROVE  first(T) # 0 \/ T # {} => first(T) \in T
<1> SUFFICES ASSUME T # {}
             PROVE  first(T) \in T
  BY DEF first
<1>1. PICK i \in T : \A j \in T : i <= j
  BY LeastOf
<1> QED BY <1>1, Zenon DEF first

-----------------------------------------------------------------------------
(* The cache.                                                              *)

EntryFields == {"addr", "mac", "age", "flags"}

\* A query that is not sent yet is not answered either.
EntryOk(e) ==
    /\ DOMAIN e = EntryFields /\ e.age \in 0 .. maxAge
    /\ "PendingQuery" \in e.flags => "Incomplete" \in e.flags

CacheOk(c) == Len(c) \in Nat /\ DOMAIN c = 1 .. Len(c) /\ \A i \in DOMAIN c : EntryOk(c[i])

\* What the entry knows is a pair of O.
Tells(e, O) == inUse(e) /\ "Incomplete" \notin e.flags => <<e.addr, e.mac>> \in O

Knows(c, O) == \A i \in DOMAIN c : Tells(c[i], O)

\* No duty of c is given up in d while something else could go.
DutyStays(c, d) ==
    \A i \in DOMAIN c : duty(c[i]) /\ evicted(c[i], d[i]) => \A j \in DOMAIN c : inUse(c[j]) /\ ~passive(c[j])

\* The cache may become d.
CacheStep(c, d, O) == CacheOk(d) /\ Knows(d, O) /\ DutyStays(c, d)

LEMMA LookupIs ==
    ASSUME NEW c, CacheOk(c), NEW a, Lookup(c, a) # 0
    PROVE  Lookup(c, a) \in DOMAIN c /\ inUse(c[Lookup(c, a)]) /\ c[Lookup(c, a)].addr = a
<1> DEFINE T == {i \in DOMAIN c : inUse(c[i]) /\ c[i].addr = a}
<1>1. Lookup(c, a) = first(T)
  BY DEF Lookup
<1>2. T \in SUBSET Nat
  BY DEF CacheOk
<1>3. first(T) \in T
  <2> HIDE DEF T
  <2> QED BY <1>1, <1>2, FirstIs
<1> QED BY <1>1, <1>3

LEMMA AgedIs ==
    ASSUME NEW c, CacheOk(c)
    PROVE  /\ Len(aged(c)) = Len(c) /\ DOMAIN aged(c) = DOMAIN c
           /\ \A i \in DOMAIN c :
                /\ EntryOk(aged(c)[i]) /\ aged(c)[i].flags = c[i].flags
                /\ aged(c)[i].addr = c[i].addr /\ aged(c)[i].mac = c[i].mac
<1>1. Len(aged(c)) = Len(c) /\ DOMAIN aged(c) = DOMAIN c
  BY DEF aged, CacheOk
<1> SUFFICES ASSUME NEW i \in DOMAIN c
             PROVE  /\ EntryOk(aged(c)[i]) /\ aged(c)[i].flags = c[i].flags
                    /\ aged(c)[i].addr = c[i].addr /\ aged(c)[i].mac = c[i].mac
  BY <1>1
<1>2. aged(c)[i] = IF inUse(c[i]) /\ c[i].age < maxAge THEN [c[i] EXCEPT !.age = @ + 1] ELSE c[i]
  BY DEF aged
<1>3. EntryOk(c[i])
  BY DEF CacheOk
<1> QED BY <1>2, <1>3, MaxAgeAssumption DEF EntryOk, EntryFields

\* The oldest of some entries is one of them.
LEMMA OldestIs ==
    ASSUME NEW c, CacheOk(c), NEW T \in SUBSET DOMAIN c, T # {}
    PROVE  oldest(c, T) \in T
<1>1. \A i \in T : i \in Nat /\ c[i].age \in 0 .. maxAge
  BY DEF CacheOk, EntryOk
<1> DEFINE left == {maxAge - c[i].age : i \in T}
<1>2. left \in SUBSET Nat /\ left # {}
  BY <1>1, MaxAgeAssumption
<1>3. PICK a \in left : \A b \in left : a <= b
  <2> HIDE DEF left
  <2> QED BY <1>2, LeastOf
<1> DEFINE old == {i \in T : maxAge - c[i].age = a}
<1>4. old \in SUBSET Nat /\ old # {}
  BY <1>1
<1>5. PICK i \in old : \A j \in old : i <= j
  <2> HIDE DEF old
  <2> QED BY <1>4, LeastOf
<1>6. ASSUME NEW j \in T \ {i}
      PROVE  c[i].age > c[j].age \/ (c[i].age = c[j].age /\ i < j)
  <2>1. maxAge - c[i].age = a /\ i \in T /\ a <= maxAge - c[j].age
    BY <1>3, <1>5
  <2>2. maxAge - c[j].age = a => i <= j
    BY <1>5
  <2> QED BY <1>1, <2>1, <2>2, MaxAgeAssumption
<1>7. \E k \in T : \A j \in T \ {k} : c[k].age > c[j].age \/ (c[k].age = c[j].age /\ k < j)
  BY <1>5, <1>6
<1> QED BY <1>7 DEF oldest

\* A new entry takes a place that is free or passive where there is one (cache.acquireNext).
LEMMA NextIs ==
    ASSUME NEW c, CacheOk(c), next(c) \in DOMAIN c, inUse(c[next(c)]), ~passive(c[next(c)])
    PROVE  \A j \in DOMAIN c : inUse(c[j]) /\ ~passive(c[j])
<1> DEFINE unused == {i \in DOMAIN c : ~inUse(c[i])}
           yields == {i \in DOMAIN c : passive(c[i])}
<1>1. next(c) = IF unused # {} THEN first(unused)
                ELSE oldest(c, IF yields # {} THEN yields ELSE DOMAIN c)
  BY DEF next
<1>2. unused \in SUBSET Nat
  BY DEF CacheOk
<1>3. unused # {} => next(c) \in unused
  <2> SUFFICES ASSUME unused # {}
               PROVE  next(c) \in unused
    OBVIOUS
  <2>1. first(unused) \in unused
    <3> HIDE DEF unused
    <3> QED BY <1>2, FirstIs
  <2> QED BY <1>1, <2>1
<1>4. unused = {}
  BY <1>3
<1>5. yields # {} => next(c) \in yields
  <2> SUFFICES ASSUME yields # {}
               PROVE  next(c) \in yields
    OBVIOUS
  <2>1. yields \in SUBSET DOMAIN c
    OBVIOUS
  <2>2. next(c) = oldest(c, yields)
    BY <1>1, <1>4
  <2> HIDE DEF yields
  <2> QED BY <2>1, <2>2, OldestIs
<1>6. yields = {}
  BY <1>5
<1> QED BY <1>4, <1>6

\* Another entry is put in (StartQuery, CacheSeed and a request that is owed a response).
LEMMA Acquired ==
    ASSUME NEW c, NEW O, CacheOk(c), Knows(c, O), NEW e, EntryOk(e), Tells(e, O)
    PROVE  CacheStep(c, acquireNext(c, e), O)
<1> DEFINE d == acquireNext(c, e)
<1>1. d = [aged(c) EXCEPT ![next(c)] = e]
  BY DEF acquireNext
<1>2. /\ Len(d) = Len(c) /\ DOMAIN d = DOMAIN c
      /\ \A i \in DOMAIN c : d[i] = IF i = next(c) THEN e ELSE aged(c)[i]
  BY <1>1, AgedIs DEF CacheOk
<1> HIDE DEF d
<1>3. CacheOk(d)
  BY <1>2, AgedIs DEF CacheOk
<1>4. Knows(d, O)
  BY <1>2, AgedIs DEF Knows, Tells, inUse
<1>5. DutyStays(c, d)
  <2> SUFFICES ASSUME NEW i \in DOMAIN c, duty(c[i]), evicted(c[i], d[i])
               PROVE  \A j \in DOMAIN c : inUse(c[j]) /\ ~passive(c[j])
    BY DEF DutyStays
  <2>1. i = next(c)
    BY <1>2, AgedIs DEF evicted
  <2>2. inUse(c[i]) /\ ~passive(c[i])
    BY DEF duty, passive, priorityFlags, CacheOk, EntryOk
  <2> QED BY <2>1, <2>2, NextIs
<1> QED BY <1>3, <1>4, <1>5 DEF CacheStep, d

\* Entries that become unused, or keep their address and lose flags, give nothing up.
LEMMA Kept ==
    ASSUME NEW c, NEW d, NEW O, CacheOk(c), Knows(c, O), Len(d) = Len(c), DOMAIN d = DOMAIN c,
           \A i \in DOMAIN c :
              /\ EntryOk(d[i]) /\ Tells(d[i], O)
              /\ inUse(d[i]) => d[i].addr = c[i].addr /\ d[i].flags \subseteq c[i].flags
    PROVE  CacheStep(c, d, O)
<1>1. DutyStays(c, d)
  BY DEF DutyStays, evicted
<1> QED BY <1>1 DEF CacheStep, CacheOk, Knows

LEMMA Unchanged ==
    ASSUME NEW c, NEW O, CacheOk(c), Knows(c, O)
    PROVE  CacheStep(c, c, O)
BY Kept DEF CacheOk, Knows

LEMMA Removed ==
    ASSUME NEW c, NEW O, CacheOk(c), Knows(c, O), NEW a
    PROVE  CacheStep(c, CacheRemove(c, a), O)
<1> DEFINE d == [c EXCEPT ![Lookup(c, a)] = Unused]
<1>1. /\ Len(d) = Len(c) /\ DOMAIN d = DOMAIN c
      /\ \A i \in DOMAIN c : d[i] = IF i = Lookup(c, a) THEN Unused ELSE c[i]
  BY DEF CacheOk
<1>2. EntryOk(Unused) /\ ~inUse(Unused)
  BY MaxAgeAssumption DEF Unused, EntryOk, EntryFields, inUse
<1> HIDE DEF d
<1>3. CacheStep(c, d, O)
  BY <1>1, <1>2, Kept DEF CacheOk, Knows, Tells
<1> QED BY <1>3, Unchanged DEF CacheRemove, d

\* The queries and the responses that are pending go (AbortPending).
LEMMA Aborted ==
    ASSUME NEW c, NEW O, CacheOk(c), Knows(c, O)
    PROVE  CacheStep(c, AbortPending(c), O)
<1> DEFINE d == AbortPending(c)
           has == {"PendingResponse", "Incomplete"}
<1>1. /\ Len(d) = Len(c) /\ DOMAIN d = DOMAIN c
      /\ \A i \in DOMAIN c :
            d[i] = IF c[i].flags \cap has = {} THEN c[i] ELSE [c[i] EXCEPT !.flags = @ \ {"InUse"}]
  BY DEF AbortPending, clearFlags, CacheOk
<1> HIDE DEF d
<1>2. ASSUME NEW i \in DOMAIN c
      PROVE  /\ EntryOk(d[i]) /\ Tells(d[i], O)
             /\ inUse(d[i]) => d[i].addr = c[i].addr /\ d[i].flags \subseteq c[i].flags
  <2>1. EntryOk(c[i]) /\ Tells(c[i], O)
    BY DEF CacheOk, Knows
  <2>2. CASE c[i].flags \cap has = {}
    BY <1>1, <2>1, <2>2
  <2>3. CASE c[i].flags \cap has # {}
    <3>1. d[i] = [c[i] EXCEPT !.flags = @ \ {"InUse"}]
      BY <1>1, <2>3
    <3>2. d[i].flags = c[i].flags \ {"InUse"} /\ DOMAIN d[i] = EntryFields /\ d[i].age = c[i].age
      BY <2>1, <3>1 DEF EntryOk, EntryFields
    <3> QED BY <2>1, <3>2 DEF EntryOk, Tells, inUse
  <2> QED BY <2>2, <2>3
<1> QED BY <1>1, <1>2, Kept DEF d

\* One entry loses flags that do not make it known: its query or response is sent.
LEMMA Sent ==
    ASSUME NEW c, NEW O, CacheOk(c), Knows(c, O), NEW k, NEW gone \in {"PendingResponse", "PendingQuery"}
    PROVE  CacheStep(c, [c EXCEPT ![k].flags = @ \ {gone}], O)
<1> DEFINE d == [c EXCEPT ![k].flags = @ \ {gone}]
<1>1. /\ Len(d) = Len(c) /\ DOMAIN d = DOMAIN c
      /\ \A i \in DOMAIN c : d[i] = IF i = k THEN [c[i] EXCEPT !.flags = @ \ {gone}] ELSE c[i]
  <2> DEFINE v == [c[k] EXCEPT !.flags = @ \ {gone}]
  <2>1. d = [c EXCEPT ![k] = v]
    OBVIOUS
  <2> HIDE DEF v, d
  <2>2. /\ Len(d) = Len(c) /\ DOMAIN d = DOMAIN c
        /\ \A i \in DOMAIN c : d[i] = IF i = k THEN v ELSE c[i]
    BY <2>1 DEF CacheOk
  <2> QED BY <2>2, Zenon DEF v
<1> HIDE DEF d
<1>2. ASSUME NEW i \in DOMAIN c
      PROVE  /\ EntryOk(d[i]) /\ Tells(d[i], O)
             /\ inUse(d[i]) => d[i].addr = c[i].addr /\ d[i].flags \subseteq c[i].flags
  <2>1. EntryOk(c[i]) /\ Tells(c[i], O)
    BY DEF CacheOk, Knows
  <2>2. CASE i = k
    <3>1. d[i] = [c[i] EXCEPT !.flags = @ \ {gone}]
      BY <1>1, <2>2
    <3>2. /\ d[i].flags = c[i].flags \ {gone} /\ DOMAIN d[i] = EntryFields
          /\ d[i].age = c[i].age /\ d[i].addr = c[i].addr /\ d[i].mac = c[i].mac
      BY <2>1, <3>1 DEF EntryOk, EntryFields
    <3> QED BY <2>1, <3>2 DEF EntryOk, Tells, inUse
  <2> QED BY <1>1, <2>1, <2>2
<1> QED BY <1>1, <1>2, Kept, Zenon DEF d

\* The first entry for an address is answered (arp.Handler.Demux, Client.demuxNDP).
LEMMA Filled ==
    ASSUME NEW c, NEW O, CacheOk(c), Knows(c, O), NEW a, NEW mac, <<a, mac>> \in O, Lookup(c, a) # 0
    PROVE  CacheStep(c, [c EXCEPT ![Lookup(c, a)].mac = mac,
                                  ![Lookup(c, a)].flags = @ \ {"Incomplete", "PendingQuery"}], O)
<1> DEFINE k == Lookup(c, a)
           gone == {"Incomplete", "PendingQuery"}
           d == [c EXCEPT ![k].mac = mac, ![k].flags = @ \ gone]
<1>0. k \in DOMAIN c /\ inUse(c[k]) /\ c[k].addr = a
  BY LookupIs
<1> HIDE DEF k
<1>1. /\ Len(d) = Len(c) /\ DOMAIN d = DOMAIN c
      /\ \A i \in DOMAIN c : d[i] = IF i = k THEN [c[i] EXCEPT !.mac = mac, !.flags = @ \ gone] ELSE c[i]
  <2> DEFINE v == [c[k] EXCEPT !.mac = mac, !.flags = @ \ gone]
  <2>1. d = [c EXCEPT ![k] = v]
    BY <1>0, Zenon
  <2> HIDE DEF v, d
  <2>2. /\ Len(d) = Len(c) /\ DOMAIN d = DOMAIN c
        /\ \A i \in DOMAIN c : d[i] = IF i = k THEN v ELSE c[i]
    BY <2>1 DEF CacheOk
  <2> QED BY <2>2, Zenon DEF v
<1> HIDE DEF d
<1>2. ASSUME NEW i \in DOMAIN c
      PROVE  /\ EntryOk(d[i]) /\ Tells(d[i], O)
             /\ inUse(d[i]) => d[i].addr = c[i].addr /\ d[i].flags \subseteq c[i].flags
  <2>1. EntryOk(c[i]) /\ Tells(c[i], O)
    BY DEF CacheOk, Knows
  <2>2. CASE i = k
    <3>1. d[i] = [c[i] EXCEPT !.mac = mac, !.flags = @ \ gone]
      BY <1>1, <2>2, Zenon
    <3>2. /\ d[i].flags = c[i].flags \ gone /\ DOMAIN d[i] = EntryFields
          /\ d[i].age = c[i].age /\ d[i].addr = c[i].addr /\ d[i].mac = mac
      BY <2>1, <3>1 DEF EntryOk, EntryFields
    <3> QED BY <1>0, <2>1, <2>2, <3>2 DEF EntryOk, Tells, inUse
  <2> QED BY <1>1, <2>1, <2>2, Zenon
<1> QED BY <1>1, <1>2, Kept, Zenon DEF d, k

-----------------------------------------------------------------------------
(* What ARP and neighbour discovery do to the cache.                       *)

LEMMA UseOk ==
    ASSUME NEW mac, NEW a, NEW flags, "PendingQuery" \in flags => "Incomplete" \in flags
    PROVE  EntryOk(use(mac, a, flags))
BY MaxAgeAssumption DEF use, EntryOk, EntryFields

LEMMA Queried ==
    ASSUME NEW c, NEW O, CacheOk(c), Knows(c, O), NEW a, NEW b
    PROVE  CacheStep(c, StartQuery(c, a, b), O) /\ CacheStep(c, NDPStartQuery(c, a, b), O)
<1> DEFINE flags == {"Incomplete", "PendingQuery", "Priority"} \cup IF b THEN {"Callback"} ELSE {}
<1>1. EntryOk(use(ZeroMAC, a, flags))
  BY UseOk
<1>2. Tells(use(ZeroMAC, a, flags), O)
  BY DEF Tells, use
<1> QED BY <1>1, <1>2, Acquired DEF StartQuery, NDPStartQuery, ndpAcquireNext, ndpUse

\* The entry of a host that has the address.
LEMMA Noted ==
    ASSUME NEW c, NEW O, CacheOk(c), Knows(c, O), NEW a, NEW mac, <<a, mac>> \in O,
           NEW flags \in {{}, {"PendingResponse"}}
    PROVE  CacheStep(c, acquireNext(c, use(mac, a, flags)), O)
<1>1. EntryOk(use(mac, a, flags))
  BY UseOk
<1>2. Tells(use(mac, a, flags), O)
  BY DEF Tells, use
<1> QED BY <1>1, <1>2, Acquired

LEMMA Seeded ==
    ASSUME NEW c, NEW O, CacheOk(c), Knows(c, O), NEW a, NEW mac, <<a, mac>> \in O
    PROVE  CacheStep(c, CacheSeed(c, a, mac), O) /\ CacheStep(c, NDPCacheSeed(c, a, mac), O)
BY Noted, Unchanged DEF CacheSeed, NDPCacheSeed, ndpAcquireNext, ndpUse

LEMMA Encapsulated ==
    ASSUME NEW c, NEW O, CacheOk(c), Knows(c, O)
    PROVE  CacheStep(c, Encapsulate(c), O) /\ CacheStep(c, encapsNDP(c), O)
<1>1. CacheStep(c, Encapsulate(c), O)
  <2> DEFINE gone == IF answers(c[due(c)]) THEN "PendingResponse" ELSE "PendingQuery"
  <2>1. gone \in {"PendingResponse", "PendingQuery"} /\ Encapsulate(c) = [c EXCEPT ![due(c)].flags = @ \ {gone}]
    BY Zenon DEF Encapsulate
  <2> HIDE DEF gone
  <2>2. CacheStep(c, [c EXCEPT ![due(c)].flags = @ \ {gone}], O)
    BY <2>1, Sent, Zenon
  <2> QED BY <2>1, <2>2, Zenon
<1>2. CacheStep(c, encapsNDP(c), O)
  <2> DEFINE gone == IF "PendingResponse" \in c[ndpDue(c)].flags THEN "PendingResponse" ELSE "PendingQuery"
  <2>1. gone \in {"PendingResponse", "PendingQuery"} /\ encapsNDP(c) = [c EXCEPT ![ndpDue(c)].flags = @ \ {gone}]
    BY Zenon DEF encapsNDP
  <2> HIDE DEF gone
  <2>2. CacheStep(c, [c EXCEPT ![ndpDue(c)].flags = @ \ {gone}], O)
    BY <2>1, Sent, Zenon
  <2> QED BY <2>1, <2>2, Zenon
<1> QED BY <1>1, <1>2

LEMMA Demuxed ==
    ASSUME NEW c, NEW O, CacheOk(c), Knows(c, O), NEW our, NEW f, <<f.sip, f.shw>> \in O
    PROVE  CacheStep(c, Demux(c, our, f), O)
<1>1. CacheStep(c, filled(c, f), O)
  BY Filled, Unchanged, Zenon DEF filled
<1>2. CacheStep(c, acquireNext(c, use(f.shw, f.sip, {"PendingResponse"})), O)
  BY Noted
<1> QED BY <1>1, <1>2, Unchanged DEF Demux

LEMMA DemuxedNDP ==
    ASSUME NEW c, NEW O, CacheOk(c), Knows(c, O), NEW our, NEW f, <<f.sip, f.shw>> \in O,
           f.op # "request" => <<f.tip, f.shw>> \in O
    PROVE  CacheStep(c, demuxNDP(c, our, f), O)
<1>1. CacheStep(c, acquireNext(c, use(f.shw, f.sip, {"PendingResponse"})), O)
  BY Noted
<1>2. CASE f.op = "request"
  BY <1>1, <1>2, Unchanged DEF demuxNDP, ndpAcquireNext, ndpUse
<1>3. CASE f.op # "request"
  BY <1>3, Filled, Unchanged, Zenon DEF demuxNDP, ndpLookup
<1> QED BY <1>2, <1>3

\* The hardware address a lookup finds is one that had the address.
LEMMA Found ==
    ASSUME NEW c, NEW O, CacheOk(c), Knows(c, O), NEW a
    PROVE  /\ CacheLookup(c, a).err = "nil" => <<a, CacheLookup(c, a).mac>> \in O
           /\ NDPCacheLookup(c, a) = CacheLookup(c, a)
<1>1. NDPCacheLookup(c, a) = CacheLookup(c, a)
  BY DEF NDPCacheLookup, CacheLookup, ndpLookup
<1>2. ASSUME CacheLookup(c, a).err = "nil"
      PROVE  <<a, CacheLookup(c, a).mac>> \in O
  <2> DEFINE k == Lookup(c, a)
  <2>1. k # 0 /\ "Incomplete" \notin c[k].flags /\ CacheLookup(c, a).mac = c[k].mac
    BY <1>2 DEF CacheLookup
  <2>2. k \in DOMAIN c /\ inUse(c[k]) /\ c[k].addr = a
    BY <2>1, LookupIs
  <2> QED BY <2>1, <2>2 DEF Knows, Tells
<1> QED BY <1>1, <1>2

-----------------------------------------------------------------------------
(* Connections and the tables of those that wait.                          *)

\* The connection sends to a host that had the address, to the gateway, or not at all.
ConnOk(c, O) ==
    /\ DOMAIN c = {"ip", "mac", "st"}
    /\ c.mac = NilMAC \/ <<c.ip, c.mac>> \in O \/ (c.mac = ZeroMAC /\ c.st \in {"dial", "failed"})

Conns(cs, O) == Len(cs) \in Nat /\ DOMAIN cs = 1 .. Len(cs) /\ \A i \in DOMAIN cs : ConnOk(cs[i], O)

\* The buffer buf, which waits for ip, is that of a connection to ip.
Awaited(buf, ip, cs) == buf # 0 => buf \in DOMAIN cs /\ cs[buf].ip = ip

Learnt(p, O) ==
    /\ Len(p) \in Nat /\ DOMAIN p = 1 .. Len(p)
    /\ \A i \in DOMAIN p : (p[i].ip = NoAddr /\ p[i].mac = ZeroMAC) \/ <<p[i].ip, p[i].mac>> \in O

Pending(p, cs) ==
    /\ Len(p) \in Nat /\ DOMAIN p = 1 .. Len(p)
    /\ \A i \in DOMAIN p : DOMAIN p[i] = {"buf", "ip", "age"} /\ Awaited(p[i].buf, p[i].ip, cs)

Pending6(p, cs) ==
    /\ Len(p) \in Nat /\ DOMAIN p = 1 .. Len(p)
    /\ \A i \in DOMAIN p : Awaited(p[i].buf, p[i].addr, cs)

Table(six, t, cs, O) ==
    IF six THEN Pending6(t, cs)
    ELSE DOMAIN t = {"passive", "pending"} /\ Learnt(t.passive, O) /\ Pending(t.pending, cs)

\* The buffer is that of a connection to ip.
Buffer(buf, ip, cs) == buf \in DOMAIN cs /\ cs[buf].ip = ip

\* The connections of ds are those of cs and more.
Extends(cs, ds) == \A i \in DOMAIN cs : i \in DOMAIN ds /\ ds[i].ip = cs[i].ip

LEMMA TableKept ==
    ASSUME NEW six, NEW t, NEW cs, NEW ds, NEW O, NEW Q, Table(six, t, cs, O), Extends(cs, ds), O \subseteq Q
    PROVE  Table(six, t, ds, Q)
<1>1. \A p : Pending(p, cs) => Pending(p, ds)
  BY DEF Pending, Awaited, Extends
<1>2. \A p : Pending6(p, cs) => Pending6(p, ds)
  BY DEF Pending6, Awaited, Extends
<1>3. \A p : Learnt(p, O) => Learnt(p, Q)
  BY DEF Learnt
<1> QED BY <1>1, <1>2, <1>3, Zenon DEF Table

LEMMA ConnsKept ==
    ASSUME NEW cs, NEW O, NEW Q, Conns(cs, O), O \subseteq Q
    PROVE  Conns(cs, Q)
BY DEF Conns, ConnOk

LEMMA ConnAdded ==
    ASSUME NEW cs, NEW O, Conns(cs, O), NEW c, ConnOk(c, O)
    PROVE  /\ Conns(Append(cs, c), O) /\ Extends(cs, Append(cs, c))
           /\ Len(cs) + 1 \in DOMAIN Append(cs, c) /\ Append(cs, c)[Len(cs) + 1] = c
BY DEF Conns, Extends

\* What a resolution for a connection to ip leaves, when ds are the connections with it.
ResolvedOk(six, r, c, ds, ip, O) ==
    /\ CacheStep(c, r.cache, O) /\ Table(six, r.tab, ds, O)
    /\ r.mac = NilMAC \/ r.mac = ZeroMAC \/ <<ip, r.mac>> \in O

\* A connection is dialled (hwDynamicResolve): ds are the connections with it.
LEMMA Resolves ==
    ASSUME NEW c, NEW O, CacheOk(c), Knows(c, O), NEW cs, NEW ds, Extends(cs, ds), NEW t,
           Table(FALSE, t, cs, O), NEW subnet, NEW buf, NEW ip, Buffer(buf, ip, ds)
    PROVE  ResolvedOk(FALSE, hwDynamicResolve(t, c, subnet, buf, ip), c, ds, ip, O)
<1> DEFINE r == hwDynamicResolve(t, c, subnet, buf, ip)
           q == startQuery(t, c, buf, ip)
<1>1. Table(FALSE, t, ds, O) /\ CacheStep(c, c, O)
  BY TableKept, Unchanged, Zenon
<1>2. DOMAIN t = {"passive", "pending"} /\ Learnt(t.passive, O) /\ Pending(t.pending, ds)
  BY <1>1 DEF Table
<1>3. /\ CacheStep(c, q.cache, O) /\ Table(FALSE, q.tab, ds, O)
      /\ q.mac = ZeroMAC \/ <<ip, q.mac>> \in O
  <2>1. CASE learnt(t, ip) # 0
    <3> DEFINE T == {i \in DOMAIN t.passive : t.passive[i].ip = ip}
               k == learnt(t, ip)
    <3>1. k = first(T)
      BY DEF learnt
    <3>2. T \in SUBSET Nat
      BY <1>2 DEF Learnt
    <3>3. k \in T
      <4> HIDE DEF T
      <4> QED BY <2>1, <3>1, <3>2, FirstIs
    <3>4. k \in DOMAIN t.passive /\ t.passive[k].ip = ip
      BY <1>2, <3>3 DEF Learnt
    <3>5. t.passive[k].mac = ZeroMAC \/ <<ip, t.passive[k].mac>> \in O
      BY <1>2, <3>4 DEF Learnt
    <3>6. q.cache = c /\ q.tab = t /\ q.mac = t.passive[k].mac
      BY <2>1 DEF startQuery, Resolved
    <3> QED BY <1>1, <3>5, <3>6, Zenon
  <2>2. CASE learnt(t, ip) = 0
    <3> DEFINE p == awaits(t.pending, buf, ip)
    <3>1. /\ q.mac = ZeroMAC /\ q.cache = StartQuery(c, ip, TRUE)
          /\ q.tab = [t EXCEPT !.pending = p]
      BY <2>2, Zenon DEF startQuery, Resolved
    <3>2. DOMAIN q.tab = {"passive", "pending"} /\ q.tab.passive = t.passive /\ q.tab.pending = p
      <4> HIDE DEF p, q
      <4> QED BY <1>2, <3>1
    <3>3. Pending(p, ds)
      <4> DEFINE old == t.pending
                 o == [i \in DOMAIN old |-> [old[i] EXCEPT !.age = @ + 1]]
                 e == [buf |-> buf, ip |-> ip, age |-> 1]
      <4>1. Len(old) \in Nat /\ DOMAIN old = 1 .. Len(old)
        BY <1>2 DEF Pending
      <4>2. /\ Len(o) = Len(old) /\ DOMAIN o = DOMAIN old
            /\ \A i \in DOMAIN old : o[i] = [old[i] EXCEPT !.age = @ + 1]
        BY <4>1
      <4>3. ASSUME NEW i \in DOMAIN old
            PROVE  DOMAIN o[i] = {"buf", "ip", "age"} /\ o[i].buf = old[i].buf /\ o[i].ip = old[i].ip
        <5>1. DOMAIN old[i] = {"buf", "ip", "age"}
          BY <1>2 DEF Pending
        <5>2. o[i] = [old[i] EXCEPT !.age = @ + 1]
          BY <4>2
        <5> HIDE DEF o, old
        <5> QED BY <5>1, <5>2
      <4>4. p = [o EXCEPT ![slot(old)] = e]
        BY DEF awaits
      <4> HIDE DEF o, e, p
      <4>5. /\ Len(p) = Len(old) /\ DOMAIN p = DOMAIN old
            /\ \A i \in DOMAIN old : p[i] = IF i = slot(old) THEN e ELSE o[i]
        BY <4>1, <4>2, <4>4
      <4>6. DOMAIN e = {"buf", "ip", "age"} /\ Awaited(e.buf, e.ip, ds)
        BY DEF e, Awaited, Buffer
      <4>7. \A i \in DOMAIN old : Awaited(old[i].buf, old[i].ip, ds)
        BY <1>2 DEF Pending
      <4> HIDE DEF old
      <4> QED BY <4>1, <4>3, <4>5, <4>6, <4>7 DEF Pending
    <3>4. Table(FALSE, q.tab, ds, O)
      BY <1>2, <3>2, <3>3, Zenon DEF Table
    <3>5. CacheStep(c, StartQuery(c, ip, TRUE), O)
      BY Queried, Zenon
    <3> HIDE DEF q
    <3> QED BY <3>1, <3>4, <3>5, Zenon
  <2> QED BY <2>1, <2>2, Zenon
<1>4. CASE ~Pfx!Contains(subnet, ip)
  <2>1. r.mac = NilMAC /\ r.cache = c /\ r.tab = t
    BY <1>4 DEF hwDynamicResolve, Resolved
  <2> QED BY <1>1, <2>1, Zenon DEF ResolvedOk
<1>5. CASE Pfx!Contains(subnet, ip) /\ CacheLookup(c, ip).err = "nil"
  <2>1. r.mac = CacheLookup(c, ip).mac /\ r.cache = c /\ r.tab = t
    BY <1>5 DEF hwDynamicResolve, Resolved
  <2> QED BY <1>1, <1>5, <2>1, Found, Zenon DEF ResolvedOk
<1>6. CASE Pfx!Contains(subnet, ip) /\ CacheLookup(c, ip).err # "nil"
  <2>1. r = q
    BY <1>6, Zenon DEF hwDynamicResolve
  <2> HIDE DEF q
  <2> QED BY <1>3, <2>1, Zenon DEF ResolvedOk
<1> QED BY <1>4, <1>5, <1>6, Zenon

\* The same for IPv6 (ndpDynamicResolve).
LEMMA Resolves6 ==
    ASSUME NEW c, NEW O, CacheOk(c), Knows(c, O), NEW cs, NEW ds, Extends(cs, ds), NEW t,
           Table(TRUE, t, cs, O), NEW buf, NEW ip, Buffer(buf, ip, ds)
    PROVE  ResolvedOk(TRUE, ndpDynamicResolve(t, c, buf, ip), c, ds, ip, O)
<1> DEFINE r == ndpDynamicResolve(t, c, buf, ip)
           k == first({j \in DOMAIN t : t[j].buf = 0})
           e6 == [buf |-> buf, addr |-> ip]
           u == [t EXCEPT ![k] = e6]
<1>1. Table(TRUE, t, ds, O) /\ CacheStep(c, c, O) /\ CacheStep(c, NDPStartQuery(c, ip, TRUE), O)
  BY TableKept, Unchanged, Queried, Zenon
<1>2. Table(TRUE, u, ds, O)
  <2>1. Pending6(t, ds)
    BY <1>1 DEF Table
  <2>2. Awaited(e6.buf, e6.addr, ds)
    BY DEF Awaited, Buffer
  <2> HIDE DEF k, e6
  <2>3. /\ Len(u) = Len(t) /\ DOMAIN u = DOMAIN t
        /\ \A i \in DOMAIN t : u[i] = IF i = k THEN e6 ELSE t[i]
    BY <2>1 DEF Pending6
  <2> HIDE DEF u
  <2>4. Pending6(u, ds)
    BY <2>1, <2>2, <2>3 DEF Pending6
  <2> QED BY <2>4 DEF Table
<1>3. CASE NDPCacheLookup(c, ip).err = "nil"
  <2>1. r.mac = CacheLookup(c, ip).mac /\ r.cache = c /\ r.tab = t
    BY <1>3, Found, Zenon DEF ndpDynamicResolve
  <2>2. <<ip, CacheLookup(c, ip).mac>> \in O
    BY <1>3, Found
  <2> QED BY <1>1, <2>1, <2>2, Zenon DEF ResolvedOk
<1>4. CASE NDPCacheLookup(c, ip).err # "nil"
  <2>1. r.mac = ZeroMAC /\ r.cache = NDPStartQuery(c, ip, TRUE) /\ r.tab \in {t, u}
    BY <1>4, Zenon DEF ndpDynamicResolve
  <2> HIDE DEF u
  <2> QED BY <1>1, <1>2, <2>1, Zenon DEF ResolvedOk
<1> QED BY <1>3, <1>4, Zenon

\* Buffers that are in use are those of connections to ip.
Named(bufs, ip, cs) == \A i \in bufs : i \in DOMAIN cs => cs[i].ip = ip

\* The buffers of connections to ip are filled with the hardware address of a host that had ip.
LEMMA FilledConns ==
    ASSUME NEW cs, NEW O, Conns(cs, O), NEW bufs, NEW ip, NEW mac, <<ip, mac>> \in O, Named(bufs, ip, cs)
    PROVE  Conns(fills(cs, bufs, mac), O) /\ Extends(cs, fills(cs, bufs, mac))
<1> DEFINE ds == fills(cs, bufs, mac)
<1>1. /\ Len(ds) = Len(cs) /\ DOMAIN ds = DOMAIN cs
      /\ \A i \in DOMAIN cs : ds[i] = IF i \in bufs THEN [cs[i] EXCEPT !.mac = mac] ELSE cs[i]
  BY DEF fills, Conns
<1> HIDE DEF ds
<1>2. ASSUME NEW i \in DOMAIN cs
      PROVE  ConnOk(ds[i], O) /\ ds[i].ip = cs[i].ip
  <2>1. ConnOk(cs[i], O)
    BY DEF Conns
  <2>2. CASE i \in bufs
    <3>1. ds[i] = [cs[i] EXCEPT !.mac = mac]
      BY <1>1, <2>2
    <3>2. DOMAIN ds[i] = {"ip", "mac", "st"} /\ ds[i].ip = cs[i].ip /\ ds[i].mac = mac
      BY <2>1, <3>1 DEF ConnOk
    <3> QED BY <2>2, <3>2 DEF ConnOk, Named
  <2> QED BY <1>1, <2>1, <2>2
<1>3. Conns(ds, O)
  BY <1>1, <1>2 DEF Conns
<1>4. Extends(cs, ds)
  BY <1>1, <1>2 DEF Extends
<1> QED BY <1>3, <1>4 DEF ds

\* A table of pending queries of which some slots are free again.
LEMMA Freed ==
    ASSUME NEW p, NEW q, NEW cs, Pending(p, cs), Len(q) = Len(p), DOMAIN q = DOMAIN p,
           \A i \in DOMAIN p : q[i] = p[i] \/ q[i] = [buf |-> 0, ip |-> NoAddr, age |-> 0]
    PROVE  Pending(q, cs)
<1>1. ASSUME NEW i \in DOMAIN p
      PROVE  DOMAIN q[i] = {"buf", "ip", "age"} /\ Awaited(q[i].buf, q[i].ip, cs)
  <2>1. CASE q[i] = p[i]
    BY <2>1 DEF Pending
  <2>2. CASE q[i] = [buf |-> 0, ip |-> NoAddr, age |-> 0]
    BY <2>2 DEF Awaited
  <2> QED BY <2>1, <2>2
<1> QED BY <1>1 DEF Pending

\* The query for ip is answered (onResolve).
LEMMA Answered ==
    ASSUME NEW t, NEW cs, NEW O, Conns(cs, O), Table(FALSE, t, cs, O), NEW ip
    PROVE  /\ Table(FALSE, released(t, ip), cs, O)
           /\ Named(waiting(t, ip), ip, cs)
<1> DEFINE T == {j \in DOMAIN t.pending : t.pending[j].ip = ip}
           k == first(T)
<1>1. DOMAIN t = {"passive", "pending"} /\ Learnt(t.passive, O) /\ Pending(t.pending, cs)
  BY DEF Table
<1>2. k # 0 => k \in DOMAIN t.pending /\ t.pending[k].ip = ip
  <2>1. T \in SUBSET Nat
    BY <1>1 DEF Pending
  <2>2. k # 0 => k \in T
    <3> HIDE DEF T
    <3> QED BY <2>1, FirstIs
  <2> QED BY <2>2
<1>3. released(t, ip) = (IF k = 0 THEN t ELSE [t EXCEPT !.pending[k] = [buf |-> 0, ip |-> NoAddr, age |-> 0]])
  BY Zenon DEF released
<1>4. waiting(t, ip) = IF k = 0 THEN {} ELSE {t.pending[k].buf}
  BY Zenon DEF waiting
<1> HIDE DEF k
<1>5. Named(waiting(t, ip), ip, cs)
  <2> SUFFICES ASSUME k # 0, t.pending[k].buf \in DOMAIN cs
               PROVE  cs[t.pending[k].buf].ip = ip
    BY <1>4 DEF Named
  <2>1. t.pending[k].buf # 0
    BY DEF Conns
  <2> QED BY <1>1, <1>2, <2>1 DEF Pending, Awaited
<1>6. ASSUME k # 0
      PROVE  Table(FALSE, [t EXCEPT !.pending[k] = [buf |-> 0, ip |-> NoAddr, age |-> 0]], cs, O)
  <2> DEFINE z == [buf |-> 0, ip |-> NoAddr, age |-> 0]
             p == [t.pending EXCEPT ![k] = z]
             u == [t EXCEPT !.pending[k] = z]
  <2>1. u = [t EXCEPT !.pending = p]
    BY Zenon
  <2>2. Len(t.pending) \in Nat /\ DOMAIN t.pending = 1 .. Len(t.pending)
    BY <1>1 DEF Pending
  <2>3. Pending(p, cs)
    <3>1. /\ Len(p) = Len(t.pending) /\ DOMAIN p = DOMAIN t.pending
          /\ \A i \in DOMAIN t.pending : p[i] = t.pending[i] \/ p[i] = z
      <4> HIDE DEF z
      <4> QED BY <2>2
    <3> HIDE DEF p
    <3> QED BY <1>1, <3>1, Freed
  <2> HIDE DEF p, u
  <2>4. DOMAIN u = {"passive", "pending"} /\ u.passive = t.passive /\ u.pending = p
    BY <1>1, <2>1
  <2>5. Table(FALSE, u, cs, O)
    BY <1>1, <2>3, <2>4, Zenon DEF Table
  <2> QED BY <2>5, Zenon DEF u
<1> QED BY <1>3, <1>5, <1>6, Zenon

\* All queries for addr are answered (macResolve).
LEMMA Answered6 ==
    ASSUME NEW t, NEW cs, NEW O, Conns(cs, O), Table(TRUE, t, cs, O), NEW addr
    PROVE  /\ Table(TRUE, freed(t, addr), cs, O)
           /\ Named(macResolve(t, addr), addr, cs)
<1>1. Pending6(t, cs)
  BY DEF Table
<1>2. Named(macResolve(t, addr), addr, cs)
  BY <1>1 DEF macResolve, Pending6, Awaited, Named
<1> DEFINE u == freed(t, addr)
<1>3. /\ Len(u) = Len(t) /\ DOMAIN u = DOMAIN t
      /\ \A i \in DOMAIN t : u[i] = t[i] \/ u[i] = [buf |-> 0, addr |-> NoAddr]
  BY <1>1 DEF freed, Pending6
<1> HIDE DEF u
<1>4. Pending6(u, cs)
  BY <1>1, <1>3 DEF Pending6, Awaited
<1> QED BY <1>2, <1>4 DEF u, Table

\* The sender of a frame is learnt (learnPassive).
LEMMA Learns ==
    ASSUME NEW t, NEW cs, NEW O, Table(FALSE, t, cs, O), NEW subnet, NEW src, NEW mac, <<src, mac>> \in O
    PROVE  Table(FALSE, learnPassive(t, subnet, src, mac), cs, O)
<1> DEFINE k == first({j \in DOMAIN t.passive : t.passive[j].ip \in {src, NoAddr}})
           v == [ip |-> src, mac |-> mac]
           p == [t.passive EXCEPT ![k] = v]
           u == [t EXCEPT !.passive[k] = v]
<1>1. DOMAIN t = {"passive", "pending"} /\ Learnt(t.passive, O) /\ Pending(t.pending, cs)
  BY DEF Table
<1>2. learnPassive(t, subnet, src, mac) = t \/ learnPassive(t, subnet, src, mac) = u
  BY Zenon DEF learnPassive
<1> HIDE DEF k
<1>3. u = [t EXCEPT !.passive = p]
  BY Zenon
<1>4. Learnt(p, O)
  <2>1. Len(t.passive) \in Nat /\ DOMAIN t.passive = 1 .. Len(t.passive)
    BY <1>1 DEF Learnt
  <2>2. <<v.ip, v.mac>> \in O
    OBVIOUS
  <2> HIDE DEF v
  <2>3. /\ Len(p) = Len(t.passive) /\ DOMAIN p = DOMAIN t.passive
        /\ \A i \in DOMAIN t.passive : p[i] = IF i = k THEN v ELSE t.passive[i]
    BY <2>1
  <2> HIDE DEF p
  <2> QED BY <1>1, <2>1, <2>2, <2>3 DEF Learnt
<1> HIDE DEF p, u
<1>5. DOMAIN u = {"passive", "pending"} /\ u.passive = p /\ u.pending = t.pending
  BY <1>1, <1>3
<1>6. Table(FALSE, u, cs, O)
  BY <1>1, <1>4, <1>5, Zenon DEF Table
<1> QED BY <1>2, <1>6, Zenon

-----------------------------------------------------------------------------
(* The hosts.                                                              *)

HostFields == {"hw", "ip", "nb", "tab", "ll", "owes"}

\* A host with its connections knows only pairs of O, its own among them.
HostOk(x, cs, six, O) ==
    /\ DOMAIN x = HostFields /\ <<x.ip, x.hw>> \in O
    /\ CacheOk(x.nb) /\ Knows(x.nb, O) /\ Conns(cs, O) /\ Table(six, x.tab, cs, O)

\* A frame tells only a pair of O.
FrameOk(m, six, O) ==
    /\ m.kind \in {"arp", "nd", "ip"} /\ <<m.f.sip, m.f.shw>> \in O
    /\ m.kind = "arp" => ~six
    /\ m.kind = "nd" => six /\ (m.f.op # "request" => <<m.f.tip, m.f.shw>> \in O)

\* The inductive invariant: also what is on its way, what a slot waits for and what a
\* query that is not sent yet may claim.
KnownInv ==
    /\ sc \in Scenarios /\ Host = DOMAIN sc.ip /\ DOMAIN conn = Host
    /\ \A h \in Host : HostOk(host[h], conn[h], sc.six, owned)
    /\ \A m \in DOMAIN net : m.at \in Host /\ FrameOk(m, sc.six, owned)

\* What a step keeps.
Duties == \A h \in Host : DutyStays(host[h].nb, host'[h].nb)

LEMMA HostKept ==
    ASSUME NEW x, NEW cs, NEW six, NEW O, NEW Q, HostOk(x, cs, six, O), O \subseteq Q
    PROVE  HostOk(x, cs, six, Q)
<1>1. Extends(cs, cs)
  BY DEF Extends
<1>2. Conns(cs, Q) /\ Table(six, x.tab, cs, Q)
  BY <1>1, ConnsKept, TableKept DEF HostOk
<1>3. Knows(x.nb, Q)
  BY DEF HostOk, Knows, Tells
<1> QED BY <1>2, <1>3 DEF HostOk

LEMMA SameDuty ==
    ASSUME NEW c
    PROVE  DutyStays(c, c)
BY DEF DutyStays, evicted

\* A step of one host.
LEMMA HostMoves ==
    ASSUME KnownInv, sc' = sc, owned \subseteq owned', NEW h \in Host,
           DOMAIN host' = Host, \A k \in Host \ {h} : host'[k] = host[k],
           DOMAIN conn' = Host, \A k \in Host \ {h} : conn'[k] = conn[k],
           HostOk(host'[h], conn'[h], sc.six, owned'), DutyStays(host[h].nb, host'[h].nb),
           \A m \in DOMAIN net' : m \in DOMAIN net \/ (m.at \in Host /\ FrameOk(m, sc.six, owned'))
    PROVE  KnownInv' /\ Duties
<1>1. ASSUME NEW k \in Host
      PROVE  HostOk(host'[k], conn'[k], sc.six, owned') /\ DutyStays(host[k].nb, host'[k].nb)
  <2>1. CASE k = h
    BY <2>1
  <2>2. CASE k # h
    <3>1. HostOk(host[k], conn[k], sc.six, owned) /\ host'[k] = host[k] /\ conn'[k] = conn[k]
      BY <2>2 DEF KnownInv
    <3>2. HostOk(host[k], conn[k], sc.six, owned')
      BY <3>1, HostKept
    <3> QED BY <3>1, <3>2, SameDuty
  <2> QED BY <2>1, <2>2
<1>2. ASSUME NEW m \in DOMAIN net'
      PROVE  m.at \in Host /\ FrameOk(m, sc.six, owned')
  BY DEF KnownInv, FrameOk
<1>3. Host' = Host
  BY DEF Host
<1> QED BY <1>1, <1>2, <1>3, Zenon DEF KnownInv, Duties

\* One field of a host changes.
LEMMA OneField ==
    ASSUME DOMAIN host = Host, NEW h \in Host, NEW f \in HostFields, DOMAIN host[h] = HostFields, NEW v,
           NEW g, g = [host EXCEPT ![h] = [@ EXCEPT ![f] = v]]
    PROVE  /\ DOMAIN g = Host /\ \A k \in Host \ {h} : g[k] = host[k]
           /\ DOMAIN g[h] = HostFields /\ g[h][f] = v
           /\ \A e \in HostFields \ {f} : g[h][e] = host[h][e]
<1> DEFINE y == [host[h] EXCEPT ![f] = v]
<1>1. g = [host EXCEPT ![h] = y]
  OBVIOUS
<1>2. DOMAIN y = HostFields /\ y[f] = v /\ \A e \in HostFields \ {f} : y[e] = host[h][e]
  OBVIOUS
<1> HIDE DEF y
<1>3. DOMAIN g = Host /\ g[h] = y /\ \A k \in Host \ {h} : g[k] = host[k]
  BY <1>1
<1> QED BY <1>2, <1>3, Zenon

\* A host's cache takes a step, and nothing else of the hosts changes.
LEMMA CacheMoves ==
    ASSUME KnownInv, UNCHANGED <<sc, conn, owned>>, NEW h \in Host, NEW d,
           host' = [host EXCEPT ![h].nb = d], CacheStep(host[h].nb, d, owned),
           \A m \in DOMAIN net' : m \in DOMAIN net \/ (m.at \in Host /\ FrameOk(m, sc.six, owned))
    PROVE  KnownInv' /\ Duties
<1>1. HostOk(host[h], conn[h], sc.six, owned) /\ DOMAIN host = Host
  BY DEF KnownInv, Host
<1>2. DOMAIN host[h] = HostFields
  BY <1>1 DEF HostOk
<1>3. /\ DOMAIN host' = Host /\ \A k \in Host \ {h} : host'[k] = host[k]
      /\ DOMAIN host'[h] = HostFields /\ host'[h].nb = d
      /\ \A e \in HostFields \ {"nb"} : host'[h][e] = host[h][e]
  BY <1>1, <1>2, OneField DEF HostFields
<1>4. host'[h].ip = host[h].ip /\ host'[h].hw = host[h].hw /\ host'[h].tab = host[h].tab
  BY <1>3 DEF HostFields
<1>5. HostOk(host'[h], conn[h], sc.six, owned)
  BY <1>1, <1>3, <1>4 DEF HostOk, CacheStep
<1>6. DutyStays(host[h].nb, host'[h].nb)
  BY <1>3 DEF CacheStep
<1>7. DOMAIN conn' = Host /\ conn'[h] = conn[h] /\ (\A k \in Host \ {h} : conn'[k] = conn[k]) /\ owned' = owned /\ sc' = sc
  BY DEF KnownInv
<1> QED BY <1>3, <1>5, <1>6, <1>7, HostMoves

\* A host becomes y, with the connections cs.
LEMMA HostBecomes ==
    ASSUME KnownInv, sc' = sc, owned \subseteq owned', NEW h \in Host, NEW y, NEW cs,
           host' = [host EXCEPT ![h] = y], conn' = [conn EXCEPT ![h] = cs] \/ (conn' = conn /\ cs = conn[h]),
           HostOk(y, cs, sc.six, owned'), DutyStays(host[h].nb, y.nb),
           \A m \in DOMAIN net' : m \in DOMAIN net \/ (m.at \in Host /\ FrameOk(m, sc.six, owned'))
    PROVE  KnownInv' /\ Duties
<1>1. DOMAIN conn = Host /\ DOMAIN host = Host
  BY DEF KnownInv, Host
<1>2. DOMAIN host' = Host /\ host'[h] = y /\ \A k \in Host \ {h} : host'[k] = host[k]
  BY <1>1
<1>3. DOMAIN conn' = Host /\ conn'[h] = cs /\ \A k \in Host \ {h} : conn'[k] = conn[k]
  BY <1>1
<1> QED BY <1>2, <1>3, HostMoves

LEMMA SameConn ==
    ASSUME KnownInv, NEW h \in Host
    PROVE  HostOk(host[h], conn[h], sc.six, owned) /\ sc.six \in BOOLEAN
BY ScenarioAssumption DEF KnownInv

\* The frames h sends.
LEMMA Put ==
    ASSUME NEW h, NEW kind, NEW f, NEW to, puts(h, kind, f, to)
    PROVE  \A m \in DOMAIN net' : m \in DOMAIN net \/ (m.at \in Host /\ m.kind = kind /\ m.f = f)
BY DEF puts, with, copies

LEMMA Without ==
    ASSUME NEW e, net' = without(e)
    PROVE  \A m \in DOMAIN net' : m \in DOMAIN net
BY DEF without

LEMMA DialStep ==
    ASSUME KnownInv, NEW h \in Host, Dial(h)
    PROVE  KnownInv' /\ Duties
<1> DEFINE ip == sc.dials[h][Len(conn[h]) + 1]
           r == resolve(h, ip)
           c == [ip |-> ip, mac |-> r.mac, st |-> IF r.err = "nil" THEN "dial" ELSE "failed"]
           cs == conn[h]
           ds == Append(cs, c)
           y == [host[h] EXCEPT !.tab = r.tab, !.nb = r.cache]
<1>1. /\ DOMAIN host[h] = HostFields /\ <<host[h].ip, host[h].hw>> \in owned
      /\ CacheOk(host[h].nb) /\ Knows(host[h].nb, owned) /\ Conns(cs, owned)
      /\ Table(sc.six, host[h].tab, cs, owned) /\ sc.six \in BOOLEAN
  BY SameConn DEF HostOk
<1>2. /\ host' = [host EXCEPT ![h].tab = r.tab, ![h].nb = r.cache] /\ conn' = [conn EXCEPT ![h] = ds]
      /\ UNCHANGED <<sc, net, owned>>
  BY Zenon DEF Dial, dialled
<1>3. DOMAIN c = {"ip", "mac", "st"} /\ c.ip = ip /\ c.mac = r.mac /\ c.st \in {"dial", "failed"}
  OBVIOUS
<1> HIDE DEF c, ip, r
<1>4. /\ Extends(cs, ds) /\ Len(cs) + 1 \in DOMAIN ds /\ ds[Len(cs) + 1] = c
  BY <1>1 DEF Conns, Extends
<1>5. ResolvedOk(sc.six, r, host[h].nb, ds, ip, owned)
  <2> HIDE DEF ds
  <2>1. Buffer(Len(cs) + 1, ip, ds)
    BY <1>3, <1>4 DEF Buffer
  <2>2. CacheOk(host[h].nb) /\ Knows(host[h].nb, owned) /\ Extends(cs, ds)
    BY <1>1, <1>4
  <2>3. CASE sc.six
    <3>1. sc.six = TRUE /\ Table(TRUE, host[h].tab, cs, owned)
      BY <1>1, <2>3, Zenon
    <3>2. ResolvedOk(TRUE, ndpDynamicResolve(host[h].tab, host[h].nb, Len(cs) + 1, ip), host[h].nb, ds, ip, owned)
      BY <2>1, <2>2, <3>1, Resolves6, Zenon
    <3> QED BY <3>1, <3>2, Zenon DEF r, resolve
  <2>4. CASE ~sc.six
    <3>1. sc.six = FALSE /\ Table(FALSE, host[h].tab, cs, owned)
      BY <1>1, <2>4, Zenon
    <3>2. ResolvedOk(FALSE, hwDynamicResolve(host[h].tab, host[h].nb, sc.subnet, Len(cs) + 1, ip),
                     host[h].nb, ds, ip, owned)
      BY <2>1, <2>2, <3>1, Resolves, Zenon
    <3> QED BY <3>1, <3>2, Zenon DEF r, resolve
  <2> QED BY <2>3, <2>4
<1>6. Conns(ds, owned)
  <2>1. ConnOk(c, owned)
    BY <1>3, <1>5 DEF ConnOk, ResolvedOk
  <2> QED BY <1>1, <2>1, ConnAdded
<1>7. host' = [host EXCEPT ![h] = y]
  BY <1>2, Zenon
<1>8. DOMAIN y = HostFields /\ y.tab = r.tab /\ y.nb = r.cache /\ y.ip = host[h].ip /\ y.hw = host[h].hw
  BY <1>1 DEF HostFields
<1> HIDE DEF y, ds
<1>9. HostOk(y, ds, sc.six, owned)
  BY <1>1, <1>5, <1>6, <1>8 DEF HostOk, CacheStep, ResolvedOk
<1>10. DutyStays(host[h].nb, y.nb)
  BY <1>5, <1>8 DEF CacheStep, ResolvedOk
<1> QED BY <1>2, <1>7, <1>9, <1>10, HostBecomes, Zenon

\* The application's other steps on a cache.
LEMMA CacheSteps ==
    ASSUME KnownInv, NEW h \in Host, NEW ip, NEW k \in Host,
           StartResolve(h, ip) \/ DiscardResolve(h, ip) \/ Seed(h, k) \/ Abort(h)
    PROVE  KnownInv' /\ Duties
<1> DEFINE c == host[h].nb
<1>1. CacheOk(c) /\ Knows(c, owned) /\ <<host[k].ip, host[k].hw>> \in owned
  BY SameConn, Zenon DEF HostOk
<1>2. PICK d : CacheStep(c, d, owned) /\ host' = [host EXCEPT ![h].nb = d]
  <2>1. CASE StartResolve(h, ip)
    BY <1>1, <2>1, Queried, Zenon DEF StartResolve
  <2>2. CASE DiscardResolve(h, ip)
    BY <1>1, <2>2, Removed, Zenon DEF DiscardResolve, NDPCacheRemove, CacheRemove, ndpLookup
  <2>3. CASE Seed(h, k)
    BY <1>1, <2>3, Seeded, Zenon DEF Seed
  <2>4. CASE Abort(h)
    BY <1>1, <2>4, Aborted, Zenon DEF Abort
  <2> QED BY <2>1, <2>2, <2>3, <2>4
<1>3. UNCHANGED <<sc, conn, owned, net>>
  BY Zenon DEF StartResolve, DiscardResolve, Seed, Abort
<1> QED BY <1>2, <1>3, CacheMoves, Zenon

\* A host takes another address.
LEMMA AddrSteps ==
    ASSUME KnownInv, NEW h \in Host, NEW a, SetHardwareAddr(h, a) \/ SetAddr(h, a)
    PROVE  KnownInv' /\ Duties
<1> DEFINE x == host[h]
<1>1. /\ DOMAIN x = HostFields /\ CacheOk(x.nb) /\ Knows(x.nb, owned) /\ Conns(conn[h], owned)
      /\ Table(sc.six, x.tab, conn[h], owned) /\ sc.six \in BOOLEAN
  BY SameConn, Zenon DEF HostOk
<1>2. UNCHANGED <<sc, conn, net>> /\ owned \subseteq owned'
  BY DEF SetHardwareAddr, SetAddr
<1>3. PICK y : /\ host' = [host EXCEPT ![h] = y] /\ DOMAIN y = HostFields /\ y.nb = x.nb
               /\ <<y.ip, y.hw>> \in owned' /\ Table(sc.six, y.tab, conn[h], owned)
  <2>1. CASE SetHardwareAddr(h, a)
    <3> DEFINE z == [x EXCEPT !.hw = a]
    <3>1. host' = [host EXCEPT ![h] = z] /\ <<x.ip, a>> \in owned'
      BY <2>1 DEF SetHardwareAddr
    <3>2. DOMAIN z = HostFields /\ z.nb = x.nb /\ z.ip = x.ip /\ z.hw = a /\ z.tab = x.tab
      BY <1>1 DEF HostFields
    <3> HIDE DEF z
    <3> QED BY <1>1, <3>1, <3>2, Zenon
  <2>2. CASE SetAddr(h, a)
    <3> DEFINE t == IF sc.six THEN dropNDPPending(x.tab) ELSE x.tab
               z == [x EXCEPT !.ip = a, !.tab = t]
    <3>1. host' = [host EXCEPT ![h] = z] /\ <<a, x.hw>> \in owned'
      BY <2>2, Zenon DEF SetAddr
    <3>2. Table(sc.six, t, conn[h], owned)
      <4>1. CASE sc.six
        <5>1. t = dropNDPPending(x.tab) /\ Pending6(x.tab, conn[h])
          BY <1>1, <4>1, Zenon DEF Table
        <5>2. Pending6(dropNDPPending(x.tab), conn[h])
          BY <5>1 DEF dropNDPPending, newPending, Pending6, Awaited
        <5> QED BY <4>1, <5>1, <5>2, Zenon DEF Table
      <4>2. CASE ~sc.six
        BY <1>1, <4>2, Zenon
      <4> QED BY <4>1, <4>2
    <3> HIDE DEF t
    <3>3. DOMAIN z = HostFields /\ z.nb = x.nb /\ z.ip = a /\ z.hw = x.hw /\ z.tab = t
      BY <1>1 DEF HostFields
    <3> HIDE DEF z
    <3> QED BY <3>1, <3>2, <3>3, Zenon
  <2> QED BY <2>1, <2>2
<1>4. HostOk(y, conn[h], sc.six, owned')
  <2>1. Extends(conn[h], conn[h])
    BY DEF Extends
  <2>2. Conns(conn[h], owned') /\ Table(sc.six, y.tab, conn[h], owned')
    BY <1>1, <1>2, <1>3, <2>1, ConnsKept, TableKept
  <2>3. Knows(y.nb, owned')
    BY <1>1, <1>2, <1>3 DEF Knows, Tells
  <2> QED BY <1>1, <1>3, <2>2, <2>3 DEF HostOk
<1>5. DutyStays(host[h].nb, y.nb)
  BY <1>3, SameDuty
<1> QED BY <1>2, <1>3, <1>4, <1>5, HostBecomes, Zenon

LEMMA ResolverStep ==
    ASSUME KnownInv, NEW h \in Host, ResolverEncapsulate(h)
    PROVE  KnownInv' /\ Duties
<1> DEFINE x == host[h]
           e == x.nb[due(x.nb)]
<1>1. CacheOk(x.nb) /\ Knows(x.nb, owned) /\ <<x.ip, x.hw>> \in owned /\ sc.six \in BOOLEAN
  BY SameConn DEF HostOk
<1>2. UNCHANGED <<sc, conn, owned>>
  BY DEF ResolverEncapsulate
<1>3. PICK d : CacheStep(x.nb, d, owned) /\ host' = [host EXCEPT ![h].nb = d]
  BY <1>1, Encapsulated, Zenon DEF ResolverEncapsulate
<1>4. \A m \in DOMAIN net' : m \in DOMAIN net \/ (m.at \in Host /\ FrameOk(m, sc.six, owned))
  <2>1. CASE sc.six
    <3> DEFINE f == ndpFrame(e, x.ip, x.hw)
    <3>1. puts(h, "nd", f, sc.gateway)
      BY <2>1, Zenon DEF ResolverEncapsulate
    <3>2. f.sip = x.ip /\ f.shw = x.hw /\ (f.op # "request" => f.tip = x.ip)
      BY DEF ndpFrame
    <3> HIDE DEF f
    <3>3. \A m \in DOMAIN net' : m \in DOMAIN net \/ (m.at \in Host /\ m.kind = "nd" /\ m.f = f)
      BY <3>1, Put
    <3> QED BY <1>1, <2>1, <3>2, <3>3 DEF FrameOk
  <2>2. CASE ~sc.six
    <3> DEFINE f == frame(e, x.ip, x.hw)
    <3>1. puts(h, "arp", f, f.to)
      BY <2>2, Zenon DEF ResolverEncapsulate
    <3>2. f.sip = x.ip /\ f.shw = x.hw
      BY DEF frame
    <3> HIDE DEF f
    <3>3. \A m \in DOMAIN net' : m \in DOMAIN net \/ (m.at \in Host /\ m.kind = "arp" /\ m.f = f)
      BY <3>1, Put
    <3> QED BY <1>1, <2>2, <3>2, <3>3 DEF FrameOk
  <2> QED BY <2>1, <2>2
<1> QED BY <1>2, <1>3, <1>4, CacheMoves, Zenon

\* A connection sends once it knows where to.
LEMMA ConnStep ==
    ASSUME KnownInv, NEW h \in Host, ConnEncapsulate(h)
    PROVE  KnownInv' /\ Duties
<1> DEFINE cs == conn[h]
           ready == {i \in DOMAIN cs : polled(cs[i])}
           k == CHOOSE j \in ready : \A i \in ready : j <= i
           v == [cs[k] EXCEPT !.st = "sent"]
           ds == [cs EXCEPT ![k] = v]
           f == [flag |-> "syn", shw |-> host[h].hw, sip |-> host[h].ip, dip |-> cs[k].ip]
<1>1. /\ Conns(cs, owned) /\ Table(sc.six, host[h].tab, cs, owned) /\ <<host[h].ip, host[h].hw>> \in owned
      /\ DOMAIN host[h] = HostFields /\ CacheOk(host[h].nb) /\ Knows(host[h].nb, owned)
  BY SameConn DEF HostOk
<1>2. k \in DOMAIN cs /\ polled(cs[k])
  <2>1. ready # {}
    BY Zenon DEF ConnEncapsulate
  <2>2. ready \in SUBSET Nat
    BY <1>1 DEF Conns
  <2> HIDE DEF ready
  <2>3. k \in ready
    BY <2>1, <2>2, LeastOf, Zenon
  <2> HIDE DEF k
  <2> QED BY <2>3 DEF ready
<1>3. /\ UNCHANGED <<sc, host, owned>> /\ conn' = [conn EXCEPT ![h][k].st = "sent"]
      /\ \E to : puts(h, "ip", f, to)
  BY Zenon DEF ConnEncapsulate
<1> HIDE DEF k
<1>4. conn' = [conn EXCEPT ![h] = ds]
  BY <1>3
<1>5. \A m \in DOMAIN net' : m \in DOMAIN net \/ (m.at \in Host /\ FrameOk(m, sc.six, owned))
  <2>1. f.sip = host[h].ip /\ f.shw = host[h].hw
    OBVIOUS
  <2> HIDE DEF f
  <2>2. \A m \in DOMAIN net' : m \in DOMAIN net \/ (m.at \in Host /\ m.kind = "ip" /\ m.f = f)
    BY <1>3, Put
  <2> QED BY <1>1, <2>1, <2>2 DEF FrameOk
<1>6. Conns(ds, owned) /\ Extends(cs, ds)
  <2>1. ConnOk(cs[k], owned) /\ cs[k].mac # ZeroMAC
    BY <1>1, <1>2 DEF Conns, polled
  <2>2. ConnOk(v, owned) /\ v.ip = cs[k].ip
    BY <2>1 DEF ConnOk
  <2> HIDE DEF v
  <2>3. Len(ds) = Len(cs) /\ DOMAIN ds = DOMAIN cs /\ \A i \in DOMAIN cs : ds[i] = IF i = k THEN v ELSE cs[i]
    BY <1>1 DEF Conns
  <2> HIDE DEF ds
  <2>4. Conns(ds, owned)
    BY <1>1, <2>2, <2>3 DEF Conns
  <2> QED BY <2>2, <2>3, <2>4 DEF Extends
<1> HIDE DEF ds
<1>7. HostOk(host[h], ds, sc.six, owned)
  <2>1. Table(sc.six, host[h].tab, ds, owned)
    BY <1>1, <1>6, TableKept
  <2> QED BY <1>1, <1>6, <2>1 DEF HostOk
<1>8. DOMAIN conn' = Host /\ conn'[h] = ds /\ \A i \in Host \ {h} : conn'[i] = conn[i]
  BY <1>4 DEF KnownInv
<1>9. DOMAIN host' = Host /\ DutyStays(host[h].nb, host'[h].nb)
  BY <1>3, SameDuty DEF Host
<1> QED BY <1>3, <1>5, <1>7, <1>8, <1>9, HostMoves, Zenon

\* What a host owes or claims changes, its knowledge does not.
LEMMA Bystanding ==
    ASSUME KnownInv, NEW h \in Host, NEW f \in {"owes", "ll"}, NEW v, host' = [host EXCEPT ![h] = [@ EXCEPT ![f] = v]],
           UNCHANGED <<sc, conn>>, owned \subseteq owned',
           \A m \in DOMAIN net' : m \in DOMAIN net \/ (m.at \in Host /\ FrameOk(m, sc.six, owned'))
    PROVE  KnownInv' /\ Duties
<1> DEFINE y == [host[h] EXCEPT ![f] = v]
<1>1. HostOk(host[h], conn[h], sc.six, owned')
  BY SameConn, HostKept
<1>2. /\ DOMAIN y = HostFields /\ y.hw = host[h].hw /\ y.ip = host[h].ip /\ y.nb = host[h].nb
      /\ y.tab = host[h].tab
  BY <1>1 DEF HostOk, HostFields
<1>3. host' = [host EXCEPT ![h] = y]
  OBVIOUS
<1> HIDE DEF y
<1>4. HostOk(y, conn[h], sc.six, owned') /\ DutyStays(host[h].nb, y.nb)
  BY <1>1, <1>2, SameDuty DEF HostOk
<1> QED BY <1>3, <1>4, HostBecomes, Zenon

LEMMA ListenerStep ==
    ASSUME KnownInv, NEW h \in Host, NEW ip, ListenerEncapsulate(h, ip)
    PROVE  KnownInv' /\ Duties
<1> DEFINE f == [flag |-> "ack", shw |-> host[h].hw, sip |-> host[h].ip, dip |-> ip]
<1>1. <<host[h].ip, host[h].hw>> \in owned
  BY SameConn DEF HostOk
<1>2. /\ UNCHANGED <<sc, conn, owned>> /\ host' = [host EXCEPT ![h].owes = @ \ {ip}]
      /\ \E to : puts(h, "ip", f, to)
  BY Zenon DEF ListenerEncapsulate
<1>3. \A m \in DOMAIN net' : m \in DOMAIN net \/ (m.at \in Host /\ FrameOk(m, sc.six, owned))
  <2>1. f.sip = host[h].ip /\ f.shw = host[h].hw
    OBVIOUS
  <2> HIDE DEF f
  <2>2. \A m \in DOMAIN net' : m \in DOMAIN net \/ (m.at \in Host /\ m.kind = "ip" /\ m.f = f)
    BY <1>2, Put
  <2> QED BY <1>1, <2>1, <2>2 DEF FrameOk
<1> HIDE DEF f
<1>4. PICK v : host' = [host EXCEPT ![h] = [@ EXCEPT !["owes"] = v]]
  BY <1>2, Zenon
<1> QED BY <1>2, <1>3, <1>4, Bystanding, Zenon

\* The steps of a host that claims an address.
LEMMA ClaimSteps ==
    ASSUME KnownInv, NEW h \in sc.claimants, NEW c, NEW d,
           Join(h, c, d) \/ LinkLocalEncapsulate(h, d) \/ Adopt(h)
    PROVE  KnownInv' /\ Duties
<1>1. h \in Host /\ ~sc.six
  BY ScenarioAssumption DEF KnownInv
<1>2. CASE Join(h, c, d)
  <2>1. PICK v : host' = [host EXCEPT ![h] = [@ EXCEPT !["ll"] = v]]
    BY <1>2, Zenon DEF Join
  <2>2. UNCHANGED <<sc, conn, net, owned>>
    BY <1>2 DEF Join
  <2> QED BY <1>1, <2>1, <2>2, Bystanding, Zenon
<1>3. CASE LinkLocalEncapsulate(h, d)
  <2> DEFINE x == host[h]
             f == llFrame(x.ll, x.hw)
  <2>1. PICK v : host' = [host EXCEPT ![h] = [@ EXCEPT !["ll"] = v]]
    BY <1>3, Zenon DEF LinkLocalEncapsulate
  <2>2. UNCHANGED <<sc, conn>>
    BY <1>3 DEF LinkLocalEncapsulate
  <2>3. f.shw = x.hw
    BY DEF llFrame
  <2>4. \/ puts(h, "arp", f, "all") /\ owned' = owned \cup {<<f.sip, x.hw>>}
        \/ UNCHANGED <<net, owned>>
    BY <1>3, Zenon DEF LinkLocalEncapsulate
  <2> HIDE DEF f
  <2>5. CASE puts(h, "arp", f, "all") /\ owned' = owned \cup {<<f.sip, x.hw>>}
    <3>1. \A m \in DOMAIN net' : m \in DOMAIN net \/ (m.at \in Host /\ m.kind = "arp" /\ m.f = f)
      BY <2>5, Put
    <3>2. \A m \in DOMAIN net' : m \in DOMAIN net \/ (m.at \in Host /\ FrameOk(m, sc.six, owned'))
      BY <1>1, <2>3, <2>5, <3>1 DEF FrameOk
    <3> QED BY <1>1, <2>1, <2>2, <2>5, <3>2, Bystanding, Zenon
  <2>6. CASE UNCHANGED <<net, owned>>
    BY <1>1, <2>1, <2>2, <2>6, Bystanding, Zenon
  <2> QED BY <2>4, <2>5, <2>6
<1>4. CASE Adopt(h)
  <2> DEFINE x == host[h]
             a == claimed(x)
             y == [x EXCEPT !.ip = a]
  <2>1. /\ host' = [host EXCEPT ![h] = y] /\ UNCHANGED <<sc, conn, net>> /\ owned \subseteq owned'
        /\ <<a, x.hw>> \in owned'
    BY <1>4 DEF Adopt
  <2> HIDE DEF a
  <2>2. HostOk(x, conn[h], sc.six, owned')
    BY <1>1, <2>1, SameConn, HostKept
  <2>3. DOMAIN y = HostFields /\ y.hw = x.hw /\ y.ip = a /\ y.nb = x.nb /\ y.tab = x.tab
    BY <2>2 DEF HostOk, HostFields
  <2> HIDE DEF y
  <2>4. HostOk(y, conn[h], sc.six, owned') /\ DutyStays(x.nb, y.nb)
    BY <2>1, <2>2, <2>3, SameDuty DEF HostOk
  <2> QED BY <1>1, <2>1, <2>4, HostBecomes, Zenon
<1> QED BY <1>2, <1>3, <1>4

\* The clock moves the claims of all hosts and nothing else.
LEMMA TickStep ==
    ASSUME KnownInv, Tick
    PROVE  KnownInv' /\ Duties
<1>1. host' = [h \in Host |-> [host[h] EXCEPT !.ll = elapse(@)]] /\ UNCHANGED <<sc, conn, net, owned>>
  BY DEF Tick
<1>2. Host' = Host
  BY <1>1 DEF Host
<1>3. ASSUME NEW h \in Host
      PROVE  HostOk(host'[h], conn[h], sc.six, owned) /\ DutyStays(host[h].nb, host'[h].nb)
  <2> DEFINE v == elapse(host[h].ll)
             y == [host[h] EXCEPT !.ll = v]
  <2>1. host'[h] = y
    BY <1>1
  <2>2. HostOk(host[h], conn[h], sc.six, owned)
    BY SameConn
  <2> HIDE DEF v
  <2>3. /\ DOMAIN y = HostFields /\ y.hw = host[h].hw /\ y.ip = host[h].ip /\ y.nb = host[h].nb
        /\ y.tab = host[h].tab
    BY <2>2 DEF HostOk, HostFields
  <2> HIDE DEF y
  <2> QED BY <2>1, <2>2, <2>3, SameDuty DEF HostOk
<1> QED BY <1>1, <1>2, <1>3, Zenon DEF KnownInv, Duties

\* A host becomes y as it takes a frame that answers: its cache takes a step, and buffers
\* of connections to ip get the hardware address mac.
LEMMA Answers ==
    ASSUME KnownInv, NEW h \in Host, UNCHANGED <<sc, owned>>, \A m \in DOMAIN net' : m \in DOMAIN net,
           NEW y, host' = [host EXCEPT ![h] = y], DOMAIN y = HostFields, y.hw = host[h].hw, y.ip = host[h].ip,
           CacheStep(host[h].nb, y.nb, owned), Table(sc.six, y.tab, conn[h], owned),
           NEW bufs, NEW ip, NEW mac, <<ip, mac>> \in owned, Named(bufs, ip, conn[h]),
           conn' = [conn EXCEPT ![h] = fills(conn[h], bufs, mac)]
    PROVE  KnownInv' /\ Duties
<1> DEFINE x == host[h]
           ds == fills(conn[h], bufs, mac)
<1>1. <<x.ip, x.hw>> \in owned /\ Conns(conn[h], owned)
  BY SameConn DEF HostOk
<1>2. Conns(ds, owned) /\ Extends(conn[h], ds)
  BY <1>1, FilledConns
<1>3. conn' = [conn EXCEPT ![h] = ds]
  OBVIOUS
<1> HIDE DEF ds
<1>4. Table(sc.six, y.tab, ds, owned)
  BY <1>2, TableKept
<1>5. HostOk(y, ds, sc.six, owned) /\ DutyStays(x.nb, y.nb)
  BY <1>1, <1>2, <1>4 DEF HostOk, CacheStep
<1> QED BY <1>3, <1>5, HostBecomes, Zenon

LEMMA ARPStep ==
    ASSUME KnownInv, NEW h \in Host, NEW f, <<f.sip, f.shw>> \in owned, sc.six = FALSE, DemuxARP(h, f),
           UNCHANGED <<sc, owned>>, \A m \in DOMAIN net' : m \in DOMAIN net
    PROVE  KnownInv' /\ Duties
<1> DEFINE x == host[h]
           d == Demux(x.nb, x.ip, f)
           b == IF calls(x.nb, f) THEN waiting(x.tab, f.sip) ELSE {}
           t == IF calls(x.nb, f) THEN released(x.tab, f.sip) ELSE x.tab
<1>1. PICK ll : /\ host' = [host EXCEPT ![h].nb = d, ![h].ll = ll, ![h].tab = t]
                /\ conn' = [conn EXCEPT ![h] = fills(@, b, f.shw)]
  BY Zenon DEF DemuxARP
<1>2. /\ CacheOk(x.nb) /\ Knows(x.nb, owned) /\ Conns(conn[h], owned) /\ Table(FALSE, x.tab, conn[h], owned)
      /\ DOMAIN x = HostFields
  BY SameConn, Zenon DEF HostOk
<1>3. CacheStep(x.nb, d, owned)
  BY <1>2, Demuxed
<1>4. Table(FALSE, t, conn[h], owned) /\ Named(b, f.sip, conn[h])
  <2>1. CASE calls(x.nb, f)
    <3>1. t = released(x.tab, f.sip) /\ b = waiting(x.tab, f.sip)
      BY <2>1, Zenon
    <3>2. Table(FALSE, released(x.tab, f.sip), conn[h], owned) /\ Named(waiting(x.tab, f.sip), f.sip, conn[h])
      BY <1>2, Answered, Zenon
    <3> QED BY <3>1, <3>2, Zenon
  <2>2. CASE ~calls(x.nb, f)
    BY <1>2, <2>2, Zenon DEF Named
  <2> QED BY <2>1, <2>2, Zenon
<1> HIDE DEF d, b, t
<1> DEFINE y == [x EXCEPT !.nb = d, !.ll = ll, !.tab = t]
<1>5. host' = [host EXCEPT ![h] = y] /\ conn' = [conn EXCEPT ![h] = fills(conn[h], b, f.shw)]
  BY <1>1, Zenon
<1>6. DOMAIN y = HostFields /\ y.hw = x.hw /\ y.ip = x.ip /\ y.nb = d /\ y.tab = t
  BY <1>2 DEF HostFields
<1> HIDE DEF y
<1>7. CacheStep(x.nb, y.nb, owned) /\ Table(sc.six, y.tab, conn[h], owned)
  BY <1>3, <1>4, <1>6, Zenon
<1> QED BY <1>4, <1>5, <1>6, <1>7, Answers, Zenon

LEMMA NDPStep ==
    ASSUME KnownInv, NEW h \in Host, NEW f, <<f.sip, f.shw>> \in owned, f.op # "request" => <<f.tip, f.shw>> \in owned,
           sc.six = TRUE, DemuxNDP(h, f), UNCHANGED <<sc, owned>>, \A m \in DOMAIN net' : m \in DOMAIN net
    PROVE  KnownInv' /\ Duties
<1> DEFINE x == host[h]
           d == demuxNDP(x.nb, x.ip, f)
           b == IF ndpCalls(x.nb, f) THEN macResolve(x.tab, f.tip) ELSE {}
           t == IF ndpCalls(x.nb, f) THEN freed(x.tab, f.tip) ELSE x.tab
<1>1. \/ /\ host' = [host EXCEPT ![h].nb = d, ![h].tab = t]
         /\ conn' = [conn EXCEPT ![h] = fills(@, b, f.shw)]
      \/ UNCHANGED <<host, conn>>
  BY Zenon DEF DemuxNDP
<1>2. /\ CacheOk(x.nb) /\ Knows(x.nb, owned) /\ Conns(conn[h], owned) /\ Table(TRUE, x.tab, conn[h], owned)
      /\ DOMAIN x = HostFields
  BY SameConn, Zenon DEF HostOk
<1>3. CacheStep(x.nb, d, owned)
  BY <1>2, DemuxedNDP
<1>4. Table(TRUE, t, conn[h], owned) /\ \E ip : <<ip, f.shw>> \in owned /\ Named(b, ip, conn[h])
  <2>1. CASE ndpCalls(x.nb, f)
    <3>1. t = freed(x.tab, f.tip) /\ b = macResolve(x.tab, f.tip) /\ f.op = "reply"
      BY <2>1, Zenon DEF ndpCalls
    <3>2. Table(TRUE, freed(x.tab, f.tip), conn[h], owned) /\ Named(macResolve(x.tab, f.tip), f.tip, conn[h])
      BY <1>2, Answered6, Zenon
    <3> QED BY <3>1, <3>2, Zenon
  <2>2. CASE ~ndpCalls(x.nb, f)
    BY <1>2, <2>2, Zenon DEF Named
  <2> QED BY <2>1, <2>2, Zenon
<1> HIDE DEF d, b, t
<1>5. CASE UNCHANGED <<host, conn>>
  <2>1. Host' = Host /\ sc' = sc /\ owned' = owned /\ conn' = conn /\ host' = host
    BY <1>5 DEF Host
  <2> QED BY <2>1, SameDuty DEF KnownInv, Duties
<1>6. CASE /\ host' = [host EXCEPT ![h].nb = d, ![h].tab = t]
           /\ conn' = [conn EXCEPT ![h] = fills(@, b, f.shw)]
  <2> DEFINE y == [x EXCEPT !.nb = d, !.tab = t]
  <2>1. host' = [host EXCEPT ![h] = y] /\ conn' = [conn EXCEPT ![h] = fills(conn[h], b, f.shw)]
    BY <1>6, Zenon
  <2>2. DOMAIN y = HostFields /\ y.hw = x.hw /\ y.ip = x.ip /\ y.nb = d /\ y.tab = t
    BY <1>2 DEF HostFields
  <2> HIDE DEF y
  <2>3. CacheStep(x.nb, y.nb, owned) /\ Table(sc.six, y.tab, conn[h], owned)
    BY <1>3, <1>4, <2>2, Zenon
  <2> QED BY <1>4, <2>1, <2>2, <2>3, Answers, Zenon
<1> QED BY <1>1, <1>5, <1>6

\* A segment is taken: connections that sent open, and the sender is learnt.
LEMMA IPStep ==
    ASSUME KnownInv, NEW h \in Host, NEW f, <<f.sip, f.shw>> \in owned, DemuxIP(h, f),
           UNCHANGED <<sc, owned>>, \A m \in DOMAIN net' : m \in DOMAIN net
    PROVE  KnownInv' /\ Duties
<1> DEFINE x == host[h]
           cs == conn[h]
           mine == {i \in DOMAIN cs : f.flag = "ack" /\ cs[i].ip = f.sip /\ cs[i].st = "sent"}
           ds == [i \in DOMAIN cs |-> IF i \in mine THEN [cs[i] EXCEPT !.st = "open"] ELSE cs[i]]
           o == IF f.flag = "syn" THEN x.owes \cup {f.sip} ELSE x.owes
           t == IF sc.six THEN x.tab ELSE learnPassive(x.tab, sc.subnet, f.sip, f.shw)
           y == [x EXCEPT !.owes = o, !.tab = t]
<1>1. \/ conn' = [conn EXCEPT ![h] = ds] /\ host' = [host EXCEPT ![h].owes = o, ![h].tab = t]
      \/ UNCHANGED <<host, conn>>
  BY Zenon DEF DemuxIP
<1>2. /\ DOMAIN x = HostFields /\ <<x.ip, x.hw>> \in owned /\ CacheOk(x.nb) /\ Knows(x.nb, owned)
      /\ Conns(cs, owned) /\ Table(sc.six, x.tab, cs, owned) /\ sc.six \in BOOLEAN
  BY SameConn DEF HostOk
<1>3. CASE UNCHANGED <<host, conn>>
  <2>1. Host' = Host /\ sc' = sc /\ owned' = owned /\ conn' = conn /\ host' = host
    BY <1>3 DEF Host
  <2> QED BY <2>1, SameDuty DEF KnownInv, Duties
<1>4. CASE conn' = [conn EXCEPT ![h] = ds] /\ host' = [host EXCEPT ![h].owes = o, ![h].tab = t]
  <2>1. Conns(ds, owned) /\ Extends(cs, ds)
    <3>1. /\ Len(ds) = Len(cs) /\ DOMAIN ds = DOMAIN cs
          /\ \A i \in DOMAIN cs : ds[i] = IF i \in mine THEN [cs[i] EXCEPT !.st = "open"] ELSE cs[i]
      BY <1>2 DEF Conns
    <3> HIDE DEF ds
    <3>2. ASSUME NEW i \in DOMAIN cs
          PROVE  ConnOk(ds[i], owned) /\ ds[i].ip = cs[i].ip
      <4>1. ConnOk(cs[i], owned)
        BY <1>2 DEF Conns
      <4>2. CASE i \in mine
        <5>1. ds[i] = [cs[i] EXCEPT !.st = "open"] /\ cs[i].st = "sent"
          BY <3>1, <4>2
        <5> QED BY <4>1, <5>1 DEF ConnOk
      <4> QED BY <3>1, <4>1, <4>2, Zenon
    <3>3. Conns(ds, owned)
      BY <1>2, <3>1, <3>2 DEF Conns
    <3> QED BY <3>1, <3>2, <3>3 DEF Extends
  <2> HIDE DEF ds, o
  <2>2. Table(sc.six, t, cs, owned)
    <3>1. CASE sc.six
      BY <1>2, <3>1, Zenon
    <3>2. CASE ~sc.six
      <4>1. sc.six = FALSE /\ Table(FALSE, x.tab, cs, owned)
        BY <1>2, <3>2, Zenon
      <4>2. Table(FALSE, learnPassive(x.tab, sc.subnet, f.sip, f.shw), cs, owned)
        BY <4>1, Learns, Zenon
      <4> QED BY <4>1, <4>2, Zenon
    <3> QED BY <3>1, <3>2
  <2> HIDE DEF t
  <2>3. Table(sc.six, t, ds, owned)
    BY <2>1, <2>2, TableKept
  <2>4. host' = [host EXCEPT ![h] = y]
    BY <1>4, Zenon
  <2>5. DOMAIN y = HostFields /\ y.hw = x.hw /\ y.ip = x.ip /\ y.nb = x.nb /\ y.tab = t
    BY <1>2 DEF HostFields
  <2> HIDE DEF y
  <2>6. HostOk(y, ds, sc.six, owned) /\ DutyStays(x.nb, y.nb)
    BY <1>2, <2>1, <2>3, <2>5, SameDuty DEF HostOk
  <2> QED BY <1>4, <2>4, <2>6, HostBecomes, Zenon
<1> QED BY <1>1, <1>3, <1>4

\* The hosts stay as they are, and no new frame appears.
LEMMA NetStep ==
    ASSUME KnownInv, UNCHANGED <<sc, host, conn, owned>>, \A m \in DOMAIN net' : m \in DOMAIN net
    PROVE  KnownInv' /\ Duties
<1>1. Host' = Host /\ sc' = sc /\ owned' = owned /\ conn' = conn /\ host' = host
  BY DEF Host
<1> QED BY <1>1, SameDuty DEF KnownInv, Duties

LEMMA DeliverStep ==
    ASSUME KnownInv, NEW e \in DOMAIN net, Deliver(e)
    PROVE  KnownInv' /\ Duties
<1>1. /\ UNCHANGED <<sc, owned>> /\ \A m \in DOMAIN net' : m \in DOMAIN net
      /\ receives(e)
  BY Without DEF Deliver
<1>2. e.at \in Host /\ FrameOk(e, sc.six, owned) /\ sc.six \in BOOLEAN
  BY ScenarioAssumption DEF KnownInv
<1>3. <<e.f.sip, e.f.shw>> \in owned /\ e.kind \in {"arp", "nd", "ip"}
  BY <1>2 DEF FrameOk
<1>4. CASE e.to \notin {"all", host[e.at].hw}
  <2>1. UNCHANGED <<host, conn>>
    BY <1>1, <1>4, Zenon DEF receives
  <2> QED BY <1>1, <2>1, NetStep
<1>5. CASE e.to \in {"all", host[e.at].hw}
  <2>1. CASE e.kind = "arp"
    <3>1. DemuxARP(e.at, e.f)
      BY <1>1, <1>5, <2>1, Zenon DEF receives
    <3>2. sc.six = FALSE
      BY <1>2, <2>1 DEF FrameOk
    <3> QED BY <1>1, <1>2, <1>3, <3>1, <3>2, ARPStep, Zenon
  <2>2. CASE e.kind = "nd"
    <3>1. DemuxNDP(e.at, e.f)
      BY <1>1, <1>5, <2>2, Zenon DEF receives
    <3>2. sc.six = TRUE /\ (e.f.op # "request" => <<e.f.tip, e.f.shw>> \in owned)
      BY <1>2, <2>2 DEF FrameOk
    <3> QED BY <1>1, <1>2, <1>3, <3>1, <3>2, NDPStep, Zenon
  <2>3. CASE e.kind = "ip"
    <3>1. DemuxIP(e.at, e.f)
      BY <1>1, <1>5, <2>3, Zenon DEF receives
    <3> QED BY <1>1, <1>2, <1>3, <3>1, IPStep
  <2> QED BY <1>3, <2>1, <2>2, <2>3
<1> QED BY <1>4, <1>5

LEMMA InitKnown == Init => KnownInv
<1> SUFFICES ASSUME Init
             PROVE  KnownInv
  OBVIOUS
<1>1. /\ sc \in Scenarios /\ Host = DOMAIN sc.ip /\ DOMAIN conn = Host /\ DOMAIN net = {}
      /\ \A h \in Host : host[h] = newHost(h) /\ conn[h] = <<>> /\ <<sc.ip[h], h>> \in owned
  BY DEF Init, Host
<1>2. sc.cacheSize \in Nat /\ sc.slots \in Nat /\ sc.passivePeers \in Nat /\ sc.six \in BOOLEAN
  BY <1>1, ScenarioAssumption
<1>3. ASSUME NEW h \in Host
      PROVE  HostOk(host[h], conn[h], sc.six, owned)
  <2>1. /\ DOMAIN host[h] = HostFields /\ host[h].hw = h /\ host[h].ip = sc.ip[h]
        /\ host[h].nb = empty(sc.cacheSize)
        /\ host[h].tab = IF sc.six THEN newPending(sc.slots) ELSE newTable(sc.passivePeers, sc.slots)
    <3> DEFINE n == empty(sc.cacheSize)
               t == IF sc.six THEN newPending(sc.slots) ELSE newTable(sc.passivePeers, sc.slots)
               l == llInvalid
    <3>1. host[h] = [hw |-> h, ip |-> sc.ip[h], nb |-> n, tab |-> t, ll |-> l, owes |-> {}]
      BY <1>1, Zenon DEF newHost
    <3> HIDE DEF n, t, l
    <3>2. /\ DOMAIN host[h] = HostFields /\ host[h].hw = h /\ host[h].ip = sc.ip[h]
          /\ host[h].nb = n /\ host[h].tab = t
      BY <3>1 DEF HostFields
    <3> QED BY <3>2 DEF n, t
  <2>2. CacheOk(empty(sc.cacheSize)) /\ Knows(empty(sc.cacheSize), owned)
    BY <1>2, MaxAgeAssumption DEF empty, CacheOk, Knows, EntryOk, EntryFields, Unused, Tells, inUse
  <2>3. Conns(<<>>, owned)
    BY DEF Conns
  <2>4. Pending6(newPending(sc.slots), <<>>)
    BY <1>2 DEF newPending, Pending6, Awaited
  <2>5. LET t == newTable(sc.passivePeers, sc.slots)
        IN  DOMAIN t = {"passive", "pending"} /\ Learnt(t.passive, owned) /\ Pending(t.pending, <<>>)
    BY <1>2 DEF newTable, Learnt, Pending, Awaited
  <2>6. Table(sc.six, host[h].tab, <<>>, owned)
    BY <1>2, <2>1, <2>4, <2>5, Zenon DEF Table
  <2> QED BY <1>1, <2>1, <2>2, <2>3, <2>6 DEF HostOk
<1> QED BY <1>1, <1>3 DEF KnownInv

\* Every step keeps the invariant and the duties of the caches.
LEMMA NextKnown == KnownInv /\ [Next]_vars => KnownInv' /\ Duties
<1> SUFFICES ASSUME KnownInv, [Next]_vars
             PROVE  KnownInv' /\ Duties
  OBVIOUS
<1>1. CASE UNCHANGED vars
  BY <1>1, NetStep DEF vars
<1>2. ASSUME NEW h \in Host, Dial(h)
      PROVE  KnownInv' /\ Duties
  BY <1>2, DialStep
<1>3. ASSUME NEW h \in Host, ResolverEncapsulate(h)
      PROVE  KnownInv' /\ Duties
  BY <1>3, ResolverStep
<1>4. ASSUME NEW h \in Host, ConnEncapsulate(h)
      PROVE  KnownInv' /\ Duties
  BY <1>4, ConnStep
<1>5. ASSUME NEW h \in Host, NEW ip \in host[h].owes, ListenerEncapsulate(h, ip)
      PROVE  KnownInv' /\ Duties
  BY <1>5, ListenerStep
<1>6. ASSUME NEW e \in DOMAIN net, Deliver(e)
      PROVE  KnownInv' /\ Duties
  BY <1>6, DeliverStep
<1>7. ASSUME NEW h \in sc.claimants, NEW c, NEW d, Join(h, c, d) \/ LinkLocalEncapsulate(h, d) \/ Adopt(h)
      PROVE  KnownInv' /\ Duties
  BY <1>7, ClaimSteps
<1>8. CASE Tick
  BY <1>8, TickStep
<1>9. ASSUME NEW h \in Host, NEW ip, NEW k \in Host,
             StartResolve(h, ip) \/ DiscardResolve(h, ip) \/ Seed(h, k) \/ Abort(h)
      PROVE  KnownInv' /\ Duties
  BY <1>9, CacheSteps
<1>10. ASSUME NEW h \in Host, NEW a, SetHardwareAddr(h, a) \/ SetAddr(h, a)
       PROVE  KnownInv' /\ Duties
  BY <1>10, AddrSteps
<1>11. ASSUME NEW e \in DOMAIN net, Duplicate(e) \/ Lose(e)
       PROVE  KnownInv' /\ Duties
  <2>1. UNCHANGED <<sc, host, conn, owned>> /\ (net' = with({e}) \/ net' = without(e))
    BY <1>11 DEF Duplicate, Lose
  <2>2. \A m \in DOMAIN net' : m \in DOMAIN net
    BY <2>1, Without DEF with
  <2> QED BY <2>1, <2>2, NetStep
<1>12. Progress => KnownInv' /\ Duties
  BY <1>2, <1>3, <1>4, <1>5, <1>6, <1>7, <1>8, Zenon DEF Progress
<1> QED BY <1>1, <1>9, <1>10, <1>11, <1>12, Zenon DEF Next

\* Whatever a host keeps for an address, in its cache, for a connection or learnt from
\* traffic, is the hardware address of a host that had it (Handler.Demux, onResolve,
\* macResolve, learnPassive).
THEOREM KnownPairsAreOwned == Spec => []KnownIsOwner
<1>1. KnownInv => KnownIsOwner
  <2> SUFFICES ASSUME KnownInv, NEW h \in Host
               PROVE  /\ \A i \in DOMAIN host[h].nb : Tells(host[h].nb[i], owned)
                      /\ \A i \in DOMAIN conn[h] : ConnOk(conn[h][i], owned)
                      /\ ~sc.six => Learnt(host[h].tab.passive, owned)
    BY Zenon DEF KnownIsOwner, Tells, ConnOk, Learnt
  <2> QED BY SameConn, Zenon DEF HostOk, Knows, Conns, Table
<1> QED BY <1>1, InitKnown, NextKnown, PTL DEF Spec

\* An entry that owes an answer or a query is taken for another only when no entry is free
\* or passive (cache.acquireNext).
THEOREM DutiesAreKept == Spec => DutyKept
<1>1. Duties => \A h \in Host : \A i \in DOMAIN host[h].nb :
        duty(host[h].nb[i]) /\ evicted(host[h].nb[i], host'[h].nb[i])
        => \A j \in DOMAIN host[h].nb : inUse(host[h].nb[j]) /\ ~passive(host[h].nb[j])
  BY Zenon DEF Duties, DutyStays
<1> QED BY <1>1, InitKnown, NextKnown, PTL DEF Spec, DutyKept
=============================================================================
