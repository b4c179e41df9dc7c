---------------------------- MODULE DHCPv4_proofs ----------------------------
(***************************************************************************)
(* What is proved of the DHCP exchange for every set of servers and stacks *)
(* and every number of faults: the server's count of the answers it owes   *)
(* is exact, a host it knows keeps its address, and an address has one     *)
(* owner.                                                                  *)
(***************************************************************************)
EXTENDS DHCPv4, FiniteSetTheorems, TLAPS

-----------------------------------------------------------------------------
(***************************************************************************)
(* What the messages of the exchange do to a server and to a client: the   *)
(* server's table, the count of the answers it owes and its counter of     *)
(* addresses, and what the client has been told.                           *)
(***************************************************************************)

\* The hosts that are owed an answer.
owing(sv) == {k \in known(sv) : owed(sv.hosts[k])}

\* The table of a server.
Table(sv) ==
    /\ {"hosts", "pending", "nextAddr", "subnet", "siaddr"} \subseteq DOMAIN sv
    /\ IsFiniteSet(known(sv))
    /\ \A k \in known(sv) : {"addr", "state", "hw"} \subseteq DOMAIN sv.hosts[k]

\* The count is x more than the answers that are owed.
Excess(sv, x) == Table(sv) /\ sv.pending = Cardinality(owing(sv)) + x

\* The server's addresses and its counter stay.
SameNet(sv, sv2) ==
    sv2.subnet = sv.subnet /\ sv2.siaddr = sv.siaddr /\ sv2.nextAddr = sv.nextAddr

\* The hosts known before and after have the addresses they had.
SameAddresses(sv, sv2) ==
    \A k \in (known(sv) \cap known(sv2)) \ {ZeroKey} : sv.hosts[k].addr = sv2.hosts[k].addr

\* A lookup finds what is there, and overlooks nothing but an entry under the zero key.
Filed(sv, l) == IF l.found THEN l.key \in known(sv) ELSE l.key \in known(sv) => l.key = ZeroKey

\* What a message may do to the count and to the addresses.
Kept(sv, l, sv2, x) ==
    /\ Excess(sv2, x) \/ (filedOver(sv, l) /\ Excess(sv2, x + 1))
    /\ SameAddresses(sv, sv2)
-----------------------------------------------------------------------------
\* The count of a finite table is a number (Server.pending).
LEMMA OwingIsFinite ==
    ASSUME NEW sv, Table(sv)
    PROVE  IsFiniteSet(owing(sv)) /\ Cardinality(owing(sv)) \in Nat
<1>1. owing(sv) \in SUBSET known(sv)
  BY DEF owing
<1> QED
  BY <1>1, FS_Subset, FS_CardinalityType DEF Table

\* An entry is written, and the others stay (sv.hosts[id] = client).
LEMMA Stored ==
    ASSUME NEW sv, NEW k, NEW e, Table(sv), {"addr", "state", "hw"} \subseteq DOMAIN e
    PROVE  /\ Table(store(sv, k, e))
           /\ store(sv, k, e).pending = sv.pending /\ SameNet(sv, store(sv, k, e))
           /\ known(store(sv, k, e)) = known(sv) \cup {k}
           /\ \A j \in known(sv) \cup {k} :
                store(sv, k, e).hosts[j] = IF j = k THEN e ELSE sv.hosts[j]
           /\ owing(store(sv, k, e)) =
                IF owed(e) THEN owing(sv) \cup {k} ELSE owing(sv) \ {k}
<1> DEFINE sv2 == store(sv, k, e)
<1>1. /\ DOMAIN sv2 = DOMAIN sv
      /\ sv2.pending = sv.pending /\ SameNet(sv, sv2)
      /\ sv2.hosts = [j \in known(sv) \cup {k} |-> IF j = k THEN e ELSE sv.hosts[j]]
  BY DEF store, Table, SameNet
<1>2. known(sv2) = known(sv) \cup {k}
  BY <1>1 DEF known
<1>3. \A j \in known(sv) \cup {k} : sv2.hosts[j] = IF j = k THEN e ELSE sv.hosts[j]
  BY <1>1
<1>4. IsFiniteSet(known(sv2))
  BY <1>2, FS_AddElement DEF Table
<1> HIDE DEF sv2
<1>5. Table(sv2)
  BY <1>1, <1>2, <1>3, <1>4 DEF Table
<1>6. owing(sv2) = IF owed(e) THEN owing(sv) \cup {k} ELSE owing(sv) \ {k}
  BY <1>2, <1>3 DEF owing
<1> QED
  BY <1>1, <1>2, <1>3, <1>5, <1>6 DEF sv2

\* An entry is removed, and the others stay (delete(sv.hosts, id)).
LEMMA Forgotten ==
    ASSUME NEW sv, NEW k, Table(sv)
    PROVE  /\ Table(forget(sv, k))
           /\ forget(sv, k).pending = sv.pending /\ SameNet(sv, forget(sv, k))
           /\ known(forget(sv, k)) = known(sv) \ {k}
           /\ \A j \in known(sv) \ {k} : forget(sv, k).hosts[j] = sv.hosts[j]
           /\ owing(forget(sv, k)) = owing(sv) \ {k}
<1> DEFINE sv2 == forget(sv, k)
<1>1. /\ DOMAIN sv2 = DOMAIN sv
      /\ sv2.pending = sv.pending /\ SameNet(sv, sv2)
      /\ sv2.hosts = [j \in known(sv) \ {k} |-> sv.hosts[j]]
  BY DEF forget, Table, SameNet
<1>2. known(sv2) = known(sv) \ {k}
  BY <1>1 DEF known
<1>3. \A j \in known(sv) \ {k} : sv2.hosts[j] = sv.hosts[j]
  BY <1>1
<1>4. IsFiniteSet(known(sv2))
  BY <1>2, FS_RemoveElement DEF Table
<1> HIDE DEF sv2
<1>5. Table(sv2)
  BY <1>1, <1>2, <1>3, <1>4 DEF Table
<1>6. owing(sv2) = owing(sv) \ {k}
  BY <1>2, <1>3 DEF owing
<1> QED
  BY <1>1, <1>2, <1>3, <1>5, <1>6 DEF sv2

\* A new count leaves the table alone (sv.pending++, sv.pending--).
LEMMA Recounted ==
    ASSUME NEW sv, NEW n, Table(sv)
    PROVE  /\ Table([sv EXCEPT !.pending = n])
           /\ [sv EXCEPT !.pending = n].pending = n
           /\ SameNet(sv, [sv EXCEPT !.pending = n])
           /\ known([sv EXCEPT !.pending = n]) = known(sv)
           /\ [sv EXCEPT !.pending = n].hosts = sv.hosts
           /\ owing([sv EXCEPT !.pending = n]) = owing(sv)
  BY DEF Table, known, owing, SameNet

\* The reply that was due is taken back from the count, and nothing else changes.
LEMMA Cancelled ==
    ASSUME NEW sv, NEW l, Table(sv)
    PROVE  /\ Table(cancel(sv, l))
           /\ cancel(sv, l).pending = IF owed(client(sv, l)) THEN sv.pending - 1 ELSE sv.pending
           /\ SameNet(sv, cancel(sv, l))
           /\ known(cancel(sv, l)) = known(sv)
           /\ cancel(sv, l).hosts = sv.hosts
           /\ owing(cancel(sv, l)) = owing(sv)
<1> DEFINE n == IF owed(client(sv, l)) THEN sv.pending - 1 ELSE sv.pending
<1>1. cancel(sv, l) = [sv EXCEPT !.pending = n]
  BY DEF cancel
<1> HIDE DEF n
<1>2. /\ Table([sv EXCEPT !.pending = n])
      /\ [sv EXCEPT !.pending = n].pending = n
      /\ SameNet(sv, [sv EXCEPT !.pending = n])
      /\ known([sv EXCEPT !.pending = n]) = known(sv)
      /\ [sv EXCEPT !.pending = n].hosts = sv.hosts
      /\ owing([sv EXCEPT !.pending = n]) = owing(sv)
  BY Recounted
<1> QED
  BY <1>1, <1>2 DEF n

\* What is left of the count, for a host that was found and for one that was not.
LEMMA CancelledCount ==
    ASSUME NEW sv, NEW l, NEW x \in Nat, Excess(sv, x), Filed(sv, l)
    PROVE  /\ l.found => cancel(sv, l).pending = Cardinality(owing(sv) \ {l.key}) + x
           /\ ~l.found => cancel(sv, l).pending = Cardinality(owing(sv)) + x
<1>1. Table(sv) /\ sv.pending = Cardinality(owing(sv)) + x
  BY DEF Excess
<1>2. cancel(sv, l).pending = IF owed(client(sv, l)) THEN sv.pending - 1 ELSE sv.pending
  BY <1>1, Cancelled
<1>3. l.found => (owed(client(sv, l)) <=> l.key \in owing(sv))
  BY DEF client, owing, Filed
<1>4. ~l.found => ~owed(client(sv, l))
  BY DEF owed, client, NoEntry
<1>5. IsFiniteSet(owing(sv)) /\ Cardinality(owing(sv)) \in Nat
  BY <1>1, OwingIsFinite
<1>6. Cardinality(owing(sv) \ {l.key}) =
        IF l.key \in owing(sv) THEN Cardinality(owing(sv)) - 1 ELSE Cardinality(owing(sv))
  BY <1>5, FS_RemoveElement
<1> QED
  BY <1>1, <1>2, <1>3, <1>4, <1>5, <1>6
-----------------------------------------------------------------------------
\* An offer is due to the host, once (Server.Demux, MsgDiscover).
LEMMA OfferKeeps ==
    ASSUME NEW sv, NEW l, NEW addr, NEW m, NEW x \in Nat, Excess(sv, x), Filed(sv, l),
           l.found => addr = sv.hosts[l.key].addr
    PROVE  Kept(sv, l, offerTo(sv, l, addr, m), x)
<1> DEFINE k  == l.key
           c  == cancel(sv, l)
           c1 == [c EXCEPT !.pending = c.pending + 1]
           e  == [addr |-> addr, xid |-> m.xid, hw |-> m.chaddr, state |-> "init"]
<1>1. offerTo(sv, l, addr, m) = store(c1, k, e)
  BY DEF offerTo
<1>2. {"addr", "state", "hw"} \subseteq DOMAIN e /\ owed(e) /\ e.addr = addr
  BY DEF owed
<1>3. /\ Table(sv) /\ Table(c)
      /\ known(c) = known(sv) /\ c.hosts = sv.hosts /\ owing(c) = owing(sv)
  BY Cancelled DEF Excess
<1>4. /\ l.found => c.pending = Cardinality(owing(sv) \ {k}) + x
      /\ ~l.found => c.pending = Cardinality(owing(sv)) + x
  BY CancelledCount
<1> HIDE DEF c, e
<1>5. /\ Table(c1) /\ c1.pending = c.pending + 1
      /\ known(c1) = known(sv) /\ c1.hosts = sv.hosts /\ owing(c1) = owing(sv)
  BY <1>3, Recounted
<1> HIDE DEF c1, k
<1> DEFINE sv2 == store(c1, k, e)
<1>6. /\ Table(sv2) /\ sv2.pending = c1.pending
      /\ known(sv2) = known(c1) \cup {k}
      /\ \A j \in known(c1) \cup {k} : sv2.hosts[j] = IF j = k THEN e ELSE c1.hosts[j]
      /\ owing(sv2) = IF owed(e) THEN owing(c1) \cup {k} ELSE owing(c1) \ {k}
  BY <1>2, <1>5, Stored
<1> HIDE DEF sv2
<1>7. owing(sv2) = owing(sv) \cup {k}
  BY <1>2, <1>5, <1>6
<1>8. IsFiniteSet(owing(sv)) /\ IsFiniteSet(owing(sv) \ {k}) /\ Cardinality(owing(sv)) \in Nat
  BY <1>3, OwingIsFinite, FS_RemoveElement
<1>9. /\ Cardinality((owing(sv) \ {k}) \cup {k}) = Cardinality(owing(sv) \ {k}) + 1
      /\ Cardinality(owing(sv) \ {k}) \in Nat
  BY <1>8, FS_AddElement, FS_CardinalityType
<1>10. Cardinality(owing(sv) \cup {k}) = Cardinality(owing(sv) \ {k}) + 1
  <2>1. owing(sv) \cup {k} = (owing(sv) \ {k}) \cup {k}
    OBVIOUS
  <2> QED BY <1>9, <2>1, Zenon
<1>11. Excess(sv2, x) \/ (filedOver(sv, l) /\ Excess(sv2, x + 1))
  <2>1. CASE l.found
    <3>1. sv2.pending = Cardinality(owing(sv) \cup {k}) + x
      <4>1. sv2.pending = Cardinality(owing(sv) \ {k}) + x + 1
        BY <1>4, <1>5, <1>6, <2>1 DEF k
      <4> QED BY <1>9, <1>10, <4>1
    <3> QED BY <1>6, <1>7, <3>1 DEF Excess
  <2>2. CASE ~l.found /\ k \notin owing(sv)
    <3>1. owing(sv) \ {k} = owing(sv)
      BY <2>2
    <3>2. sv2.pending = Cardinality(owing(sv) \cup {k}) + x
      <4>1. sv2.pending = Cardinality(owing(sv)) + x + 1
        BY <1>4, <1>5, <1>6, <2>2
      <4>2. Cardinality(owing(sv) \cup {k}) = Cardinality(owing(sv)) + 1
        BY <1>10, <3>1, Zenon
      <4> QED BY <1>8, <4>1, <4>2
    <3> QED BY <1>6, <1>7, <3>2 DEF Excess
  <2>3. CASE ~l.found /\ k \in owing(sv)
    <3>1. owing(sv) \cup {k} = owing(sv)
      BY <2>3
    <3>2. sv2.pending = Cardinality(owing(sv)) + (x + 1)
      BY <1>4, <1>5, <1>6, <1>8, <2>3
    <3>3. filedOver(sv, l)
      BY <2>3 DEF filedOver, owing, k
    <3> QED BY <1>6, <1>7, <3>1, <3>2, <3>3 DEF Excess
  <2> QED BY <2>1, <2>2, <2>3
<1>12. SameAddresses(sv, sv2)
  BY <1>2, <1>5, <1>6 DEF SameAddresses, Filed, k
<1> QED
  BY <1>1, <1>11, <1>12 DEF Kept, sv2

\* The allocation moves nothing but the counter of addresses (Server.allocAddr).
LEMMA AllocKeeps ==
    ASSUME NEW sv, NEW req, Table(sv)
    PROVE  LET sv2 == allocAddr(sv, req).sv
           IN  /\ Table(sv2) /\ known(sv2) = known(sv) /\ sv2.hosts = sv.hosts
               /\ \A x : Excess(sv, x) => Excess(sv2, x)
<1>1. PICK a : allocAddr(sv, req).sv = sv \/ allocAddr(sv, req).sv = [sv EXCEPT !.nextAddr = a]
  BY Zenon DEF allocAddr, advance
<1>2. \A b : LET sv2 == [sv EXCEPT !.nextAddr = b]
             IN  /\ DOMAIN sv2 = DOMAIN sv /\ sv2.hosts = sv.hosts /\ sv2.pending = sv.pending
  BY DEF Table
<1> QED
  BY <1>1, <1>2 DEF Excess, Table, known, owing

\* A discover of a known or of a new host keeps the count (Server.Demux, MsgDiscover).
LEMMA DiscoverKeeps ==
    ASSUME NEW sv, NEW l, NEW m, NEW x \in Nat, Excess(sv, x), Filed(sv, l)
    PROVE  Kept(sv, l, discover(sv, l, m), x)
<1>1. CASE l.found
  BY <1>1, OfferKeeps DEF discover, client
<1>2. CASE ~l.found
  <2> DEFINE a == allocAddr(sv, m.req)
  <2>1. discover(sv, l, m) = IF a.addr = NoAddr THEN a.sv ELSE offerTo(a.sv, l, a.addr, m)
    BY <1>2 DEF discover
  <2>2. Excess(a.sv, x) /\ known(a.sv) = known(sv) /\ a.sv.hosts = sv.hosts
    BY AllocKeeps DEF Excess
  <2> HIDE DEF a
  <2>3. Filed(a.sv, l)
    BY <2>2 DEF Filed
  <2>4. Kept(a.sv, l, offerTo(a.sv, l, a.addr, m), x)
    BY <1>2, <2>2, <2>3, OfferKeeps
  <2>5. Kept(sv, l, offerTo(a.sv, l, a.addr, m), x)
    BY <2>2, <2>4, Zenon DEF Kept, SameAddresses, filedOver
  <2>6. Kept(sv, l, a.sv, x)
    BY <2>2, Zenon DEF Kept, SameAddresses
  <2> QED
    BY <2>1, <2>5, <2>6
<1> QED
  BY <1>1, <1>2

\* A new state of a known host, with the count to match.
restate(sv, k, n, st) ==
    store([sv EXCEPT !.pending = n], k, [sv.hosts[k] EXCEPT !.state = st])

\* It keeps the count and the address.
LEMMA Restated ==
    ASSUME NEW sv, NEW k \in known(sv), NEW n, NEW st, NEW x, Table(sv),
           n = Cardinality(IF st \in {"init", "requesting"} THEN owing(sv) \cup {k}
                           ELSE owing(sv) \ {k}) + x
    PROVE  /\ Excess(restate(sv, k, n, st), x)
           /\ SameAddresses(sv, restate(sv, k, n, st))
<1> DEFINE c == [sv EXCEPT !.pending = n]
           e == [sv.hosts[k] EXCEPT !.state = st]
<1>1. /\ {"addr", "state", "hw"} \subseteq DOMAIN e
      /\ e.addr = sv.hosts[k].addr
      /\ owed(e) <=> st \in {"init", "requesting"}
  BY DEF Table, owed
<1>2. /\ Table(c) /\ c.pending = n
      /\ known(c) = known(sv) /\ c.hosts = sv.hosts /\ owing(c) = owing(sv)
  BY Recounted
<1> HIDE DEF c, e
<1>3. /\ Table(store(c, k, e)) /\ store(c, k, e).pending = c.pending
      /\ known(store(c, k, e)) = known(c) \cup {k}
      /\ \A j \in known(c) \cup {k} :
            store(c, k, e).hosts[j] = IF j = k THEN e ELSE c.hosts[j]
      /\ owing(store(c, k, e)) = IF owed(e) THEN owing(c) \cup {k} ELSE owing(c) \ {k}
  BY <1>1, <1>2, Stored
<1>4. Excess(store(c, k, e), x) /\ SameAddresses(sv, store(c, k, e))
  BY <1>1, <1>2, <1>3 DEF Excess, SameAddresses
<1> QED
  BY <1>4 DEF c, e, restate

\* A request adds one answer when the host was offered its address (Server.Demux, MsgRequest).
LEMMA RequestKeeps ==
    ASSUME NEW sv, NEW l, NEW m, NEW x \in Nat, Excess(sv, x), Filed(sv, l)
    PROVE  Kept(sv, l, request(sv, l, m), x)
<1>1. CASE request(sv, l, m) = sv
  BY <1>1 DEF Kept, SameAddresses
<1>2. CASE request(sv, l, m) # sv
  <2> DEFINE n == sv.pending + 1
             k == l.key
  <2>1. /\ k \in known(sv) /\ sv.hosts[k].state = "selecting"
        /\ request(sv, l, m) = restate(sv, k, n, "requesting")
    BY <1>2 DEF request, restate, client, Filed
  <2> HIDE DEF k
  <2>2. k \notin owing(sv)
    BY <2>1 DEF owing, owed
  <2>3. Table(sv) /\ n = Cardinality(owing(sv) \cup {k}) + x
    <3>1. IsFiniteSet(owing(sv)) /\ Cardinality(owing(sv)) \in Nat
      BY OwingIsFinite DEF Excess
    <3>2. Cardinality(owing(sv) \cup {k}) = Cardinality(owing(sv)) + 1
      BY <2>2, <3>1, FS_AddElement
    <3> QED BY <3>1, <3>2 DEF Excess
  <2> HIDE DEF n
  <2>4. /\ Excess(restate(sv, k, n, "requesting"), x)
        /\ SameAddresses(sv, restate(sv, k, n, "requesting"))
    BY <2>1, <2>3, Restated, Zenon
  <2> QED
    BY <2>1, <2>4, Zenon DEF Kept
<1> QED
  BY <1>1, <1>2

\* A release takes its answer along (Server.Demux, MsgRelease).
LEMMA ReleaseKeeps ==
    ASSUME NEW sv, NEW l, NEW x \in Nat, Excess(sv, x), Filed(sv, l)
    PROVE  Kept(sv, l, release(sv, l), x)
<1> DEFINE k == l.key
<1>0. Table(sv) /\ sv.pending = Cardinality(owing(sv)) + x
  BY DEF Excess
<1>1. CASE l.found
  <2> DEFINE c == cancel(sv, l)
  <2>1. release(sv, l) = forget(c, k)
    BY <1>1 DEF release
  <2>2. /\ Table(c) /\ c.pending = Cardinality(owing(sv) \ {k}) + x
        /\ known(c) = known(sv) /\ c.hosts = sv.hosts /\ owing(c) = owing(sv)
    BY <1>0, <1>1, Cancelled, CancelledCount
  <2> HIDE DEF c, k
  <2>3. /\ Table(forget(c, k)) /\ forget(c, k).pending = c.pending
        /\ known(forget(c, k)) = known(c) \ {k}
        /\ \A j \in known(c) \ {k} : forget(c, k).hosts[j] = c.hosts[j]
        /\ owing(forget(c, k)) = owing(c) \ {k}
    BY <2>2, Forgotten
  <2>4. Excess(forget(c, k), x)
    BY <2>2, <2>3 DEF Excess
  <2>5. SameAddresses(sv, forget(c, k))
    BY <2>2, <2>3 DEF SameAddresses
  <2> QED
    BY <2>1, <2>4, <2>5, Zenon DEF Kept
<1>2. CASE ~l.found
  <2> DEFINE e == NoEntry
             sv2 == store(sv, k, e)
  <2>1. release(sv, l) = sv2
    BY <1>2 DEF release
  <2>2. {"addr", "state", "hw"} \subseteq DOMAIN e /\ ~owed(e)
    BY DEF NoEntry, owed
  <2>3. k \in known(sv) => k = ZeroKey /\ filedOver(sv, l)
    BY <1>2 DEF Filed, filedOver
  <2> HIDE DEF e, k
  <2>4. /\ Table(sv2) /\ sv2.pending = sv.pending
        /\ known(sv2) = known(sv) \cup {k}
        /\ \A j \in known(sv) \cup {k} : sv2.hosts[j] = IF j = k THEN e ELSE sv.hosts[j]
        /\ owing(sv2) = IF owed(e) THEN owing(sv) \cup {k} ELSE owing(sv) \ {k}
    BY <1>0, <2>2, Stored
  <2> HIDE DEF sv2
  <2>5. IsFiniteSet(owing(sv)) /\ Cardinality(owing(sv)) \in Nat
    BY <1>0, OwingIsFinite
  <2>6. Cardinality(owing(sv) \ {k}) =
          IF k \in owing(sv) THEN Cardinality(owing(sv)) - 1 ELSE Cardinality(owing(sv))
    BY <2>5, FS_RemoveElement
  <2>7. Excess(sv2, x) \/ (k \in owing(sv) /\ Excess(sv2, x + 1))
    BY <1>0, <2>2, <2>4, <2>5, <2>6 DEF Excess
  <2>8. k \in owing(sv) => filedOver(sv, l)
    BY <2>3 DEF owing
  <2>9. SameAddresses(sv, sv2)
    BY <2>3, <2>4 DEF SameAddresses
  <2> QED
    BY <2>1, <2>7, <2>8, <2>9 DEF Kept
<1> QED
  BY <1>1, <1>2

\* Whatever a message asks, the count stays and known hosts keep their addresses (Server.Demux).
LEMMA DemuxKeeps ==
    ASSUME NEW sv, NEW l, NEW m, NEW x \in Nat, Excess(sv, x), Filed(sv, l)
    PROVE  Kept(sv, l, Demux(sv, l, m), x)
<1>1. CASE m.type = "discover"
  BY <1>1, DiscoverKeeps DEF Demux
<1>2. CASE m.type = "request"
  BY <1>2, RequestKeeps DEF Demux
<1>3. CASE m.type = "release"
  BY <1>3, ReleaseKeeps DEF Demux
<1>4. CASE m.type \notin {"discover", "request", "release"}
  BY <1>4 DEF Demux, Kept, SameAddresses
<1> QED
  BY <1>1, <1>2, <1>3, <1>4

\* A lookup by identifier, hardware address or claimed address (Server.Demux, getClientByIP).
LEMMA LookupFiles ==
    ASSUME NEW sv, NEW m, NEW l \in lookups(sv, m)
    PROVE  Filed(sv, l)
<1> DEFINE key == IF m.cid = ZeroKey THEN m.chaddr ELSE m.cid
<1>1. CASE l = [key |-> key, found |-> key \in known(sv)]
  <2>1. l.key = key /\ (l.found <=> key \in known(sv))
    BY <1>1
  <2> QED BY <2>1 DEF Filed
<1>2. CASE \E k \in holders(sv, m.ciaddr) : l = [key |-> k, found |-> TRUE]
  <2>1. l.key \in known(sv) /\ l.found
    BY <1>2 DEF holders
  <2> QED BY <2>1 DEF Filed
<1>3. CASE l = [key |-> ZeroKey, found |-> FALSE]
  <2>1. l.key = ZeroKey /\ ~l.found
    BY <1>3
  <2> QED BY <2>1 DEF Filed
<1> QED
  BY <1>1, <1>2, <1>3, Zenon DEF lookups

\* An answer that goes out is counted off (Server.Encapsulate).
LEMMA EncapsulateKeeps ==
    ASSUME NEW sv, NEW k \in pendingHosts(sv), NEW x \in Nat, Excess(sv, x)
    PROVE  Excess(Encapsulate(sv, k), x) /\ SameAddresses(sv, Encapsulate(sv, k))
<1> DEFINE n  == sv.pending - 1
           st == IF sv.hosts[k].state = "init" THEN "selecting" ELSE "bound"
<1>1. k \in known(sv) /\ k \in owing(sv)
  BY DEF pendingHosts, owing
<1>2. Encapsulate(sv, k) = restate(sv, k, n, st)
  BY DEF Encapsulate, restate
<1>3. Table(sv) /\ n = Cardinality(owing(sv) \ {k}) + x
  <2>1. IsFiniteSet(owing(sv)) /\ Cardinality(owing(sv)) \in Nat
    BY OwingIsFinite DEF Excess
  <2>2. Cardinality(owing(sv) \ {k}) = Cardinality(owing(sv)) - 1
    BY <1>1, <2>1, FS_RemoveElement, Zenon
  <2> QED
    BY <2>1, <2>2 DEF Excess
<1>4. st \notin {"init", "requesting"}
  OBVIOUS
<1> HIDE DEF n, st
<1> QED
  BY <1>1, <1>2, <1>3, <1>4, Restated, Zenon

\* A server starts with an empty table (Server.Configure).
LEMMA ConfigureIs ==
    ASSUME NEW cfg
    PROVE  Excess(Configure(cfg), 0)
<1> DEFINE sv == Configure(cfg)
<1>1. /\ {"hosts", "pending", "nextAddr", "subnet", "siaddr"} \subseteq DOMAIN sv
      /\ sv.hosts = <<>> /\ sv.pending = 0
  BY DEF Configure
<1>2. known(sv) = {}
  BY <1>1 DEF known
<1> HIDE DEF sv
<1>3. owing(sv) = {}
  BY <1>2 DEF owing
<1>4. Excess(sv, 0)
  BY <1>1, <1>2, <1>3, FS_EmptySet DEF Excess, Table
<1> QED
  BY <1>4 DEF sv
-----------------------------------------------------------------------------
\* Entry e is under k, and the others stay.
Wrote(sv, sv2, k, e) ==
    /\ known(sv2) = known(sv) \cup {k}
    /\ \A j \in known(sv2) : sv2.hosts[j] = IF j = k THEN e ELSE sv.hosts[j]

\* A new host asked for an address that is free.
Chooses(sv, l, m) == m.type = "discover" /\ ~l.found /\ prefers(sv, m.req)

\* A known host, and what becomes of its entry.
Renews(sv, sv2, k, hw) ==
    \E e : Wrote(sv, sv2, k, e) /\ e.addr = sv.hosts[k].addr /\ e.hw \in {sv.hosts[k].hw, hw}

Forgets(sv, sv2, k) ==
    known(sv2) = known(sv) \ {k} /\ \A j \in known(sv2) : sv2.hosts[j] = sv.hosts[j]

\* A new host, with the address it chose or the counter's, or without one.
Admits(sv, sv2, k, addr, hw) == \E e : Wrote(sv, sv2, k, e) /\ e.addr = addr /\ e.hw = hw

\* What Demux does to the server, as far as addresses go.
Effect(sv, sv2, l, m) ==
    \/ /\ SameNet(sv, sv2)
       /\ \/ sv2.hosts = sv.hosts
          \/ l.key \in known(sv) /\ Renews(sv, sv2, l.key, m.chaddr)
          \/ l.found /\ m.type = "release" /\ Forgets(sv, sv2, l.key)
          \/ ~l.found /\ Admits(sv, sv2, l.key, NoAddr, ZeroKey)
          \/ Chooses(sv, l, m) /\ Admits(sv, sv2, l.key, m.req, m.chaddr)
    \/ /\ ~l.found /\ ~Chooses(sv, l, m)
       /\ SameNet(advance(sv), sv2)
       /\ \/ sv2.hosts = sv.hosts
          \/ sv.nextAddr # NoAddr /\ Admits(sv, sv2, l.key, sv.nextAddr, m.chaddr)

\* An offer writes the entry of the host, and nothing else (Server.Demux, MsgDiscover).
LEMMA OfferWrites ==
    ASSUME NEW sv, NEW l, NEW addr, NEW m, Table(sv)
    PROVE  /\ SameNet(sv, offerTo(sv, l, addr, m))
           /\ Admits(sv, offerTo(sv, l, addr, m), l.key, addr, m.chaddr)
<1> DEFINE k  == l.key
           c  == cancel(sv, l)
           c1 == [c EXCEPT !.pending = c.pending + 1]
           e  == [addr |-> addr, xid |-> m.xid, hw |-> m.chaddr, state |-> "init"]
<1>1. offerTo(sv, l, addr, m) = store(c1, k, e)
  BY DEF offerTo
<1>2. {"addr", "state", "hw"} \subseteq DOMAIN e /\ e.addr = addr /\ e.hw = m.chaddr
  OBVIOUS
<1>3. Table(c) /\ known(c) = known(sv) /\ c.hosts = sv.hosts /\ SameNet(sv, c)
  BY Cancelled, Zenon
<1> HIDE DEF c, e
<1>4. Table(c1) /\ known(c1) = known(sv) /\ c1.hosts = sv.hosts /\ SameNet(c, c1)
  BY <1>3, Recounted
<1> HIDE DEF c1
<1>5. /\ SameNet(c1, store(c1, k, e)) /\ known(store(c1, k, e)) = known(c1) \cup {k}
      /\ \A j \in known(c1) \cup {k} : store(c1, k, e).hosts[j] = IF j = k THEN e ELSE c1.hosts[j]
  BY <1>2, <1>4, Stored
<1>6. SameNet(sv, store(c1, k, e))
  BY <1>3, <1>4, <1>5, Zenon DEF SameNet
<1>7. Wrote(sv, store(c1, k, e), k, e)
  BY <1>4, <1>5, Zenon DEF Wrote
<1> QED BY <1>1, <1>2, <1>6, <1>7, Zenon DEF Admits

\* So does a new state of a known host.
LEMMA RestateWrites ==
    ASSUME NEW sv, NEW k \in known(sv), NEW n, NEW st, NEW hw, Table(sv)
    PROVE  SameNet(sv, restate(sv, k, n, st)) /\ Renews(sv, restate(sv, k, n, st), k, hw)
<1> DEFINE c == [sv EXCEPT !.pending = n]
           e == [sv.hosts[k] EXCEPT !.state = st]
<1>1. {"addr", "state", "hw"} \subseteq DOMAIN e /\ e.addr = sv.hosts[k].addr /\ e.hw = sv.hosts[k].hw
  BY DEF Table
<1>2. Table(c) /\ known(c) = known(sv) /\ c.hosts = sv.hosts /\ SameNet(sv, c)
  BY Recounted
<1> HIDE DEF c, e
<1>3. /\ SameNet(c, store(c, k, e)) /\ known(store(c, k, e)) = known(c) \cup {k}
      /\ \A j \in known(c) \cup {k} : store(c, k, e).hosts[j] = IF j = k THEN e ELSE c.hosts[j]
  BY <1>1, <1>2, Stored
<1>4. SameNet(sv, store(c, k, e)) /\ Wrote(sv, store(c, k, e), k, e)
  BY <1>2, <1>3, Zenon DEF SameNet, Wrote
<1>5. Renews(sv, store(c, k, e), k, hw)
  BY <1>1, <1>4, Zenon DEF Renews
<1> QED BY <1>4, <1>5 DEF c, e, restate

\* What a discover does (Server.Demux, MsgDiscover).
LEMMA DiscoverEffect ==
    ASSUME NEW sv, NEW l, NEW m, Table(sv), Filed(sv, l), m.type = "discover"
    PROVE  Effect(sv, discover(sv, l, m), l, m)
<1>1. CASE l.found
  <2> DEFINE sv2 == offerTo(sv, l, sv.hosts[l.key].addr, m)
  <2>1. discover(sv, l, m) = sv2 /\ l.key \in known(sv)
    BY <1>1 DEF discover, client, Filed
  <2>2. SameNet(sv, sv2) /\ Admits(sv, sv2, l.key, sv.hosts[l.key].addr, m.chaddr)
    BY OfferWrites
  <2> HIDE DEF sv2
  <2>3. Renews(sv, sv2, l.key, m.chaddr)
    BY <2>2, Zenon DEF Admits, Renews
  <2> QED
    BY <2>1, <2>2, <2>3, Zenon DEF Effect
<1>2. CASE Chooses(sv, l, m)
  <2> DEFINE sv2 == offerTo(sv, l, m.req, m)
  <2>1. ~l.found /\ prefers(sv, m.req) /\ m.req # NoAddr
    BY <1>2 DEF Chooses, prefers
  <2>2. discover(sv, l, m) = sv2
    BY <2>1 DEF discover, allocAddr
  <2>3. SameNet(sv, sv2) /\ Admits(sv, sv2, l.key, m.req, m.chaddr)
    BY OfferWrites
  <2> QED
    BY <1>2, <2>2, <2>3, Zenon DEF Effect
<1>3. CASE ~l.found /\ ~Chooses(sv, l, m)
  <2> DEFINE ad == advance(sv)
             addr == IF P!isBroadcast(sv.subnet, sv.nextAddr) THEN NoAddr ELSE sv.nextAddr
             sv2 == offerTo(ad, l, addr, m)
  <2>1. ~prefers(sv, m.req)
    BY <1>3 DEF Chooses
  <2>2. allocAddr(sv, m.req).sv = ad /\ allocAddr(sv, m.req).addr = addr
    BY <2>1 DEF allocAddr
  <2>3. Table(ad) /\ known(ad) = known(sv) /\ ad.hosts = sv.hosts
    BY <2>2, AllocKeeps
  <2>4. discover(sv, l, m) = IF addr = NoAddr THEN ad ELSE sv2
    BY <1>3, <2>2, Zenon DEF discover
  <2>5. addr # NoAddr => addr = sv.nextAddr
    OBVIOUS
  <2> HIDE DEF ad, addr
  <2>6. SameNet(ad, sv2) /\ Admits(ad, sv2, l.key, addr, m.chaddr)
    BY <2>3, OfferWrites
  <2> HIDE DEF sv2
  <2>7. Admits(sv, sv2, l.key, addr, m.chaddr)
    BY <2>3, <2>6, Zenon DEF Admits, Wrote
  <2>8. SameNet(ad, ad)
    BY DEF SameNet
  <2> QED
    BY <1>3, <2>3, <2>4, <2>5, <2>6, <2>7, <2>8 DEF Effect, ad
<1> QED
  BY <1>1, <1>2, <1>3

\* What a message does (Server.Demux).
LEMMA DemuxEffect ==
    ASSUME NEW sv, NEW l, NEW m, Table(sv), Filed(sv, l)
    PROVE  Effect(sv, Demux(sv, l, m), l, m)
<1>0. SameNet(sv, sv)
  BY DEF SameNet
<1>1. CASE m.type = "discover"
  BY <1>1, DiscoverEffect DEF Demux
<1>2. CASE Demux(sv, l, m) = sv
  BY <1>0, <1>2, Zenon DEF Effect
<1>3. CASE m.type = "request" /\ Demux(sv, l, m) # sv
  <2> DEFINE n == sv.pending + 1
             sv2 == restate(sv, l.key, n, "requesting")
  <2>1. l.key \in known(sv) /\ Demux(sv, l, m) = sv2
    BY <1>3 DEF Demux, request, restate, client, Filed
  <2>2. SameNet(sv, sv2) /\ Renews(sv, sv2, l.key, m.chaddr)
    BY <2>1, RestateWrites
  <2> QED
    BY <2>1, <2>2, Zenon DEF Effect
<1>4. CASE m.type = "release" /\ l.found
  <2> DEFINE k == l.key
             c == cancel(sv, l)
             sv2 == forget(c, k)
  <2>1. Demux(sv, l, m) = sv2
    BY <1>4 DEF Demux, release
  <2>2. Table(c) /\ SameNet(sv, c) /\ known(c) = known(sv) /\ c.hosts = sv.hosts
    BY Cancelled, Zenon
  <2> HIDE DEF c
  <2>3. /\ SameNet(c, sv2) /\ known(sv2) = known(c) \ {k}
        /\ \A j \in known(c) \ {k} : sv2.hosts[j] = c.hosts[j]
    BY <2>2, Forgotten
  <2> HIDE DEF sv2
  <2>4. SameNet(sv, sv2) /\ Forgets(sv, sv2, k)
    BY <2>2, <2>3, Zenon DEF SameNet, Forgets
  <2> QED
    BY <1>4, <2>1, <2>4, Zenon DEF Effect
<1>5. CASE m.type = "release" /\ ~l.found
  <2> DEFINE k == l.key
             e == NoEntry
             sv2 == store(sv, k, e)
  <2>1. Demux(sv, l, m) = sv2
    BY <1>5 DEF Demux, release
  <2>2. {"addr", "state", "hw"} \subseteq DOMAIN e /\ e.addr = NoAddr /\ e.hw = ZeroKey
    BY DEF NoEntry
  <2> HIDE DEF e
  <2>3. /\ SameNet(sv, sv2) /\ known(sv2) = known(sv) \cup {k}
        /\ \A j \in known(sv) \cup {k} : sv2.hosts[j] = IF j = k THEN e ELSE sv.hosts[j]
    BY <2>2, Stored
  <2> HIDE DEF sv2
  <2>4. Admits(sv, sv2, k, NoAddr, ZeroKey)
    BY <2>2, <2>3, Zenon DEF Admits, Wrote
  <2> QED
    BY <1>5, <2>1, <2>3, <2>4, Zenon DEF Effect
<1>6. CASE m.type \notin {"discover", "request", "release"}
  BY <1>2, <1>6 DEF Demux
<1> QED
  BY <1>1, <1>2, <1>3, <1>4, <1>5, <1>6

\* An answer that goes out leaves the addresses alone (Server.Encapsulate).
LEMMA EncapsulateEffect ==
    ASSUME NEW sv, NEW k \in pendingHosts(sv), Table(sv)
    PROVE  /\ k \in known(sv) /\ SameNet(sv, Encapsulate(sv, k))
           /\ Renews(sv, Encapsulate(sv, k), k, sv.hosts[k].hw)
<1> DEFINE n  == sv.pending - 1
           st == IF sv.hosts[k].state = "init" THEN "selecting" ELSE "bound"
<1>1. k \in known(sv)
  BY DEF pendingHosts
<1>2. Encapsulate(sv, k) = restate(sv, k, n, st)
  BY DEF Encapsulate, restate
<1> HIDE DEF n, st
<1> QED
  BY <1>1, <1>2, RestateWrites

-----------------------------------------------------------------------------
\* The addresses of a server in the order its counter gives them out, its own left out.
base(cfg) == P!addrBitmasked(cfg.subnet)
size(cfg) == P!hosts(cfg.subnet)
place(cfg, n) == base(cfg) + (IF n >= size(cfg) THEN n - size(cfg) ELSE n)
at(cfg, j) == place(cfg, cfg.addr - base(cfg) + 1 + j)

\* The server's address is one of its subnet, which has four or more.
Sensible(cfg) ==
    /\ cfg.subnet.addr \in Nat /\ size(cfg) \in Nat /\ size(cfg) >= 4
    /\ cfg.addr \in Nat \ {NoAddr} /\ P!Contains(cfg.subnet, cfg.addr)

\* A remainder below the divisor is the remainder.
LEMMA Remainder ==
    ASSUME NEW h \in Nat, h >= 1, NEW k \in Nat, NEW r \in 0 .. h - 1
    PROVE  (h * k + r) % h = r
  BY SMTT(60)

\* Every number is some multiples and a remainder.
LEMMA Division ==
    ASSUME NEW h \in Nat, h >= 1, NEW x \in Nat
    PROVE  \E k \in Nat : x - (x % h) = h * k /\ x % h \in 0 .. h - 1
<1>1. x \div h \in Int /\ x = h * (x \div h) + (x % h) /\ x % h \in 0 .. h - 1
  OBVIOUS
<1>2. x \div h \in Nat
  BY <1>1
<1>3. x - (x % h) = h * (x \div h)
  BY <1>1
<1> QED BY <1>1, <1>2, <1>3, Zenon

\* The subnet starts at a multiple of its size, and holds the server (Prefix.Contains).
LEMMA Geometry ==
    ASSUME NEW cfg, Sensible(cfg)
    PROVE  /\ size(cfg) \in Nat /\ size(cfg) >= 4 /\ base(cfg) \in Nat
           /\ \E k \in Nat : base(cfg) = size(cfg) * k
           /\ cfg.addr - base(cfg) \in 0 .. size(cfg) - 1
<1> DEFINE h == size(cfg)
           x == cfg.subnet.addr
           a == cfg.addr
<1>1. h \in Nat /\ h >= 4 /\ x \in Nat /\ a \in Nat
  BY DEF Sensible
<1>2. base(cfg) = x - (x % h)
  BY DEF base, size, P!addrBitmasked
<1>3. a - (a % h) = base(cfg)
  BY DEF base, size, Sensible, P!Contains
<1> HIDE DEF h, x, a
<1>4. PICK k \in Nat : x - (x % h) = h * k
  <2>1. h >= 1
    BY <1>1
  <2> QED BY <1>1, <2>1, Division, Zenon
<1>5. h * k \in Nat
  BY <1>1
<1>6. a % h \in 0 .. h - 1
  BY <1>1
<1>7. a - (a - (a % h)) \in 0 .. h - 1
  BY <1>1, <1>6
<1> QED BY <1>1, <1>2, <1>3, <1>4, <1>5, <1>7 DEF h, a

\* The next address is the one after, and the first comes after the last (Prefix.NextAddr).
LEMMA NextIs ==
    ASSUME NEW cfg, Sensible(cfg), NEW n \in 0 .. size(cfg) - 1
    PROVE  P!NextAddr(cfg.subnet, base(cfg) + n) =
             base(cfg) + (IF n + 1 = size(cfg) THEN 0 ELSE n + 1)
<1> DEFINE h == size(cfg)
           b == base(cfg)
           r == IF n + 1 = h THEN 0 ELSE n + 1
<1>1. h \in Nat /\ h >= 4 /\ b \in Nat
  BY Geometry
<1>2. PICK k \in Nat : b = h * k
  BY Geometry
<1>3. P!NextAddr(cfg.subnet, b + n) = b + ((b + n + 1) % h)
  BY DEF base, size, P!NextAddr
<1> HIDE DEF b, h
<1>4. (b + n + 1) % h = r
  <2>1. CASE n + 1 = h
    <3>1. b + n + 1 = h * (k + 1) + 0
      BY <1>1, <1>2, <2>1 DEF h
    <3>2. k + 1 \in Nat /\ 0 \in 0 .. h - 1
      BY <1>1
    <3>3. (h * (k + 1) + 0) % h = 0
      BY <1>1, <3>2, Remainder
    <3> QED BY <2>1, <3>1, <3>3
  <2>2. CASE n + 1 # h
    <3>1. b + n + 1 = h * k + (n + 1) /\ n + 1 \in 0 .. h - 1
      BY <1>1, <1>2, <2>2 DEF h
    <3>2. (h * k + (n + 1)) % h = n + 1
      <4>1. h >= 1
        BY <1>1
      <4> QED BY <1>1, <3>1, <4>1, Remainder, Zenon
    <3> QED BY <2>2, <3>1, <3>2
  <2> QED BY <2>1, <2>2
<1> QED BY <1>3, <1>4 DEF b, h

\* The addresses the counter gives out are all different and none is the server's.
LEMMA AtIs ==
    ASSUME NEW cfg, Sensible(cfg), NEW i \in 0 .. size(cfg) - 2, NEW j \in 0 .. size(cfg) - 2
    PROVE  at(cfg, j) # cfg.addr /\ (at(cfg, i) = at(cfg, j) => i = j)
<1> DEFINE h == size(cfg)
           b == base(cfg)
           a == cfg.addr
<1>1. h \in Nat /\ h >= 4 /\ b \in Nat /\ a - b \in 0 .. h - 1 /\ a \in Nat
  BY Geometry DEF Sensible
<1> QED BY <1>1 DEF at, place

\* The counter starts after the server's address (Server.Configure).
LEMMA FirstIs ==
    ASSUME NEW cfg, Sensible(cfg)
    PROVE  P!NextAddr(cfg.subnet, cfg.addr) = at(cfg, 0)
<1> DEFINE h == size(cfg)
           b == base(cfg)
           n == cfg.addr - b
<1>1. h \in Nat /\ h >= 4 /\ b \in Nat /\ n \in 0 .. h - 1 /\ cfg.addr \in Nat
  BY Geometry DEF Sensible
<1>2. P!NextAddr(cfg.subnet, b + n) = b + (IF n + 1 = h THEN 0 ELSE n + 1)
  BY <1>1, NextIs
<1>3. b + n = cfg.addr
  BY <1>1
<1>4. b + (IF n + 1 = h THEN 0 ELSE n + 1) = at(cfg, 0)
  <2>1. at(cfg, 0) = b + (IF n + 1 + 0 >= h THEN (n + 1 + 0) - h ELSE n + 1 + 0)
    BY Zenon DEF at, place
  <2> HIDE DEF n, h, b
  <2> QED BY <1>1, <2>1
<1> QED BY <1>2, <1>3, <1>4, Zenon

\* It steps from one address to the next, over the server's own (Server.allocAddr).
LEMMA AdvanceIs ==
    ASSUME NEW cfg, NEW sv, Sensible(cfg), Table(sv), sv.subnet = cfg.subnet, sv.siaddr = cfg.addr,
           NEW j \in 0 .. size(cfg) - 2, sv.nextAddr = at(cfg, j)
    PROVE  /\ advance(sv).nextAddr = at(cfg, IF j = size(cfg) - 2 THEN 0 ELSE j + 1)
           /\ advance(sv).subnet = sv.subnet /\ advance(sv).siaddr = sv.siaddr
<1> DEFINE h == size(cfg)
           b == base(cfg)
           d == cfg.addr - b
           n == IF d + 1 + j >= h THEN (d + 1 + j) - h ELSE d + 1 + j
           a == P!NextAddr(cfg.subnet, at(cfg, j))
           c == IF a = cfg.addr THEN P!NextAddr(cfg.subnet, a) ELSE a
<1>1. h \in Nat /\ h >= 4 /\ b \in Nat /\ d \in 0 .. h - 1 /\ cfg.addr \in Nat
  BY Geometry DEF Sensible
<1>2. advance(sv) = [sv EXCEPT !.nextAddr = c]
  BY DEF advance
<1>3. /\ advance(sv).nextAddr = c /\ advance(sv).subnet = sv.subnet
      /\ advance(sv).siaddr = sv.siaddr
  <2> HIDE DEF c
  <2> QED BY <1>2 DEF Table
<1>4. at(cfg, j) = b + n /\ n \in 0 .. h - 1
  BY <1>1 DEF at, place
<1>5. a = b + (IF n + 1 = h THEN 0 ELSE n + 1)
  <2> HIDE DEF n
  <2> QED BY <1>4, NextIs
<1>6. CASE j = h - 2
  <2>1. a = cfg.addr
    BY <1>1, <1>5, <1>6
  <2>2. c = at(cfg, 0)
    BY <2>1, FirstIs
  <2> QED BY <1>3, <1>6, <2>2
<1>7. CASE j # h - 2
  <2>1. j + 1 \in 0 .. h - 2
    BY <1>1, <1>7
  <2>2. a = at(cfg, j + 1)
    BY <1>1, <1>5, <1>7 DEF at, place
  <2>3. a # cfg.addr
    BY <2>1, <2>2, AtIs
  <2> QED BY <1>3, <1>7, <2>2, <2>3
<1> QED BY <1>6, <1>7

-----------------------------------------------------------------------------
\* The counter is not at the server's address, and no host has it.
Placed(sv, cfg) ==
    /\ sv.subnet = cfg.subnet /\ sv.siaddr = cfg.addr
    /\ \E j \in 0 .. size(cfg) - 2 : sv.nextAddr = at(cfg, j)
    /\ \A k \in known(sv) : sv.hosts[k].addr # sv.siaddr

\* No address, a chosen one or one of the first n of the counter.
Given(cfg, n, ch, a) == a = NoAddr \/ a \in ch \/ \E j \in 0 .. n - 1 : a = at(cfg, j)

\* Two hosts have two addresses, but for the chosen ones.
Apart(sv, ch) ==
    \A k, j \in known(sv) :
        k # j /\ sv.hosts[k].addr = sv.hosts[j].addr => sv.hosts[k].addr \in ch \cup {NoAddr}

\* After n moves of the counter the hosts have the first n addresses, each at most once, and
\* the addresses they chose.
Handed(sv, cfg, n, ch) ==
    /\ sv.nextAddr = at(cfg, IF n = size(cfg) - 1 THEN 0 ELSE n)
    /\ \A k \in known(sv) : Given(cfg, n, ch, sv.hosts[k].addr)
    /\ Apart(sv, ch)

\* A server starts so (Server.Configure).
LEMMA ConfigurePlaced ==
    ASSUME NEW cfg, Sensible(cfg)
    PROVE  Placed(Configure(cfg), cfg) /\ Handed(Configure(cfg), cfg, 0, {})
<1> DEFINE sv == Configure(cfg)
<1>1. /\ sv.subnet = cfg.subnet /\ sv.siaddr = cfg.addr /\ sv.hosts = <<>>
      /\ sv.nextAddr = P!NextAddr(cfg.subnet, cfg.addr)
  BY DEF Configure
<1>2. known(sv) = {}
  BY <1>1 DEF known
<1>3. sv.nextAddr = at(cfg, 0)
  BY <1>1, FirstIs
<1>4. size(cfg) \in Nat /\ size(cfg) >= 4
  BY DEF Sensible
<1> HIDE DEF sv
<1>5. Placed(sv, cfg) /\ Handed(sv, cfg, 0, {})
  BY <1>1, <1>2, <1>3, <1>4 DEF Placed, Handed, Apart
<1> QED BY <1>5 DEF sv

\* A step of the counter goes to another address, and to the next one.
LEMMA MovedOn ==
    ASSUME NEW cfg, NEW sv, NEW sv2, Sensible(cfg), Table(sv), Placed(sv, cfg), SameNet(advance(sv), sv2)
    PROVE  /\ sv2.subnet = cfg.subnet /\ sv2.siaddr = cfg.addr
           /\ \E j \in 0 .. size(cfg) - 2 : sv2.nextAddr = at(cfg, j)
           /\ sv2.nextAddr # sv.nextAddr
           /\ \A n \in Nat : n <= size(cfg) - 2 /\ sv.nextAddr = at(cfg, n)
                => sv2.nextAddr = at(cfg, IF n + 1 = size(cfg) - 1 THEN 0 ELSE n + 1)
<1> DEFINE h == size(cfg)
<1>1. h \in Nat /\ h >= 4
  BY DEF Sensible
<1>2. PICK j \in 0 .. h - 2 : sv.nextAddr = at(cfg, j)
  BY DEF Placed
<1> DEFINE i == IF j = h - 2 THEN 0 ELSE j + 1
<1>3. sv2.nextAddr = at(cfg, i) /\ sv2.subnet = cfg.subnet /\ sv2.siaddr = cfg.addr
  BY <1>2, AdvanceIs DEF Placed, SameNet
<1>4. i \in 0 .. h - 2 /\ i # j
  BY <1>1
<1> HIDE DEF i, h
<1>5. sv2.nextAddr # sv.nextAddr
  BY <1>2, <1>3, <1>4, AtIs DEF h
<1>6. ASSUME NEW n \in Nat, n <= h - 2, sv.nextAddr = at(cfg, n)
      PROVE  sv2.nextAddr = at(cfg, IF n + 1 = h - 1 THEN 0 ELSE n + 1)
  <2>1. n \in 0 .. h - 2
    BY <1>1, <1>6
  <2>2. n = j
    BY <1>2, <1>6, <2>1, AtIs, Zenon DEF h
  <2>3. i = IF n + 1 = h - 1 THEN 0 ELSE n + 1
    BY <1>1, <2>1, <2>2 DEF i
  <2> QED BY <1>3, <2>3, Zenon
<1> QED BY <1>3, <1>4, <1>5, <1>6 DEF h

\* No host is given the server's address, and the counter passes over it.
LEMMA EffectPlaced ==
    ASSUME NEW cfg, NEW sv, NEW sv2, NEW l, NEW m, Sensible(cfg), Table(sv), Placed(sv, cfg),
           Effect(sv, sv2, l, m)
    PROVE  Placed(sv2, cfg)
<1> DEFINE Free(a) == a # cfg.addr
           k == l.key
<1>1. Free(NoAddr)
  BY DEF Sensible
<1>2. Free(sv.nextAddr)
  BY AtIs DEF Placed
<1>3. Chooses(sv, l, m) => Free(m.req)
  BY DEF Chooses, prefers, Placed
<1>4. \A j \in known(sv) : Free(sv.hosts[j].addr)
  BY DEF Placed
<1>5. \A a, hw : Free(a) /\ Admits(sv, sv2, k, a, hw) => \A j \in known(sv2) : Free(sv2.hosts[j].addr)
  BY <1>4 DEF Admits, Wrote
<1>6. \A j \in known(sv2) : Free(sv2.hosts[j].addr)
  <2> HIDE DEF Free
  <2>1. CASE sv2.hosts = sv.hosts
    BY <1>4, <2>1 DEF known
  <2>2. CASE k \in known(sv) /\ Renews(sv, sv2, k, m.chaddr)
    BY <1>4, <2>2 DEF Renews, Wrote
  <2>3. CASE Forgets(sv, sv2, k)
    BY <1>4, <2>3 DEF Forgets
  <2> QED BY <1>1, <1>2, <1>3, <1>5, <2>1, <2>2, <2>3 DEF Effect
<1>7. /\ sv2.subnet = cfg.subnet /\ sv2.siaddr = cfg.addr
      /\ \E j \in 0 .. size(cfg) - 2 : sv2.nextAddr = at(cfg, j)
  <2>1. CASE SameNet(sv, sv2)
    BY <2>1, Zenon DEF SameNet, Placed
  <2>2. CASE SameNet(advance(sv), sv2)
    BY <2>2, MovedOn
  <2> QED BY <2>1, <2>2 DEF Effect
<1> QED BY <1>6, <1>7 DEF Placed

\* The hosts of a table after an entry with an address nobody has, or one that was chosen.
LEMMA AdmitApart ==
    ASSUME NEW sv, NEW sv2, NEW k, NEW a, NEW hw, NEW ch, Apart(sv, ch),
           Admits(sv, sv2, k, a, hw),
           a \in ch \cup {NoAddr} \/ \A j \in known(sv) : sv.hosts[j].addr # a
    PROVE  Apart(sv2, ch)
<1>1. PICK e : Wrote(sv, sv2, k, e) /\ e.addr = a
  BY DEF Admits
<1>2. \A j \in known(sv2) : j # k => j \in known(sv) /\ sv2.hosts[j].addr = sv.hosts[j].addr
  BY <1>1 DEF Wrote
<1>3. k \in known(sv2) => sv2.hosts[k].addr = a
  BY <1>1 DEF Wrote
<1> QED BY <1>2, <1>3 DEF Apart

\* The addresses of a table that gains none.
LEMMA HandedStays ==
    ASSUME NEW cfg, NEW sv, NEW sv2, NEW k, NEW hw, NEW n, NEW ch,
           \A j \in known(sv) : Given(cfg, n, ch, sv.hosts[j].addr), Apart(sv, ch),
           \/ sv2.hosts = sv.hosts
           \/ k \in known(sv) /\ Renews(sv, sv2, k, hw)
           \/ Forgets(sv, sv2, k)
    PROVE  (\A j \in known(sv2) : Given(cfg, n, ch, sv2.hosts[j].addr)) /\ Apart(sv2, ch)
<1>1. \A j \in known(sv2) : j \in known(sv) /\ sv2.hosts[j].addr = sv.hosts[j].addr
  <2>1. CASE sv2.hosts = sv.hosts
    BY <2>1 DEF known
  <2>2. CASE k \in known(sv) /\ Renews(sv, sv2, k, hw)
    BY <2>2 DEF Renews, Wrote
  <2>3. CASE Forgets(sv, sv2, k)
    BY <2>3 DEF Forgets
  <2> QED BY <2>1, <2>2, <2>3
<1>2. Apart(sv2, ch)
  BY <1>1 DEF Apart
<1> QED BY <1>1, <1>2

\* The counter's addresses go to one host each, but for those a host chose.
LEMMA EffectHanded ==
    ASSUME NEW cfg, NEW sv, NEW sv2, NEW l, NEW m, NEW n \in Nat, NEW n2, NEW ch, NEW ch2,
           Sensible(cfg), Table(sv), Placed(sv, cfg), Handed(sv, cfg, n, ch),
           Effect(sv, sv2, l, m), ch \subseteq ch2, Chooses(sv, l, m) => m.req \in ch2,
           n2 = (IF sv2.nextAddr # sv.nextAddr THEN n + 1 ELSE n), n2 <= size(cfg) - 1
    PROVE  Handed(sv2, cfg, n2, ch2)
<1> DEFINE h == size(cfg)
           k == l.key
<1>1. h \in Nat /\ h >= 4
  BY DEF Sensible
<1>2. \A j \in known(sv) : Given(cfg, n, ch2, sv.hosts[j].addr)
  BY DEF Handed, Given
<1>3. Apart(sv, ch2)
  BY DEF Handed, Apart
<1>4. \A a : a \in ch2 \cup {NoAddr} => Given(cfg, n, ch2, a)
  BY DEF Given
<1>5. CASE SameNet(sv, sv2)
  <2>1. n2 = n /\ sv2.nextAddr = sv.nextAddr
    BY <1>5 DEF SameNet
  <2>2. CASE \/ sv2.hosts = sv.hosts
             \/ k \in known(sv) /\ Renews(sv, sv2, k, m.chaddr)
             \/ Forgets(sv, sv2, k)
    <3>1. (\A j \in known(sv2) : Given(cfg, n, ch2, sv2.hosts[j].addr)) /\ Apart(sv2, ch2)
      BY <1>2, <1>3, <2>2, HandedStays
    <3> QED BY <2>1, <3>1, Zenon DEF Handed
  <2>3. ASSUME NEW a, NEW hw, a \in ch2 \cup {NoAddr}, Admits(sv, sv2, k, a, hw)
        PROVE  Handed(sv2, cfg, n2, ch2)
    <3>1. Apart(sv2, ch2)
      BY <1>3, <2>3, AdmitApart, Zenon
    <3>2. Given(cfg, n, ch2, a)
      BY <1>4, <2>3
    <3>3. \A j \in known(sv2) : Given(cfg, n, ch2, sv2.hosts[j].addr)
      BY <1>2, <2>3, <3>2 DEF Admits, Wrote
    <3> QED BY <2>1, <3>1, <3>3, Zenon DEF Handed
  <2>4. SameNet(advance(sv), sv2) => sv2.nextAddr # sv.nextAddr
    BY MovedOn
  <2>5. NoAddr \in ch2 \cup {NoAddr} /\ (Chooses(sv, l, m) => m.req \in ch2 \cup {NoAddr})
    OBVIOUS
  <2> QED BY <2>1, <2>2, <2>3, <2>4, <2>5 DEF Effect
<1>6. CASE SameNet(advance(sv), sv2)
  <2>1. sv2.nextAddr # sv.nextAddr
    BY <1>6, MovedOn
  <2>2. n2 = n + 1 /\ n <= h - 2 /\ n # h - 1 /\ n \in 0 .. h - 2
    BY <1>1, <2>1
  <2>3. sv.nextAddr = at(cfg, n)
    BY <2>2 DEF Handed
  <2>4. sv2.nextAddr = at(cfg, IF n2 = h - 1 THEN 0 ELSE n2)
    BY <1>6, <2>2, <2>3, MovedOn
  <2>5. \A a : Given(cfg, n, ch2, a) => Given(cfg, n2, ch2, a)
    BY <2>2 DEF Given
  <2>6. Given(cfg, n2, ch2, sv.nextAddr)
    BY <2>2, <2>3 DEF Given
  <2>7. CASE sv2.hosts = sv.hosts
    <3>1. (\A j \in known(sv2) : Given(cfg, n, ch2, sv2.hosts[j].addr)) /\ Apart(sv2, ch2)
      BY <1>2, <1>3, <2>7, HandedStays
    <3>2. \A j \in known(sv2) : Given(cfg, n2, ch2, sv2.hosts[j].addr)
      BY <2>5, <3>1
    <3> QED BY <2>4, <3>1, <3>2, Zenon DEF Handed
  <2>8. CASE sv.nextAddr # NoAddr /\ Admits(sv, sv2, k, sv.nextAddr, m.chaddr)
    <3>1. \A a : Given(cfg, n, ch2, a) /\ a \notin ch2 \cup {NoAddr} => a # sv.nextAddr
      <4> SUFFICES ASSUME NEW j \in 0 .. n - 1
                   PROVE  at(cfg, j) # at(cfg, n)
        BY <2>3 DEF Given
      <4>1. j \in 0 .. h - 2 /\ j # n
        BY <1>1, <2>2
      <4> QED BY <2>2, <4>1, AtIs
    <3>2. \/ sv.nextAddr \in ch2 \cup {NoAddr}
          \/ \A j \in known(sv) : sv.hosts[j].addr # sv.nextAddr
      BY <1>2, <3>1
    <3>3. Apart(sv2, ch2)
      BY <1>3, <2>8, <3>2, AdmitApart, Zenon
    <3>4. \A j \in known(sv2) : Given(cfg, n2, ch2, sv2.hosts[j].addr)
      BY <1>2, <2>5, <2>6, <2>8 DEF Admits, Wrote
    <3> QED BY <2>4, <3>3, <3>4, Zenon DEF Handed
  <2>9. SameNet(sv, sv2) => sv2.nextAddr = sv.nextAddr
    BY DEF SameNet
  <2> QED BY <2>1, <2>7, <2>8, <2>9 DEF Effect
<1> QED BY <1>5, <1>6 DEF Effect

\* An answer that goes out keeps it all (Server.Encapsulate).
LEMMA EncapsulatePlaced ==
    ASSUME NEW cfg, NEW sv, NEW k \in pendingHosts(sv), NEW n \in Nat, NEW ch, Sensible(cfg),
           Table(sv), Placed(sv, cfg)
    PROVE  /\ Placed(Encapsulate(sv, k), cfg)
           /\ Handed(sv, cfg, n, ch) /\ n <= size(cfg) - 1
              => Handed(Encapsulate(sv, k), cfg, n, ch)
<1> DEFINE sv2 == Encapsulate(sv, k)
           m == [type |-> "none", chaddr |-> sv.hosts[k].hw, req |-> NoAddr]
           l == [key |-> k, found |-> TRUE]
<1>1. k \in known(sv) /\ SameNet(sv, sv2) /\ Renews(sv, sv2, k, m.chaddr)
  BY EncapsulateEffect
<1>2. l.key = k /\ l.found
  OBVIOUS
<1> HIDE DEF sv2, m, l
<1>3. Effect(sv, sv2, l, m) /\ ~Chooses(sv, l, m)
  BY <1>1, <1>2, Zenon DEF Effect, Chooses
<1>4. n = IF sv2.nextAddr # sv.nextAddr THEN n + 1 ELSE n
  BY <1>1 DEF SameNet
<1>5. Placed(sv2, cfg)
  BY <1>3, EffectPlaced
<1>6. Handed(sv, cfg, n, ch) /\ n <= size(cfg) - 1 => Handed(sv2, cfg, n, ch)
  BY <1>3, <1>4, EffectHanded
<1> QED BY <1>5, <1>6 DEF sv2
-----------------------------------------------------------------------------
\* What the history records.
HistFields == {"acked", "moves", "chosen", "over", "lost", "restarted"}

\* The record of a message at a server.
LEMMA TracedIs ==
    ASSUME NEW h, NEW s, NEW x, NEW y, NEW w, NEW z, DOMAIN h = HistFields
    PROVE  LET h2 == [h EXCEPT !.moves[s] = x, !.chosen[s] = y, !.over[s] = w, !.lost = z]
           IN  /\ DOMAIN h2 = HistFields
               /\ h2.moves = [h.moves EXCEPT ![s] = x] /\ h2.chosen = [h.chosen EXCEPT ![s] = y]
               /\ h2.over = [h.over EXCEPT ![s] = w]
               /\ h2.lost = z /\ h2.acked = h.acked /\ h2.restarted = h.restarted
  BY Zenon DEF HistFields

\* A server's addresses are in order, after n moves of its counter and with the addresses ch
\* that hosts chose.
AddressOk(sv, cfg, n, ch) ==
    Placed(sv, cfg) /\ n \in Nat /\ (n <= size(cfg) - 1 => Handed(sv, cfg, n, ch))

\* A message keeps them in order (Server.Demux).
LEMMA DemuxOk ==
    ASSUME NEW cfg, NEW sv, NEW l, NEW m, NEW n, NEW ch, NEW n2, NEW ch2, Sensible(cfg), Table(sv),
           Filed(sv, l), AddressOk(sv, cfg, n, ch),
           n2 = (IF Demux(sv, l, m).nextAddr # sv.nextAddr THEN n + 1 ELSE n),
           ch2 = (IF Chooses(sv, l, m) THEN ch \cup {m.req} ELSE ch)
    PROVE  AddressOk(Demux(sv, l, m), cfg, n2, ch2)
<1> DEFINE sv2 == Demux(sv, l, m)
<1>1. Effect(sv, sv2, l, m)
  BY DemuxEffect
<1>2. n \in Nat /\ n2 \in Nat /\ n <= n2 /\ Placed(sv, cfg) /\ size(cfg) \in Nat
  BY DEF AddressOk, Sensible
<1> HIDE DEF sv2
<1>3. Placed(sv2, cfg)
  BY <1>1, <1>2, EffectPlaced
<1>4. ASSUME n2 <= size(cfg) - 1
      PROVE  Handed(sv2, cfg, n2, ch2)
  <2>1. n <= size(cfg) - 1
    BY <1>2, <1>4
  <2>2. Handed(sv, cfg, n, ch)
    BY <2>1 DEF AddressOk
  <2>3. n2 = IF sv2.nextAddr # sv.nextAddr THEN n + 1 ELSE n
    BY DEF sv2
  <2>4. ch \subseteq ch2 /\ (Chooses(sv, l, m) => m.req \in ch2)
    OBVIOUS
  <2> QED BY <1>1, <1>2, <1>4, <2>2, <2>3, <2>4, EffectHanded
<1>5. AddressOk(sv2, cfg, n2, ch2)
  BY <1>2, <1>3, <1>4 DEF AddressOk
<1> QED BY <1>5 DEF sv2

-----------------------------------------------------------------------------
\* An entry made for a stack is under the stack's own key.
EntryOk(S, C, k, e) == e.hw \notin S /\ (e.hw \in C => e.hw = k)

\* A message to a server is a stack's, or the foreign client's.
SenderOk(C, m) == (m.cid \in C /\ m.chaddr = m.cid) \/ (m.cid = ZeroKey /\ m.chaddr = "other")

EntriesOk(S, C, sv) == \A k \in known(sv) : EntryOk(S, C, k, sv.hosts[k])

\* Servers, stacks and the foreign client are told apart.
ToldApart(S, C) == S \cap C = {} /\ {"other", ZeroKey} \cap (S \cup C) = {}

\* A message leaves every entry under its own key (Server.Demux).
LEMMA DemuxEntries ==
    ASSUME NEW S, NEW C, NEW sv, NEW m, NEW l \in lookups(sv, m), Table(sv), ToldApart(S, C),
           EntriesOk(S, C, sv), SenderOk(C, m)
    PROVE  EntriesOk(S, C, Demux(sv, l, m))
<1> DEFINE sv2 == Demux(sv, l, m)
           k == l.key
           Own(hw) == hw \notin S /\ (hw \in C => hw = k)
<1>1. Effect(sv, sv2, l, m)
  BY LookupFiles, DemuxEffect
<1>2. Own(m.chaddr)
  <2>1. CASE m.cid \in C /\ m.chaddr = m.cid
    <3>1. m.cid # ZeroKey
      BY <2>1 DEF ToldApart
    <3>2. k = m.cid
      BY <3>1 DEF lookups
    <3> QED BY <2>1, <3>2 DEF ToldApart
  <2>2. CASE m.chaddr = "other"
    BY <2>2 DEF ToldApart
  <2> QED BY <2>1, <2>2 DEF SenderOk
<1>3. Own(ZeroKey)
  BY DEF ToldApart
<1>4. \A j \in known(sv) : EntryOk(S, C, j, sv.hosts[j])
  BY DEF EntriesOk
<1> HIDE DEF sv2
<1>5. \A a, hw : Own(hw) /\ Admits(sv, sv2, k, a, hw) => EntriesOk(S, C, sv2)
  BY <1>4 DEF Admits, Wrote, EntriesOk, EntryOk
<1>6. EntriesOk(S, C, sv2)
  <2>1. CASE sv2.hosts = sv.hosts
    BY <1>4, <2>1 DEF known, EntriesOk
  <2>2. CASE k \in known(sv) /\ Renews(sv, sv2, k, m.chaddr)
    BY <1>2, <1>4, <2>2 DEF Renews, Wrote, EntriesOk, EntryOk
  <2>3. CASE Forgets(sv, sv2, k)
    BY <1>4, <2>3 DEF Forgets, EntriesOk
  <2> HIDE DEF Own
  <2> QED BY <1>1, <1>2, <1>3, <1>5, <2>1, <2>2, <2>3 DEF Effect
<1> QED BY <1>6 DEF sv2

\* So does an answer that goes out (Server.Encapsulate).
LEMMA EncapsulateEntries ==
    ASSUME NEW S, NEW C, NEW sv, NEW k \in pendingHosts(sv), Table(sv), EntriesOk(S, C, sv)
    PROVE  EntriesOk(S, C, Encapsulate(sv, k))
<1> DEFINE sv2 == Encapsulate(sv, k)
<1>1. k \in known(sv) /\ Renews(sv, sv2, k, sv.hosts[k].hw)
  BY EncapsulateEffect
<1> HIDE DEF sv2
<1>2. EntriesOk(S, C, sv2)
  BY <1>1 DEF Renews, Wrote, EntriesOk, EntryOk
<1> QED BY <1>2 DEF sv2
-----------------------------------------------------------------------------
\* The host stays known, with its address.
StaysAt(sv, sv2, c) == c \in known(sv) => c \in known(sv2) /\ sv2.hosts[c].addr = sv.hosts[c].addr

\* What a client has seen is the address of its entry, and it is bound to what was acknowledged.
ClientAgrees(sv, c, r, acked) ==
    /\ r.offered => c \in known(sv) /\ r.offer = sv.hosts[c].addr
    /\ r.state \in {"requesting", "bound"} => r.offered
    /\ r.state = "bound" => <<c, r.xid, r.offer>> \in acked

\* What is on its way to a client is the address of its entry.
AnswerAgrees(sv, c, m, acked) ==
    /\ c \in known(sv) /\ m.yiaddr = sv.hosts[c].addr
    /\ m.type = "ack" => <<c, m.xid, m.yiaddr>> \in acked

\* A host whose entry stays agrees as before.
LEMMA StayAgrees ==
    ASSUME NEW sv, NEW sv2, NEW c, NEW acked, NEW acked2, StaysAt(sv, sv2, c), acked \subseteq acked2
    PROVE  /\ \A r : ClientAgrees(sv, c, r, acked) => ClientAgrees(sv2, c, r, acked2)
           /\ \A m : AnswerAgrees(sv, c, m, acked) => AnswerAgrees(sv2, c, m, acked2)
  BY DEF StaysAt, ClientAgrees, AnswerAgrees

\* Nobody but a release of the host removes or changes its address (Server.Demux).
LEMMA DemuxStays ==
    ASSUME NEW sv, NEW l, NEW m, NEW c, Table(sv), Filed(sv, l), c # ZeroKey,
           ~(m.type = "release" /\ l.found /\ c = l.key)
    PROVE  StaysAt(sv, Demux(sv, l, m), c)
<1> DEFINE sv2 == Demux(sv, l, m)
           k == l.key
<1>1. Effect(sv, sv2, l, m)
  BY DemuxEffect
<1> HIDE DEF sv2
<1>2. \A a, hw : ~l.found /\ Admits(sv, sv2, k, a, hw) => StaysAt(sv, sv2, c)
  BY DEF Admits, Wrote, StaysAt, Filed
<1>3. StaysAt(sv, sv2, c)
  <2>1. CASE sv2.hosts = sv.hosts
    BY <2>1 DEF known, StaysAt
  <2>2. CASE k \in known(sv) /\ Renews(sv, sv2, k, m.chaddr)
    BY <2>2 DEF Renews, Wrote, StaysAt
  <2>3. CASE l.found /\ m.type = "release" /\ Forgets(sv, sv2, k)
    BY <2>3 DEF Forgets, StaysAt
  <2> QED BY <1>1, <1>2, <2>1, <2>2, <2>3 DEF Effect, Chooses
<1> QED BY <1>3 DEF sv2

\* An answer leaves every host where it is (Server.Encapsulate).
LEMMA EncapsulateStays ==
    ASSUME NEW sv, NEW k \in pendingHosts(sv), NEW c, Table(sv)
    PROVE  StaysAt(sv, Encapsulate(sv, k), c)
<1> DEFINE sv2 == Encapsulate(sv, k)
<1>1. k \in known(sv) /\ Renews(sv, sv2, k, sv.hosts[k].hw)
  BY EncapsulateEffect
<1> HIDE DEF sv2
<1>2. StaysAt(sv, sv2, c)
  BY <1>1 DEF Renews, Wrote, StaysAt
<1> QED BY <1>2 DEF sv2

-----------------------------------------------------------------------------
\* The fields of a client.
ClientFields == {"state", "xid", "req", "offered", "offer", "svip", "router", "dns", "subnet"}

\* The options of a message leave the exchange where it is (Client.setOptions).
LEMMA OptionsSet ==
    ASSUME NEW r, NEW m, DOMAIN r = ClientFields
    PROVE  LET r2 == setOptions(r, m)
           IN  /\ DOMAIN r2 = ClientFields /\ r2.state = r.state /\ r2.xid = r.xid
               /\ r2.offered = r.offered /\ r2.offer = r.offer
  BY Zenon DEF setOptions, ClientFields

\* The first offer is taken (Client.Demux).
LEMMA LockedIn ==
    ASSUME NEW r, NEW m, DOMAIN r = ClientFields
    PROVE  LET r2 == lockIn(r, m)
           IN  /\ DOMAIN r2 = ClientFields /\ r2.state = r.state /\ r2.xid = r.xid
               /\ r2.offered /\ r2.offer = m.yiaddr
  BY Zenon DEF lockIn, ClientFields

\* A client that agrees with its server does so after an answer of it (Client.Demux).
LEMMA ClientDemuxAgrees ==
    ASSUME NEW sv, NEW c, NEW r, NEW m, NEW acked, DOMAIN r = ClientFields
    PROVE  /\ DOMAIN clientDemux(r, m) = ClientFields
           /\ ClientAgrees(sv, c, r, acked) /\ AnswerAgrees(sv, c, m, acked)
              => ClientAgrees(sv, c, clientDemux(r, m), acked)
<1> DEFINE o == setOptions(r, m)
<1>1. /\ DOMAIN o = ClientFields /\ o.state = r.state /\ o.xid = r.xid
      /\ o.offered = r.offered /\ o.offer = r.offer
  BY OptionsSet
<1> HIDE DEF o
<1> DEFINE l == lockIn(o, m)
           b == [o EXCEPT !.state = "bound"]
<1>2. DOMAIN l = ClientFields /\ l.state = r.state /\ l.xid = r.xid /\ l.offered /\ l.offer = m.yiaddr
  BY <1>1, LockedIn
<1>3. /\ DOMAIN b = ClientFields /\ b.state = "bound" /\ b.xid = r.xid
      /\ b.offered = r.offered /\ b.offer = r.offer
  BY <1>1 DEF ClientFields
<1>4. \/ clientDemux(r, m) \in {r, o}
      \/ clientDemux(r, m) = l /\ r.state = "selecting"
      \/ clientDemux(r, m) = b /\ r.state = "requesting" /\ m.type = "ack" /\ m.xid = r.xid
  BY <1>1, Zenon DEF clientDemux, clientAdvance, owns, o
<1> HIDE DEF l, b
<1>5. DOMAIN clientDemux(r, m) = ClientFields
  BY <1>1, <1>2, <1>3, <1>4
<1>6. ASSUME ClientAgrees(sv, c, r, acked), AnswerAgrees(sv, c, m, acked)
      PROVE  ClientAgrees(sv, c, clientDemux(r, m), acked)
  <2>1. ClientAgrees(sv, c, o, acked)
    BY <1>1, <1>6, Zenon DEF ClientAgrees
  <2>2. r.state = "selecting" => ClientAgrees(sv, c, l, acked)
    BY <1>2, <1>6 DEF ClientAgrees, AnswerAgrees
  <2>3. r.state = "requesting" /\ m.type = "ack" /\ m.xid = r.xid => ClientAgrees(sv, c, b, acked)
    BY <1>3, <1>6 DEF ClientAgrees, AnswerAgrees
  <2> QED BY <1>4, <1>6, <2>1, <2>2, <2>3
<1> QED BY <1>5, <1>6

\* So does one that sends (Client.Encapsulate).
LEMMA SentAgrees ==
    ASSUME NEW sv, NEW c, NEW r, NEW acked, DOMAIN r = ClientFields, clientDue(r) # "nothing"
    PROVE  /\ DOMAIN sentState(r) = ClientFields
           /\ ClientAgrees(sv, c, r, acked) => ClientAgrees(sv, c, sentState(r), acked)
<1> DEFINE st == IF r.state = "init" THEN "selecting" ELSE "requesting"
           r2 == [r EXCEPT !.state = st]
<1>1. sentState(r) = r2
  BY DEF sentState
<1>2. r.state = "init" \/ r.offered
  BY DEF clientDue
<1>3. /\ DOMAIN r2 = ClientFields /\ r2.state = st /\ r2.xid = r.xid
      /\ r2.offered = r.offered /\ r2.offer = r.offer
  BY DEF ClientFields
<1> HIDE DEF r2
<1>4. ClientAgrees(sv, c, r, acked) => ClientAgrees(sv, c, r2, acked)
  BY <1>2, <1>3 DEF ClientAgrees
<1> QED BY <1>1, <1>3, <1>4

\* And one that starts (Client.BeginRequest).
LEMMA BegunAgrees ==
    ASSUME NEW sv, NEW c, NEW xid, NEW req, NEW acked
    PROVE  /\ DOMAIN BeginRequest(xid, req) = ClientFields
           /\ ClientAgrees(sv, c, BeginRequest(xid, req), acked)
<1> DEFINE r == BeginRequest(xid, req)
<1>1. DOMAIN r = ClientFields /\ r.state = "init" /\ r.offered = FALSE
  BY Zenon DEF BeginRequest, Closed, ClientFields
<1> HIDE DEF r
<1>2. ClientAgrees(sv, c, r, acked)
  BY <1>1 DEF ClientAgrees
<1> QED BY <1>1, <1>2 DEF r

-----------------------------------------------------------------------------
(* The servers, the stacks and the network between them.                   *)

\* The count is at most n more than the answers that are owed.
Within(sv, n) == n \in Nat /\ \E x \in 0 .. n : Excess(sv, x)

Inv ==
    /\ DOMAIN hist = HistFields /\ DOMAIN hist.over = Server
    /\ \A s \in Server : Within(srv[s], hist.over[s])

\* Function g is f but for x at s.
Changed(f, g, s, x) == DOMAIN g = DOMAIN f /\ g[s] = x /\ \A t \in DOMAIN f : t # s => g[t] = f[t]

\* Every server has its invariant, and no known host changed its address.
LEMMA OneServerMoves ==
    ASSUME Inv, NEW s \in Server, NEW sv, NEW n, Within(sv, n), srv' = [srv EXCEPT ![s] = sv],
           DOMAIN hist' = HistFields, Changed(hist.over, hist'.over, s, n)
    PROVE  /\ Inv'
           /\ SameAddresses(srv[s], sv) => \A t \in Server : SameAddresses(srv[t], srv'[t])
<1>1. Server' = Server /\ DOMAIN hist'.over = Server
  BY DEF Server, Inv, Changed
<1>2. srv'[s] = sv /\ \A t \in Server : t # s => srv'[t] = srv[t]
  BY DEF Server
<1>3. hist'.over[s] = n /\ \A t \in Server : t # s => hist'.over[t] = hist.over[t]
  BY DEF Changed, Inv
<1>4. \A t \in Server : Within(srv'[t], hist'.over[t])
  <2> SUFFICES ASSUME NEW t \in Server PROVE Within(srv'[t], hist'.over[t])
    OBVIOUS
  <2>1. CASE t = s
    BY <1>2, <1>3, <2>1, Zenon
  <2>2. CASE t # s
    BY <1>2, <1>3, <2>2, Zenon DEF Inv
  <2> QED BY <2>1, <2>2
<1>5. Inv'
  BY <1>1, <1>4 DEF Inv
<1> QED
  BY <1>2, <1>5 DEF SameAddresses

\* What a step may do to the servers.
ServersKeep ==
    \/ \A s \in Server : SameAddresses(srv[s], srv'[s])
    \/ hist'.restarted

\* A message that reaches a server, a stack or nobody.
LEMMA DeliveryKeeps ==
    ASSUME Inv, NEW e, delivers(e)
    PROVE  Inv' /\ ServersKeep
<1>1. CASE e.to \in Server
  <2> DEFINE s == e.to
             m == e.m
             old == srv[s]
  <2>1. PICK l \in lookups(old, m) :
          srv' = [srv EXCEPT ![s] = Demux(old, l, m)] /\ hist' = traced(s, l, m)
    BY <1>1, Zenon DEF delivers, ServerDemux
  <2> DEFINE sv == Demux(old, l, m)
             n == IF filedOver(old, l) THEN hist.over[s] + 1 ELSE hist.over[s]
  <2>2. PICK x \in 0 .. hist.over[s] : Excess(old, x)
    BY <1>1 DEF Inv, Within
  <2>3. hist.over[s] \in Nat /\ x \in Nat
    BY <1>1, <2>2 DEF Inv, Within
  <2>4. Kept(old, l, sv, x)
    BY <2>2, <2>3, LookupFiles, DemuxKeeps
  <2>5. DOMAIN hist = HistFields /\ DOMAIN hist.over = Server
    BY DEF Inv
  <2>6. DOMAIN hist' = HistFields /\ hist'.over = [hist.over EXCEPT ![s] = n]
    <3> DEFINE moves == IF srv'[s].nextAddr # old.nextAddr THEN hist.moves[s] + 1 ELSE hist.moves[s]
               chosen == IF m.type = "discover" /\ ~l.found /\ prefers(old, m.req)
                         THEN hist.chosen[s] \cup {m.req} ELSE hist.chosen[s]
               lost == IF m.type = "release" /\ l.found THEN hist.lost \cup {l.key} ELSE hist.lost
    <3>1. hist' = [hist EXCEPT !.moves[s] = moves, !.chosen[s] = chosen, !.over[s] = n, !.lost = lost]
      BY <2>1, <2>5, Zenon DEF traced, HistFields
    <3> HIDE DEF moves, chosen, lost, n
    <3> QED BY <2>5, <3>1, TracedIs
  <2>7. Changed(hist.over, hist'.over, s, n)
    <3> HIDE DEF n
    <3> QED BY <1>1, <2>5, <2>6 DEF Changed
  <2>8. Within(sv, n)
    <3> HIDE DEF sv
    <3>1. CASE Excess(sv, x)
      BY <2>2, <2>3, <3>1 DEF Within
    <3>2. CASE filedOver(old, l) /\ Excess(sv, x + 1)
      <4>1. n \in Nat /\ x + 1 \in 0 .. n
        BY <2>2, <2>3, <3>2
      <4> QED BY <3>2, <4>1 DEF Within
    <3> QED BY <2>4, <3>1, <3>2 DEF Kept
  <2>9. SameAddresses(old, sv)
    BY <2>4 DEF Kept
  <2> HIDE DEF sv, n
  <2>10. srv' = [srv EXCEPT ![s] = sv]
    BY <2>1 DEF sv
  <2>11. Inv' /\ \A t \in Server : SameAddresses(srv[t], srv'[t])
    BY <1>1, <2>6, <2>7, <2>8, <2>9, <2>10, OneServerMoves
  <2> QED
    BY <2>11 DEF ServersKeep
<1>2. CASE e.to \notin Server
  <2>1. UNCHANGED <<srv, hist>>
    BY <1>2 DEF delivers, ClientDemux
  <2> QED
    BY <2>1 DEF Inv, ServersKeep, SameAddresses, Server
<1> QED
  BY <1>1, <1>2

\* Every step keeps the invariant, one case for each action that touches a server.
LEMMA StepKeeps ==
    ASSUME Inv, [Next]_vars
    PROVE  Inv' /\ ServersKeep
<1>0. DOMAIN hist = HistFields /\ DOMAIN hist.over = Server
  BY DEF Inv
<1>1. CASE UNCHANGED <<srv, hist>>
  BY <1>1 DEF Inv, ServersKeep, SameAddresses, Server
<1>2. CASE \E e \in messages : Deliver(e) \/ DeliverTwice(e)
  BY <1>2, DeliveryKeeps DEF Deliver, DeliverTwice
<1>3. ASSUME NEW s \in Server, NEW k \in pendingHosts(srv[s]), ServerEncapsulate(s, k)
      PROVE  Inv' /\ ServersKeep
  <2> DEFINE sv == Encapsulate(srv[s], k)
             n == hist.over[s]
  <2>1. srv' = [srv EXCEPT ![s] = sv]
    BY <1>3 DEF ServerEncapsulate
  <2>2. DOMAIN hist' = HistFields /\ hist'.over = hist.over
    BY <1>0, <1>3 DEF ServerEncapsulate, HistFields
  <2>3. PICK x \in 0 .. n : n \in Nat /\ Excess(srv[s], x)
    BY DEF Inv, Within
  <2>4. Excess(sv, x) /\ SameAddresses(srv[s], sv)
    BY <2>3, EncapsulateKeeps
  <2>5. Within(sv, n)
    BY <2>3, <2>4 DEF Within
  <2>6. Changed(hist.over, hist'.over, s, n)
    BY <2>2 DEF Changed
  <2> HIDE DEF sv, n
  <2>7. Inv' /\ \A t \in Server : SameAddresses(srv[t], srv'[t])
    BY <2>1, <2>2, <2>4, <2>5, <2>6, OneServerMoves
  <2> QED
    BY <2>7 DEF ServersKeep
<1>4. ASSUME NEW s \in Server, Restart(s)
      PROVE  Inv' /\ ServersKeep
  <2> DEFINE sv == Configure(sc.servers[s])
  <2>1. srv' = [srv EXCEPT ![s] = sv]
    BY <1>4 DEF Restart
  <2>2. DOMAIN hist' = HistFields /\ hist'.restarted /\ hist'.over = [hist.over EXCEPT ![s] = 0]
    BY <1>0, <1>4, Zenon DEF Restart, HistFields
  <2>3. Within(sv, 0)
    BY ConfigureIs DEF Within
  <2>4. Changed(hist.over, hist'.over, s, 0)
    BY <1>0, <2>2 DEF Changed
  <2> HIDE DEF sv
  <2>5. Inv'
    BY <2>1, <2>2, <2>3, <2>4, OneServerMoves
  <2> QED
    BY <2>2, <2>5 DEF ServersKeep
<1>5. \/ UNCHANGED <<srv, hist>>
      \/ \E e \in messages : Deliver(e) \/ DeliverTwice(e)
      \/ \E s \in Server : \E k \in pendingHosts(srv[s]) : ServerEncapsulate(s, k)
      \/ \E s \in Server : Restart(s)
  BY Zenon DEF Next, vars, StartDHCPv4Request, ClientEncapsulate, SeesBound, ResultDHCP,
         AssimilateDHCPResults, Deadline, Again, Lose, Foreign
<1> QED
  BY <1>1, <1>2, <1>3, <1>4, <1>5

\* The tables are empty at the start.
LEMMA Start ==
    ASSUME Init
    PROVE  Inv
<1>1. \A s \in Server : srv[s] = Configure(sc.servers[s])
  BY DEF Init, Server
<1>2. DOMAIN hist = HistFields /\ DOMAIN hist.over = Server /\ \A s \in Server : hist.over[s] = 0
  BY DEF Init, Server, HistFields
<1> QED
  BY <1>1, <1>2, ConfigureIs DEF Inv, Within

\* The invariant holds throughout.
LEMMA InvariantHolds == Spec => []Inv
<1>1. Init => Inv
  BY Start
<1>2. Inv /\ [Next]_vars => Inv'
  BY StepKeeps
<1> QED
  BY <1>1, <1>2, PTL DEF Spec

\* The count that makes Encapsulate look for work covers the hosts owed an answer, and is
\* exact but for the entries a failed search had written over, for any servers, stacks,
\* foreign clients, losses, repetitions and restarts.
THEOREM ServerPendingIsExact == Spec => []PendingIsExact
<1>1. Inv => PendingIsExact
  <2> SUFFICES ASSUME Inv, NEW s \in Server
               PROVE  LET n == Cardinality(owing(srv[s]))
                      IN  n <= srv[s].pending /\ srv[s].pending <= n + hist.over[s]
    BY DEF PendingIsExact, owing
  <2>1. PICK x \in 0 .. hist.over[s] : hist.over[s] \in Nat /\ Excess(srv[s], x)
    BY DEF Inv, Within
  <2>2. Cardinality(owing(srv[s])) \in Nat
    BY <2>1, OwingIsFinite DEF Excess
  <2> QED
    BY <2>1, <2>2 DEF Excess
<1> QED
  BY <1>1, InvariantHolds, PTL

\* No step but a restart of the server's program changes the address of a known host, the
\* zero key aside, which stands for none (the table of Server.Demux).
THEOREM HostsKeepAddresses == Spec => AddressIsKept
<1>1. Inv /\ [Next]_vars =>
        [\A s \in Server : \A k \in (known(srv[s]) \cap known(srv'[s])) \ {ZeroKey} :
            \/ srv[s].hosts[k].addr = srv'[s].hosts[k].addr
            \/ hist'.restarted]_vars
  BY StepKeeps DEF ServersKeep, SameAddresses
<1> QED
  BY <1>1, InvariantHolds, PTL DEF Spec, AddressIsKept
-----------------------------------------------------------------------------
Shapes ==
    /\ sc \in Scenarios /\ Server = DOMAIN sc.servers /\ Stack = DOMAIN sc.req
    /\ DOMAIN hist = HistFields /\ DOMAIN hist.moves = Server /\ DOMAIN hist.chosen = Server
    /\ \A c \in Stack : DOMAIN cl[c] = ClientFields

AddressInv ==
    \A s \in Server : AddressOk(srv[s], sc.servers[s], hist.moves[s], hist.chosen[s])

\* The servers of a scenario are sensible ones.
LEMMA ServersSensible ==
    ASSUME Shapes
    PROVE  \A s \in Server : Sensible(sc.servers[s])
  BY ScenarioAssumption DEF Shapes, Sensible, size

\* One server moves, and the history keeps what it has of the others.
LEMMA OneServerOk ==
    ASSUME Shapes, AddressInv, NEW s \in Server, NEW sv, NEW n, NEW chosen,
           srv' = [srv EXCEPT ![s] = sv], sc' = sc,
           Changed(hist.moves, hist'.moves, s, n), Changed(hist.chosen, hist'.chosen, s, chosen),
           AddressOk(sv, sc.servers[s], n, chosen)
    PROVE  /\ Server' = Server /\ DOMAIN hist'.moves = Server /\ DOMAIN hist'.chosen = Server
           /\ AddressInv'
<1>1. Server' = Server
  BY DEF Server
<1>2. \A t \in Server : srv'[t] = IF t = s THEN sv ELSE srv[t]
  BY DEF Server
<1>3. DOMAIN hist'.moves = Server /\ \A t \in Server : hist'.moves[t] = IF t = s THEN n ELSE hist.moves[t]
  BY DEF Shapes, Changed
<1>4. /\ DOMAIN hist'.chosen = Server
      /\ \A t \in Server : hist'.chosen[t] = IF t = s THEN chosen ELSE hist.chosen[t]
  BY DEF Shapes, Changed
<1>5. \A t \in Server : AddressOk(srv'[t], sc.servers[t], hist'.moves[t], hist'.chosen[t])
  <2>1. ASSUME NEW t \in Server, t # s
        PROVE  srv'[t] = srv[t] /\ hist'.moves[t] = hist.moves[t] /\ hist'.chosen[t] = hist.chosen[t]
    BY <1>2, <1>3, <1>4, <2>1
  <2>2. srv'[s] = sv /\ hist'.moves[s] = n /\ hist'.chosen[s] = chosen
    BY <1>2, <1>3, <1>4
  <2> QED BY <2>1, <2>2, Zenon DEF AddressInv
<1> QED BY <1>1, <1>3, <1>4, <1>5 DEF AddressInv

-----------------------------------------------------------------------------
\* What is on its way after messages are sent, and after one is taken.
LEMMA MessagesSent ==
    ASSUME NEW ms, net' = sends(ms)
    PROVE  messages' = messages \cup ms
BY DEF messages, sends

\* Nothing is added.
LEMMA MessagesTaken ==
    ASSUME NEW e, net' = without(e)
    PROVE  messages' \subseteq messages
BY DEF messages, without

-----------------------------------------------------------------------------
RoutesInv ==
    /\ \A s \in Server : EntriesOk(Server, Stack, srv[s])
    /\ \A e \in messages : e.to \in Server => SenderOk(Stack, e.m)

Agrees(s, c) ==
    /\ ClientAgrees(srv[s], c, cl[c], hist.acked)
    /\ \A e \in messages : e.to = c => AnswerAgrees(srv[s], c, e.m, hist.acked)

BoundInv ==
    ~hist.restarted => \A s \in Server : Server = {s} => \A c \in Stack \ hist.lost : Agrees(s, c)

\* What makes OneOwner inductive: where each server's counter is and which of its addresses
\* have gone out, whose entry is under which key, and that what a stack has been told, or
\* is about to be, is the address of its entry.
OwnerInv == Shapes /\ AddressInv /\ RoutesInv /\ BoundInv

LEMMA NodesToldApart ==
    ASSUME Shapes
    PROVE  ToldApart(Server, Stack) /\ IsFiniteSet(Server)
  BY ScenarioAssumption DEF Shapes, ToldApart

\* A step of the stacks, or of the network.
LEMMA ClientsMove ==
    ASSUME OwnerInv, UNCHANGED <<sc, srv, hist>>, Stack' = Stack,
           \A c \in Stack : DOMAIN cl'[c] = ClientFields,
           \A e \in messages' : e \in messages \/ (e.to \in Server /\ SenderOk(Stack, e.m)),
           \A s \in Server : \A c \in Stack : Agrees(s, c) => ClientAgrees(srv[s], c, cl'[c], hist.acked)
    PROVE  OwnerInv'
<1>1. Server' = Server /\ srv' = srv /\ sc' = sc /\ hist' = hist
  BY DEF Server
<1>2. Shapes'
  BY <1>1, Zenon DEF OwnerInv, Shapes
<1>3. AddressInv'
  BY <1>1, Zenon DEF OwnerInv, AddressInv
<1>4. RoutesInv'
  BY <1>1 DEF OwnerInv, RoutesInv
<1>5. BoundInv'
  <2> SUFFICES ASSUME ~hist.restarted, NEW s \in Server, Server = {s}, NEW c \in Stack \ hist.lost
               PROVE  Agrees(s, c)'
    BY <1>1 DEF BoundInv
  <2>1. Agrees(s, c)
    BY DEF OwnerInv, BoundInv
  <2>2. \A e \in messages' : e.to = c => e \in messages
    BY NodesToldApart DEF OwnerInv, ToldApart
  <2>3. \A e \in messages' : e.to = c => AnswerAgrees(srv[s], c, e.m, hist.acked)
    BY <2>1, <2>2 DEF Agrees
  <2>4. ClientAgrees(srv[s], c, cl'[c], hist.acked)
    BY <2>1
  <2> QED BY <1>1, <2>3, <2>4 DEF Agrees
<1> QED BY <1>2, <1>3, <1>4, <1>5 DEF OwnerInv

\* A step of a server.
LEMMA ServerMoves ==
    ASSUME OwnerInv, NEW s \in Server, NEW sv, NEW n, NEW chosen,
           srv' = [srv EXCEPT ![s] = sv], UNCHANGED <<sc, cl>>, DOMAIN hist' = HistFields,
           Changed(hist.moves, hist'.moves, s, n), Changed(hist.chosen, hist'.chosen, s, chosen),
           AddressOk(sv, sc.servers[s], n, chosen), EntriesOk(Server, Stack, sv),
           \A e \in messages' : e.to \in Server => e \in messages,
           \/ hist'.restarted
           \/ /\ hist'.restarted = hist.restarted
              /\ hist.lost \subseteq hist'.lost /\ hist.acked \subseteq hist'.acked
              /\ \A c \in Stack \ hist'.lost : StaysAt(srv[s], sv, c)
              /\ \A e \in messages' : e.to \in Stack
                    => e \in messages \/ AnswerAgrees(sv, e.to, e.m, hist'.acked)
    PROVE  OwnerInv'
<1>1. /\ Server' = Server /\ DOMAIN hist'.moves = Server /\ DOMAIN hist'.chosen = Server
      /\ AddressInv'
  BY OneServerOk, Zenon DEF OwnerInv
<1>2. Stack' = Stack /\ sc' = sc /\ cl' = cl
  BY DEF Stack
<1>3. \A t \in Server : srv'[t] = IF t = s THEN sv ELSE srv[t]
  BY DEF Server
<1>4. Shapes'
  BY <1>1, <1>2, Zenon DEF OwnerInv, Shapes
<1>5. RoutesInv'
  BY <1>1, <1>2, <1>3 DEF OwnerInv, RoutesInv
<1>6. BoundInv'
  <2> SUFFICES ASSUME ~hist'.restarted, Server = {s}, NEW c \in Stack \ hist'.lost
               PROVE  Agrees(s, c)'
    BY <1>1, <1>2 DEF BoundInv
  <2>1. Agrees(s, c)
    BY DEF OwnerInv, BoundInv
  <2>2. ClientAgrees(sv, c, cl[c], hist'.acked)
    BY <2>1, StayAgrees DEF Agrees
  <2>3. \A e \in messages' : e.to = c => AnswerAgrees(sv, c, e.m, hist'.acked)
    <3> SUFFICES ASSUME NEW e \in messages', e.to = c
                 PROVE  AnswerAgrees(sv, c, e.m, hist'.acked)
      OBVIOUS
    <3>1. CASE e \in messages
      <4>1. AnswerAgrees(srv[s], c, e.m, hist.acked)
        BY <2>1, <3>1, Zenon DEF Agrees
      <4>2. StaysAt(srv[s], sv, c) /\ hist.acked \subseteq hist'.acked
        OBVIOUS
      <4> QED BY <4>1, <4>2, StayAgrees
    <3>2. CASE e \notin messages
      BY <3>2
    <3> QED BY <3>1, <3>2
  <2> QED BY <1>2, <1>3, <2>2, <2>3 DEF Agrees
<1> QED BY <1>1, <1>4, <1>5, <1>6 DEF OwnerInv

\* A message that reaches a server (Server.Demux).
LEMMA ServerDemuxOwner ==
    ASSUME Inv, OwnerInv, NEW e \in messages, e.to \in Server, ServerDemux(e.to, e.m),
           messages' \subseteq messages, sc' = sc
    PROVE  OwnerInv'
<1> DEFINE s == e.to
           m == e.m
           old == srv[s]
<1>1. PICK l \in lookups(old, m) :
        srv' = [srv EXCEPT ![s] = Demux(old, l, m)] /\ hist' = traced(s, l, m) /\ cl' = cl
  BY Zenon DEF ServerDemux
<1> DEFINE sv == Demux(old, l, m)
           n == IF sv.nextAddr # old.nextAddr THEN hist.moves[s] + 1 ELSE hist.moves[s]
           chosen == IF Chooses(old, l, m) THEN hist.chosen[s] \cup {m.req} ELSE hist.chosen[s]
           over == IF filedOver(old, l) THEN hist.over[s] + 1 ELSE hist.over[s]
           lost == IF m.type = "release" /\ l.found THEN hist.lost \cup {l.key} ELSE hist.lost
<1>2. srv'[s] = sv
  BY <1>1 DEF Server
<1>3. hist' = [hist EXCEPT !.moves[s] = n, !.chosen[s] = chosen, !.over[s] = over, !.lost = lost]
  BY <1>1, <1>2, Zenon DEF traced, Chooses, HistFields, OwnerInv, Shapes
<1>4. /\ Table(old) /\ Sensible(sc.servers[s])
      /\ AddressOk(old, sc.servers[s], hist.moves[s], hist.chosen[s])
  BY ServersSensible DEF Inv, Within, Excess, OwnerInv, AddressInv
<1>5. AddressOk(sv, sc.servers[s], n, chosen)
  BY <1>4, LookupFiles, DemuxOk
<1>6. EntriesOk(Server, Stack, old) /\ SenderOk(Stack, m) /\ ToldApart(Server, Stack)
  BY NodesToldApart DEF OwnerInv, RoutesInv
<1>7. EntriesOk(Server, Stack, sv)
  BY <1>4, <1>6, DemuxEntries
<1>8. /\ DOMAIN hist' = HistFields
      /\ hist'.moves = [hist.moves EXCEPT ![s] = n] /\ hist'.chosen = [hist.chosen EXCEPT ![s] = chosen]
      /\ hist'.lost = lost /\ hist'.acked = hist.acked /\ hist'.restarted = hist.restarted
  <2> HIDE DEF n, chosen, over, lost
  <2>1. DOMAIN hist = HistFields
    BY DEF OwnerInv, Shapes
  <2> QED BY <1>3, <2>1, TracedIs
<1>9. \A c \in Stack \ lost : StaysAt(old, sv, c)
  <2>1. \A c \in Stack : c # ZeroKey
    BY <1>6 DEF ToldApart
  <2> QED BY <1>4, <2>1, LookupFiles, DemuxStays
<1>10. hist.lost \subseteq lost
  OBVIOUS
<1> HIDE DEF n, chosen, over, lost, sv
<1>11. srv' = [srv EXCEPT ![s] = sv] /\ UNCHANGED <<sc, cl>>
  BY <1>1 DEF sv
<1>12. Changed(hist.moves, hist'.moves, s, n) /\ Changed(hist.chosen, hist'.chosen, s, chosen)
  BY <1>8 DEF Changed, OwnerInv, Shapes
<1> QED BY <1>5, <1>7, <1>8, <1>9, <1>10, <1>11, <1>12, ServerMoves, Zenon

\* An answer that goes out (Server.Encapsulate).
LEMMA ServerEncapsulateOwner ==
    ASSUME Inv, OwnerInv, NEW s \in Server, NEW k \in pendingHosts(srv[s]), ServerEncapsulate(s, k)
    PROVE  OwnerInv'
<1> DEFINE old == srv[s]
           sv == Encapsulate(old, k)
           e == old.hosts[k]
           m == reply(old, e)
           acked == IF m.type = "ack" THEN hist.acked \cup {<<m.chaddr, m.xid, m.yiaddr>>} ELSE hist.acked
<1>1. /\ srv' = [srv EXCEPT ![s] = sv] /\ net' = sends({[m |-> m, to |-> m.chaddr]})
      /\ hist' = [hist EXCEPT !.acked = acked] /\ UNCHANGED <<sc, cl>>
  BY DEF ServerEncapsulate
<1>2. messages' = messages \cup {[m |-> m, to |-> m.chaddr]}
  BY <1>1, MessagesSent
<1>3. m.chaddr = e.hw /\ m.yiaddr = e.addr
  BY DEF reply
<1>4. /\ Table(old) /\ Sensible(sc.servers[s])
      /\ AddressOk(old, sc.servers[s], hist.moves[s], hist.chosen[s])
  BY ServersSensible DEF Inv, Within, Excess, OwnerInv, AddressInv
<1>5. AddressOk(sv, sc.servers[s], hist.moves[s], hist.chosen[s])
  <2>1. hist.moves[s] \in Nat /\ Placed(old, sc.servers[s])
    BY <1>4 DEF AddressOk
  <2>2. /\ Placed(sv, sc.servers[s])
        /\ (/\ Handed(old, sc.servers[s], hist.moves[s], hist.chosen[s])
            /\ hist.moves[s] <= size(sc.servers[s]) - 1)
           => Handed(sv, sc.servers[s], hist.moves[s], hist.chosen[s])
    BY <1>4, <2>1, EncapsulatePlaced, Zenon
  <2> QED BY <1>4, <2>1, <2>2, Zenon DEF AddressOk
<1>6. EntriesOk(Server, Stack, old)
  BY DEF OwnerInv, RoutesInv
<1>7. EntriesOk(Server, Stack, sv)
  BY <1>4, <1>6, EncapsulateEntries
<1>8. k \in known(old)
  BY DEF pendingHosts
<1>9. e.hw \notin Server /\ (e.hw \in Stack => e.hw = k)
  BY <1>6, <1>8 DEF EntriesOk, EntryOk
<1>10. \A c \in Stack : StaysAt(old, sv, c)
  BY <1>4, EncapsulateStays
<1>11. m.chaddr \in Stack => AnswerAgrees(sv, m.chaddr, m, acked)
  <2>1. StaysAt(old, sv, k)
    BY <1>4, EncapsulateStays
  <2>2. k \in known(sv) /\ sv.hosts[k].addr = e.addr
    BY <1>8, <2>1 DEF StaysAt
  <2> HIDE DEF sv, m
  <2> QED BY <1>3, <1>9, <2>2 DEF AnswerAgrees
<1>12. hist.acked \subseteq acked
  OBVIOUS
<1> HIDE DEF acked, m, sv, e
<1>13. DOMAIN hist = HistFields /\ DOMAIN hist.moves = Server /\ DOMAIN hist.chosen = Server
  BY DEF OwnerInv, Shapes
<1>14. /\ DOMAIN hist' = HistFields /\ hist'.acked = acked /\ hist'.lost = hist.lost
       /\ hist'.restarted = hist.restarted /\ hist'.moves = hist.moves /\ hist'.chosen = hist.chosen
  BY <1>1, <1>13 DEF HistFields
<1>15. /\ Changed(hist.moves, hist'.moves, s, hist.moves[s])
       /\ Changed(hist.chosen, hist'.chosen, s, hist.chosen[s])
  BY <1>14 DEF Changed
<1>16. \A d \in messages' : d \in messages \/ (d.to = m.chaddr /\ d.m = m)
  BY <1>2
<1>17. \A d \in messages' : d.to \in Server => d \in messages
  BY <1>3, <1>9, <1>16
<1>18. \A d \in messages' : d.to \in Stack => d \in messages \/ AnswerAgrees(sv, d.to, d.m, hist'.acked)
  BY <1>11, <1>14, <1>16
<1> QED BY <1>1, <1>5, <1>7, <1>10, <1>12, <1>14, <1>15, <1>17, <1>18, ServerMoves, Zenon

\* The server's program starts again.
LEMMA RestartOwner ==
    ASSUME OwnerInv, NEW s \in Server, Restart(s)
    PROVE  OwnerInv'
<1> DEFINE sv == Configure(sc.servers[s])
<1>1. /\ srv' = [srv EXCEPT ![s] = sv] /\ UNCHANGED <<sc, cl>> /\ messages' = messages
      /\ hist' = [hist EXCEPT !.restarted = TRUE, !.moves[s] = 0, !.chosen[s] = {}, !.over[s] = 0]
  BY DEF Restart, messages
<1>2. DOMAIN hist = HistFields /\ DOMAIN hist.moves = Server /\ DOMAIN hist.chosen = Server
  BY DEF OwnerInv, Shapes
<1>3. /\ DOMAIN hist' = HistFields /\ hist'.restarted
      /\ hist'.moves = [hist.moves EXCEPT ![s] = 0] /\ hist'.chosen = [hist.chosen EXCEPT ![s] = {}]
  BY <1>1, <1>2, Zenon DEF HistFields
<1>4. Changed(hist.moves, hist'.moves, s, 0) /\ Changed(hist.chosen, hist'.chosen, s, {})
  BY <1>2, <1>3 DEF Changed
<1>5. Sensible(sc.servers[s])
  BY ServersSensible DEF OwnerInv
<1>6. AddressOk(sv, sc.servers[s], 0, {})
  BY <1>5, ConfigurePlaced DEF AddressOk
<1>7. EntriesOk(Server, Stack, sv)
  BY DEF Configure, EntriesOk, known
<1> HIDE DEF sv
<1> QED BY <1>1, <1>3, <1>4, <1>6, <1>7, ServerMoves, Zenon

\* A stack starts an exchange, or sends (StartDHCPv4Request, Client.Encapsulate).
LEMMA ClientActsOwner ==
    ASSUME OwnerInv, NEW c \in Stack, StartDHCPv4Request(c) \/ ClientEncapsulate(c)
    PROVE  OwnerInv'
<1>1. DOMAIN cl[c] = ClientFields
  BY DEF OwnerInv, Shapes
<1>2. CASE StartDHCPv4Request(c)
  <2> DEFINE r == BeginRequest(nextXid, sc.req[c])
  <2>1. cl' = [cl EXCEPT ![c] = r] /\ UNCHANGED <<sc, srv, hist>> /\ messages' = messages
    BY <1>2 DEF StartDHCPv4Request, messages
  <2>2. DOMAIN r = ClientFields /\ \A s \in Server : ClientAgrees(srv[s], c, r, hist.acked)
    BY BegunAgrees
  <2> HIDE DEF r
  <2>3. Stack' = Stack /\ \A d \in Stack : cl'[d] = IF d = c THEN r ELSE cl[d]
    BY <2>1 DEF Stack
  <2>4. \A d \in Stack : DOMAIN cl'[d] = ClientFields
    BY <2>2, <2>3 DEF OwnerInv, Shapes
  <2>5. \A s \in Server : \A d \in Stack : Agrees(s, d) => ClientAgrees(srv[s], d, cl'[d], hist.acked)
    BY <2>2, <2>3 DEF Agrees
  <2> QED BY <2>1, <2>3, <2>4, <2>5, ClientsMove
<1>3. CASE ClientEncapsulate(c)
  <2> DEFINE r == sentState(cl[c])
             m == clientMessage(cl[c], c, c)
             ms == {[m |-> m, to |-> s] : s \in Server}
  <2>1. cl' = [cl EXCEPT ![c] = r] /\ UNCHANGED <<sc, srv, hist>> /\ net' = sends(ms)
    BY <1>3 DEF ClientEncapsulate
  <2>2. /\ DOMAIN r = ClientFields
        /\ \A s \in Server : ClientAgrees(srv[s], c, cl[c], hist.acked) => ClientAgrees(srv[s], c, r, hist.acked)
    BY <1>1, <1>3, SentAgrees DEF ClientEncapsulate
  <2>3. m.cid = c /\ m.chaddr = c
    BY DEF clientMessage
  <2>4. messages' = messages \cup ms
    BY <2>1, MessagesSent
  <2> HIDE DEF r, m
  <2>5. \A e \in messages' : e \in messages \/ (e.to \in Server /\ SenderOk(Stack, e.m))
    BY <2>3, <2>4 DEF SenderOk
  <2>6. Stack' = Stack /\ \A d \in Stack : cl'[d] = IF d = c THEN r ELSE cl[d]
    BY <2>1 DEF Stack
  <2>7. \A d \in Stack : DOMAIN cl'[d] = ClientFields
    BY <2>2, <2>6 DEF OwnerInv, Shapes
  <2>8. \A s \in Server : \A d \in Stack : Agrees(s, d) => ClientAgrees(srv[s], d, cl'[d], hist.acked)
    BY <2>2, <2>6 DEF Agrees
  <2> QED BY <2>1, <2>5, <2>6, <2>7, <2>8, ClientsMove
<1> QED BY <1>2, <1>3

\* A message reaches a server, a stack or nobody.
LEMMA DeliveryOwner ==
    ASSUME Inv, OwnerInv, NEW e \in messages, delivers(e), messages' \subseteq messages, sc' = sc
    PROVE  OwnerInv'
<1>1. CASE e.to \in Server
  <2>1. ServerDemux(e.to, e.m)
    BY <1>1 DEF delivers
  <2> QED BY <1>1, <2>1, ServerDemuxOwner
<1>2. CASE e.to \notin Server /\ e.to \in Stack
  <2> DEFINE c == e.to
             r == IF accepts(c, e.m) THEN clientDemux(cl[c], e.m) ELSE cl[c]
  <2>1. cl' = [cl EXCEPT ![c] = r] /\ UNCHANGED <<sc, srv, hist>>
    BY <1>2 DEF delivers, ClientDemux
  <2>2. DOMAIN cl[c] = ClientFields
    BY <1>2 DEF OwnerInv, Shapes
  <2>3. /\ DOMAIN r = ClientFields
        /\ \A s \in Server : /\ ClientAgrees(srv[s], c, cl[c], hist.acked)
                             /\ AnswerAgrees(srv[s], c, e.m, hist.acked)
                             => ClientAgrees(srv[s], c, r, hist.acked)
    BY <2>2, ClientDemuxAgrees
  <2> HIDE DEF r
  <2>4. Stack' = Stack /\ \A d \in Stack : cl'[d] = IF d = c THEN r ELSE cl[d]
    BY <2>1 DEF Stack
  <2>5. \A d \in Stack : DOMAIN cl'[d] = ClientFields
    BY <2>3, <2>4 DEF OwnerInv, Shapes
  <2>6. \A s \in Server : \A d \in Stack : Agrees(s, d) => ClientAgrees(srv[s], d, cl'[d], hist.acked)
    BY <2>3, <2>4 DEF Agrees
  <2> QED BY <2>1, <2>4, <2>5, <2>6, ClientsMove
<1>3. CASE e.to \notin Server /\ e.to \notin Stack
  <2>1. UNCHANGED <<sc, srv, cl, hist>>
    BY <1>3 DEF delivers
  <2>2. Stack' = Stack
    BY <2>1 DEF Stack
  <2> QED BY <2>1, <2>2, ClientsMove DEF OwnerInv, Shapes, Agrees
<1> QED BY <1>1, <1>2, <1>3

\* Every step keeps the invariant.
LEMMA StepOwner ==
    ASSUME Inv, OwnerInv, [Next]_vars
    PROVE  OwnerInv'
<1>1. CASE UNCHANGED <<sc, srv, cl, hist>> /\ messages' \subseteq messages
  <2>1. Stack' = Stack
    BY <1>1 DEF Stack
  <2> QED BY <1>1, <2>1, ClientsMove, Zenon DEF OwnerInv, Shapes, Agrees
<1>2. CASE \E c \in Stack : StartDHCPv4Request(c) \/ ClientEncapsulate(c)
  BY <1>2, ClientActsOwner
<1>3. ASSUME NEW e \in messages, Deliver(e) \/ DeliverTwice(e)
      PROVE  OwnerInv'
  <2>1. delivers(e) /\ sc' = sc
    BY <1>3 DEF Deliver, DeliverTwice
  <2>2. messages' \subseteq messages
    <3>1. CASE Deliver(e)
      BY <3>1, MessagesTaken DEF Deliver
    <3>2. CASE DeliverTwice(e)
      BY <3>2 DEF DeliverTwice, messages
    <3> QED BY <1>3, <3>1, <3>2
  <2> QED BY <2>1, <2>2, DeliveryOwner
<1>4. ASSUME NEW e \in messages, Lose(e)
      PROVE  OwnerInv'
  <2>1. UNCHANGED <<sc, srv, cl, hist>> /\ net' = without(e)
    BY <1>4 DEF Lose
  <2> QED BY <1>1, <2>1, MessagesTaken
<1>5. ASSUME NEW s \in Server, NEW m \in foreignMessages, Foreign(s, m)
      PROVE  OwnerInv'
  <2>1. UNCHANGED <<sc, srv, cl, hist>> /\ net' = sends({[m |-> m, to |-> s]})
    BY <1>5 DEF Foreign
  <2>2. messages' = messages \cup {[m |-> m, to |-> s]}
    BY <2>1, MessagesSent
  <2>3. SenderOk(Stack, m)
    BY DEF SenderOk, foreignMessages
  <2>4. \A d \in messages' : d \in messages \/ (d.to \in Server /\ SenderOk(Stack, d.m))
    BY <2>2, <2>3
  <2>5. Stack' = Stack
    BY <2>1 DEF Stack
  <2> QED BY <2>1, <2>4, <2>5, ClientsMove, Zenon DEF OwnerInv, Shapes, Agrees
<1>6. CASE \E s \in Server : \E k \in pendingHosts(srv[s]) : ServerEncapsulate(s, k)
  BY <1>6, ServerEncapsulateOwner
<1>7. CASE \E s \in Server : Restart(s)
  BY <1>7, RestartOwner
<1>8. ASSUME NEW c \in Stack,
             SeesBound(c) \/ ResultDHCP(c) \/ AssimilateDHCPResults(c) \/ Deadline(c) \/ Again(c)
      PROVE  OwnerInv'
  <2>1. UNCHANGED <<sc, srv, cl, hist, net>>
    BY <1>8 DEF SeesBound, ResultDHCP, AssimilateDHCPResults, Deadline, Again
  <2> QED BY <1>1, <2>1 DEF messages
<1>9. CASE UNCHANGED vars
  BY <1>1, <1>9 DEF vars, messages
<1> QED
  BY <1>2, <1>3, <1>4, <1>5, <1>6, <1>7, <1>8, <1>9 DEF Next

\* It holds at the start.
LEMMA StartOwner ==
    ASSUME Init
    PROVE  OwnerInv
<1>1. /\ sc \in Scenarios /\ Server = DOMAIN sc.servers /\ Stack = DOMAIN sc.req
      /\ \A s \in Server : srv[s] = Configure(sc.servers[s])
      /\ \A c \in Stack : cl[c] = Closed
  BY DEF Init, Server, Stack
<1>2. messages = {}
  BY DEF Init, messages
<1>3. /\ DOMAIN hist = HistFields /\ DOMAIN hist.moves = Server /\ DOMAIN hist.chosen = Server
      /\ \A s \in Server : hist.moves[s] = 0 /\ hist.chosen[s] = {}
  BY <1>1 DEF Init, HistFields
<1>4. DOMAIN Closed = ClientFields /\ Closed.state = "none" /\ Closed.offered = FALSE
  BY DEF Closed, ClientFields
<1>5. Shapes
  BY <1>1, <1>3, <1>4, Zenon DEF Shapes
<1>6. AddressInv
  <2> SUFFICES ASSUME NEW s \in Server
               PROVE  AddressOk(srv[s], sc.servers[s], hist.moves[s], hist.chosen[s])
    BY DEF AddressInv
  <2>1. Sensible(sc.servers[s])
    BY <1>5, ServersSensible
  <2>2. Placed(srv[s], sc.servers[s]) /\ Handed(srv[s], sc.servers[s], 0, {})
    BY <1>1, <2>1, ConfigurePlaced
  <2> QED BY <1>3, <2>2 DEF AddressOk
<1>7. RoutesInv
  <2>1. \A cfg : known(Configure(cfg)) = {}
    BY DEF Configure, known
  <2>2. \A s \in Server : known(srv[s]) = {}
    BY <1>1, <2>1
  <2> QED BY <1>2, <2>2 DEF RoutesInv, EntriesOk
<1>8. BoundInv
  BY <1>1, <1>2, <1>4 DEF BoundInv, Agrees, ClientAgrees
<1> QED BY <1>5, <1>6, <1>7, <1>8 DEF OwnerInv

\* Two hosts have two addresses, but for those that hosts chose, none has the server's, and a stack is bound to what its
\* one server acknowledged, for any sensible subnets, servers and stacks, and any network
\* that loses, repeats and reorders (Server.allocAddr, Client.Demux).
THEOREM AddressesHaveOneOwner == Spec => []OneOwner
<1>1. Init => OwnerInv
  BY StartOwner
<1>2. Inv /\ OwnerInv /\ [Next]_vars => OwnerInv'
  BY StepOwner
<1>3. OwnerInv => OneOwner
  <2> SUFFICES ASSUME OwnerInv
               PROVE  OneOwner
    OBVIOUS
  <2>1. ASSUME NEW s \in Server
        PROVE  /\ \A k \in known(srv[s]) : srv[s].hosts[k].addr # srv[s].siaddr
               /\ ~comesRound(s) => Apart(srv[s], hist.chosen[s])
    <3>1. AddressOk(srv[s], sc.servers[s], hist.moves[s], hist.chosen[s])
      BY DEF OwnerInv, AddressInv
    <3>2. Placed(srv[s], sc.servers[s])
      BY <3>1 DEF AddressOk
    <3>3. \A k \in known(srv[s]) : srv[s].hosts[k].addr # srv[s].siaddr
      BY <3>2 DEF Placed
    <3>4. P!hosts(srv[s].subnet) = size(sc.servers[s]) /\ size(sc.servers[s]) \in Nat
      BY <3>2, ServersSensible DEF Placed, size, OwnerInv, Sensible
    <3>5. ~comesRound(s) => hist.moves[s] <= size(sc.servers[s]) - 1
      BY <3>1, <3>4 DEF comesRound, AddressOk
    <3> QED BY <3>1, <3>3, <3>5 DEF AddressOk, Handed
  <2>2. ASSUME Cardinality(Server) = 1, ~hist.restarted, NEW c \in Stack \ hist.lost, cl[c].state = "bound"
        PROVE  <<c, cl[c].xid, cl[c].offer>> \in hist.acked
    <3>1. IsFiniteSet(Server)
      BY NodesToldApart DEF OwnerInv
    <3>2. PICK s : Server = {s}
      BY <2>2, <3>1, FS_Singleton, Zenon
    <3>3. Agrees(s, c)
      BY <2>2, <3>2 DEF OwnerInv, BoundInv
    <3> QED BY <2>2, <3>3 DEF Agrees, ClientAgrees
  <2> QED BY <2>1, <2>2 DEF OneOwner, Apart
<1> QED BY <1>1, <1>2, <1>3, InvariantHolds, PTL DEF Spec
=============================================================================
