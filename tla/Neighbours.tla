------------------------------ MODULE Neighbours ------------------------------
(***************************************************************************)
(* The cache of address pairs (arp/cache.go): a fixed number of entries    *)
(* that hold what is known of a neighbour and what is owed to it.  A new   *)
(* entry takes a free place or evicts one, passive entries first.          *)
(***************************************************************************)
EXTENDS Integers, Sequences

Pfx == INSTANCE Prefix

CONSTANT maxAge     \* 255: the age at which entries grow no older

ASSUME MaxAgeAssumption == maxAge \in Nat

\* The first of some places, or 0.
first(places) == IF places = {} THEN 0 ELSE CHOOSE i \in places : \A j \in places : i <= j

NoAddr == 0
ZeroMAC == "zero"

Unused == [addr |-> NoAddr, mac |-> ZeroMAC, age |-> 0, flags |-> {}]

empty(size) == [i \in 1 .. size |-> Unused]

use(mac, addr, flags) ==
    [addr |-> addr, mac |-> mac, age |-> 0, flags |-> {"InUse"} \cup flags]

inUse(e) == "InUse" \in e.flags

priorityFlags == {"PendingResponse", "Incomplete", "Priority"}

passive(e) == e.flags \cap priorityFlags = {}

\* age: every entry in use is one older.
aged(c) ==
    [i \in DOMAIN c |->
        IF inUse(c[i]) /\ c[i].age < maxAge THEN [c[i] EXCEPT !.age = @ + 1] ELSE c[i]]

\* The first entry in use that has one of the flags, or 0.
getNextFlagged(c, flags) == first({i \in DOMAIN c : inUse(c[i]) /\ c[i].flags \cap flags # {}})

\* The first entry for addr, or 0; there may be several.
Lookup(c, addr) == first({i \in DOMAIN c : inUse(c[i]) /\ c[i].addr = addr})

clearFlags(c, has, clear) ==
    [i \in DOMAIN c |-> IF c[i].flags \cap has = {} THEN c[i] ELSE [c[i] EXCEPT !.flags = @ \ clear]]

oldest(c, S) == CHOOSE i \in S : \A j \in S \ {i} : c[i].age > c[j].age \/ (c[i].age = c[j].age /\ i < j)

\* Mutant: an entry that waits for its answer to be sent counts as passive.
nextMutant(c) ==
    LET unused == {i \in DOMAIN c : ~inUse(c[i])}
        yields == {i \in DOMAIN c : c[i].flags \cap {"Incomplete", "Priority"} = {}}
    IN  IF unused # {} THEN first(unused)
        ELSE oldest(c, IF yields # {} THEN yields ELSE DOMAIN c)

\* The place of the next entry: the first that is free, the oldest passive one, the oldest.
next(c) ==
    LET unused  == {i \in DOMAIN c : ~inUse(c[i])}
        yields  == {i \in DOMAIN c : passive(c[i])}
    IN  IF unused # {} THEN first(unused)
        ELSE oldest(c, IF yields # {} THEN yields ELSE DOMAIN c)

\* acquireNext, and e put in the place.
acquireNext(c, e) == [aged(c) EXCEPT ![next(c)] = e]

-----------------------------------------------------------------------------
(***************************************************************************)
(* arp.Handler (arp/handler.go) as operators on its cache.  A frame is a   *)
(* record of its operation and the addresses of its sender and target; the *)
(* Ethernet destination is its field to.                                   *)
(***************************************************************************)

StartQuery(c, proto, triggerCallback) ==
    acquireNext(c, use(ZeroMAC, proto, {"Incomplete", "PendingQuery", "Priority"}
                                       \cup IF triggerCallback THEN {"Callback"} ELSE {}))

CacheSeed(c, proto, hw) == acquireNext(c, use(hw, proto, {}))

CacheLookup(c, proto) ==
    LET i == Lookup(c, proto)
    IN  IF i = 0 THEN [err |-> "notFound"]
        ELSE IF "Incomplete" \in c[i].flags THEN [err |-> "pending"]
        ELSE [err |-> "nil", mac |-> c[i].mac]

\* Only the first entry for the address goes.
CacheRemove(c, proto) == IF Lookup(c, proto) = 0 THEN c ELSE [c EXCEPT ![Lookup(c, proto)] = Unused]

AbortPending(c) == clearFlags(c, {"PendingResponse", "Incomplete"}, {"InUse"})

\* The entry Encapsulate serves, responses first; 0 when there is nothing to send.
due(c) ==
    LET r == getNextFlagged(c, {"PendingResponse"})
    IN  IF r # 0 THEN r ELSE getNextFlagged(c, {"PendingQuery"})

answers(e) == "PendingResponse" \in e.flags

\* entry.put and the Ethernet destination.
frame(e, our, hw) ==
    [op |-> IF answers(e) THEN "reply" ELSE "request", shw |-> hw, sip |-> our, thw |-> e.mac,
     tip |-> e.addr, to |-> IF answers(e) THEN e.mac ELSE "all"]

\* The flag is cleared as the frame is made: a query is sent once.
Encapsulate(c) ==
    [c EXCEPT ![due(c)].flags = @ \ {IF answers(c[due(c)]) THEN "PendingResponse" ELSE "PendingQuery"}]

\* Mutant: the reply's target hardware address is kept.
filledMutant(c, f) ==
    LET i == Lookup(c, f.sip)
    IN  IF i = 0 THEN c
        ELSE [c EXCEPT ![i].mac = f.thw, ![i].flags = @ \ {"Incomplete", "PendingQuery"}]

filled(c, f) ==
    LET i == Lookup(c, f.sip)
    IN  IF i = 0 THEN c
        ELSE [c EXCEPT ![i].mac = f.shw, ![i].flags = @ \ {"Incomplete", "PendingQuery"}]

\* A request for our address is owed a response; nothing is learnt of the others.
Demux(c, our, f) ==
    IF f.op = "reply" THEN filled(c, f)
    ELSE IF f.tip = our THEN acquireNext(c, use(f.shw, f.sip, {"PendingResponse"}))
    ELSE c

\* The reply calls the resolve callback.
calls(c, f) == f.op = "reply" /\ Lookup(c, f.sip) # 0 /\ "Callback" \in c[Lookup(c, f.sip)].flags

-----------------------------------------------------------------------------
(***************************************************************************)
(* The neighbour discovery half of icmpv6.Client (ipv6/icmpv6/client.go,   *)
(* client_ndp.go, ndp_cache.go).  The cache is the one of ARP, written a   *)
(* second time for IPv6 addresses.                                         *)
(***************************************************************************)

Multicast == -1     \* a solicited-node address, which every host takes

\* ndpEntry.use, ndpCache.acquireNext, Lookup and getNextFlagged.
ndpUse(mac, addr, flags) == use(mac, addr, flags)
ndpAcquireNext(c, e) == acquireNext(c, e)
ndpLookup(c, addr) == Lookup(c, addr)
ndpNextFlagged(c, flag) == getNextFlagged(c, {flag})

NDPStartQuery(c, addr, triggerCallback) ==
    ndpAcquireNext(c, ndpUse(ZeroMAC, addr, {"Incomplete", "PendingQuery", "Priority"}
                                      \cup IF triggerCallback THEN {"Callback"} ELSE {}))

NDPCacheSeed(c, addr, mac) == IF addr = NoAddr THEN c ELSE ndpAcquireNext(c, ndpUse(mac, addr, {}))

NDPCacheLookup(c, addr) ==
    LET i == ndpLookup(c, addr)
    IN  IF i = 0 THEN [err |-> "notFound"]
        ELSE IF "Incomplete" \in c[i].flags THEN [err |-> "pending"]
        ELSE [err |-> "nil", mac |-> c[i].mac]

NDPCacheRemove(c, addr) == IF ndpLookup(c, addr) = 0 THEN c ELSE [c EXCEPT ![ndpLookup(c, addr)] = Unused]

ndpDue(c) ==
       LET r == ndpNextFlagged(c, "PendingResponse")
       IN  IF r # 0 THEN r ELSE ndpNextFlagged(c, "PendingQuery")

\* ndpEntry.put: a solicitation names the address it asks for and goes to that address's
\* multicast group; an advertisement names our own and goes to the one who asked.
ndpFrame(e, our, hw) ==
    IF "PendingResponse" \in e.flags
    THEN [op |-> "reply", shw |-> hw, sip |-> our, tip |-> our, dst |-> e.addr]
    ELSE [op |-> "request", shw |-> hw, sip |-> our, tip |-> e.addr, dst |-> Multicast]

encapsNDP(c) ==
    [c EXCEPT ![ndpDue(c)].flags =
        @ \ {IF "PendingResponse" \in c[ndpDue(c)].flags THEN "PendingResponse" ELSE "PendingQuery"}]

demuxNDP(c, our, f) ==
    LET i == ndpLookup(c, f.tip)
    IN  IF f.op = "request"
        THEN IF f.tip = our THEN ndpAcquireNext(c, ndpUse(f.shw, f.sip, {"PendingResponse"})) ELSE c
        ELSE IF i = 0 THEN c
        ELSE [c EXCEPT ![i].mac = f.shw, ![i].flags = @ \ {"Incomplete", "PendingQuery"}]

ndpCalls(c, f) == f.op = "reply" /\ ndpLookup(c, f.tip) # 0 /\ "Callback" \in c[ndpLookup(c, f.tip)].flags

-----------------------------------------------------------------------------
(***************************************************************************)
(* xnet.subnetTable (x/xnet/subnet-table.go): how an outbound connection   *)
(* comes by the hardware address of its peer.  A connection registers with *)
(* a buffer for that address and is not polled while the buffer is zero;   *)
(* the table keeps the buffers it has to fill.  A buffer is named by its   *)
(* connection, 0 for none.                                                 *)
(***************************************************************************)

NilMAC == "nil"     \* no buffer: the connection is polled and goes to the gateway

newTable(passivePeers, arpentries) ==
    [passive |-> [i \in 1 .. passivePeers |-> [ip |-> NoAddr, mac |-> ZeroMAC]],
     pending |-> [i \in 1 .. arpentries |-> [buf |-> 0, ip |-> NoAddr, age |-> 0]]]

\* The slot of a new query: the first free one, or the oldest.
slot(p) ==
    LET unused == {i \in DOMAIN p : p[i].buf = 0}
    IN  IF unused # {} THEN first(unused)
        ELSE CHOOSE i \in DOMAIN p :
                \A j \in DOMAIN p \ {i} : p[i].age > p[j].age \/ (p[i].age = p[j].age /\ i < j)

awaits(p, buf, ip) ==
    [[i \in DOMAIN p |-> [p[i] EXCEPT !.age = @ + 1]] EXCEPT ![slot(p)] = [buf |-> buf, ip |-> ip, age |-> 1]]

learnt(t, ip) == first({i \in DOMAIN t.passive : t.passive[i].ip = ip})

\* What a resolution gives: the address to begin with, the table and the cache.
Resolved(mac, t, c) == [mac |-> mac, tab |-> t, cache |-> c, err |-> "nil"]

startQuery(t, c, buf, ip) ==
    IF learnt(t, ip) # 0 THEN Resolved(t.passive[learnt(t, ip)].mac, t, c)
    ELSE Resolved(ZeroMAC, [t EXCEPT !.pending = awaits(@, buf, ip)], StartQuery(c, ip, TRUE))

\* A query in flight for the same address does not stop a second one.
hwDynamicResolve(t, c, subnet, buf, ip) ==
    IF ~Pfx!Contains(subnet, ip) THEN Resolved(NilMAC, t, c)
    ELSE IF CacheLookup(c, ip).err = "nil" THEN Resolved(CacheLookup(c, ip).mac, t, c)
    ELSE startQuery(t, c, buf, ip)

\* Mutant: the slot is not released.
releasedMutant(t, ip) == t

\* onResolve fills the first buffer that waits for ip and releases its slot.
waiting(t, ip) ==
    LET i == first({j \in DOMAIN t.pending : t.pending[j].ip = ip}) IN IF i = 0 THEN {} ELSE {t.pending[i].buf}

released(t, ip) ==
    LET i == first({j \in DOMAIN t.pending : t.pending[j].ip = ip})
    IN  IF i = 0 THEN t ELSE [t EXCEPT !.pending[i] = [buf |-> 0, ip |-> NoAddr, age |-> 0]]

\* The sender of an IPv4 frame takes its slot, or the first free one; a full table learns
\* no more.
learnPassive(t, subnet, src, mac) ==
    LET i == first({j \in DOMAIN t.passive : t.passive[j].ip \in {src, NoAddr}})
    IN  IF i = 0 \/ ~Pfx!Contains(subnet, src) THEN t
        ELSE [t EXCEPT !.passive[i] = [ip |-> src, mac |-> mac]]

\* The destination of an IPv4 frame, on its way out with mac.
patchEgressMAC(t, mac, dst) ==
    IF mac = "all" \/ learnt(t, dst) = 0 THEN mac ELSE t.passive[learnt(t, dst)].mac

-----------------------------------------------------------------------------
(***************************************************************************)
(* How xnet.stack6 (x/xnet/stack6.go) resolves the peers of its outbound   *)
(* connections: the counterpart of subnetTable, with slots that are only   *)
(* given back when the address is resolved.                                *)
(***************************************************************************)

newPending(n) == [i \in 1 .. n |-> [buf |-> 0, addr |-> NoAddr]]

\* The query is started before a slot is looked for.
ndpDynamicResolve(p, c, buf, addr) ==
    LET found == NDPCacheLookup(c, addr)
        asked == NDPStartQuery(c, addr, TRUE)
        i     == first({j \in DOMAIN p : p[j].buf = 0})
    IN  IF found.err = "nil" THEN [mac |-> found.mac, tab |-> p, cache |-> c, err |-> "nil"]
        ELSE IF i = 0 THEN [mac |-> ZeroMAC, tab |-> p, cache |-> asked, err |-> "exhausted"]
        ELSE [mac |-> ZeroMAC, tab |-> [p EXCEPT ![i] = [buf |-> buf, addr |-> addr]],
              cache |-> asked, err |-> "nil"]

\* Every buffer that waits for addr is filled, and its slot is free again.
macResolve(p, addr) == {p[i].buf : i \in {j \in DOMAIN p : p[j].buf # 0 /\ p[j].addr = addr}}

freed(p, addr) ==
    [i \in DOMAIN p |-> IF p[i].buf # 0 /\ p[i].addr = addr THEN [buf |-> 0, addr |-> NoAddr] ELSE p[i]]

dropNDPPending(p) == newPending(Len(p))
=============================================================================
