----------------------------- MODULE DHCPv4Nodes ------------------------------
(***************************************************************************)
(* dhcpv4.Client (dhcp/dhcpv4/client.go): one exchange from discover to    *)
(* acknowledgement.  It sends each message once.  An address that no       *)
(* server gave is NoAddr; the offer may be 0.0.0.0, so it has a flag.      *)
(***************************************************************************)
EXTENDS Integers, FiniteSets

NoAddr == 0           \* an absent address option, and 0.0.0.0

Closed == [state |-> "none", xid |-> 0, req |-> NoAddr, offered |-> FALSE, offer |-> NoAddr,
           svip |-> NoAddr, router |-> NoAddr, dns |-> NoAddr, subnet |-> 32]

clientIsClosed(c) == c.state = "none" \/ c.xid = 0

\* Reset, and BeginRequest with a transaction id that is not zero.
BeginRequest(xid, req) == [Closed EXCEPT !.state = "init", !.xid = xid, !.req = req]

\* What Encapsulate sends next, if anything.
clientDue(c) == IF clientIsClosed(c) THEN "nothing"
                ELSE IF c.state = "init" THEN "discover"
                ELSE IF c.state = "selecting" /\ c.offered THEN "request"
                ELSE "nothing"

clientMessage(c, id, hw) ==
    [type |-> clientDue(c), xid |-> c.xid, cid |-> id, chaddr |-> hw, ciaddr |-> NoAddr,
     req |-> IF c.state = "init" THEN c.req ELSE c.offer, server |-> c.svip]

sentState(c) == [c EXCEPT !.state = IF @ = "init" THEN "selecting" ELSE "requesting"]

owns(c, m) == ~clientIsClosed(c) /\ m.xid = c.xid

\* Every offer and acknowledgement of the transaction sets the options it carries; the
\* name servers are the first ones heard of.
setOptions(c, m) ==
    [c EXCEPT !.svip = m.server,
              !.router = IF m.router = NoAddr THEN @ ELSE m.router,
              !.dns = IF @ = NoAddr THEN m.dns ELSE @,
              !.subnet = m.mask]

lockIn(c, m) == [c EXCEPT !.offered = TRUE, !.offer = m.yiaddr]

\* The address an acknowledgement carries is not looked at.
clientAdvance(c, m) ==
    IF c.state = "selecting" /\ m.type = "offer" /\ ~c.offered THEN lockIn(c, m)
    ELSE IF c.state = "requesting" /\ m.type = "ack" THEN [c EXCEPT !.state = "bound"]
    ELSE c

clientDemux(c, m) ==
    IF owns(c, m) /\ m.type \in {"offer", "ack"} THEN clientAdvance(setOptions(c, m), m) ELSE c

-----------------------------------------------------------------------------
(***************************************************************************)
(* dhcpv4.Server (dhcp/dhcpv4/server.go): the table of the hosts it knows, *)
(* each in the state of its exchange, and the address to hand out next.    *)
(* A host is known by its client identifier or, without one, its hardware  *)
(* address.  Leases do not expire: the server keeps no time.               *)
(***************************************************************************)

P == INSTANCE Prefix

ZeroKey == "zero"     \* the all-zero identifier

NoEntry == [addr |-> NoAddr, xid |-> 0, hw |-> ZeroKey, state |-> "none"]

\* A reply of the server is due to the host.
owed(e) == e.state \in {"init", "requesting"}

Configure(cfg) ==
    [siaddr |-> cfg.addr, gwaddr |-> cfg.gateway, dns |-> cfg.dns, subnet |-> cfg.subnet,
     nextAddr |-> P!NextAddr(cfg.subnet, cfg.addr), hosts |-> <<>>, pending |-> 0]

known(sv) == DOMAIN sv.hosts

\* The keys of the hosts that hold address a.
holders(sv, a) == {k \in known(sv) : sv.hosts[k].addr = a}

isAddrAssigned(sv, a) == holders(sv, a) # {}

store(sv, k, e) == [sv EXCEPT !.hosts = [j \in known(sv) \cup {k} |-> IF j = k THEN e ELSE @[j]]]

forget(sv, k) == [sv EXCEPT !.hosts = [j \in known(sv) \ {k} |-> @[j]]]

\* Mutant: the server's own address is not stepped over.
advanceMutant(sv) == [sv EXCEPT !.nextAddr = P!NextAddr(sv.subnet, @)]

advance(sv) ==
    LET a == P!NextAddr(sv.subnet, sv.nextAddr)
    IN  [sv EXCEPT !.nextAddr = IF a = sv.siaddr THEN P!NextAddr(sv.subnet, a) ELSE a]

prefers(sv, req) ==
    req # NoAddr /\ P!Contains(sv.subnet, req) /\ req # sv.siaddr /\ ~isAddrAssigned(sv, req)

\* The address for a new host, NoAddr when there is none: the one it asks for if it is
\* free, or else the next one, which is not looked up.
allocAddr(sv, req) ==
    IF prefers(sv, req) THEN [sv |-> sv, addr |-> req]
    ELSE [sv |-> advance(sv),
          addr |-> IF P!isBroadcast(sv.subnet, sv.nextAddr) THEN NoAddr ELSE sv.nextAddr]

\* Where a message may be filed, and whether an entry was found for it.  A message with no
\* identifier whose hardware address is unknown is looked up by the address it claims; a
\* search that fails leaves the zero key and finds nothing, also if there is an entry
\* under that key (getClientByIP).
lookups(sv, m) ==
    LET key == IF m.cid = ZeroKey THEN m.chaddr ELSE m.cid
    IN  IF key \in known(sv) \/ m.cid # ZeroKey \/ m.ciaddr = NoAddr
        THEN {[key |-> key, found |-> key \in known(sv)]}
        ELSE IF isAddrAssigned(sv, m.ciaddr)
        THEN {[key |-> k, found |-> TRUE] : k \in holders(sv, m.ciaddr)}
        ELSE {[key |-> ZeroKey, found |-> FALSE]}

client(sv, l) == IF l.found THEN sv.hosts[l.key] ELSE NoEntry

\* Mutant: the reply that was due stays counted.
cancelMutant(sv, l) == sv

\* Takes back a reply that is due to the host that was found.
cancel(sv, l) == [sv EXCEPT !.pending = IF owed(client(sv, l)) THEN @ - 1 ELSE @]

\* Mutant: a host that starts over keeps its old transaction.
offerToMutant(sv, l, addr, m) ==
    store([cancel(sv, l) EXCEPT !.pending = @ + 1], l.key,
          [addr |-> addr, xid |-> IF l.found THEN client(sv, l).xid ELSE m.xid,
           hw |-> m.chaddr, state |-> "init"])

offerTo(sv, l, addr, m) ==
    store([cancel(sv, l) EXCEPT !.pending = @ + 1], l.key,
          [addr |-> addr, xid |-> m.xid, hw |-> m.chaddr, state |-> "init"])

\* Mutant: a known host is given a new address.
discoverMutant(sv, l, m) ==
    LET a == allocAddr(sv, m.req)
    IN  IF a.addr = NoAddr THEN a.sv ELSE offerTo(a.sv, l, a.addr, m)

\* A host that is found keeps its address.
discover(sv, l, m) ==
    IF l.found THEN offerTo(sv, l, client(sv, l).addr, m)
    ELSE LET a == allocAddr(sv, m.req)
         IN  IF a.addr = NoAddr THEN a.sv ELSE offerTo(a.sv, l, a.addr, m)

\* The server identifier of a request is not looked at.
request(sv, l, m) ==
    IF l.found /\ client(sv, l).xid = m.xid /\ client(sv, l).state = "selecting"
    THEN store([sv EXCEPT !.pending = @ + 1], l.key, [client(sv, l) EXCEPT !.state = "requesting"])
    ELSE sv

\* A release from an unknown host leaves an empty entry for it.
release(sv, l) == IF l.found THEN forget(cancel(sv, l), l.key) ELSE store(sv, l.key, NoEntry)

\* What Demux leaves after the lookup l; a refused message changes nothing.
Demux(sv, l, m) ==
    CASE m.type = "discover" -> discover(sv, l, m)
      [] m.type = "request" -> request(sv, l, m)
      [] m.type = "release" -> release(sv, l)
      [] OTHER -> sv

\* The hosts Encapsulate may answer next; it takes the first it meets in a map.
pendingHosts(sv) == IF sv.pending = 0 THEN {} ELSE {k \in known(sv) : owed(sv.hosts[k])}

reply(sv, e) ==
    [type |-> IF e.state = "init" THEN "offer" ELSE "ack", xid |-> e.xid, yiaddr |-> e.addr,
     chaddr |-> e.hw, server |-> sv.siaddr, router |-> sv.gwaddr, dns |-> sv.dns,
     mask |-> sv.subnet.hostBits]

\* The answer is sent: an offer, or an acknowledgement that binds the host.
Encapsulate(sv, k) ==
    LET e == sv.hosts[k]
    IN  store([sv EXCEPT !.pending = @ - 1], k,
              [e EXCEPT !.state = IF e.state = "init" THEN "selecting" ELSE "bound"])
=============================================================================
