--------------------------------- MODULE Link ---------------------------------
(***************************************************************************)
(* Hosts on one Ethernet link.  Each is a StackAsync with its neighbour    *)
(* cache (ARP, or NDP when the scenario is IPv6), the table of the         *)
(* connections that wait for a hardware address, and the connections it    *)
(* dials; it answers what is sent to it.  A host without an address may    *)
(* claim a link-local one.  The link loses and repeats frames.             *)
(***************************************************************************)
EXTENDS Integers, Neighbours

-----------------------------------------------------------------------------
(***************************************************************************)
(* linklocal4.Handler (ipv4/linklocal4/handler.go): a host that claims an  *)
(* address nobody gave it.  Times count down to zero; a random delay or    *)
(* candidate is a parameter.                                               *)
(***************************************************************************)

CONSTANTS probeWait, probeNum, probeMin, probeMax, announceWait, announceNum,
          announceInterval, maxConflicts, rateLimitInterval, defendInterval

llInvalid == [state |-> "invalid", candidate |-> 0, probesSent |-> 0, announceSent |-> 0,
              conflicts |-> 0, wait |-> 0, defendDue |-> FALSE, defendFor |-> 0]

\* defendFor, the time in which one more conflict ends the claim, is 0 while there was none.
beginProbing(h, delay) ==
    [h EXCEPT !.state = "waiting", !.probesSent = 0, !.announceSent = 0, !.defendDue = FALSE,
              !.defendFor = 0, !.wait = delay]

\* Reset, with the first candidate given or drawn.
llReset(candidate, delay) == beginProbing([llInvalid EXCEPT !.candidate = candidate], delay)

probing(h) == h.state \in {"waiting", "probing"}
owns(h) == h.state \in {"announcing", "bound"}
probesLeft(h) == h.probesSent < probeNum

\* Something is to be done at this moment.
llDue(h) == \/ h.state \in {"waiting", "probing", "announcing", "limited"} /\ h.wait = 0
            \/ h.state = "bound" /\ h.defendDue

\* The delays Encapsulate may draw.
delays(h) == IF h.state = "limited" THEN 0 .. probeWait
             ELSE IF probing(h) /\ h.probesSent < probeNum - 1 THEN probeMin .. probeMax
             ELSE {0}

probe(h, delay) ==
    [h EXCEPT !.state = "probing", !.probesSent = @ + 1,
              !.wait = IF h.probesSent + 1 < probeNum THEN delay ELSE announceWait]

announce(h) ==
    LET last == h.announceSent + 1 >= announceNum
    IN  [h EXCEPT !.state = IF probing(h) \/ ~last THEN "announcing" ELSE "bound",
                  !.announceSent = @ + 1,
                  !.wait = IF probing(h) \/ ~last THEN announceInterval ELSE 0]

\* The state Encapsulate leaves.
llEncapsulate(h, delay) ==
    IF h.state = "limited" THEN beginProbing(h, delay)
    ELSE IF h.state = "bound" THEN [h EXCEPT !.defendDue = FALSE]
    ELSE IF probing(h) /\ probesLeft(h) THEN probe(h, delay)
    ELSE announce(h)

\* A probe has no sender address; an announcement repeats the candidate.  The end of a
\* rate limit sends nothing.
llSends(h) == h.state # "limited"
llFrame(h, hw) ==
    [op |-> "request", shw |-> hw, sip |-> IF probing(h) /\ probesLeft(h) THEN 0 ELSE h.candidate,
     thw |-> "zero", tip |-> h.candidate, to |-> "all"]

onConflict(h, candidate, delay) ==
    LET n == IF h.conflicts < 255 THEN h.conflicts + 1 ELSE 255
        g == [h EXCEPT !.conflicts = n, !.candidate = candidate]
    IN  IF n > maxConflicts THEN [g EXCEPT !.state = "limited", !.wait = rateLimitInterval]
        ELSE beginProbing(g, delay)

\* Defends the address once, and gives it up when that was not long ago.
onDefend(h, candidate, delay) ==
    IF h.defendFor = 0 THEN [h EXCEPT !.defendFor = defendInterval, !.defendDue = TRUE]
    ELSE onConflict(h, candidate, delay)

\* Mutant: the probe of another host is no conflict.
conflictMutant(h, hw, f) == f.sip = h.candidate

\* The frame f contests the address a host is probing for.
conflict(h, hw, f) ==
    \/ f.sip = h.candidate
    \/ f.op = "request" /\ f.sip = 0 /\ f.tip = h.candidate /\ f.shw # hw

llContests(h, hw, f) == f.sip = h.candidate /\ f.shw # hw

\* The frame makes the host draw a new candidate.
moves(h, hw, f) == (probing(h) /\ conflict(h, hw, f)) \/ (owns(h) /\ llContests(h, hw, f) /\ h.defendFor > 0)

llDemux(h, hw, f, candidate, delay) ==
    IF probing(h) /\ conflict(h, hw, f) THEN onConflict(h, candidate, delay)
    ELSE IF owns(h) /\ llContests(h, hw, f) THEN onDefend(h, candidate, delay)
    ELSE h

\* The clock goes on by one.
down(n) == IF n > 0 THEN n - 1 ELSE 0
elapse(h) == [h EXCEPT !.wait = down(@), !.defendFor = down(@)]

-----------------------------------------------------------------------------
CONSTANT Scenarios     \* the settings to run with; see Init

\* Link-local addresses are those of IPv4.
ASSUME ScenarioAssumption ==
    \A s \in Scenarios :
        /\ s.cacheSize \in Nat /\ s.slots \in Nat /\ s.passivePeers \in Nat /\ s.six \in BOOLEAN
        /\ s.claimants \subseteq DOMAIN s.ip /\ (s.six => s.claimants = {})

VARIABLES
    sc,       \* the scenario
    host,     \* each host: addresses, neighbour cache, table, link-local claim, answers owed
    conn,     \* each host's connections, in the order they were dialled
    net,      \* the frames on their way, each to one host, with the number of their copies
    owned,    \* every pair of addresses a host ever had or announced
    budget    \* what is left of the scenario's bounds

vars == <<sc, host, conn, net, owned, budget>>

Host == DOMAIN host

newHost(h) ==
    [hw |-> h, ip |-> sc.ip[h], nb |-> empty(sc.cacheSize),
     tab |-> IF sc.six THEN newPending(sc.slots) ELSE newTable(sc.passivePeers, sc.slots),
     ll |-> llInvalid, owes |-> {}]

Init ==
    /\ sc \in Scenarios
    /\ host = [h \in DOMAIN sc.ip |-> newHost(h)]
    /\ conn = [h \in DOMAIN sc.ip |-> <<>>]
    /\ net = <<>>
    /\ owned = {<<sc.ip[h], h>> : h \in DOMAIN sc.ip}
    /\ budget = sc.budget

spend(b) == budget[b] > 0 /\ budget' = [budget EXCEPT ![b] = @ - 1]

\* A frame reaches the hosts its Ethernet destination names.
copies(h, kind, f, to) ==
    {[at |-> k, kind |-> kind, f |-> f, to |-> to] : k \in {j \in Host \ {h} : to \in {"all", host[j].hw}}}

\* The link has one more copy of each frame of fs, and one copy of the frame e less.
with(fs) == [e \in DOMAIN net \cup fs |-> (IF e \in DOMAIN net THEN net[e] ELSE 0) + (IF e \in fs THEN 1 ELSE 0)]
without(e) == [d \in {c \in DOMAIN net : c # e \/ net[c] > 1} |-> IF d = e THEN net[d] - 1 ELSE net[d]]

puts(h, kind, f, to) == net' = with(copies(h, kind, f, to))
-----------------------------------------------------------------------------
(* The application.                                                        *)

resolve(h, ip) ==
    LET buf == Len(conn[h]) + 1
    IN  IF sc.six THEN ndpDynamicResolve(host[h].tab, host[h].nb, buf, ip)
        ELSE hwDynamicResolve(host[h].tab, host[h].nb, sc.subnet, buf, ip)

dialled(h, ip, r) ==
    /\ host' = [host EXCEPT ![h].tab = r.tab, ![h].nb = r.cache]
    /\ conn' = [conn EXCEPT ![h] =
                    Append(@, [ip |-> ip, mac |-> r.mac, st |-> IF r.err = "nil" THEN "dial" ELSE "failed"])]

\* DialTCP4 or DialTCP6: the connection is opened and registered with its buffer.
Dial(h) ==
    /\ Len(conn[h]) < Len(sc.dials[h])
    /\ LET ip == sc.dials[h][Len(conn[h]) + 1] IN dialled(h, ip, resolve(h, ip))
    /\ UNCHANGED <<sc, net, owned, budget>>

\* StartResolveHardwareAddress6: a query that is polled for, with no callback.
StartResolve(h, ip) ==
    /\ spend("resolve")
    /\ host' = [host EXCEPT ![h].nb = IF sc.six THEN NDPStartQuery(@, ip, FALSE)
                                      ELSE StartQuery(@, ip, FALSE)]
    /\ UNCHANGED <<sc, conn, net, owned>>

DiscardResolve(h, ip) ==
    /\ spend("discard")
    /\ host' = [host EXCEPT ![h].nb = IF sc.six THEN NDPCacheRemove(@, ip) ELSE CacheRemove(@, ip)]
    /\ UNCHANGED <<sc, conn, net, owned>>

Seed(h, k) ==
    /\ spend("seed")
    /\ host' = [host EXCEPT ![h].nb = IF sc.six THEN NDPCacheSeed(@, host[k].ip, host[k].hw)
                                      ELSE CacheSeed(@, host[k].ip, host[k].hw)]
    /\ UNCHANGED <<sc, conn, net, owned>>

Abort(h) ==
    /\ spend("abort") /\ ~sc.six
    /\ host' = [host EXCEPT ![h].nb = AbortPending(@)]
    /\ UNCHANGED <<sc, conn, net, owned>>

\* SetHardwareAddr resets ARP, which keeps its cache.
SetHardwareAddr(h, hw) ==
    /\ spend("rekey") /\ ~sc.six
    /\ host' = [host EXCEPT ![h].hw = hw]
    /\ owned' = owned \cup {<<host[h].ip, hw>>}
    /\ UNCHANGED <<sc, conn, net>>

\* The IPv6 stack forgets what its connections wait for.
SetAddr(h, ip) ==
    /\ spend("readdress")
    /\ host' = [host EXCEPT ![h].ip = ip, ![h].tab = IF sc.six THEN dropNDPPending(@) ELSE @]
    /\ owned' = owned \cup {<<ip, host[h].hw>>}
    /\ UNCHANGED <<sc, conn, net>>
-----------------------------------------------------------------------------
(* The stack.                                                              *)

\* The resolver sends a response or a query.  NDP leaves the Ethernet destination to the
\* gateway address.
ResolverEncapsulate(h) ==
    LET x == host[h]
        e == x.nb[due(x.nb)]
    IN  /\ due(x.nb) # 0
        /\ IF sc.six THEN puts(h, "nd", ndpFrame(e, x.ip, x.hw), sc.gateway)
           ELSE puts(h, "arp", frame(e, x.ip, x.hw), frame(e, x.ip, x.hw).to)
        /\ host' = [host EXCEPT ![h].nb = IF sc.six THEN encapsNDP(@) ELSE Encapsulate(@)]
        /\ UNCHANGED <<sc, conn, owned, budget>>

polled(c) == c.st = "dial" /\ c.mac # ZeroMAC

\* StackPortsMACFiltered skips connections whose buffer is zero; StackEthernet begins with
\* the gateway's address, and passively learnt ones replace it.
ConnEncapsulate(h) ==
    LET ready == {i \in DOMAIN conn[h] : polled(conn[h][i])}
        i     == CHOOSE j \in ready : \A k \in ready : j <= k
        c     == conn[h][i]
        mac   == IF c.mac = NilMAC THEN sc.gateway ELSE c.mac
    IN  /\ ready # {}
        /\ puts(h, "ip", [flag |-> "syn", shw |-> host[h].hw, sip |-> host[h].ip, dip |-> c.ip],
                IF sc.six THEN mac ELSE patchEgressMAC(host[h].tab, mac, c.ip))
        /\ conn' = [conn EXCEPT ![h][i].st = "sent"]
        /\ UNCHANGED <<sc, host, owned, budget>>

\* A listener answers: it has no buffer.
ListenerEncapsulate(h, ip) ==
    /\ ip \in host[h].owes
    /\ puts(h, "ip", [flag |-> "ack", shw |-> host[h].hw, sip |-> host[h].ip, dip |-> ip],
            IF sc.six THEN sc.gateway ELSE patchEgressMAC(host[h].tab, sc.gateway, ip))
    /\ host' = [host EXCEPT ![h].owes = @ \ {ip}]
    /\ UNCHANGED <<sc, conn, owned, budget>>

\* The buffers in bufs hold mac from now on.
fills(cs, bufs, mac) == [i \in DOMAIN cs |-> IF i \in bufs THEN [cs[i] EXCEPT !.mac = mac] ELSE cs[i]]

\* A link-local host sees every ARP frame too, and may have to move.
claims(x, f) ==
    IF moves(x.ll, x.hw, f)
    THEN {llDemux(x.ll, x.hw, f, c, d) :
            c \in IF budget.draws > 0 THEN sc.candidates ELSE {sc.last[x.hw]}, d \in 0 .. probeWait}
    ELSE {llDemux(x.ll, x.hw, f, 0, 0)}

DemuxARP(h, f) ==
    LET x == host[h]
        b == IF calls(x.nb, f) THEN waiting(x.tab, f.sip) ELSE {}
    IN  /\ \E ll \in claims(x, f) :
            host' = [host EXCEPT ![h].nb = Demux(@, x.ip, f), ![h].ll = ll,
                                 ![h].tab = IF calls(x.nb, f) THEN released(@, f.sip) ELSE @]
        /\ budget' = [budget EXCEPT !.draws = IF moves(x.ll, x.hw, f) /\ @ > 0 THEN @ - 1 ELSE @]
        /\ conn' = [conn EXCEPT ![h] = fills(@, b, f.shw)]

DemuxNDP(h, f) ==
    LET x == host[h]
        b == IF ndpCalls(x.nb, f) THEN macResolve(x.tab, f.tip) ELSE {}
        taken == f.dst \in {Multicast, x.ip} \/ x.ip = NoAddr
    IN  /\ host' = IF taken THEN [host EXCEPT ![h].nb = demuxNDP(@, x.ip, f),
                                              ![h].tab = IF ndpCalls(x.nb, f) THEN freed(@, f.tip) ELSE @]
                   ELSE host
        /\ conn' = IF taken THEN [conn EXCEPT ![h] = fills(@, b, f.shw)] ELSE conn
        /\ UNCHANGED budget

\* A connection of ours, or a listener, takes the segment; its sender is learnt.
DemuxIP(h, f) ==
    LET x     == host[h]
        mine  == {i \in DOMAIN conn[h] : f.flag = "ack" /\ conn[h][i].ip = f.sip /\ conn[h][i].st = "sent"}
        taken == f.dip = x.ip /\ (f.flag = "syn" \/ mine # {})
    IN  /\ conn' = IF taken THEN [conn EXCEPT ![h] = [i \in DOMAIN @ |->
                                    IF i \in mine THEN [@[i] EXCEPT !.st = "open"] ELSE @[i]]]
                   ELSE conn
        /\ host' = IF taken THEN [host EXCEPT ![h].owes = IF f.flag = "syn" THEN @ \cup {f.sip} ELSE @,
                                              ![h].tab = IF sc.six THEN @
                                                         ELSE learnPassive(@, sc.subnet, f.sip, f.shw)]
                   ELSE host
        /\ UNCHANGED budget

\* StackEthernet takes what is sent to all or to its address.
receives(e) ==
    IF e.to \notin {"all", host[e.at].hw} THEN UNCHANGED <<host, conn, budget>>
    ELSE CASE e.kind = "arp" -> DemuxARP(e.at, e.f)
           [] e.kind = "nd" -> DemuxNDP(e.at, e.f)
           [] e.kind = "ip" -> DemuxIP(e.at, e.f)

Deliver(e) ==
    /\ receives(e)
    /\ net' = without(e)
    /\ UNCHANGED <<sc, owned>>

Duplicate(e) ==
    /\ spend("dup")
    /\ net' = with({e})
    /\ UNCHANGED <<sc, host, conn, owned>>

Lose(e) ==
    /\ spend("loss")
    /\ net' = without(e)
    /\ UNCHANGED <<sc, host, conn, owned>>
-----------------------------------------------------------------------------
(* Link-local hosts.  Frames arrive, and hosts are polled, well within the *)
(* second that a step of the clock stands for.                             *)

\* The host starts, and tries its first candidate.
Join(h, c, d) ==
    /\ host[h].ll.state = "invalid"
    /\ host' = [host EXCEPT ![h].ll = llReset(c, d)]
    /\ UNCHANGED <<sc, conn, net, owned, budget>>

LinkLocalEncapsulate(h, d) ==
    LET x == host[h]
    IN  /\ llDue(x.ll)
        /\ IF llSends(x.ll)
           THEN /\ puts(h, "arp", llFrame(x.ll, x.hw), "all")
                /\ owned' = owned \cup {<<llFrame(x.ll, x.hw).sip, x.hw>>}
           ELSE UNCHANGED <<net, owned>>
        /\ host' = [host EXCEPT ![h].ll = llEncapsulate(@, d)]
        /\ UNCHANGED <<sc, conn, budget>>

\* The address the application should use: the one Addr gives once it is claimed.
claimed(x) == IF x.ll.state = "bound" THEN x.ll.candidate ELSE NoAddr

\* The application tells the stack, whose ARP answers for the address from then on.
Adopt(h) ==
    /\ host[h].ip # claimed(host[h])
    /\ host' = [host EXCEPT ![h].ip = claimed(host[h])]
    /\ owned' = owned \cup {<<claimed(host[h]), host[h].hw>>}
    /\ UNCHANGED <<sc, conn, net, budget>>

Tick ==
    /\ net = <<>>
    /\ \A h \in sc.claimants :
        due(host[h].nb) = 0 /\ ~llDue(host[h].ll) /\ host[h].ip = claimed(host[h])
    /\ host' = [h \in Host |-> [host[h] EXCEPT !.ll = elapse(@)]]
    /\ UNCHANGED <<sc, conn, net, owned, budget>>
-----------------------------------------------------------------------------
Progress ==
    \/ \E h \in Host :
        \/ Dial(h) \/ ResolverEncapsulate(h) \/ ConnEncapsulate(h)
        \/ \E ip \in host[h].owes : ListenerEncapsulate(h, ip)
    \/ \E e \in DOMAIN net : Deliver(e)
    \/ \E h \in sc.claimants :
        \/ \E c \in sc.candidates, d \in 0 .. probeWait : Join(h, c, d)
        \/ \E d \in delays(host[h].ll) : LinkLocalEncapsulate(h, d)
        \/ Adopt(h)
    \/ Tick

Next ==
    \/ Progress
    \/ \E h \in Host :
        \/ \E ip \in sc.asks : StartResolve(h, ip) \/ DiscardResolve(h, ip)
        \/ \E k \in Host \ {h} : Seed(h, k)
        \/ Abort(h)
        \/ SetHardwareAddr(h, sc.newHW)
        \/ SetAddr(h, sc.newIP)
    \/ \E e \in DOMAIN net : Duplicate(e) \/ Lose(e)

Spec == Init /\ [][Next]_vars

\* Stacks are polled, frames arrive, dials are made, the clock goes on.
FairSpec == Spec /\ WF_vars(Progress)
-----------------------------------------------------------------------------
(* What the hosts rely on.                                                 *)

\* What an entry still has to send.
duty(e) == inUse(e) /\ e.flags \cap {"PendingResponse", "PendingQuery"} # {}

\* Another entry is in the place of e.
evicted(e, f) == inUse(f) /\ ~(f.addr = e.addr /\ f.flags \subseteq e.flags)

\* An answer or a query that is not sent yet is given up only when no entry of the cache
\* is free or passive: user queries and pending responses go last (cache.acquireNext).
DutyKept ==
    [][\A h \in Host : \A i \in DOMAIN host[h].nb :
        duty(host[h].nb[i]) /\ evicted(host[h].nb[i], host'[h].nb[i])
        => \A j \in DOMAIN host[h].nb : inUse(host[h].nb[j]) /\ ~passive(host[h].nb[j])]_vars

\* A hardware address is the one of a host that had the address it is kept for, in the
\* cache, in a connection's buffer and in what was learnt from traffic; a connection
\* whose peer is unknown sends nothing (Handler.Demux, onResolve, learnPassive).
KnownIsOwner ==
    \A h \in Host :
        /\ \A i \in DOMAIN host[h].nb :
            LET e == host[h].nb[i]
            IN  inUse(e) /\ "Incomplete" \notin e.flags => <<e.addr, e.mac>> \in owned
        /\ \A i \in DOMAIN conn[h] :
            LET c == conn[h][i]
            IN  \/ c.mac = NilMAC \/ <<c.ip, c.mac>> \in owned
                \/ c.mac = ZeroMAC /\ c.st \in {"dial", "failed"}
        /\ ~sc.six => \A i \in DOMAIN host[h].tab.passive :
            LET v == host[h].tab.passive[i] IN v.ip # NoAddr => <<v.ip, v.mac>> \in owned

\* Every connection that is dialled to a host of the link is established, also when
\* several wait for one address, provided nothing is lost, no slot runs out and no other
\* query for the address is under way (hwDynamicResolve, ndpDynamicResolve); and a host
\* that claims an address gets one, whoever contests it (linklocal4.Handler).
Connects ==
    /\ sc.connects => <>(\A h \in Host : Len(conn[h]) = Len(sc.dials[h])
                                        /\ \A i \in DOMAIN conn[h] : conn[h][i].st = "open")
    /\ <>[](\A h \in sc.claimants : host[h].ll.state = "bound" /\ host[h].ip = host[h].ll.candidate)

\* Two hosts do not hold the same link-local address, one lost frame notwithstanding
\* (linklocal4.Handler).
OneClaimant ==
    \A h, k \in sc.claimants :
        h # k /\ host[h].ll.state = "bound" /\ host[k].ll.state = "bound"
        => host[h].ll.candidate # host[k].ll.candidate
=============================================================================
