------------------------------ MODULE Queries -------------------------------
(***************************************************************************)
(* The stack of a host (x/xnet/stack-async.go) as the carrier of its short *)
(* questions: name lookups, clock readings, pings and service discovery,   *)
(* with the blocking and retrying callers on top (stack-blocking.go,       *)
(* stack-retrying.go), over a network that loses, repeats and reorders.    *)
(* The name server, the time server and the DHCPv6 servers are external.   *)
(***************************************************************************)
EXTENDS NodeTable, FiniteSets

CONSTANTS KeyMod,       \* Keys of a ping.
          Scenarios,    \* What the hosts do, and how often the network misbehaves.
          IPNodes,      \* Room of the IP table; 3 in the code.
          UDPNodes,     \* Room of the UDP table.
          UserUDP,      \* MaxActiveUDPPorts.
          AddrRoom,     \* Addresses a lookup returns at most.
          ClockShift,   \* How far the time server's clock is ahead.
          MaxCookies,   \* NTS cookies a client keeps; 8 in the code.
          MaxCookieLen  \* 256 in the code.

ASSUME QueriesAssumption ==
    /\ {KeyMod, IPNodes, UDPNodes, AddrRoom, MaxCookies, MaxCookieLen} \subseteq Nat \ {0}
    /\ UserUDP \in Nat
    /\ ClockShift \in Int

VARIABLES scn,      \* The scenario.
          host,     \* The stack of each host.
          caller,   \* What each caller waits for and was told.
          net,      \* Packets on their way.
          nts,      \* The NTS server, the cookies it issued and the requests it was sent.
          now,      \* Time, in quarters of a unit so that no average is rounded.
          left,     \* What is left of the scenario's budgets.
          hist      \* Echoes sent and answered; leases given; names whose addresses were read out
                    \* of each stack; ports and transactions used up.

vars == <<scn, host, caller, net, nts, now, left, hist>>

D == INSTANCE DNS
E == INSTANCE Echo
V == INSTANCE DHCPv6Client
S == INSTANCE NTP

UDP  == 17
ICMP == 1
NamePort == 53
TimePort == 123
NTPClientPort == 1023
MDNSPort == 5353

Callers == DOMAIN scn.plan
HostOf(c) == scn.plan[c].host

-----------------------------------------------------------------------------
(* The stack: tables, registration, polling, delivery.                     *)

IPIds(st)  == [udps |-> st.udpsID, icmp |-> st.icmp.connID]
UDPIds(st) == [dns |-> st.dns.connID, ntp |-> st.ntp.connID, mdns |-> st.mdns.connID]

\* StackAsync.Reset of a stack without TCP ports: new tables, UDP registered, ICMP configured
\* and not registered.  The clients keep what they were doing.
stackReset(st, cfg) ==
    LET ip0 == reset(st.ip, IPNodes)
    IN  [st EXCEPT !.udps = reset(@, UDPNodes), !.udpsID = @ + 1, !.slots = 0,
                   !.ip = [ip0 EXCEPT !.nodes =
                       <<[who |-> "udps", id |-> st.udpsID + 1, proto |-> UDP, lport |-> 0]>>],
                   !.icmp = IF cfg.icmpLimit = 0 THEN @
                            ELSE E!Configure(@, cfg.icmpRoom, cfg.icmpLimit, cfg.id, cfg.id)]

NoPort == [raddr |-> "any", rmport |-> 0]

Zero == [ip |-> newTable(0), udps |-> newTable(0), udpsID |-> 0, slots |-> 0,
         dns |-> D!newClient, ntp |-> S!ntpNewClient, mdns |-> D!mdnsNewClient, icmp |-> E!newClient,
         v6 |-> V!newClient, nts |-> S!newClient, addrbufnip |-> [i \in 1 .. AddrRoom |-> "none"],
         port |-> [dns |-> NoPort, ntp |-> NoPort, mdns |-> NoPort]]

\* EnableICMP: register unless registered; disabling invalidates the node and forgets the echoes.
EnableICMP(st, on) ==
    IF on /\ st.icmp.limit > 0
    THEN IF nodeByProto(st.ip, ICMP, IPIds(st)) # 0 THEN st
         ELSE [st EXCEPT !.ip = registerByPortProto(@,
                  [who |-> "icmp", id |-> st.icmp.connID, proto |-> ICMP, lport |-> 0], IPIds(st)).tab]
    ELSE [st EXCEPT !.icmp = E!Abort(@)]

\* StackUDPPort.SetStackNode and RegisterMACFiltered.
registerUDP(st, who, lport, raddr, rmport) ==
    LET r == registerByPortProto(st.udps,
                [who |-> who, id |-> UDPIds(st)[who], proto |-> UDP, lport |-> lport], UDPIds(st))
    IN  [st |-> [st EXCEPT !.udps = r.tab, !.port[who] = [raddr |-> raddr, rmport |-> rmport]],
         err |-> r.err]

StartLookupIPType(st, q, n) ==
    registerUDP([st EXCEPT !.dns = D!StartResolve(@, 1024 + n, n, q.name, q.type, AddrRoom + 8)],
                "dns", 1024 + n, "ns", NamePort)

StartNTP(st) ==
    registerUDP([st EXCEPT !.ntp = S!ntpReset(@)], "ntp", NTPClientPort, "ts", TimePort)

\* mdns.Client.Configure and RegisterUDP4, which takes one of the user's slots for good.
attachMDNS(st, services) ==
    LET conf == [st EXCEPT !.mdns = D!Configure(@, MDNSPort, services)]
    IN  IF st.slots = UserUDP THEN [st |-> conf, err |-> "exhausted"]
        ELSE registerUDP([conf EXCEPT !.slots = @ + 1], "mdns", MDNSPort, "mcast", MDNSPort)

Packet(src, to, sport, dport, proto, body) ==
    [src |-> src, to |-> to, sport |-> sport, dport |-> dport, proto |-> proto, body |-> body]

\* What one application of the UDP table does when polled: the stack after, and the packets.
udpSend(h, st, i) ==
    LET n  == st.udps.nodes[i]
        po == st.port[n.who]
        m  == D!mdnsEncapsulate(st.mdns)
        to(body) == {Packet(h, g, n.lport, po.rmport, UDP, body) : g \in
                        IF po.raddr = "mcast" THEN scn.hosts \ {h} ELSE {po.raddr}}
    IN  CASE n.who = "dns"  -> [st |-> [st EXCEPT !.dns = D!Encapsulate(@)], out |-> to(D!Query(st.dns))]
          [] n.who = "ntp"  -> [st |-> [st EXCEPT !.ntp = S!ntpEncapsulate(@, now)],
                                out |-> to(S!ntpRequest(now))]
          [] n.who = "mdns" -> [st |-> [st EXCEPT !.mdns = m.client], out |-> to(m.body)]

appSends(st, who) ==
    CASE who = "dns"  -> D!sends(st.dns)
      [] who = "ntp"  -> S!ntpSends(st.ntp)
      [] who = "mdns" -> ~st.mdns.closed /\ D!mdnsSends(st.mdns)

udpPoll(st) == portsEncapsulate(st.udps, UDPIds(st), {w \in {"dns", "ntp", "mdns"} : appSends(st, w)},
                                {w \in {"mdns"} : st.mdns.closed})

\* One poll of the stack (EgressIP): the stack after it and the packets it sends.
polled(h, st, u) ==
    LET i    == encapsulateAny(st.ip, IPIds(st),
                    {w \in {"icmp", "udps"} : IF w = "icmp" THEN E!sends(st.icmp) ELSE u.at # 0}, {})
        udps == \E k \in i.asked : st.ip.nodes[k].who = "udps"
        base == [st EXCEPT !.ip = i.tab, !.udps = IF udps THEN u.tab ELSE @]
        e    == E!Encapsulate(st.icmp)
    IN  IF i.at = 0 THEN [st |-> base, out |-> {}]
        ELSE IF st.ip.nodes[i.at].who = "udps" THEN udpSend(h, base, u.at)
        ELSE [st |-> [base EXCEPT !.icmp = e.client], out |-> {Packet(h, e.to, 0, 0, ICMP, e.body)}]

\* StackUDPPort.Demux: from the address, unless a group's, and the port it expects.
portAccepts(po, p) == /\ po.raddr \in {"any", "mcast", p.src}
                      /\ po.rmport \in {0, p.sport}

\* Delivery of p (IngressIP).
demuxed(st, p) ==
    LET k   == nodeByPort(st.udps, p.dport, UDPIds(st))
        who == st.udps.nodes[k].who
    IN  IF nodeByProto(st.ip, p.proto, IPIds(st)) = 0 THEN st
        ELSE IF p.proto = ICMP THEN [st EXCEPT !.icmp = E!Demux(@, p.body, p.src)]
        ELSE IF k = 0 THEN st
        ELSE IF ~portAccepts(st.port[who], p) THEN st
        ELSE CASE who = "dns"  -> [st EXCEPT !.dns = D!Demux(@, p.body)]
               [] who = "ntp"  -> [st EXCEPT !.ntp = S!ntpDemux(@, p.body, now)]
               [] who = "mdns" -> IF st.mdns.closed THEN [st EXCEPT !.udps = destroy(@, {k})]
                                  ELSE [st EXCEPT !.mdns = D!mdnsDemux(@, p.body)]

-----------------------------------------------------------------------------
(* The callers.                                                            *)

call(c) == scn.plan[c].calls[caller[c].at]
done(c) == caller[c].at > Len(scn.plan[c].calls)
waits(c) == ~done(c) /\ caller[c].pc = "wait"

\* The call ends with a result, or the attempt failed: StackRetrying tries again while it may.
ended(r, res) == [r EXCEPT !.at = @ + 1, !.pc = "idle", !.tries = 0, !.res = Append(@, res)]
failed(r, q, err) ==
    IF r.tries + 1 < q.retries THEN [r EXCEPT !.pc = "idle", !.tries = @ + 1]
    ELSE ended(r, [ok |-> FALSE, q |-> q, val |-> err])

\* What starting an attempt does to the stack, with the error it returns and a ping's key.
started(st, q, n) ==
    LET l == StartLookupIPType(st, q, n)
        t == StartNTP(st)
        a == attachMDNS(st, q.services)
        p == E!PingStart(st.icmp, q.to, q.pattern, q.size)
    IN  CASE q.op = "lookup" -> [st |-> l.st, err |-> l.err, key |-> 0]
          [] q.op = "ntp"    -> [st |-> t.st, err |-> t.err, key |-> 0]
          [] q.op = "attach" -> [st |-> a.st, err |-> a.err, key |-> 0]
          [] q.op = "close"  -> [st |-> [st EXCEPT !.mdns = D!mdnsAbort(@)], err |-> "nil", key |-> 0]
          [] q.op = "mdns"   -> [st |-> [st EXCEPT !.mdns = D!mdnsStartResolve(@, q.questions, q.maxAns)],
                                 err |-> "nil", key |-> 0]
          [] q.op = "dhcp6"  -> [st |-> [st EXCEPT !.v6 = V!BeginRequest(V!reset6(@), n, q.duid)],
                                 err |-> "nil", key |-> 0]
          [] q.op \in {"ping", "doPing"} ->
                [st |-> [st EXCEPT !.icmp = p.client],
                 err |-> IF p.key = -1 THEN "refused" ELSE "nil", key |-> p.key]

Start(c) ==
    /\ ~done(c) /\ caller[c].pc = "idle" /\ call(c).op # "nts"
    /\ \E r \in {started(host[HostOf(c)], call(c), hist.fresh)} :
          /\ host' = [host EXCEPT ![HostOf(c)] = r.st]
          /\ caller' = [caller EXCEPT ![c] =
                IF r.err # "nil" THEN failed(@, call(c), r.err)
                ELSE IF call(c).op \in {"attach", "close"}
                     THEN ended(@, [ok |-> TRUE, q |-> call(c), val |-> "nil"])
                ELSE [@ EXCEPT !.pc = "wait", !.key = r.key]]
    /\ hist' = [hist EXCEPT !.fresh = @ + 1]
    /\ UNCHANGED <<scn, nts, net, now, left>>

Pending == [done |-> FALSE, ok |-> FALSE, val |-> "none"]
Outcome(ok, val) == [done |-> TRUE, ok |-> ok, val |-> val]

\* What a poll of the result says.  A caller that sees nothing backs off and polls again.
seen(st, q, key) ==
    LET l == D!ResultLookupIP(st.dns, q.name, st.addrbufnip)
        p == E!PingPeek(st.icmp, key)
        m == D!AnswersCopyTo(st.mdns)
    IN  CASE q.op = "lookup" -> IF ~l.done THEN Pending
                                ELSE IF l.err = "nil" THEN Outcome(TRUE, l.n) ELSE Outcome(FALSE, l.err)
          [] q.op = "ntp"    -> IF ~S!IsDone(st.ntp) THEN Pending
                                ELSE Outcome(TRUE, [offset |-> S!Offset(st.ntp),
                                                    rtt |-> S!RoundTripDelay(st.ntp)])
          [] q.op = "nts"    -> IF ~S!IsDone(st.nts.ntp) THEN Pending
                                ELSE Outcome(TRUE, [offset |-> S!Offset(st.nts.ntp),
                                                    rtt |-> S!RoundTripDelay(st.nts.ntp)])
          [] q.op = "mdns"   -> IF m.done THEN Outcome(TRUE, m.answers)
                                ELSE IF m.err # "nil" THEN Outcome(FALSE, m.err) ELSE Pending
          [] q.op = "dhcp6"  -> IF st.v6.state = "bound" THEN Outcome(TRUE, st.v6.addr) ELSE Pending
          [] q.op \in {"ping", "doPing"} ->
                IF ~p.ok THEN Outcome(FALSE, "closed")
                ELSE IF p.completed THEN Outcome(TRUE, q.to) ELSE Pending

\* DoPing polls with PingPop, which takes the ping away whatever its state.
popped(st, q, key, over) ==
    IF q.op = "doPing" \/ (q.op = "ping" /\ over) THEN [st EXCEPT !.icmp = E!PingPop(@, key)] ELSE st

\* A lookup's caller is handed the first addresses of the stack's buffer, not a copy of them.
handedOut(st, q) ==
    IF q.op = "lookup"
    THEN [st EXCEPT !.addrbufnip = D!ResultLookupIP(st.dns, q.name, st.addrbufnip).buf] ELSE st

\* The addresses read out of the stack's buffer, for the properties.
readOut(reads, st, c, q, ok) ==
    IF q.op = "lookup" /\ D!ResultLookupIP(st.dns, q.name, st.addrbufnip).n > 0
    THEN Append(reads, [call |-> <<c, caller[c].at>>, ok |-> ok, name |-> q.name]) ELSE reads

See(c) ==
    /\ waits(c)
    /\ LET h == HostOf(c)
           q == call(c)
       IN  \E s \in {seen(host[h], q, caller[c].key)} :
             /\ host' = [host EXCEPT ![h] = handedOut(popped(@, q, caller[c].key, s.done), q)]
             /\ hist' = [hist EXCEPT !.reads[h] = readOut(@, host[h], c, q, s.ok)]
             /\ caller' = IF ~s.done THEN caller
                          ELSE [caller EXCEPT ![c] =
                                  IF s.ok THEN ended(@, [ok |-> TRUE, q |-> q, val |-> s.val])
                                  ELSE failed(@, q, s.val)]
    /\ UNCHANGED <<scn, nts, net, now, left>>

\* Nothing is on its way and no stack has anything to send.
Still == /\ net = {}
         /\ \A h \in scn.hosts : panics(host[h].ip) \/ polled(h, host[h], udpPoll(host[h])).st = host[h]
         /\ \A h \in scn.hosts : /\ left.v6 > 0 => ~V!sends(host[h].v6)
                               /\ ~S!sends(host[h].nts)
         /\ ~S!serverSends(nts.server)

Sees(c) == seen(host[HostOf(c)], call(c), caller[c].key).done

\* Mutant: the loop looks for an answer and never at the clock.
runsOutMutant(c) == FALSE

\* The deadline passes at the latest when no answer is on its way.
runsOut(c) == Still /\ ~Sees(c)

\* The timeout of the attempt, seen after one poll at least.  It is early, that is with an
\* answer there or still to come, only as often as the scenario lets it be.
Deadline(c) ==
    LET h == HostOf(c)
        q == call(c)
    IN  /\ waits(c)
        /\ q.op = "doPing" => ~E!PingPeek(host[h].icmp, caller[c].key).ok
        /\ \/ runsOut(c) /\ UNCHANGED left
           \/ left.early > 0 /\ left' = [left EXCEPT !.early = @ - 1]
        /\ caller' = [caller EXCEPT ![c] = failed(@, q, "deadline")]
        /\ host' = [host EXCEPT ![h] = IF q.op = "ping" THEN popped(@, q, caller[c].key, TRUE) ELSE @]
        /\ UNCHANGED <<scn, nts, net, now, hist>>

-----------------------------------------------------------------------------
(* The hosts and the network.                                              *)

Echoes(out) == {p \in out : p.proto = ICMP}

Egress(h) ==
    /\ ~panics(host[h].ip)
    /\ \E u \in {udpPoll(host[h])} : \E r \in {polled(h, host[h], u)} :
          /\ r.st # host[h]
          /\ host' = [host EXCEPT ![h] = r.st]
          /\ net' = net \cup r.out
          /\ hist' = [hist EXCEPT !.echo = @ \cup Echoes(r.out)]
    /\ UNCHANGED <<scn, nts, caller, now, left>>

\* Packets to a host the scenario has, delivered for good or once more later.
Ingress(p) ==
    /\ p.to \in scn.hosts /\ p.proto \in {UDP, ICMP}
    /\ host' = [host EXCEPT ![p.to] = demuxed(@, p)]
    /\ \/ net' = net \ {p} /\ UNCHANGED left
       \/ left.dup > 0 /\ left' = [left EXCEPT !.dup = @ - 1] /\ UNCHANGED net
    /\ UNCHANGED <<scn, nts, caller, now, hist>>

Lose(p) ==
    /\ left.loss > 0
    /\ net' = net \ {p}
    /\ left' = [left EXCEPT !.loss = @ - 1]
    /\ UNCHANGED <<scn, nts, host, caller, now, hist>>

ToggleICMP(h) ==
    /\ left.toggle > 0
    /\ \E on \in BOOLEAN : host' = [host EXCEPT ![h] = EnableICMP(@, on)]
    /\ host' # host
    /\ left' = [left EXCEPT !.toggle = @ - 1]
    /\ UNCHANGED <<scn, nts, caller, net, now, hist>>

Reset_(h) ==
    /\ left.reset > 0
    /\ host' = [host EXCEPT ![h] = stackReset(@, scn.cfg)]
    /\ left' = [left EXCEPT !.reset = @ - 1]
    /\ UNCHANGED <<scn, nts, caller, net, now, hist>>

Tick ==
    /\ now < 4 * scn.time
    /\ now' = now + 4
    /\ UNCHANGED <<scn, nts, host, caller, net, left, hist>>

-----------------------------------------------------------------------------
(* The servers (external).                                                 *)

\* The records a name server answers with: the aliases of the name, then what they lead to.
RECURSIVE chain(_, _, _)
chain(zone, name, type) ==
    LET own  == SelectSeq(zone, LAMBDA r : r.owner = name)
        next == SelectSeq(own, LAMBDA r : r.type = "CNAME")
    IN  IF next # <<>> THEN next \o chain(zone, next[1].data, type)
        ELSE SelectSeq(own, LAMBDA r : r.type = type)

Rev(q) == [i \in DOMAIN q |-> q[Len(q) + 1 - i]]

\* An answer in either order, or, as often as the scenario lets it, a refusal or a message whose
\* last record is broken.
NameServer(p) ==
    LET recs == chain(scn.zone, p.body.host, p.body.type)
        says(rcode, records) ==
            Packet("ns", p.src, NamePort, p.sport, UDP,
                   [kind |-> "response", txid |-> p.body.txid, rcode |-> rcode, answers |-> records])
    IN  /\ p.to = "ns"
        /\ \/ /\ \E r \in {recs, Rev(recs)} : net' = (net \ {p}) \cup {says(0, r)}
              /\ UNCHANGED left
           \/ /\ left.fault > 0 /\ left' = [left EXCEPT !.fault = @ - 1]
              /\ \E m \in {says(2, <<>>),
                           says(0, Append(SubSeq(recs, 1, Len(recs) - 1),
                                          [owner |-> "", type |-> "bad", data |-> ""]))} :
                    net' = (net \ {p}) \cup {m}
        /\ UNCHANGED <<scn, nts, host, caller, now, hist>>

\* ntp.Server behind a socket: each request is taken in and answered in one turn.
TimeServer(p) ==
    /\ p.to = "ts"
    /\ \E pending \in {S!ntpServerDemux(<<>>, p.body, 4)} :
          net' = (net \ {p}) \cup
                    IF pending = <<>> THEN {}
                    ELSE {Packet("ts", p.src, TimePort, p.sport, UDP,
                                 S!ntpServerResponse(pending, now + ClockShift))}
    /\ UNCHANGED <<scn, nts, host, caller, now, left, hist>>

V6Send(h) ==
    /\ V!sends(host[h].v6) /\ left.v6 > 0
    /\ left' = [left EXCEPT !.v6 = @ - 1]
    /\ net' = net \cup {Packet(h, s, 0, 0, 0, V!Message(host[h].v6)) : s \in scn.servers}
    /\ host' = [host EXCEPT ![h].v6 = V!Encapsulate(@)]
    /\ UNCHANGED <<scn, nts, caller, now, hist>>

V6Receive(p) ==
    /\ p.to \in scn.hosts /\ p.proto = 0
    /\ host' = [host EXCEPT ![p.to].v6 = V!Demux(@, p.body)]
    /\ \/ net' = net \ {p} /\ UNCHANGED left
       \/ left.dup > 0 /\ left' = [left EXCEPT !.dup = @ - 1] /\ UNCHANGED net
    /\ UNCHANGED <<scn, nts, caller, now, hist>>

V6Says(s, h, type, xid, reconf) ==
    Packet(s, h, 0, 0, 0, [type |-> type, xid |-> xid, client |-> h, server |-> s,
                           addr |-> scn.pool[s][h], dns |-> s, reconf |-> reconf])

\* A DHCPv6 server offers its address for the client, and leases it when asked by name.
V6Server(p) ==
    /\ p.to \in scn.servers
    /\ \/ /\ p.body.type = "solicit"
          /\ net' = (net \ {p}) \cup {V6Says(p.to, p.src, "advertise", p.body.xid, "none")}
          /\ UNCHANGED hist
       \/ /\ p.body.type \in {"request", "renew"} /\ p.body.server = p.to
          /\ net' = (net \ {p}) \cup {V6Says(p.to, p.src, "reply", p.body.xid, "none")}
          /\ hist' = [hist EXCEPT !.leases = @ \cup {<<p.to, p.src, scn.pool[p.to][p.src]>>}]
       \/ /\ p.body.type # "solicit" /\ p.body.server # p.to
          /\ net' = net \ {p} /\ UNCHANGED hist
    /\ UNCHANGED <<scn, nts, host, caller, now, left>>

\* A server asks a client it has leased to to renew, or to do what the client does not support.
V6Reconfigure(s, h) ==
    /\ left.reconf > 0
    /\ \E l \in hist.leases : l[1] = s /\ l[2] = h
    /\ \E msg \in {"renew", "inform"} : net' = net \cup {V6Says(s, h, "reconfigure", 0, msg)}
    /\ left' = [left EXCEPT !.reconf = @ - 1]
    /\ UNCHANGED <<scn, nts, host, caller, now, hist>>

-----------------------------------------------------------------------------
(* Network Time Security: the node is polled by its owner.                 *)

Cookies(lens, from) == [i \in DOMAIN lens |-> [id |-> from + i, len |-> lens[i]]]

\* One key exchange on a stream that may break, then Server.Reset and Client.Reset with what each
\* side has.  The server's operator supplies fresh cookies.
NTSStart(c) ==
    LET q       == call(c)
        h       == HostOf(c)
        session == IF q.tls13 THEN hist.fresh ELSE S!NoTLS13
        fresh   == Cookies(q.lens, 10 * hist.fresh)
        request == IF q.foreign THEN <<S!Record(TRUE, "proto", 1)>> ELSE S!KERequest(q.algs)
        taken(ke) ==
            \E cut \in {k \in 0 .. Len(ke.out) : k < Len(ke.out) => left.fault > 0} :
            \E r \in {S!PerformKE(SubSeq(ke.out, 1, cut), session)} :
            \E n \in {S!ClientReset(host[h].nts, r.secrets)} :
              /\ left' = [left EXCEPT !.fault = IF cut < Len(ke.out) THEN @ - 1 ELSE @]
              /\ nts' = [nts EXCEPT !.server = IF ke.err = "nil" THEN S!ServerReset(@, ke.secrets) ELSE @,
                                    !.issued = @ \cup {fresh[i] : i \in DOMAIN fresh}]
              /\ \/ /\ r.err = "nil" /\ n.err = "nil"
                    /\ host' = [host EXCEPT ![h].nts = n.client]
                    /\ caller' = [caller EXCEPT ![c].pc = "wait"]
                 \/ /\ r.err # "nil" \/ n.err # "nil"
                    /\ caller' = [caller EXCEPT ![c] =
                                    failed(@, q, IF r.err # "nil" THEN r.err ELSE n.err)]
                    /\ UNCHANGED host
    IN  /\ ~done(c) /\ caller[c].pc = "idle" /\ q.op = "nts"
        /\ \E ke \in {S!HandleKE(request, [algs |-> q.supported, cookies |-> fresh, port |-> TimePort],
                                 session)} : taken(ke)
        /\ hist' = [hist EXCEPT !.fresh = @ + 1]
        /\ UNCHANGED <<scn, net, now>>

NTSSend(h) ==
    /\ S!sends(host[h].nts)
    /\ \E fails \in {"no"} \cup (IF left.fault > 0 THEN {"uid", "nonce"} ELSE {}) :
          /\ host' = [host EXCEPT ![h].nts = S!Encapsulate(@, now, hist.fresh, fails)]
          /\ IF fails # "no"
             THEN left' = [left EXCEPT !.fault = @ - 1] /\ UNCHANGED <<net, nts>>
             ELSE LET req == S!Request(host[h].nts, now, hist.fresh)
                  IN  /\ net' = net \cup {Packet(h, "nts", 0, TimePort, -1, req)}
                      /\ nts' = [nts EXCEPT !.sent = @ \cup {req}]
                      /\ UNCHANGED left
    /\ hist' = [hist EXCEPT !.fresh = @ + 1]
    /\ UNCHANGED <<scn, caller, now>>

again(p) == \/ net' = net \ {p} /\ UNCHANGED left
            \/ left.dup > 0 /\ left' = [left EXCEPT !.dup = @ - 1] /\ UNCHANGED net

NTSReceive(p) ==
    /\ p.to \in scn.hosts /\ p.proto = -1
    /\ host' = [host EXCEPT ![p.to].nts = S!Demux(@, p.body, now)]
    /\ again(p)
    /\ UNCHANGED <<scn, nts, caller, now, hist>>

NTSServe(p) ==
    /\ p.to = "nts"
    /\ nts' = [nts EXCEPT !.server = S!ServerDemux(@, p.body)]
    /\ again(p)
    /\ UNCHANGED <<scn, host, caller, now, hist>>

\* The server answers with a fresh cookie of each length that its operator gives out.
NTSAnswer ==
    LET srv   == nts.server
        fresh == Cookies(scn.again, 10 * hist.fresh)
        resp  == S!Response(srv, now + ClockShift, fresh)
    IN  /\ S!serverSends(srv)
        /\ \E fails \in {FALSE} \cup {left.fault > 0} :
              /\ nts' = [nts EXCEPT !.server = S!ServerEncapsulate(@, fails),
                                    !.issued = IF fails THEN @ ELSE @ \cup {fresh[i] : i \in DOMAIN fresh},
                                    !.failed = @ \/ fails]
              /\ IF fails THEN left' = [left EXCEPT !.fault = @ - 1] /\ UNCHANGED net
                 ELSE net' = net \cup {Packet("nts", h, TimePort, 0, -1, resp) : h \in scn.hosts} /\ UNCHANGED left
        /\ hist' = [hist EXCEPT !.fresh = @ + 1]
        /\ UNCHANGED <<scn, host, caller, now>>

\* A packet is damaged on its way: its header, or its fields from one on.
Damage(p) ==
    /\ p.proto = -1 /\ left.fault > 0
    /\ \E m \in {[p.body EXCEPT !.ntp.xmt = @ + 1]} \cup
                {[p.body EXCEPT !.ext = Append(SubSeq(@, 1, k), S!Field("bad", 0))] : k \in 0 .. Len(p.body.ext) - 1} :
          net' = (net \ {p}) \cup {[p EXCEPT !.body = m]}
    /\ left' = [left EXCEPT !.fault = @ - 1]
    /\ UNCHANGED <<scn, nts, host, caller, now, hist>>

-----------------------------------------------------------------------------

Init ==
    /\ scn \in Scenarios
    /\ host = [h \in scn.hosts |->
                 LET st == stackReset(Zero, scn.cfg)
                 IN  IF scn.cfg.icmp THEN EnableICMP(st, TRUE) ELSE st]
    /\ caller = [c \in Callers |-> [at |-> 1, pc |-> "idle", tries |-> 0, key |-> 0, res |-> <<>>]]
    /\ net = {} /\ now = 0
    /\ nts = [server |-> S!newServer, issued |-> {}, sent |-> {}, failed |-> FALSE]
    /\ left = scn.left
    /\ hist = [echo |-> {}, leases |-> {}, reads |-> [h \in scn.hosts |-> <<>>], fresh |-> 1]

AllDone == \A c \in Callers : done(c)

\* The end of a run: every call has ended and the network is still.
Finished == AllDone /\ Still /\ UNCHANGED vars

Next ==
    \/ \E c \in Callers : Start(c) \/ NTSStart(c) \/ See(c) \/ Deadline(c)
    \/ \E h \in scn.hosts : Egress(h) \/ ToggleICMP(h) \/ Reset_(h) \/ V6Send(h) \/ NTSSend(h)
    \/ \E h \in scn.hosts, s \in scn.servers : V6Reconfigure(s, h)
    \/ \E p \in net : \/ Ingress(p) \/ Lose(p) \/ NameServer(p) \/ TimeServer(p)
                      \/ V6Receive(p) \/ V6Server(p) \/ NTSReceive(p) \/ NTSServe(p) \/ Damage(p)
    \/ NTSAnswer
    \/ Tick
    \/ Finished

\* Nothing is left to do: the network is still and no caller has an answer to see or a deadline
\* to meet.
Quiet == Still /\ \A c \in Callers : done(c) \/ (waits(c) /\ ~Sees(c) /\ ~runsOut(c))

\* The stack's owner keeps polling it, the servers answer and the callers keep looking at the
\* clock: what has something left to do moves on.
Fairness == <>[]Quiet \/ []<><<TRUE>>_vars

Spec == Init /\ [][Next]_vars /\ Fairness

-----------------------------------------------------------------------------
(* Properties.                                                             *)

Results(op) == {r \in UNION {{caller[c].res[i] : i \in DOMAIN caller[c].res} : c \in Callers} :
                  r.q.op = op}

AddressesOf(name) ==
    UNION {{r.data : r \in {chain(scn.zone, name, t)[i] : i \in DOMAIN chain(scn.zone, name, t)}}
              : t \in {"A", "AAAA"}} 

\* Every address of a lookup's result is one the zone has for the name asked, through its
\* aliases, whoever else uses the same client in between, until another result is read from
\* the same stack: that one is written over the first, which from then on shows addresses of
\* either name (ResultLookupIP, WriteAnswers).
LookupIsRight ==
    \A c \in Callers : \A i \in DOMAIN caller[c].res :
        LET r     == caller[c].res[i]
            st    == host[HostOf(c)]
            reads == hist.reads[HostOf(c)]
            since == {j \in DOMAIN reads : \E k \in 1 .. j : reads[k].call = <<c, i>> /\ reads[k].ok}
        IN  r.q.op = "lookup" /\ r.ok =>
                /\ r.val > 0
                /\ \A k \in 1 .. r.val :
                        st.addrbufnip[k] \in UNION {AddressesOf(reads[j].name) : j \in since}

\* With fewer losses and refusals than tries, a caller that waits for what is on its way gets
\* its answer: no stale node, port or transaction is left in the way of the next try.  One
\* valid node at most answers for a port, and no registration is refused for nodes that are no
\* longer valid (registerByPortProto, prepAdd).
LossesAreRetried ==
    /\ scn.sure => \A c \in Callers : \A i \in DOMAIN caller[c].res : caller[c].res[i].ok
    /\ \A h \in scn.hosts :
          LET t == host[h].udps
          IN  \A i, j \in DOMAIN t.nodes :
                 /\ ~IsInvalid(t.nodes[i], UDPIds(host[h])) /\ ~IsInvalid(t.nodes[j], UDPIds(host[h]))
                 /\ t.nodes[i].lport = t.nodes[j].lport
                 => i = j
    /\ \A op \in {"lookup", "ntp"} : \A r \in Results(op) : ~r.ok => r.val \notin {"exhausted", "registered"}

Abs(x) == IF x < 0 THEN -x ELSE x

\* The measured offset is off by half of the round trip at most, whatever was lost, repeated or
\* late: both exchanges are of this measurement (ntp.Client.Demux, and nts.Client.Demux around it).
OffsetIsBounded ==
    \A r \in Results("ntp") \cup Results("nts") : r.ok => 2 * Abs(r.val.offset - ClockShift) <= r.val.rtt

\* A ping counts as completed only when the host it went to has answered its data.
PingTruth ==
    \A h \in scn.hosts : \A i \in DOMAIN host[h].icmp.outgoing :
        LET p == host[h].icmp.outgoing[i]
        IN  p.completed => \E e \in hist.echo :
                              /\ e.body.kind = "reply" /\ e.src = p.raddr /\ e.to = h
                              /\ e.body.data = p.data

\* Every echo reply repeats the data of the echo it answers: the ring of bytes and the queue of
\* lengths stay in step when either is full, and when ICMP is turned off and on.
EchoIsExact ==
    \A r \in hist.echo : r.body.kind = "reply" =>
        \E e \in hist.echo : /\ e.body = [r.body EXCEPT !.kind = "echo"]
                             /\ e.src = r.to /\ e.to = r.src

\* A service record never goes out without the address of its host: the answers to a question
\* are sent all together or not at all (addServiceAnswers).
ServiceHasAddress ==
    \A p \in net : p.dport = MDNSPort /\ p.body.kind = "mdnsResponse" =>
        \A i \in DOMAIN p.body.answers : p.body.answers[i].type = "SRV" =>
            \E j \in DOMAIN p.body.answers :
                p.body.answers[j].type = "A" /\ p.body.answers[j].owner = p.body.answers[i].data

\* A client that has an address was leased that address by the server it holds it from.
BoundIsLeased ==
    \A h \in scn.hosts : V!HasIP(host[h].v6.state) =>
        <<host[h].v6.server, h, host[h].v6.addr>> \in hist.leases

\* What a caller or a client is told is true: the addresses of a lookup, the offset of a clock,
\* a ping's completion and a lease, whatever was lost, repeated, late or shared.
AnswersAreTrue == LookupIsRight /\ OffsetIsBounded /\ PingTruth /\ BoundIsLeased

\* No cookie goes out in two requests, though answers that bring cookies are repeated; every
\* cookie the client keeps is, up to padding, one that was issued; and a client and a server
\* with keys of the same session have the same keys, whatever was lost of the key exchange
\* (nts.Client.Encapsulate, ingestAuthPayload, HandleKE).
CookieSentOnce ==
    /\ \A m, n \in nts.sent : m.ext[2].value.id = n.ext[2].value.id => m = n
    /\ \A h \in scn.hosts :
        LET c == host[h].nts
            s == nts.server.secrets
        IN  /\ c.secrets.c2s # <<>> /\ s.c2s # <<>> /\ c.secrets.c2s[1] = s.c2s[1]
               => c.secrets.c2s = s.c2s /\ c.secrets.s2c = s.s2c
            /\ \A i \in DOMAIN c.cookies : \E k \in nts.issued :
                  k.id = c.cookies[i].id /\ c.cookies[i].len \in {k.len, S!padded(k.len)}

\* The identifier and the time that an answer echoes are those of one request, though the NTP
\* server queues requests and the NTS server keeps the last identifier only.
AnswerIsOfOneRequest ==
    ~nts.failed => \A p \in net : p.proto = -1 /\ p.src = "nts" /\ p.body.ext[1].type = "uid" =>
        \E m \in nts.sent : m.ext[1].value = p.body.ext[1].value /\ m.ntp.xmt = p.body.ntp.orig

\* What a server sends is the answer to one question: of an echo, of a service, of a sealed
\* request of the time.
RepliesAreExact == EchoIsExact /\ ServiceHasAddress /\ AnswerIsOfOneRequest

\* Every call ends.
EveryCallEnds == <>AllDone
=============================================================================
