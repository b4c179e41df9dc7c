----------------------------- MODULE MCQueries ------------------------------
(* The instances of Queries that TLC checks. *)
EXTENDS Queries

Rec(owner, type, data) == [owner |-> owner, type |-> type, data |-> data]

Zone == <<Rec("www", "CNAME", "web"), Rec("web", "CNAME", "srv"), Rec("srv", "A", "ip1"),
          Rec("srv", "A", "ip2"), Rec("srv", "AAAA", "ip3"), Rec("mail", "A", "ip4")>>

Lookup(name, type, n) == [op |-> "lookup", name |-> name, type |-> type, retries |-> n]
Clock(n) == [op |-> "ntp", retries |-> n]
Ping(to, pattern, size) == [op |-> "ping", to |-> to, pattern |-> pattern, size |-> size, retries |-> 1]
DoPing(to) == [op |-> "doPing", to |-> to, pattern |-> <<3>>, size |-> 1, retries |-> 1]
Lease(h, n) == [op |-> "dhcp6", duid |-> h, retries |-> n]
Attach(services) == [op |-> "attach", services |-> services, retries |-> 1]
Secure(n) == [op |-> "nts", algs |-> <<>>, supported |-> <<>>, lens |-> <<4, 9, 3, 8>>, foreign |-> FALSE,
              tls13 |-> TRUE, retries |-> n]
Close == [op |-> "close", retries |-> 1]
Ask(questions, n) == [op |-> "mdns", questions |-> questions, maxAns |-> n, retries |-> 2]

None == [loss |-> 0, dup |-> 0, early |-> 0, fault |-> 0, toggle |-> 0, reset |-> 0, v6 |-> 0, reconf |-> 0]

Calm(hosts, plan) ==
    [hosts |-> hosts, plan |-> plan, cfg |-> [icmp |-> FALSE, icmpLimit |-> 0, icmpRoom |-> 0, id |-> 1],
     zone |-> Zone, servers |-> {}, pool |-> <<>>, again |-> <<>>, time |-> 0, sure |-> FALSE, left |-> None]

By(h, calls) == [host |-> h, calls |-> calls]

\* One caller asks more names than the table has room for.
Names == [Calm({"a"}, <<By("a", <<Lookup("www", "A", 3), Clock(3), Lookup("mail", "A", 3),
                                   Lookup("www", "AAAA", 3)>>)>>)
             EXCEPT !.sure = TRUE, !.left = [None EXCEPT !.loss = 1, !.dup = 1, !.fault = 1]]

\* Two callers share the client, and give up early.
Shared == [Calm({"a"}, <<By("a", <<Lookup("www", "A", 2)>>), By("a", <<Lookup("mail", "A", 2)>>)>>)
             EXCEPT !.left = [None EXCEPT !.early = 1, !.dup = 1]]

\* A clock reading with late and repeated answers.
Clocks == [Calm({"a"}, <<By("a", <<Clock(2)>>)>>)
             EXCEPT !.time = 4, !.left = [None EXCEPT !.early = 1, !.dup = 2]]

\* The stack is configured again while callers wait.
Restarted == [Calm({"a"}, <<By("a", <<Lookup("www", "A", 2), Clock(1)>>), By("a", <<Lookup("mail", "A", 1)>>)>>)
             EXCEPT !.left = [None EXCEPT !.reset = 1, !.early = 1]]

WithICMP(s, limit, room) ==
    [s EXCEPT !.cfg = [icmp |-> TRUE, icmpLimit |-> limit, icmpRoom |-> room, id |-> 1]]

\* Pings with the same data to two hosts, and more echoes than there is room for.
Pings == WithICMP([Calm({"a", "b", "c"},
                         <<By("a", <<Ping("b", <<1, 2>>, 3)>>), By("a", <<Ping("c", <<1, 2>>, 3)>>),
                           By("c", <<Ping("b", <<2>>, 2)>>)>>)
                      EXCEPT !.left = [None EXCEPT !.early = 1, !.dup = 1]], 2, 4)

\* ICMP is turned off and on while echoes wait to be answered.
Toggled == WithICMP([Calm({"a", "b"}, <<By("a", <<Ping("b", <<1, 2>>, 2), DoPing("b")>>), By("a", <<Ping("b", <<3>>, 1)>>)>>)
                      EXCEPT !.left = [None EXCEPT !.toggle = 2]], 2, 3)

Web(h) == [name |-> "web", type |-> "http", host |-> h, addr |-> "ip1"]
Printer == [name |-> "lp", type |-> "ipp", host |-> "h3", addr |-> "ip3"]
Question(name, type) == [name |-> name, type |-> type]

\* Three hosts on the multicast group, one of which leaves it.
Group == [Calm({"a", "b", "c"},
               <<By("a", <<Attach(<<Web("h1")>>), Ask(<<Question("web", "SRV")>>, 4), Close>>),
                 By("b", <<Attach(<<Web("h2"), Printer>>)>>),
                 By("c", <<Attach(<<>>), Ask(<<Question("http", "PTR"), Question("ipp", "PTR"),
                                               Question("web", "TXT"), Question("lp", "SRV")>>, 4)>>)>>)
             EXCEPT !.left = [None EXCEPT !.loss = 1]]

\* Two DHCPv6 servers, one that asks for a renewal.
Leases == [Calm({"a"}, <<By("a", <<Lease("a", 2)>>)>>)
             EXCEPT !.servers = {"s1", "s2"}, !.pool = [s1 |-> [a |-> "x1"], s2 |-> [a |-> "x2"]],
                    !.left = [None EXCEPT !.dup = 1, !.early = 1, !.v6 = 3, !.reconf = 1]]

\* An authenticated clock reading, with a request or an answer repeated, late, lost or damaged.
Sealed == [Calm({"a"}, <<By("a", <<Secure(2)>>)>>)
             EXCEPT !.again = <<3, 9>>, !.time = 1, !.left = [None EXCEPT !.dup = 1, !.early = 1]]

\* The key exchange fails, or the random source of either side does.
Unsealed == [Calm({"a"}, <<By("a", <<[Secure(2) EXCEPT !.algs = <<7, 15>>, !.supported = <<15, 7>>],
                                     [Secure(1) EXCEPT !.lens = <<9>>], [Secure(1) EXCEPT !.supported = <<30>>],
                                     [Secure(1) EXCEPT !.foreign = TRUE], [Secure(1) EXCEPT !.tls13 = FALSE],
                                     [Secure(1) EXCEPT !.lens = <<4>>]>>)>>)
             EXCEPT !.again = <<4>>, !.left = [None EXCEPT !.fault = 1, !.loss = 1, !.dup = 1]]

\* The server's clock is one and a half units behind.
Behind == -6

Queried == {Names, Shared, Clocks, Restarted, Pings, Toggled, Group, Leases, Sealed, Unsealed}
=============================================================================
