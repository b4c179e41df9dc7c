-------------------------------- MODULE DHCPv4 -------------------------------
(***************************************************************************)
(* Stacks that configure themselves from DHCP servers, over a network that *)
(* loses, repeats and reorders.  A stack is its dhcpv4.Client with the     *)
(* calls of x/xnet that drive it: StackRetrying.DoDHCPv4, which starts an  *)
(* exchange per attempt and polls its state up to a deadline, and          *)
(* AssimilateDHCPResults.  The servers serve other clients too, which send *)
(* no client identifier and release their addresses.                       *)
(***************************************************************************)
EXTENDS DHCPv4Nodes

CONSTANTS
    Scenarios    \* the settings to run with; see Init

\* A server has an address of its subnet (Server.Configure), which is not 0.0.0.0, and the
\* subnet four addresses or more; servers, stacks and the foreign client are told apart.
ASSUME ScenarioAssumption ==
    \A c \in Scenarios :
        /\ \A s \in DOMAIN c.servers :
            LET p == c.servers[s].subnet
            IN  /\ p.addr \in Nat /\ P!hosts(p) \in Nat /\ P!hosts(p) >= 4
                /\ c.servers[s].addr \in Nat \ {NoAddr} /\ P!Contains(p, c.servers[s].addr)
        /\ IsFiniteSet(DOMAIN c.servers) /\ DOMAIN c.servers \cap DOMAIN c.req = {}
        /\ {"other", ZeroKey} \cap (DOMAIN c.servers \cup DOMAIN c.req) = {}

VARIABLES
    sc,        \* the scenario
    srv,       \* the servers
    cl,        \* each stack's client
    app,       \* where each stack's DoDHCPv4 is, its attempts left and its address
    net,       \* the messages on their way, with the number of their copies
    nextXid,   \* transaction ids are random; here they are fresh
    hist,      \* acknowledgements sent, how the servers came by their addresses, hosts released,
               \* messages filed over an entry that was not looked at
    budget     \* what is left of the scenario's bounds

vars == <<sc, srv, cl, app, net, nextXid, hist, budget>>

Stack == DOMAIN cl
Server == DOMAIN srv

Init ==
    /\ sc \in Scenarios
    /\ srv = [s \in DOMAIN sc.servers |-> Configure(sc.servers[s])]
    /\ cl = [c \in DOMAIN sc.req |-> Closed]
    /\ app = [c \in DOMAIN sc.req |->
                [pc |-> "idle", tries |-> sc.retries, ip |-> NoAddr, result |-> NoAddr]]
    /\ net = <<>>
    /\ nextXid = 1
    /\ hist = [acked |-> {}, moves |-> [s \in DOMAIN sc.servers |-> 0],
               chosen |-> [s \in DOMAIN sc.servers |-> {}],
               over |-> [s \in DOMAIN sc.servers |-> 0], lost |-> {}, restarted |-> FALSE]
    /\ budget = [loss |-> sc.loss, dup |-> sc.dup, early |-> sc.early, again |-> sc.again,
                 foreign |-> sc.foreign, restart |-> sc.restart]

messages == DOMAIN net

\* The network has one more copy of each message of ms, and one copy of the message m less.
sends(ms) == [m \in messages \cup ms |-> (IF m \in messages THEN net[m] ELSE 0) + (IF m \in ms THEN 1 ELSE 0)]
without(m) == [d \in {c \in messages : c # m \/ net[c] > 1} |-> IF d = m THEN net[d] - 1 ELSE net[d]]

goto(c, pc) == app' = [app EXCEPT ![c].pc = pc]

\* StartDHCPv4Request, at the head of an attempt.
StartDHCPv4Request(c) ==
    /\ app[c].pc = "idle" /\ app[c].tries > 0
    /\ cl' = [cl EXCEPT ![c] = BeginRequest(nextXid, sc.req[c])]
    /\ app' = [app EXCEPT ![c].pc = "wait", ![c].tries = @ - 1]
    /\ nextXid' = nextXid + 1
    /\ UNCHANGED <<sc, srv, net, hist, budget>>

\* The stack polls its client; what it sends is broadcast.
ClientEncapsulate(c) ==
    /\ clientDue(cl[c]) # "nothing"
    /\ net' = sends({[m |-> clientMessage(cl[c], c, c), to |-> s] : s \in Server})
    /\ cl' = [cl EXCEPT ![c] = sentState(@)]
    /\ UNCHANGED <<sc, srv, app, nextXid, hist, budget>>

\* StackIPv4 takes what is sent to its address, or anything while it has none.
accepts(c, m) == app[c].ip = NoAddr \/ app[c].ip = m.yiaddr

ClientDemux(c, m) ==
    /\ cl' = [cl EXCEPT ![c] = IF accepts(c, m) THEN clientDemux(@, m) ELSE @]
    /\ UNCHANGED <<srv, hist>>

\* A message that finds no entry is filed where there is one.
filedOver(sv, l) == ~l.found /\ l.key \in known(sv)

\* How the server s came by the addresses it gave, for the properties.
traced(s, l, m) ==
    [hist EXCEPT !.moves[s] = IF srv'[s].nextAddr # srv[s].nextAddr THEN @ + 1 ELSE @,
                 !.chosen[s] = IF m.type = "discover" /\ ~l.found /\ prefers(srv[s], m.req)
                               THEN @ \cup {m.req} ELSE @,
                 !.over[s] = IF filedOver(srv[s], l) THEN @ + 1 ELSE @,
                 !.lost = IF m.type = "release" /\ l.found THEN @ \cup {l.key} ELSE @]

ServerDemux(s, m) ==
    \E l \in lookups(srv[s], m) :
        /\ srv' = [srv EXCEPT ![s] = Demux(@, l, m)]
        /\ hist' = traced(s, l, m)
        /\ UNCHANGED cl

delivers(e) ==
    IF e.to \in Server THEN ServerDemux(e.to, e.m)
    ELSE IF e.to \in Stack THEN ClientDemux(e.to, e.m)
    ELSE UNCHANGED <<srv, cl, hist>>

Deliver(e) ==
    /\ delivers(e)
    /\ net' = without(e)
    /\ UNCHANGED <<sc, app, nextXid, budget>>

\* The message stays behind and arrives again later.
DeliverTwice(e) ==
    /\ budget.dup > 0
    /\ delivers(e)
    /\ budget' = [budget EXCEPT !.dup = @ - 1]
    /\ UNCHANGED <<sc, app, net, nextXid>>

Lose(e) ==
    /\ budget.loss > 0
    /\ net' = without(e)
    /\ budget' = [budget EXCEPT !.loss = @ - 1]
    /\ UNCHANGED <<sc, srv, cl, app, nextXid, hist>>

\* Server.Encapsulate for one of the hosts it owes an answer.
ServerEncapsulate(s, k) ==
    LET m == reply(srv[s], srv[s].hosts[k])
    IN  /\ srv' = [srv EXCEPT ![s] = Encapsulate(@, k)]
        /\ net' = sends({[m |-> m, to |-> m.chaddr]})
        /\ hist' = [hist EXCEPT !.acked =
                        IF m.type = "ack" THEN @ \cup {<<m.chaddr, m.xid, m.yiaddr>>} ELSE @]
        /\ UNCHANGED <<sc, cl, app, nextXid, budget>>

\* The poll of the attempt sees the client bound, and unlocks the stack.
SeesBound(c) ==
    /\ app[c].pc = "wait" /\ cl[c].state = "bound"
    /\ goto(c, "result")
    /\ UNCHANGED <<sc, srv, cl, net, nextXid, hist, budget>>

\* An attempt that failed: the next one, or the end.
fails(c) == goto(c, IF app[c].tries > 0 THEN "idle" ELSE "failed")

\* ResultDHCP wants a router.
ResultDHCP(c) ==
    /\ app[c].pc = "result"
    /\ IF cl[c].router = NoAddr THEN fails(c)
       ELSE app' = [app EXCEPT ![c].pc = "done", ![c].result = cl[c].offer]
    /\ UNCHANGED <<sc, srv, cl, net, nextXid, hist, budget>>

AssimilateDHCPResults(c) ==
    /\ app[c].pc = "done"
    /\ app' = [app EXCEPT ![c].pc = "up",
                          ![c].ip = IF app[c].result = NoAddr THEN @ ELSE app[c].result]
    /\ UNCHANGED <<sc, srv, cl, net, nextXid, hist, budget>>

\* Nothing more will come of what was sent.
quiet ==
    /\ net = <<>>
    /\ \A s \in Server : pendingHosts(srv[s]) = {}
    /\ \A c \in Stack : clientDue(cl[c]) = "nothing"

\* The deadline passes, as a rule when no answer can come any more.
Deadline(c) ==
    /\ app[c].pc = "wait" /\ cl[c].state # "bound"
    /\ \/ quiet /\ UNCHANGED budget
       \/ ~quiet /\ budget.early > 0 /\ budget' = [budget EXCEPT !.early = @ - 1]
    /\ fails(c)
    /\ UNCHANGED <<sc, srv, cl, net, nextXid, hist>>

\* The application asks for a lease again.
Again(c) ==
    /\ app[c].pc = "up" /\ budget.again > 0
    /\ app' = [app EXCEPT ![c].pc = "idle", ![c].tries = sc.retries]
    /\ budget' = [budget EXCEPT !.again = @ - 1]
    /\ UNCHANGED <<sc, srv, cl, net, nextXid, hist>>

\* A client that is not of this code: no identifier, one transaction id.
foreignMessages ==
    [type : {"discover", "request", "release"}, xid : {0}, cid : {ZeroKey}, chaddr : {"other"},
     ciaddr : sc.claims, req : {NoAddr}, server : {NoAddr}]

Foreign(s, m) ==
    /\ budget.foreign > 0
    /\ net' = sends({[m |-> m, to |-> s]})
    /\ budget' = [budget EXCEPT !.foreign = @ - 1]
    /\ UNCHANGED <<sc, srv, cl, app, nextXid, hist>>

\* The server's program restarts and configures it again.
Restart(s) ==
    /\ budget.restart > 0
    /\ srv' = [srv EXCEPT ![s] = Configure(sc.servers[s])]
    /\ hist' = [hist EXCEPT !.restarted = TRUE, !.moves[s] = 0, !.chosen[s] = {}, !.over[s] = 0]
    /\ budget' = [budget EXCEPT !.restart = @ - 1]
    /\ UNCHANGED <<sc, cl, app, net, nextXid>>

Next ==
    \/ \E c \in Stack :
        \/ StartDHCPv4Request(c) \/ ClientEncapsulate(c) \/ SeesBound(c) \/ ResultDHCP(c)
        \/ AssimilateDHCPResults(c) \/ Deadline(c) \/ Again(c)
    \/ \E e \in messages : Deliver(e) \/ DeliverTwice(e) \/ Lose(e)
    \/ \E s \in Server :
        \/ \E k \in pendingHosts(srv[s]) : ServerEncapsulate(s, k)
        \/ \E m \in foreignMessages : Foreign(s, m)
        \/ Restart(s)

Spec == Init /\ [][Next]_vars

\* The stacks are polled, the network delivers and the callers go on; none of it is
\* owed by a fault or by a foreign client.
Progress ==
    \/ \E c \in Stack :
        \/ StartDHCPv4Request(c) \/ ClientEncapsulate(c) \/ SeesBound(c) \/ ResultDHCP(c)
        \/ AssimilateDHCPResults(c) \/ (quiet /\ Deadline(c))
    \/ \E e \in messages : Deliver(e)
    \/ \E s \in Server : \E k \in pendingHosts(srv[s]) : ServerEncapsulate(s, k)

FairSpec == Spec /\ WF_vars(Progress)
-----------------------------------------------------------------------------
(* What the exchange promises.                                             *)

\* The count that makes Encapsulate look for work covers the hosts owed an answer, so none
\* of them waits for ever, whatever repeats, cancels or releases an exchange; and it is exact
\* but for the answers whose entry was written over by a message that did not find it
\* (Server.pending).
PendingIsExact ==
    \A s \in Server :
        LET n == Cardinality({k \in known(srv[s]) : owed(srv[s].hosts[k])})
        IN  n <= srv[s].pending /\ srv[s].pending <= n + hist.over[s]

\* The counter came round: every address but the server's was given once.
comesRound(s) == hist.moves[s] > P!hosts(srv[s].subnet) - 1

\* No host has the server's address; two hosts have two addresses until the counter comes
\* round, but for an address that one of them chose, which the counter does not step over;
\* and a client whose entry nobody released is bound to the address its server acknowledged,
\* to it and in this exchange, though it reads no address from the acknowledgement
\* (Server.allocAddr, Client.Demux).
OneOwner ==
    /\ \A s \in Server :
        /\ \A k \in known(srv[s]) : srv[s].hosts[k].addr # srv[s].siaddr
        /\ ~comesRound(s)
           => \A k, l \in known(srv[s]) :
                k # l /\ srv[s].hosts[k].addr = srv[s].hosts[l].addr
                => srv[s].hosts[k].addr \in hist.chosen[s] \cup {NoAddr}
    /\ Cardinality(Server) = 1 /\ ~hist.restarted =>
        \A c \in Stack \ hist.lost : cl[c].state = "bound" => <<c, cl[c].xid, cl[c].offer>> \in hist.acked

\* A host that starts over, after a lost answer or for a new lease, keeps its address
\* until it releases it.  The zero key stands for no host: whoever claims an address that
\* nobody holds is filed there, and gets a new address each time (the table of Server.Demux).
AddressIsKept ==
    [][\A s \in Server : \A k \in (known(srv[s]) \cap known(srv'[s])) \ {ZeroKey} :
            \/ srv[s].hosts[k].addr = srv'[s].hosts[k].addr
            \/ hist'.restarted]_vars

\* One fault costs at most two attempts: with three, every stack gets its lease.  The
\* second is lost to what the first left on its way (StackRetrying.DoDHCPv4).
EveryStackComesUp ==
    (sc.retries >= 3 /\ sc.loss + sc.dup + sc.early <= 1 /\ sc.restart = 0)
        => <>[](\A c \in Stack : app[c].pc = "up")
=============================================================================
