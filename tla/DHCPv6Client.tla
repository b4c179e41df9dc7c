---------------------------- MODULE DHCPv6Client ----------------------------
(***************************************************************************)
(* dhcpv6.Client (dhcp/dhcpv6/client.go).  A message is a record of its    *)
(* type, transaction and options; the option that is missing is "none".    *)
(* The lists that name servers, prefixes and domains come in are one       *)
(* option, dns, since each is kept the same way.                           *)
(***************************************************************************)
EXTENDS Integers

newClient == [state |-> "none", xid |-> 0, connID |-> 0, server |-> "none", addr |-> "none",
              dns |-> "none", reconf |-> "none", duid |-> "none"]

HasIP(state) == state \in {"bound", "renewing", "rebinding"}

isClosed(c) == c.state = "none" \/ c.xid = 0

reset6(c) == [newClient EXCEPT !.connID = c.connID + 1, !.xid = c.xid, !.duid = c.duid]

BeginRequest(c, xid, duid) ==
    IF c.state \notin {"none", "init"} THEN c
    ELSE [reset6([c EXCEPT !.xid = xid]) EXCEPT !.duid = duid, !.state = "init"]

\* The message the state sends; every state but the first sends again at each poll.
msgOf(state) ==
    CASE state = "init"       -> "solicit"
      [] state = "requesting" -> "request"
      [] state = "renewing"   -> "renew"
      [] state = "rebinding"  -> "rebind"

sends(c) == c.state \in {"init", "requesting", "renewing", "rebinding"}

Message(c) ==
    [type |-> msgOf(c.state), xid |-> c.xid, client |-> c.duid,
     server |-> IF c.state \in {"requesting", "renewing"} THEN c.server ELSE "none",
     addr |-> IF c.state = "init" THEN "none" ELSE c.addr]

Encapsulate(c) == [c EXCEPT !.state = IF @ = "init" THEN "soliciting" ELSE @]

\* Server and address are replaced by what the message has; the lists only while empty.
setOptions(c, m) ==
    [c EXCEPT !.server = IF m.server = "none" THEN @ ELSE m.server,
              !.addr = IF m.addr = "none" THEN @ ELSE m.addr,
              !.dns = IF @ = "none" THEN m.dns ELSE @]

\* Whether a message of the type moves the state on.
answers(state, type) ==
    \/ state = "soliciting" /\ type = "advertise"
    \/ state \in {"requesting", "renewing", "rebinding"} /\ type = "reply"

handleReconfigure(c, m) ==
    IF ~HasIP(c.state) \/ m.client # c.duid \/ m.server = "none"
       \/ (c.server # "none" /\ m.server # c.server) THEN c
    ELSE [c EXCEPT !.reconf = m.reconf, !.state = IF m.reconf = "renew" THEN "renewing" ELSE @]

Demux(c, m) ==
    IF isClosed(c) THEN c
    ELSE IF m.type = "reconfigure" THEN handleReconfigure(c, m)
    ELSE IF m.xid # c.xid \/ ~answers(c.state, m.type) THEN c
    ELSE [setOptions(c, m) EXCEPT !.state = IF c.state = "soliciting" THEN "requesting" ELSE "bound"]
=============================================================================
