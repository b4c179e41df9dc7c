------------------------------ MODULE NodeTable -----------------------------
(***************************************************************************)
(* internet.handlers (internet/definitions.go): the table of a stack's     *)
(* nodes, with the walks that poll them (definitions.go, stack-ports.go).  *)
(* A node keeps the connection identifier its owner had when it was        *)
(* registered; ids gives the identifiers the owners have now, so a node    *)
(* whose owner was reset since is invalid and stays in the table until a   *)
(* registration needs its place.                                           *)
(***************************************************************************)
EXTENDS Integers, Sequences

LOCAL S == INSTANCE SequencesExt
LOCAL F == INSTANCE FiniteSetsExt

Zeroed == [who |-> "none", id |-> 0, proto |-> 0, lport |-> 0]

newTable(maxNodes) == [nodes |-> <<>>, cap |-> maxNodes, encapsIdx |-> 0]

IsInvalid(n, ids) == n.who = "none" \/ n.id # ids[n.who]

\* The room of the table never shrinks, and encapsIdx is kept.
reset(t, maxNodes) == [t EXCEPT !.nodes = <<>>, !.cap = F!Max({@, maxNodes})]

full(t) == Len(t.nodes) = t.cap

compact(t, ids) == [t EXCEPT !.nodes = SelectSeq(@, LAMBDA n : ~IsInvalid(n, ids))]

prepAdd(t, ids) == IF full(t) THEN compact(t, ids) ELSE t

nodeByProto(t, proto, ids) ==
    S!SelectInSeq(t.nodes, LAMBDA n : n.proto = proto /\ ~IsInvalid(n, ids))

nodeByPort(t, port, ids) ==
    S!SelectInSeq(t.nodes, LAMBDA n : n.lport = port /\ ~IsInvalid(n, ids))

nodeByPortProto(t, n, ids) ==
    S!SelectInSeq(t.nodes, LAMBDA m : m.lport = n.lport /\ m.proto = n.proto /\ ~IsInvalid(m, ids))

\* Registration, into a table that was compacted when it was full.
registerByPortProto(t, n, ids) ==
    LET p == prepAdd(t, ids)
    IN  IF full(p) THEN [tab |-> p, err |-> "exhausted"]
        ELSE IF nodeByPortProto(p, n, ids) # 0 THEN [tab |-> p, err |-> "registered"]
        ELSE [tab |-> [p EXCEPT !.nodes = Append(@, n)], err |-> "nil"]

destroy(t, idx) == [t EXCEPT !.nodes = [i \in DOMAIN @ |-> IF i \in idx THEN Zeroed ELSE @[i]]]

\* A walk over the nodes in the given order up to the first whose owner is in sends, the owners
\* that have something to send; the nodes it passes whose owners are closed are dropped.
walked(t, order, ids, sends, closed) ==
    LET asks(k) == ~IsInvalid(t.nodes[order[k]], ids)
        hits    == {k \in DOMAIN order : asks(k) /\ t.nodes[order[k]].who \in sends}
        last    == IF hits = {} THEN Len(order) ELSE F!Min(hits)
        gone    == {order[k] : k \in {j \in 1 .. last : asks(j) /\ t.nodes[order[j]].who \in closed}}
    IN  [tab |-> destroy(t, gone), at |-> IF hits = {} THEN 0 ELSE order[last],
         asked |-> {order[k] : k \in {j \in 1 .. last : asks(j)}}]

\* The polling order starts at encapsIdx, which is read as an index as it is.
panics(t) == Len(t.nodes) > 0 /\ t.encapsIdx >= Len(t.nodes)

encapsulateAny(t, ids, sends, closed) ==
    LET n == Len(t.nodes)
        w == walked(t, [k \in 1 .. n |-> ((t.encapsIdx + k - 1) % n) + 1], ids, sends, closed)
    IN  IF w.at = 0 THEN w ELSE [w EXCEPT !.tab.encapsIdx = w.at % n]

\* StackPortsMACFiltered polls from the first node each time.
portsEncapsulate(t, ids, sends, closed) ==
    walked(t, [k \in 1 .. Len(t.nodes) |-> k], ids, sends, closed)
=============================================================================
