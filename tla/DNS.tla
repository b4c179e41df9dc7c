--------------------------------- MODULE DNS ----------------------------------
(***************************************************************************)
(* dns.Client (dns/client.go) and the decoding of a response into its      *)
(* message (dns/dns.go).  A resource record is [owner, type, data], where  *)
(* data is an address or, in a CNAME, a name; "bad" marks data that does   *)
(* not decode.                                                             *)
(***************************************************************************)
EXTENDS Integers, Sequences

LOCAL S == INSTANCE SequencesExt
LOCAL F == INSTANCE FiniteSetsExt

newClient == [state |-> "idle", connID |-> 0, lport |-> 0, txid |-> 0, host |-> "", type |-> "A",
              resp |-> FALSE, rcode |-> 0, answers |-> <<>>, cap |-> 0]

isClosed(c) == c.state \in {"idle", "aborted"}

clientReset(c, lport, txid, state) ==
    [newClient EXCEPT !.connID = c.connID + 1, !.lport = lport, !.txid = txid, !.state = state,
                      !.cap = c.cap]

\* One question, and room for maxAns answers.  The room never shrinks.
StartResolve(c, lport, txid, host, type, maxAns) ==
    [clientReset(c, lport, txid, "pending")
        EXCEPT !.host = host, !.type = type, !.cap = F!Max({@, maxAns})]

Abort(c) == clientReset(c, 0, 0, "aborted")

sends(c) == c.state = "pending"

Query(c) == [kind |-> "query", txid |-> c.txid, host |-> c.host, type |-> c.type]

Encapsulate(c) == [c EXCEPT !.state = "outstanding"]

\* The records decoded into the room there is.  A record that does not decode ends the
\* decoding with an error, and what came before it stays.
Decode(records, room) ==
    LET bad  == S!SelectInSeq(records, LAMBDA r : r.type = "bad")
        upto == IF bad = 0 THEN Len(records) ELSE bad - 1
    IN  [answers |-> SubSeq(records, 1, F!Min({upto, room})), err |-> bad # 0]

\* The query is done before the message is decoded, whatever the decoding says.
Demux(c, m) ==
    IF c.state # "outstanding" \/ m.txid # c.txid \/ m.kind # "response" THEN c
    ELSE [c EXCEPT !.state = "done", !.resp = TRUE, !.rcode = m.rcode,
                   !.answers = Decode(m.answers, c.cap).answers]

\* Mutant: every record of the message is taken for the host's.
ownedByMutant(r, name) == TRUE

ownedBy(r, name) == r.owner = name

IsIPAddr(type) == type \in {"A", "AAAA"}

\* One round per answer, each of which follows the last alias of the name reached.
RECURSIVE follow(_, _, _, _, _)
follow(answers, name, rounds, room, err) ==
    LET owned == SelectSeq(answers, LAMBDA r : ownedBy(r, name))
        ips   == SelectSeq(owned, LAMBDA r : IsIPAddr(r.type))
        good  == SelectSeq(ips, LAMBDA r : r.data # "short")
        alias == SelectSeq(owned, LAMBDA r : r.type = "CNAME")
        addrs == [i \in DOMAIN good |-> good[i].data]
        e     == IF Len(good) < Len(ips) THEN "invalid" ELSE err
    IN  IF rounds = 0 THEN [addrs |-> <<>>, err |-> err]
        ELSE IF Len(addrs) > room THEN [addrs |-> SubSeq(addrs, 1, room), err |-> "exhausted"]
        ELSE IF addrs # <<>> \/ alias = <<>> THEN [addrs |-> addrs, err |-> e]
        ELSE follow(answers, alias[Len(alias)].data, rounds - 1, room, e)

WriteAnswers(answers, host, room) == follow(answers, host, Len(answers), room, "nil")

\* StackAsync.ResultLookupIP: not done, or what the answers hold for the host.  It is written
\* over the head of the stack's buffer, whose first n addresses are the result.
ResultLookupIP(c, host, buf) ==
    LET w == WriteAnswers(c.answers, host, Len(buf))
        n == Len(w.addrs)
    IN  IF ~c.resp THEN [done |-> FALSE, n |-> 0, buf |-> buf, err |-> "notDone"]
        ELSE IF c.rcode # 0 THEN [done |-> TRUE, n |-> 0, buf |-> buf, err |-> "rcode"]
        ELSE [done |-> TRUE, n |-> n, buf |-> w.addrs \o SubSeq(buf, n + 1, Len(buf)),
              err |-> IF n = 0 /\ w.err = "nil" THEN "noAnswer" ELSE w.err]

-----------------------------------------------------------------------------
(***************************************************************************)
(* mdns.Client (dns/mdns/client.go, definitions.go): one query of its own  *)
(* at a time, and answers to the queries it hears about its services.  A   *)
(* service has a name, the type its name ends in, and a host; a question   *)
(* is [name, type].                                                        *)
(***************************************************************************)

mdnsNewClient == [connID |-> 0, closed |-> FALSE, lport |-> 0, services |-> <<>>, qstate |-> "idle",
                  qqst |-> <<>>, qans |-> <<>>, qcap |-> 0, rans |-> <<>>, rcap |-> 0]

\* Room for two answers per service, and for four at least when there is any.
Configure(c, lport, services) ==
    [mdnsNewClient EXCEPT !.connID = c.connID + 1, !.lport = lport, !.services = services,
                          !.rcap = IF services = <<>> THEN c.rcap
                                   ELSE F!Max({c.rcap, 4, 2 * Len(services)}),
                          !.qcap = c.qcap]

mdnsStartResolve(c, questions, maxAns) ==
    [c EXCEPT !.qstate = "send", !.qqst = questions, !.qans = <<>>, !.qcap = F!Max({@, maxAns})]

mdnsAbort(c) == [c EXCEPT !.closed = TRUE]

matchQuestion(q, svc) ==
    CASE q.type = "PTR"            -> q.name = svc.type
      [] q.type \in {"SRV", "TXT"} -> q.name = svc.name
      [] q.type = "A"              -> q.name = svc.host
      [] q.type = "ALL"            -> q.name \in {svc.name, svc.host, svc.type}

ptr(svc) == [owner |-> svc.type, type |-> "PTR", data |-> svc.name]
srv(svc) == [owner |-> svc.name, type |-> "SRV", data |-> svc.host]
txt(svc) == [owner |-> svc.name, type |-> "TXT", data |-> ""]
addressRecord(svc)   == [owner |-> svc.host, type |-> "A", data |-> svc.addr]

serviceAnswers(q, svc) ==
    CASE q.type = "PTR" -> <<ptr(svc)>>
      [] q.type = "SRV" -> <<srv(svc), addressRecord(svc)>>
      [] q.type = "TXT" -> <<txt(svc)>>
      [] q.type = "A"   -> <<addressRecord(svc)>>
      [] q.type = "ALL" -> <<ptr(svc), srv(svc), txt(svc), addressRecord(svc)>>

\* All the answers to the question, or none when they do not fit.
addServiceAnswers(rans, cap, q, svc) ==
    IF Len(rans) + Len(serviceAnswers(q, svc)) > cap THEN rans ELSE rans \o serviceAnswers(q, svc)

\* Each question is answered for the first service it is about.
answerAll(c, questions) ==
    S!FoldLeft(LAMBDA rans, q :
                 LET j == S!SelectInSeq(c.services, LAMBDA svc : matchQuestion(q, svc))
                 IN  IF j = 0 THEN rans ELSE addServiceAnswers(rans, c.rcap, q, c.services[j]),
               c.rans, questions)

\* A response, to whatever question, ends the query; it fails when it has more than there is
\* room for or anything besides answers.
demuxResponse(c, m) ==
    IF Len(m.answers) > c.qcap \/ m.other
    THEN [c EXCEPT !.qstate = "failed", !.qans = SubSeq(m.answers, 1, F!Min({c.qcap, Len(m.answers)}))]
    ELSE [c EXCEPT !.qstate = "done", !.qans = m.answers]

\* A query is answered unless the answers to earlier ones fill the room.
mdnsDemux(c, m) ==
    IF c.closed THEN c
    ELSE IF m.kind = "mdnsResponse"
    THEN IF c.qstate = "await" THEN demuxResponse(c, m) ELSE c
    ELSE IF m.kind = "mdnsQuery" /\ Len(c.rans) < c.rcap
    THEN [c EXCEPT !.rans = answerAll(c, m.questions)] ELSE c

mdnsSends(c) == c.rans # <<>> \/ c.qstate = "send"

encapsResponse(c) == [c EXCEPT !.rans = <<>>]

encapsQuery(c) == [c EXCEPT !.qstate = "await"]

\* Answers go before our own query.
mdnsEncapsulate(c) ==
    IF c.rans # <<>>
    THEN [client |-> encapsResponse(c),
          body |-> [kind |-> "mdnsResponse", answers |-> c.rans, other |-> FALSE]]
    ELSE [client |-> encapsQuery(c), body |-> [kind |-> "mdnsQuery", questions |-> c.qqst]]

AnswersCopyTo(c) ==
    CASE c.qstate = "idle"   -> [done |-> FALSE, err |-> "closed", answers |-> <<>>]
      [] c.qstate = "failed" -> [done |-> FALSE, err |-> "failed", answers |-> <<>>]
      [] c.qstate = "done"   -> [done |-> TRUE, err |-> "nil", answers |-> c.qans]
      [] OTHER               -> [done |-> FALSE, err |-> "nil", answers |-> <<>>]
=============================================================================
