-------------------------------- MODULE Echo --------------------------------
(***************************************************************************)
(* icmpv4.Client (ipv4/icmpv4/client.go): pings to others, and answers to  *)
(* theirs.  The data of the echoes to answer waits in one ring of bytes,   *)
(* beside a queue with the length of each.  A ping is known by a hash of   *)
(* its data, whose width KeyMod scales.                                    *)
(***************************************************************************)
EXTENDS Integers, Sequences

CONSTANT KeyMod   \* The keys there are; 2^30 in the code.

R == INSTANCE Ring
LOCAL S == INSTANCE SequencesExt

newClient == [connID |-> 0, outgoing |-> <<>>, incoming |-> <<>>, limit |-> 0, id |-> 0,
              magic |-> 0, seq |-> 0, ring |-> [Buf |-> <<>>, Off |-> 0, End |-> 0]]

Configure(c, room, limit, id, magic) ==
    [c EXCEPT !.connID = @ + 1, !.outgoing = <<>>, !.incoming = <<>>, !.limit = limit,
              !.ring = [Buf |-> [i \in 1 .. room |-> 0], Off |-> 0, End |-> 0],
              !.id = id, !.magic = magic]

Reset(c) == [c EXCEPT !.incoming = <<>>, !.outgoing = <<>>, !.ring = R!Reset(@)]

Abort(c) == [Reset(c) EXCEPT !.connID = @ + 1]

\* The pattern repeated up to size bytes.
Data(pattern, size) == [i \in 1 .. size |-> pattern[((i - 1) % Len(pattern)) + 1]]

magichash(c, data) ==
    S!FoldLeft(LAMBDA h, b : (h * 31 + b) % KeyMod, c.magic, data)

\* The first ping with the key, or 0.
pingidx(c, key) == S!SelectInSeq(c.outgoing, LAMBDA p : p.key = key)

PingStart(c, raddr, pattern, size) ==
    LET key == magichash(c, Data(pattern, size))
    IN  IF size < Len(pattern) \/ Len(c.outgoing) = c.limit THEN [client |-> c, key |-> -1]
        ELSE [client |-> [c EXCEPT !.outgoing = Append(@,
                             [key |-> key, data |-> Data(pattern, size), raddr |-> raddr,
                              sent |-> FALSE, completed |-> FALSE])],
              key |-> key]

PingPeek(c, key) ==
    LET i == pingidx(c, key)
    IN  IF i = 0 THEN [completed |-> FALSE, ok |-> FALSE]
        ELSE [completed |-> c.outgoing[i].completed, ok |-> TRUE]

PingPop(c, key) ==
    LET i == pingidx(c, key)
    IN  IF i = 0 THEN c ELSE [c EXCEPT !.outgoing = S!RemoveAt(@, i)]

\* An echo to answer, when the queue and the ring have room for it.
demuxEcho(c, m, raddr) ==
    LET w == R!Write(c.ring, m.data)
    IN  IF Len(c.incoming) = c.limit \/ m.data = <<>> \/ w.err # "nil" THEN c
        ELSE [c EXCEPT !.ring = w.ring,
                       !.incoming = Append(@, [length |-> Len(m.data), id |-> m.id,
                                               seq |-> m.seq, raddr |-> raddr])]

\* A reply completes the first ping with its data's key, if that ping went to its sender.
demuxReply(c, m, raddr) ==
    LET i == pingidx(c, magichash(c, m.data))
    IN  IF m.data = <<>> \/ i = 0 THEN c
        ELSE IF c.outgoing[i].raddr # raddr THEN c
        ELSE [c EXCEPT !.outgoing[i].completed = TRUE]

Demux(c, m, raddr) ==
    CASE m.kind = "echo"  -> demuxEcho(c, m, raddr)
      [] m.kind = "reply" -> demuxReply(c, m, raddr)
      [] OTHER            -> c

unsent(c) == S!SelectInSeq(c.outgoing, LAMBDA p : ~p.sent)

sends(c) == c.incoming # <<>> \/ unsent(c) # 0

\* Answers go before pings.
Encapsulate(c) ==
    LET inc == c.incoming[1]
        rd  == R!Read(c.ring, inc.length)
        i   == unsent(c)
    IN  IF c.incoming # <<>>
        THEN [client |-> [c EXCEPT !.ring = rd.ring, !.incoming = Tail(@)], to |-> inc.raddr,
              body |-> [kind |-> "reply", id |-> inc.id, seq |-> inc.seq, data |-> rd.data]]
        ELSE [client |-> [c EXCEPT !.seq = @ + 1, !.outgoing[i].sent = TRUE],
              to |-> c.outgoing[i].raddr,
              body |-> [kind |-> "echo", id |-> c.id, seq |-> c.seq + 1,
                        data |-> c.outgoing[i].data]]
=============================================================================
