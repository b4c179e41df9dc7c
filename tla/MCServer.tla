------------------------------ MODULE MCServer ------------------------------
(* A server with small sequence numbers, pools and lists of clients.       *)
EXTENDS Server, Bitwise

MCScrambleIRS(irs) == irs ^^ (58957 % SeqMod)

Nothing0 == [close |-> 0, abort |-> 0, redial |-> 0, loss |-> 0, dup |-> 0, unlisten |-> 0]

Base == [clients |-> <<7, 7>>, dials |-> <<1, 1>>, poolSize |-> 2, timed |-> FALSE, waits |-> TRUE,
         serves |-> FALSE, drains |-> FALSE, budget |-> Nothing0]

\* Two clients with the same port.
Two == [Base EXCEPT !.budget.close = 1, !.serves = TRUE, !.drains = TRUE]
\* The pool has one connection.
Full == [Two EXCEPT !.poolSize = 1]
\* A client dials again, from the same port.
Again == [Base EXCEPT !.clients = <<7>>, !.dials = <<2>>, !.waits = FALSE, !.budget.close = 1, !.budget.abort = 1]
\* Dials are repeated, segments are lost and doubled.
Lossy == [Base EXCEPT !.clients = <<7>>, !.dials = <<1>>, !.budget.redial = 1, !.budget.loss = 1, !.budget.dup = 1]
\* The timeouts of the pool, with a client that vanishes or a segment that is lost.
Timed == [Base EXCEPT !.clients = <<7>>, !.dials = <<1>>, !.timed = TRUE, !.drains = TRUE, !.waits = FALSE,
                      !.budget.abort = 1, !.budget.close = 1]
TimedLoss == [Timed EXCEPT !.budget.loss = 1, !.budget.abort = 0]
\* The listener closes.
Unlisten == [Base EXCEPT !.budget.unlisten = 1]

Ordinary == {Two, Full, Again, Lossy, Timed, TimedLoss, Unlisten}
=============================================================================
