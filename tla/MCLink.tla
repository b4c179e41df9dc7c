------------------------------- MODULE MCLink -------------------------------
(* Small links for Link.                                                   *)
EXTENDS Link

None == [resolve |-> 0, discard |-> 0, seed |-> 0, abort |-> 0, rekey |-> 0, readdress |-> 0,
         dup |-> 0, loss |-> 0, draws |-> 0]

\* Two hosts of the subnet 8 to 15; a dials b.
Base ==
    [six |-> FALSE, ip |-> [a |-> 9, b |-> 10], dials |-> [a |-> <<10>>, b |-> <<>>], cacheSize |-> 3,
     slots |-> 2, passivePeers |-> 0, gateway |-> "all", subnet |-> [addr |-> 8, hostBits |-> 3],
     asks |-> {10}, newHW |-> "c", newIP |-> 12, claimants |-> {}, candidates |-> {0},
     last |-> [a |-> 31, b |-> 32], budget |-> None, connects |-> TRUE]

Twice == [Base EXCEPT !.dials.a = <<10, 10>>]
BothWays == [Base EXCEPT !.dials.b = <<9>>]
Learns == [BothWays EXCEPT !.passivePeers = 1, !.gateway = "gw"]
Outside == [Base EXCEPT !.dials.a = <<10, 20>>, !.connects = FALSE]

\* Everything else a user may do, and what the link may.
Busy == [Base EXCEPT !.connects = FALSE, !.cacheSize = 2, !.slots = 1, !.dials.a = <<10, 11, 10>>]
Spends(s, bs) == [s EXCEPT !.budget = [x \in DOMAIN None |-> IF x \in bs THEN 1 ELSE 0]]

SixOf(s) == [s EXCEPT !.six = TRUE]

\* Two hosts claim addresses from two; one frame may be lost.
Claim == [Base EXCEPT !.ip = [a |-> 0, b |-> 0], !.dials.a = <<>>, !.claimants = {"a", "b"},
                      !.candidates = {21, 22}, !.connects = FALSE, !.cacheSize = 2,
                      !.budget = [None EXCEPT !.draws = 2, !.loss = 1]]

Ordinary ==
    {Base, Twice, BothWays, Learns, Outside, SixOf(Twice), SixOf(BothWays),
     Spends(Busy, {"resolve", "discard"}), Spends(Busy, {"seed", "loss"}), Spends(Busy, {"abort", "dup"}),
     Spends(Busy, {"rekey"}), Spends(Busy, {"readdress"}), SixOf(Spends(Busy, {"resolve", "discard"})),
     SixOf(Spends(Busy, {"readdress", "seed"})), Claim}
=============================================================================
