------------------------------ MODULE MCDHCPv4 -------------------------------
(* Small networks for DHCPv4.                                              *)
EXTENDS DHCPv4

\* Addresses 8 to 15, the server at 9; or 4 to 7, the server at 5.
Roomy == [addr |-> 9, gateway |-> 9, dns |-> 3, subnet |-> [addr |-> 8, hostBits |-> 3]]
Tight == [addr |-> 5, gateway |-> 5, dns |-> 3, subnet |-> [addr |-> 4, hostBits |-> 2]]

\* Two stacks, one fault of any one kind.
Base == [servers |-> [s1 |-> Roomy], req |-> [a |-> 0, b |-> 0], retries |-> 3,
         loss |-> 0, dup |-> 0, early |-> 0, again |-> 0, foreign |-> 0, restart |-> 0,
         claims |-> {0}]
One(sc0) == [sc0 EXCEPT !.req = [a |-> 0]]

Ordinary ==
    {[One(Base) EXCEPT !.loss = 1, !.again = 1], [One(Base) EXCEPT !.dup = 1],
     [One(Base) EXCEPT !.early = 1], [Base EXCEPT !.retries = 1],
     \* a foreign client comes, goes and comes again, also with an address of its own or one
     \* that nobody holds
     [One(Base) EXCEPT !.foreign = 4, !.claims = {0, 10}, !.retries = 1],
     \* it releases the stack's address, and the stack's discover comes again
     [One(Base) EXCEPT !.foreign = 1, !.dup = 1, !.claims = {0, 10}, !.retries = 1],
     \* the pool runs out and comes round
     [Base EXCEPT !.servers = [s1 |-> Tight], !.retries = 2, !.foreign = 1],
     \* stacks that ask for an address, the one the counter comes to next
     [Base EXCEPT !.req = [a |-> 10, b |-> 0], !.retries = 1],
     \* the server loses its table
     [One(Base) EXCEPT !.restart = 1, !.dup = 1, !.retries = 2],
     \* a server without a gateway, and two servers
     [One(Base) EXCEPT !.servers = [s1 |-> [Roomy EXCEPT !.gateway = 0]], !.retries = 1],
     [One(Base) EXCEPT !.servers = [s1 |-> Roomy, s2 |-> Tight], !.loss = 1, !.retries = 1]}

=============================================================================
