--------------------------- MODULE MCControlBlock ---------------------------
(* A small sequence space for ControlBlockSpec.                            *)
EXTENDS ControlBlockSpec, Bitwise

\* 58957 is the low half of 3_14159_2653, all that SeqMod <= 2^16 keeps of it.
MCScrambleIRS(irs) == irs ^^ (58957 % SeqMod)
MCFlagSets == {{"SYN"}, {"SYN", "ACK"}, {"ACK"}, {"FIN", "ACK"}, {"RST"}}

CONSTANTS
    MaxProgress,    \* sequence numbers a connection is followed for, each way
    MaxRefused      \* passive opens a RST sends back to LISTEN, one after the other

\* With an ISS next to the top of the space both counters wrap within these bounds.
Bounded ==
    /\ Sizeof(tcb.snd.ISS, tcb.snd.NXT) <= MaxProgress
    /\ Sizeof(tcb.rcv.IRS, tcb.rcv.NXT) <= MaxProgress
    /\ tcb.snd.ISS \in {0} \cup {Add(iss, n * rstJump) : iss \in ISSs, n \in 0 .. MaxRefused}
=============================================================================
