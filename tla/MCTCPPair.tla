----------------------------- MODULE MCTCPPair ------------------------------
(* Small buffers and sequence numbers for TCPPair.                         *)
EXTENDS TCPPair, Bitwise

MCScrambleIRS(irs) == irs ^^ (58957 % SeqMod)
Each(c, s) == [client |-> c, server |-> s]
MCISS == Each(13, 5)

\* The client sends two packets; one frame is lost and one timer expires too soon.
Base ==
    [tx |-> Each(3, 2), rx |-> Each(2, 3), packets |-> Each(2, 2), room |-> Each(2, 2),
     timers |-> {"client"}, stream |-> Each(3, 0), chunk |-> 2, closes |-> Each(0, 0),
     shutters |-> {}, redial |-> 0, reorders |-> TRUE, losable |-> {"data", "ack"},
     loss |-> 1, dup |-> 0, early |-> 1]

Calm == [Base EXCEPT !.loss = 0, !.early = 0]

\* The receive buffer fills and the window closes.
ZeroWindow == [Calm EXCEPT !.rx = Each(2, 2), !.stream = Each(4, 0)]

\* The receive buffer is beyond the window field, so windows are scaled.
Scaled == [Calm EXCEPT !.tx = Each(4, 2), !.rx = Each(2, 5), !.stream = Each(5, 0), !.chunk = 4]

\* A SYN is lost and the dial repeats it.
Dial == [Base EXCEPT !.stream = Each(1, 0), !.timers = {}, !.redial = 1,
                     !.losable = {"syn"}, !.early = 0]

\* A frame arrives twice and a timer expires too soon.
Twice == [Calm EXCEPT !.dup = 1, !.early = 1, !.stream = Each(2, 0)]

\* Both send, both have timers.
TwoWay == [Calm EXCEPT !.stream = Each(1, 1), !.timers = Side]

\* Both send and close, over a network that keeps the order.
CloseBoth == [Calm EXCEPT !.rx = Each(4, 4), !.stream = Each(1, 1), !.timers = {},
                          !.closes = Each(1, 1), !.reorders = FALSE]

\* The client closes with more to send than one frame carries.
CloseLate == [CloseBoth EXCEPT !.stream = Each(2, 0), !.room = Each(1, 1),
                               !.packets = Each(3, 2), !.closes = Each(1, 0)]

\* The server stops reading, and closes, while the client sends.
Shut == [CloseBoth EXCEPT !.stream = Each(1, 0), !.closes = Each(0, 1), !.shutters = {"server"}]

Ordinary == {Base, ZeroWindow, Scaled, Dial, Twice, TwoWay, CloseBoth, CloseLate, Shut}

Closing == {CloseBoth}
=============================================================================
