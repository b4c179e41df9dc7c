------------------------------ MODULE FrameFifo ------------------------------
(***************************************************************************)
(* What bufferSelect and the run loop promise together: a bounded queue    *)
(* between the device and the stack.  While the loop is up a frame that    *)
(* was queued leaves only at the head, into the stack; what is queued when *)
(* the loop stops may be forgotten when it starts again.                   *)
(***************************************************************************)
EXTENDS Naturals, Sequences

CONSTANTS Capacity, Frames

VARIABLES queue, out, up

Init == queue = <<>> /\ out \notin Frames /\ up = TRUE

Put(f) == /\ up /\ Len(queue) < Capacity
          /\ queue' = Append(queue, f) /\ UNCHANGED <<out, up>>

Take == /\ up /\ queue # <<>>
        /\ out' = Head(queue) /\ queue' = Tail(queue) /\ UNCHANGED up

Stop == up /\ up' = FALSE /\ UNCHANGED <<queue, out>>

Start == ~up /\ up' = TRUE /\ queue' = <<>> /\ UNCHANGED out

Next == (\E f \in Frames : Put(f)) \/ Take \/ Stop \/ Start

Spec == Init /\ [][Next]_<<queue, out, up>>
=============================================================================
