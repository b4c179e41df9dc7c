------------------------------ MODULE SeqSpace ------------------------------
(***************************************************************************)
(* TCP sequence-number arithmetic (tcp/valuesize.go).  A Value is an       *)
(* unsigned word and all arithmetic on it wraps; SeqMod is the word's      *)
(* modulus, 2^32 in the code.                                              *)
(***************************************************************************)
EXTENDS Integers

CONSTANT SeqMod     \* 2^32 in the code

ASSUME SeqModAssumption == SeqMod \in Nat /\ SeqMod > 1 /\ SeqMod % 2 = 0

Value == 0 .. SeqMod - 1

Half == SeqMod \div 2

Add(v, s) == (v + s) % SeqMod

Sizeof(v, w) == (w - v) % SeqMod

\* int32(v-w) < 0 : the word v-w has its top bit set.
LessThan(v, w) == Sizeof(w, v) >= Half

LessThanEq(v, w) == v = w \/ LessThan(v, w)

InRange(v, a, b) == Sizeof(a, v) < Sizeof(a, b)

InWindow(v, first, size) == InRange(v, first, Add(first, size))
=============================================================================
