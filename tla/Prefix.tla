-------------------------------- MODULE Prefix -------------------------------
(***************************************************************************)
(* ipv4.Prefix (ipv4/prefix .go).  An address is a number, 0 is 0.0.0.0; a *)
(* prefix is an address with the count of its host bits.                   *)
(***************************************************************************)
EXTENDS Naturals

hosts(p) == 2 ^ p.hostBits

addrBitmasked(p) == p.addr - (p.addr % hosts(p))

Contains(p, a) == a - (a % hosts(p)) = addrBitmasked(p)

\* The address after a within the prefix, wrapping to its first.
NextAddr(p, a) == addrBitmasked(p) + ((a + 1) % hosts(p))

\* All host bits set.
isBroadcast(p, a) == a % hosts(p) = hosts(p) - 1
=============================================================================
