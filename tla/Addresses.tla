----------------------------- MODULE Addresses -----------------------------
(* The addresses of one family and its CIDR prefixes: what the code uses   *)
(* of Go's net/netip, and its own lastAddr.  An address is a number below  *)
(* 2^Width; Go has Width 32 and 128.                                       *)
EXTENDS Integers

CONSTANT Width      \* the bits of an address

ASSUME WidthAssumption == Width \in Nat

\* How many addresses a prefix of n bits has.
Size(n) == 2^(Width - n)

Addr == 0 .. Size(0) - 1

\* The zero netip.Addr, which sorts before every address.
Invalid == -1

Prefix == {p \in [addr : Addr, bits : 0 .. Width] : p.addr % Size(p.bits) = 0}

(* netip.PrefixFrom(addr, bits).Masked()                                   *)
Masked(a, n) == [addr |-> a - (a % Size(n)), bits |-> n]

lastAddr(p) == p.addr + Size(p.bits) - 1

(* netip.Addr.Next: of the last address of the family it is invalid.       *)
NextAddr(a) == IF a + 1 \in Addr THEN a + 1 ELSE Invalid

InPrefix(p, a) == Masked(a, p.bits) = p

-----------------------------------------------------------------------------
(* What prefixes stand for, and the reference for a minimal cover.         *)

Block(p) == p.addr .. lastAddr(p)

Covered(ps) == UNION {Block(p) : p \in ps}

(* The prefixes inside a set of addresses that no larger prefix inside it  *)
(* contains: the one cover of the set with the fewest prefixes.            *)
MinimalCover(addrs) ==
  LET inside == {p \in Prefix : Block(p) \subseteq addrs}
  IN  {p \in inside : \A q \in inside : Block(p) \subseteq Block(q) => q = p}
=============================================================================
