--------------------------- MODULE AddressesProofs ---------------------------
(***************************************************************************)
(* Laws of addresses and prefixes, for any width: powers of two, the       *)
(* alignment of a prefix, what its block has in common with another one,   *)
(* and how a prefix splits into halves.                                    *)
(***************************************************************************)
EXTENDS Addresses, FiniteSetTheorems, TLAPS

-----------------------------------------------------------------------------
(* Induction.  The sets are those of the numbers with a property.          *)

LEMMA LessThan == OpToRel(<, Nat) = {ss \in Nat \X Nat : ss[1] < ss[2]}
BY DEF OpToRel

LEMMA Least ==
  ASSUME NEW S \in SUBSET Nat, S # {}
  PROVE  \E n \in S : \A m \in S : n <= m
<1>1. PICK x \in S : \A y \in S : ~(<<y, x>> \in OpToRel(<, Nat))
  BY NatLessThanWellFounded, WFMin
<1>2. \A y \in S : ~(y < x)
  BY <1>1, LessThan
<1> QED
  BY <1>2

LEMMA SetInduction ==
  ASSUME NEW S, 0 \in S, \A n \in Nat : n \in S => n + 1 \in S
  PROVE  Nat \subseteq S
<1> SUFFICES ASSUME Nat \ S # {} PROVE FALSE
  OBVIOUS
<1>1. PICK n \in Nat \ S : \A m \in Nat \ S : n <= m
  BY Least
<1>2. n - 1 \in Nat /\ n - 1 \notin S
  BY <1>1
<1> QED
  BY <1>1, <1>2

-----------------------------------------------------------------------------
(* Powers of two.                                                          *)

LEMMA PowerIsNat == ASSUME NEW k \in Nat PROVE 2^k \in Nat \ {0}
<1>1. IsFiniteSet(1 .. k) /\ Cardinality(1 .. k) = k
  BY FS_Interval
<1>2. IsFiniteSet(SUBSET (1 .. k)) /\ Cardinality(SUBSET (1 .. k)) = 2^k
  BY <1>1, FS_SUBSET
<1>3. 2^k \in Nat
  BY <1>2, FS_CardinalityType
<1>4. SUBSET (1 .. k) # {}
  OBVIOUS
<1> QED
  BY <1>2, <1>3, <1>4, FS_EmptySet

LEMMA PowerZero == 2^0 = 1
OBVIOUS

LEMMA PowerDoubles == ASSUME NEW k \in Nat PROVE 2^(k + 1) = 2 * 2^k
<1> DEFINE n     == 2^k
           small == SUBSET (1 .. k)
           big   == {T \cup {k + 1} : T \in small}
<1>1. /\ IsFiniteSet(1 .. k) /\ Cardinality(1 .. k) = k
      /\ IsFiniteSet(1 .. k + 1) /\ Cardinality(1 .. k + 1) = k + 1
  BY FS_Interval
<1>2. IsFiniteSet(small) /\ Cardinality(small) = n
  BY <1>1, FS_SUBSET
<1>3. Cardinality(SUBSET (1 .. k + 1)) = 2^(k + 1)
  BY <1>1, FS_SUBSET
<1>4. IsFiniteSet(big) /\ Cardinality(big) = n
  <2> DEFINE f == [T \in small |-> T \cup {k + 1}]
  <2>1. f \in Surjection(small, big)
    BY DEF Surjection
  <2>2. f \in Injection(small, big)
    <3>1. \A T \in small : k + 1 \notin T
      OBVIOUS
    <3>2. ASSUME NEW T \in small, NEW U \in small, T \cup {k + 1} = U \cup {k + 1}
          PROVE  T = U
      BY <3>1, <3>2
    <3> QED
      BY <2>1, <3>2 DEF Injection, IsInjective, Surjection
  <2>3. ExistsBijection(small, big)
    BY <2>1, <2>2 DEF ExistsBijection, Bijection
  <2> QED
    BY <1>2, <2>3, FS_Bijection
<1>5. small \cup big = SUBSET (1 .. k + 1)
  <2>1. ASSUME NEW T \in SUBSET (1 .. k + 1), k + 1 \in T PROVE T \in big
    <3>1. T \ {k + 1} \in small /\ T = (T \ {k + 1}) \cup {k + 1}
      BY <2>1
    <3> QED
      BY <3>1
  <2>2. ASSUME NEW T \in SUBSET (1 .. k + 1), k + 1 \notin T PROVE T \in small
    BY <2>2
  <2>3. \A T \in small \cup big : T \in SUBSET (1 .. k + 1)
    OBVIOUS
  <2> HIDE DEF small, big
  <2> QED
    BY <2>1, <2>2, <2>3
<1>6. small \cap big = {}
  OBVIOUS
<1>7. n \in Nat
  BY PowerIsNat
<1> HIDE DEF small, big, n
<1>8. Cardinality(small \cup big) = n + n - Cardinality({})
  BY <1>2, <1>4, <1>6, FS_Union
<1>9. Cardinality(small \cup big) = 2 * n
  BY <1>7, <1>8, FS_EmptySet
<1> QED
  BY <1>3, <1>5, <1>9, Zenon DEF n

-----------------------------------------------------------------------------
(* The sizes of blocks.                                                    *)

LEMMA SizeIsNat == ASSUME NEW n \in 0 .. Width PROVE Size(n) \in Nat \ {0}
<1>1. Width - n \in Nat
  BY WidthAssumption
<1> QED
  BY <1>1, PowerIsNat DEF Size

LEMMA SizeOne == Size(Width) = 1
<1>1. Width - Width = 0
  BY WidthAssumption
<1> QED
  BY <1>1, PowerZero DEF Size

LEMMA SizeHalves == ASSUME NEW n \in 1 .. Width PROVE Size(n - 1) = 2 * Size(n)
<1>1. Width - n \in Nat /\ Width - (n - 1) = (Width - n) + 1
  BY WidthAssumption
<1> QED
  BY <1>1, PowerDoubles DEF Size

-----------------------------------------------------------------------------
(* Division.                                                               *)

LEMMA Remainder ==
  ASSUME NEW a \in Nat, NEW m \in Nat \ {0}
  PROVE  /\ a % m \in 0 .. m - 1
         /\ \E q \in Nat : a = q * m + (a % m)
<1>1. a \div m \in Nat /\ a % m \in 0 .. m - 1 /\ a = (a \div m) * m + (a % m)
  OBVIOUS
<1> QED
  BY <1>1

LEMMA RemainderUnique ==
  ASSUME NEW q \in Nat, NEW m \in Nat \ {0}, NEW r \in 0 .. m - 1
  PROVE  (q * m + r) % m = r
OBVIOUS

LEMMA Aligned ==
  ASSUME NEW a \in Nat, NEW m \in Nat \ {0}
  PROVE  a % m = 0 <=> \E q \in Nat : a = q * m
<1>1. ASSUME NEW q \in Nat, a = q * m PROVE a % m = 0
  <2>1. (q * m + 0) % m = 0
    BY RemainderUnique
  <2> QED
    BY <1>1, <2>1
<1>2. ASSUME a % m = 0 PROVE \E q \in Nat : a = q * m
  <2>1. PICK q \in Nat : a = q * m + (a % m)
    BY Remainder
  <2> QED
    BY <1>2, <2>1
<1> QED
  BY <1>1, <1>2

(* Multiples of m are at least m apart.                                    *)
LEMMA Apart ==
  ASSUME NEW p \in Nat, NEW q \in Nat, NEW m \in Nat \ {0}, p < q
  PROVE  p * m + m <= q * m
OBVIOUS

-----------------------------------------------------------------------------
(* A larger size is a multiple of a smaller one, and an even one.          *)

LEMMA SizeDivides ==
  ASSUME NEW n \in 0 .. Width, NEW m \in 0 .. n
  PROVE  \E t \in Nat \ {0} : Size(m) = t * Size(n)
<1> DEFINE S == {d \in Nat : d <= n => \E t \in Nat \ {0} : Size(n - d) = t * Size(n)}
<1>1. 0 \in S
  <2>1. Size(n - 0) = 1 * Size(n)
    BY SizeIsNat
  <2> QED
    BY <2>1
<1>2. ASSUME NEW d \in Nat, d \in S PROVE d + 1 \in S
  <2> SUFFICES ASSUME d + 1 <= n PROVE \E t \in Nat \ {0} : Size(n - (d + 1)) = t * Size(n)
    OBVIOUS
  <2>1. PICK t \in Nat \ {0} : Size(n - d) = t * Size(n)
    BY <1>2
  <2>2. n - d \in 1 .. Width /\ (n - d) - 1 = n - (d + 1)
    BY WidthAssumption
  <2>3. Size(n - (d + 1)) = 2 * Size(n - d)
    BY <2>2, SizeHalves
  <2>4. Size(n - (d + 1)) = (2 * t) * Size(n)
    BY <2>1, <2>3, SizeIsNat
  <2> QED
    BY <2>4
<1>3. n - m \in S
  <2> HIDE DEF S
  <2> QED
    BY <1>1, <1>2, SetInduction
<1>4. n - (n - m) = m /\ n - m <= n
  BY WidthAssumption
<1> QED
  BY <1>3, <1>4

(* Different lengths, different sizes.                                     *)
LEMMA SizeDecreases ==
  ASSUME NEW n \in 0 .. Width, NEW m \in 0 .. Width, m < n
  PROVE  Size(m) >= 2 * Size(n)
<1>1. n - 1 \in 0 .. Width /\ m \in 0 .. n - 1 /\ n \in 1 .. Width
  BY WidthAssumption
<1>2. PICK t \in Nat \ {0} : Size(m) = t * Size(n - 1)
  BY <1>1, SizeDivides
<1>3. Size(n - 1) = 2 * Size(n)
  BY <1>1, SizeHalves
<1> QED
  BY <1>2, <1>3, SizeIsNat

-----------------------------------------------------------------------------
(* Prefixes and their blocks.                                              *)

LEMMA AddrIsNat == Addr \subseteq Nat
BY SizeIsNat, WidthAssumption DEF Addr

LEMMA PrefixShape ==
  ASSUME NEW p \in Prefix
  PROVE  /\ p.bits \in 0 .. Width /\ p.addr \in Addr /\ p.addr \in Nat
         /\ Size(p.bits) \in Nat \ {0}
         /\ lastAddr(p) = p.addr + Size(p.bits) - 1
         /\ \E q \in Nat : p.addr = q * Size(p.bits)
<1>1. p.bits \in 0 .. Width /\ p.addr \in Addr /\ p.addr % Size(p.bits) = 0
  BY DEF Prefix
<1>2. p.addr \in Nat /\ Size(p.bits) \in Nat \ {0}
  BY <1>1, AddrIsNat, SizeIsNat
<1> QED
  BY <1>1, <1>2, Aligned DEF lastAddr

(* A record with these fields is the prefix.                               *)
LEMMA PrefixOf ==
  ASSUME NEW n \in 0 .. Width, NEW q \in Nat, q * Size(n) \in Addr
  PROVE  [addr |-> q * Size(n), bits |-> n] \in Prefix
<1>1. (q * Size(n)) % Size(n) = 0
  <2>1. Size(n) \in Nat \ {0}
    BY SizeIsNat
  <2>2. q * Size(n) \in Nat
    BY <2>1
  <2> QED
    BY <2>1, <2>2, Aligned
<1> QED
  BY <1>1 DEF Prefix

(* The last address of a prefix is one.                                    *)
LEMMA LastIsAddr ==
  ASSUME NEW p \in Prefix
  PROVE  lastAddr(p) \in Addr /\ p.addr <= lastAddr(p)
<1> DEFINE s == Size(p.bits)
<1>1. PICK q \in Nat : p.addr = q * s
  BY PrefixShape
<1>2. PICK t \in Nat \ {0} : Size(0) = t * s
  BY PrefixShape, SizeDivides
<1>3. s \in Nat \ {0} /\ q * s < t * s
  BY <1>1, <1>2, PrefixShape DEF Addr
<1>4. q < t
  <2> HIDE DEF s
  <2>1. CASE t < q
    <3>1. t * s + s <= q * s
      BY <1>3, <2>1, Apart
    <3> QED
      BY <1>3, <3>1
  <2>2. CASE t = q
    BY <1>3, <2>2
  <2> QED
    BY <2>1, <2>2
<1>5. q * s + s <= t * s
  <2> HIDE DEF s
  <2> QED
    BY <1>3, <1>4, Apart
<1> QED
  BY <1>1, <1>2, <1>3, <1>5, PrefixShape DEF Addr

LEMMA PrefixNumbers ==
  ASSUME NEW p \in Prefix
  PROVE  /\ p.bits \in Nat /\ p.bits <= Width
         /\ p.addr \in Nat /\ lastAddr(p) \in Nat
         /\ p.addr <= lastAddr(p)
         /\ p.addr \in Block(p)
<1>1. p.bits \in 0 .. Width /\ p.addr \in Addr
  BY PrefixShape
<1>2. p.bits \in Nat /\ p.bits <= Width
  BY <1>1, WidthAssumption
<1>3. p.addr \in Nat /\ lastAddr(p) \in Nat /\ p.addr <= lastAddr(p)
  BY <1>1, LastIsAddr, AddrIsNat
<1> QED
  BY <1>2, <1>3 DEF Block

(* Masked is the prefix of that length that has the address.               *)
LEMMA MaskedIsPrefix ==
  ASSUME NEW a \in Addr, NEW n \in 0 .. Width
  PROVE  /\ Masked(a, n) \in Prefix
         /\ Masked(a, n).bits = n
         /\ a \in Block(Masked(a, n))
<1> DEFINE s == Size(n)
<1>1. a \in Nat /\ s \in Nat \ {0}
  BY AddrIsNat, SizeIsNat
<1>2. PICK q \in Nat : a = q * s + (a % s)
  BY <1>1, Remainder
<1>3. a % s \in 0 .. s - 1
  BY <1>1, Remainder
<1>4. a - (a % s) = q * s /\ q * s \in Nat /\ q * s <= a /\ a <= q * s + s - 1
  BY <1>1, <1>2, <1>3
<1>5. q * s \in Addr
  <2>1. Size(0) \in Nat /\ a <= Size(0) - 1
    BY SizeIsNat, WidthAssumption DEF Addr
  <2> HIDE DEF s
  <2>2. q * s \in 0 .. Size(0) - 1
    BY <1>1, <1>4, <2>1
  <2> QED
    BY <2>2 DEF Addr
<1>6. Masked(a, n) = [addr |-> q * s, bits |-> n]
  BY <1>4 DEF Masked
<1> QED
  BY <1>1, <1>4, <1>5, <1>6, PrefixOf DEF Block, lastAddr

(* Of two prefixes, the block of the longer one is inside the other's, or  *)
(* they have nothing in common.                                            *)
LEMMA Nested ==
  ASSUME NEW p \in Prefix, NEW q \in Prefix, p.bits <= q.bits,
         NEW x \in Block(p), x \in Block(q)
  PROVE  p.addr <= q.addr /\ lastAddr(q) <= lastAddr(p)
<1> DEFINE s == Size(q.bits)
<1>1. PICK t \in Nat \ {0} : Size(p.bits) = t * s
  <2>1. q.bits \in 0 .. Width /\ p.bits \in 0 .. q.bits
    BY PrefixShape
  <2> QED
    BY <2>1, SizeDivides
<1>2. PICK u \in Nat : p.addr = u * (t * s)
  BY <1>1, PrefixShape
<1>3. PICK v \in Nat : q.addr = v * s
  BY PrefixShape
<1>4. s \in Nat \ {0}
  BY PrefixShape
<1>5. /\ x \in Int
      /\ u * (t * s) <= x /\ x <= u * (t * s) + t * s - 1
      /\ v * s <= x /\ x <= v * s + s - 1
  <2> HIDE DEF s
  <2>1. u * (t * s) \in Int /\ t * s \in Int /\ v * s \in Int
    BY <1>4
  <2> QED
    BY <1>1, <1>2, <1>3, <1>4, <2>1 DEF Block, lastAddr, s
<1> HIDE DEF s
<1> DEFINE w == u * t
<1>6. /\ w \in Nat /\ w + t \in Nat
      /\ u * (t * s) = w * s /\ u * (t * s) + t * s = (w + t) * s
  BY <1>4
<1> HIDE DEF w
<1>7. w <= v
  <2> SUFFICES ASSUME v < w PROVE FALSE
    BY <1>6
  <2>1. v * s + s <= w * s
    BY <1>4, <1>6, Apart
  <2> QED
    BY <1>4, <1>5, <1>6, <2>1
<1>8. v < w + t
  <2> SUFFICES ASSUME w + t <= v PROVE FALSE
    BY <1>6
  <2>1. (w + t) * s <= v * s
    BY <1>4, <1>6
  <2> QED
    BY <1>4, <1>5, <1>6, <2>1
<1>9. w * s <= v * s
  BY <1>4, <1>6, <1>7
<1>10. v * s + s <= (w + t) * s
  BY <1>4, <1>6, <1>8, Apart
<1>11. lastAddr(q) = v * s + s - 1 /\ lastAddr(p) = u * (t * s) + t * s - 1
  BY <1>1, <1>2, <1>3, PrefixShape DEF s
<1> QED
  BY <1>2, <1>3, <1>4, <1>6, <1>9, <1>10, <1>11

(* A prefix that has an address of the block of another one of its length  *)
(* is that one.                                                            *)
LEMMA SameLength ==
  ASSUME NEW p \in Prefix, NEW q \in Prefix, p.bits = q.bits,
         NEW x \in Block(p), x \in Block(q)
  PROVE  p = q
<1>1. p.bits \in Int /\ p.addr \in Int /\ q.addr \in Int
  BY PrefixShape, WidthAssumption
<1>2. p.bits <= q.bits /\ q.bits <= p.bits
  BY <1>1
<1>3. p.addr <= q.addr /\ q.addr <= p.addr
  BY <1>2, Nested
<1>4. p.addr = q.addr
  BY <1>1, <1>3
<1> QED
  BY <1>4 DEF Prefix

(* InPrefix is membership in the block.                                    *)
LEMMA InPrefixIsInBlock ==
  ASSUME NEW p \in Prefix, NEW a \in Addr
  PROVE  InPrefix(p, a) <=> a \in Block(p)
<1> DEFINE m == Masked(a, p.bits)
<1>1. p.bits \in 0 .. Width
  BY PrefixShape
<1>2. m \in Prefix /\ m.bits = p.bits /\ a \in Block(m)
  BY <1>1, MaskedIsPrefix
<1> HIDE DEF m
<1>3. a \in Block(p) => m = p
  BY <1>2, SameLength
<1> QED
  BY <1>2, <1>3 DEF InPrefix, m

(* Of two prefixes with an address in common, the longer is inside.        *)
LEMMA NestedBlocks ==
  ASSUME NEW p \in Prefix, NEW q \in Prefix, p.bits <= q.bits,
         NEW x \in Block(p), x \in Block(q)
  PROVE  Block(q) \subseteq Block(p)
<1>1. p.addr <= q.addr /\ lastAddr(q) <= lastAddr(p)
  BY Nested
<1>2. /\ p.addr \in Int /\ lastAddr(p) \in Int
      /\ q.addr \in Int /\ lastAddr(q) \in Int
  BY PrefixShape
<1> QED
  BY <1>1, <1>2 DEF Block

(* A block inside another is the other's, or of a longer prefix.           *)
LEMMA InsideIsLonger ==
  ASSUME NEW p \in Prefix, NEW q \in Prefix, Block(q) \subseteq Block(p)
  PROVE  q = p \/ p.bits < q.bits
<1>1. q.addr \in Block(q)
  BY LastIsAddr, PrefixShape DEF Block
<1>2. p.bits \in Int /\ q.bits \in Int
  BY PrefixShape, WidthAssumption
<1>3. CASE p.bits < q.bits
  BY <1>3
<1>4. CASE p.bits = q.bits
  BY <1>1, <1>4, SameLength
<1>5. CASE q.bits < p.bits
  <2>1. q.bits <= p.bits
    BY <1>2, <1>5
  <2>2. q.addr <= p.addr /\ lastAddr(p) <= lastAddr(q)
    BY <1>1, <2>1, Nested
  <2>3. q.addr \in Block(p) /\ lastAddr(q) \in Block(p)
    BY <1>1, LastIsAddr, PrefixShape DEF Block
  <2>4. Size(q.bits) >= 2 * Size(p.bits)
    BY <1>5, PrefixShape, SizeDecreases
  <2>5. FALSE
    BY <2>2, <2>3, <2>4, PrefixShape DEF Block
  <2> QED
    BY <2>5
<1> QED
  BY <1>2, <1>3, <1>4, <1>5

LEMMA BlockDetermines ==
  ASSUME NEW p \in Prefix, NEW q \in Prefix, Block(p) = Block(q)
  PROVE  p = q
<1>1. p.bits \in Int /\ q.bits \in Int
  BY PrefixShape, WidthAssumption
<1> QED
  BY <1>1, InsideIsLonger

(* The two halves of a prefix that is not a single address.                *)
LowerHalf(p) == [addr |-> p.addr, bits |-> p.bits + 1]
UpperHalf(p) == [addr |-> p.addr + Size(p.bits + 1), bits |-> p.bits + 1]

LEMMA Halves ==
  ASSUME NEW p \in Prefix, p.bits # Width
  PROVE  /\ LowerHalf(p) \in Prefix /\ UpperHalf(p) \in Prefix
         /\ Block(p) = Block(LowerHalf(p)) \cup Block(UpperHalf(p))
         /\ lastAddr(LowerHalf(p)) + 1 = UpperHalf(p).addr
         /\ lastAddr(UpperHalf(p)) = lastAddr(p)
<1> DEFINE n == p.bits + 1
           s == Size(n)
<1>1. n \in 1 .. Width /\ n \in 0 .. Width /\ n - 1 = p.bits
  <2>1. p.bits \in 0 .. Width
    BY PrefixShape
  <2> QED
    BY <2>1, WidthAssumption
<1>2. s \in Nat \ {0} /\ Size(p.bits) = 2 * s
  BY <1>1, SizeHalves, SizeIsNat
<1>3. PICK q \in Nat : p.addr = q * Size(p.bits)
  BY PrefixShape
<1>4. lastAddr(p) \in Addr /\ lastAddr(p) = p.addr + 2 * s - 1 /\ p.addr \in Addr
  BY <1>2, LastIsAddr, PrefixShape
<1> DEFINE u == 2 * q
<1>5. p.addr = u * s /\ u \in Nat
  <2> HIDE DEF s
  <2> QED
    BY <1>2, <1>3
<1>6. p.addr + s = (u + 1) * s /\ u + 1 \in Nat
  <2> HIDE DEF s, u
  <2> QED
    BY <1>2, <1>5
<1>7. (u + 1) * s \in Addr
  <2> HIDE DEF s, u
  <2>1. p.addr + s \in Addr
    BY <1>2, <1>4, SizeIsNat, WidthAssumption DEF Addr
  <2> QED
    BY <1>6, <2>1
<1> HIDE DEF n, s, u
<1>8. [addr |-> u * s, bits |-> n] \in Prefix
  BY <1>1, <1>4, <1>5, PrefixOf DEF s
<1>9. [addr |-> (u + 1) * s, bits |-> n] \in Prefix
  BY <1>1, <1>6, <1>7, PrefixOf DEF s
<1>10. LowerHalf(p) = [addr |-> u * s, bits |-> n]
  BY <1>5 DEF LowerHalf, n
<1>11. UpperHalf(p) = [addr |-> (u + 1) * s, bits |-> n]
  BY <1>6 DEF UpperHalf, n, s
<1>12. /\ lastAddr(LowerHalf(p)) = p.addr + s - 1
       /\ lastAddr(UpperHalf(p)) = (p.addr + s) + s - 1
       /\ LowerHalf(p).addr = p.addr
       /\ UpperHalf(p).addr = p.addr + s
  BY DEF LowerHalf, UpperHalf, lastAddr, n, s
<1>13. p.addr \in Nat
  BY PrefixShape
<1> QED
  BY <1>2, <1>4, <1>8, <1>9, <1>10, <1>11, <1>12, <1>13 DEF Block
=============================================================================
