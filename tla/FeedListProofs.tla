--------------------------- MODULE FeedListProofs ---------------------------
(***************************************************************************)
(* What a feed becomes, for any width and any list of prefixes: nothing is *)
(* lost or gained, and the result is minimal and in ascending order.       *)
(***************************************************************************)
EXTENDS FeedList, AddressesProofs, SequenceTheorems

-----------------------------------------------------------------------------
(* Lists as sets.                                                          *)

From(s, k) == {s[j] : j \in k .. Len(s)}

LEMMA AppendedSet ==
  ASSUME NEW S, NEW s \in Seq(S), NEW e \in S
  PROVE  /\ Append(s, e) \in Seq(S)
         /\ Len(Append(s, e)) = Len(s) + 1
         /\ \A k \in 1 .. Len(s) : Append(s, e)[k] = s[k]
         /\ Append(s, e)[Len(s) + 1] = e
         /\ ToSet(Append(s, e)) = ToSet(s) \cup {e}
<1>1. /\ Append(s, e) \in Seq(S)
      /\ Len(Append(s, e)) = Len(s) + 1
      /\ \A k \in 1 .. Len(s) : Append(s, e)[k] = s[k]
      /\ Append(s, e)[Len(s) + 1] = e
  OBVIOUS
<1>2. /\ DOMAIN s = 1 .. Len(s) /\ Len(s) \in Nat
      /\ DOMAIN Append(s, e) = 1 .. Len(s) + 1
  BY <1>1, LenProperties
<1>3. ToSet(Append(s, e)) = ToSet(s) \cup {e}
  BY <1>1, <1>2 DEF ToSet
<1> QED
  BY <1>1, <1>3

LEMMA JoinedSet ==
  ASSUME NEW S, NEW s \in Seq(S), NEW t \in Seq(S)
  PROVE  /\ s \o t \in Seq(S)
         /\ ToSet(s \o t) = ToSet(s) \cup ToSet(t)
<1>1. /\ s \o t \in Seq(S)
      /\ Len(s \o t) = Len(s) + Len(t)
      /\ \A k \in 1 .. Len(s) + Len(t) :
           (s \o t)[k] = IF k <= Len(s) THEN s[k] ELSE t[k - Len(s)]
  BY ConcatProperties
<1>2. /\ DOMAIN s = 1 .. Len(s) /\ Len(s) \in Nat
      /\ DOMAIN t = 1 .. Len(t) /\ Len(t) \in Nat
      /\ DOMAIN (s \o t) = 1 .. Len(s) + Len(t)
  BY <1>1, LenProperties
<1>3. ASSUME NEW k \in DOMAIN (s \o t) PROVE (s \o t)[k] \in ToSet(s) \cup ToSet(t)
  <2>1. CASE k <= Len(s)
    BY <1>1, <1>2, <2>1 DEF ToSet
  <2>2. CASE ~(k <= Len(s))
    <3>1. (s \o t)[k] = t[k - Len(s)] /\ k - Len(s) \in DOMAIN t
      BY <1>1, <1>2, <2>2
    <3> QED
      BY <3>1 DEF ToSet
  <2> QED
    BY <2>1, <2>2
<1>4. ASSUME NEW k \in DOMAIN s PROVE s[k] \in ToSet(s \o t)
  <2>1. k \in DOMAIN (s \o t) /\ (s \o t)[k] = s[k]
    BY <1>1, <1>2
  <2> QED
    BY <2>1 DEF ToSet
<1>5. ASSUME NEW k \in DOMAIN t PROVE t[k] \in ToSet(s \o t)
  <2>1. /\ Len(s) + k \in 1 .. Len(s) + Len(t) /\ ~(Len(s) + k <= Len(s))
        /\ (Len(s) + k) - Len(s) = k
    BY <1>2
  <2>2. (s \o t)[Len(s) + k] = t[k]
    BY <1>1, <2>1
  <2> QED
    BY <1>2, <2>1, <2>2 DEF ToSet
<1> QED
  BY <1>1, <1>3, <1>4, <1>5 DEF ToSet

LEMMA RestSet ==
  ASSUME NEW S, NEW s \in Seq(S), NEW k \in 1 .. Len(s) + 1
  PROVE  /\ SubSeq(s, k, Len(s)) \in Seq(S)
         /\ ToSet(SubSeq(s, k, Len(s))) = From(s, k)
<1> DEFINE n == Len(s)
           t == SubSeq(s, k, n)
<1>1. n \in Nat /\ DOMAIN s = 1 .. n /\ k \in 1 .. n + 1
  BY LenProperties
<1>2. \A j \in k .. n : s[j] \in S
  BY <1>1, ElementOfSeq
<1>3. k \in Int /\ n \in Int
  BY <1>1
<1>4. /\ t \in Seq(S)
      /\ Len(t) = IF k <= n THEN n - k + 1 ELSE 0
      /\ \A j \in 1 .. n - k + 1 : t[j] = s[k + j - 1]
  BY <1>2, <1>3, SubSeqProperties
<1>5. DOMAIN t = 1 .. n - k + 1
  BY <1>1, <1>4, LenProperties
<1> HIDE DEF n, t
<1>6. ASSUME NEW j \in 1 .. n - k + 1 PROVE t[j] \in {s[l] : l \in k .. n}
  <2>1. k + j - 1 \in k .. n
    BY <1>1
  <2> QED
    BY <1>4, <2>1
<1>7. ASSUME NEW j \in k .. n PROVE s[j] \in {t[l] : l \in 1 .. n - k + 1}
  <2>1. j - k + 1 \in 1 .. n - k + 1 /\ k + (j - k + 1) - 1 = j
    BY <1>1
  <2> QED
    BY <1>4, <2>1
<1>8. {t[l] : l \in 1 .. n - k + 1} = {s[l] : l \in k .. n}
  BY <1>6, <1>7
<1> QED
  BY <1>4, <1>5, <1>8 DEF ToSet, From, n, t

LEMMA WholeFrom ==
  ASSUME NEW S, NEW s \in Seq(S)
  PROVE  From(s, 1) = ToSet(s) /\ From(s, Len(s) + 1) = {}
BY LenProperties DEF From, ToSet

LEMMA NextFrom ==
  ASSUME NEW S, NEW s \in Seq(S), NEW k \in 1 .. Len(s)
  PROVE  From(s, k) = {s[k]} \cup From(s, k + 1)
<1>1. Len(s) \in Nat
  BY LenProperties
<1>2. k .. Len(s) = {k} \cup (k + 1 .. Len(s))
  BY <1>1
<1> QED
  BY <1>2 DEF From

LEMMA CoveredUnion ==
  ASSUME NEW P, NEW Q
  PROVE  Covered(P \cup Q) = Covered(P) \cup Covered(Q)
BY DEF Covered

LEMMA CoveredWith ==
  ASSUME NEW P, NEW p
  PROVE  Covered(P \cup {p}) = Covered(P) \cup Block(p)
BY DEF Covered

LEMMA CoveredNone == Covered(ToSet(<<>>)) = {}
BY DEF Covered, ToSet

-----------------------------------------------------------------------------
(* Siblings.                                                               *)

(* Two neighbours that canMerge accepts are the halves of their parent.    *)
LEMMA SiblingsAreHalves ==
  ASSUME NEW a \in Prefix, NEW b \in Prefix, canMerge(a, b), lastAddr(a) < b.addr
  PROVE  /\ Parent(a) \in Prefix
         /\ Block(Parent(a)) = Block(a) \cup Block(b)
         /\ Parent(a).addr = a.addr
         /\ lastAddr(Parent(a)) = lastAddr(b)
<1> DEFINE P == Parent(a)
           L == LowerHalf(P)
           U == UpperHalf(P)
<1>1. /\ a.bits = b.bits /\ a.bits # 0 /\ P = Parent(b)
      /\ a.bits \in 0 .. Width /\ a.bits - 1 \in 0 .. Width
      /\ a.addr \in Addr /\ b.addr \in Addr
  BY PrefixShape, WidthAssumption DEF canMerge
<1>2. P \in Prefix /\ P.bits = a.bits - 1 /\ a.addr \in Block(P)
  BY <1>1, MaskedIsPrefix DEF Parent
<1>3. b.addr \in Block(P)
  BY <1>1, MaskedIsPrefix DEF Parent
<1> HIDE DEF P
<1>4. P.bits # Width
  BY <1>1, <1>2, WidthAssumption
<1>5. /\ L \in Prefix /\ U \in Prefix
      /\ Block(P) = Block(L) \cup Block(U)
      /\ lastAddr(L) + 1 = U.addr /\ lastAddr(U) = lastAddr(P)
  BY <1>2, <1>4, Halves
<1>6. L.bits = a.bits /\ U.bits = a.bits /\ L.addr = P.addr
  BY <1>1, <1>2, WidthAssumption DEF LowerHalf, UpperHalf
<1> HIDE DEF L, U
<1>7. a.addr \in Block(a) /\ b.addr \in Block(b)
  BY LastIsAddr, PrefixShape DEF Block
<1>8. (a = L \/ a = U) /\ (b = L \/ b = U)
  BY <1>1, <1>2, <1>3, <1>5, <1>6, <1>7, SameLength
<1>9. /\ lastAddr(L) \in Int /\ lastAddr(U) \in Int /\ L.addr \in Int /\ U.addr \in Int
      /\ L.addr <= lastAddr(L) /\ U.addr <= lastAddr(U)
  BY <1>5, LastIsAddr, PrefixShape
<1>10. a = L /\ b = U
  BY <1>5, <1>8, <1>9
<1> QED
  BY <1>2, <1>5, <1>6, <1>10 DEF P

(* canMerge accepts the halves of a prefix.                                *)
LEMMA HalvesAreSiblings ==
  ASSUME NEW p \in Prefix, p.bits # Width
  PROVE  canMerge(LowerHalf(p), UpperHalf(p)) /\ Parent(LowerHalf(p)) = p
<1> DEFINE L == LowerHalf(p)
           U == UpperHalf(p)
<1>1. /\ L \in Prefix /\ U \in Prefix
      /\ Block(p) = Block(L) \cup Block(U)
  BY Halves
<1>2. /\ p.bits \in 0 .. Width
      /\ L.bits = p.bits + 1 /\ U.bits = p.bits + 1
      /\ L.addr \in Addr /\ U.addr \in Addr
  BY <1>1, PrefixShape DEF LowerHalf, UpperHalf
<1>3. L.addr \in Block(p) /\ U.addr \in Block(p)
  <2>1. L.addr \in Block(L) /\ U.addr \in Block(U)
    BY <1>1, LastIsAddr, PrefixShape DEF Block
  <2> QED
    BY <1>1, <2>1
<1> HIDE DEF L, U
<1>4. L.bits - 1 = p.bits /\ U.bits - 1 = p.bits /\ L.bits # 0 /\ L.bits = U.bits
  BY <1>2
<1>5. Parent(L) = p
  <2>1. /\ Masked(L.addr, p.bits) \in Prefix
        /\ Masked(L.addr, p.bits).bits = p.bits
        /\ L.addr \in Block(Masked(L.addr, p.bits))
    BY <1>2, MaskedIsPrefix
  <2> QED
    BY <1>3, <1>4, <2>1, SameLength DEF Parent
<1>6. Parent(U) = p
  <2>1. /\ Masked(U.addr, p.bits) \in Prefix
        /\ Masked(U.addr, p.bits).bits = p.bits
        /\ U.addr \in Block(Masked(U.addr, p.bits))
    BY <1>2, MaskedIsPrefix
  <2> QED
    BY <1>3, <1>4, <2>1, SameLength DEF Parent
<1> QED
  BY <1>4, <1>5, <1>6 DEF canMerge, L, U

-----------------------------------------------------------------------------
(* Minimal lists.                                                          *)

Ascending(s) == \A j, k \in 1 .. Len(s) : j < k => lastAddr(s[j]) < s[k].addr

NoSiblings(s) == \A k \in 1 .. Len(s) - 1 : ~canMerge(s[k], s[k + 1])

LEMMA OneBlockEach ==
  ASSUME NEW s \in Seq(Prefix), Ascending(s),
         NEW j \in 1 .. Len(s), NEW k \in 1 .. Len(s),
         NEW x \in Block(s[j]), x \in Block(s[k])
  PROVE  j = k
<1>1. j \in Int /\ k \in Int /\ s[j] \in Prefix /\ s[k] \in Prefix
  BY ElementOfSeq
<1>2. /\ x \in Int
      /\ s[j].addr \in Int /\ lastAddr(s[j]) \in Int
      /\ s[k].addr \in Int /\ lastAddr(s[k]) \in Int
      /\ s[j].addr <= x /\ x <= lastAddr(s[j])
      /\ s[k].addr <= x /\ x <= lastAddr(s[k])
  BY <1>1, PrefixNumbers DEF Block
<1>3. ~(j < k)
  BY <1>2 DEF Ascending
<1>4. ~(k < j)
  BY <1>2 DEF Ascending
<1> QED
  BY <1>1, <1>3, <1>4

(* A prefix whose addresses a list without siblings covers is inside one   *)
(* of the list.                                                            *)
LEMMA CoveredInOne ==
  ASSUME NEW s \in Seq(Prefix), Ascending(s), NoSiblings(s),
         NEW q \in Prefix, Block(q) \subseteq Covered(ToSet(s))
  PROVE  \E k \in 1 .. Len(s) : Block(q) \subseteq Block(s[k])
<1> DEFINE A    == Covered(ToSet(s))
           T(p) == \E k \in 1 .. Len(s) : Block(p) \subseteq Block(s[k])
           S    == {d \in Nat : \A p \in Prefix :
                      Width - p.bits = d /\ Block(p) \subseteq A => T(p)}
<1>1. ASSUME NEW x \in A PROVE \E k \in 1 .. Len(s) : x \in Block(s[k])
  BY <1>1, LenProperties DEF Covered, ToSet
<1>2. \A p \in Prefix : p.addr \in Block(p)
  BY LastIsAddr, PrefixShape DEF Block
<1>3. 0 \in S
  <2> SUFFICES ASSUME NEW p \in Prefix, Width - p.bits = 0, Block(p) \subseteq A
               PROVE  T(p)
    OBVIOUS
  <2>1. p.bits = Width
    <3>1. p.bits \in 0 .. Width
      BY PrefixShape
    <3> QED
      BY <3>1, WidthAssumption
  <2>2. PICK k \in 1 .. Len(s) : p.addr \in Block(s[k])
    BY <1>1, <1>2
  <2>3. s[k] \in Prefix
    BY ElementOfSeq
  <2>4. s[k].bits <= p.bits
    BY <2>1, <2>3, PrefixNumbers
  <2> QED
    BY <1>2, <2>2, <2>3, <2>4, NestedBlocks
<1>4. ASSUME NEW d \in Nat, d \in S PROVE d + 1 \in S
  <2> SUFFICES ASSUME NEW p \in Prefix, Width - p.bits = d + 1, Block(p) \subseteq A,
                      ~ T(p)
               PROVE  FALSE
    OBVIOUS
  <2> DEFINE L == LowerHalf(p)
             U == UpperHalf(p)
  <2>1. p.bits \in 0 .. Width /\ p.bits # Width
    <3>1. p.bits \in 0 .. Width
      BY PrefixShape
    <3> QED
      BY <3>1, WidthAssumption
  <2>2. /\ L \in Prefix /\ U \in Prefix
        /\ Block(p) = Block(L) \cup Block(U)
        /\ lastAddr(L) + 1 = U.addr
        /\ L.bits = p.bits + 1 /\ U.bits = p.bits + 1
    <3>1. L.bits = p.bits + 1 /\ U.bits = p.bits + 1
      BY DEF LowerHalf, UpperHalf
    <3> QED
      BY <2>1, <3>1, Halves
  <2>3. canMerge(L, U)
    BY <2>1, HalvesAreSiblings
  <2> HIDE DEF L, U
  <2>4. Width - L.bits = d /\ Width - U.bits = d
    <3>1. p.bits \in Int /\ Width \in Int
      BY <2>1, PrefixNumbers, WidthAssumption
    <3>2. Width - p.bits = d + 1
      BY <2>1
    <3>3. L.bits = p.bits + 1 /\ U.bits = p.bits + 1
      BY <2>2
    <3> QED
      BY <3>1, <3>2, <3>3
  <2>5. PICK j \in 1 .. Len(s) : Block(L) \subseteq Block(s[j])
    BY <1>4, <2>2, <2>4
  <2>6. PICK k \in 1 .. Len(s) : Block(U) \subseteq Block(s[k])
    BY <1>4, <2>2, <2>4
  <2>7. s[j] \in Prefix /\ s[k] \in Prefix
    BY ElementOfSeq
  \* A prefix of the list that has half of p and not p is that half.
  <2>8. ASSUME NEW h \in {L, U}, NEW l \in 1 .. Len(s),
               Block(h) \subseteq Block(s[l])
        PROVE  s[l] = h
    <3>1. h \in Prefix /\ s[l] \in Prefix /\ h.bits = p.bits + 1
      BY <2>2, ElementOfSeq
    <3>2. h.addr \in Block(p) /\ h.addr \in Block(s[l])
      BY <1>2, <2>2, <2>8, <3>1
    <3>3. ~(s[l].bits <= p.bits)
      BY <3>1, <3>2, NestedBlocks
    <3>4. h = s[l] \/ s[l].bits < h.bits
      BY <2>8, <3>1, InsideIsLonger
    <3>5. s[l].bits \in Int /\ p.bits \in Int
      BY <3>1, PrefixNumbers
    <3> QED
      BY <3>1, <3>3, <3>4, <3>5
  <2>9. s[j] = L /\ s[k] = U
    BY <2>5, <2>6, <2>8
  <2>10. /\ L.addr \in Int /\ lastAddr(L) \in Int /\ L.addr <= lastAddr(L)
         /\ U.addr \in Int /\ lastAddr(U) \in Int /\ U.addr <= lastAddr(U)
    <3>1. L \in Prefix /\ U \in Prefix
      BY <2>2
    <3>2. /\ L.addr \in Nat /\ lastAddr(L) \in Nat /\ L.addr <= lastAddr(L)
          /\ U.addr \in Nat /\ lastAddr(U) \in Nat /\ U.addr <= lastAddr(U)
      BY <3>1, PrefixNumbers
    <3> QED
      BY <3>2
  <2>11. j < k
    <3>1. ~(k < j) /\ j # k
      BY <2>2, <2>9, <2>10 DEF Ascending
    <3> QED
      BY <3>1
  <2>12. k = j + 1
    <3> SUFFICES ASSUME j + 1 < k PROVE FALSE
      BY <2>11
    <3>1. j + 1 \in 1 .. Len(s) /\ j < j + 1
      BY LenProperties
    <3>2. s[j + 1] \in Prefix
      BY <3>1, ElementOfSeq
    <3>3. lastAddr(L) < s[j + 1].addr /\ lastAddr(s[j + 1]) < U.addr
      BY <2>9, <3>1 DEF Ascending
    <3>4. s[j + 1].addr \in Int /\ lastAddr(s[j + 1]) \in Int
          /\ s[j + 1].addr <= lastAddr(s[j + 1])
      BY <3>2, PrefixNumbers
    <3> QED
      BY <2>2, <2>10, <3>3, <3>4
  <2>13. j \in 1 .. Len(s) - 1
    BY <2>12, LenProperties
  <2> QED
    BY <2>3, <2>9, <2>12, <2>13 DEF NoSiblings
<1>5. Width - q.bits \in Nat
  BY PrefixShape, WidthAssumption
<1>6. Width - q.bits \in S
  <2> HIDE DEF S
  <2> QED
    BY <1>3, <1>4, <1>5, SetInduction
<1> QED
  BY <1>6

LEMMA MinimalList ==
  ASSUME NEW s \in Seq(Prefix), Ascending(s), NoSiblings(s)
  PROVE  ToSet(s) = MinimalCover(Covered(ToSet(s)))
<1> DEFINE A == Covered(ToSet(s))
<1>1. ToSet(s) = {s[k] : k \in 1 .. Len(s)}
  BY LenProperties DEF ToSet
<1>2. \A k \in 1 .. Len(s) : s[k] \in Prefix /\ Block(s[k]) \subseteq A
  BY <1>1, ElementOfSeq DEF Covered
<1>3. ASSUME NEW k \in 1 .. Len(s), NEW q \in Prefix,
             Block(q) \subseteq A, Block(s[k]) \subseteq Block(q)
      PROVE  q = s[k]
  <2>1. PICK j \in 1 .. Len(s) : Block(q) \subseteq Block(s[j])
    BY <1>3, CoveredInOne
  <2>2. s[k].addr \in Block(s[k])
    BY <1>2, PrefixNumbers
  <2>3. j = k
    BY <1>3, <2>1, <2>2, OneBlockEach
  <2>4. Block(q) = Block(s[k])
    BY <1>3, <2>1, <2>3
  <2> QED
    BY <1>2, <2>4, BlockDetermines
<1>4. ASSUME NEW q \in Prefix, Block(q) \subseteq A,
             \A p \in Prefix : Block(p) \subseteq A /\ Block(q) \subseteq Block(p) => p = q
      PROVE  q \in ToSet(s)
  <2>1. PICK j \in 1 .. Len(s) : Block(q) \subseteq Block(s[j])
    BY <1>4, CoveredInOne
  <2> QED
    BY <1>1, <1>2, <1>4, <2>1
<1> HIDE DEF A
<1>5. ASSUME NEW p \in ToSet(s) PROVE p \in MinimalCover(A)
  BY <1>1, <1>2, <1>3 DEF MinimalCover
<1>6. ASSUME NEW p \in MinimalCover(A) PROVE p \in ToSet(s)
  BY <1>4 DEF MinimalCover
<1> QED
  BY <1>5, <1>6 DEF A

-----------------------------------------------------------------------------
(* Sorting.                                                                *)

InOrder(s) == \A j, k \in 1 .. Len(s) : j < k => ~Before(s[k], s[j])

LEMMA BeforeOrders ==
  ASSUME NEW p \in Prefix, NEW q \in Prefix, NEW r \in Prefix
  PROVE  /\ ~Before(p, p)
         /\ Before(p, q) /\ Before(q, r) => Before(p, r)
         /\ Before(p, q) \/ Before(q, p) \/ p = q
<1>1. /\ p.addr \in Nat /\ q.addr \in Nat /\ r.addr \in Nat
      /\ p.bits \in Nat /\ q.bits \in Nat /\ r.bits \in Nat
  BY PrefixNumbers
<1>2. p.addr = q.addr /\ p.bits = q.bits => p = q
  BY DEF Prefix
<1> QED
  BY <1>1, <1>2 DEF Before

(* The elements not behind the k-th one, which Rank counts.                *)
NotBehind(s, k) == {j \in DOMAIN s : Before(s[j], s[k]) \/ (s[j] = s[k] /\ j <= k)}

LEMMA RankIsOneToOne ==
  ASSUME NEW s \in Seq(Prefix)
  PROVE  /\ \A k \in 1 .. Len(s) : Rank(s, k) \in 1 .. Len(s)
         /\ \A j, k \in 1 .. Len(s) :
              j \in NotBehind(s, k) /\ j # k => Rank(s, j) < Rank(s, k)
         /\ \A j, k \in 1 .. Len(s) : j \in NotBehind(s, k) \/ k \in NotBehind(s, j)
<1> DEFINE n == Len(s)
<1>1. n \in Nat /\ DOMAIN s = 1 .. n /\ \A k \in 1 .. n : s[k] \in Prefix
  BY LenProperties, ElementOfSeq
<1>2. IsFiniteSet(1 .. n)
  BY <1>1, FS_Interval
<1>3. \A k \in 1 .. n : /\ NotBehind(s, k) \in SUBSET (1 .. n)
                        /\ k \in NotBehind(s, k)
                        /\ Rank(s, k) = Cardinality(NotBehind(s, k))
  BY <1>1 DEF NotBehind, Rank
<1> HIDE DEF n
<1>4. ASSUME NEW k \in 1 .. n PROVE Rank(s, k) \in 1 .. n
  <2>1. /\ IsFiniteSet(NotBehind(s, k))
        /\ Cardinality(NotBehind(s, k)) <= n
    <3>1. Cardinality(1 .. n) = n
      <4>1. 1 \in Int /\ n \in Int /\ (1 <= n => n - 1 + 1 = n) /\ (1 > n => n = 0)
        BY <1>1
      <4> QED
        BY <4>1, FS_Interval
    <3> QED
      BY <1>2, <1>3, <3>1, FS_Subset
  <2>2. Cardinality(NotBehind(s, k)) \in Nat /\ Cardinality(NotBehind(s, k)) # 0
    BY <1>3, <2>1, FS_CardinalityType, FS_EmptySet
  <2> QED
    BY <1>1, <1>3, <2>1, <2>2
<1>5. ASSUME NEW j \in 1 .. n, NEW k \in 1 .. n, j \in NotBehind(s, k), j # k
      PROVE  Rank(s, j) < Rank(s, k)
  <2>1. NotBehind(s, j) \subseteq NotBehind(s, k)
    <3> SUFFICES ASSUME NEW l \in NotBehind(s, j) PROVE l \in NotBehind(s, k)
      OBVIOUS
    <3>1. l \in 1 .. n /\ s[l] \in Prefix /\ s[j] \in Prefix /\ s[k] \in Prefix
      BY <1>1, <1>3
    <3>2. /\ Before(s[l], s[j]) \/ (s[l] = s[j] /\ l <= j)
          /\ Before(s[j], s[k]) \/ (s[j] = s[k] /\ j <= k)
      BY <1>5 DEF NotBehind
    <3>3. Before(s[l], s[j]) /\ Before(s[j], s[k]) => Before(s[l], s[k])
      BY <3>1, BeforeOrders
    <3>4. l <= j /\ j <= k => l <= k
      BY <1>1, <3>1
    <3>5. Before(s[l], s[k]) \/ (s[l] = s[k] /\ l <= k)
      BY <3>2, <3>3, <3>4
    <3> QED
      BY <1>1, <3>1, <3>5 DEF NotBehind
  <2>2. k \notin NotBehind(s, j)
    <3>1. s[j] \in Prefix /\ s[k] \in Prefix
      BY <1>1
    <3>2. Before(s[j], s[k]) \/ (s[j] = s[k] /\ j <= k)
      BY <1>5 DEF NotBehind
    <3>3. ~Before(s[j], s[j]) /\ ~Before(s[k], s[k])
      BY <3>1, BeforeOrders
    <3>4. Before(s[j], s[k]) /\ Before(s[k], s[j]) => Before(s[j], s[j])
      BY <3>1, BeforeOrders
    <3>5. ~(j <= k /\ k <= j)
      BY <1>1, <1>5
    <3>6. ~(Before(s[k], s[j]) \/ (s[k] = s[j] /\ k <= j))
      BY <3>2, <3>3, <3>4, <3>5
    <3> QED
      BY <3>6 DEF NotBehind
  <2>3. IsFiniteSet(NotBehind(s, k)) /\ IsFiniteSet(NotBehind(s, j))
    BY <1>2, <1>3, FS_Subset
  <2>4. /\ Cardinality(NotBehind(s, j)) <= Cardinality(NotBehind(s, k))
        /\ Cardinality(NotBehind(s, k)) = Cardinality(NotBehind(s, j))
             => NotBehind(s, k) = NotBehind(s, j)
    BY <2>1, <2>3, FS_Subset
  <2>5. Cardinality(NotBehind(s, k)) # Cardinality(NotBehind(s, j))
    BY <1>3, <2>2, <2>4
  <2>6. /\ Cardinality(NotBehind(s, j)) \in Nat
        /\ Cardinality(NotBehind(s, k)) \in Nat
    BY <2>3, FS_CardinalityType
  <2> QED
    BY <1>3, <2>4, <2>5, <2>6
<1>6. ASSUME NEW j \in 1 .. n, NEW k \in 1 .. n
      PROVE  j \in NotBehind(s, k) \/ k \in NotBehind(s, j)
  <2>1. Before(s[j], s[k]) \/ Before(s[k], s[j]) \/ s[j] = s[k]
    BY <1>1, BeforeOrders
  <2>2. j <= k \/ k <= j
    BY <1>1
  <2> QED
    BY <1>1, <2>1, <2>2 DEF NotBehind
<1> QED
  BY <1>4, <1>5, <1>6 DEF n

LEMMA SortedList ==
  ASSUME NEW s \in Seq(Prefix)
  PROVE  /\ Sorted(s) \in Seq(Prefix)
         /\ Len(Sorted(s)) = Len(s)
         /\ ToSet(Sorted(s)) = ToSet(s)
         /\ InOrder(Sorted(s))
<1> DEFINE n    == Len(s)
           rank == [k \in 1 .. n |-> Rank(s, k)]
           at   == [m \in 1 .. n |-> CHOOSE k \in 1 .. n : rank[k] = m]
           t    == [m \in 1 .. n |-> s[at[m]]]
<1>1. n \in Nat /\ DOMAIN s = 1 .. n /\ \A k \in 1 .. n : s[k] \in Prefix
  BY LenProperties, ElementOfSeq
<1>2. Sorted(s) = t
  BY <1>1 DEF Sorted
<1>3. rank \in Injection(1 .. n, 1 .. n)
  <2>1. rank \in [1 .. n -> 1 .. n]
    BY RankIsOneToOne
  <2>2. ASSUME NEW j \in 1 .. n, NEW k \in 1 .. n, rank[j] = rank[k] PROVE j = k
    <3>1. Rank(s, j) = Rank(s, k) /\ Rank(s, j) \in 1 .. n
      BY <2>2, RankIsOneToOne
    <3>2. ~(Rank(s, j) < Rank(s, k)) /\ ~(Rank(s, k) < Rank(s, j))
      BY <3>1
    <3> QED
      BY <3>2, RankIsOneToOne
  <2> QED
    BY <2>1, <2>2 DEF Injection, IsInjective
<1>4. rank \in Surjection(1 .. n, 1 .. n)
  <2>1. IsFiniteSet(1 .. n)
    BY <1>1, FS_Interval
  <2> HIDE DEF rank
  <2> QED
    BY <1>3, <2>1, FS_Injection
<1>5. \A m \in 1 .. n : \E k \in 1 .. n : rank[k] = m
  <2> HIDE DEF rank
  <2> QED
    BY <1>4 DEF Surjection
<1>6. \A m \in 1 .. n : at[m] \in 1 .. n /\ rank[at[m]] = m
  <2> HIDE DEF rank
  <2> QED
    BY <1>5
<1>7. \A k \in 1 .. n : rank[k] \in 1 .. n /\ at[rank[k]] = k
  <2>1. \A j, k \in 1 .. n : rank[j] = rank[k] => j = k
    <3> HIDE DEF rank
    <3> QED
      BY <1>3 DEF Injection, IsInjective
  <2>2. \A k \in 1 .. n : rank[k] \in 1 .. n
    BY RankIsOneToOne
  <2> HIDE DEF rank, at
  <2> QED
    BY <1>6, <2>1, <2>2
<1>8. /\ t \in Seq(Prefix) /\ Len(t) = n /\ DOMAIN t = 1 .. n
      /\ \A m \in 1 .. n : t[m] = s[at[m]]
  <2> HIDE DEF at
  <2>1. t \in [1 .. n -> Prefix]
    BY <1>1, <1>6
  <2>2. t \in Seq(Prefix)
    BY <1>1, <2>1, SeqDef
  <2>3. DOMAIN t = 1 .. n
    OBVIOUS
  <2>4. Len(t) = n
    BY <1>1, <2>2, <2>3, LenProperties
  <2> QED
    BY <2>2, <2>3, <2>4
<1>9. ToSet(t) = ToSet(s)
  <2>1. ASSUME NEW k \in 1 .. n PROVE \E m \in 1 .. n : t[m] = s[k]
    <3> HIDE DEF t, at, rank
    <3>1. rank[k] \in 1 .. n /\ at[rank[k]] = k
      BY <1>7
    <3>2. t[rank[k]] = s[k]
      BY <1>8, <3>1
    <3> QED
      BY <3>1, <3>2
  <2>2. ASSUME NEW m \in 1 .. n PROVE \E k \in 1 .. n : t[m] = s[k]
    <3> HIDE DEF t, at, rank
    <3> QED
      BY <1>6, <1>8
  <2>3. DOMAIN t = 1 .. n /\ DOMAIN s = 1 .. n
    BY <1>1, <1>8
  <2> HIDE DEF t, n
  <2>4. ToSet(t) = {t[m] : m \in 1 .. n} /\ ToSet(s) = {s[k] : k \in 1 .. n}
    BY <2>3 DEF ToSet
  <2> QED
    BY <2>1, <2>2, <2>4
<1>10. InOrder(t)
  <2> SUFFICES ASSUME NEW j \in 1 .. n, NEW k \in 1 .. n, j < k, Before(t[k], t[j])
               PROVE  FALSE
    BY <1>8 DEF InOrder
  <2>1. at[j] \in 1 .. n /\ at[k] \in 1 .. n /\ Before(s[at[k]], s[at[j]])
    BY <1>6, <1>8
  <2>2. at[k] \in NotBehind(s, at[j])
    BY <1>1, <2>1 DEF NotBehind
  <2>3. Rank(s, at[j]) = j /\ Rank(s, at[k]) = k
    BY <1>6
  <2> HIDE DEF at
  <2>4. at[k] # at[j]
    BY <2>3, <2>1
  <2>5. Rank(s, at[k]) < Rank(s, at[j])
    BY <2>1, <2>2, <2>4, RankIsOneToOne
  <2> QED
    BY <2>3, <2>5
<1> HIDE DEF t
<1> QED
  BY <1>2, <1>8, <1>9, <1>10

LEMMA AscendingAppend ==
  ASSUME NEW s \in Seq(Prefix), NEW p \in Prefix, Ascending(s),
         \A k \in 1 .. Len(s) : lastAddr(s[k]) < p.addr
  PROVE  Ascending(Append(s, p))
<1>1. /\ Len(s) \in Nat /\ Len(Append(s, p)) = Len(s) + 1
      /\ \A k \in 1 .. Len(s) : Append(s, p)[k] = s[k]
      /\ Append(s, p)[Len(s) + 1] = p
  BY AppendedSet, LenProperties
<1> QED
  BY <1>1 DEF Ascending

-----------------------------------------------------------------------------
(* rangeToCIDR.                                                            *)

(* The operators of the instance are those of this module.                 *)
LEMMA SplitSizes == \A n : Split!Size(n) = Size(n)
BY Zenon DEF Split!Size, Size

LEMMA SplitOperators ==
  /\ Split!Addr = Addr
  /\ Split!Prefix = Prefix
  /\ Split!Invalid = Invalid
  /\ \A a, n : Split!Masked(a, n) = Masked(a, n)
  /\ \A p : Split!lastAddr(p) = lastAddr(p)
  /\ \A a : Split!NextAddr(a) = NextAddr(a)
<1>1. Split!Addr = Addr /\ Split!Invalid = Invalid
  BY SplitSizes DEF Split!Addr, Addr, Split!Invalid, Invalid
<1>2. Split!Prefix = Prefix
  BY <1>1, SplitSizes DEF Split!Prefix, Prefix
<1>3. \A a, n : Split!Masked(a, n) = Masked(a, n)
  BY SplitSizes DEF Split!Masked, Masked
<1>4. \A p : Split!lastAddr(p) = lastAddr(p)
  BY SplitSizes DEF Split!lastAddr, lastAddr
<1>5. \A a : Split!NextAddr(a) = NextAddr(a)
  BY <1>1 DEF Split!NextAddr, NextAddr
<1> QED
  BY <1>1, <1>2, <1>3, <1>4, <1>5

LEMMA SplitCovers ==
  /\ \A ps : Split!Covered(ps) = Covered(ps)
  /\ \A addrs : Split!MinimalCover(addrs) = MinimalCover(addrs)
  /\ Split!Emitted = ToSet(out)
<1>1. \A p : Split!Block(p) = Block(p)
  BY SplitOperators DEF Split!Block, Block
<1>2. \A ps : Split!Covered(ps) = Covered(ps)
  BY <1>1 DEF Split!Covered, Covered
<1>3. \A addrs : Split!MinimalCover(addrs) = MinimalCover(addrs)
  BY <1>1, SplitOperators DEF Split!MinimalCover, MinimalCover
<1>4. Split!Emitted = ToSet(out)
  BY DEF Split!Emitted, ToSet
<1> QED
  BY <1>2, <1>3, <1>4

RangeTypeOK ==
  /\ lo \in Addr /\ hi \in Addr
  /\ start \in Addr
  /\ mask \in 0 .. Width
  /\ out \in Seq(Prefix)
  /\ rpc \in {"outer", "widen", "done"}

LEMMA RangeTypes == (Split!TypeOK <=> RangeTypeOK) /\ (Split!TypeOK <=> RangeTypeOK)'
BY SplitOperators DEF Split!TypeOK, RangeTypeOK

(* A prefix of the range that could not be one bit shorter.                *)
Widest(p) ==
  /\ lastAddr(p) <= hi
  /\ p.bits # 0 => ~(Parent(p).addr = p.addr /\ lastAddr(Parent(p)) <= hi)

RangeInv ==
  /\ rpc # "done" => lo <= start /\ (start <= hi + 1 \/ start = lo)
  /\ rpc # "done" => Covered(ToSet(out)) = lo .. start - 1
  /\ rpc = "done" => Covered(ToSet(out)) = lo .. hi
  /\ rpc = "widen" => /\ start <= hi
                      /\ Masked(start, mask).addr = start
                      /\ lastAddr(Masked(start, mask)) <= hi
  /\ Ascending(out)
  /\ rpc # "done" => \A k \in 1 .. Len(out) : lastAddr(out[k]) < start
  /\ \A k \in 1 .. Len(out) : Widest(out[k])

(* One address is the whole of a prefix of the full length.                *)
LEMMA MaskedFully ==
  ASSUME NEW a \in Addr
  PROVE  Masked(a, Width).addr = a /\ lastAddr(Masked(a, Width)) = a
<1> DEFINE p == Masked(a, Width)
<1>1. Width \in 0 .. Width
  BY WidthAssumption
<1>2. p \in Prefix /\ p.bits = Width /\ a \in Block(p)
  BY <1>1, MaskedIsPrefix
<1> HIDE DEF p
<1>3. lastAddr(p) = p.addr + 1 - 1
  BY <1>2, SizeOne DEF lastAddr
<1>4. p.addr \in Nat /\ p.addr <= a /\ a <= lastAddr(p) /\ a \in Int
  BY <1>2, PrefixNumbers DEF Block
<1>5. p.addr = a /\ lastAddr(p) = a
  BY <1>3, <1>4
<1> QED
  BY <1>5 DEF p

LEMMA RangeInit == Split!Init => RangeTypeOK /\ RangeInv
<1> SUFFICES ASSUME Split!Init PROVE RangeTypeOK /\ RangeInv
  OBVIOUS
<1> USE DEF RangeTypeOK, Split!Init
<1>1. RangeTypeOK
  BY SplitOperators, WidthAssumption
<1>2. lo \in Nat /\ hi \in Nat
  BY AddrIsNat, SplitOperators
<1>3. Covered(ToSet(out)) = {} /\ lo .. lo - 1 = {}
  <2>1. lo .. lo - 1 = {}
    BY <1>2
  <2>2. out = <<>>
    OBVIOUS
  <2> QED
    BY <2>1, <2>2, CoveredNone, Zenon
<1>4. Len(out) = 0
  OBVIOUS
<1>5. Ascending(out) /\ \A k \in 1 .. Len(out) : FALSE
  BY <1>4 DEF Ascending
<1> QED
  BY <1>1, <1>2, <1>3, <1>5 DEF RangeInv

LEMMA RangeReturns ==
  ASSUME RangeTypeOK, RangeInv, Split!Return
  PROVE  RangeTypeOK' /\ RangeInv'
<1> USE DEF RangeTypeOK, Split!Return
<1>1. RangeTypeOK'
  OBVIOUS
<1>2. lo \in Nat /\ hi \in Nat /\ start \in Nat
  BY AddrIsNat
<1>3. lo .. start - 1 = lo .. hi
  BY <1>2 DEF RangeInv
<1> QED
  BY <1>1, <1>3 DEF RangeInv, Widest

LEMMA RangeBegins ==
  ASSUME RangeTypeOK, RangeInv, Split!BeginPrefix
  PROVE  RangeTypeOK' /\ RangeInv'
<1> USE DEF RangeTypeOK, Split!BeginPrefix
<1>1. RangeTypeOK'
  BY SplitOperators, WidthAssumption
<1>2. Masked(start, Width).addr = start /\ lastAddr(Masked(start, Width)) <= hi
  BY MaskedFully
<1> QED
  BY <1>1, <1>2 DEF RangeInv, Widest

LEMMA RangeWidens ==
  ASSUME RangeTypeOK, RangeInv, Split!Widen
  PROVE  RangeTypeOK' /\ RangeInv'
<1> USE DEF RangeTypeOK, Split!Widen, Split!Widens
<1>1. RangeTypeOK'
  BY SplitOperators, WidthAssumption
<1> QED
  BY <1>1, SplitOperators DEF RangeInv, Widest

LEMMA RangeAppends ==
  ASSUME RangeTypeOK, RangeInv, Split!AppendPrefix
  PROVE  RangeTypeOK' /\ RangeInv'
<1> DEFINE p    == Masked(start, mask)
           last == lastAddr(p)
           next == NextAddr(last)
<1>1. /\ lo \in Nat /\ hi \in Nat /\ start \in Nat /\ hi \in Addr /\ lo \in Addr
      /\ start \in Addr /\ mask \in 0 .. Width /\ out \in Seq(Prefix)
  BY AddrIsNat DEF RangeTypeOK
<1>2. /\ p \in Prefix /\ p.bits = mask /\ p.addr = start /\ last <= hi /\ start <= hi
      /\ last \in Nat /\ start <= last
  <2>1. p \in Prefix /\ p.bits = mask
    BY <1>1, MaskedIsPrefix
  <2>2. p.addr = start /\ last <= hi /\ start <= hi
    BY DEF RangeInv, Split!AppendPrefix
  <2> QED
    BY <2>1, <2>2, PrefixNumbers
<1>3. /\ rpc = "widen" /\ UNCHANGED <<lo, hi, mask>> /\ ~Split!Widens
      /\ out' = Append(out, p)
      /\ IF next = Invalid THEN rpc' = "done" /\ UNCHANGED start
                           ELSE rpc' = "outer" /\ start' = next
  BY SplitOperators DEF Split!AppendPrefix
<1>4. Widest(p)
  <2>1. Parent(p) = Masked(start, mask - 1)
    BY <1>2 DEF Parent
  <2>2. ~(/\ mask > 0
          /\ Masked(start, mask - 1).addr = start
          /\ lastAddr(Masked(start, mask - 1)) <= hi)
    BY <1>3, SplitOperators DEF Split!Widens
  <2>3. mask # 0 => mask > 0
    BY <1>1, WidthAssumption
  <2> HIDE DEF p
  <2> QED
    BY <1>2, <2>1, <2>2, <2>3 DEF Widest
<1> HIDE DEF p, last, next
<1>5. /\ out' \in Seq(Prefix)
      /\ Len(out') = Len(out) + 1 /\ Len(out) \in Nat
      /\ \A k \in 1 .. Len(out) : out'[k] = out[k]
      /\ out'[Len(out) + 1] = p
      /\ ToSet(out') = ToSet(out) \cup {p}
  BY <1>1, <1>2, <1>3, AppendedSet, LenProperties
<1>6. Ascending(out')
  BY <1>1, <1>2, <1>3, AscendingAppend DEF RangeInv
<1>7. \A k \in 1 .. Len(out') : Widest(out'[k])
  BY <1>4, <1>5 DEF RangeInv
<1>8. \A q : Widest(q) <=> Widest(q)'
  BY <1>3 DEF Widest
<1>9. Covered(ToSet(out')) = lo .. last
  <2>1. Covered(ToSet(out')) = Covered(ToSet(out)) \cup Block(p)
    BY <1>5, CoveredWith
  <2>2. Covered(ToSet(out)) = lo .. start - 1 /\ lo <= start
    BY <1>3 DEF RangeInv
  <2>3. Block(p) = start .. last
    BY <1>2 DEF Block, last
  <2> QED
    BY <1>1, <1>2, <2>1, <2>2, <2>3
<1>10. \A k \in 1 .. Len(out') : lastAddr(out'[k]) <= last
  <2>1. \A k \in 1 .. Len(out) : lastAddr(out[k]) < start /\ lastAddr(out[k]) \in Nat
    BY <1>1, <1>3, ElementOfSeq, PrefixNumbers DEF RangeInv
  <2>2. lastAddr(p) = last
    BY DEF last
  <2>3. \A k \in 1 .. Len(out) : lastAddr(out[k]) <= last
    BY <1>1, <1>2, <2>1
  <2>4. last <= last
    BY <1>2
  <2> QED
    BY <1>5, <2>2, <2>3, <2>4
<1>11. CASE last + 1 \in Addr
  <2>1. next = last + 1 /\ next # Invalid
    BY <1>2, <1>11 DEF NextAddr, Invalid, next
  <2>2. rpc' = "outer" /\ start' = last + 1
    BY <1>3, <2>1
  <2>3. RangeTypeOK'
    BY <1>1, <1>3, <1>5, <1>11, <2>2 DEF RangeTypeOK
  <2>4. /\ lo <= start' /\ start' <= hi + 1
        /\ start' - 1 = last
    BY <1>1, <1>2, <2>2, RangeInv, <1>3 DEF RangeInv
  <2>5. \A k \in 1 .. Len(out') : lastAddr(out'[k]) < start'
    <3>1. \A k \in 1 .. Len(out') : lastAddr(out'[k]) \in Nat
      BY <1>5, ElementOfSeq, PrefixNumbers
    <3> QED
      BY <1>2, <1>10, <2>2, <3>1
  <2>6. RangeInv'
    BY <1>3, <1>6, <1>7, <1>8, <1>9, <2>2, <2>4, <2>5 DEF RangeInv
  <2> QED
    BY <2>3, <2>6
<1>12. CASE last + 1 \notin Addr
  <2>1. next = Invalid
    BY <1>12 DEF NextAddr, next
  <2>2. rpc' = "done" /\ start' = start
    BY <1>3, <2>1
  <2>3. RangeTypeOK'
    BY <1>1, <1>3, <1>5, <2>2 DEF RangeTypeOK
  <2>4. last = hi
    <3>1. Size(0) \in Nat /\ hi <= Size(0) - 1
      BY <1>1, SizeIsNat, WidthAssumption DEF Addr
    <3> QED
      BY <1>1, <1>2, <1>12, <3>1 DEF Addr
  <2>5. RangeInv'
    BY <1>3, <1>6, <1>7, <1>8, <1>9, <2>2, <2>4 DEF RangeInv
  <2> QED
    BY <2>3, <2>5
<1> QED
  BY <1>11, <1>12

(* No two neighbours are siblings: the first would have been widened.      *)
LEMMA RangeIsMinimal ==
  ASSUME RangeTypeOK, RangeInv, rpc = "done"
  PROVE  /\ ToSet(out) = MinimalCover(lo .. hi)
         /\ Ascending(out)
<1>1. out \in Seq(Prefix) /\ Ascending(out) /\ Covered(ToSet(out)) = lo .. hi
  BY DEF RangeTypeOK, RangeInv
<1>2. NoSiblings(out)
  <2> SUFFICES ASSUME NEW k \in 1 .. Len(out) - 1, canMerge(out[k], out[k + 1])
               PROVE  FALSE
    BY DEF NoSiblings
  <2> DEFINE a == out[k]
             b == out[k + 1]
  <2>1. k \in 1 .. Len(out) /\ k + 1 \in 1 .. Len(out) /\ k < k + 1
    BY <1>1, LenProperties
  <2>2. a \in Prefix /\ b \in Prefix /\ Widest(a) /\ Widest(b) /\ lastAddr(a) < b.addr
    BY <1>1, <2>1, ElementOfSeq DEF RangeInv, Ascending
  <2>3. Parent(a).addr = a.addr /\ lastAddr(Parent(a)) = lastAddr(b)
    BY <2>2, SiblingsAreHalves
  <2>4. a.bits # 0
    BY DEF canMerge
  <2> HIDE DEF a, b
  <2> QED
    BY <2>2, <2>3, <2>4 DEF Widest
<1> QED
  BY <1>1, <1>2, MinimalList

-----------------------------------------------------------------------------
(* aggregate.                                                              *)

AggregateTypeOK ==
  /\ TypeOK
  /\ pc = "dedup" => Len(deduped) <= i - 1
  /\ pc = "pass" => Len(merged) <= i - 1
  /\ pc \in {"pass", "done"} => Len(deduped) <= Len(given)

(* What has been kept so far stands before what is still to come.          *)
DedupInv ==
  pc = "dedup" =>
    /\ merged = <<>> /\ changed = FALSE
    /\ InOrder(given)
    /\ Ascending(deduped)
    /\ \A j \in 1 .. Len(deduped), k \in i .. Len(given) : ~Before(given[k], deduped[j])
    /\ Covered(ToSet(deduped)) \cup Covered(From(given, i)) = Covered(ToSet(given))

(* A pass that has changed nothing has copied, and has seen no siblings.   *)
PassInv ==
  pc = "pass" =>
    /\ Ascending(deduped) /\ Ascending(merged)
    /\ \A j \in 1 .. Len(merged), k \in i .. Len(deduped) :
         lastAddr(merged[j]) < deduped[k].addr
    /\ Covered(ToSet(merged)) \cup Covered(From(deduped, i)) = Covered(ToSet(given))
    /\ ~changed => /\ Len(merged) = i - 1
                   /\ \A k \in 1 .. i - 1 : merged[k] = deduped[k]
                   /\ \A k \in 1 .. i - 1 : k + 1 <= Len(deduped)
                        => ~canMerge(deduped[k], deduped[k + 1])

DoneInv ==
  pc = "done" =>
    /\ Ascending(deduped) /\ NoSiblings(deduped)
    /\ Covered(ToSet(deduped)) = Covered(ToSet(given))

AggregateInv ==
  /\ AggregateTypeOK
  /\ pc = "sort" => deduped = <<>> /\ merged = <<>> /\ i = 1 /\ changed = FALSE
  /\ DedupInv /\ PassInv /\ DoneInv

LEMMA SortStep ==
  ASSUME AggregateInv, Sort
  PROVE  AggregateInv' /\ Covered(ToSet(given)) = Covered(ToSet(given'))
<1>1. /\ pc = "sort" /\ pc' = "dedup" /\ given' = Sorted(given)
      /\ deduped = <<>> /\ deduped' = <<>> /\ merged' = <<>>
      /\ i = 1 /\ i' = 1 /\ changed' = FALSE
      /\ given \in Seq(Prefix)
  BY DEF Sort, AggregateInv, AggregateTypeOK, TypeOK
<1>2. /\ given' \in Seq(Prefix) /\ Len(given') = Len(given)
      /\ ToSet(given') = ToSet(given) /\ InOrder(given')
  BY <1>1, SortedList
<1>3. Len(deduped') = 0 /\ Len(given') \in Nat /\ deduped' \in Seq(Prefix)
      /\ merged' \in Seq(Prefix)
  BY <1>1, <1>2, LenProperties
<1>4. AggregateTypeOK'
  <2>1. i' \in 1 .. Len(given') + 1 /\ Len(deduped') <= i' - 1
    BY <1>1, <1>3
  <2>2. TypeOK'
    BY <1>1, <1>2, <1>3, <2>1 DEF TypeOK
  <2> QED
    BY <1>1, <2>1, <2>2 DEF AggregateTypeOK
<1>5. Covered(ToSet(deduped')) \cup Covered(From(given', i')) = Covered(ToSet(given'))
  <2>1. From(given', i') = ToSet(given')
    BY <1>1, <1>2, WholeFrom
  <2>2. Covered(ToSet(deduped')) = {}
    BY <1>1, CoveredNone, Zenon
  <2> QED
    BY <2>1, <2>2
<1>6. Ascending(deduped')
  BY <1>3 DEF Ascending
<1>7. DedupInv'
  BY <1>1, <1>2, <1>3, <1>5, <1>6 DEF DedupInv
<1>8. PassInv' /\ DoneInv'
  BY <1>1 DEF PassInv, DoneInv
<1> QED
  BY <1>1, <1>2, <1>4, <1>7, <1>8 DEF AggregateInv

(* The prefix that is looked at is inside the last one, or behind it.      *)
LEMMA InsideOrBehind ==
  ASSUME NEW l \in Prefix, NEW p \in Prefix, ~Before(p, l)
  PROVE  IF l.bits <= p.bits /\ InPrefix(l, p.addr)
           THEN Block(p) \subseteq Block(l)
           ELSE lastAddr(l) < p.addr
<1>1. /\ l.addr \in Nat /\ p.addr \in Nat /\ l.bits \in Nat /\ p.bits \in Nat
      /\ lastAddr(l) \in Nat /\ p.addr \in Block(p) /\ l.addr \in Block(l)
  BY PrefixNumbers
<1>2. InPrefix(l, p.addr) <=> p.addr \in Block(l)
  BY InPrefixIsInBlock, PrefixShape
<1>3. CASE l.bits <= p.bits /\ InPrefix(l, p.addr)
  BY <1>1, <1>2, <1>3, NestedBlocks
<1>4. CASE ~(l.bits <= p.bits /\ InPrefix(l, p.addr))
  <2> SUFFICES ASSUME ~(lastAddr(l) < p.addr) PROVE FALSE
    BY <1>4
  <2>1. l.addr <= p.addr
    BY <1>1 DEF Before
  <2>2. p.addr \in Block(l)
    BY <1>1, <2>1 DEF Block
  <2>3. p.bits <= l.bits /\ p.bits < l.bits
    BY <1>1, <1>2, <1>4, <2>2
  <2>4. p.addr <= l.addr
    BY <1>1, <2>2, <2>3, Nested
  <2> QED
    BY <1>1, <2>1, <2>3, <2>4 DEF Before
<1> QED
  BY <1>3, <1>4

LEMMA DedupStep ==
  ASSUME AggregateInv, Dedup
  PROVE  AggregateInv'
<1> DEFINE p    == given[i]
           l    == Last(deduped)
           n    == Len(deduped)
           drop == deduped # <<>> /\ l.bits <= p.bits /\ InPrefix(l, p.addr)
<1>1. /\ pc = "dedup" /\ pc' = "dedup" /\ i' = i + 1
      /\ UNCHANGED <<given, merged, changed>>
      /\ deduped' = IF drop THEN deduped ELSE Append(deduped, p)
      /\ i \in 1 .. Len(given) /\ Len(given) \in Nat /\ n \in Nat /\ n <= i - 1
      /\ given \in Seq(Prefix) /\ deduped \in Seq(Prefix)
      /\ merged = <<>> /\ changed = FALSE
      /\ \A k \in 1 .. n : deduped[k] \in Prefix
      /\ \A k \in 1 .. Len(given) : given[k] \in Prefix
  BY ElementOfSeq, LenProperties
     DEF Dedup, AggregateInv, AggregateTypeOK, TypeOK, DedupInv
<1>2. /\ InOrder(given) /\ Ascending(deduped)
      /\ \A j \in 1 .. n, k \in i .. Len(given) : ~Before(given[k], deduped[j])
      /\ Covered(ToSet(deduped)) \cup Covered(From(given, i)) = Covered(ToSet(given))
  BY <1>1 DEF AggregateInv, DedupInv
<1>3. p \in Prefix /\ i \in i .. Len(given)
  BY <1>1
<1>4. deduped # <<>> => n \in 1 .. n /\ l = deduped[n] /\ l \in Prefix
  BY <1>1, EmptySeq DEF Last
<1>5. Covered(From(given, i)) = Covered(From(given, i + 1)) \cup Block(p)
  <2>1. From(given, i) = From(given, i + 1) \cup {p}
    BY <1>1, NextFrom
  <2> QED
    BY <2>1, CoveredWith
<1>6. \A k \in i + 1 .. Len(given) : ~Before(given[k], p)
  BY <1>1, <1>2 DEF InOrder
<1>7. /\ Covered(ToSet(deduped')) \cup Covered(From(given, i + 1)) = Covered(ToSet(given))
      /\ Ascending(deduped')
      /\ \A j \in 1 .. Len(deduped'), k \in i + 1 .. Len(given) :
            ~Before(given[k], deduped'[j])
      /\ deduped' \in Seq(Prefix) /\ Len(deduped') <= i
  <2>1. CASE drop
    <3>1. deduped' = deduped
      BY <1>1, <2>1
    <3>2. Block(p) \subseteq Block(l)
      <4>1. ~Before(p, l)
        BY <1>2, <1>3, <1>4, <2>1
      <4> QED
        BY <1>3, <1>4, <2>1, <4>1, InsideOrBehind
    <3>3. Block(l) \subseteq Covered(ToSet(deduped))
      BY <1>1, <1>4, <2>1, LenProperties DEF Covered, ToSet
    <3>4. \A k \in i + 1 .. Len(given) : k \in i .. Len(given)
      BY <1>1
    <3> HIDE DEF p, l
    <3>5. Covered(ToSet(deduped)) \cup Covered(From(given, i + 1)) = Covered(ToSet(given))
      BY <1>2, <1>5, <3>2, <3>3
    <3> QED
      BY <1>1, <1>2, <3>1, <3>4, <3>5
  <2>2. CASE ~drop
    <3>1. deduped' = Append(deduped, p)
      BY <1>1, <2>2
    <3>2. /\ deduped' \in Seq(Prefix) /\ Len(deduped') = n + 1
          /\ \A k \in 1 .. n : deduped'[k] = deduped[k]
          /\ deduped'[n + 1] = p
          /\ ToSet(deduped') = ToSet(deduped) \cup {p}
      BY <1>1, <1>3, <3>1, AppendedSet
    <3>3. \A k \in 1 .. n : lastAddr(deduped[k]) < p.addr
      <4> SUFFICES ASSUME NEW k \in 1 .. n PROVE lastAddr(deduped[k]) < p.addr
        OBVIOUS
      <4>1. deduped # <<>>
        BY <1>1, EmptySeq
      <4>2. lastAddr(l) < p.addr
        <5>1. ~Before(p, l)
          BY <1>2, <1>3, <1>4, <4>1
        <5> QED
          BY <1>3, <1>4, <2>2, <4>1, <5>1, InsideOrBehind
      <4>3. k = n \/ lastAddr(deduped[k]) < l.addr
        BY <1>1, <1>2, <1>4, <4>1 DEF Ascending
      <4>4. /\ l.addr \in Nat /\ lastAddr(l) \in Nat /\ l.addr <= lastAddr(l)
            /\ lastAddr(deduped[k]) \in Nat /\ p.addr \in Nat
        BY <1>1, <1>3, <1>4, <4>1, PrefixNumbers
      <4> HIDE DEF p, l
      <4> QED
        BY <1>4, <4>1, <4>2, <4>3, <4>4
    <3>4. Ascending(deduped')
      BY <1>1, <1>2, <1>3, <3>1, <3>3, AscendingAppend
    <3>5. Covered(ToSet(deduped')) = Covered(ToSet(deduped)) \cup Block(p)
      BY <3>2, CoveredWith
    <3> HIDE DEF p, l, drop
    <3>6. Covered(ToSet(deduped')) \cup Covered(From(given, i + 1)) = Covered(ToSet(given))
      BY <1>2, <1>5, <3>5
    <3>7. ASSUME NEW j \in 1 .. Len(deduped'), NEW k \in i + 1 .. Len(given)
          PROVE  ~Before(given[k], deduped'[j])
      <4>1. k \in i .. Len(given)
        BY <1>1
      <4>2. CASE j = n + 1
        BY <1>6, <3>2, <4>2
      <4>3. CASE j # n + 1
        <5>1. j \in 1 .. n
          BY <1>1, <3>2, <4>3
        <5> QED
          BY <1>2, <3>2, <4>1, <5>1
      <4> QED
        BY <4>2, <4>3
    <3>8. Len(deduped') <= i
      BY <1>1, <3>2
    <3> QED
      BY <3>2, <3>4, <3>6, <3>7, <3>8
  <2> QED
    BY <2>1, <2>2
<1> HIDE DEF p, l, drop, n
<1>8. AggregateTypeOK'
  <2>1. i' \in 1 .. Len(given') + 1 /\ Len(deduped') <= i' - 1
    BY <1>1, <1>7
  <2>2. TypeOK'
    BY <1>1, <1>7, <2>1 DEF TypeOK, AggregateInv, AggregateTypeOK
  <2> QED
    BY <1>1, <2>1, <2>2 DEF AggregateTypeOK
<1>9. DedupInv'
  BY <1>1, <1>2, <1>7 DEF DedupInv
<1>10. PassInv' /\ DoneInv'
  BY <1>1 DEF PassInv, DoneInv
<1> QED
  BY <1>1, <1>8, <1>9, <1>10 DEF AggregateInv

LEMMA DedupEndsStep ==
  ASSUME AggregateInv, DedupEnds
  PROVE  AggregateInv'
<1>1. /\ pc = "dedup" /\ pc' = "pass" /\ i' = 1 /\ i = Len(given) + 1
      /\ UNCHANGED <<given, deduped, merged, changed>>
      /\ given \in Seq(Prefix) /\ deduped \in Seq(Prefix) /\ merged \in Seq(Prefix)
      /\ Len(given) \in Nat /\ Len(deduped) \in Nat /\ Len(deduped) <= i - 1
      /\ merged = <<>> /\ changed = FALSE /\ Len(merged) = 0
  <2>1. i \in 1 .. Len(given) + 1 /\ Len(given) \in Nat /\ i > Len(given)
    BY LenProperties DEF DedupEnds, AggregateInv, AggregateTypeOK, TypeOK
  <2>2. i = Len(given) + 1
    BY <2>1
  <2> QED
    BY <2>1, <2>2, LenProperties
       DEF DedupEnds, AggregateInv, AggregateTypeOK, TypeOK, DedupInv
<1>2. /\ Ascending(deduped)
      /\ Covered(ToSet(deduped)) \cup Covered(From(given, i)) = Covered(ToSet(given))
  BY <1>1 DEF AggregateInv, DedupInv
<1>3. Covered(ToSet(deduped)) = Covered(ToSet(given))
  <2>1. Covered(From(given, i)) = {}
    BY <1>1, WholeFrom DEF Covered
  <2> QED
    BY <1>2, <2>1
<1>4. Covered(ToSet(merged)) = {}
  BY <1>1, CoveredNone, Zenon
<1>5. From(deduped, 1) = ToSet(deduped)
  BY <1>1, WholeFrom
<1>6. AggregateTypeOK'
  <2>1. /\ i' \in 1 .. Len(given') + 1 /\ i' \in 1 .. Len(deduped') + 1
        /\ Len(merged') <= i' - 1 /\ Len(deduped') <= Len(given')
    BY <1>1
  <2>2. TypeOK'
    BY <1>1, <2>1 DEF TypeOK, AggregateInv, AggregateTypeOK
  <2> QED
    BY <1>1, <2>1, <2>2 DEF AggregateTypeOK
<1>7. PassInv'
  <2>1. Ascending(merged)
    BY <1>1 DEF Ascending
  <2>2. Covered(ToSet(merged)) \cup Covered(From(deduped, 1)) = Covered(ToSet(given))
    BY <1>3, <1>4, <1>5
  <2>3. Len(merged) = 1 - 1 /\ 1 .. Len(merged) = {} /\ 1 .. 1 - 1 = {}
    BY <1>1
  <2> QED
    BY <1>1, <1>2, <2>1, <2>2, <2>3 DEF PassInv
<1>8. DedupInv' /\ DoneInv'
  BY <1>1 DEF DedupInv, DoneInv
<1> QED
  BY <1>1, <1>6, <1>7, <1>8 DEF AggregateInv

LEMMA MergePairStep ==
  ASSUME AggregateInv, MergePair
  PROVE  AggregateInv'
<1> DEFINE a == deduped[i]
           b == deduped[i + 1]
           p == Parent(a)
           n == Len(merged)
<1>1. /\ pc = "pass" /\ pc' = "pass" /\ i' = i + 2 /\ changed' = TRUE
      /\ UNCHANGED <<given, deduped>>
      /\ merged' = Append(merged, p)
      /\ i + 1 <= Len(deduped) /\ canMerge(a, b)
      /\ given \in Seq(Prefix) /\ deduped \in Seq(Prefix) /\ merged \in Seq(Prefix)
      /\ Len(given) \in Nat /\ Len(deduped) \in Nat /\ n \in Nat
      /\ i \in 1 .. Len(deduped) + 1 /\ n <= i - 1 /\ Len(deduped) <= Len(given)
  BY LenProperties
     DEF MergePair, Mergeable, AggregateInv, AggregateTypeOK, TypeOK, PassInv
<1>2. /\ Ascending(deduped) /\ Ascending(merged)
      /\ \A j \in 1 .. n, k \in i .. Len(deduped) : lastAddr(merged[j]) < deduped[k].addr
      /\ Covered(ToSet(merged)) \cup Covered(From(deduped, i)) = Covered(ToSet(given))
  BY <1>1 DEF AggregateInv, PassInv
<1>3. i \in 1 .. Len(deduped) /\ i + 1 \in 1 .. Len(deduped) /\ (i + 1) + 1 = i + 2
  BY <1>1
<1>4. a \in Prefix /\ b \in Prefix /\ lastAddr(a) < b.addr
  BY <1>1, <1>2, <1>3, ElementOfSeq DEF Ascending
<1>5. /\ p \in Prefix /\ Block(p) = Block(a) \cup Block(b)
      /\ p.addr = a.addr /\ lastAddr(p) = lastAddr(b)
  BY <1>1, <1>4, SiblingsAreHalves
<1>6. Covered(From(deduped, i)) = Covered(From(deduped, i + 2)) \cup Block(b) \cup Block(a)
  <2>1. /\ From(deduped, i) = From(deduped, i + 1) \cup {a}
        /\ From(deduped, i + 1) = From(deduped, i + 2) \cup {b}
    BY <1>1, <1>3, NextFrom
  <2>2. Covered(From(deduped, i + 1)) = Covered(From(deduped, i + 2)) \cup Block(b)
    BY <2>1, CoveredWith
  <2>3. Covered(From(deduped, i)) = Covered(From(deduped, i + 1)) \cup Block(a)
    BY <2>1, CoveredWith
  <2> QED
    BY <2>2, <2>3
<1> HIDE DEF p
<1>7. /\ merged' \in Seq(Prefix) /\ Len(merged') = n + 1
      /\ \A k \in 1 .. n : merged'[k] = merged[k]
      /\ merged'[n + 1] = p
      /\ ToSet(merged') = ToSet(merged) \cup {p}
  BY <1>1, <1>5, AppendedSet
<1>8. Covered(ToSet(merged')) \cup Covered(From(deduped, i + 2)) = Covered(ToSet(given))
  <2>1. Covered(ToSet(merged')) = Covered(ToSet(merged)) \cup Block(p)
    BY <1>7, CoveredWith
  <2> HIDE DEF a, b
  <2> QED
    BY <1>2, <1>5, <1>6, <2>1
<1>9. Ascending(merged')
  <2>1. \A j \in 1 .. n : lastAddr(merged[j]) < p.addr
    BY <1>1, <1>2, <1>3, <1>5
  <2> QED
    BY <1>1, <1>2, <1>5, <2>1, AscendingAppend
<1>10. ASSUME NEW j \in 1 .. Len(merged'), NEW k \in i + 2 .. Len(deduped)
       PROVE  lastAddr(merged'[j]) < deduped[k].addr
  <2>1. k \in i .. Len(deduped) /\ k \in 1 .. Len(deduped) /\ i + 1 < k
    BY <1>1
  <2>2. CASE j = n + 1
    BY <1>2, <1>3, <1>5, <1>7, <2>1, <2>2 DEF Ascending
  <2>3. CASE j # n + 1
    <3>1. j \in 1 .. n
      BY <1>1, <1>7, <2>3
    <3> QED
      BY <1>2, <1>7, <2>1, <3>1
  <2> QED
    BY <2>2, <2>3
<1> HIDE DEF a, b
<1>11. AggregateTypeOK'
  <2>1. /\ i' \in 1 .. Len(given') + 1 /\ i' \in 1 .. Len(deduped') + 1
        /\ Len(merged') <= i' - 1 /\ Len(deduped') <= Len(given')
    BY <1>1, <1>7
  <2>2. TypeOK'
    BY <1>1, <1>7, <2>1 DEF TypeOK, AggregateInv, AggregateTypeOK
  <2> QED
    BY <1>1, <2>1, <2>2 DEF AggregateTypeOK
<1>12. PassInv'
  BY <1>1, <1>2, <1>8, <1>9, <1>10 DEF PassInv
<1>13. DedupInv' /\ DoneInv'
  BY <1>1 DEF DedupInv, DoneInv
<1> QED
  BY <1>1, <1>11, <1>12, <1>13 DEF AggregateInv

LEMMA KeepOneStep ==
  ASSUME AggregateInv, KeepOne
  PROVE  AggregateInv'
<1> DEFINE a == deduped[i]
           n == Len(merged)
<1>1. /\ pc = "pass" /\ pc' = "pass" /\ i' = i + 1 /\ changed' = changed
      /\ UNCHANGED <<given, deduped>>
      /\ merged' = Append(merged, a) /\ ~Mergeable
      /\ given \in Seq(Prefix) /\ deduped \in Seq(Prefix) /\ merged \in Seq(Prefix)
      /\ Len(given) \in Nat /\ Len(deduped) \in Nat /\ n \in Nat
      /\ i \in 1 .. Len(deduped) /\ n <= i - 1 /\ Len(deduped) <= Len(given)
  BY LenProperties
     DEF KeepOne, AggregateInv, AggregateTypeOK, TypeOK, PassInv
<1>2. /\ Ascending(deduped) /\ Ascending(merged)
      /\ \A j \in 1 .. n, k \in i .. Len(deduped) : lastAddr(merged[j]) < deduped[k].addr
      /\ Covered(ToSet(merged)) \cup Covered(From(deduped, i)) = Covered(ToSet(given))
  BY <1>1 DEF AggregateInv, PassInv
<1>3. a \in Prefix /\ i \in i .. Len(deduped)
  BY <1>1, ElementOfSeq
<1>4. Covered(From(deduped, i)) = Covered(From(deduped, i + 1)) \cup Block(a)
  <2>1. From(deduped, i) = From(deduped, i + 1) \cup {a}
    BY <1>1, NextFrom
  <2> QED
    BY <2>1, CoveredWith
<1>5. /\ merged' \in Seq(Prefix) /\ Len(merged') = n + 1
      /\ \A k \in 1 .. n : merged'[k] = merged[k]
      /\ merged'[n + 1] = a
      /\ ToSet(merged') = ToSet(merged) \cup {a}
  BY <1>1, <1>3, AppendedSet
<1>6. Covered(ToSet(merged')) \cup Covered(From(deduped, i + 1)) = Covered(ToSet(given))
  <2>1. Covered(ToSet(merged')) = Covered(ToSet(merged)) \cup Block(a)
    BY <1>5, CoveredWith
  <2> HIDE DEF a
  <2> QED
    BY <1>2, <1>4, <2>1
<1>7. Ascending(merged')
  <2>1. \A j \in 1 .. n : lastAddr(merged[j]) < a.addr
    BY <1>2, <1>3
  <2> QED
    BY <1>1, <1>2, <1>3, <2>1, AscendingAppend
<1>8. ASSUME NEW j \in 1 .. Len(merged'), NEW k \in i + 1 .. Len(deduped)
      PROVE  lastAddr(merged'[j]) < deduped[k].addr
  <2>1. k \in i .. Len(deduped) /\ k \in 1 .. Len(deduped) /\ i < k
    BY <1>1
  <2>2. CASE j = n + 1
    BY <1>1, <1>2, <1>5, <2>1, <2>2 DEF Ascending
  <2>3. CASE j # n + 1
    <3>1. j \in 1 .. n
      BY <1>1, <1>5, <2>3
    <3> QED
      BY <1>2, <1>5, <2>1, <3>1
  <2> QED
    BY <2>2, <2>3
<1>9. ASSUME ~changed
      PROVE  /\ Len(merged') = i
             /\ \A k \in 1 .. i : merged'[k] = deduped[k]
             /\ \A k \in 1 .. i : k + 1 <= Len(deduped)
                  => ~canMerge(deduped[k], deduped[k + 1])
  <2>1. /\ n = i - 1
        /\ \A k \in 1 .. i - 1 : merged[k] = deduped[k]
        /\ \A k \in 1 .. i - 1 : k + 1 <= Len(deduped)
             => ~canMerge(deduped[k], deduped[k + 1])
    BY <1>1, <1>9 DEF AggregateInv, PassInv
  <2>2. \A k \in 1 .. i : k = i \/ k \in 1 .. i - 1
    BY <1>1
  <2>3. i + 1 <= Len(deduped) => ~canMerge(deduped[i], deduped[i + 1])
    BY <1>1 DEF Mergeable
  <2>4. n + 1 = i
    BY <1>1, <2>1
  <2> QED
    BY <1>5, <2>1, <2>2, <2>3, <2>4
<1> HIDE DEF a
<1>10. AggregateTypeOK'
  <2>1. /\ i' \in 1 .. Len(given') + 1 /\ i' \in 1 .. Len(deduped') + 1
        /\ Len(merged') <= i' - 1 /\ Len(deduped') <= Len(given')
    BY <1>1, <1>5
  <2>2. TypeOK'
    BY <1>1, <1>5, <2>1 DEF TypeOK, AggregateInv, AggregateTypeOK
  <2> QED
    BY <1>1, <2>1, <2>2 DEF AggregateTypeOK
<1>11. PassInv'
  <2>1. i' - 1 = i
    BY <1>1
  <2> QED
    BY <1>1, <1>2, <1>6, <1>7, <1>8, <1>9, <2>1 DEF PassInv
<1>12. DedupInv' /\ DoneInv'
  BY <1>1 DEF DedupInv, DoneInv
<1> QED
  BY <1>1, <1>10, <1>11, <1>12 DEF AggregateInv

LEMMA PassEndsStep ==
  ASSUME AggregateInv, PassEnds
  PROVE  AggregateInv'
<1>1. /\ pc = "pass" /\ i' = 1 /\ changed' = FALSE /\ given' = given
      /\ deduped' = merged /\ merged' = <<>> /\ i = Len(deduped) + 1
      /\ pc' = IF changed THEN "pass" ELSE "done"
      /\ given \in Seq(Prefix) /\ deduped \in Seq(Prefix) /\ merged \in Seq(Prefix)
      /\ Len(given) \in Nat /\ Len(deduped) \in Nat /\ Len(merged) \in Nat
      /\ Len(merged) <= Len(deduped) /\ Len(deduped) <= Len(given)
      /\ merged' \in Seq(Prefix) /\ Len(merged') = 0
  <2>1. /\ Len(deduped) \in Nat /\ i \in 1 .. Len(deduped) + 1 /\ i > Len(deduped)
        /\ Len(merged) \in Nat /\ Len(merged) <= i - 1
    BY LenProperties DEF PassEnds, AggregateInv, AggregateTypeOK, TypeOK
  <2>2. i = Len(deduped) + 1 /\ Len(merged) <= Len(deduped)
    BY <2>1
  <2>3. <<>> \in Seq(Prefix) /\ Len(<<>>) = 0
    OBVIOUS
  <2> QED
    BY <2>1, <2>2, <2>3, LenProperties
       DEF PassEnds, AggregateInv, AggregateTypeOK, TypeOK
<1>2. /\ Ascending(deduped) /\ Ascending(merged)
      /\ Covered(ToSet(merged)) \cup Covered(From(deduped, i)) = Covered(ToSet(given))
  BY <1>1 DEF AggregateInv, PassInv
<1>3. Covered(ToSet(merged)) = Covered(ToSet(given))
  <2>1. Covered(From(deduped, i)) = {}
    BY <1>1, WholeFrom DEF Covered
  <2> QED
    BY <1>2, <2>1
<1>4. AggregateTypeOK'
  <2>1. /\ i' \in 1 .. Len(given') + 1 /\ i' \in 1 .. Len(deduped') + 1
        /\ Len(merged') <= i' - 1 /\ Len(deduped') <= Len(given')
    BY <1>1
  <2>2. TypeOK'
    BY <1>1, <2>1 DEF TypeOK, AggregateInv, AggregateTypeOK
  <2> QED
    BY <1>1, <2>1, <2>2 DEF AggregateTypeOK
<1>5. PassInv'
  <2>1. Ascending(merged')
    BY <1>1 DEF Ascending
  <2>2. Covered(ToSet(merged')) \cup Covered(From(merged, 1)) = Covered(ToSet(given))
    <3>1. From(merged, 1) = ToSet(merged)
      BY <1>1, WholeFrom
    <3>2. Covered(ToSet(merged')) = {}
      BY <1>1, CoveredNone, Zenon
    <3> QED
      BY <1>3, <3>1, <3>2
  <2>3. Len(merged') = 1 - 1 /\ 1 .. Len(merged') = {} /\ 1 .. 1 - 1 = {}
    BY <1>1
  <2> QED
    BY <1>1, <1>2, <2>1, <2>2, <2>3 DEF PassInv
<1>6. DoneInv'
  <2> SUFFICES ASSUME ~changed PROVE NoSiblings(merged)
    BY <1>1, <1>2, <1>3 DEF DoneInv
  <2>1. /\ Len(merged) = i - 1
        /\ \A k \in 1 .. i - 1 : merged[k] = deduped[k]
        /\ \A k \in 1 .. i - 1 : k + 1 <= Len(deduped)
             => ~canMerge(deduped[k], deduped[k + 1])
    BY <1>1 DEF AggregateInv, PassInv
  <2>2. i - 1 = Len(deduped)
    BY <1>1
  <2>3. \A k \in 1 .. Len(deduped) - 1 :
          k \in 1 .. Len(deduped) /\ k + 1 \in 1 .. Len(deduped) /\ k + 1 <= Len(deduped)
    BY <1>1
  <2> QED
    BY <2>1, <2>2, <2>3 DEF NoSiblings
<1>7. DedupInv'
  BY <1>1 DEF DedupInv
<1>8. pc' # "sort"
  BY <1>1
<1> QED
  BY <1>4, <1>5, <1>6, <1>7, <1>8 DEF AggregateInv

LEMMA AggregateStep ==
  ASSUME AggregateInv, Next
  PROVE  AggregateInv' /\ Covered(ToSet(given')) = Covered(ToSet(given))
<1>1. CASE Sort
  BY <1>1, SortStep
<1>2. CASE Dedup
  BY <1>2, DedupStep DEF Dedup
<1>3. CASE DedupEnds
  BY <1>3, DedupEndsStep DEF DedupEnds
<1>4. CASE MergePair
  BY <1>4, MergePairStep DEF MergePair
<1>5. CASE KeepOne
  BY <1>5, KeepOneStep DEF KeepOne
<1>6. CASE PassEnds
  BY <1>6, PassEndsStep DEF PassEnds
<1>7. CASE Done
  BY <1>7 DEF Done, vars, AggregateInv, AggregateTypeOK, TypeOK, DedupInv, PassInv, DoneInv
<1> QED
  BY <1>1, <1>2, <1>3, <1>4, <1>5, <1>6, <1>7 DEF Next

-----------------------------------------------------------------------------
(* The whole way, from the resources of a feed to the list.                *)

FeedInv ==
  /\ raw \in Seq(Prefix) /\ parsing \in BOOLEAN
  /\ RangeTypeOK /\ RangeInv
  /\ AggregateInv
  /\ parsing => given = <<>> /\ pc = "sort"
  /\ ~parsing => /\ rpc = "done"
                 /\ Covered(ToSet(given)) = (lo .. hi) \cup Covered(ToSet(raw))

LEMMA FeedInitInv == FeedInit => FeedInv
<1> SUFFICES ASSUME FeedInit PROVE FeedInv
  OBVIOUS
<1>1. raw \in Seq(Prefix) /\ parsing = TRUE
  BY ListsAssumption DEF FeedInit
<1>2. RangeTypeOK /\ RangeInv
  BY RangeInit DEF FeedInit
<1>3. /\ given = <<>> /\ deduped = <<>> /\ merged = <<>> /\ i = 1 /\ changed = FALSE
      /\ pc = "sort"
  BY DEF FeedInit, Init
<1>4. AggregateInv
  <2>1. <<>> \in Seq(Prefix) /\ Len(<<>>) = 0 /\ 1 \in 1 .. 0 + 1
    OBVIOUS
  <2>2. TypeOK
    BY <1>3, <2>1 DEF TypeOK
  <2> QED
    BY <1>3, <2>2 DEF AggregateInv, AggregateTypeOK, DedupInv, PassInv, DoneInv
<1> QED
  BY <1>1, <1>2, <1>3, <1>4 DEF FeedInv

LEMMA SplitStep ==
  ASSUME FeedInv, SplitRange
  PROVE  FeedInv'
<1>1. /\ parsing /\ Split!Next /\ rpc # "done"
      /\ UNCHANGED <<vars, raw, parsing>>
      /\ RangeTypeOK /\ RangeInv
  BY DEF SplitRange, FeedInv
<1>2. RangeTypeOK' /\ RangeInv'
  BY <1>1, RangeReturns, RangeBegins, RangeWidens, RangeAppends
     DEF Split!Next, Split!Done
<1>3. AggregateInv'
  BY <1>1 DEF FeedInv, vars, AggregateInv, AggregateTypeOK, TypeOK, DedupInv, PassInv, DoneInv
<1> QED
  BY <1>1, <1>2, <1>3 DEF FeedInv, vars

LEMMA CollectStep ==
  ASSUME FeedInv, Collect
  PROVE  FeedInv'
<1>1. /\ parsing /\ ~parsing' /\ rpc = "done" /\ given' = out \o raw
      /\ UNCHANGED <<raw, lo, hi, start, mask, out, rpc, deduped, merged, i, changed, pc>>
      /\ parsing' \in BOOLEAN
  BY DEF Collect, splitting
<1>2. /\ raw \in Seq(Prefix) /\ out \in Seq(Prefix) /\ pc = "sort"
      /\ deduped = <<>> /\ merged = <<>> /\ i = 1 /\ changed = FALSE
      /\ Covered(ToSet(out)) = lo .. hi
  BY <1>1 DEF FeedInv, RangeTypeOK, RangeInv, AggregateInv
<1>3. RangeTypeOK' /\ RangeInv'
  BY <1>1 DEF FeedInv, RangeTypeOK, RangeInv, Widest
<1>4. given' \in Seq(Prefix) /\ ToSet(given') = ToSet(out) \cup ToSet(raw)
  BY <1>1, <1>2, JoinedSet
<1>5. Covered(ToSet(given')) = (lo .. hi) \cup Covered(ToSet(raw))
  BY <1>2, <1>4, CoveredUnion
<1>6. AggregateInv'
  <2>1. /\ <<>> \in Seq(Prefix) /\ Len(given') \in Nat
    BY <1>4, LenProperties
  <2>2. 1 \in 1 .. Len(given') + 1
    BY <2>1
  <2>3. TypeOK'
    BY <1>1, <1>2, <1>4, <2>1, <2>2 DEF TypeOK
  <2> QED
    BY <1>1, <1>2, <2>3 DEF AggregateInv, AggregateTypeOK, DedupInv, PassInv, DoneInv
<1> QED
  BY <1>1, <1>2, <1>3, <1>5, <1>6 DEF FeedInv

LEMMA AggregateListStep ==
  ASSUME FeedInv, AggregateList
  PROVE  FeedInv'
<1>1. /\ ~parsing /\ Next /\ AggregateInv
      /\ UNCHANGED <<raw, parsing, lo, hi, start, mask, out, rpc>>
  BY DEF AggregateList, splitting, FeedInv
<1>2. AggregateInv' /\ Covered(ToSet(given')) = Covered(ToSet(given))
  BY <1>1, AggregateStep
<1>3. RangeTypeOK' /\ RangeInv'
  BY <1>1 DEF FeedInv, RangeTypeOK, RangeInv, Widest
<1> QED
  BY <1>1, <1>2, <1>3 DEF FeedInv

(* From parsePrefixes to the return of aggregate, at every step: what is    *)
(* emitted and merged is ascending, and no address is lost or gained.      *)
THEOREM FeedInvariant == FeedSpec => []FeedInv
<1>1. FeedInit => FeedInv
  BY FeedInitInv
<1>2. FeedInv /\ [FeedNext]_allvars => FeedInv'
  <2> SUFFICES ASSUME FeedInv, [FeedNext]_allvars PROVE FeedInv'
    OBVIOUS
  <2>1. CASE FeedNext
    BY <2>1, SplitStep, CollectStep, AggregateListStep DEF FeedNext
  <2>2. CASE UNCHANGED allvars
    <3>1. RangeTypeOK' /\ RangeInv'
      BY <2>2 DEF allvars, splitting, FeedInv, RangeTypeOK, RangeInv, Widest
    <3>2. AggregateInv'
      BY <2>2 DEF allvars, vars, FeedInv, AggregateInv, AggregateTypeOK, TypeOK,
                  DedupInv, PassInv, DoneInv
    <3> QED
      BY <2>2, <3>1, <3>2 DEF allvars, splitting, vars, FeedInv
  <2> QED
    BY <2>1, <2>2
<1> QED
  BY <1>1, <1>2, PTL DEF FeedSpec

-----------------------------------------------------------------------------
(* The properties of FeedList and Aggregate.                               *)

(* Types: every prefix on the way is a prefix, every index is in its list, *)
(* and rangeToCIDR never goes on from an address that there is not.        *)
THEOREM FeedTypeCorrect == FeedSpec => []FeedTypeOK
<1>1. FeedInv => FeedTypeOK
  BY RangeTypes DEF FeedInv, FeedTypeOK, AggregateInv, AggregateTypeOK
<1> QED
  BY <1>1, FeedInvariant, PTL

(* rangeToCIDR covers the range from the left, address by address, for any *)
(* range and any width.                                                    *)
THEOREM RangeLeftPart == FeedSpec => []EmitsLeftPart
<1>1. FeedInv => EmitsLeftPart
  BY SplitCovers DEF FeedInv, RangeInv, EmitsLeftPart, Split!EmitsLeftPart
<1> QED
  BY <1>1, FeedInvariant, PTL

(* What rangeToCIDR returns is the minimal cover, in ascending order.      *)
THEOREM RangeMinimal == FeedSpec => []SplitsMinimally
<1>1. FeedInv => SplitsMinimally
  <2> SUFFICES ASSUME FeedInv, rpc = "done"
               PROVE  /\ Split!Emitted = Split!MinimalCover(lo .. hi)
                      /\ \A k \in 1 .. Len(out) - 1 :
                           Split!lastAddr(out[k]) < out[k + 1].addr
    BY DEF SplitsMinimally, Split!SplitsMinimally
  <2>1. ToSet(out) = MinimalCover(lo .. hi) /\ Ascending(out) /\ Len(out) \in Nat
    BY RangeIsMinimal, LenProperties DEF FeedInv, RangeTypeOK
  <2>2. \A k \in 1 .. Len(out) - 1 : lastAddr(out[k]) < out[k + 1].addr
    BY <2>1 DEF Ascending
  <2> QED
    BY <2>1, <2>2, SplitCovers, SplitOperators
<1> QED
  BY <1>1, FeedInvariant, PTL

(* At every step of the sort, the dedup and the passes, the list means the *)
(* addresses of the range, of the prefixes and of the extras.              *)
THEOREM ListCovers == FeedSpec => []ListCoversFeed
<1>1. FeedInv => ListCoversFeed
  <2> SUFFICES ASSUME FeedInv, ~parsing
               PROVE  Covered(ToSet(Pending)) = Covered(ToSet(given))
    BY DEF FeedInv, ListCoversFeed
  <2>1. /\ AggregateInv /\ given \in Seq(Prefix) /\ deduped \in Seq(Prefix)
        /\ merged \in Seq(Prefix) /\ i \in 1 .. Len(given) + 1
        /\ pc = "pass" => i \in 1 .. Len(deduped) + 1
        /\ pc \in {"sort", "dedup", "pass", "done"}
    BY DEF FeedInv, AggregateInv, AggregateTypeOK, TypeOK
  <2>2. CASE pc = "sort"
    BY <2>2 DEF Pending
  <2>3. CASE pc = "dedup"
    <3> DEFINE rest == SubSeq(given, i, Len(given))
    <3>1. rest \in Seq(Prefix) /\ ToSet(rest) = From(given, i)
      BY <2>1, RestSet
    <3>2. Pending = deduped \o rest
      BY <2>3 DEF Pending
    <3> HIDE DEF rest
    <3>3. ToSet(Pending) = ToSet(deduped) \cup From(given, i)
      BY <2>1, <3>1, <3>2, JoinedSet
    <3> QED
      BY <2>1, <2>3, <3>3, CoveredUnion DEF AggregateInv, DedupInv
  <2>4. CASE pc = "pass"
    <3> DEFINE rest == SubSeq(deduped, i, Len(deduped))
    <3>1. rest \in Seq(Prefix) /\ ToSet(rest) = From(deduped, i)
      BY <2>1, <2>4, RestSet
    <3>2. Pending = merged \o rest
      BY <2>4 DEF Pending
    <3> HIDE DEF rest
    <3>3. ToSet(Pending) = ToSet(merged) \cup From(deduped, i)
      BY <2>1, <3>1, <3>2, JoinedSet
    <3> QED
      BY <2>1, <2>4, <3>3, CoveredUnion DEF AggregateInv, PassInv
  <2>5. CASE pc = "done"
    BY <2>1, <2>5 DEF Pending, AggregateInv, DoneInv
  <2> QED
    BY <2>1, <2>2, <2>3, <2>4, <2>5
<1> QED
  BY <1>1, FeedInvariant, PTL

(* The list that aggregate returns depends on the addresses alone: it is   *)
(* their minimal cover, in ascending order.                                *)
THEOREM AggregateMinimal == FeedSpec => []AggregatesMinimally
<1>1. FeedInv => AggregatesMinimally
  <2> SUFFICES ASSUME FeedInv, pc = "done"
               PROVE  /\ ToSet(deduped) = MinimalCover(Covered(ToSet(given)))
                      /\ \A k \in 1 .. Len(deduped) - 1 :
                           lastAddr(deduped[k]) < deduped[k + 1].addr
    BY DEF AggregatesMinimally
  <2>1. /\ deduped \in Seq(Prefix) /\ Len(deduped) \in Nat
        /\ Ascending(deduped) /\ NoSiblings(deduped)
        /\ Covered(ToSet(deduped)) = Covered(ToSet(given))
    BY LenProperties
       DEF FeedInv, AggregateInv, AggregateTypeOK, TypeOK, DoneInv
  <2>2. ToSet(deduped) = MinimalCover(Covered(ToSet(given)))
    BY <2>1, MinimalList
  <2> QED
    BY <2>1, <2>2 DEF Ascending
<1> QED
  BY <1>1, FeedInvariant, PTL

(* Two feeds that mean the same addresses end as the same list, element by *)
(* element: run() finds the frr.conf it would write equal to the file, and *)
(* does not reload FRR.                                                    *)
THEOREM SameAddressesSameList ==
  ASSUME NEW s \in Seq(Prefix), Ascending(s), NoSiblings(s),
         NEW t \in Seq(Prefix), Ascending(t), NoSiblings(t),
         Covered(ToSet(s)) = Covered(ToSet(t))
  PROVE  s = t
<1> DEFINE n == Len(s)
           m == Len(t)
<1>1. /\ n \in Nat /\ m \in Nat
      /\ \A k \in 1 .. n : s[k] \in Prefix /\ \A l \in 1 .. n : s[k] = s[l] => k = l
      /\ \A k \in 1 .. m : t[k] \in Prefix /\ \A l \in 1 .. m : t[k] = t[l] => k = l
  <2>1. \A k \in 1 .. n : s[k].addr \in Block(s[k])
    BY ElementOfSeq, PrefixNumbers
  <2>2. \A k \in 1 .. m : t[k].addr \in Block(t[k])
    BY ElementOfSeq, PrefixNumbers
  <2>3. \A k, l \in 1 .. n : s[k] = s[l] => k = l
    BY <2>1, OneBlockEach
  <2>4. \A k, l \in 1 .. m : t[k] = t[l] => k = l
    BY <2>2, OneBlockEach
  <2> QED
    BY <2>3, <2>4, ElementOfSeq, LenProperties
<1>2. {s[k] : k \in 1 .. n} = {t[k] : k \in 1 .. m}
  <2>1. ToSet(s) = ToSet(t)
    BY MinimalList
  <2> QED
    BY <2>1, LenProperties DEF ToSet
<1>3. ASSUME NEW k \in 1 .. n, NEW l \in 1 .. n, k < l PROVE s[k].addr < s[l].addr
  <2>1. lastAddr(s[k]) < s[l].addr
    BY <1>3 DEF Ascending
  <2>2. /\ s[k].addr \in Nat /\ lastAddr(s[k]) \in Nat /\ s[k].addr <= lastAddr(s[k])
        /\ s[l].addr \in Nat
    BY <1>1, PrefixNumbers
  <2> QED
    BY <2>1, <2>2
<1>4. ASSUME NEW k \in 1 .. m, NEW l \in 1 .. m, k < l PROVE t[k].addr < t[l].addr
  <2>1. lastAddr(t[k]) < t[l].addr
    BY <1>4 DEF Ascending
  <2>2. /\ t[k].addr \in Nat /\ lastAddr(t[k]) \in Nat /\ t[k].addr <= lastAddr(t[k])
        /\ t[l].addr \in Nat
    BY <1>1, PrefixNumbers
  <2> QED
    BY <2>1, <2>2
<1>5. \A k \in 1 .. n : s[k].addr \in Nat
  BY <1>1, PrefixNumbers
<1>6. \A k \in 1 .. m : t[k].addr \in Nat
  BY <1>1, PrefixNumbers
<1> HIDE DEF n, m
<1> DEFINE Bad == {k \in Nat : k \in 1 .. n /\ k \in 1 .. m /\ s[k] # t[k]}
<1>7. Bad = {}
  <2> SUFFICES ASSUME Bad # {} PROVE FALSE
    OBVIOUS
  <2>1. PICK k \in Bad : \A l \in Bad : k <= l
    BY Least
  <2>2. /\ k \in 1 .. n /\ k \in 1 .. m /\ s[k] # t[k]
        /\ \A l \in 1 .. n : l \in 1 .. m /\ l < k => s[l] = t[l]
    BY <2>1, <1>1
  <2>3. PICK j \in 1 .. m : t[j] = s[k]
    BY <1>2, <2>2
  <2>4. PICK l \in 1 .. n : s[l] = t[k]
    BY <1>2, <2>2
  <2>5. k < j
    <3>1. j # k
      BY <2>2, <2>3
    <3>2. ~(j < k)
      <4> SUFFICES ASSUME j < k PROVE FALSE
        OBVIOUS
      <4>1. j \in 1 .. n
        BY <1>1, <2>2
      <4>2. s[j] = s[k]
        BY <2>2, <2>3, <4>1
      <4> QED
        BY <1>1, <2>2, <4>1, <4>2
    <3> QED
      BY <1>1, <2>2, <3>1, <3>2
  <2>6. k < l
    <3>1. l # k
      BY <2>2, <2>4
    <3>2. ~(l < k)
      <4> SUFFICES ASSUME l < k PROVE FALSE
        OBVIOUS
      <4>1. l \in 1 .. m
        BY <1>1, <2>2
      <4>2. t[l] = t[k]
        BY <2>2, <2>4, <4>1
      <4> QED
        BY <1>1, <2>2, <4>1, <4>2
    <3> QED
      BY <1>1, <2>2, <3>1, <3>2
  <2>7. t[k].addr < s[k].addr /\ s[k].addr < t[k].addr
    BY <1>3, <1>4, <2>2, <2>3, <2>4, <2>5, <2>6
  <2> QED
    BY <1>5, <1>6, <2>2, <2>7
<1>8. \A k \in 1 .. n : k \in 1 .. m => s[k] = t[k]
  BY <1>1, <1>7
<1>9. ~(n < m)
  <2> SUFFICES ASSUME n < m PROVE FALSE
    OBVIOUS
  <2>1. n + 1 \in 1 .. m
    BY <1>1
  <2>2. PICK l \in 1 .. n : s[l] = t[n + 1]
    BY <1>2, <2>1
  <2>3. l \in 1 .. m /\ l # n + 1
    BY <1>1
  <2> QED
    BY <1>1, <1>8, <2>1, <2>2, <2>3
<1>10. ~(m < n)
  <2> SUFFICES ASSUME m < n PROVE FALSE
    OBVIOUS
  <2>1. m + 1 \in 1 .. n
    BY <1>1
  <2>2. PICK l \in 1 .. m : t[l] = s[m + 1]
    BY <1>2, <2>1
  <2>3. l \in 1 .. n /\ l # m + 1
    BY <1>1
  <2> QED
    BY <1>1, <1>8, <2>1, <2>2, <2>3
<1>11. n = m
  BY <1>1, <1>9, <1>10
<1> QED
  BY <1>8, <1>11, SeqEqual DEF n, m
=============================================================================
