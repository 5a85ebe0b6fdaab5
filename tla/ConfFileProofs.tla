--------------------------- MODULE ConfFileProofs ---------------------------
(***************************************************************************)
(* What the splices of several countries leave alone in frr.conf, for any  *)
(* files, countries and texts; and that a reader of the file sees what     *)
(* module SharedFile says.                                                 *)
(***************************************************************************)
EXTENDS ConfFile, FiniteSetTheorems, SequenceTheorems, TLAPS

-----------------------------------------------------------------------------
(* strings.Index.                                                          *)

LEMMA Least ==
  ASSUME NEW S \in SUBSET Nat, S # {}
  PROVE  \E n \in S : \A m \in S : n <= m
<1>1. OpToRel(<, Nat) = {ss \in Nat \X Nat : ss[1] < ss[2]}
  BY DEF OpToRel
<1>2. PICK x \in S : \A y \in S : ~(<<y, x>> \in OpToRel(<, Nat))
  BY NatLessThanWellFounded, WFMin
<1>3. \A y \in S : ~(y < x)
  BY <1>1, <1>2
<1> QED
  BY <1>3

LEMMA IndexIsFirst ==
  ASSUME NEW cfg \in Seq(Token), NEW token
  PROVE  /\ Index(cfg, token) \in Nat
         /\ Index(cfg, token) > 0 =>
              /\ Index(cfg, token) \in DOMAIN cfg
              /\ cfg[Index(cfg, token)] = token
              /\ First(cfg, token) = {Index(cfg, token)}
         /\ Index(cfg, token) = 0 => First(cfg, token) = {}
<1> DEFINE S == {i \in 1 .. Len(cfg) : cfg[i] = token}
           n == Index(cfg, token)
<1>1. Len(cfg) \in Nat /\ DOMAIN cfg = 1 .. Len(cfg)
  BY LenProperties
<1>2. n = IF S # {} THEN CHOOSE x \in S : \A y \in S : x <= y ELSE 0
  BY DEF Index, SelectInSeq, Min
<1>3. CASE S # {}
  <2>1. S \in SUBSET Nat
    BY <1>1
  <2>2. \E x \in S : \A y \in S : x <= y
    BY <1>3, <2>1, Least
  <2> HIDE DEF S, n
  <2>3. n \in S /\ \A y \in S : n <= y
    BY <1>2, <1>3, <2>2
  <2>4. n \in 1 .. Len(cfg) /\ cfg[n] = token
    BY <2>3 DEF S
  <2>5. \A j \in 1 .. Len(cfg) : j < n => cfg[j] # token
    BY <1>1, <2>3, <2>4 DEF S
  <2>6. n \in First(cfg, token)
    BY <1>1, <2>4, <2>5 DEF First
  <2>7. ASSUME NEW m \in First(cfg, token) PROVE m = n
    <3>1. m \in 1 .. Len(cfg) /\ cfg[m] = token /\ \A j \in 1 .. m - 1 : cfg[j] # token
      BY <1>1 DEF First
    <3>2. n <= m /\ ~(n < m)
      BY <1>1, <2>3, <2>4, <3>1 DEF S
    <3> QED
      BY <1>1, <2>4, <3>1, <3>2
  <2>8. n \in Nat /\ n > 0 /\ n # 0 /\ n \in DOMAIN cfg
    BY <1>1, <2>4
  <2>9. First(cfg, token) = {n}
    BY <2>6, <2>7
  <2> QED
    BY <2>4, <2>8, <2>9 DEF n
<1>4. CASE S = {}
  <2>1. n = 0
    BY <1>2, <1>4
  <2>2. First(cfg, token) = {}
    BY <1>1, <1>4 DEF First
  <2> HIDE DEF n, S
  <2>3. n \in Nat /\ ~(n > 0)
    BY <2>1
  <2> QED
    BY <2>2, <2>3 DEF n
<1> QED
  BY <1>3, <1>4

-----------------------------------------------------------------------------
(* A part of a file is replaced, between places x and y.  What stays moves *)
(* by d behind the part; no marker goes, none comes.                       *)

Cut(old, new, x, y, d) ==
  /\ old \in Seq(Token) /\ new \in Seq(Token)
  /\ x \in Nat /\ y \in Nat /\ d \in Int
  /\ x < y /\ x < y + d /\ y <= Len(old)
  /\ Len(new) = Len(old) + d
  /\ \A k \in 1 .. x : new[k] = old[k]
  /\ \A k \in y .. Len(old) : new[k + d] = old[k]
  /\ \A k \in x + 1 .. y - 1 : old[k] \notin Markers
  /\ \A k \in x + 1 .. y + d - 1 : new[k] \notin Markers

Moved(k, x, d) == IF k <= x THEN k ELSE k + d

Kept(old, x, y) == {k \in DOMAIN old : k <= x \/ k >= y}

LEMMA KeptMoves ==
  ASSUME NEW old, NEW new, NEW x, NEW y, NEW d, Cut(old, new, x, y, d)
  PROVE  /\ DOMAIN old = 1 .. Len(old) /\ DOMAIN new = 1 .. Len(new)
         /\ \A k \in Kept(old, x, y) :
              /\ Moved(k, x, d) \in DOMAIN new
              /\ Moved(k, x, d) \notin x + 1 .. y + d - 1
              /\ new[Moved(k, x, d)] = old[k]
         /\ \A j, k \in Kept(old, x, y) : j < k <=> Moved(j, x, d) < Moved(k, x, d)
         /\ \A l \in DOMAIN new : l \notin x + 1 .. y + d - 1 =>
              \E k \in Kept(old, x, y) : l = Moved(k, x, d)
<1> DEFINE n == Len(old)
<1>1. /\ x \in Nat /\ y \in Nat /\ d \in Int /\ x < y /\ x < y + d /\ y <= n
      /\ n \in Nat /\ DOMAIN old = 1 .. n
      /\ Len(new) = n + d /\ DOMAIN new = 1 .. n + d
      /\ \A k \in 1 .. x : new[k] = old[k]
      /\ \A k \in y .. n : new[k + d] = old[k]
  BY LenProperties DEF Cut
<1>2. \A k \in Kept(old, x, y) : k \in 1 .. n /\ (k <= x \/ k >= y)
  BY <1>1 DEF Kept
<1> HIDE DEF n
<1>3. ASSUME NEW k \in Kept(old, x, y)
      PROVE  /\ Moved(k, x, d) \in DOMAIN new
             /\ Moved(k, x, d) \notin x + 1 .. y + d - 1
             /\ new[Moved(k, x, d)] = old[k]
  <2>1. CASE k <= x
    BY <1>1, <1>2, <2>1 DEF Moved
  <2>2. CASE ~(k <= x)
    <3>1. k \in y .. n /\ k + d \in 1 .. n + d /\ k + d \notin x + 1 .. y + d - 1
      BY <1>1, <1>2, <2>2
    <3> QED
      BY <1>1, <2>2, <3>1 DEF Moved
  <2> QED
    BY <2>1, <2>2
<1>4. ASSUME NEW j \in Kept(old, x, y), NEW k \in Kept(old, x, y)
      PROVE  j < k <=> Moved(j, x, d) < Moved(k, x, d)
  BY <1>1, <1>2 DEF Moved
<1>5. ASSUME NEW l \in DOMAIN new, l \notin x + 1 .. y + d - 1
      PROVE  \E k \in Kept(old, x, y) : l = Moved(k, x, d)
  <2>1. CASE l <= x
    <3>1. l \in Kept(old, x, y) /\ l = Moved(l, x, d)
      BY <1>1, <2>1 DEF Kept, Moved
    <3> QED
      BY <3>1
  <2>2. CASE ~(l <= x)
    <3>1. l - d \in Kept(old, x, y) /\ l = Moved(l - d, x, d)
      BY <1>1, <1>5, <2>2 DEF Kept, Moved
    <3> QED
      BY <3>1
  <2> QED
    BY <2>1, <2>2
<1> QED
  BY <1>1, <1>3, <1>4, <1>5 DEF n

LEMMA MarkersAreKept ==
  ASSUME NEW old, NEW new, NEW x, NEW y, NEW d, Cut(old, new, x, y, d),
         NEW k \in DOMAIN old, old[k] \in Markers
  PROVE  k \in Kept(old, x, y)
<1>1. DOMAIN old = 1 .. Len(old) /\ Len(old) \in Nat
  BY LenProperties DEF Cut
<1> QED
  BY <1>1 DEF Cut, Kept

LEMMA FirstMoves ==
  ASSUME NEW old, NEW new, NEW x, NEW y, NEW d, Cut(old, new, x, y, d),
         NEW token \in Markers
  PROVE  /\ First(old, token) \subseteq Kept(old, x, y)
         /\ First(new, token) = {Moved(k, x, d) : k \in First(old, token)}
<1>1. /\ DOMAIN old = 1 .. Len(old) /\ DOMAIN new = 1 .. Len(new)
      /\ Len(old) \in Nat /\ Len(new) \in Nat
  BY LenProperties DEF Cut
<1>2. \A k \in DOMAIN old : old[k] = token => k \in Kept(old, x, y)
  BY MarkersAreKept
<1>3. First(old, token) \subseteq Kept(old, x, y)
  BY <1>2 DEF First
<1>4. ASSUME NEW k \in First(old, token) PROVE Moved(k, x, d) \in First(new, token)
  <2>1. /\ k \in Kept(old, x, y) /\ old[k] = token /\ k \in DOMAIN old
        /\ \A j \in DOMAIN old : j < k => old[j] # token
    BY <1>1, <1>3 DEF First
  <2>2. Moved(k, x, d) \in DOMAIN new /\ new[Moved(k, x, d)] = token
    BY <2>1, KeptMoves
  <2>3. ASSUME NEW l \in DOMAIN new, new[l] = token, l < Moved(k, x, d) PROVE FALSE
    <3>1. l \in DOMAIN new /\ l < Moved(k, x, d)
      BY <2>3
    <3>2. l \notin x + 1 .. y + d - 1
      BY <2>3 DEF Cut
    <3>3. PICK j \in Kept(old, x, y) : l = Moved(j, x, d)
      BY <3>1, <3>2, KeptMoves
    <3>4. j < k /\ old[j] = token /\ j \in DOMAIN old
      BY <2>1, <2>3, <3>1, <3>3, KeptMoves DEF Kept
    <3> QED
      BY <2>1, <3>4
  <2>4. \A l \in DOMAIN new : new[l] = token => Moved(k, x, d) <= l
    BY <1>1, <2>2, <2>3
  <2> QED
    BY <2>2, <2>4 DEF First
<1>5. ASSUME NEW l \in First(new, token)
      PROVE  \E k \in First(old, token) : l = Moved(k, x, d)
  <2>1. /\ l \in DOMAIN new /\ new[l] = token
        /\ \A j \in DOMAIN new : j < l => new[j] # token
    BY <1>1 DEF First
  <2>2. l \notin x + 1 .. y + d - 1
    BY <2>1 DEF Cut
  <2>3. PICK k \in Kept(old, x, y) : l = Moved(k, x, d)
    BY <2>1, <2>2, KeptMoves
  <2>4. old[k] = token /\ k \in DOMAIN old
    BY <2>1, <2>3, KeptMoves DEF Kept
  <2>5. ASSUME NEW j \in DOMAIN old, old[j] = token, j < k PROVE FALSE
    <3>1. j \in DOMAIN old /\ j < k
      BY <2>5
    <3>2. j \in Kept(old, x, y)
      BY <1>2, <2>5, <3>1
    <3>3. /\ Moved(j, x, d) < l /\ Moved(j, x, d) \in DOMAIN new
          /\ new[Moved(j, x, d)] = token
      BY <2>3, <2>5, <3>1, <3>2, KeptMoves
    <3> QED
      BY <2>1, <3>3
  <2>6. \A j \in DOMAIN old : old[j] = token => k <= j
    BY <1>1, <2>4, <2>5
  <2> QED
    BY <2>3, <2>4, <2>6 DEF First
<1> QED
  BY <1>3, <1>4, <1>5

LEMMA MarkersOf ==
  ASSUME NEW c \in Country, NEW f \in Families
  PROVE  Begin[c][f] \in Markers /\ End[c][f] \in Markers
BY DEF Markers

(* What stays is inside of a block after the cut if it was before.         *)
LEMMA SpanMoves ==
  ASSUME NEW old, NEW new, NEW x, NEW y, NEW d, Cut(old, new, x, y, d),
         NEW c \in Country, NEW f \in Families, NEW k \in Kept(old, x, y)
  PROVE  k \in Span(old, c, f) <=> Moved(k, x, d) \in Span(new, c, f)
<1> DEFINE B == First(old, Begin[c][f])
           E == First(old, End[c][f])
<1>1. /\ B \subseteq Kept(old, x, y) /\ E \subseteq Kept(old, x, y)
      /\ First(new, Begin[c][f]) = {Moved(b, x, d) : b \in B}
      /\ First(new, End[c][f]) = {Moved(e, x, d) : e \in E}
  BY FirstMoves, MarkersOf
<1>2. /\ Kept(old, x, y) \subseteq Int
      /\ \A j \in Kept(old, x, y) : Moved(j, x, d) \in Int
  BY KeptMoves DEF Kept, Moved, Cut
<1>3. k \in Span(old, c, f) <=> \E b \in B, e \in E : b < k /\ k < e
  BY DEF Span, Kept
<1> HIDE DEF B, E
<1>4. Moved(k, x, d) \in Span(new, c, f)
        <=> \E b \in B, e \in E : /\ Moved(b, x, d) < Moved(k, x, d)
                                  /\ Moved(k, x, d) < Moved(e, x, d)
  <2> DEFINE m == Moved(k, x, d)
  <2>1. m \in DOMAIN new
    BY KeptMoves
  <2> HIDE DEF m
  <2>2. m \in Span(new, c, f) <=> \E b \in B, e \in E : /\ Moved(b, x, d) < m
                                                       /\ m < Moved(e, x, d)
    BY <1>1, <2>1 DEF Span
  <2> QED
    BY <2>2 DEF m
<1>5. \A b \in B, e \in E : /\ b < k <=> Moved(b, x, d) < Moved(k, x, d)
                            /\ k < e <=> Moved(k, x, d) < Moved(e, x, d)
  BY <1>1, KeptMoves
<1> QED
  BY <1>3, <1>4, <1>5

-----------------------------------------------------------------------------
(* splice cuts.                                                            *)

\* The last place of what splice copies up to the body, and the body.
Lead(cfg, b) == IF b < Len(cfg) /\ cfg[b + 1] = NL THEN b + 1 ELSE b
Piece(body) == IF body = <<>> THEN <<>> ELSE Append(body, NL)

LEMMA WantedTokens ==
  ASSUME NEW want \in Wants, NEW f \in Families
  PROVE  /\ Piece(want[f]) \in Seq(Networks \cup {NL})
         /\ Piece(want[f]) \in Seq(Token)
         /\ \A k \in DOMAIN Piece(want[f]) : Piece(want[f])[k] \notin Markers
<1> DEFINE p == Piece(want[f])
<1>1. p \in Seq(Networks \cup {NL})
  <2>1. want[f] \in Seq(Networks \cup {NL})
    BY WantsAssumption
  <2>2. Append(want[f], NL) \in Seq(Networks \cup {NL})
    BY <2>1
  <2> QED
    BY <2>1, <2>2 DEF Piece
<1> HIDE DEF p
<1>2. \A k \in DOMAIN p : p[k] \in Networks \cup {NL}
  BY <1>1, ElementOfSeq, LenProperties
<1>3. p \in Seq(Token)
  <2>1. Networks \cup {NL} \subseteq Token
    BY DEF Token
  <2> QED
    BY <1>1, <2>1, SeqMonotonic
<1>4. (Networks \cup {NL}) \intersect Markers = {}
  BY TokensAssumption
<1> QED
  BY <1>1, <1>2, <1>3, <1>4 DEF p

(* What a splice makes of cfg: body p from x on, in the place of what was   *)
(* there before the END at e.                                              *)
Shape(cfg, new, begin, end, b, e, x, p, d) ==
  /\ b \in 1 .. Len(cfg) /\ e \in 1 .. Len(cfg) /\ b < e
  /\ cfg[b] = begin /\ cfg[e] = end
  /\ First(cfg, begin) = {b} /\ First(cfg, end) = {e}
  /\ x \in {b, b + 1} /\ x < e /\ Len(p) \in Nat
  /\ x = b + 1 <=> cfg[b + 1] = NL
  /\ new \in Seq(Token)
  /\ d = x + Len(p) + 1 - e
  /\ Len(new) = Len(cfg) + d
  /\ \A k \in 1 .. x : new[k] = cfg[k]
  /\ \A k \in 1 .. Len(p) : new[x + k] = p[k]
  /\ \A k \in e .. Len(cfg) : new[k + d] = cfg[k]

LEMMA SpliceShape ==
  ASSUME NEW cfg \in Seq(Token), NEW begin \in Markers, NEW end \in Markers,
         NEW body, Piece(body) \in Seq(Token),
         Spliceable(cfg, begin, end)
  PROVE  LET b == Index(cfg, begin)
             e == Index(cfg, end)
             x == Lead(cfg, b)
             p == Piece(body)
         IN  Shape(cfg, Splice(cfg, begin, end, body), begin, end,
                   b, e, x, p, x + Len(p) + 1 - e)
<1> DEFINE b   == Index(cfg, begin)
           e   == Index(cfg, end)
           x   == Lead(cfg, b)
           p   == Piece(body)
           n   == Len(p)
           m   == Len(cfg)
           new == Splice(cfg, begin, end, body)
           d   == x + n + 1 - e
<1>1. /\ b > 0 /\ e > b /\ b \in Nat /\ e \in Nat
  BY IndexIsFirst DEF Spliceable
<1>2. /\ b \in DOMAIN cfg /\ cfg[b] = begin /\ First(cfg, begin) = {b}
      /\ e \in DOMAIN cfg /\ cfg[e] = end /\ First(cfg, end) = {e}
  BY <1>1, IndexIsFirst
<1>3. m \in Nat /\ DOMAIN cfg = 1 .. m /\ n \in Nat /\ DOMAIN p = 1 .. n /\ p \in Seq(Token)
  BY LenProperties
<1>4. b \in 1 .. m /\ e \in 1 .. m /\ b < e
  BY <1>1, <1>2, <1>3
<1> HIDE DEF b, e
<1>5. end # NL
  BY TokensAssumption
<1>6. x \in {b, b + 1} /\ x < e /\ (x = b + 1 <=> cfg[b + 1] = NL)
  <2>1. CASE cfg[b + 1] = NL
    <3>1. b + 1 # e /\ b < m
      BY <1>2, <1>4, <1>5, <2>1
    <3> QED
      BY <1>4, <2>1, <3>1 DEF Lead
  <2>2. CASE cfg[b + 1] # NL
    BY <1>4, <2>2 DEF Lead
  <2> QED
    BY <2>1, <2>2
<1>7. x \in 1 .. m /\ x \in Nat /\ d \in Int
  BY <1>3, <1>4, <1>6
<1>8. new = SubSeq(cfg, 1, x) \o p \o SubSeq(cfg, e, m)
  BY DEF Splice, Lead, Piece, b, e
<1> HIDE DEF x, p, n, m, new
<1> DEFINE s == SubSeq(cfg, 1, x)
           t == SubSeq(cfg, e, m)
<1>9. /\ s \in Seq(Token) /\ Len(s) = x /\ \A k \in 1 .. x : s[k] = cfg[k]
  <2>1. \A i \in 1 .. x : cfg[i] \in Token
    BY <1>3, <1>7, ElementOfSeq DEF m
  <2>2. 1 \in Int /\ x \in Int
    BY <1>7
  <2>3. /\ s \in Seq(Token) /\ Len(s) = (IF 1 <= x THEN x - 1 + 1 ELSE 0)
        /\ \A k \in 1 .. x - 1 + 1 : s[k] = cfg[1 + k - 1]
    BY <2>1, <2>2, SubSeqProperties
  <2> HIDE DEF s
  <2>4. x - 1 + 1 = x /\ 1 <= x /\ \A k \in 1 .. x : 1 + k - 1 = k
    BY <1>7
  <2> QED
    BY <2>3, <2>4
<1>10. /\ t \in Seq(Token) /\ Len(t) = m - e + 1
       /\ \A k \in 1 .. m - e + 1 : t[k] = cfg[e + k - 1]
  <2>1. \A i \in e .. m : cfg[i] \in Token
    BY <1>3, <1>4, ElementOfSeq DEF m
  <2>2. e \in Int /\ m \in Int
    BY <1>3, <1>4
  <2>3. /\ t \in Seq(Token) /\ Len(t) = (IF e <= m THEN m - e + 1 ELSE 0)
        /\ \A k \in 1 .. m - e + 1 : t[k] = cfg[e + k - 1]
    BY <2>1, <2>2, SubSeqProperties
  <2> HIDE DEF t
  <2> QED
    BY <1>4, <2>3
<1> HIDE DEF s, t
<1> DEFINE u == s \o p
<1>11. /\ u \in Seq(Token) /\ Len(u) = x + n
       /\ \A k \in 1 .. x : u[k] = cfg[k]
       /\ \A k \in 1 .. n : u[x + k] = p[k]
  <2>1. /\ u \in Seq(Token) /\ Len(u) = Len(s) + Len(p)
        /\ \A k \in 1 .. Len(s) + Len(p) :
             u[k] = IF k <= Len(s) THEN s[k] ELSE p[k - Len(s)]
    BY <1>3, <1>9, ConcatProperties
  <2> HIDE DEF u
  <2>2. \A k \in 1 .. x : k \in 1 .. x + n /\ k <= x
    BY <1>3, <1>7
  <2>3. \A k \in 1 .. n : x + k \in 1 .. x + n /\ ~(x + k <= x) /\ x + k - x = k
    BY <1>3, <1>7
  <2> QED
    BY <1>9, <2>1, <2>2, <2>3 DEF n
<1> HIDE DEF u
<1>12. /\ new \in Seq(Token) /\ Len(new) = (x + n) + (m - e + 1)
       /\ \A k \in 1 .. x : new[k] = cfg[k]
       /\ \A k \in 1 .. n : new[x + k] = p[k]
       /\ \A k \in e .. m : new[k + d] = cfg[k]
  <2>1. new = u \o t
    BY <1>8 DEF u, s, t
  <2>2. /\ new \in Seq(Token) /\ Len(new) = Len(u) + Len(t)
        /\ \A k \in 1 .. Len(u) + Len(t) :
             new[k] = IF k <= Len(u) THEN u[k] ELSE t[k - Len(u)]
    BY <1>10, <1>11, <2>1, ConcatProperties
  <2>3. \A k \in 1 .. x : k \in 1 .. (x + n) + (m - e + 1) /\ k <= x + n
    BY <1>3, <1>4, <1>7
  <2>4. \A k \in 1 .. n : x + k \in 1 .. (x + n) + (m - e + 1) /\ x + k <= x + n
    BY <1>3, <1>4, <1>7
  <2>5. ASSUME NEW k \in e .. m PROVE new[k + d] = cfg[k]
    <3>1. /\ k + d \in 1 .. (x + n) + (m - e + 1) /\ ~(k + d <= x + n)
          /\ k + d - (x + n) = k - e + 1 /\ k - e + 1 \in 1 .. m - e + 1
          /\ e + (k - e + 1) - 1 = k
      BY <1>3, <1>4, <1>7
    <3> DEFINE l == k + d
    <3> HIDE DEF d
    <3>2. l \in 1 .. Len(u) + Len(t) /\ ~(l <= Len(u)) /\ l - Len(u) = k - e + 1
      BY <1>3, <1>4, <1>7, <1>10, <1>11, <3>1
    <3> HIDE DEF l
    <3>3. new[l] = t[k - e + 1]
      BY <2>2, <3>2
    <3>4. new[k + d] = t[k - e + 1]
      BY <3>3 DEF l
    <3> QED
      BY <1>10, <3>1, <3>4
  <2> QED
    BY <1>10, <1>11, <2>2, <2>3, <2>4, <2>5
<1>13. Len(new) = m + d
  BY <1>3, <1>4, <1>7, <1>12
<1> QED
  <2>1. Shape(cfg, new, begin, end, b, e, x, p, d)
    BY <1>2, <1>3, <1>4, <1>6, <1>12, <1>13 DEF Shape, n, m
  <2> QED
    BY <2>1 DEF b, e, x, p, n, new

\* The places of a cut that splices the block of a country and a family.
BeginAt(cfg, c, f) == Index(cfg, Begin[c][f])
EndAt(cfg, c, f) == Index(cfg, End[c][f])
LeadAt(cfg, c, f) == Lead(cfg, BeginAt(cfg, c, f))
Shift(cfg, c, f, want) == LeadAt(cfg, c, f) + Len(Piece(want[f])) + 1 - EndAt(cfg, c, f)

LEMMA SpliceBlockShape ==
  ASSUME NEW cfg \in Seq(Token), NEW want \in Wants,
         NEW c \in Country, NEW f \in Families, Has(cfg, c, f)
  PROVE  Shape(cfg, SpliceBlock(cfg, c, f, want), Begin[c][f], End[c][f],
               BeginAt(cfg, c, f), EndAt(cfg, c, f), LeadAt(cfg, c, f),
               Piece(want[f]), Shift(cfg, c, f, want))
<1>1. Begin[c][f] \in Markers /\ End[c][f] \in Markers
  BY MarkersOf
<1>2. Piece(want[f]) \in Seq(Token)
  BY WantedTokens
<1>3. Spliceable(cfg, Begin[c][f], End[c][f])
  BY DEF Has
<1> QED
  BY <1>1, <1>2, <1>3, SpliceShape
     DEF BeginAt, EndAt, LeadAt, Shift, SpliceBlock

(* Without BEGIN or END no text is spliced; with them, the result is one   *)
(* that has a place for the next block.                                    *)
LEMMA SpliceIsText ==
  ASSUME NEW cfg \in Seq(Token), NEW want \in Wants,
         NEW c \in Country, NEW f \in Families, Has(cfg, c, f)
  PROVE  /\ SpliceBlock(cfg, c, f, want) \in Seq(Token)
         /\ SpliceBlock(cfg, c, f, want) # <<>>
         /\ cfg # <<>>
<1> DEFINE new == SpliceBlock(cfg, c, f, want)
           m   == Len(cfg)
<1>1. /\ EndAt(cfg, c, f) \in 1 .. m /\ BeginAt(cfg, c, f) \in 1 .. m
      /\ LeadAt(cfg, c, f) \in {BeginAt(cfg, c, f), BeginAt(cfg, c, f) + 1}
      /\ Len(Piece(want[f])) \in Nat
      /\ Shift(cfg, c, f, want)
           = LeadAt(cfg, c, f) + Len(Piece(want[f])) + 1 - EndAt(cfg, c, f)
      /\ new \in Seq(Token) /\ Len(new) = m + Shift(cfg, c, f, want)
  BY SpliceBlockShape DEF Shape
<1>2. m \in Nat
  BY LenProperties
<1> HIDE DEF new, m
<1>3. m # 0 /\ Len(new) # 0
  BY <1>1, <1>2
<1>4. Len(<<>>) = 0
  OBVIOUS
<1> QED
  BY <1>1, <1>3, <1>4 DEF new, m

\* The block of a country and a family is cut, and stays where it is.
CutsBlock(old, new, c, f, b, e, x, d) ==
  /\ Cut(old, new, x, e, d)
  /\ First(new, Begin[c][f]) = {b}
  /\ First(new, End[c][f]) = {e + d}
  /\ x + 1 .. e - 1 \subseteq Span(old, c, f)
  /\ x + 1 .. e + d - 1 \subseteq Span(new, c, f)

LEMMA SpliceCuts ==
  ASSUME NEW cfg \in Seq(Token), BlocksApart(cfg), NEW want \in Wants,
         NEW c \in Country, NEW f \in Families, Has(cfg, c, f)
  PROVE  CutsBlock(cfg, SpliceBlock(cfg, c, f, want), c, f, BeginAt(cfg, c, f),
                   EndAt(cfg, c, f), LeadAt(cfg, c, f), Shift(cfg, c, f, want))
<1> DEFINE b   == BeginAt(cfg, c, f)
           e   == EndAt(cfg, c, f)
           x   == LeadAt(cfg, c, f)
           p   == Piece(want[f])
           n   == Len(p)
           m   == Len(cfg)
           new == SpliceBlock(cfg, c, f, want)
           d   == Shift(cfg, c, f, want)
<1> HIDE DEF b, e, x, p, new, d
<1>1. Shape(cfg, new, Begin[c][f], End[c][f], b, e, x, p, d)
  BY SpliceBlockShape DEF b, e, x, p, new, d
<1>2. /\ m \in Nat /\ DOMAIN cfg = 1 .. m /\ DOMAIN new = 1 .. Len(new)
      /\ DOMAIN p = 1 .. n /\ \A k \in DOMAIN p : p[k] \notin Markers
  BY <1>1, WantedTokens, LenProperties DEF Shape, p
<1> HIDE DEF n, m
<1>3. /\ b \in 1 .. m /\ e \in 1 .. m /\ b < e /\ x \in {b, b + 1} /\ x < e
      /\ n \in Nat /\ d = x + n + 1 - e /\ Len(new) = m + d
      /\ \A k \in 1 .. n : new[x + k] = p[k]
      /\ First(cfg, Begin[c][f]) = {b} /\ First(cfg, End[c][f]) = {e}
  BY <1>1 DEF Shape, n, m
<1>31. /\ x \in Nat /\ e \in Nat /\ d \in Int /\ x < e + d /\ e <= m
      /\ \A k \in x + 1 .. e + d - 1 : k - x \in 1 .. n /\ x + (k - x) = k
  <2>1. m \in Nat /\ b \in 1 .. m /\ e \in 1 .. m /\ x \in {b, b + 1} /\ n \in Nat
    BY <1>2, <1>3
  <2>2. d = x + n + 1 - e
    BY <1>3
  <2>3. x \in Nat /\ e \in Nat /\ e <= m
    BY <2>1
  <2>4. d \in Int /\ x < e + d /\ e + d - 1 = x + n
    BY <2>1, <2>2, <2>3
  <2> QED
    BY <2>1, <2>3, <2>4
<1>4. x + 1 .. e - 1 \subseteq Span(cfg, c, f)
  BY <1>2, <1>3, <1>31 DEF Span
<1>5. \A k \in x + 1 .. e - 1 : cfg[k] \notin Markers
  BY <1>4 DEF BlocksApart
<1>6. ASSUME NEW k \in x + 1 .. e + d - 1 PROVE new[k] \notin Markers
  <2>1. k - x \in 1 .. n /\ x + (k - x) = k
    BY <1>31
  <2>2. new[k] = p[k - x]
    BY <1>3, <2>1
  <2> QED
    BY <1>2, <2>1, <2>2
<1>7. Cut(cfg, new, x, e, d)
  <2>1. /\ Len(new) = Len(cfg) + d /\ e <= Len(cfg)
        /\ \A k \in e .. Len(cfg) : new[k + d] = cfg[k]
        /\ \A k \in 1 .. x : new[k] = cfg[k]
        /\ cfg \in Seq(Token) /\ new \in Seq(Token)
    BY <1>1, <1>3, <1>31 DEF Shape, m
  <2> QED
    BY <1>3, <1>31, <1>5, <1>6, <2>1 DEF Cut
<1>8. /\ First(new, Begin[c][f]) = {Moved(k, x, d) : k \in {b}}
      /\ First(new, End[c][f]) = {Moved(k, x, d) : k \in {e}}
  BY <1>3, <1>7, FirstMoves, MarkersOf
<1>9. Moved(b, x, d) = b /\ Moved(e, x, d) = e + d
  BY <1>2, <1>3 DEF Moved
<1>10. First(new, Begin[c][f]) = {b} /\ First(new, End[c][f]) = {e + d}
  BY <1>8, <1>9
<1>11. x + 1 .. e + d - 1 \subseteq Span(new, c, f)
  <2> SUFFICES ASSUME NEW k \in x + 1 .. e + d - 1 PROVE k \in Span(new, c, f)
    OBVIOUS
  <2>1. k \in Int /\ k >= x + 1 /\ k <= e + d - 1
    BY <1>31
  <2>2. b \in Int /\ b <= x
    BY <1>2, <1>3
  <2>3. b < k /\ k < e + d
    BY <1>31, <2>1, <2>2
  <2>4. 1 <= k /\ k <= m + d /\ m + d \in Int
    BY <1>2, <1>3, <1>31, <2>1
  <2>5. k \in DOMAIN new
    BY <1>2, <1>3, <2>1, <2>4
  <2> QED
    BY <1>10, <2>3, <2>5 DEF Span
<1> QED
  <2>1. CutsBlock(cfg, new, c, f, b, e, x, d)
    BY <1>4, <1>7, <1>10, <1>11 DEF CutsBlock
  <2> QED
    BY <2>1 DEF b, e, x, new, d

-----------------------------------------------------------------------------
(* What a splice leaves alone.                                             *)

(* The blocks stay apart.                                                  *)
LEMMA SpliceKeepsApart ==
  ASSUME NEW cfg \in Seq(Token), BlocksApart(cfg), NEW want \in Wants,
         NEW c \in Country, NEW f \in Families, Has(cfg, c, f)
  PROVE  BlocksApart(SpliceBlock(cfg, c, f, want))
<1> DEFINE new == SpliceBlock(cfg, c, f, want)
           x   == LeadAt(cfg, c, f)
           y   == EndAt(cfg, c, f)
           d   == Shift(cfg, c, f, want)
<1>1. Cut(cfg, new, x, y, d)
  BY SpliceCuts DEF CutsBlock
<1> HIDE DEF new, x, y, d
<1> SUFFICES ASSUME NEW g \in Country, NEW h \in Families, NEW i \in Span(new, g, h)
             PROVE  new[i] \notin Markers
  BY DEF BlocksApart, new
<1>2. i \in DOMAIN new
  BY DEF Span
<1>3. CASE i \in x + 1 .. y + d - 1
  BY <1>1, <1>3 DEF Cut
<1>4. CASE i \notin x + 1 .. y + d - 1
  <2>1. PICK k \in Kept(cfg, x, y) : i = Moved(k, x, d)
    BY <1>1, <1>2, <1>4, KeptMoves
  <2>2. k \in Span(cfg, g, h) /\ new[i] = cfg[k]
    BY <1>1, <2>1, SpanMoves, KeptMoves
  <2> QED
    BY <2>2 DEF BlocksApart
<1> QED
  BY <1>3, <1>4

(* The tokens outside of all blocks stay, and each keeps its rank.         *)
LEMMA SpliceKeepsForeign ==
  ASSUME NEW cfg \in Seq(Token), BlocksApart(cfg), NEW want \in Wants,
         NEW c \in Country, NEW f \in Families, Has(cfg, c, f)
  PROVE  Foreign(SpliceBlock(cfg, c, f, want)) = Foreign(cfg)
<1> DEFINE new == SpliceBlock(cfg, c, f, want)
           x   == LeadAt(cfg, c, f)
           y   == EndAt(cfg, c, f)
           d   == Shift(cfg, c, f, want)
           O   == Outside(cfg)
           P   == Outside(new)
           Below(i) == {j \in O : j <= i}
           BelowNew(i) == {j \in P : j <= i}
<1>1. /\ Cut(cfg, new, x, y, d)
      /\ x + 1 .. y - 1 \subseteq Span(cfg, c, f)
      /\ x + 1 .. y + d - 1 \subseteq Span(new, c, f)
  BY SpliceCuts DEF CutsBlock
<1> HIDE DEF new, x, y, d
<1>2. DOMAIN cfg = 1 .. Len(cfg) /\ Len(cfg) \in Nat /\ x \in Nat /\ y \in Nat /\ d \in Int
  BY <1>1, LenProperties DEF Cut
<1>3. O \subseteq Kept(cfg, x, y)
  <2> SUFFICES ASSUME NEW k \in DOMAIN cfg, k \notin Span(cfg, c, f)
               PROVE  k \in Kept(cfg, x, y)
    BY DEF Outside
  <2>1. k \notin x + 1 .. y - 1
    BY <1>1
  <2> QED
    BY <1>2, <2>1 DEF Kept
<1>4. ASSUME NEW k \in Kept(cfg, x, y) PROVE k \in O <=> Moved(k, x, d) \in P
  <2>1. k \in DOMAIN cfg /\ Moved(k, x, d) \in DOMAIN new
    BY <1>1, KeptMoves DEF Kept
  <2>2. \A g \in Country, h \in Families :
          k \in Span(cfg, g, h) <=> Moved(k, x, d) \in Span(new, g, h)
    BY <1>1, SpanMoves
  <2> QED
    BY <2>1, <2>2 DEF Outside
<1>5. ASSUME NEW l \in P PROVE \E k \in O : l = Moved(k, x, d)
  <2>1. l \in DOMAIN new /\ l \notin Span(new, c, f)
    BY DEF Outside
  <2>2. PICK k \in Kept(cfg, x, y) : l = Moved(k, x, d)
    BY <1>1, <2>1, KeptMoves
  <2> QED
    BY <1>4, <2>2
<1>6. IsFiniteSet(DOMAIN cfg) /\ O \subseteq DOMAIN cfg
  BY <1>2, FS_Interval DEF Outside
<1>7. \A i \in DOMAIN cfg : i \in Int
  BY <1>2
<1>8. \A k \in O : Moved(k, x, d) \in P /\ Moved(k, x, d) \in Int /\ k \in Int
  BY <1>2, <1>3, <1>4, <1>6, <1>7 DEF Moved
<1>9. \A j, k \in O : j <= k <=> Moved(j, x, d) <= Moved(k, x, d)
  <2>1. \A j, k \in O : k < j <=> Moved(k, x, d) < Moved(j, x, d)
    BY <1>1, <1>3, KeptMoves
  <2> HIDE DEF O
  <2> QED
    BY <1>8, <2>1
<1> HIDE DEF O, P
<1>10. ASSUME NEW k \in O
       PROVE  /\ Cardinality(BelowNew(Moved(k, x, d))) = Cardinality(Below(k))
              /\ new[Moved(k, x, d)] = cfg[k]
  <2> DEFINE S == Below(k)
             T == BelowNew(Moved(k, x, d))
             m == [j \in S |-> Moved(j, x, d)]
  <2>1. \A j \in S : m[j] \in T
    BY <1>8, <1>9
  <2>2. \A l \in T : \E j \in S : m[j] = l
    <3> SUFFICES ASSUME NEW l \in T PROVE \E j \in S : m[j] = l
      OBVIOUS
    <3>1. PICK j \in O : l = Moved(j, x, d)
      BY <1>5
    <3>2. j \in S
      BY <1>9, <3>1
    <3> QED
      BY <3>1, <3>2
  <2>3. \A j, l \in S : m[j] = m[l] => j = l
    <3> SUFFICES ASSUME NEW j \in S, NEW l \in S, Moved(j, x, d) = Moved(l, x, d)
                 PROVE  j = l
      OBVIOUS
    <3>1. j <= l /\ l <= j
      BY <1>8, <1>9
    <3> QED
      BY <1>8, <3>1
  <2>4. IsFiniteSet(S)
    BY <1>6, FS_Subset
  <2>5. DOMAIN m = S /\ m = [j \in S |-> m[j]]
    OBVIOUS
  <2> HIDE DEF S, T, m
  <2>6. m \in [S -> T]
    BY <2>1, <2>5
  <2>7. m \in Bijection(S, T)
    BY <2>2, <2>3, <2>6 DEF Bijection, Injection, Surjection, IsInjective
  <2>8. Cardinality(T) = Cardinality(S)
    BY <2>4, <2>7, FS_Bijection DEF ExistsBijection
  <2>9. new[Moved(k, x, d)] = cfg[k]
    BY <1>1, <1>3, KeptMoves
  <2> QED
    BY <2>8, <2>9 DEF S, T
<1>11. Foreign(cfg) = {<<Cardinality(Below(i)), cfg[i]>> : i \in O}
  BY DEF Foreign, O
<1>12. Foreign(new) = {<<Cardinality(BelowNew(i)), new[i]>> : i \in P}
  BY DEF Foreign, P
<1> HIDE DEF Below, BelowNew
<1>13. ASSUME NEW k \in O PROVE <<Cardinality(Below(k)), cfg[k]>> \in Foreign(new)
  BY <1>8, <1>10, <1>12
<1>14. ASSUME NEW l \in P PROVE <<Cardinality(BelowNew(l)), new[l]>> \in Foreign(cfg)
  <2>1. PICK k \in O : l = Moved(k, x, d)
    BY <1>5
  <2> QED
    BY <1>10, <1>11, <2>1
<1>15. Foreign(new) = Foreign(cfg)
  BY <1>11, <1>12, <1>13, <1>14
<1> QED
  BY <1>15 DEF new

-----------------------------------------------------------------------------
(* What FRR reads after a splice.                                          *)

(* The places of two blocks are different ones.                            *)
LEMMA BlocksDisjoint ==
  ASSUME NEW cfg \in Seq(Token), BlocksApart(cfg),
         NEW c \in Country, NEW f \in Families, NEW g \in Country, NEW h \in Families,
         <<c, f>> # <<g, h>>
  PROVE  Span(cfg, c, f) \intersect Span(cfg, g, h) = {}
<1> SUFFICES ASSUME NEW i \in Span(cfg, c, f), i \in Span(cfg, g, h)
             PROVE  FALSE
  OBVIOUS
<1>1. PICK b \in First(cfg, Begin[c][f]), e \in First(cfg, End[c][f]) : b < i /\ i < e
  BY DEF Span
<1>2. PICK a \in First(cfg, Begin[g][h]), z \in First(cfg, End[g][h]) : a < i /\ i < z
  BY DEF Span
<1>3. /\ a \in DOMAIN cfg /\ cfg[a] = Begin[g][h] /\ cfg[a] \in Markers
      /\ b \in DOMAIN cfg /\ cfg[b] = Begin[c][f] /\ cfg[b] \in Markers
      /\ e \in DOMAIN cfg /\ z \in DOMAIN cfg /\ i \in DOMAIN cfg
  BY MarkersOf DEF First, Span
<1>4. a # b
  BY <1>3, TokensAssumption
<1>5. DOMAIN cfg \subseteq Int
  BY LenProperties
<1>6. CASE b < a
  <2>1. a \in Span(cfg, c, f)
    BY <1>1, <1>2, <1>3, <1>5, <1>6 DEF Span
  <2> QED
    BY <1>3, <2>1 DEF BlocksApart
<1>7. CASE a < b
  <2>1. b \in Span(cfg, g, h)
    BY <1>1, <1>2, <1>3, <1>5, <1>7 DEF Span
  <2> QED
    BY <1>3, <2>1 DEF BlocksApart
<1> QED
  BY <1>3, <1>4, <1>5, <1>6, <1>7

(* A place and the one before it stay neighbours, unless the cut is        *)
(* between them.                                                           *)
LEMMA NeighboursMove ==
  ASSUME NEW old, NEW new, NEW x, NEW y, NEW d, Cut(old, new, x, y, d),
         NEW k \in Kept(old, x, y)
  PROVE  /\ k > 1 /\ k # y => k - 1 \in Kept(old, x, y) /\ Moved(k - 1, x, d) = Moved(k, x, d) - 1
         /\ k + 1 \in DOMAIN old /\ k # x =>
              k + 1 \in Kept(old, x, y) /\ Moved(k + 1, x, d) = Moved(k, x, d) + 1
<1>1. /\ DOMAIN old = 1 .. Len(old) /\ Len(old) \in Nat
      /\ x \in Nat /\ y \in Nat /\ d \in Int /\ x < y
  BY LenProperties DEF Cut
<1>2. k \in 1 .. Len(old) /\ (k <= x \/ k >= y)
  BY <1>1 DEF Kept
<1>3. ASSUME k > 1, k # y
      PROVE  k - 1 \in Kept(old, x, y) /\ Moved(k - 1, x, d) = Moved(k, x, d) - 1
  BY <1>1, <1>2, <1>3 DEF Kept, Moved
<1>4. ASSUME k + 1 \in DOMAIN old, k # x
      PROVE  k + 1 \in Kept(old, x, y) /\ Moved(k + 1, x, d) = Moved(k, x, d) + 1
  BY <1>1, <1>2, <1>4 DEF Kept, Moved
<1> QED
  BY <1>3, <1>4

(* BEGIN still ends its line.                                              *)
LEMMA SpliceKeepsLines ==
  ASSUME NEW cfg \in Seq(Token), BlocksApart(cfg), BeginEndsLine(cfg), NEW want \in Wants,
         NEW c \in Country, NEW f \in Families, Has(cfg, c, f)
  PROVE  /\ BeginEndsLine(SpliceBlock(cfg, c, f, want))
         /\ LeadAt(cfg, c, f) = BeginAt(cfg, c, f) + 1
         /\ cfg[LeadAt(cfg, c, f)] = NL
<1> DEFINE new == SpliceBlock(cfg, c, f, want)
           b   == BeginAt(cfg, c, f)
           x   == LeadAt(cfg, c, f)
           y   == EndAt(cfg, c, f)
           d   == Shift(cfg, c, f, want)
<1>1. Cut(cfg, new, x, y, d)
  BY SpliceCuts DEF CutsBlock
<1>2. x = b + 1 /\ cfg[b + 1] = NL
  <2> HIDE DEF new, b, x, y, d
  <2>1. Shape(cfg, new, Begin[c][f], End[c][f], b, y, x, Piece(want[f]), d)
    BY SpliceBlockShape DEF new, b, x, y, d
  <2>2. First(cfg, Begin[c][f]) = {b} /\ (x = b + 1 <=> cfg[b + 1] = NL)
    BY <2>1 DEF Shape
  <2>3. cfg[b + 1] = NL
    BY <2>2 DEF BeginEndsLine
  <2> QED
    BY <2>2, <2>3
<1> HIDE DEF new, b, x, y, d
<1>3. ASSUME NEW g \in Country, NEW h \in Families, NEW a \in First(new, Begin[g][h])
      PROVE  a + 1 \in DOMAIN new /\ new[a + 1] = NL
  <2>1. /\ First(cfg, Begin[g][h]) \subseteq Kept(cfg, x, y)
        /\ First(new, Begin[g][h]) = {Moved(k, x, d) : k \in First(cfg, Begin[g][h])}
    BY <1>1, FirstMoves, MarkersOf
  <2>2. PICK k \in First(cfg, Begin[g][h]) : a = Moved(k, x, d)
    BY <2>1
  <2>3. /\ k \in Kept(cfg, x, y) /\ k + 1 \in DOMAIN cfg /\ cfg[k + 1] = NL
        /\ cfg[k] = Begin[g][h]
    BY <2>1 DEF BeginEndsLine, First
  <2>4. k # x
    BY <1>2, <2>3, MarkersOf, TokensAssumption
  <2>5. k + 1 \in Kept(cfg, x, y) /\ Moved(k + 1, x, d) = a + 1
    BY <1>1, <2>2, <2>3, <2>4, NeighboursMove
  <2> QED
    BY <1>1, <2>3, <2>5, KeptMoves
<1> QED
  BY <1>2, <1>3 DEF BeginEndsLine, new, b, x

(* The networks of a body, each on a line of its own.                      *)
LEMMA PieceNetworks ==
  ASSUME NEW want \in Wants, NEW f \in Families
  PROVE  /\ \A k \in DOMAIN Piece(want[f]) :
              Piece(want[f])[k] \in Networks =>
                /\ k = 1 \/ Piece(want[f])[k - 1] = NL
                /\ Piece(want[f])[k] \in ToSet(want[f])
         /\ \A t \in ToSet(want[f]) \intersect Networks :
              \E k \in DOMAIN Piece(want[f]) : Piece(want[f])[k] = t
<1> DEFINE w == want[f]
           p == Piece(w)
           n == Len(w)
<1>1. /\ w \in Seq(Networks \cup {NL})
      /\ \A k \in DOMAIN w : w[k] \in Networks => k = 1 \/ w[k - 1] = NL
  BY WantsAssumption
<1>2. n \in Nat /\ DOMAIN w = 1 .. n
  BY <1>1, LenProperties
<1> HIDE DEF w
<1>3. CASE w = <<>>
  <2>1. p = <<>> /\ DOMAIN p = {} /\ ToSet(w) = {}
    BY <1>3 DEF Piece, ToSet
  <2> QED
    BY <2>1 DEF w
<1>4. CASE w # <<>>
  <2>1. p = Append(w, NL)
    BY <1>4 DEF Piece
  <2>2. /\ DOMAIN p = 1 .. n + 1 /\ p[n + 1] = NL
        /\ \A k \in 1 .. n : p[k] = w[k]
    BY <1>1, <1>2, <2>1, AppendProperties
  <2> HIDE DEF p
  <2>3. ASSUME NEW k \in DOMAIN p, p[k] \in Networks
        PROVE  /\ k = 1 \/ p[k - 1] = NL
               /\ p[k] \in ToSet(w)
    <3>1. k # n + 1
      BY <2>2, <2>3, TokensAssumption
    <3> HIDE DEF n
    <3>2. k \in 1 .. n /\ (k = 1 \/ k - 1 \in 1 .. n)
      BY <1>2, <2>2, <3>1
    <3>3. p[k] = w[k] /\ (k = 1 \/ p[k - 1] = w[k - 1])
      BY <2>2, <3>2
    <3> QED
      BY <1>1, <1>2, <2>3, <3>2, <3>3 DEF ToSet
  <2>4. \A t \in ToSet(w) : \E k \in DOMAIN p : p[k] = t
    <3> SUFFICES ASSUME NEW i \in 1 .. n PROVE \E k \in DOMAIN p : p[k] = w[i]
      BY <1>2 DEF ToSet
    <3> HIDE DEF n
    <3>1. i \in DOMAIN p
      BY <1>2, <2>2
    <3> QED
      BY <2>2, <3>1
  <2> QED
    BY <2>3, <2>4 DEF w, p
<1> QED
  BY <1>3, <1>4

(* In the block of another country or family FRR reads what it read.       *)
LEMMA SpliceKeepsNetworks ==
  ASSUME NEW cfg \in Seq(Token), BlocksApart(cfg), NEW want \in Wants,
         NEW c \in Country, NEW f \in Families, Has(cfg, c, f),
         NEW g \in Country, NEW h \in Families, <<c, f>> # <<g, h>>
  PROVE  NetworksOf(SpliceBlock(cfg, c, f, want), g, h) = NetworksOf(cfg, g, h)
<1> DEFINE new == SpliceBlock(cfg, c, f, want)
           x   == LeadAt(cfg, c, f)
           y   == EndAt(cfg, c, f)
           d   == Shift(cfg, c, f, want)
           I   == {k \in Span(cfg, g, h) : cfg[k] \in Networks /\ cfg[k - 1] = NL}
           J   == {k \in Span(new, g, h) : new[k] \in Networks /\ new[k - 1] = NL}
<1>1. /\ Cut(cfg, new, x, y, d)
      /\ x + 1 .. y - 1 \subseteq Span(cfg, c, f)
      /\ x + 1 .. y + d - 1 \subseteq Span(new, c, f)
  BY SpliceCuts DEF CutsBlock
<1>2. new \in Seq(Token) /\ BlocksApart(new)
  BY SpliceIsText, SpliceKeepsApart
<1>3. cfg[y] \in Markers
  BY SpliceBlockShape, MarkersOf DEF Shape
<1> HIDE DEF new, x, y, d
<1>4. /\ DOMAIN cfg = 1 .. Len(cfg) /\ Len(cfg) \in Nat
      /\ x \in Nat /\ y \in Nat
  BY <1>1, LenProperties DEF Cut
<1>5. Span(cfg, g, h) \subseteq Kept(cfg, x, y)
  <2> SUFFICES ASSUME NEW k \in Span(cfg, g, h) PROVE k \in Kept(cfg, x, y)
    OBVIOUS
  <2>1. k \notin x + 1 .. y - 1 /\ k \in DOMAIN cfg
    BY <1>1, BlocksDisjoint DEF Span
  <2> QED
    BY <1>4, <2>1 DEF Kept
<1>6. ASSUME NEW l \in Span(new, g, h)
      PROVE  \E k \in Span(cfg, g, h) : l = Moved(k, x, d)
  <2>1. l \notin x + 1 .. y + d - 1 /\ l \in DOMAIN new
    BY <1>1, <1>2, BlocksDisjoint DEF Span
  <2>2. PICK k \in Kept(cfg, x, y) : l = Moved(k, x, d)
    BY <1>1, <2>1, KeptMoves
  <2> QED
    BY <1>1, <2>2, SpanMoves
<1>7. ASSUME NEW k \in Span(cfg, g, h)
      PROVE  /\ Moved(k, x, d) \in Span(new, g, h)
             /\ new[Moved(k, x, d)] = cfg[k]
             /\ cfg[k] \in Networks => new[Moved(k, x, d) - 1] = cfg[k - 1]
  <2>1. k \in Kept(cfg, x, y)
    BY <1>5
  <2>2. Moved(k, x, d) \in Span(new, g, h) /\ new[Moved(k, x, d)] = cfg[k]
    BY <1>1, <2>1, SpanMoves, KeptMoves
  <2>3. ASSUME cfg[k] \in Networks PROVE new[Moved(k, x, d) - 1] = cfg[k - 1]
    <3>1. k # y
      BY <1>3, <2>3, TokensAssumption
    <3>2. k > 1
      BY <1>4 DEF Span, First
    <3>3. k - 1 \in Kept(cfg, x, y) /\ Moved(k - 1, x, d) = Moved(k, x, d) - 1
      BY <1>1, <2>1, <3>1, <3>2, NeighboursMove
    <3> QED
      BY <1>1, <3>3, KeptMoves
  <2> QED
    BY <2>2, <2>3
<1>8. \A k \in I : Moved(k, x, d) \in J /\ new[Moved(k, x, d)] = cfg[k]
  BY <1>7
<1>9. \A l \in J : \E k \in I : new[l] = cfg[k]
  BY <1>6, <1>7
<1>10. /\ NetworksOf(cfg, g, h) = {cfg[k] : k \in I}
       /\ NetworksOf(new, g, h) = {new[l] : l \in J}
  BY DEF NetworksOf
<1> HIDE DEF I, J
<1>11. NetworksOf(new, g, h) = NetworksOf(cfg, g, h)
  BY <1>8, <1>9, <1>10
<1> QED
  BY <1>11 DEF new

(* In its own block FRR reads the wanted networks.                         *)
LEMMA SpliceWritesNetworks ==
  ASSUME NEW cfg \in Seq(Token), BlocksApart(cfg), BeginEndsLine(cfg), NEW want \in Wants,
         NEW c \in Country, NEW f \in Families, Has(cfg, c, f)
  PROVE  NetworksOf(SpliceBlock(cfg, c, f, want), c, f) = ToSet(want[f]) \intersect Networks
<1> DEFINE new == SpliceBlock(cfg, c, f, want)
           b   == BeginAt(cfg, c, f)
           x   == LeadAt(cfg, c, f)
           y   == EndAt(cfg, c, f)
           d   == Shift(cfg, c, f, want)
           p   == Piece(want[f])
           n   == Len(p)
           J   == {k \in Span(new, c, f) : new[k] \in Networks /\ new[k - 1] = NL}
<1>1. /\ x = b + 1 /\ cfg[x] = NL
  BY SpliceKeepsLines
<1> HIDE DEF new, b, x, y, d, p
<1>2. /\ First(new, Begin[c][f]) = {b} /\ First(new, End[c][f]) = {y + d}
      /\ x + 1 .. y + d - 1 \subseteq Span(new, c, f)
  <2>1. CutsBlock(cfg, new, c, f, b, y, x, d)
    BY SpliceCuts DEF new, b, x, y, d
  <2> QED
    BY <2>1 DEF CutsBlock
<1>3. Shape(cfg, new, Begin[c][f], End[c][f], b, y, x, p, d)
  BY SpliceBlockShape DEF new, b, x, y, d, p
<1>4. /\ b \in 1 .. Len(cfg) /\ y \in 1 .. Len(cfg) /\ n \in Nat /\ Len(cfg) \in Nat
      /\ d = x + n + 1 - y
      /\ \A k \in 1 .. x : new[k] = cfg[k]
      /\ \A k \in 1 .. n : new[x + k] = p[k]
  BY <1>3, LenProperties DEF Shape
<1>5. DOMAIN p = 1 .. n
  BY WantedTokens, LenProperties DEF p
<1> HIDE DEF n
<1>6. /\ x \in Nat /\ b \in Nat /\ y + d - 1 = x + n /\ y + d = x + n + 1
      /\ x \in 1 .. x
  BY <1>1, <1>4
<1>7. new[x] = NL
  BY <1>1, <1>4, <1>6
<1>8. Span(new, c, f) \subseteq x .. x + n
  <2> SUFFICES ASSUME NEW k \in Span(new, c, f) PROVE k \in x .. x + n
    OBVIOUS
  <2>1. k \in DOMAIN new /\ b < k /\ k < y + d
    BY <1>2 DEF Span
  <2>2. new \in Seq(Token)
    BY <1>3 DEF Shape
  <2>3. k \in Int
    BY <2>1, <2>2, LenProperties
  <2> QED
    BY <1>1, <1>4, <1>6, <2>1, <2>3
<1>9. ASSUME NEW l \in J PROVE new[l] \in ToSet(want[f]) \intersect Networks
  <2>1. l \in x .. x + n /\ l # x /\ new[l] \in Networks
    BY <1>7, <1>8, TokensAssumption
  <2>2. l - x \in 1 .. n /\ x + (l - x) = l
    BY <1>4, <1>6, <2>1
  <2>3. new[l] = p[l - x]
    BY <1>4, <2>2
  <2> QED
    BY <1>5, <2>1, <2>2, <2>3, PieceNetworks DEF p
<1>10. ASSUME NEW t \in ToSet(want[f]) \intersect Networks PROVE \E l \in J : new[l] = t
  <2>1. PICK k \in 1 .. n : p[k] = t
    <3>1. \A u \in ToSet(want[f]) \intersect Networks : \E k \in DOMAIN p : p[k] = u
      BY PieceNetworks DEF p
    <3>2. \E k \in DOMAIN p : p[k] = t
      BY <3>1
    <3> QED
      BY <1>5, <3>2
  <2>2. k = 1 \/ p[k - 1] = NL
    <3>1. \A j \in DOMAIN p : p[j] \in Networks => j = 1 \/ p[j - 1] = NL
      BY PieceNetworks DEF p
    <3> QED
      BY <1>5, <2>1, <3>1
  <2>3. x + k \in Span(new, c, f)
    <3>1. x + k \in x + 1 .. y + d - 1
      BY <1>4, <1>6
    <3> QED
      BY <1>2, <3>1
  <2>4. new[x + k] = t
    BY <1>4, <2>1
  <2>5. new[x + k - 1] = NL
    <3>1. CASE k = 1
      BY <1>6, <1>7, <3>1
    <3>2. CASE k # 1
      <4>1. k - 1 \in 1 .. n /\ x + k - 1 = x + (k - 1)
        BY <1>4, <1>6, <3>2
      <4> QED
        BY <1>4, <2>2, <3>2, <4>1
    <3> QED
      BY <3>1, <3>2
  <2>6. x + k \in J
    <3>1. new[x + k] \in Networks
      BY <2>4
    <3>2. \A l \in Span(new, c, f) : new[l] \in Networks /\ new[l - 1] = NL => l \in J
      OBVIOUS
    <3> HIDE DEF J
    <3> QED
      BY <1>4, <1>6, <2>3, <2>5, <3>1, <3>2
  <2> HIDE DEF J
  <2> QED
    BY <2>4, <2>6
<1>11. NetworksOf(new, c, f) = {new[l] : l \in J}
  BY DEF NetworksOf
<1> HIDE DEF J
<1>12. NetworksOf(new, c, f) = ToSet(want[f]) \intersect Networks
  BY <1>9, <1>10, <1>11
<1> QED
  BY <1>12 DEF new

(* A cycle's text, with a block of each family spliced into the file.      *)
LEMMA SplicedText ==
  ASSUME NEW cfg \in Seq(Token), NEW want \in Wants, NEW c \in Country,
         CanSplice(cfg, c, want)
  PROVE  /\ Spliced(cfg, c, want) \in Seq(Token)
         /\ Spliced(cfg, c, want) # <<>>
         /\ cfg # <<>>
<1> DEFINE one == SpliceBlock(cfg, c, Family[1], want)
<1>1. Family[1] \in Families /\ Family[2] \in Families
  BY FamilyAssumption DEF Families
<1>2. Has(cfg, c, Family[1]) /\ Has(one, c, Family[2])
  BY DEF CanSplice
<1>3. one \in Seq(Token) /\ cfg # <<>>
  BY <1>1, <1>2, SpliceIsText
<1> HIDE DEF one
<1>4. /\ SpliceBlock(one, c, Family[2], want) \in Seq(Token)
      /\ SpliceBlock(one, c, Family[2], want) # <<>>
  BY <1>1, <1>2, <1>3, SpliceIsText
<1> QED
  BY <1>3, <1>4 DEF Spliced, one

LEMMA SplicedForeign ==
  ASSUME NEW cfg \in Seq(Token), NEW want \in Wants, NEW c \in Country,
         CanSplice(cfg, c, want), BlocksApart(cfg)
  PROVE  /\ BlocksApart(Spliced(cfg, c, want))
         /\ Foreign(Spliced(cfg, c, want)) = Foreign(cfg)
<1> DEFINE one == SpliceBlock(cfg, c, Family[1], want)
<1>1. Family[1] \in Families /\ Family[2] \in Families
  BY FamilyAssumption DEF Families
<1>2. Has(cfg, c, Family[1]) /\ Has(one, c, Family[2])
  BY DEF CanSplice
<1>3. one \in Seq(Token) /\ BlocksApart(one) /\ Foreign(one) = Foreign(cfg)
  BY <1>1, <1>2, SpliceIsText, SpliceKeepsApart, SpliceKeepsForeign
<1> HIDE DEF one
<1>4. /\ BlocksApart(SpliceBlock(one, c, Family[2], want))
      /\ Foreign(SpliceBlock(one, c, Family[2], want)) = Foreign(one)
  BY <1>1, <1>2, <1>3, SpliceKeepsApart, SpliceKeepsForeign
<1> QED
  BY <1>3, <1>4 DEF Spliced, one

\* What FRR would read from the blocks of a country.
Wanted(want) == [f \in Families |-> ToSet(want[f]) \intersect Networks]

LEMMA SplicedBlocks ==
  ASSUME NEW cfg \in Seq(Token), NEW want \in Wants, NEW c \in Country,
         CanSplice(cfg, c, want), BlocksApart(cfg), BeginEndsLine(cfg)
  PROVE  /\ BeginEndsLine(Spliced(cfg, c, want))
         /\ Blocks[Spliced(cfg, c, want)] = [Blocks[cfg] EXCEPT ![c] = Wanted(want)]
<1> DEFINE one == SpliceBlock(cfg, c, Family[1], want)
           two == SpliceBlock(one, c, Family[2], want)
<1>1. /\ Family[1] \in Families /\ Family[2] \in Families /\ Family[1] # Family[2]
      /\ \A f \in Families : f = Family[1] \/ f = Family[2]
  BY FamilyAssumption DEF Families
<1>2. Has(cfg, c, Family[1]) /\ Has(one, c, Family[2])
  BY DEF CanSplice
<1>3. one \in Seq(Token) /\ BlocksApart(one) /\ BeginEndsLine(one)
  BY <1>1, <1>2, SpliceIsText, SpliceKeepsApart, SpliceKeepsLines
<1>4. /\ NetworksOf(one, c, Family[1]) = Wanted(want)[Family[1]]
      /\ \A g \in Country, h \in Families :
           <<c, Family[1]>> # <<g, h>> => NetworksOf(one, g, h) = NetworksOf(cfg, g, h)
  BY <1>1, <1>2, SpliceWritesNetworks, SpliceKeepsNetworks DEF Wanted
<1> HIDE DEF one
<1>5. two \in Seq(Token) /\ BeginEndsLine(two)
  BY <1>1, <1>2, <1>3, SpliceIsText, SpliceKeepsLines
<1>6. /\ NetworksOf(two, c, Family[2]) = Wanted(want)[Family[2]]
      /\ \A g \in Country, h \in Families :
           <<c, Family[2]>> # <<g, h>> => NetworksOf(two, g, h) = NetworksOf(one, g, h)
  <2>1. NetworksOf(two, c, Family[2]) = ToSet(want[Family[2]]) \intersect Networks
    BY <1>1, <1>2, <1>3, SpliceWritesNetworks
  <2>2. ASSUME NEW g \in Country, NEW h \in Families, <<c, Family[2]>> # <<g, h>>
        PROVE  NetworksOf(two, g, h) = NetworksOf(one, g, h)
    BY <1>1, <1>2, <1>3, <2>2, SpliceKeepsNetworks
  <2> HIDE DEF two
  <2> QED
    BY <1>1, <2>1, <2>2 DEF Wanted
<1> HIDE DEF two
<1>7. \A f \in Families : NetworksOf(two, c, f) = Wanted(want)[f]
  BY <1>1, <1>4, <1>6
<1>8. \A g \in Country, h \in Families :
        g # c => NetworksOf(two, g, h) = NetworksOf(cfg, g, h)
  BY <1>4, <1>6
<1>9. [f \in Families |-> NetworksOf(two, c, f)] = Wanted(want)
  BY <1>7 DEF Wanted
<1>10. Blocks[two] = [Blocks[cfg] EXCEPT ![c] = Wanted(want)]
  <2>1. /\ Blocks[two] = [g \in Country |-> [f \in Families |-> NetworksOf(two, g, f)]]
        /\ Blocks[cfg] = [g \in Country |-> [f \in Families |-> NetworksOf(cfg, g, f)]]
    BY <1>5 DEF Blocks
  <2>2. ASSUME NEW g \in Country, g # c
        PROVE  [f \in Families |-> NetworksOf(two, g, f)]
                 = [f \in Families |-> NetworksOf(cfg, g, f)]
    BY <1>8, <2>2
  <2> QED
    BY <1>9, <2>1, <2>2
<1> QED
  BY <1>5, <1>10 DEF Spliced, one, two

-----------------------------------------------------------------------------
(* A text that is spliced again.                                           *)

\* Between the markers of a block is the body p, and nothing else.
Holds(cfg, c, f, p) ==
  /\ EndAt(cfg, c, f) = LeadAt(cfg, c, f) + Len(p) + 1
  /\ \A k \in 1 .. Len(p) : cfg[LeadAt(cfg, c, f) + k] = p[k]

\* The blocks of a country have what it wants.
Settled(cfg, c, want) ==
  \A f \in Families : Has(cfg, c, f) /\ Holds(cfg, c, f, Piece(want[f]))

LEMMA IndexOfFirst ==
  ASSUME NEW cfg \in Seq(Token), NEW token, NEW n, First(cfg, token) = {n}
  PROVE  Index(cfg, token) = n /\ n \in DOMAIN cfg
<1>1. Index(cfg, token) \in Nat /\ Index(cfg, token) # 0
  BY IndexIsFirst
<1>2. First(cfg, token) = {Index(cfg, token)}
  BY <1>1, IndexIsFirst
<1> QED
  BY <1>2 DEF First

(* Where the block of a country and a family is, if BEGIN ends its line.   *)
LEMMA BlockPlaces ==
  ASSUME NEW cfg \in Seq(Token), BeginEndsLine(cfg),
         NEW c \in Country, NEW f \in Families,
         NEW b, NEW e, First(cfg, Begin[c][f]) = {b}, First(cfg, End[c][f]) = {e}, b < e
  PROVE  /\ Has(cfg, c, f) /\ BeginAt(cfg, c, f) = b /\ EndAt(cfg, c, f) = e
         /\ LeadAt(cfg, c, f) = b + 1
<1>1. /\ Index(cfg, Begin[c][f]) = b /\ b \in DOMAIN cfg
      /\ Index(cfg, End[c][f]) = e /\ e \in DOMAIN cfg
  BY IndexOfFirst
<1>2. DOMAIN cfg = 1 .. Len(cfg) /\ Len(cfg) \in Nat
  BY LenProperties
<1>3. b + 1 \in DOMAIN cfg /\ cfg[b + 1] = NL
  BY DEF BeginEndsLine
<1>4. b > 0 /\ b < Len(cfg)
  BY <1>1, <1>2, <1>3
<1> QED
  BY <1>1, <1>3, <1>4 DEF Has, Spliceable, BeginAt, EndAt, LeadAt, Lead

(* A splice leaves its body in its block.                                  *)
LEMMA SpliceHolds ==
  ASSUME NEW cfg \in Seq(Token), BlocksApart(cfg), BeginEndsLine(cfg), NEW want \in Wants,
         NEW c \in Country, NEW f \in Families, Has(cfg, c, f)
  PROVE  /\ Has(SpliceBlock(cfg, c, f, want), c, f)
         /\ Holds(SpliceBlock(cfg, c, f, want), c, f, Piece(want[f]))
<1> DEFINE new == SpliceBlock(cfg, c, f, want)
           b   == BeginAt(cfg, c, f)
           x   == LeadAt(cfg, c, f)
           y   == EndAt(cfg, c, f)
           d   == Shift(cfg, c, f, want)
           p   == Piece(want[f])
<1>1. x = b + 1 /\ BeginEndsLine(new)
  BY SpliceKeepsLines
<1>2. new \in Seq(Token)
  BY SpliceIsText
<1> HIDE DEF new, b, x, y, d, p
<1>3. CutsBlock(cfg, new, c, f, b, y, x, d)
  BY SpliceCuts DEF new, b, x, y, d
<1>4. Shape(cfg, new, Begin[c][f], End[c][f], b, y, x, p, d)
  BY SpliceBlockShape DEF new, b, x, y, d, p
<1>5. /\ First(new, Begin[c][f]) = {b} /\ First(new, End[c][f]) = {y + d}
  BY <1>3 DEF CutsBlock
<1>6. /\ b \in Int /\ y \in Int /\ Len(p) \in Nat /\ d = x + Len(p) + 1 - y
      /\ \A k \in 1 .. Len(p) : new[x + k] = p[k]
  BY <1>4 DEF Shape
<1>7. y + d = x + Len(p) + 1 /\ b < y + d
  BY <1>1, <1>6
<1>8. /\ Has(new, c, f) /\ EndAt(new, c, f) = y + d /\ LeadAt(new, c, f) = x
  BY <1>1, <1>2, <1>5, <1>7, BlockPlaces
<1>9. Holds(new, c, f, p)
  BY <1>6, <1>7, <1>8 DEF Holds
<1> QED
  BY <1>8, <1>9 DEF new, p

(* The splice of another block leaves it there: that block is before or    *)
(* behind.                                                                 *)
LEMMA OthersHold ==
  ASSUME NEW cfg \in Seq(Token), BlocksApart(cfg), BeginEndsLine(cfg), NEW want \in Wants,
         NEW c \in Country, NEW f \in Families, Has(cfg, c, f),
         NEW g \in Country, NEW h \in Families, <<c, f>> # <<g, h>>,
         Has(cfg, g, h), NEW p \in Seq(Token), Holds(cfg, g, h, p)
  PROVE  /\ Has(SpliceBlock(cfg, c, f, want), g, h)
         /\ Holds(SpliceBlock(cfg, c, f, want), g, h, p)
<1> DEFINE new == SpliceBlock(cfg, c, f, want)
           b   == BeginAt(cfg, c, f)
           x   == LeadAt(cfg, c, f)
           y   == EndAt(cfg, c, f)
           d   == Shift(cfg, c, f, want)
           a   == BeginAt(cfg, g, h)
           z   == EndAt(cfg, g, h)
           n   == Len(p)
<1>1. x = b + 1 /\ cfg[x] = NL /\ BeginEndsLine(new) /\ new \in Seq(Token)
  BY SpliceKeepsLines, SpliceIsText
<1> HIDE DEF new, b, x, y, d, a, z, n
<1>2. Cut(cfg, new, x, y, d)
  BY SpliceCuts DEF CutsBlock, new, b, x, y, d
<1>3. Shape(cfg, new, Begin[c][f], End[c][f], b, y, x, Piece(want[f]), d)
  BY SpliceBlockShape DEF new, b, x, y, d
<1>4. /\ b \in 1 .. Len(cfg) /\ y \in 1 .. Len(cfg) /\ b < y /\ cfg[b] = Begin[c][f]
  BY <1>3 DEF Shape
<1>5. /\ First(cfg, Begin[g][h]) = {a} /\ First(cfg, End[g][h]) = {z}
      /\ a \in 1 .. Len(cfg) /\ z \in 1 .. Len(cfg) /\ a < z
      /\ cfg[a] = Begin[g][h] /\ cfg[z] = End[g][h]
  <2>1. Shape(cfg, SpliceBlock(cfg, g, h, want), Begin[g][h], End[g][h], a, z,
              LeadAt(cfg, g, h), Piece(want[h]), Shift(cfg, g, h, want))
    BY SpliceBlockShape DEF a, z
  <2> QED
    BY <2>1 DEF Shape
<1>6. /\ z = a + 1 + n + 1
      /\ \A k \in 1 .. n : cfg[a + 1 + k] = p[k]
  <2>1. LeadAt(cfg, g, h) = a + 1
    BY SpliceKeepsLines DEF a
  <2> QED
    BY <2>1 DEF Holds, z, n
<1>7. /\ DOMAIN cfg = 1 .. Len(cfg) /\ Len(cfg) \in Nat /\ n \in Nat
      /\ x \in Nat /\ y \in Nat /\ d \in Int
  BY <1>2, LenProperties DEF Cut, n
<1>8. a \in Kept(cfg, x, y) /\ z \in Kept(cfg, x, y)
  BY <1>2, <1>5, <1>7, MarkersAreKept, MarkersOf
<1>9. z <= x \/ a >= y
  <2> SUFFICES ASSUME ~(z <= x), ~(a >= y) PROVE FALSE
    OBVIOUS
  <2>1. a <= x /\ z >= y
    BY <1>8 DEF Kept
  <2>2. a # x /\ a # b
    BY <1>1, <1>4, <1>5, MarkersOf, TokensAssumption
  <2>3. a < b /\ b < z
    BY <1>1, <1>4, <1>5, <2>1, <2>2
  <2>4. b \in Span(cfg, g, h)
    BY <1>4, <1>5, <1>7, <2>3 DEF Span
  <2> QED
    BY <1>4, <2>4, MarkersOf DEF BlocksApart
<1>10. /\ First(new, Begin[g][h]) = {Moved(k, x, d) : k \in {a}}
       /\ First(new, End[g][h]) = {Moved(k, x, d) : k \in {z}}
  BY <1>2, <1>5, FirstMoves, MarkersOf
<1>11. /\ First(new, Begin[g][h]) = {Moved(a, x, d)}
       /\ First(new, End[g][h]) = {Moved(z, x, d)}
  BY <1>10
<1>12. Moved(a, x, d) < Moved(z, x, d)
  BY <1>2, <1>5, <1>8, KeptMoves
<1>13. /\ Has(new, g, h) /\ EndAt(new, g, h) = Moved(z, x, d)
       /\ LeadAt(new, g, h) = Moved(a, x, d) + 1
  BY <1>1, <1>11, <1>12, BlockPlaces
<1>14. \A k \in a .. z : k \in Kept(cfg, x, y) /\ Moved(k, x, d) = Moved(a, x, d) + (k - a)
  <2> SUFFICES ASSUME NEW k \in a .. z
               PROVE  k \in Kept(cfg, x, y) /\ Moved(k, x, d) = Moved(a, x, d) + (k - a)
    OBVIOUS
  <2>1. k \in 1 .. Len(cfg) /\ ((k <= x /\ a <= x) \/ (k >= y /\ a >= y))
    BY <1>5, <1>7, <1>9
  <2>2. x < y
    BY <1>2 DEF Cut
  <2>3. CASE k <= x /\ a <= x
    BY <1>5, <1>7, <2>1, <2>3 DEF Kept, Moved
  <2>4. CASE k >= y /\ a >= y
    BY <1>5, <1>7, <2>1, <2>2, <2>4 DEF Kept, Moved
  <2> QED
    BY <2>1, <2>3, <2>4
<1>15. Moved(a, x, d) \in Int
  BY <1>5, <1>7 DEF Moved
<1> DEFINE m == Moved(a, x, d)
<1> HIDE DEF m
<1>16. EndAt(new, g, h) = LeadAt(new, g, h) + n + 1
  <2>1. z \in a .. z /\ z - a = n + 2
    BY <1>5, <1>6, <1>7
  <2>2. EndAt(new, g, h) = m + (n + 2) /\ LeadAt(new, g, h) = m + 1 /\ m \in Int
    BY <1>13, <1>14, <1>15, <2>1 DEF m
  <2> QED
    BY <1>7, <2>2
<1>17. ASSUME NEW k \in 1 .. n PROVE new[LeadAt(new, g, h) + k] = p[k]
  <2>1. a + 1 + k \in a .. z /\ a + 1 + k - a = 1 + k
    BY <1>5, <1>6, <1>7
  <2>2. LeadAt(new, g, h) + k = m + (1 + k)
    BY <1>7, <1>13, <1>15 DEF m
  <2>3. Moved(a + 1 + k, x, d) = m + (1 + k) /\ a + 1 + k \in Kept(cfg, x, y)
    <3> DEFINE l == a + 1 + k
    <3>1. l \in a .. z /\ l - a = 1 + k
      BY <1>5, <1>6, <1>7
    <3> HIDE DEF l
    <3>2. l \in Kept(cfg, x, y) /\ Moved(l, x, d) = m + (l - a)
      BY <1>14, <3>1 DEF m
    <3> QED
      BY <3>1, <3>2 DEF l
  <2>4. new[Moved(a + 1 + k, x, d)] = cfg[a + 1 + k]
    BY <1>2, <2>3, KeptMoves
  <2> QED
    BY <1>6, <2>2, <2>3, <2>4
<1> QED
  BY <1>13, <1>16, <1>17 DEF Holds, new, n

(* Nothing changes when a block is spliced that has the body already.      *)
LEMMA HeldIsUnchanged ==
  ASSUME NEW cfg \in Seq(Token), NEW want \in Wants,
         NEW c \in Country, NEW f \in Families, Has(cfg, c, f),
         Holds(cfg, c, f, Piece(want[f]))
  PROVE  SpliceBlock(cfg, c, f, want) = cfg
<1> DEFINE new == SpliceBlock(cfg, c, f, want)
           b   == BeginAt(cfg, c, f)
           x   == LeadAt(cfg, c, f)
           y   == EndAt(cfg, c, f)
           d   == Shift(cfg, c, f, want)
           p   == Piece(want[f])
           n   == Len(p)
           m   == Len(cfg)
<1> HIDE DEF new, b, x, y, d, p
<1>1. Shape(cfg, new, Begin[c][f], End[c][f], b, y, x, p, d)
  BY SpliceBlockShape DEF new, b, x, y, d, p
<1>2. y = x + n + 1 /\ \A k \in 1 .. n : cfg[x + k] = p[k]
  BY DEF Holds, x, y, p
<1> HIDE DEF n, m
<1>3. /\ new \in Seq(Token) /\ Len(new) = m + d /\ m \in Nat
      /\ b \in 1 .. m /\ y \in 1 .. m /\ x \in {b, b + 1} /\ n \in Nat
      /\ d = x + n + 1 - y
      /\ \A k \in 1 .. x : new[k] = cfg[k]
      /\ \A k \in 1 .. n : new[x + k] = p[k]
      /\ \A k \in y .. m : new[k + d] = cfg[k]
  BY <1>1, LenProperties DEF Shape, n, m
<1>4. d = 0 /\ x \in Nat /\ y \in Nat /\ Len(new) = m
  BY <1>2, <1>3
<1>5. ASSUME NEW k \in 1 .. m PROVE new[k] = cfg[k]
  <2>1. CASE k <= x
    BY <1>3, <1>4, <2>1
  <2>2. CASE k >= y
    <3>1. k \in y .. m /\ k + d = k
      BY <1>3, <1>4, <2>2
    <3> QED
      BY <1>3, <3>1
  <2>3. CASE ~(k <= x) /\ ~(k >= y)
    <3>1. k - x \in 1 .. n /\ x + (k - x) = k
      BY <1>2, <1>3, <1>4, <2>3
    <3>2. new[x + (k - x)] = p[k - x]
      BY <1>3, <3>1
    <3>3. cfg[x + (k - x)] = p[k - x]
      BY <1>2, <3>1
    <3> QED
      BY <3>1, <3>2, <3>3
  <2> QED
    BY <2>1, <2>2, <2>3
<1>6. new = cfg
  BY <1>3, <1>4, <1>5, SeqEqual DEF m
<1> QED
  BY <1>6 DEF new

LEMMA SettledIsUnchanged ==
  ASSUME NEW cfg \in Seq(Token), NEW want \in Wants, NEW c \in Country,
         Settled(cfg, c, want)
  PROVE  CanSplice(cfg, c, want) /\ Spliced(cfg, c, want) = cfg
<1>1. Family[1] \in Families /\ Family[2] \in Families
  BY FamilyAssumption DEF Families
<1>2. /\ Has(cfg, c, Family[1]) /\ SpliceBlock(cfg, c, Family[1], want) = cfg
      /\ Has(cfg, c, Family[2]) /\ SpliceBlock(cfg, c, Family[2], want) = cfg
  BY <1>1, HeldIsUnchanged DEF Settled
<1> QED
  BY <1>2 DEF CanSplice, Spliced

LEMMA SplicedIsSettled ==
  ASSUME NEW cfg \in Seq(Token), NEW want \in Wants, NEW c \in Country,
         CanSplice(cfg, c, want), BlocksApart(cfg), BeginEndsLine(cfg)
  PROVE  Settled(Spliced(cfg, c, want), c, want)
<1> DEFINE one == SpliceBlock(cfg, c, Family[1], want)
           two == SpliceBlock(one, c, Family[2], want)
           p   == Piece(want[Family[1]])
<1>1. /\ Family[1] \in Families /\ Family[2] \in Families /\ Family[1] # Family[2]
      /\ \A f \in Families : f = Family[1] \/ f = Family[2]
  BY FamilyAssumption DEF Families
<1>2. Has(cfg, c, Family[1]) /\ Has(one, c, Family[2])
  BY DEF CanSplice
<1>3. one \in Seq(Token) /\ BlocksApart(one) /\ BeginEndsLine(one) /\ p \in Seq(Token)
  BY <1>1, <1>2, SpliceIsText, SpliceKeepsApart, SpliceKeepsLines, WantedTokens
<1>4. Has(one, c, Family[1]) /\ Holds(one, c, Family[1], p)
  BY <1>1, <1>2, SpliceHolds
<1> HIDE DEF one, p
<1>5. Has(two, c, Family[1]) /\ Holds(two, c, Family[1], p)
  <2>1. <<c, Family[2]>> # <<c, Family[1]>>
    BY <1>1
  <2> QED
    BY <1>1, <1>2, <1>3, <1>4, <2>1, OthersHold
<1>6. Has(two, c, Family[2]) /\ Holds(two, c, Family[2], Piece(want[Family[2]]))
  BY <1>1, <1>2, <1>3, SpliceHolds
<1> HIDE DEF two
<1>7. Settled(two, c, want)
  BY <1>1, <1>5, <1>6 DEF Settled, p
<1> QED
  BY <1>7 DEF Spliced, one, two

LEMMA OthersStaySettled ==
  ASSUME NEW cfg \in Seq(Token), NEW want \in Wants, NEW c \in Country, Settled(cfg, c, want),
         BlocksApart(cfg), BeginEndsLine(cfg),
         NEW other \in Wants, NEW g \in Country, g # c, CanSplice(cfg, g, other)
  PROVE  Settled(Spliced(cfg, g, other), c, want)
<1> DEFINE one == SpliceBlock(cfg, g, Family[1], other)
           two == SpliceBlock(one, g, Family[2], other)
<1>1. Family[1] \in Families /\ Family[2] \in Families
  BY FamilyAssumption DEF Families
<1>2. Has(cfg, g, Family[1]) /\ Has(one, g, Family[2])
  BY DEF CanSplice
<1>3. one \in Seq(Token) /\ BlocksApart(one) /\ BeginEndsLine(one)
  BY <1>1, <1>2, SpliceIsText, SpliceKeepsApart, SpliceKeepsLines
<1>4. ASSUME NEW f \in Families
      PROVE  Has(one, c, f) /\ Holds(one, c, f, Piece(want[f]))
  <2>1. <<g, Family[1]>> # <<c, f>>
    OBVIOUS
  <2>2. Has(cfg, c, f) /\ Holds(cfg, c, f, Piece(want[f])) /\ Piece(want[f]) \in Seq(Token)
    BY WantedTokens DEF Settled
  <2> QED
    BY <1>1, <1>2, <2>1, <2>2, OthersHold
<1> HIDE DEF one
<1>5. ASSUME NEW f \in Families
      PROVE  Has(two, c, f) /\ Holds(two, c, f, Piece(want[f]))
  <2>1. <<g, Family[2]>> # <<c, f>>
    OBVIOUS
  <2>2. Piece(want[f]) \in Seq(Token)
    BY WantedTokens
  <2> QED
    BY <1>1, <1>2, <1>3, <1>4, <2>1, <2>2, OthersHold
<1> HIDE DEF two
<1>6. Settled(two, c, want)
  BY <1>5 DEF Settled
<1> QED
  BY <1>6 DEF Spliced, one, two

(* run() skips its write and its reload when the text it has made is the    *)
(* one it has read.  The next cycle of a country that wants the same finds  *)
(* it so, also after a cycle of another country, and can splice.            *)
THEOREM NextCycleSkips ==
  ASSUME NEW cfg \in Seq(Token), BlocksApart(cfg), BeginEndsLine(cfg),
         NEW want \in Wants, NEW c \in Country, CanSplice(cfg, c, want)
  PROVE  LET new == Spliced(cfg, c, want)
         IN  /\ CanSplice(new, c, want) /\ Spliced(new, c, want) = new
             /\ \A g \in Country, other \in Wants :
                  g # c /\ CanSplice(new, g, other) =>
                    LET newer == Spliced(new, g, other)
                    IN  CanSplice(newer, c, want) /\ Spliced(newer, c, want) = newer
<1> DEFINE new == Spliced(cfg, c, want)
<1>1. new \in Seq(Token) /\ BlocksApart(new) /\ BeginEndsLine(new) /\ Settled(new, c, want)
  BY SplicedText, SplicedForeign, SplicedBlocks, SplicedIsSettled
<1> HIDE DEF new
<1>2. CanSplice(new, c, want) /\ Spliced(new, c, want) = new
  BY <1>1, SettledIsUnchanged
<1>3. ASSUME NEW g \in Country, NEW other \in Wants, g # c, CanSplice(new, g, other)
      PROVE  /\ CanSplice(Spliced(new, g, other), c, want)
             /\ Spliced(Spliced(new, g, other), c, want) = Spliced(new, g, other)
  <2>1. Settled(Spliced(new, g, other), c, want)
    BY <1>1, <1>3, OthersStaySettled
  <2>2. Spliced(new, g, other) \in Seq(Token)
    BY <1>1, <1>3, SplicedText
  <2> QED
    BY <2>1, <2>2, SettledIsUnchanged
<1> QED
  BY <1>2, <1>3 DEF new

-----------------------------------------------------------------------------
(* The cycles.                                                             *)

(* The copies a cycle holds: none while it is idle, its new text until it   *)
(* returns, and a backup from the check on, if it reloads.                 *)
CopiesOf(c) ==
  /\ pc[c] = "idle" => next[c] = <<>> /\ backup[c] = <<>>
  /\ pc[c] = "check" => reloads[c] /\ backup[c] = <<>>
  /\ pc[c] = "write" => (reloads[c] <=> backup[c] # <<>>)
  /\ pc[c] \in {"reload", "restore"} => reloads[c]
  /\ pc[c] # "idle" => file # <<>>

CopiesInv == \A c \in Country : CopiesOf(c)

CycleInv == TypeOK /\ CopiesInv

LEMMA InitCycle == Init => CycleInv
<1> SUFFICES ASSUME Init PROVE CycleInv
  OBVIOUS
<1>1. file \in Seq(Token) /\ <<>> \in Seq(Token)
  BY FilesAssumption, EmptySeq DEF Init
<1> QED
  BY <1>1 DEF Init, CycleInv, TypeOK, CopiesInv, CopiesOf

(* What a cycle does to its own state it does to no other one's.           *)
LEMMA OthersKeepCopies ==
  ASSUME CycleInv, NEW c \in Country, NEW d \in Country,
         pc'[d] = pc[d], reloads'[d] = reloads[d], next'[d] = next[d], backup'[d] = backup[d],
         file' = file \/ file' # <<>>
  PROVE  CopiesOf(d)'
BY DEF CycleInv, CopiesInv, CopiesOf

LEMMA Steps ==
  ASSUME [Next]_vars
  PROVE  \/ UNCHANGED vars
         \/ \E c \in Country :
              \/ ReadConf(c) \/ CheckPasses(c) \/ Write(c) \/ ReloadFails(c) \/ Restore(c)
              \/ Return(c) /\ file' = file
<1>1. CASE UNCHANGED vars
  BY <1>1
<1>2. CASE Next
  <2>1. PICK c \in Country :
          \/ ReadOnly(c) \/ ReadConf(c) \/ CheckFails(c) \/ CheckPasses(c)
          \/ WriteFails(c) \/ Write(c) \/ ReloadSucceeds(c) \/ ReloadFails(c)
          \/ Restore(c) \/ Crash(c)
    BY <1>2 DEF Next
  <2>2. ReadOnly(c) => UNCHANGED vars
    BY DEF ReadOnly
  <2>3. CheckFails(c) \/ WriteFails(c) \/ ReloadSucceeds(c) \/ Crash(c)
          => Return(c) /\ file' = file
    BY DEF CheckFails, WriteFails, ReloadSucceeds, Crash
  <2> QED
    BY <2>1, <2>2, <2>3
<1> QED
  BY <1>1, <1>2

(* A cycle returns, and what it has written, if anything, is a text.       *)
LEMMA ReturnKeepsCycle ==
  ASSUME CycleInv, NEW c \in Country, Return(c),
         \/ file' = file
         \/ file' \in Seq(Token) /\ file' # <<>>
  PROVE  CycleInv'
<1>1. <<>> \in Seq(Token)
  BY EmptySeq
<1>2. TypeOK'
  BY <1>1 DEF CycleInv, TypeOK, Return
<1>3. CopiesInv'
  <2>1. CopiesOf(c)'
    <3>1. pc'[c] = "idle" /\ next'[c] = <<>> /\ backup'[c] = <<>>
      BY DEF CycleInv, TypeOK, Return
    <3> QED
      BY <3>1 DEF CopiesOf
  <2>2. ASSUME NEW d \in Country, d # c PROVE CopiesOf(d)'
    <3>1. /\ pc'[d] = pc[d] /\ reloads'[d] = reloads[d]
          /\ next'[d] = next[d] /\ backup'[d] = backup[d]
      BY <2>2 DEF CycleInv, TypeOK, Return
    <3> QED
      BY <3>1, OthersKeepCopies
  <2> QED
    BY <2>1, <2>2 DEF CopiesInv
<1> QED
  BY <1>2, <1>3 DEF CycleInv

LEMMA CycleStep == CycleInv /\ [Next]_vars => CycleInv'
<1> SUFFICES ASSUME CycleInv, [Next]_vars PROVE CycleInv'
  OBVIOUS
<1> USE DEF CycleInv
<1>1. ASSUME NEW c \in Country, ReadConf(c) PROVE CycleInv'
  <2>1. PICK want \in Wants, reload, force \in BOOLEAN :
          /\ CanSplice(file, c, want)
          /\ Goto(c, "idle", IF reload THEN "check" ELSE "write")
          /\ next' = [next EXCEPT ![c] = Spliced(file, c, want)]
          /\ reloads' = [reloads EXCEPT ![c] = reload]
    BY <1>1 DEF ReadConf
  <2>2. UNCHANGED <<file, backup, original>>
    BY <1>1 DEF ReadConf, Goto
  <2>3. Spliced(file, c, want) \in Seq(Token) \ {<<>>} /\ file # <<>>
    BY <2>1, SplicedText DEF TypeOK
  <2> DEFINE s == Spliced(file, c, want)
  <2> HIDE DEF s
  <2>4. next' = [next EXCEPT ![c] = s] /\ s \in Seq(Token) /\ s # <<>>
    BY <2>1, <2>3 DEF s
  <2> DEFINE to == IF reload THEN "check" ELSE "write"
  <2>5. /\ pc[c] = "idle" /\ pc' = [pc EXCEPT ![c] = to] /\ to \in {"check", "write"}
        /\ to = "check" <=> reload
        /\ reloads' = [reloads EXCEPT ![c] = reload] /\ reload \in BOOLEAN
    BY <2>1 DEF Goto
  <2> HIDE DEF to
  <2>6. TypeOK'
    <3>1. /\ {file, original} \subseteq Seq(Token)
          /\ pc \in [Country -> {"idle", "check", "write", "reload", "restore"}]
          /\ reloads \in [Country -> BOOLEAN]
          /\ {next, backup} \subseteq [Country -> Seq(Token)]
          /\ \A d \in Country :
               /\ pc[d] # "idle" => next[d] # <<>>
               /\ pc[d] \in {"reload", "restore"} => backup[d] # <<>>
      BY DEF TypeOK
    <3>2. /\ pc' \in [Country -> {"idle", "check", "write", "reload", "restore"}]
          /\ reloads' \in [Country -> BOOLEAN]
          /\ {next', backup'} \subseteq [Country -> Seq(Token)]
      BY <2>2, <2>4, <2>5, <3>1
    <3>3. ASSUME NEW d \in Country
          PROVE  /\ pc'[d] # "idle" => next'[d] # <<>>
                 /\ pc'[d] \in {"reload", "restore"} => backup'[d] # <<>>
      <4>1. CASE d = c
        BY <2>2, <2>4, <2>5, <3>1, <4>1
      <4>2. CASE d # c
        BY <2>2, <2>4, <2>5, <3>1, <4>2
      <4> QED
        BY <4>1, <4>2
    <3> QED
      BY <2>2, <3>1, <3>2, <3>3 DEF TypeOK
  <2>7. CopiesInv'
    <3>1. CopiesOf(c)'
      BY <2>2, <2>3, <2>4, <2>5 DEF CopiesInv, CopiesOf, TypeOK
    <3>2. ASSUME NEW d \in Country, d # c PROVE CopiesOf(d)'
      <4>1. /\ pc'[d] = pc[d] /\ reloads'[d] = reloads[d]
            /\ next'[d] = next[d] /\ backup'[d] = backup[d]
        BY <3>2, <2>2, <2>4, <2>5 DEF TypeOK, Goto
      <4> QED
        BY <4>1, <2>2, OthersKeepCopies
    <3> QED
      BY <3>1, <3>2 DEF CopiesInv
  <2> QED
    BY <2>6, <2>7
<1>2. ASSUME NEW c \in Country, CheckPasses(c) PROVE CycleInv'
  <2>1. file # <<>>
    BY <1>2 DEF CheckPasses, Goto, CopiesInv, CopiesOf
  <2>2. TypeOK'
    BY <1>2, <2>1 DEF CheckPasses, Goto, TypeOK
  <2>3. CopiesInv'
    <3>1. CopiesOf(c)'
      BY <1>2, <2>1 DEF CheckPasses, Goto, TypeOK, CopiesInv, CopiesOf
    <3>2. ASSUME NEW d \in Country, d # c PROVE CopiesOf(d)'
      <4>1. /\ pc'[d] = pc[d] /\ reloads'[d] = reloads[d]
            /\ next'[d] = next[d] /\ backup'[d] = backup[d]
        BY <3>2, <1>2 DEF TypeOK, Goto, CheckPasses
      <4> QED
        BY <4>1, <2>1, <1>2, OthersKeepCopies DEF CheckPasses
    <3> QED
      BY <3>1, <3>2 DEF CopiesInv
  <2> QED
    BY <2>2, <2>3
<1>3. ASSUME NEW c \in Country, Write(c) PROVE CycleInv'
  <2>1. pc[c] = "write" /\ next[c] \in Seq(Token) /\ next[c] # <<>> /\ file' = next[c]
    BY <1>3 DEF Write, Goto, TypeOK
  <2>2. CASE Return(c)
    BY <2>1, <2>2, ReturnKeepsCycle
  <2>3. CASE reloads[c] /\ Goto(c, "write", "reload") /\ UNCHANGED <<reloads, next, backup>>
    <3>1. backup[c] # <<>>
      BY <2>1, <2>3 DEF CopiesInv, CopiesOf
    <3>2. TypeOK'
      BY <2>1, <2>3, <3>1 DEF Goto, TypeOK
    <3>3. CopiesInv'
      <4>1. CopiesOf(c)'
        BY <2>1, <2>3 DEF Goto, TypeOK, CopiesInv, CopiesOf
      <4>2. ASSUME NEW d \in Country, d # c PROVE CopiesOf(d)'
        <5>1. /\ pc'[d] = pc[d] /\ reloads'[d] = reloads[d]
              /\ next'[d] = next[d] /\ backup'[d] = backup[d]
          BY <4>2, <2>3 DEF TypeOK, Goto
        <5> QED
          BY <5>1, <2>1, OthersKeepCopies
      <4> QED
        BY <4>1, <4>2 DEF CopiesInv
    <3> QED
      BY <3>2, <3>3
  <2> QED
    BY <1>3, <2>2, <2>3 DEF Write
<1>4. ASSUME NEW c \in Country, ReloadFails(c) PROVE CycleInv'
  <2>1. TypeOK'
    BY <1>4 DEF ReloadFails, Goto, TypeOK
  <2>2. CopiesInv'
    <3>1. CopiesOf(c)'
      BY <1>4 DEF ReloadFails, Goto, TypeOK, CopiesInv, CopiesOf
    <3>2. ASSUME NEW d \in Country, d # c PROVE CopiesOf(d)'
      <4>1. /\ pc'[d] = pc[d] /\ reloads'[d] = reloads[d]
            /\ next'[d] = next[d] /\ backup'[d] = backup[d]
        BY <3>2, <1>4 DEF TypeOK, Goto, ReloadFails
      <4> QED
        BY <4>1, <1>4, OthersKeepCopies DEF ReloadFails
    <3> QED
      BY <3>1, <3>2 DEF CopiesInv
  <2> QED
    BY <2>1, <2>2
<1>5. ASSUME NEW c \in Country, Restore(c) PROVE CycleInv'
  <2>1. file' \in Seq(Token) /\ file' # <<>> /\ Return(c)
    BY <1>5 DEF Restore, TypeOK
  <2> QED
    BY <2>1, ReturnKeepsCycle
<1>6. ASSUME NEW c \in Country, Return(c), file' = file PROVE CycleInv'
  BY <1>6, ReturnKeepsCycle
<1>7. ASSUME UNCHANGED vars PROVE CycleInv'
  BY <1>7 DEF vars, TypeOK, CopiesInv, CopiesOf
<1> QED
  BY <1>1, <1>2, <1>3, <1>4, <1>5, <1>6, <1>7, Steps

(* The types, and that a cycle has a text to write and a copy to restore   *)
(* where it writes one or restores one: however cycles of several countries *)
(* overlap, fail, or die.                                                  *)
THEOREM TypeCorrect == Spec => []TypeOK
<1>1. CycleInv => TypeOK
  BY DEF CycleInv
<1> QED
  BY <1>1, InitCycle, CycleStep, PTL DEF Spec

\* The file, and the copies the cycles hold.
Texts ==
  {file} \cup (({next[c] : c \in Country} \cup {backup[c] : c \in Country}) \ {<<>>})

LEMMA InitTexts == Init => Texts = {file} /\ file \in Files /\ original = file
BY DEF Init, Texts

(* A text is never made up: it is one there was, or the file as it is, with *)
(* blocks spliced in.                                                      *)
LEMMA TextsStep ==
  ASSUME CycleInv, [Next]_vars
  PROVE  /\ original' = original
         /\ \A t \in Texts' :
              \/ t \in Texts
              \/ \E c \in Country, want \in Wants :
                   CanSplice(file, c, want) /\ t = Spliced(file, c, want)
<1> DEFINE New(t) == \E c \in Country, want \in Wants :
                       CanSplice(file, c, want) /\ t = Spliced(file, c, want)
           Good(t) == t \in Texts \/ New(t)
<1> HIDE DEF New
<1>1. /\ file \in Texts
      /\ \A c \in Country : /\ next[c] # <<>> => next[c] \in Texts
                            /\ backup[c] # <<>> => backup[c] \in Texts
  BY DEF Texts
<1>2. /\ original' = original /\ Good(file')
      /\ \A d \in Country : /\ next'[d] = <<>> \/ Good(next'[d])
                            /\ backup'[d] = <<>> \/ Good(backup'[d])
  <2>1. ASSUME NEW c \in Country, ReadConf(c) PROVE <1>2
    <3>1. PICK want \in Wants :
            /\ CanSplice(file, c, want)
            /\ next' = [next EXCEPT ![c] = Spliced(file, c, want)]
      BY <2>1 DEF ReadConf
    <3>2. New(Spliced(file, c, want))
      BY <3>1 DEF New
    <3>3. UNCHANGED <<file, backup, original>>
      BY <2>1 DEF ReadConf, Goto
    <3> QED
      BY <1>1, <3>1, <3>2, <3>3 DEF CycleInv, TypeOK
  <2>2. ASSUME NEW c \in Country, CheckPasses(c) PROVE <1>2
    BY <1>1, <2>2 DEF CheckPasses, Goto, CycleInv, TypeOK
  <2>3. ASSUME NEW c \in Country, Return(c), Good(file') PROVE <1>2
    BY <1>1, <2>3 DEF Return, CycleInv, TypeOK
  <2>4. ASSUME NEW c \in Country, Write(c) PROVE <1>2
    <3>1. Good(file')
      BY <1>1, <2>4 DEF Write, Goto, CycleInv, TypeOK
    <3>2. CASE Return(c)
      BY <2>3, <3>1, <3>2
    <3>3. CASE Goto(c, "write", "reload") /\ UNCHANGED <<reloads, next, backup>>
      BY <1>1, <3>1, <3>3 DEF Goto, CycleInv, TypeOK
    <3> QED
      BY <2>4, <3>2, <3>3 DEF Write
  <2>5. ASSUME NEW c \in Country, ReloadFails(c) PROVE <1>2
    BY <1>1, <2>5 DEF ReloadFails, Goto
  <2>6. ASSUME NEW c \in Country, Restore(c) PROVE <1>2
    <3>1. Good(file') /\ Return(c)
      BY <1>1, <2>6 DEF Restore, CycleInv, TypeOK
    <3> QED
      BY <2>3, <3>1
  <2>7. ASSUME NEW c \in Country, Return(c), file' = file PROVE <1>2
    BY <1>1, <2>3, <2>7
  <2>8. ASSUME UNCHANGED vars PROVE <1>2
    BY <1>1, <2>8 DEF vars
  <2> QED
    BY <2>1, <2>2, <2>4, <2>5, <2>6, <2>7, <2>8, Steps
<1>3. \A t \in Texts' : Good(t)
  BY <1>2 DEF Texts
<1> QED
  BY <1>2, <1>3 DEF New

(* Each text has the foreign text of the file the operator has prepared.   *)
ForeignInv == \A t \in Texts : BlocksApart(t) /\ Foreign(t) = Foreign(original)

LEMMA ForeignStep == CycleInv /\ ForeignInv /\ [Next]_vars => ForeignInv'
<1> SUFFICES ASSUME CycleInv, ForeignInv, [Next]_vars, NEW t \in Texts'
             PROVE  BlocksApart(t) /\ Foreign(t) = Foreign(original')
  BY DEF ForeignInv
<1>1. file \in Texts /\ file \in Seq(Token)
  BY DEF Texts, CycleInv, TypeOK
<1>2. original' = original
  BY TextsStep
<1>3. CASE t \in Texts
  BY <1>2, <1>3 DEF ForeignInv
<1>4. CASE \E c \in Country, want \in Wants :
             CanSplice(file, c, want) /\ t = Spliced(file, c, want)
  BY <1>1, <1>2, <1>4, SplicedForeign DEF ForeignInv
<1> QED
  BY <1>3, <1>4, TextsStep

(* If the operator has prepared the file so that no block reaches into      *)
(* another one, everything outside of the blocks stays, in its order,       *)
(* whatever is spliced, restored, or cut off.                              *)
THEOREM KeepsForeignText ==
  ASSUME \A cfg \in Files : BlocksApart(cfg)
  PROVE  Spec => []ForeignTextKept
<1>1. Init => ForeignInv
  BY InitTexts DEF ForeignInv
<1>2. ForeignInv => ForeignTextKept
  BY DEF ForeignInv, Texts, ForeignTextKept
<1> QED
  BY <1>1, <1>2, InitCycle, CycleStep, ForeignStep, PTL DEF Spec

-----------------------------------------------------------------------------
(* What a reader of the file sees.                                         *)

\* In each text BEGIN ends its line.
LinesInv == \A t \in Texts : BeginEndsLine(t)

LEMMA LinesStep == CycleInv /\ ForeignInv /\ LinesInv /\ [Next]_vars => LinesInv'
<1> SUFFICES ASSUME CycleInv, ForeignInv, LinesInv, [Next]_vars, NEW t \in Texts'
             PROVE  BeginEndsLine(t)
  BY DEF LinesInv
<1>1. file \in Texts /\ file \in Seq(Token)
  BY DEF Texts, CycleInv, TypeOK
<1>2. CASE t \in Texts
  BY <1>2 DEF LinesInv
<1>3. CASE \E c \in Country, want \in Wants :
             CanSplice(file, c, want) /\ t = Spliced(file, c, want)
  BY <1>1, <1>3, SplicedBlocks DEF ForeignInv, LinesInv
<1> QED
  BY <1>2, <1>3, TextsStep

\* The state of SharedFile.
PlanOf == [c \in Country |-> CopyOf(next[c])]
KeptOf == [c \in Country |-> CopyOf(backup[c])]

(* A text has a copy, and only a text has one.                             *)
LEMMA Copies ==
  ASSUME NEW c \in Country, NEW t \in Seq(Token)
  PROVE  /\ t = <<>> <=> CopyOf(t) = <<>>
         /\ t # <<>> => CopyOf(t) = Blocks[t]
<1>1. Blocks[t] # <<>>
  <2>1. DOMAIN Blocks[t] = Country
    BY DEF Blocks
  <2>2. DOMAIN <<>> = {}
    OBVIOUS
  <2> QED
    BY <2>1, <2>2
<1> QED
  BY <1>1 DEF CopyOf

LEMMA SharedInit == Init => Shared!Init
<1> SUFFICES ASSUME Init PROVE Shared!Init
  OBVIOUS
<1>1. Blocks[file] \in {Blocks[cfg] : cfg \in Files}
  BY DEF Init
<1>2. PlanOf = [c \in Country |-> <<>>] /\ KeptOf = [c \in Country |-> <<>>]
  BY DEF Init, PlanOf, KeptOf, CopyOf
<1> QED
  BY <1>1, <1>2 DEF Shared!Init, Shared!Empty, PlanOf, KeptOf

(* A cycle that returns leaves; one without a backup may have put its text  *)
(* in place, one with a backup may have put that one there.                *)
LEMMA SharedLeave ==
  ASSUME CycleInv, NEW c \in Country, Return(c), pc[c] # "idle",
         \/ file' = file
         \/ file' = IF backup[c] = <<>> THEN next[c] ELSE backup[c]
  PROVE  Shared!Leave(c)
<1>1. /\ next \in [Country -> Seq(Token)] /\ backup \in [Country -> Seq(Token)]
      /\ next[c] # <<>>
  BY DEF CycleInv, TypeOK
<1>2. CopyOf(next[c]) = Blocks[next[c]] /\ CopyOf(next[c]) # <<>>
  BY <1>1, Copies
<1>3. /\ backup[c] = <<>> <=> CopyOf(backup[c]) = <<>>
      /\ backup[c] # <<>> => CopyOf(backup[c]) = Blocks[backup[c]]
  BY <1>1, Copies
<1>4. Blocks[file'] \in {Blocks[file], IF KeptOf[c] = <<>> THEN PlanOf[c] ELSE KeptOf[c]}
  BY <1>1, <1>2, <1>3 DEF PlanOf, KeptOf
<1>5. /\ PlanOf' = [PlanOf EXCEPT ![c] = <<>>]
      /\ KeptOf' = [KeptOf EXCEPT ![c] = <<>>]
  BY <1>1 DEF Return, PlanOf, KeptOf, CopyOf
<1>6. PlanOf[c] # <<>>
  BY <1>2 DEF PlanOf
<1> QED
  BY <1>4, <1>5, <1>6 DEF Shared!Leave, PlanOf, KeptOf

LEMMA SharedStep ==
  ASSUME CycleInv, ForeignInv, LinesInv, [Next]_vars
  PROVE  [Shared!Next]_(Shared!vars)
<1>1. /\ next \in [Country -> Seq(Token)] /\ backup \in [Country -> Seq(Token)]
      /\ file \in Seq(Token)
  BY DEF CycleInv, TypeOK
<1>2. ASSUME NEW c \in Country, ReadConf(c) PROVE Shared!Plan(c)
  <2>1. PICK want \in Wants :
          /\ CanSplice(file, c, want)
          /\ next' = [next EXCEPT ![c] = Spliced(file, c, want)]
    BY <1>2 DEF ReadConf
  <2>2. pc[c] = "idle" /\ UNCHANGED <<file, backup>>
    BY <1>2 DEF ReadConf, Goto
  <2>3. next[c] = <<>>
    BY <2>2 DEF CycleInv, CopiesInv, CopiesOf
  <2>4. BlocksApart(file) /\ BeginEndsLine(file)
    BY DEF ForeignInv, LinesInv, Texts
  <2> DEFINE s == Spliced(file, c, want)
  <2>5. /\ s \in Seq(Token) /\ s # <<>>
        /\ Blocks[s] = [Blocks[file] EXCEPT ![c] = Wanted(want)]
    BY <1>1, <2>1, <2>4, SplicedText, SplicedBlocks
  <2>6. next' = [next EXCEPT ![c] = s]
    BY <2>1
  <2> HIDE DEF s
  <2>7. CopyOf(s) = [Blocks[file] EXCEPT ![c] = Wanted(want)]
    BY <2>5, Copies
  <2>8. PlanOf' = [PlanOf EXCEPT ![c] = CopyOf(s)]
    BY <1>1, <2>6 DEF PlanOf
  <2>9. PlanOf[c] = <<>>
    BY <2>3 DEF PlanOf, CopyOf
  <2>10. KeptOf' = KeptOf /\ Blocks[file'] = Blocks[file]
    BY <2>2 DEF KeptOf
  <2>11. Wanted(want) \in {[f \in Families |-> ToSet(w[f]) \intersect Networks] : w \in Wants}
    BY DEF Wanted
  <2> HIDE DEF Wanted
  <2> QED
    BY <2>7, <2>8, <2>9, <2>10, <2>11 DEF Shared!Plan, PlanOf, KeptOf
<1>3. ASSUME NEW c \in Country, CheckPasses(c) PROVE Shared!Keep(c)
  <2>1. pc[c] = "check" /\ UNCHANGED <<file, next>> /\ backup' = [backup EXCEPT ![c] = file]
    BY <1>3 DEF CheckPasses, Goto
  <2>2. next[c] # <<>> /\ backup[c] = <<>> /\ file # <<>>
    BY <2>1 DEF CycleInv, TypeOK, CopiesInv, CopiesOf
  <2>3. PlanOf[c] # <<>> /\ KeptOf[c] = <<>>
    BY <1>1, <2>2, Copies DEF PlanOf, KeptOf
  <2>4. KeptOf' = [KeptOf EXCEPT ![c] = Blocks[file]]
    BY <1>1, <2>1, <2>2 DEF KeptOf, CopyOf
  <2>5. PlanOf' = PlanOf /\ Blocks[file'] = Blocks[file]
    BY <2>1 DEF PlanOf
  <2> QED
    BY <2>3, <2>4, <2>5 DEF Shared!Keep, PlanOf, KeptOf
<1>4. ASSUME NEW c \in Country, Write(c) PROVE Shared!Put(c) \/ Shared!Leave(c)
  <2>1. file' = next[c]
    BY <1>4 DEF Write
  <2>2. CASE pc[c] = "write" /\ ~reloads[c] /\ Return(c)
    <3>1. backup[c] = <<>>
      BY <2>2 DEF CycleInv, CopiesInv, CopiesOf
    <3> QED
      BY <2>1, <2>2, <3>1, SharedLeave
  <2>3. CASE reloads[c] /\ Goto(c, "write", "reload") /\ UNCHANGED <<reloads, next, backup>>
    <3>1. backup[c] # <<>> /\ next[c] # <<>>
      BY <2>3 DEF CycleInv, TypeOK, CopiesInv, CopiesOf, Goto
    <3>2. KeptOf[c] # <<>> /\ PlanOf[c] = Blocks[next[c]]
      BY <1>1, <3>1, Copies DEF KeptOf, PlanOf
    <3>3. Blocks[file'] = PlanOf[c] /\ PlanOf' = PlanOf /\ KeptOf' = KeptOf
      BY <2>1, <2>3, <3>2 DEF PlanOf, KeptOf
    <3> QED
      BY <3>2, <3>3 DEF Shared!Put, PlanOf, KeptOf
  <2> QED
    BY <1>4, <2>2, <2>3 DEF Write
<1>5. ASSUME NEW c \in Country, ReloadFails(c) PROVE UNCHANGED Shared!vars
  BY <1>5 DEF ReloadFails, Shared!vars
<1>6. ASSUME NEW c \in Country, Restore(c) PROVE Shared!Leave(c)
  <2>1. pc[c] = "restore" /\ Return(c) /\ file' = backup[c] /\ backup[c] # <<>>
    BY <1>6 DEF Restore, CycleInv, TypeOK
  <2> QED
    BY <2>1, SharedLeave
<1>7. ASSUME NEW c \in Country, Return(c), file' = file
      PROVE  Shared!Leave(c) \/ UNCHANGED Shared!vars
  <2>1. CASE pc[c] # "idle"
    BY <1>7, <2>1, SharedLeave
  <2>2. CASE pc[c] = "idle"
    <3>1. next[c] = <<>> /\ backup[c] = <<>>
      BY <2>2 DEF CycleInv, CopiesInv, CopiesOf
    <3>2. next' = next /\ backup' = backup
      BY <1>1, <1>7, <3>1 DEF Return
    <3> QED
      BY <1>7, <3>2 DEF Shared!vars
  <2> QED
    BY <2>1, <2>2
<1>8. ASSUME UNCHANGED vars PROVE UNCHANGED Shared!vars
  BY <1>8 DEF vars, Shared!vars
<1> QED
  BY <1>2, <1>3, <1>4, <1>5, <1>6, <1>7, <1>8, Steps DEF Shared!Next

(* If the blocks are apart and BEGIN ends its line, the file is, to a       *)
(* reader, what RunCycle takes it for: a step puts a whole copy in its      *)
(* place, which differs from what was read in the block of one country and *)
(* has all of the wanted networks there.                                   *)
THEOREM ReaderSeesSharedFile ==
  ASSUME \A cfg \in Files : BlocksApart(cfg) /\ BeginEndsLine(cfg)
  PROVE  Spec => ImplementsSharedFile
<1>1. Init => ForeignInv /\ LinesInv
  BY InitTexts DEF ForeignInv, LinesInv
<1>2. CycleInv /\ ForeignInv /\ LinesInv /\ [Next]_vars => [Shared!Next]_(Shared!vars)
  BY SharedStep
<1> QED
  BY <1>1, <1>2, InitCycle, CycleStep, ForeignStep, LinesStep, SharedInit, PTL
     DEF Spec, ImplementsSharedFile, Shared!Spec
=============================================================================
