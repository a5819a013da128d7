----------------------- MODULE ConnectorsQueriesProofs ----------------------
(***************************************************************************)
(* Theorems about both ends of the stock of grants: Connectors, which      *)
(* brings records in, for any pages, links, answers of a provider, hits    *)
(* and configured sources, and any size of the windows; and Queries, which *)
(* shows what was brought in, for any rows, profile, queries, answers of   *)
(* an AI, page sizes, concepts and similarities.  Both are built from      *)
(* lists (module Lists), whose facts come first.                           *)
(***************************************************************************)
EXTENDS Connectors, Queries, FiniteSetTheorems, WellFoundedInduction, TLAPS

(* Induction over the natural numbers, as a fact about sets.               *)
LEMMA Least ==
    ASSUME NEW T, T \subseteq Nat, T # {}
    PROVE  \E m \in T : \A n \in T : m <= n
<1> DEFINE R == OpToRel(<, Nat)
<1>1. IsWellFoundedOn(R, Nat)
  BY NatLessThanWellFounded
<1> HIDE DEF R
<1>2. PICK x \in T : \A y \in T : ~ (<<y, x>> \in R)
  BY <1>1, WFMin
<1>3. \A y \in T : ~ (y < x)
  BY <1>2 DEF R, OpToRel
<1> QED
  BY <1>3

-----------------------------------------------------------------------------
(* Sorting: the members of a finite set can be listed in any order that    *)
(* compares every two of them.                                             *)

Compares(R, S) ==
    /\ \A x, y \in S : x # y => <<x, y>> \in R \/ <<y, x>> \in R
    /\ \A x, y, z \in S : <<x, y>> \in R /\ <<y, z>> \in R => <<x, z>> \in R

Follows(R, order, n) == \A i, j \in 1..n : i < j => <<order[i], order[j]>> \in R

LEMMA FirstExists ==
    ASSUME NEW R, NEW S, IsFiniteSet(S), S # {}, Compares(R, S)
    PROVE  \E x \in S : \A y \in S : x # y => <<x, y>> \in R
<1> DEFINE HasFirst(T) == \E x \in T : \A y \in T : x # y => <<x, y>> \in R
           Bad == {n \in Nat : \E T \in SUBSET S : /\ IsFiniteSet(T) /\ Cardinality(T) = n
                                                   /\ T # {} /\ ~HasFirst(T)}
<1> SUFFICES ASSUME Bad # {} PROVE FALSE
  <2>1. Cardinality(S) \in Nat
    BY FS_CardinalityType
  <2> QED
    BY <2>1
<1>1. PICK m \in Bad : \A n \in Bad : m <= n
  <2> HIDE DEF Bad
  <2>1. Bad \subseteq Nat
    BY DEF Bad
  <2> QED
    BY <2>1, Least
<1>2. PICK T \in SUBSET S : IsFiniteSet(T) /\ Cardinality(T) = m /\ T # {} /\ ~HasFirst(T)
  BY <1>1
<1>3. PICK x \in T : TRUE
  BY <1>2
<1> DEFINE U == T \ {x}
<1>4. IsFiniteSet(U) /\ Cardinality(U) = m - 1 /\ U \in SUBSET S /\ m \in Nat
  BY <1>1, <1>2, <1>3, FS_RemoveElement
<1>5. U # {}
  BY <1>2, <1>3
<1>6. m - 1 \in Nat
  BY <1>4, FS_CardinalityType
<1>7. HasFirst(U)
  <2>1. ~ (m <= m - 1)
    BY <1>4
  <2>2. m - 1 \notin Bad
    BY <1>1, <2>1
  <2> QED
    BY <1>4, <1>5, <1>6, <2>2
<1>8. PICK b \in U : \A y \in U : b # y => <<b, y>> \in R
  BY <1>7
<1>9. CASE <<x, b>> \in R
  <2>1. \A y \in T : x # y => <<x, y>> \in R
    BY <1>2, <1>3, <1>8, <1>9 DEF Compares
  <2> QED
    BY <1>2, <1>3, <2>1
<1>10. CASE <<x, b>> \notin R
  <2>1. <<b, x>> \in R
    BY <1>2, <1>3, <1>8, <1>10 DEF Compares
  <2>2. \A y \in T : b # y => <<b, y>> \in R
    BY <1>8, <2>1
  <2> QED
    BY <1>2, <1>8, <2>2
<1> QED
  BY <1>9, <1>10

LEMMA SortExists ==
    ASSUME NEW R, NEW S, IsFiniteSet(S), Compares(R, S)
    PROVE  \E order \in [1..Cardinality(S) -> S] : Follows(R, order, Cardinality(S))
<1> DEFINE Sorted(T) == \E order \in [1..Cardinality(T) -> T] : Follows(R, order, Cardinality(T))
           Bad == {n \in Nat : \E T \in SUBSET S : /\ IsFiniteSet(T) /\ Cardinality(T) = n
                                                   /\ ~Sorted(T)}
<1> SUFFICES ASSUME Bad # {} PROVE FALSE
  <2>1. Cardinality(S) \in Nat
    BY FS_CardinalityType
  <2> QED
    BY <2>1
<1>1. PICK m \in Bad : \A n \in Bad : m <= n
  <2> HIDE DEF Bad
  <2>1. Bad \subseteq Nat
    BY DEF Bad
  <2> QED
    BY <2>1, Least
<1>2. PICK T \in SUBSET S : IsFiniteSet(T) /\ Cardinality(T) = m /\ ~Sorted(T)
  BY <1>1
<1>3. CASE m = 0
  <2>1. T = {}
    BY <1>2, <1>3, FS_EmptySet
  <2> DEFINE order == [i \in 1..0 |-> 0]
  <2>2. order \in [1..0 -> T] /\ Follows(R, order, 0)
    BY DEF Follows
  <2> QED
    BY <1>2, <1>3, <2>2
<1>4. CASE m # 0
  <2>1. T # {} /\ Compares(R, T)
    BY <1>2, <1>4, FS_EmptySet DEF Compares
  <2>2. PICK x \in T : \A y \in T : x # y => <<x, y>> \in R
    BY <1>2, <2>1, FirstExists
  <2> DEFINE U == T \ {x}
  <2>3. U \in SUBSET S /\ IsFiniteSet(U) /\ Cardinality(U) = m - 1
    BY <1>2, <2>2, FS_RemoveElement
  <2>4. m - 1 \in Nat /\ m \in Nat /\ m - 1 \notin Bad
    BY <1>1, <1>4
  <2>5. Sorted(U)
    BY <2>3, <2>4
  <2>6. PICK g \in [1..(m - 1) -> U] : Follows(R, g, m - 1)
    BY <2>3, <2>5
  <2> DEFINE order == [k \in 1..m |-> IF k = 1 THEN x ELSE g[k - 1]]
  <2>7. \A k \in 1..m : k # 1 => k - 1 \in 1..(m - 1) /\ g[k - 1] \in U
    BY <2>4, <2>6
  <2>8. order \in [1..m -> T]
    BY <2>2, <2>7
  <2>9. Follows(R, order, m)
    <3> SUFFICES ASSUME NEW i \in 1..m, NEW j \in 1..m, i < j
                 PROVE  <<order[i], order[j]>> \in R
      BY DEF Follows
    <3>1. j # 1 /\ order[j] = g[j - 1] /\ g[j - 1] \in U
      BY <2>7
    <3>2. CASE i = 1
      BY <2>2, <3>1, <3>2
    <3>3. CASE i # 1
      <4>1. order[i] = g[i - 1] /\ i - 1 \in 1..(m - 1) /\ j - 1 \in 1..(m - 1) /\ i - 1 < j - 1
        BY <2>4, <2>7, <3>1, <3>3
      <4> QED
        BY <2>6, <3>1, <4>1 DEF Follows
    <3> QED
      BY <3>2, <3>3
  <2> QED
    BY <1>2, <2>8, <2>9
<1> QED
  BY <1>3, <1>4

-----------------------------------------------------------------------------
(* The members of a finite set of positions, in their order.               *)

Increasing(order, n) == \A i, j \in 1..n : i < j => order[i] < order[j]

LEMMA OrderExists ==
    ASSUME NEW S \in SUBSET Nat, IsFiniteSet(S)
    PROVE  \E order \in [1..Cardinality(S) -> S] : Increasing(order, Cardinality(S))
<1> DEFINE R == {p \in S \X S : p[1] < p[2]}
<1>1. \A x, y \in S : <<x, y>> \in R <=> x < y
  OBVIOUS
<1>2. \A x, y, z \in S : x < y /\ y < z => x < z
  OBVIOUS
<1>3. \A x, y \in S : x # y => x < y \/ y < x
  OBVIOUS
<1> HIDE DEF R
<1>4. Compares(R, S)
  BY <1>1, <1>2, <1>3 DEF Compares
<1>5. PICK order \in [1..Cardinality(S) -> S] : Follows(R, order, Cardinality(S))
  BY <1>4, SortExists
<1>6. \A i, j \in 1..Cardinality(S) : i < j => order[i] < order[j]
  BY <1>1, <1>5 DEF Follows
<1> QED
  BY <1>5, <1>6 DEF Increasing

LEMMA InOrderFacts ==
    ASSUME NEW S \in SUBSET Nat, IsFiniteSet(S)
    PROVE  /\ InOrder(S) \in [1..Cardinality(S) -> S]
           /\ Increasing(InOrder(S), Cardinality(S))
           /\ Cardinality(S) \in Nat
  BY OrderExists, FS_CardinalityType DEF InOrder, Increasing

(* Nothing is left out.                                                    *)
LEMMA InOrderOnto ==
    ASSUME NEW S \in SUBSET Nat, IsFiniteSet(S), NEW x \in S
    PROVE  \E k \in 1..Cardinality(S) : InOrder(S)[k] = x
<1> DEFINE c == Cardinality(S)
           order == InOrder(S)
<1>1. order \in [1..c -> S] /\ Increasing(order, c) /\ c \in Nat
  BY InOrderFacts
<1> HIDE DEF c, order
<1>2. IsFiniteSet(1..c) /\ Cardinality(1..c) = c
  <2>1. c \in Int /\ 1 \in Int
    BY <1>1
  <2>2. IsFiniteSet(1..c) /\ Cardinality(1..c) = IF 1 > c THEN 0 ELSE c - 1 + 1
    BY <2>1, FS_Interval
  <2> QED
    BY <1>1, <2>2
<1>3. order \in Injection(1..c, S)
  <2>1. ASSUME NEW i \in 1..c, NEW j \in 1..c, order[i] = order[j]
        PROVE  i = j
    <3>1. i < j \/ j < i \/ i = j
      BY <1>1
    <3>2. order[i] \in Nat /\ order[j] \in Nat
      BY <1>1
    <3> QED
      BY <1>1, <2>1, <3>1, <3>2 DEF Increasing
  <2> QED
    BY <1>1, <2>1 DEF Injection, IsInjective
<1>4. order \in Surjection(1..c, S)
  BY <1>2, <1>3, FS_Injection DEF c
<1> QED
  BY <1>4 DEF Surjection, c, order

(* An increasing list of positive numbers is nowhere below its places.     *)
LEMMA IncreasingAbove ==
    ASSUME NEW n \in Nat, NEW h, \A k \in 1..n : h[k] \in Nat \ {0}, Increasing(h, n), NEW k \in 1..n
    PROVE  k <= h[k]
<1> DEFINE Bad == {m \in 1..n : ~(m <= h[m])}
<1> SUFFICES ASSUME Bad # {} PROVE FALSE
  OBVIOUS
<1>1. PICK m \in Bad : \A l \in Bad : m <= l
  <2>1. Bad \subseteq Nat
    OBVIOUS
  <2> HIDE DEF Bad
  <2> QED
    BY <2>1, Least
<1>2. m \in 1..n /\ h[m] < m /\ h[m] \in Nat \ {0} /\ m # 1
  OBVIOUS
<1>3. m - 1 \in 1..n /\ m - 1 < m /\ m - 1 \notin Bad
  BY <1>1, <1>2
<1>4. m - 1 <= h[m - 1] /\ h[m - 1] < h[m]
  BY <1>2, <1>3 DEF Increasing
<1>5. h[m - 1] \in Nat
  BY <1>3
<1> HIDE DEF Bad
<1> QED
  BY <1>2, <1>4, <1>5

-----------------------------------------------------------------------------
(* The entries of a list at some places, its first ones, those behind an   *)
(* offset.                                                                 *)

LEMMA PlacesFacts ==
    ASSUME NEW T, NEW s \in Seq(T), NEW P \in SUBSET DOMAIN s
    PROVE  IsFiniteSet(P) /\ P \in SUBSET Nat /\ P \subseteq 1..Len(s) /\ Cardinality(P) \in Nat
<1>1. DOMAIN s = 1..Len(s) /\ Len(s) \in Nat
  OBVIOUS
<1>2. IsFiniteSet(1..Len(s))
  <2>1. Len(s) \in Int /\ 1 \in Int
    BY <1>1
  <2> QED
    BY <2>1, FS_Interval
<1>3. IsFiniteSet(P)
  BY <1>1, <1>2, FS_Subset
<1>4. P \in SUBSET Nat /\ P \subseteq 1..Len(s)
  BY <1>1
<1> QED
  BY <1>3, <1>4, FS_CardinalityType

LEMMA EntriesAtFacts ==
    ASSUME NEW T, NEW s \in Seq(T), NEW P \in SUBSET DOMAIN s
    PROVE  /\ EntriesAt(s, P) \in Seq(T) /\ Len(EntriesAt(s, P)) = Cardinality(P)
           /\ Cardinality(P) \in Nat /\ DOMAIN EntriesAt(s, P) = 1..Cardinality(P)
           /\ \A k \in 1..Cardinality(P) :
                 /\ InOrder(P)[k] \in P
                 /\ EntriesAt(s, P)[k] = s[InOrder(P)[k]]
<1> DEFINE c == Cardinality(P)
           order == InOrder(P)
           e == EntriesAt(s, P)
<1>1. IsFiniteSet(P) /\ P \in SUBSET Nat /\ P \subseteq 1..Len(s) /\ Len(s) \in Nat /\ DOMAIN s = 1..Len(s)
  BY PlacesFacts
<1>2. order \in [1..c -> P] /\ c \in Nat
  BY <1>1, InOrderFacts
<1>3. e = [k \in DOMAIN order |-> s[order[k]]]
  BY DEF EntriesAt
<1> HIDE DEF c, order, e
<1>4. e = [k \in 1..c |-> s[order[k]]]
  BY <1>2, <1>3
<1>5. \A k \in 1..c : order[k] \in P /\ s[order[k]] \in T
  BY <1>1, <1>2
<1>6. e \in Seq(T) /\ Len(e) = c /\ DOMAIN e = 1..c
  BY <1>2, <1>4, <1>5
<1> QED
  BY <1>2, <1>4, <1>5, <1>6 DEF c, order, e

LEMMA FirstOfFacts ==
    ASSUME NEW T, NEW s \in Seq(T), NEW n \in Nat
    PROVE  /\ FirstOf(s, n) \in Seq(T)
           /\ Len(FirstOf(s, n)) \in Nat /\ Len(FirstOf(s, n)) <= Len(s)
           /\ \A k \in 1..Len(s) : k <= n => k <= Len(FirstOf(s, n))
           /\ DOMAIN FirstOf(s, n) = 1..Len(FirstOf(s, n))
           /\ \A k \in 1..Len(FirstOf(s, n)) : k \in 1..Len(s) /\ FirstOf(s, n)[k] = s[k]
<1> DEFINE m == IF Len(s) < n THEN Len(s) ELSE n
           f == FirstOf(s, n)
<1>1. m \in Nat /\ m <= Len(s) /\ Len(s) \in Nat /\ \A k \in 1..Len(s) : k <= n => k <= m
  OBVIOUS
<1>2. f = SubSeq(s, 1, m)
  BY DEF FirstOf
<1> HIDE DEF m, f
<1>3. f = [k \in 1..m |-> s[k]]
  BY <1>1, <1>2
<1>4. \A k \in 1..m : k \in 1..Len(s) /\ s[k] \in T
  BY <1>1
<1>5. f \in Seq(T) /\ Len(f) = m /\ DOMAIN f = 1..m
  BY <1>1, <1>3, <1>4
<1> QED
  BY <1>1, <1>3, <1>4, <1>5 DEF f

LEMMA FromFacts ==
    ASSUME NEW T, NEW s \in Seq(T), NEW offset \in Nat, offset <= Len(s)
    PROVE  /\ From(s, offset) \in Seq(T) /\ Len(From(s, offset)) = Len(s) - offset
           /\ \A k \in 1..(Len(s) - offset) : From(s, offset)[k] = s[offset + k]
<1> DEFINE m == Len(s) - offset
           f == From(s, offset)
<1>1. m \in Nat /\ Len(s) \in Nat /\ \A k \in 1..m : offset + k \in 1..Len(s)
  OBVIOUS
<1>2. f = SubSeq(s, offset + 1, Len(s))
  BY DEF From
<1> HIDE DEF f
<1>3. f = [k \in 1..(Len(s) - (offset + 1) + 1) |-> s[offset + 1 + k - 1]]
  BY <1>1, <1>2
<1>4. f = [k \in 1..m |-> s[offset + k]]
  BY <1>1, <1>3
<1> HIDE DEF m
<1>5. \A k \in 1..m : s[offset + k] \in T
  <2>1. \A j \in 1..Len(s) : s[j] \in T
    OBVIOUS
  <2> QED
    BY <1>1, <2>1
<1>6. f \in Seq(T) /\ Len(f) = m
  BY <1>1, <1>4, <1>5
<1> QED
  BY <1>4, <1>6 DEF f, m

-----------------------------------------------------------------------------
(* Connectors: lists that are sequences of what they hold.                 *)

LEMMA IsSeqOf ==
    ASSUME NEW S, NEW s \in Seq(S)
    PROVE  IsSeq(s)
  BY DEF IsSeq, ToSet

LEMMA IsSeqFacts ==
    ASSUME NEW s, IsSeq(s)
    PROVE  /\ Len(s) \in Nat /\ DOMAIN s = 1..Len(s) /\ s \in Seq(ToSet(s))
           /\ \A k \in 1..Len(s) : s[k] \in ToSet(s)
           /\ \A w \in ToSet(s) : \E k \in 1..Len(s) : s[k] = w
<1>1. Len(s) \in Nat /\ DOMAIN s = 1..Len(s) /\ s \in Seq(ToSet(s))
  BY DEF IsSeq
<1>2. \A k \in 1..Len(s) : s[k] \in ToSet(s)
  BY <1>1
<1>3. \A w \in ToSet(s) : \E k \in 1..Len(s) : s[k] = w
  BY <1>1 DEF ToSet
<1> QED
  BY <1>1, <1>2, <1>3

LEMMA AppendFacts ==
    ASSUME NEW s, IsSeq(s), NEW e
    PROVE  /\ IsSeq(Append(s, e)) /\ DOMAIN Append(s, e) = 1..(Len(s) + 1)
           /\ Append(s, e)[Len(s) + 1] = e
           /\ \A k \in 1..Len(s) : Append(s, e)[k] = s[k]
<1> DEFINE T == ToSet(s) \cup {e}
<1>1. s \in Seq(ToSet(s)) /\ Len(s) \in Nat
  BY IsSeqFacts
<1> HIDE DEF T
<1>2. s \in Seq(T) /\ e \in T
  BY <1>1 DEF T
<1>3. Append(s, e) \in Seq(T)
  BY <1>2
<1>4. IsSeq(Append(s, e))
  BY <1>3, IsSeqOf
<1>5. DOMAIN Append(s, e) = 1..(Len(s) + 1) /\ Append(s, e)[Len(s) + 1] = e
  BY <1>1, <1>2
<1>6. \A k \in 1..Len(s) : Append(s, e)[k] = s[k]
  BY <1>1, <1>2
<1> QED
  BY <1>4, <1>5, <1>6

LEMMA TailFacts ==
    ASSUME NEW s, IsSeq(s), s # <<>>
    PROVE  /\ IsSeq(Tail(s)) /\ Len(Tail(s)) = Len(s) - 1 /\ DOMAIN Tail(s) = 1..(Len(s) - 1)
           /\ Len(s) \in Nat \ {0} /\ Head(s) = s[1]
           /\ \A k \in 1..(Len(s) - 1) : Tail(s)[k] = s[k + 1]
<1>1. s \in Seq(ToSet(s)) /\ Len(s) \in Nat
  BY IsSeqFacts
<1>2. Tail(s) \in Seq(ToSet(s))
  BY <1>1
<1>3. IsSeq(Tail(s))
  BY <1>2, IsSeqOf
<1>4. Len(s) # 0
  BY <1>1
<1> QED
  BY <1>1, <1>2, <1>3, <1>4

LEMMA MinFacts ==
    ASSUME NEW T \in SUBSET Nat, T # {}
    PROVE  Min(T) \in T /\ \A n \in T : Min(T) <= n
<1>1. \E m \in T : \A n \in T : m <= n
  BY Least
<1> QED
  BY <1>1 DEF Min

LEMMA DetailLinksFacts ==
    ASSUME NEW reply, IsSeq(reply.links)
    PROVE  /\ IsSeq(DetailLinks(reply)) /\ Len(DetailLinks(reply)) <= MAX_PAGES
           /\ \A k, l \in DOMAIN DetailLinks(reply) : k # l =>
                 DetailLinks(reply)[k] # DetailLinks(reply)[l]
<1> DEFINE s == reply.links
           P == {i \in Links(reply) : s[i] \in Relevant}
           order == InOrder(P)
           c == Cardinality(P)
           D == DetailLinks(reply)
           m == IF c < MAX_PAGES THEN c ELSE MAX_PAGES
<1>1. DOMAIN s = 1..Len(s) /\ Len(s) \in Nat /\ MAX_PAGES \in Nat
  BY IsSeqFacts, ConnectorsAssumption
<1>2. P \subseteq 1..Len(s) /\ \A i \in P : \A j \in 1..(i - 1) : s[j] # s[i]
  BY <1>1 DEF Links
<1> HIDE DEF P
<1>3. IsFiniteSet(P) /\ P \in SUBSET Nat
  <2>1. IsFiniteSet(1..Len(s))
    BY <1>1, FS_Interval
  <2>2. IsFiniteSet(P)
    BY <1>2, <2>1, FS_Subset
  <2> QED
    BY <1>2, <2>2
<1>4. order \in [1..c -> P] /\ Increasing(order, c) /\ c \in Nat
  BY <1>3, InOrderFacts
<1>5. D = [k \in {n \in DOMAIN order : n <= MAX_PAGES} |-> s[order[k]]]
  BY DEF DetailLinks, P
<1> HIDE DEF order, c, D, s
<1>6. {n \in DOMAIN order : n <= MAX_PAGES} = 1..m /\ m \in Nat /\ m <= MAX_PAGES /\ m <= c
  BY <1>1, <1>4
<1>7. D = [k \in 1..m |-> s[order[k]]]
  BY <1>5, <1>6
<1> HIDE DEF m
<1>8. D \in Seq({s[order[k]] : k \in 1..m}) /\ Len(D) = m /\ DOMAIN D = 1..m
  BY <1>6, <1>7
<1>9. \A k, l \in 1..m : k < l => D[k] # D[l]
  <2> SUFFICES ASSUME NEW k \in 1..m, NEW l \in 1..m, k < l
               PROVE  D[k] # D[l]
    OBVIOUS
  <2>1. k \in 1..c /\ l \in 1..c
    BY <1>4, <1>6
  <2>2. order[k] < order[l] /\ order[k] \in P /\ order[l] \in P
    BY <1>4, <2>1 DEF Increasing
  <2>3. order[k] \in 1..(order[l] - 1)
    <3>1. order[k] \in 1..Len(s) /\ order[l] \in 1..Len(s)
      BY <1>2, <2>2
    <3> QED
      BY <1>1, <2>2, <3>1
  <2>4. s[order[k]] # s[order[l]]
    BY <1>2, <2>2, <2>3
  <2> QED
    BY <1>7, <2>4
<1>10. IsSeq(D)
  BY <1>8, IsSeqOf
<1>11. \A k, l \in DOMAIN D : k # l => D[k] # D[l]
  <2> SUFFICES ASSUME NEW k \in 1..m, NEW l \in 1..m, k # l
               PROVE  D[k] # D[l]
    BY <1>8
  <2>1. k < l \/ l < k
    BY <1>6
  <2> QED
    BY <1>9, <2>1
<1> QED
  BY <1>6, <1>8, <1>10, <1>11 DEF D

-----------------------------------------------------------------------------
(* Connectors: what the rules find in a text.                              *)

(* The window of _find_near_marker holds words of the page that stand near *)
(* a marker, and is empty only when the page has no marker.                *)
LEMMA NearMarkerFacts ==
    ASSUME NEW text, IsSeq(text), NEW markers, IsSeq(markers)
    PROVE  /\ IsSeq(NearMarker(text, markers))
           /\ NearMarker(text, markers) = <<>> => \A m \in ToSet(markers) : ~Holds(text, m)
           /\ \A k \in DOMAIN NearMarker(text, markers) : \E i \in DOMAIN text :
                 NearMarker(text, markers)[k] = text[i] /\ Near(text, i, markers)
<1> DEFINE found == FoundIn(text, markers)
           word == markers[Min(found)]
           i == FirstAt(text, word)
           lo == IF i > Before THEN i - Before ELSE 1
           hi == IF i + After - 1 < Len(text) THEN i + After - 1 ELSE Len(text)
           near == NearMarker(text, markers)
<1>1. /\ Len(text) \in Nat /\ DOMAIN text = 1..Len(text) /\ text \in Seq(ToSet(text))
      /\ \A w \in ToSet(text) : \E k \in 1..Len(text) : text[k] = w
  BY IsSeqFacts
<1>2. /\ Len(markers) \in Nat /\ DOMAIN markers = 1..Len(markers)
      /\ \A k \in 1..Len(markers) : markers[k] \in ToSet(markers)
      /\ \A w \in ToSet(markers) : \E k \in 1..Len(markers) : markers[k] = w
  BY IsSeqFacts
<1>3. near = IF found = {} THEN <<>> ELSE SubSeq(text, lo, hi)
  BY DEF NearMarker
<1>4. /\ found \in SUBSET Nat /\ found \subseteq 1..Len(markers)
      /\ \A k \in 1..Len(markers) : Holds(text, markers[k]) => k \in found
      /\ \A k \in found : Holds(text, markers[k])
  BY <1>2 DEF FoundIn
<1> HIDE DEF found, near
<1>5. CASE found = {}
  <2>1. \A m \in ToSet(markers) : ~Holds(text, m)
    BY <1>2, <1>4, <1>5
  <2>2. near = <<>>
    BY <1>3, <1>5
  <2>3. IsSeq(near)
    <3>1. <<>> \in Seq({})
      OBVIOUS
    <3> QED
      BY <2>2, <3>1, IsSeqOf
  <2> QED
    BY <2>1, <2>2, <2>3 DEF near
<1>6. CASE found # {}
  <2>1. Min(found) \in found
    BY <1>4, <1>6, MinFacts
  <2>2. word \in ToSet(markers) /\ \E j \in 1..Len(text) : word \in Inside(text[j])
    BY <1>1, <1>2, <1>4, <2>1 DEF Holds
  <2> HIDE DEF word
  <2> DEFINE places == {j \in DOMAIN text : word \in Inside(text[j])}
  <2>3. places # {} /\ places \in SUBSET Nat
    BY <1>1, <2>2
  <2>4. i \in places
    BY <2>3, MinFacts DEF FirstAt
  <2>5. i \in 1..Len(text) /\ word \in Inside(text[i])
    BY <1>1, <2>4
  <2> HIDE DEF i, places
  <2>6. Before \in Nat /\ After \in Nat /\ After # 0
    BY ExtractionAssumption
  <2>7. /\ lo \in Nat /\ hi \in Nat /\ 1 <= lo /\ lo <= hi /\ hi <= Len(text)
        /\ \A p \in lo..hi : p \in 1..Len(text) /\ p + Before >= i /\ p < i + After
    BY <1>1, <2>5, <2>6
  <2>8. \A p \in lo..hi : p \in DOMAIN text /\ Near(text, p, markers)
    BY <1>1, <2>2, <2>5, <2>7 DEF Near
  <2> HIDE DEF lo, hi
  <2>9. near = SubSeq(text, lo, hi)
    BY <1>3, <1>6
  <2>10. /\ near \in Seq(ToSet(text)) /\ DOMAIN near = 1..(hi - lo + 1) /\ Len(near) = hi - lo + 1
         /\ \A k \in 1..(hi - lo + 1) : near[k] = text[lo + k - 1]
    <3>1. near = [k \in 1..(hi - lo + 1) |-> text[lo + k - 1]]
      BY <1>1, <2>7, <2>9
    <3>2. \A k \in 1..(hi - lo + 1) : text[lo + k - 1] \in ToSet(text)
      BY <1>1, <2>7
    <3>3. hi - lo + 1 \in Nat
      BY <2>7
    <3> QED
      BY <3>1, <3>2, <3>3
  <2>11. near # <<>>
    <3>1. Len(near) # 0
      BY <2>7, <2>10
    <3> QED
      BY <3>1
  <2>12. ASSUME NEW k \in DOMAIN near
         PROVE  \E p \in DOMAIN text : near[k] = text[p] /\ Near(text, p, markers)
    <3>1. lo + k - 1 \in lo..hi /\ near[k] = text[lo + k - 1]
      BY <2>7, <2>10
    <3> QED
      BY <2>8, <3>1
  <2>13. IsSeq(near)
    BY <2>10, IsSeqOf
  <2> QED
    BY <2>11, <2>12, <2>13 DEF near
<1> QED
  BY <1>5, <1>6

(* A deadline is a date of the text it is looked for in.                   *)
LEMMA DeadlineFacts ==
    ASSUME NEW scope, DeadlineIn(scope) # None
    PROVE  \E i \in DOMAIN scope : scope[i] \in Dates /\ IsoOf[scope[i]] = DeadlineIn(scope)
<1> DEFINE firsts == {i \in DOMAIN scope : /\ scope[i] \in Dates
                                           /\ \A j \in 1 .. i - 1 : scope[j] \in Dates =>
                                                  DatePattern[scope[j]] # DatePattern[scope[i]]}
           found == {i \in firsts : IsoOf[scope[i]] # None}
           best == CHOOSE i \in found : \A j \in found : DatePattern[scope[i]] <= DatePattern[scope[j]]
           places == {DatePattern[scope[i]] : i \in found}
<1>1. DeadlineIn(scope) = IF found = {} THEN None ELSE IsoOf[scope[best]]
  BY DEF DeadlineIn
<1>2. \A i \in found : i \in DOMAIN scope /\ scope[i] \in Dates
  OBVIOUS
<1> HIDE DEF found, best
<1>3. found # {} /\ DeadlineIn(scope) = IsoOf[scope[best]]
  BY <1>1
<1>4. places \subseteq Nat /\ places # {}
  BY <1>2, <1>3, ExtractionAssumption
<1>5. PICK m \in places : \A n \in places : m <= n
  BY <1>4, Least
<1>6. \E i \in found : \A j \in found : DatePattern[scope[i]] <= DatePattern[scope[j]]
  BY <1>5
<1>7. best \in found
  BY <1>6 DEF best
<1> QED
  BY <1>2, <1>3, <1>7

(* The name of a funder is made of the words after a marker, none of which *)
(* is a boundary.                                                          *)
LEMMA NameFacts ==
    ASSUME NEW text, IsSeq(text), NEW i \in 1..Len(text), NameAfter(text, i) # <<>>
    PROVE  \E j \in 1..Len(text) : /\ i < j /\ NameAfter(text, i) = SubSeq(text, i + 1, j)
                                   /\ ToSet(NameAfter(text, i)) \cap BOUNDARY = {}
<1> DEFINE n == Len(text)
           rest == SubSeq(text, i + 1, n)
           ends == {k \in DOMAIN rest : rest[k] \in BOUNDARY} \cup {Len(rest) + 1, FUNDER_MAX_WORDS + 1}
           e == Min(ends)
           name == NameAfter(text, i)
<1>1. n \in Nat /\ DOMAIN text = 1..n /\ text \in Seq(ToSet(text)) /\ FUNDER_MAX_WORDS \in Nat
      /\ i \in Nat /\ 1 <= i /\ i <= n
  BY IsSeqFacts, ExtractionAssumption
<1>2. name = SubSeq(rest, 1, e - 1)
  BY DEF NameAfter
<1>3. /\ rest \in Seq(ToSet(text)) /\ Len(rest) = n - i /\ DOMAIN rest = 1..(n - i)
      /\ \A k \in 1..(n - i) : rest[k] = text[i + k]
  <2>1. rest \in Seq(ToSet(text)) /\ Len(rest) = n - i /\ DOMAIN rest = 1..(n - i)
    <3>1. i + 1 \in 1..(n + 1) /\ n - (i + 1) + 1 = n - i
      BY <1>1
    <3>2. \A k \in (i + 1)..n : text[k] \in ToSet(text)
      BY <1>1
    <3> HIDE DEF n
    <3>3. rest = [k \in 1..(n - i) |-> text[i + k]]
      BY <1>1, <3>1
    <3> HIDE DEF rest
    <3>4. \A k \in 1..(n - i) : text[i + k] \in ToSet(text)
      BY <1>1, <3>2
    <3> QED
      BY <1>1, <3>3, <3>4
  <2>2. \A k \in 1..(n - i) : rest[k] = text[i + k]
    BY <1>1
  <2> QED
    BY <2>1, <2>2
<1> HIDE DEF rest, n, name
<1>4. ends \in SUBSET Nat /\ ends # {} /\ n - i + 1 \in ends /\ \A k \in ends : 1 <= k
  BY <1>1, <1>3
<1>5. /\ e \in Nat /\ 1 <= e /\ e <= n - i + 1
      /\ \A k \in DOMAIN rest : rest[k] \in BOUNDARY => e <= k
  <2>1. e \in ends /\ \A k \in ends : e <= k
    <3> HIDE DEF ends
    <3> QED
      BY <1>4, MinFacts
  <2> QED
    BY <1>4, <2>1
<1> HIDE DEF ends, e
<1>6. /\ DOMAIN name = 1..(e - 1) /\ Len(name) = e - 1
      /\ \A k \in 1..(e - 1) : name[k] = rest[k]
  BY <1>1, <1>2, <1>3, <1>5
<1>7. e - 1 # 0
  <2> SUFFICES ASSUME e - 1 = 0 PROVE FALSE
    OBVIOUS
  <2>1. name = <<>>
    BY <1>2, <1>3, <1>5
  <2> QED
    BY <2>1 DEF name
<1>8. ToSet(name) \cap BOUNDARY = {}
  <2> SUFFICES ASSUME NEW k \in 1..(e - 1), name[k] \in BOUNDARY
               PROVE  FALSE
    BY <1>6 DEF ToSet
  <2>1. k \in 1..(n - i) /\ rest[k] \in BOUNDARY
    BY <1>1, <1>5, <1>6
  <2>2. e <= k
    BY <1>3, <1>5, <2>1
  <2> QED
    BY <1>5, <2>2
<1> DEFINE j == i + e - 1
<1>9. j \in 1..n /\ i < j /\ j - i = e - 1
  BY <1>1, <1>5, <1>7
<1>10. name = SubSeq(text, i + 1, j)
  <2>1. /\ SubSeq(text, i + 1, j) \in Seq(ToSet(text))
        /\ Len(SubSeq(text, i + 1, j)) = e - 1
    BY <1>1, <1>5, <1>9
  <2>2. \A k \in 1..(e - 1) : SubSeq(text, i + 1, j)[k] = text[i + k]
    BY <1>1, <1>5, <1>9
  <2>3. name \in Seq(ToSet(text))
    BY <1>2, <1>3, <1>5
  <2>4. \A k \in 1..(e - 1) : name[k] = text[i + k]
    BY <1>1, <1>3, <1>5, <1>6
  <2> HIDE DEF j
  <2> DEFINE other == SubSeq(text, i + 1, j)
  <2>5. other \in Seq(ToSet(text)) /\ Len(other) = Len(name)
        /\ \A k \in 1..Len(name) : other[k] = name[k]
    BY <1>6, <2>1, <2>2, <2>4
  <2> HIDE DEF other
  <2>6. other = name
    BY <2>3, <2>5
  <2> QED
    BY <2>6 DEF other
<1> QED
  BY <1>8, <1>9, <1>10 DEF n, name

LEMMA FunderFacts ==
    ASSUME NEW text, IsSeq(text), ExtractFunder(text) # None
    PROVE  \E i, j \in DOMAIN text : /\ Inside(text[i]) \cap ToSet(FUNDER) # {} /\ i < j
                                     /\ ExtractFunder(text) = SubSeq(text, i + 1, j)
                                     /\ ToSet(ExtractFunder(text)) \cap BOUNDARY = {}
<1> DEFINE named == {k \in FoundIn(text, FUNDER) : NameAfter(text, FirstAt(text, FUNDER[k])) # <<>>}
           word == FUNDER[Min(named)]
           i == FirstAt(text, word)
<1>1. /\ Len(text) \in Nat /\ DOMAIN text = 1..Len(text)
      /\ Len(FUNDER) \in Nat /\ DOMAIN FUNDER = 1..Len(FUNDER)
      /\ \A k \in 1..Len(FUNDER) : FUNDER[k] \in ToSet(FUNDER)
  BY IsSeqFacts, ExtractionAssumption
<1>2. ExtractFunder(text) = IF named = {} THEN None ELSE NameAfter(text, i)
  BY DEF ExtractFunder
<1>3. named \in SUBSET Nat /\ \A k \in named : /\ k \in 1..Len(FUNDER)
                                               /\ \E j \in 1..Len(text) : FUNDER[k] \in Inside(text[j])
                                               /\ NameAfter(text, FirstAt(text, FUNDER[k])) # <<>>
  BY <1>1 DEF FoundIn, Holds
<1> HIDE DEF named
<1>4. named # {} /\ ExtractFunder(text) = NameAfter(text, i)
  BY <1>2
<1>5. Min(named) \in named
  BY <1>3, <1>4, MinFacts
<1>6. /\ word \in ToSet(FUNDER) /\ \E j \in 1..Len(text) : word \in Inside(text[j])
      /\ NameAfter(text, i) # <<>>
  BY <1>1, <1>3, <1>5
<1> HIDE DEF word
<1> DEFINE places == {j \in DOMAIN text : word \in Inside(text[j])}
<1>7. places # {} /\ places \in SUBSET Nat
  BY <1>1, <1>6
<1>8. i \in places
  BY <1>7, MinFacts DEF FirstAt
<1>9. i \in 1..Len(text) /\ word \in Inside(text[i])
  BY <1>1, <1>8
<1> HIDE DEF i, places
<1>10. PICK j \in 1..Len(text) : /\ i < j /\ NameAfter(text, i) = SubSeq(text, i + 1, j)
                                 /\ ToSet(NameAfter(text, i)) \cap BOUNDARY = {}
  BY <1>6, <1>9, NameFacts
<1> QED
  BY <1>1, <1>4, <1>6, <1>9, <1>10

-----------------------------------------------------------------------------
(* Connectors: what becomes of a page.                                     *)

(* FieldsHaveEvidence, of a record or of the fields found on a page.       *)
HasEvidence(r, text, title, url) ==
    /\ r.deadline # None =>
           \E i \in DOMAIN text : /\ text[i] \in Dates /\ IsoOf[text[i]] = r.deadline
                                  /\ \/ Near(text, i, DEADLINE)
                                     \/ \A m \in ToSet(DEADLINE) : ~Holds(text, m)
    /\ r.country = "India" =>
           \/ url \in IndianHost
           \/ \E word \in ToSet(title) : OfPlace(word)
           \/ \E i \in DOMAIN text : OfPlace(text[i]) /\ Near(text, i, ELIGIBILITY \o DEADLINE)
    /\ r.funder # None =>
           \E i, j \in DOMAIN text : /\ Inside(text[i]) \cap ToSet(FUNDER) # {} /\ i < j
                                     /\ r.funder = SubSeq(text, i + 1, j)
                                     /\ ToSet(r.funder) \cap BOUNDARY = {}

AnswerNames(r, answer, url) ==
    r.country = "India" =>
        \/ url \in IndianHost
        \/ \E word \in ToSet(answer.title \o answer.eligibility \o answer.description) : OfPlace(word)

(* A country is that of the host, or in one of the words it is read from.  *)
LEMMA CountryFacts ==
    ASSUME NEW words, NEW url
    PROVE  /\ CountryOf(words, url) \in {"India", "unknown"}
           /\ CountryOf(words, url) = "India" =>
                 url \in IndianHost \/ \E word \in ToSet(words) : OfPlace(word)
<1>1. CountryOf(words, url) \in {"India", "unknown"}
  BY DEF CountryOf
<1>2. ASSUME CountryOf(words, url) = "India", url \notin IndianHost
      PROVE  \E word \in ToSet(words) : OfPlace(word)
  <2>1. PICK place \in LOCATION_KEYWORDS : Holds(words, place)
    BY <1>2 DEF CountryOf
  <2>2. PICK i \in DOMAIN words : place \in Inside(words[i])
    BY <2>1 DEF Holds
  <2>3. words[i] \in ToSet(words) /\ OfPlace(words[i])
    BY <2>1, <2>2 DEF ToSet, OfPlace
  <2> QED
    BY <2>3
<1> QED
  BY <1>1, <1>2

LEMMA ConcatFacts ==
    ASSUME NEW s, IsSeq(s), NEW t, IsSeq(t)
    PROVE  ToSet(s \o t) = ToSet(s) \cup ToSet(t) /\ IsSeq(s \o t)
<1>1. /\ Len(s) \in Nat /\ DOMAIN s = 1..Len(s) /\ s \in Seq(ToSet(s))
      /\ Len(t) \in Nat /\ DOMAIN t = 1..Len(t) /\ t \in Seq(ToSet(t))
  BY IsSeqFacts
<1> DEFINE T == ToSet(s) \cup ToSet(t)
           c == s \o t
<1>2. s \in Seq(T) /\ t \in Seq(T)
  BY <1>1
<1>3. /\ c \in Seq(T) /\ DOMAIN c = 1..(Len(s) + Len(t))
      /\ \A k \in 1..(Len(s) + Len(t)) : c[k] = IF k <= Len(s) THEN s[k] ELSE t[k - Len(s)]
  BY <1>1, <1>2
<1> HIDE DEF c, T
<1>4. IsSeq(c)
  BY <1>3, IsSeqOf
<1>5. ToSet(c) \subseteq T
  BY <1>3 DEF ToSet
<1>6. ToSet(s) \subseteq ToSet(c)
  <2> SUFFICES ASSUME NEW k \in 1..Len(s) PROVE s[k] \in ToSet(c)
    BY <1>1 DEF ToSet
  <2>1. k \in DOMAIN c /\ c[k] = s[k]
    BY <1>1, <1>3
  <2> QED
    BY <2>1 DEF ToSet
<1>7. ToSet(t) \subseteq ToSet(c)
  <2> SUFFICES ASSUME NEW k \in 1..Len(t) PROVE t[k] \in ToSet(c)
    BY <1>1 DEF ToSet
  <2>1. k + Len(s) \in DOMAIN c /\ c[k + Len(s)] = t[k]
    BY <1>1, <1>3
  <2> QED
    BY <2>1 DEF ToSet
<1> QED
  BY <1>4, <1>5, <1>6, <1>7 DEF T, c

(* The rules: the window of a marker is where a deadline and a country are *)
(* looked for, and the whole page only when there is no marker.            *)
LEMMA RuleBasedFacts ==
    ASSUME NEW text, IsSeq(text), NEW title, IsSeq(title), NEW url, HasGrantSignal(text)
    PROVE  /\ RuleBased(text, title, url).status \in {"complete", "partial"}
           /\ RuleBased(text, title, url).method = "rule_based"
           /\ RuleBased(text, title, url).country \in {"India", "unknown"}
           /\ HasEvidence(RuleBased(text, title, url), text, title, url)
<1> DEFINE near == NearMarker(text, DEADLINE)
           eligibility == NearMarker(text, ELIGIBILITY)
           deadline == DeadlineIn(IF near # <<>> THEN near ELSE text)
           funder == ExtractFunder(text)
           country == CountryOf(CountryScope(text, title), url)
           category == KeywordHits(text, FOCUS_AREAS, 1)
           f == RuleBased(text, title, url)
<1>1. f = [status |-> IF deadline # None \/ eligibility # <<>> THEN "complete" ELSE "partial",
           method |-> "rule_based", title |-> title, funder |-> funder, eligibility |-> eligibility,
           category |-> category, deadline |-> deadline, country |-> country]
  BY DEF RuleBased
<1>2. IsSeq(DEADLINE) /\ IsSeq(ELIGIBILITY)
  BY ExtractionAssumption
<1>3. /\ IsSeq(near)
      /\ near = <<>> => \A m \in ToSet(DEADLINE) : ~Holds(text, m)
      /\ \A k \in DOMAIN near : \E i \in DOMAIN text : near[k] = text[i] /\ Near(text, i, DEADLINE)
  BY <1>2, NearMarkerFacts
<1>4. /\ IsSeq(eligibility)
      /\ \A k \in DOMAIN eligibility : \E i \in DOMAIN text :
            eligibility[k] = text[i] /\ Near(text, i, ELIGIBILITY)
  BY <1>2, NearMarkerFacts
<1>5. CountryScope(text, title) = title \o eligibility \o near
  BY DEF CountryScope
<1>6. funder # None =>
          \E i, j \in DOMAIN text : /\ Inside(text[i]) \cap ToSet(FUNDER) # {} /\ i < j
                                    /\ funder = SubSeq(text, i + 1, j)
                                    /\ ToSet(funder) \cap BOUNDARY = {}
  BY FunderFacts
<1> HIDE DEF near, eligibility, funder, f
<1>7. deadline # None =>
          \E i \in DOMAIN text : /\ text[i] \in Dates /\ IsoOf[text[i]] = deadline
                                 /\ \/ Near(text, i, DEADLINE)
                                    \/ \A m \in ToSet(DEADLINE) : ~Holds(text, m)
  <2> SUFFICES ASSUME deadline # None
               PROVE  \E i \in DOMAIN text : /\ text[i] \in Dates /\ IsoOf[text[i]] = deadline
                                             /\ \/ Near(text, i, DEADLINE)
                                                \/ \A m \in ToSet(DEADLINE) : ~Holds(text, m)
    OBVIOUS
  <2>1. CASE near # <<>>
    <3>1. deadline = DeadlineIn(near)
      BY <2>1
    <3>2. PICK k \in DOMAIN near : near[k] \in Dates /\ IsoOf[near[k]] = deadline
      BY <3>1, DeadlineFacts
    <3> QED
      BY <1>3, <3>2
  <2>2. CASE near = <<>>
    <3>1. deadline = DeadlineIn(text)
      BY <2>2
    <3>2. PICK i \in DOMAIN text : text[i] \in Dates /\ IsoOf[text[i]] = deadline
      BY <3>1, DeadlineFacts
    <3> QED
      BY <1>3, <2>2, <3>2
  <2> QED
    BY <2>1, <2>2
<1>8. \A i \in DOMAIN text : Near(text, i, ELIGIBILITY) \/ Near(text, i, DEADLINE) =>
          Near(text, i, ELIGIBILITY \o DEADLINE)
  <2>1. ToSet(ELIGIBILITY \o DEADLINE) = ToSet(ELIGIBILITY) \cup ToSet(DEADLINE)
    BY <1>2, ConcatFacts
  <2> QED
    BY <2>1 DEF Near
<1>9. /\ country \in {"India", "unknown"}
      /\ country = "India" =>
            url \in IndianHost \/ \E word \in ToSet(title \o eligibility \o near) : OfPlace(word)
  BY <1>5, CountryFacts
<1>10. country = "India" =>
          \/ url \in IndianHost
          \/ \E word \in ToSet(title) : OfPlace(word)
          \/ \E i \in DOMAIN text : OfPlace(text[i]) /\ Near(text, i, ELIGIBILITY \o DEADLINE)
  <2> HIDE DEF country
  <2> SUFFICES ASSUME country = "India", url \notin IndianHost,
                      NEW word \in ToSet(title \o eligibility \o near), OfPlace(word)
               PROVE  \/ word \in ToSet(title)
                      \/ \E i \in DOMAIN text : OfPlace(text[i]) /\ Near(text, i, ELIGIBILITY \o DEADLINE)
    BY <1>9
  <2>1. ToSet(title \o eligibility) = ToSet(title) \cup ToSet(eligibility) /\ IsSeq(title \o eligibility)
    BY <1>4, ConcatFacts
  <2>2. ToSet(title \o eligibility \o near) = ToSet(title \o eligibility) \cup ToSet(near)
    BY <1>3, <2>1, ConcatFacts
  <2>3. \/ word \in ToSet(title)
        \/ \E k \in DOMAIN eligibility : eligibility[k] = word
        \/ \E k \in DOMAIN near : near[k] = word
    BY <2>1, <2>2 DEF ToSet
  <2>4. \/ word \in ToSet(title)
        \/ \E i \in DOMAIN text : word = text[i] /\ (Near(text, i, ELIGIBILITY) \/ Near(text, i, DEADLINE))
    BY <1>3, <1>4, <2>3
  <2> QED
    BY <1>8, <2>4
<1> HIDE DEF deadline, country, category
<1>11. f.status \in {"complete", "partial"} /\ f.method = "rule_based"
      /\ f.country = country /\ f.deadline = deadline /\ f.funder = funder
  BY <1>1
<1> QED
  BY <1>6, <1>7, <1>9, <1>10, <1>11 DEF HasEvidence, f

-----------------------------------------------------------------------------
(* Connectors: the invariant.                                              *)

(* Lists are lists, and nothing happens before the start.                  *)
ListsOK ==
    /\ source \in Source
    /\ IsSeq(todo) /\ IsSeq(records) /\ IsSeq(read)
    /\ \A j \in DOMAIN read : IsSeq(read[j].reply.text) /\ IsSeq(read[j].reply.title)
    /\ pc = "start" => todo = <<>> /\ records = <<>> /\ read = <<>>
    /\ pc = "pages" => source.kind \in Paged \cup {"website"}
    /\ pc = "hits" => source.kind = "grants_gov_api"
    /\ source.kind \notin Paged => \A k \in DOMAIN records : records[k].method = "direct"

(* The link of a listing that is followed next was not followed before.    *)
LinksOnce ==
    source.kind \in Listing =>
        /\ \A i, j \in DOMAIN todo : i # j => todo[i] # todo[j]
        /\ \A i, j \in DOMAIN read : i # j => read[i].link # read[j].link
        /\ pc # "raised" => \A i \in DOMAIN read, j \in DOMAIN todo : read[i].link # todo[j]

(* The record of a page.                                                   *)
IsOf(record, p) ==
    /\ Accepted(p) /\ record.external_id = p.reply.url
    /\ ByRules(record) <=> p.answer.kind = "nothing"

RecordsMatch ==
    source.kind \in Paged =>
        /\ \A k \in DOMAIN records :
              records[k].page \in DOMAIN read /\ IsOf(records[k], read[records[k].page])
        /\ pc # "raised" =>
              \A j \in DOMAIN read : Accepted(read[j]) => \E k \in DOMAIN records : records[k].page = j
        /\ \A k, l \in DOMAIN records : k < l => records[k].page < records[l].page
        /\ pc = "raised" /\ read # <<>> <=> \E j \in DOMAIN read : Breaks(read[j])
        /\ pc = "raised" => records = <<>>

(* FieldsHaveEvidence, of a record and the page it was made of.            *)
Shown(r, p) ==
    /\ ByRules(r) => HasEvidence(r, p.reply.text, p.reply.title, r.external_id)
    /\ r.method = "ai_inferred" => AnswerNames(r, p.answer, r.external_id)

Evidence == \A k \in DOMAIN records : Shown(records[k], read[records[k].page])

IInv == TypeOK /\ ListsOK /\ LinksOnce /\ RecordsMatch /\ Evidence

LEMMA ExtractFacts ==
    ASSUME NEW p, IsSeq(p.reply.text), IsSeq(p.reply.title),
           p.answer.kind \in {"fields", "refusal", "nothing"},
           NEW found, found = Extract(p.reply.text, p.reply.title, p.reply.url, p.answer)
    PROVE  /\ found.status = "raises" <=> Malformed(p.answer)
           /\ found.status = "rejected" <=> ~Accepted(p)
           /\ found.status \notin {"raises", "rejected"} =>
                 /\ found.status \in {"complete", "partial"}
                 /\ found.country \in {"India", "unknown"}
                 /\ found.method = IF p.answer.kind = "nothing" THEN "rule_based" ELSE "ai"
                 /\ p.answer.kind = "nothing" =>
                       HasEvidence(found, p.reply.text, p.reply.title, p.reply.url)
                 /\ p.answer.kind # "nothing" => AnswerNames(found, p.answer, p.reply.url)
<1>1. CASE p.answer.kind = "fields"
  <2>1. found = ByAI(p.answer, p.reply.title, p.reply.url) /\ Accepted(p)
    BY <1>1 DEF Extract, Accepted
  <2>2. CASE Malformed(p.answer)
    <3>1. found = [status |-> "raises", method |-> "ai"]
      BY <2>1, <2>2 DEF ByAI
    <3> QED
      BY <2>1, <2>2, <3>1
  <2>3. CASE ~Malformed(p.answer)
    <3> DEFINE title == IF p.answer.title # <<>> THEN p.answer.title ELSE p.reply.title
               words == p.answer.title \o p.answer.eligibility \o p.answer.description
               country == CountryOf(words, p.reply.url)
    <3>1. found = [status |-> "complete", method |-> "ai", title |-> title,
                   funder |-> p.answer.funder, eligibility |-> p.answer.eligibility,
                   category |-> <<>>, deadline |-> p.answer.deadline, country |-> country]
      BY <2>1, <2>3 DEF ByAI
    <3> HIDE DEF title, words
    <3>2. country \in {"India", "unknown"}
          /\ (country = "India" =>
                 p.reply.url \in IndianHost \/ \E word \in ToSet(words) : OfPlace(word))
      BY CountryFacts
    <3> HIDE DEF country
    <3>3. found.status = "complete" /\ found.method = "ai" /\ found.country = country
      BY <3>1
    <3>4. AnswerNames(found, p.answer, p.reply.url)
      BY <3>2, <3>3 DEF AnswerNames, words
    <3> QED
      BY <1>1, <2>1, <2>3, <3>2, <3>3, <3>4
  <2> QED
    BY <2>2, <2>3
<1>2. CASE p.answer.kind = "refusal"
  <2>1. found = [status |-> "rejected", method |-> "ai"]
    BY <1>2 DEF Extract, Rejected
  <2>2. ~Accepted(p) /\ ~Malformed(p.answer)
    BY <1>2 DEF Accepted, Malformed
  <2> QED
    BY <2>1, <2>2
<1>3. CASE p.answer.kind = "nothing"
  <2>1. found = RuleBased(p.reply.text, p.reply.title, p.reply.url) /\ ~Malformed(p.answer)
    BY <1>3 DEF Extract, Malformed
  <2>2. Accepted(p) <=> HasGrantSignal(p.reply.text)
    BY <1>3 DEF Accepted, HasGrantSignal
  <2>3. CASE HasGrantSignal(p.reply.text)
    BY <1>3, <2>1, <2>2, <2>3, RuleBasedFacts
  <2>4. CASE ~HasGrantSignal(p.reply.text)
    <3>1. found = [status |-> "rejected", method |-> "rule_based"]
      BY <2>1, <2>4 DEF RuleBased, Rejected
    <3> QED
      BY <2>1, <2>2, <2>4, <3>1
  <2> QED
    BY <2>3, <2>4
<1> QED
  BY <1>1, <1>2, <1>3

(* What the constants are assumed to be, of what a step chooses.           *)
LEMMA ChosenFacts ==
    /\ \A reply \in UNION {Web[u] : u \in Url} :
          reply # None => /\ IsSeq(reply.text) /\ IsSeq(reply.title) /\ IsSeq(reply.links)
                          /\ reply.broken \in BOOLEAN
    /\ \A answer \in AnswerTo : answer.kind \in {"fields", "refusal", "nothing"}
    /\ \A hits \in Hits : IsSeq(hits)
    /\ \A s \in Source : IsSeq(s.seeds)
    /\ Fixture # None => IsSeq(Fixture)
<1>1. \A answer \in AnswerTo : answer.kind \in {"fields", "refusal", "nothing"}
  <2>1. \A answer \in AnswerTo : answer \in Answer
    BY DEF AnswerTo
  <2> QED
    BY <2>1, ConnectorsAssumption
<1>2. ASSUME NEW reply \in UNION {Web[u] : u \in Url}, reply # None
      PROVE  /\ IsSeq(reply.text) /\ IsSeq(reply.title) /\ IsSeq(reply.links)
             /\ reply.broken \in BOOLEAN
  <2>1. PICK u \in Url : reply \in Web[u]
    OBVIOUS
  <2> QED
    BY <1>2, <2>1, ConnectorsAssumption
<1>3. /\ \A hits \in Hits : IsSeq(hits)
      /\ \A s \in Source : IsSeq(s.seeds)
      /\ Fixture # None => IsSeq(Fixture)
  BY ConnectorsAssumption
<1> QED
  BY <1>1, <1>2, <1>3

LEMMA EmptyIsSeq == IsSeq(<<>>) /\ DOMAIN <<>> = {} /\ Len(<<>>) = 0
<1>1. <<>> \in Seq({})
  OBVIOUS
<1>2. IsSeq(<<>>)
  BY <1>1, IsSeqOf
<1> QED
  BY <1>2

LEMMA InitIInv == Init => IInv
<1> SUFFICES ASSUME Init PROVE IInv
  OBVIOUS
<1>1. /\ source \in Source /\ pc = "start" /\ todo = <<>> /\ records = <<>> /\ read = <<>>
      /\ MAX_PAGES \in Nat
  BY ConnectorsAssumption DEF Init
<1> QED
  BY <1>1, EmptyIsSeq DEF IInv, TypeOK, ListsOK, LinksOnce, RecordsMatch, Evidence

-----------------------------------------------------------------------------
(* Connectors: the steps that read no page and make no record.             *)

LEMMA KeepsRecords ==
    ASSUME IInv, UNCHANGED <<source, records, read>>, pc' # "raised" \/ source.kind \notin Paged,
           pc # "raised"
    PROVE  RecordsMatch' /\ Evidence'
<1>1. Evidence'
  BY DEF IInv, Evidence
<1>2. RecordsMatch'
  BY DEF IInv, RecordsMatch
<1> QED
  BY <1>1, <1>2

LEMMA NotConfiguredStep == IInv /\ NotConfigured => IInv'
<1> SUFFICES ASSUME IInv, NotConfigured PROVE IInv'
  OBVIOUS
<1>1. /\ pc = "start" /\ pc' = "not configured"
      /\ UNCHANGED <<source, todo, records, read, analysis>>
  BY DEF NotConfigured, End
<1>2. RecordsMatch' /\ Evidence'
  BY <1>1, KeepsRecords
<1>3. TypeOK' /\ ListsOK' /\ LinksOnce'
  BY <1>1 DEF IInv, TypeOK, ListsOK, LinksOnce
<1> QED
  BY <1>2, <1>3 DEF IInv

LEMMA BeginSeedsStep == IInv /\ BeginSeeds => IInv'
<1> SUFFICES ASSUME IInv, BeginSeeds PROVE IInv'
  OBVIOUS
<1>1. /\ pc = "start" /\ pc' = "pages" /\ source.kind = "web_discovery" /\ todo' = source.seeds
      /\ UNCHANGED <<source, records, read, analysis>>
  BY DEF BeginSeeds
<1>2. RecordsMatch' /\ Evidence'
  BY <1>1, KeepsRecords
<1>3. IsSeq(source.seeds)
  BY ChosenFacts DEF IInv, ListsOK
<1>4. source.kind \in Paged /\ source.kind \notin Listing
  BY <1>1 DEF Paged, Listing
<1>5. TypeOK' /\ ListsOK' /\ LinksOnce'
  BY <1>1, <1>3, <1>4 DEF IInv, TypeOK, ListsOK, LinksOnce
<1> QED
  BY <1>2, <1>5 DEF IInv

LEMMA DoneStep ==
    ASSUME IInv, pc \in {"pages", "hits"}, pc' = "done",
           UNCHANGED <<source, todo, records, read>>
    PROVE  IInv'
<1>1. RecordsMatch' /\ Evidence'
  BY KeepsRecords
<1>2. TypeOK' /\ ListsOK' /\ LinksOnce'
  BY DEF IInv, TypeOK, ListsOK, LinksOnce
<1> QED
  BY <1>1, <1>2 DEF IInv

LEMMA SearchStep == ASSUME NEW hits \in Hits \cup {None}
                    PROVE  IInv /\ Search(hits) => IInv'
<1> SUFFICES ASSUME IInv, Search(hits) PROVE IInv'
  OBVIOUS
<1>1. /\ pc = "start" /\ source.kind = "grants_gov_api"
      /\ UNCHANGED <<source, records, read, analysis>>
      /\ \/ pc' = "raised" /\ todo' = todo
         \/ pc' = "hits" /\ todo' = hits /\ hits # None
  BY DEF Search, End
<1>2. source.kind \notin Paged /\ source.kind \notin Listing
  BY <1>1 DEF Paged, Listing
<1>3. RecordsMatch' /\ Evidence'
  BY <1>1, <1>2, KeepsRecords
<1>4. IsSeq(todo')
  BY <1>1, ChosenFacts DEF IInv, ListsOK
<1>5. TypeOK' /\ ListsOK' /\ LinksOnce'
  BY <1>1, <1>2, <1>4 DEF IInv, TypeOK, ListsOK, LinksOnce
<1> QED
  BY <1>3, <1>5 DEF IInv

-----------------------------------------------------------------------------
(* Connectors: the steps that read a page or make a record.                *)

LEMMA LinksStep ==
    ASSUME IInv, UNCHANGED source, pc # "raised", todo # <<>>, todo' = Tail(todo),
           NEW p, p.link = Head(todo), read' = read \/ read' = Append(read, p)
    PROVE  LinksOnce'
<1> SUFFICES ASSUME source.kind \in Listing PROVE LinksOnce'
  BY DEF LinksOnce
<1>1. /\ \A i, j \in DOMAIN todo : i # j => todo[i] # todo[j]
      /\ \A i, j \in DOMAIN read : i # j => read[i].link # read[j].link
      /\ \A i \in DOMAIN read, j \in DOMAIN todo : read[i].link # todo[j]
      /\ IsSeq(todo) /\ IsSeq(read)
  BY DEF IInv, LinksOnce, ListsOK
<1>2. /\ Len(todo) \in Nat \ {0} /\ Head(todo) = todo[1]
      /\ DOMAIN todo = 1..Len(todo) /\ DOMAIN todo' = 1..(Len(todo) - 1)
      /\ \A k \in 1..(Len(todo) - 1) : todo'[k] = todo[k + 1]
  BY <1>1, TailFacts, IsSeqFacts
<1>3. \A j \in DOMAIN todo' : j + 1 \in DOMAIN todo /\ j + 1 # 1 /\ todo'[j] = todo[j + 1]
  BY <1>2
<1>4. \A i, j \in DOMAIN todo' : i # j => todo'[i] # todo'[j]
  <2> SUFFICES ASSUME NEW i \in DOMAIN todo', NEW j \in DOMAIN todo', i # j
               PROVE  todo'[i] # todo'[j]
    OBVIOUS
  <2>1. i + 1 # j + 1
    BY <1>2
  <2> QED
    BY <1>1, <1>3, <2>1
<1>5. \A j \in DOMAIN todo' : p.link # todo'[j]
  <2> SUFFICES ASSUME NEW j \in DOMAIN todo' PROVE p.link # todo'[j]
    OBVIOUS
  <2>1. 1 \in DOMAIN todo /\ p.link = todo[1]
    BY <1>2
  <2> QED
    BY <1>1, <1>3, <2>1
<1>6. \A i \in DOMAIN read, j \in DOMAIN todo' : read[i].link # todo'[j]
  BY <1>1, <1>3
<1>7. \A i \in DOMAIN read : read[i].link # p.link
  <2>1. 1 \in DOMAIN todo /\ p.link = todo[1]
    BY <1>2
  <2> QED
    BY <1>1, <2>1
<1>8. CASE read' = read
  BY <1>1, <1>4, <1>6, <1>8 DEF LinksOnce
<1>9. CASE read' = Append(read, p)
  <2>1. /\ Len(read) \in Nat /\ DOMAIN read = 1..Len(read)
        /\ DOMAIN read' = 1..(Len(read) + 1)
        /\ read'[Len(read) + 1] = p /\ \A i \in 1..Len(read) : read'[i] = read[i]
    BY <1>1, <1>9, AppendFacts, IsSeqFacts
  <2>2. \A i \in DOMAIN read' : \/ i \in DOMAIN read /\ read'[i] = read[i]
                                \/ i = Len(read) + 1 /\ read'[i] = p
    BY <2>1
  <2>3. \A i, j \in DOMAIN read' : i # j => read'[i].link # read'[j].link
    BY <1>1, <1>7, <2>2
  <2>4. \A i \in DOMAIN read', j \in DOMAIN todo' : read'[i].link # todo'[j]
    BY <1>5, <1>6, <2>2
  <2> QED
    BY <1>4, <2>3, <2>4 DEF LinksOnce
<1> QED
  BY <1>8, <1>9

(* The fields of the record made of a page.                                *)
LEMMA RecordFacts ==
    ASSUME NEW p, NEW found, NEW r, r = RecordOf(p.reply, found),
           Accepted(p), found.status \in {"complete", "partial"},
           found.country \in {"India", "unknown"},
           found.method = IF p.answer.kind = "nothing" THEN "rule_based" ELSE "ai",
           p.answer.kind = "nothing" => HasEvidence(found, p.reply.text, p.reply.title, p.reply.url),
           p.answer.kind # "nothing" => AnswerNames(found, p.answer, p.reply.url)
    PROVE  /\ r.method \in {"direct", "ai_inferred", "rule_based"}
           /\ r.extraction \in {"complete", "partial"}
           /\ r.country \in {"India", "United States", "unknown"}
           /\ r.status \in {"forecasted", "open", "closed", "expired", "unknown"}
           /\ r.page = Len(read) + 1 /\ IsOf(r, p)
           /\ Shown(r, p)
<1>1. /\ r.method = IF found.method = "ai" THEN "ai_inferred" ELSE found.method
      /\ r.extraction = found.status /\ r.country = found.country /\ r.status = "unknown"
      /\ r.page = Len(read) + 1 /\ r.external_id = p.reply.url
      /\ r.deadline = found.deadline /\ r.funder = found.funder
  BY DEF RecordOf
<1>2. ByRules(r) <=> p.answer.kind = "nothing"
  BY <1>1 DEF ByRules
<1>3. r.method \in {"direct", "ai_inferred", "rule_based"}
  BY <1>1
<1>4. p.answer.kind = "nothing" => HasEvidence(r, p.reply.text, p.reply.title, r.external_id)
  BY <1>1 DEF HasEvidence
<1>5. p.answer.kind # "nothing" => AnswerNames(r, p.answer, p.reply.url)
  BY <1>1 DEF AnswerNames
<1>6. r.method = "ai_inferred" => p.answer.kind # "nothing"
  BY <1>1
<1>7. Shown(r, p)
  BY <1>1, <1>2, <1>4, <1>5, <1>6 DEF Shown
<1> QED
  BY <1>1, <1>2, <1>3, <1>7 DEF IsOf

(* A call that raises keeps what it read, for the record, and gives none.  *)
LEMMA RaiseStep ==
    ASSUME IInv, UNCHANGED <<source, todo>>, pc' = "raised", records' = <<>>, pc # "raised",
           pc # "start" \/ read' = read,
           source.kind \in Paged => read' = <<>> \/ \E j \in DOMAIN read' : Breaks(read'[j]),
           IsSeq(read'),
           \A j \in DOMAIN read' : IsSeq(read'[j].reply.text) /\ IsSeq(read'[j].reply.title),
           source.kind \in Listing => \A i, j \in DOMAIN read' : i # j => read'[i].link # read'[j].link
    PROVE  IInv'
<1>1. DOMAIN records' = {} /\ IsSeq(records')
  BY EmptyIsSeq
<1>2. TypeOK'
  BY <1>1 DEF IInv, TypeOK
<1>3. ListsOK'
  BY <1>1 DEF IInv, ListsOK
<1>4. LinksOnce'
  BY DEF IInv, LinksOnce
<1>5. Evidence'
  BY <1>1 DEF Evidence
<1>6. read' = <<>> => DOMAIN read' = {}
  BY EmptyIsSeq
<1>7. RecordsMatch'
  BY <1>1, <1>6 DEF RecordsMatch
<1> QED
  BY <1>2, <1>3, <1>4, <1>5, <1>7 DEF IInv

(* A page that was read keeps its place, and so does a record.             *)
LEMMA PageStep ==
    ASSUME IInv, UNCHANGED source, source.kind \in Paged, pc = "pages",
           NEW p, IsSeq(p.reply.text), IsSeq(p.reply.title),
           p.answer.kind \in {"fields", "refusal", "nothing"}, p.link = Head(todo),
           NEW found, found = Extract(p.reply.text, p.reply.title, p.reply.url, p.answer),
           todo # <<>>, todo' = Tail(todo), read' = Append(read, p), ~Breaks(p), pc' = pc,
           records' = IF found.status = "rejected" THEN records
                      ELSE Append(records, RecordOf(p.reply, found))
    PROVE  IInv'
<1> DEFINE n == Len(read)
           m == Len(records)
           r == RecordOf(p.reply, found)
<1>1. /\ IsSeq(todo) /\ IsSeq(records) /\ IsSeq(read) /\ source \in Source
      /\ \A j \in DOMAIN read : IsSeq(read[j].reply.text) /\ IsSeq(read[j].reply.title)
  BY DEF IInv, ListsOK
<1>2. /\ n \in Nat /\ DOMAIN read = 1..n /\ IsSeq(read') /\ DOMAIN read' = 1..(n + 1)
      /\ read'[n + 1] = p /\ \A i \in 1..n : read'[i] = read[i]
  BY <1>1, AppendFacts, IsSeqFacts
<1>3. m \in Nat /\ DOMAIN records = 1..m
  BY <1>1, IsSeqFacts
<1>4. IsSeq(todo') /\ Len(todo') = Len(todo) - 1 /\ Len(todo) \in Nat
  BY <1>1, TailFacts
<1>5. LinksOnce'
  BY LinksStep
<1>6. /\ found.status = "rejected" <=> ~Accepted(p)
      /\ Accepted(p) =>
            /\ found.status \in {"complete", "partial"}
            /\ found.country \in {"India", "unknown"}
            /\ found.method = IF p.answer.kind = "nothing" THEN "rule_based" ELSE "ai"
            /\ p.answer.kind = "nothing" =>
                  HasEvidence(found, p.reply.text, p.reply.title, p.reply.url)
            /\ p.answer.kind # "nothing" => AnswerNames(found, p.answer, p.reply.url)
  BY ExtractFacts DEF Breaks
<1> HIDE DEF r, n, m
<1>7. source' = source /\ \A i \in DOMAIN read' : \/ i \in 1..n /\ i \in DOMAIN read /\ read'[i] = read[i]
                                                  \/ i = n + 1 /\ read'[i] = p
  BY <1>2
<1>8. /\ \A k \in DOMAIN records :
            /\ records[k].page \in DOMAIN read' /\ records[k].page < n + 1
            /\ read'[records[k].page] = read[records[k].page]
            /\ IsOf(records[k], read[records[k].page])
      /\ \A j \in DOMAIN read : Accepted(read[j]) => \E k \in DOMAIN records : records[k].page = j
      /\ \A k, l \in DOMAIN records : k < l => records[k].page < records[l].page
      /\ \A j \in DOMAIN read : ~Breaks(read[j])
  <2>1. /\ \A k \in DOMAIN records :
              records[k].page \in DOMAIN read /\ IsOf(records[k], read[records[k].page])
        /\ \A j \in DOMAIN read : Accepted(read[j]) => \E k \in DOMAIN records : records[k].page = j
        /\ \A k, l \in DOMAIN records : k < l => records[k].page < records[l].page
        /\ \A j \in DOMAIN read : ~Breaks(read[j])
    BY DEF IInv, RecordsMatch
  <2>2. \A i \in DOMAIN read : i \in DOMAIN read' /\ i < n + 1 /\ read'[i] = read[i]
    BY <1>2
  <2> QED
    BY <2>1, <2>2
<1>9. ~(\E j \in DOMAIN read' : Breaks(read'[j])) /\ pc' = "pages"
  BY <1>7, <1>8
<1>10. /\ pc' = "pages"
       /\ Len(todo') <= MAX_PAGES \/ source.kind \notin Listing
       /\ \A j \in DOMAIN read' : IsSeq(read'[j].reply.text) /\ IsSeq(read'[j].reply.title)
  <2>1. \A j \in DOMAIN read' : IsSeq(read'[j].reply.text) /\ IsSeq(read'[j].reply.title)
    BY <1>1, <1>7
  <2>2. Len(todo) <= MAX_PAGES \/ source.kind \notin Listing
    BY DEF IInv, TypeOK
  <2>3. MAX_PAGES \in Nat
    BY ConnectorsAssumption
  <2> QED
    BY <1>4, <2>1, <2>2, <2>3
<1> DEFINE Good(x) ==
               /\ x.method \in {"direct", "ai_inferred", "rule_based"}
               /\ x.extraction \in {"complete", "partial"}
               /\ x.country \in {"India", "United States", "unknown"}
               /\ x.status \in {"forecasted", "open", "closed", "expired", "unknown"}
<1>11. \A k \in DOMAIN records : Good(records[k]) /\ Shown(records[k], read[records[k].page])
  BY DEF IInv, TypeOK, Evidence
<1> HIDE DEF Good
<1>12. CASE ~Accepted(p)
  <2>1. records' = records
    BY <1>6, <1>12
  <2>2. TypeOK'
    BY <1>10, <1>11, <2>1 DEF TypeOK, Good
  <2>3. ListsOK'
    BY <1>1, <1>2, <1>4, <1>7, <1>10, <2>1 DEF ListsOK
  <2>4. Evidence'
    BY <1>8, <1>11, <2>1 DEF Evidence
  <2>5. \A j \in DOMAIN read' : Accepted(read'[j]) => \E k \in DOMAIN records : records[k].page = j
    BY <1>7, <1>8, <1>12
  <2>6. RecordsMatch'
    BY <1>8, <1>9, <2>1, <2>5 DEF RecordsMatch
  <2> QED
    BY <1>5, <2>2, <2>3, <2>4, <2>6 DEF IInv
<1>13. CASE Accepted(p)
  <2>1. records' = Append(records, r)
    BY <1>6, <1>13 DEF r
  <2>2. /\ IsSeq(records') /\ DOMAIN records' = 1..(m + 1) /\ records'[m + 1] = r
        /\ \A k \in 1..m : records'[k] = records[k]
    BY <1>1, <2>1, AppendFacts DEF m
  <2>3. \A k \in DOMAIN records' : \/ k \in 1..m /\ k \in DOMAIN records /\ records'[k] = records[k]
                                   \/ k = m + 1 /\ records'[k] = r
    BY <1>3, <2>2
  <2>4. Good(r) /\ Shown(r, p) /\ r.page = n + 1 /\ IsOf(r, p)
    BY <1>6, <1>13, RecordFacts DEF Good, r, n
  <2>5. /\ \A k \in DOMAIN records' : Good(records'[k])
        /\ \A k \in DOMAIN records' : Shown(records'[k], read'[records'[k].page])
        /\ \A k \in DOMAIN records' :
              records'[k].page \in DOMAIN read' /\ IsOf(records'[k], read'[records'[k].page])
    <3>1. r.page \in DOMAIN read' /\ read'[r.page] = p
      BY <1>2, <2>4
    <3> QED
      BY <1>8, <1>11, <2>3, <2>4, <3>1, SMTT(30)
  <2>6. \A j \in DOMAIN read' : Accepted(read'[j]) => \E k \in DOMAIN records' : records'[k].page = j
    <3> SUFFICES ASSUME NEW j \in DOMAIN read', Accepted(read'[j])
                 PROVE  \E k \in DOMAIN records' : records'[k].page = j
      OBVIOUS
    <3>1. CASE j \in DOMAIN read /\ read'[j] = read[j]
      <4>1. PICK k \in DOMAIN records : records[k].page = j
        BY <1>8, <3>1
      <4>2. k \in DOMAIN records' /\ records'[k] = records[k]
        BY <1>3, <2>2
      <4> QED
        BY <4>1, <4>2
    <3>2. CASE j = n + 1
      <4>1. m + 1 \in DOMAIN records'
        BY <1>3, <2>2
      <4> QED
        BY <2>2, <2>4, <3>2, <4>1
    <3> QED
      BY <1>7, <3>1, <3>2
  <2>7. \A k, l \in DOMAIN records' : k < l => records'[k].page < records'[l].page
    <3> SUFFICES ASSUME NEW k \in DOMAIN records', NEW l \in DOMAIN records', k < l
                 PROVE  records'[k].page < records'[l].page
      OBVIOUS
    <3>1. k \in 1..m /\ k \in DOMAIN records /\ records'[k] = records[k]
      BY <1>3, <2>2, <2>3
    <3>2. CASE l \in DOMAIN records /\ records'[l] = records[l]
      BY <1>8, <3>1, <3>2
    <3>3. CASE records'[l] = r
      BY <1>8, <2>4, <3>1, <3>3
    <3> QED
      BY <2>3, <3>2, <3>3
  <2>8. TypeOK'
    BY <1>10, <2>5 DEF TypeOK, Good
  <2>9. ListsOK'
    BY <1>1, <1>2, <1>4, <1>7, <1>10, <2>2 DEF ListsOK
  <2>10. Evidence'
    BY <2>5 DEF Evidence
  <2>11. RecordsMatch'
    BY <1>9, <2>5, <2>6, <2>7 DEF RecordsMatch
  <2> QED
    BY <1>5, <2>8, <2>9, <2>10, <2>11 DEF IInv
<1> QED
  BY <1>12, <1>13

LEMMA FetchEntryStep ==
    ASSUME NEW reply \in UNION {Web[u] : u \in Url}
    PROVE  IInv /\ FetchEntry(reply) => IInv'
<1> SUFFICES ASSUME IInv, FetchEntry(reply) PROVE IInv'
  OBVIOUS
<1>1. /\ pc = "start" /\ source.kind \in Listing \cup {"website"}
      /\ UNCHANGED <<source, analysis>>
  BY DEF FetchEntry, End, Raise
<1>2. todo = <<>> /\ records = <<>> /\ read = <<>> /\ source \in Source
  BY <1>1 DEF IInv, ListsOK
<1>3. CASE reply = None
  <2>1. pc' = "unavailable" /\ todo' = todo /\ read' = read /\ records' = records
    BY <1>3 DEF FetchEntry, End
  <2>2. RecordsMatch' /\ Evidence'
    BY <1>1, <2>1, KeepsRecords
  <2>3. TypeOK' /\ ListsOK' /\ LinksOnce'
    BY <1>1, <2>1 DEF IInv, TypeOK, ListsOK, LinksOnce
  <2> QED
    BY <2>2, <2>3 DEF IInv
<1>5. CASE reply # None /\ reply.broken
  <2>1. pc' = "raised" /\ todo' = todo /\ records' = <<>> /\ read' = read
    BY <1>5 DEF FetchEntry, Raise, End
  <2> QED
    BY <1>1, <1>2, <2>1, EmptyIsSeq, RaiseStep
<1>4. CASE reply # None /\ ~reply.broken
  <2> DEFINE p == [link |-> source.entry, reply |-> reply, answer |-> None]
  <2>1. /\ pc' = "pages" /\ todo' = DetailLinks(reply) /\ records' = records
        /\ read' = IF source.kind = "website" THEN <<p>> ELSE read
    BY <1>4 DEF FetchEntry
  <2>2. IsSeq(reply.text) /\ IsSeq(reply.title) /\ IsSeq(reply.links)
    BY <1>4, ChosenFacts
  <2>3. /\ IsSeq(todo') /\ Len(todo') <= MAX_PAGES
        /\ \A k, l \in DOMAIN todo' : k # l => todo'[k] # todo'[l]
    BY <2>1, <2>2, DetailLinksFacts
  <2>4. p.reply = reply
    OBVIOUS
  <2> HIDE DEF p
  <2>5. CASE source.kind = "website"
    <3>1. source.kind \notin Listing /\ source.kind \notin Paged
      BY <2>5 DEF Listing, Paged
    <3>2. read' = <<p>> /\ DOMAIN <<p>> = {1} /\ <<p>>[1] = p
      BY <2>1, <2>5
    <3>3. IsSeq(<<p>>)
      <4>1. <<p>> \in Seq({p})
        OBVIOUS
      <4> QED
        BY <4>1, IsSeqOf
    <3>4. TypeOK'
      BY <1>1, <2>1, <3>1 DEF IInv, TypeOK
    <3>5. \A j \in DOMAIN read' : IsSeq(read'[j].reply.text) /\ IsSeq(read'[j].reply.title)
      BY <2>2, <2>4, <3>2
    <3>6. ListsOK'
      BY <1>1, <1>2, <2>1, <2>3, <2>5, <3>2, <3>3, <3>5, EmptyIsSeq DEF ListsOK
    <3>7. LinksOnce' /\ RecordsMatch' /\ Evidence'
      BY <1>1, <1>2, <2>1, <3>1, EmptyIsSeq DEF LinksOnce, RecordsMatch, Evidence
    <3> QED
      BY <3>4, <3>6, <3>7 DEF IInv
  <2>6. CASE source.kind # "website"
    <3>1. read' = read /\ source.kind \in Paged
      BY <1>1, <2>1, <2>6 DEF Paged
    <3>2. RecordsMatch' /\ Evidence'
      BY <1>1, <2>1, <3>1, KeepsRecords
    <3>3. TypeOK' /\ ListsOK'
      BY <1>1, <2>1, <2>3, <3>1 DEF IInv, TypeOK, ListsOK
    <3>4. LinksOnce'
      BY <1>1, <1>2, <2>3, <3>1, EmptyIsSeq DEF LinksOnce
    <3> QED
      BY <3>2, <3>3, <3>4 DEF IInv
  <2> QED
    BY <2>5, <2>6
<1> QED
  BY <1>3, <1>4, <1>5

(* A page that was read last, in the order of the links.                   *)
LEMMA ReadOnce ==
    ASSUME IInv, pc # "raised", todo # <<>>, NEW p, p.link = Head(todo), read' = Append(read, p),
           IsSeq(p.reply.text), IsSeq(p.reply.title)
    PROVE  /\ IsSeq(read') /\ Len(read) + 1 \in DOMAIN read' /\ read'[Len(read) + 1] = p
           /\ \A j \in DOMAIN read' : IsSeq(read'[j].reply.text) /\ IsSeq(read'[j].reply.title)
           /\ source.kind \in Listing =>
                 \A i, j \in DOMAIN read' : i # j => read'[i].link # read'[j].link
<1>1. /\ IsSeq(todo) /\ IsSeq(read)
      /\ \A j \in DOMAIN read : IsSeq(read[j].reply.text) /\ IsSeq(read[j].reply.title)
  BY DEF IInv, ListsOK
<1>2. 1 \in DOMAIN todo /\ p.link = todo[1]
  BY <1>1, TailFacts, IsSeqFacts
<1>3. /\ Len(read) \in Nat /\ DOMAIN read = 1..Len(read) /\ IsSeq(read')
      /\ DOMAIN read' = 1..(Len(read) + 1)
      /\ read'[Len(read) + 1] = p /\ \A i \in 1..Len(read) : read'[i] = read[i]
  BY <1>1, AppendFacts, IsSeqFacts
<1>4. \A i \in DOMAIN read' : \/ i \in DOMAIN read /\ read'[i] = read[i]
                              \/ i = Len(read) + 1 /\ read'[i] = p
  BY <1>3
<1>5. source.kind \in Listing =>
          /\ \A i, j \in DOMAIN read : i # j => read[i].link # read[j].link
          /\ \A i \in DOMAIN read : read[i].link # p.link
  BY <1>2 DEF IInv, LinksOnce
<1>6. source.kind \in Listing =>
          \A i, j \in DOMAIN read' : i # j => read'[i].link # read'[j].link
  BY <1>4, <1>5
<1> QED
  BY <1>1, <1>3, <1>4, <1>6

LEMMA FetchPageStep ==
    ASSUME NEW reply \in UNION {Web[u] : u \in Url}, NEW answer \in AnswerTo
    PROVE  IInv /\ FetchPage(reply, answer) => IInv'
<1> SUFFICES ASSUME IInv, FetchPage(reply, answer) PROVE IInv'
  OBVIOUS
<1> DEFINE found == Extract(reply.text, reply.title, reply.url, answer)
           p == [link |-> Head(todo), reply |-> reply, answer |-> answer]
           got == reply # None /\ (reply.broken \/ reply.text # <<>>)
           raises == reply.broken \/ found.status = "raises"
<1>1. /\ pc = "pages" /\ todo # <<>> /\ source.kind \in Paged /\ UNCHANGED analysis
      /\ \/ ~got /\ Skip /\ UNCHANGED <<records, read>>
         \/ /\ got /\ read' = Append(read, p)
            /\ \/ raises /\ Raise
               \/ /\ ~raises
                  /\ records' = IF found.status = "rejected" THEN records
                                ELSE Append(records, RecordOf(reply, found))
                  /\ todo' = Tail(todo) /\ UNCHANGED <<source, pc>>
  BY DEF FetchPage
<1>p. p.link = Head(todo) /\ p.reply = reply /\ p.answer = answer
  OBVIOUS
<1>f. found = Extract(p.reply.text, p.reply.title, p.reply.url, p.answer)
  BY <1>p
<1> HIDE DEF p, found
<1>2. CASE ~got
  <2>1. todo' = Tail(todo) /\ UNCHANGED <<source, records, read, pc>>
    BY <1>1, <1>2 DEF Skip
  <2>2. RecordsMatch' /\ Evidence'
    BY <1>1, <2>1, KeepsRecords
  <2>4. LinksOnce'
    BY <1>1, <1>p, <2>1, LinksStep
  <2>5. IsSeq(todo') /\ Len(todo') = Len(todo) - 1 /\ Len(todo) \in Nat
    BY <1>1, <2>1, TailFacts DEF IInv, ListsOK
  <2>6. Len(todo') <= MAX_PAGES \/ source.kind \notin Listing
    <3>1. Len(todo) <= MAX_PAGES \/ source.kind \notin Listing
      BY DEF IInv, TypeOK
    <3>2. MAX_PAGES \in Nat
      BY ConnectorsAssumption
    <3> QED
      BY <2>5, <3>1, <3>2
  <2>7. TypeOK' /\ ListsOK'
    BY <1>1, <2>1, <2>5, <2>6 DEF IInv, TypeOK, ListsOK
  <2> QED
    BY <2>2, <2>4, <2>7 DEF IInv
<1>3. CASE got
  <2>1. IsSeq(reply.text) /\ IsSeq(reply.title)
        /\ answer.kind \in {"fields", "refusal", "nothing"}
    BY <1>3, ChosenFacts
  <2>2. read' = Append(read, p)
    BY <1>1, <1>3
  <2>3. found.status = "raises" <=> Malformed(answer)
    BY <1>p, <1>f, <2>1, ExtractFacts
  <2>4. raises <=> Breaks(p)
    BY <1>p, <2>3 DEF Breaks
  <2>5. CASE raises
    <3>1. pc' = "raised" /\ records' = <<>> /\ UNCHANGED <<source, todo>>
      BY <1>1, <1>3, <2>5 DEF Raise, End
    <3>2. /\ IsSeq(read') /\ Len(read) + 1 \in DOMAIN read' /\ read'[Len(read) + 1] = p
          /\ \A j \in DOMAIN read' : IsSeq(read'[j].reply.text) /\ IsSeq(read'[j].reply.title)
          /\ source.kind \in Listing =>
                \A i, j \in DOMAIN read' : i # j => read'[i].link # read'[j].link
      BY <1>1, <1>p, <2>1, <2>2, ReadOnce
    <3> QED
      BY <1>1, <2>4, <2>5, <3>1, <3>2, RaiseStep
  <2>6. CASE ~raises
    <3>1. /\ records' = IF found.status = "rejected" THEN records
                        ELSE Append(records, RecordOf(p.reply, found))
          /\ todo' = Tail(todo) /\ UNCHANGED <<source, pc>>
      BY <1>1, <1>3, <1>p, <2>6
    <3> HIDE DEF raises, got
    <3> QED
      BY <1>1, <1>p, <1>f, <2>1, <2>2, <2>4, <2>6, <3>1, PageStep
  <2> QED
    BY <2>5, <2>6
<1> QED
  BY <1>2, <1>3

LEMMA FetchSubPageStep ==
    ASSUME NEW reply \in UNION {Web[u] : u \in Url}
    PROVE  IInv /\ FetchSubPage(reply) => IInv'
<1> SUFFICES ASSUME IInv, FetchSubPage(reply) PROVE IInv'
  OBVIOUS
<1> DEFINE p == [link |-> Head(todo), reply |-> reply, answer |-> None]
<1>1. /\ pc = "pages" /\ todo # <<>> /\ source.kind = "website"
      /\ \/ reply = None /\ Skip /\ UNCHANGED <<records, read>>
         \/ /\ reply # None /\ read' = Append(read, p)
            /\ \/ reply.broken /\ Raise
               \/ ~reply.broken /\ todo' = Tail(todo) /\ UNCHANGED <<source, pc, records>>
  BY DEF FetchSubPage
<1>2. source.kind \notin Listing /\ source.kind \notin Paged
  BY <1>1 DEF Listing, Paged
<1>3. IsSeq(Tail(todo))
  BY <1>1, TailFacts DEF IInv, ListsOK
<1>4. p.reply = reply /\ p.link = Head(todo)
  OBVIOUS
<1> HIDE DEF p
<1>5. /\ IsSeq(read)
      /\ \A j \in DOMAIN read : IsSeq(read[j].reply.text) /\ IsSeq(read[j].reply.title)
      /\ \A k \in DOMAIN records : records[k].method = "direct"
  BY <1>2 DEF IInv, ListsOK
<1>6. IsSeq(read') /\ \A j \in DOMAIN read' : IsSeq(read'[j].reply.text) /\ IsSeq(read'[j].reply.title)
  <2>1. CASE reply = None
    BY <1>1, <1>5, <2>1
  <2>2. CASE reply # None
    <3>1. IsSeq(reply.text) /\ IsSeq(reply.title)
      BY <2>2, ChosenFacts
    <3> QED
      BY <1>1, <1>4, <2>2, <3>1, ReadOnce
  <2> QED
    BY <2>1, <2>2
<1>7. CASE Raise
  BY <1>1, <1>2, <1>6, <1>7, RaiseStep DEF Raise, End
<1>8. CASE ~Raise
  <2>1. todo' = Tail(todo) /\ UNCHANGED <<source, pc, records>>
    BY <1>1, <1>8 DEF Skip
  <2>2. TypeOK' /\ ListsOK'
    BY <1>1, <1>2, <1>3, <1>6, <2>1 DEF IInv, TypeOK, ListsOK
  <2>3. LinksOnce' /\ RecordsMatch' /\ Evidence'
    BY <1>1, <1>2, <1>5, <2>1 DEF LinksOnce, RecordsMatch, Evidence, Shown, ByRules
  <2> QED
    BY <2>2, <2>3 DEF IInv
<1> QED
  BY <1>7, <1>8

(* A record that no page is behind.                                        *)
Direct(r) ==
    /\ r.method = "direct" /\ r.extraction \in {"complete", "partial"}
    /\ r.country \in {"India", "United States", "unknown"}
    /\ r.status \in {"forecasted", "open", "closed", "expired", "unknown"}

LEMMA DirectStep ==
    ASSUME IInv, source.kind \notin Paged, UNCHANGED <<source, read>>, IsSeq(todo'), IsSeq(records'),
           \A k \in DOMAIN records' : Direct(records'[k]),
           pc' = "done" \/ (pc' = pc /\ pc = "hits")
    PROVE  IInv'
<1>1. source.kind \notin Listing
  BY DEF Paged
<1>2. \A k \in DOMAIN records' : ~ByRules(records'[k]) /\ records'[k].method # "ai_inferred"
  BY DEF Direct, ByRules
<1>3. TypeOK' /\ ListsOK'
  BY <1>1 DEF IInv, TypeOK, ListsOK, Direct
<1>4. LinksOnce' /\ RecordsMatch' /\ Evidence'
  BY <1>1, <1>2 DEF LinksOnce, RecordsMatch, Evidence, Shown
<1> QED
  BY <1>3, <1>4 DEF IInv

LEMMA FetchHitStep ==
    ASSUME NEW detail \in Detail
    PROVE  IInv /\ FetchHit(detail) => IInv'
<1> SUFFICES ASSUME IInv, FetchHit(detail) PROVE IInv'
  OBVIOUS
<1> DEFINE r == [external_id |-> Head(todo).id, method |-> "direct", title |-> Head(todo).title,
                 funder |-> None, deadline |-> Head(todo).close,
                 country |-> "United States", status |-> STATUS_MAP(Head(todo).status),
                 extraction |-> IF detail # None THEN "complete" ELSE "partial", page |-> 0]
<1>1. /\ pc = "hits" /\ todo # <<>> /\ UNCHANGED <<read, analysis>>
      /\ \/ Raise
         \/ /\ todo' = Tail(todo) /\ UNCHANGED <<source, pc>>
            /\ records' = IF Head(todo).id = None THEN records ELSE Append(records, r)
  BY DEF FetchHit
<1>2. IsSeq(todo) /\ IsSeq(records) /\ source.kind \notin Paged /\ source.kind \notin Listing
      /\ \A k \in DOMAIN records : Direct(records[k])
  <2>1. source.kind = "grants_gov_api"
    BY <1>1 DEF IInv, ListsOK
  <2>2. source.kind \notin Paged /\ source.kind \notin Listing
    BY <2>1 DEF Paged, Listing
  <2> QED
    BY <2>2 DEF IInv, TypeOK, ListsOK, Direct
<1>3. CASE Raise
  <2>1. pc' = "raised" /\ records' = <<>> /\ UNCHANGED <<source, todo>>
    BY <1>3 DEF Raise, End
  <2>2. IsSeq(read) /\ \A j \in DOMAIN read : IsSeq(read[j].reply.text) /\ IsSeq(read[j].reply.title)
    BY DEF IInv, ListsOK
  <2> QED
    BY <1>1, <1>2, <2>1, <2>2, RaiseStep
<1>4. CASE ~Raise
  <2>0. /\ todo' = Tail(todo) /\ UNCHANGED <<source, pc>>
        /\ records' = IF Head(todo).id = None THEN records ELSE Append(records, r)
    BY <1>1, <1>4
  <2>1. STATUS_MAP(Head(todo).status) \in {"forecasted", "open", "closed", "expired", "unknown"}
    BY DEF STATUS_MAP
  <2>2. /\ r.method = "direct" /\ r.country = "United States"
        /\ r.status = STATUS_MAP(Head(todo).status)
        /\ r.extraction = IF detail # None THEN "complete" ELSE "partial"
    OBVIOUS
  <2> HIDE DEF r
  <2>3. Direct(r)
    BY <2>1, <2>2 DEF Direct
  <2>4. IsSeq(todo')
    BY <1>1, <1>2, <2>0, TailFacts
  <2>5. IsSeq(records') /\ \A k \in DOMAIN records' : Direct(records'[k])
    <3>1. CASE Head(todo).id = None
      BY <1>2, <2>0, <3>1
    <3>2. CASE Head(todo).id # None
      <4>0. records' = Append(records, r)
        BY <2>0, <3>2
      <4>1. /\ IsSeq(records') /\ DOMAIN records' = 1..(Len(records) + 1)
            /\ records'[Len(records) + 1] = r
            /\ \A k \in 1..Len(records) : records'[k] = records[k]
            /\ Len(records) \in Nat /\ DOMAIN records = 1..Len(records)
        BY <1>2, <4>0, AppendFacts, IsSeqFacts
      <4>2. \A k \in DOMAIN records' : \/ k \in DOMAIN records /\ records'[k] = records[k]
                                       \/ records'[k] = r
        BY <4>1
      <4> QED
        BY <1>2, <2>3, <4>1, <4>2
    <3> QED
      BY <3>1, <3>2
  <2> QED
    BY <1>1, <1>2, <2>0, <2>4, <2>5, DirectStep
<1> QED
  BY <1>3, <1>4

LEMMA ReadFixtureStep == IInv /\ ReadFixture => IInv'
<1> SUFFICES ASSUME IInv, ReadFixture PROVE IInv'
  OBVIOUS
<1> DEFINE row(i) == [external_id |-> Fixture[i].id, method |-> "direct", title |-> Fixture[i].title,
                      funder |-> None, deadline |-> Fixture[i].close, country |-> "unknown",
                      status |-> "unknown", extraction |-> "complete", page |-> 0]
<1>1. /\ pc = "start" /\ source.kind = "sample_fixture" /\ Fixture # None /\ pc' = "done"
      /\ records' = [i \in DOMAIN Fixture |-> row(i)]
      /\ UNCHANGED <<source, todo, read, analysis>>
  BY DEF ReadFixture, End
<1>2. IsSeq(Fixture)
  BY <1>1, ChosenFacts
<1>3. Len(Fixture) \in Nat /\ DOMAIN Fixture = 1..Len(Fixture)
  BY <1>2, IsSeqFacts
<1>4. \A i \in DOMAIN Fixture : Direct(row(i))
  BY DEF Direct
<1> HIDE DEF row
<1>5. records' = [i \in 1..Len(Fixture) |-> row(i)]
  BY <1>1, <1>3
<1>6. records' \in Seq({row(i) : i \in 1..Len(Fixture)})
  BY <1>3, <1>5
<1>7. IsSeq(records') /\ IsSeq(todo')
  BY <1>1, <1>6, IsSeqOf DEF IInv, ListsOK
<1>8. \A k \in DOMAIN records' : Direct(records'[k])
  BY <1>1, <1>4
<1>9. source.kind \notin Paged
  BY <1>1 DEF Paged, Listing
<1> QED
  BY <1>1, <1>7, <1>8, <1>9, DirectStep

-----------------------------------------------------------------------------
(* Connectors: the theorems.                                               *)

LEMMA AnalyzeStep ==
    ASSUME NEW answer \in AnswerTo
    PROVE  IInv /\ Analyze(answer) => IInv'
<1> SUFFICES ASSUME IInv, Analyze(answer) PROVE IInv'
  OBVIOUS
<1>1. /\ pc = "pages" /\ source.kind = "website" /\ UNCHANGED read
      /\ Raise \/ (End("done") /\ UNCHANGED records)
  BY DEF Analyze
<1>2. source.kind \notin Listing /\ source.kind \notin Paged
  BY <1>1 DEF Listing, Paged
<1>3. CASE Raise
  <2>1. pc' = "raised" /\ records' = <<>> /\ UNCHANGED <<source, todo>>
    BY <1>3 DEF Raise, End
  <2>2. IsSeq(read) /\ \A j \in DOMAIN read : IsSeq(read[j].reply.text) /\ IsSeq(read[j].reply.title)
    BY DEF IInv, ListsOK
  <2> QED
    BY <1>1, <1>2, <2>1, <2>2, RaiseStep
<1>4. CASE End("done") /\ UNCHANGED records
  BY <1>1, <1>4, DoneStep DEF End
<1> QED
  BY <1>1, <1>3, <1>4

LEMMA StepIInv == IInv /\ [Next]_vars => IInv'
<1> SUFFICES ASSUME IInv, [Next]_vars PROVE IInv'
  OBVIOUS
<1>1. CASE NotConfigured
  BY <1>1, NotConfiguredStep
<1>2. CASE BeginSeeds
  BY <1>2, BeginSeedsStep
<1>3. CASE Return
  BY <1>3, DoneStep DEF Return, End
<1>4. CASE HitsDone
  BY <1>4, DoneStep DEF HitsDone, End
<1>5. CASE ReadFixture
  BY <1>5, ReadFixtureStep
<1>6. ASSUME NEW reply \in UNION {Web[u] : u \in Url}, FetchEntry(reply)
      PROVE  IInv'
  BY <1>6, FetchEntryStep
<1>7. ASSUME NEW reply \in UNION {Web[u] : u \in Url}, FetchSubPage(reply)
      PROVE  IInv'
  BY <1>7, FetchSubPageStep
<1>8. ASSUME NEW reply \in UNION {Web[u] : u \in Url}, NEW answer \in AnswerTo,
             FetchPage(reply, answer)
      PROVE  IInv'
  BY <1>8, FetchPageStep
<1>9. ASSUME NEW answer \in AnswerTo, Analyze(answer)
      PROVE  IInv'
  BY <1>9, AnalyzeStep
<1>10. ASSUME NEW hits \in Hits \cup {None}, Search(hits)
       PROVE  IInv'
  BY <1>10, SearchStep
<1>11. ASSUME NEW detail \in Detail, FetchHit(detail)
       PROVE  IInv'
  BY <1>11, FetchHitStep
<1>12. CASE UNCHANGED vars
  <2>1. UNCHANGED <<source, pc, todo, records, read>>
    BY <1>12 DEF vars
  <2>2. TypeOK' /\ ListsOK' /\ LinksOnce'
    BY <2>1 DEF IInv, TypeOK, ListsOK, LinksOnce
  <2>3. RecordsMatch'
    BY <2>1 DEF IInv, RecordsMatch
  <2>4. Evidence'
    BY <2>1 DEF IInv, Evidence
  <2> QED
    BY <2>2, <2>3, <2>4 DEF IInv
<1>13. CASE Next
  <2>1. CASE \E reply \in UNION {Web[u] : u \in Url} :
                \/ FetchEntry(reply) \/ FetchSubPage(reply)
                \/ \E answer \in AnswerTo : FetchPage(reply, answer)
    BY <1>6, <1>7, <1>8, <2>1
  <2>2. CASE \E answer \in AnswerTo : Analyze(answer)
    BY <1>9, <2>2
  <2>3. CASE \E hits \in Hits \cup {None} : Search(hits)
    BY <1>10, <2>3
  <2>4. CASE \E detail \in Detail : FetchHit(detail)
    BY <1>11, <2>4
  <2> QED
    BY <1>1, <1>2, <1>3, <1>4, <1>5, <1>13, <2>1, <2>2, <2>3, <2>4 DEF Next
<1> QED
  BY <1>12, <1>13

LEMMA Invariance == Spec => []IInv
  BY InitIInv, StepIInv, PTL DEF Spec

LEMMA EvidenceImplies == IInv => FieldsHaveEvidence
<1> SUFFICES ASSUME IInv, NEW k \in DOMAIN records
             PROVE  LET r == records[k]
                        text == PageOf(r).reply.text
                        answer == PageOf(r).answer
                    IN
        /\ ByRules(r) /\ r.deadline # None =>
               \E i \in DOMAIN text : /\ text[i] \in Dates /\ IsoOf[text[i]] = r.deadline
                                      /\ \/ Near(text, i, DEADLINE)
                                         \/ \A m \in ToSet(DEADLINE) : ~Holds(text, m)
        /\ ByRules(r) /\ r.country = "India" =>
               \/ r.external_id \in IndianHost
               \/ \E word \in ToSet(PageOf(r).reply.title) : OfPlace(word)
               \/ \E i \in DOMAIN text : OfPlace(text[i]) /\ Near(text, i, ELIGIBILITY \o DEADLINE)
        /\ ByRules(r) /\ r.funder # None =>
               \E i, j \in DOMAIN text : /\ Inside(text[i]) \cap ToSet(FUNDER) # {} /\ i < j
                                         /\ r.funder = SubSeq(text, i + 1, j)
                                         /\ ToSet(r.funder) \cap BOUNDARY = {}
        /\ r.method = "ai_inferred" /\ r.country = "India" =>
               \/ r.external_id \in IndianHost
               \/ \E word \in ToSet(answer.title \o answer.eligibility \o answer.description) :
                      OfPlace(word)
  BY DEF FieldsHaveEvidence
<1>1. Shown(records[k], PageOf(records[k]))
  BY DEF IInv, Evidence, PageOf
<1> QED
  BY <1>1 DEF Shown, HasEvidence, AnswerNames

LEMMA IndependenceImplies == IInv => PagesIndependent
<1> SUFFICES ASSUME IInv PROVE PagesIndependent
  OBVIOUS
<1>1. TypeOK
  BY DEF IInv
<1>2. Len(records) \in Nat /\ DOMAIN records = 1..Len(records)
      /\ Len(read) \in Nat /\ DOMAIN read = 1..Len(read)
  BY IsSeqFacts DEF IInv, ListsOK
<1>3. ASSUME source.kind \in Paged
      PROVE  /\ \A k \in DOMAIN records :
                   records[k].page \in DOMAIN read /\ IsOf(records[k], read[records[k].page])
             /\ pc # "raised" =>
                   \A j \in DOMAIN read : Accepted(read[j]) => \E k \in DOMAIN records : records[k].page = j
             /\ \A k, l \in DOMAIN records : k < l => records[k].page < records[l].page
             /\ pc = "raised" /\ read # <<>> <=> \E j \in DOMAIN read : Breaks(read[j])
             /\ pc = "raised" => records = <<>>
  BY <1>3 DEF IInv, RecordsMatch
<1>4. RepeatsAreRedirects
  <2> SUFFICES ASSUME source.kind \in Listing,
                      NEW i \in DOMAIN records, NEW j \in DOMAIN records, i # j
               PROVE  PageOf(records[i]).link # PageOf(records[j]).link
    BY DEF RepeatsAreRedirects
  <2>1. source.kind \in Paged
    BY DEF Paged
  <2>2. i < j \/ j < i
    BY <1>2
  <2>3. records[i].page \in DOMAIN read /\ records[j].page \in DOMAIN read
    BY <1>3, <2>1
  <2>4. records[i].page \in Nat /\ records[j].page \in Nat
    BY <1>2, <2>3
  <2>5. records[i].page < records[j].page \/ records[j].page < records[i].page
    BY <1>3, <2>1, <2>2
  <2>6. records[i].page # records[j].page
    BY <2>4, <2>5
  <2>7. \A a, b \in DOMAIN read : a # b => read[a].link # read[b].link
    BY DEF IInv, LinksOnce
  <2> QED
    BY <2>3, <2>6, <2>7 DEF PageOf
<1>5. ASSUME source.kind \in Paged
      PROVE  /\ pc # "raised" =>
                   {records[k].page : k \in DOMAIN records} = {j \in DOMAIN read : Accepted(read[j])}
             /\ \A k, l \in DOMAIN records : k < l => records[k].page < records[l].page
             /\ \A k \in DOMAIN records :
                   ByRules(records[k]) <=> PageOf(records[k]).answer.kind = "nothing"
             /\ pc = "raised" /\ read # <<>> <=> \E j \in DOMAIN read : Breaks(read[j])
             /\ pc = "raised" => records = <<>>
  BY <1>3, <1>5 DEF IsOf, PageOf
<1> QED
  BY <1>1, <1>4, <1>5 DEF PagesIndependent

(* RuleBased, CountryScope, ByAI: whatever a page says, a deadline, a      *)
(* country or a funder that the rules put into a record is written on the  *)
(* page, where it speaks of the opportunity (of a country, inside some     *)
(* word there); and a country beside an answer of a provider is inside a   *)
(* word of that answer, or is that of the host.                            *)
THEOREM RulesHaveEvidence == Spec => []FieldsHaveEvidence
  BY Invariance, EvidenceImplies, PTL

(* FetchPage: of any number of pages, those that cannot be fetched, are    *)
(* empty or are rejected take no other with them; one that cannot be read, *)
(* or an answer of the wrong types, takes all; and a listing follows no    *)
(* link twice.                                                             *)
THEOREM PagesStayIndependent == Spec => []PagesIndependent
  BY Invariance, IndependenceImplies, PTL

-----------------------------------------------------------------------------
(* Queries: the rows that a sync may write.                                *)

LEMMA GrantFacts ==
    ASSUME NEW g \in Grants
    PROVE  /\ g \in ImportedGrant /\ g.id \in Nat /\ g.collected \in Nat
           /\ \A s \in STATUSES : /\ [g EXCEPT !.status = s] \in Grants
                                  /\ [g EXCEPT !.status = s].id = g.id
                                  /\ [g EXCEPT !.status = s].collected = g.collected
<1> DEFINE B == ROWS \cup Seed
           With(x, s) == [x EXCEPT !.status = s]
<1>1. Grants = B \cup {With(x, s) : x \in B, s \in STATUSES}
  BY DEF Grants
<1>2. Grants \subseteq ImportedGrant
  BY QueriesAssumption
<1> HIDE DEF B
<1>3. g \in ImportedGrant /\ g.id \in Nat /\ g.collected \in Nat
  BY <1>2 DEF ImportedGrant
<1>4. \A s \in STATUSES : With(g, s).id = g.id /\ With(g, s).collected = g.collected
  BY <1>3 DEF ImportedGrant
<1>5. ASSUME NEW s \in STATUSES PROVE With(g, s) \in Grants
  <2>1. CASE g \in B
    BY <1>1, <2>1
  <2>2. CASE g \notin B
    <3>1. PICK x \in B, r \in STATUSES : g = With(x, r)
      BY <1>1, <2>2
    <3>2. x \in ImportedGrant
      BY <1>1, <1>2, <3>1
    <3>3. With(With(x, r), s) = With(x, s)
      BY <3>2 DEF ImportedGrant
    <3> QED
      BY <1>1, <3>1, <3>3
  <2> QED
    BY <2>1, <2>2
<1> QED
  BY <1>3, <1>4, <1>5

LEMMA LimitFacts == ASSUME NEW limit \in LIMITS PROVE limit \in Nat \ {0}
  BY QueriesAssumption

-----------------------------------------------------------------------------
(* Queries: rows with keys, and listings that are sorted.                  *)

SoundTable(t) == t \subseteq Grants /\ IsFiniteSet(t) /\ Unique(t)

(* As many keys as rows.                                                   *)
LEMMA IdsFacts ==
    ASSUME NEW t, SoundTable(t)
    PROVE  IsFiniteSet(Ids(t)) /\ Ids(t) \subseteq Nat /\ Cardinality(Ids(t)) = Cardinality(t)
<1> DEFINE f == [g \in t |-> g.id]
<1>1. f \in Surjection(t, Ids(t)) /\ f \in Injection(t, Ids(t))
  <2>1. f \in [t -> Ids(t)] /\ \A id \in Ids(t) : \E g \in t : f[g] = id
    BY DEF Ids
  <2>2. \A g, h \in t : f[g] = f[h] => g = h
    BY DEF SoundTable, Unique
  <2> HIDE DEF f
  <2>3. f \in Surjection(t, Ids(t))
    BY <2>1 DEF Surjection
  <2>4. IsInjective(f)
    BY <2>1, <2>2 DEF IsInjective
  <2> QED
    BY <2>1, <2>3, <2>4 DEF Injection
<1> HIDE DEF f
<1>2. IsFiniteSet(Ids(t)) /\ Cardinality(Ids(t)) = Cardinality(t)
  BY <1>1, FS_Surjection DEF SoundTable
<1>3. Ids(t) \subseteq Nat
  BY GrantFacts DEF Ids, SoundTable
<1> QED
  BY <1>2, <1>3

LEMMA SoundPart ==
    ASSUME NEW t, SoundTable(t), NEW S \in SUBSET t
    PROVE  SoundTable(S)
<1>1. IsFiniteSet(S)
  BY FS_Subset DEF SoundTable
<1> QED
  BY <1>1 DEF SoundTable, Unique

(* Ordering the rows again loses none and repeats none.                    *)
LEMMA BestFirstFacts ==
    ASSUME NEW S, IsFiniteSet(S), NEW value, NEW rows \in BestFirst(S, value)
    PROVE  /\ rows \in Seq(S) /\ DOMAIN rows = 1..Len(rows) /\ Len(rows) \in Nat
           /\ \A i, j \in DOMAIN rows : i # j => rows[i] # rows[j]
           /\ \A g \in S : \E k \in DOMAIN rows : rows[k] = g
           /\ \A i, j \in DOMAIN rows : i < j => value[rows[i]] >= value[rows[j]]
<1> DEFINE c == Cardinality(S)
<1>1. /\ rows \in [1..c -> S] /\ \A i, j \in 1..c : i # j => rows[i] # rows[j]
      /\ \A i, j \in DOMAIN rows : i < j => value[rows[i]] >= value[rows[j]]
  BY DEF BestFirst, SetToSeqs
<1>2. c \in Nat
  BY FS_CardinalityType
<1>3. IsFiniteSet(1..c) /\ Cardinality(1..c) = c
  <2>1. c \in Int /\ 1 \in Int
    BY <1>2
  <2>2. IsFiniteSet(1..c) /\ Cardinality(1..c) = IF 1 > c THEN 0 ELSE c - 1 + 1
    BY <2>1, FS_Interval
  <2> QED
    BY <1>2, <2>2
<1>4. rows \in Injection(1..c, S)
  <2>1. IsInjective(rows)
    BY <1>1 DEF IsInjective
  <2> QED
    BY <1>1, <2>1 DEF Injection
<1>5. rows \in Surjection(1..c, S)
  BY <1>3, <1>4, FS_Injection
<1> HIDE DEF c
<1>6. \A g \in S : \E k \in 1..c : rows[k] = g
  BY <1>5 DEF Surjection
<1>7. rows \in Seq(S) /\ Len(rows) = c /\ DOMAIN rows = 1..c
  BY <1>1, <1>2
<1> QED
  BY <1>1, <1>2, <1>6, <1>7

LEMMA LiveFacts ==
    ASSUME NEW t, SoundTable(t)
    PROVE  SoundTable(Live(t)) /\ Live(t) \subseteq t
<1>1. Live(t) \subseteq t
  BY DEF Live, Rows
<1> QED
  BY <1>1, SoundPart

(* The rows that every listing has before those of one date.               *)
Over(t, date) == Ids({g \in Live(t) : g.collected > date})

LEMMA OverFacts ==
    ASSUME NEW t, SoundTable(t), NEW date
    PROVE  IsFiniteSet(Over(t, date)) /\ Cardinality(Over(t, date)) \in Nat
<1> DEFINE S == {g \in Live(t) : g.collected > date}
<1>1. SoundTable(S)
  BY LiveFacts, SoundPart
<1>2. IsFiniteSet(Ids(S))
  BY <1>1, IdsFacts
<1> QED
  BY <1>2, FS_CardinalityType DEF Over

LEMMA InitialPart ==
    ASSUME NEW n \in Nat, NEW P \in SUBSET (1..n),
           \A i \in P : \A j \in 1..n : j < i => j \in P
    PROVE  \A i \in 1..n : i <= Cardinality(P) <=> i \in P
<1> DEFINE T == {k \in Nat : \A i \in P : i <= k}
<1>1. PICK m \in T : \A k \in T : m <= k
  <2>1. n \in T /\ T \subseteq Nat
    OBVIOUS
  <2> HIDE DEF T
  <2> QED
    BY <2>1, Least
<1>2. m \in Nat /\ \A i \in P : i <= m
  OBVIOUS
<1>3. m # 0 => m \in P
  <2> SUFFICES ASSUME m # 0, m \notin P PROVE FALSE
    OBVIOUS
  <2>1. m - 1 \in Nat /\ \A i \in P : i <= m - 1
    BY <1>2
  <2>2. m <= m - 1
    BY <1>1, <2>1
  <2> QED
    BY <1>2, <2>2
<1> HIDE DEF T
<1>4. P = 1..m
  <2>1. P \subseteq 1..m
    BY <1>2
  <2>2. ASSUME NEW j \in 1..m PROVE j \in P
    <3>1. m \in P /\ m \in 1..n
      BY <1>2, <1>3
    <3>2. j = m \/ (j < m /\ j \in 1..n)
      BY <1>2, <3>1
    <3> QED
      BY <3>1, <3>2
  <2> QED
    BY <2>1, <2>2
<1>5. Cardinality(P) = m
  <2>1. m \in Int /\ 1 \in Int
    BY <1>2
  <2>2. Cardinality(1..m) = IF 1 > m THEN 0 ELSE m - 1 + 1
    BY <2>1, FS_Interval
  <2> QED
    BY <1>2, <1>4, <2>2
<1> QED
  BY <1>2, <1>4, <1>5

(* A listing of the feed changes the order of rows of one date alone: they *)
(* lie behind all later ones, however they lie among themselves.           *)
LEMMA OverFirst ==
    ASSUME NEW t, SoundTable(t), NEW rows \in NewestFirst(Live(t)), NEW date \in Nat
    PROVE  \A i \in 1..Len(rows) : i <= Cardinality(Over(t, date)) <=> rows[i].collected > date
<1> DEFINE S == Live(t)
           value == [g \in S |-> g.collected]
           P == {i \in 1..Len(rows) : rows[i].collected > date}
           f == [i \in P |-> rows[i].id]
<1>1. IsFiniteSet(S) /\ S \subseteq Grants /\ Unique(S)
  BY LiveFacts DEF SoundTable
<1>2. rows \in BestFirst(S, value)
  BY DEF NewestFirst
<1> HIDE DEF S
<1>3. /\ rows \in Seq(S) /\ DOMAIN rows = 1..Len(rows) /\ Len(rows) \in Nat
      /\ \A i, j \in 1..Len(rows) : i # j => rows[i] # rows[j]
      /\ \A g \in S : \E k \in 1..Len(rows) : rows[k] = g
      /\ \A i, j \in 1..Len(rows) : i < j => value[rows[i]] >= value[rows[j]]
  <2> HIDE DEF value
  <2> QED
    BY <1>1, <1>2, BestFirstFacts
<1>4. \A i \in 1..Len(rows) : /\ rows[i] \in S /\ rows[i].collected \in Nat
                              /\ value[rows[i]] = rows[i].collected
  <2> TAKE i \in 1..Len(rows)
  <2>1. rows[i] \in S
    BY <1>3
  <2> QED
    BY <1>1, <2>1, GrantFacts
<1> HIDE DEF value
<1>5. \A i \in P : \A j \in 1..Len(rows) : j < i => j \in P
  <2> SUFFICES ASSUME NEW i \in P, NEW j \in 1..Len(rows), j < i PROVE rows[j].collected > date
    OBVIOUS
  <2>1. i \in 1..Len(rows) /\ rows[i].collected > date
    OBVIOUS
  <2> HIDE DEF P
  <2>2. rows[j].collected >= rows[i].collected
    BY <1>3, <1>4, <2>1
  <2> QED
    BY <1>4, <2>1, <2>2
<1>6. \A i \in 1..Len(rows) : i \in P <=> rows[i].collected > date
  OBVIOUS
<1>7. P \in SUBSET (1..Len(rows))
  OBVIOUS
<1> HIDE DEF P
<1>8. f \in Surjection(P, Over(t, date)) /\ f \in Injection(P, Over(t, date))
  <2>1. \A i \in P : f[i] = rows[i].id /\ rows[i] \in S /\ rows[i].collected > date
    BY <1>4, <1>6, <1>7
  <2>2. f \in [P -> Over(t, date)]
    <3>1. \A i \in P : rows[i].id \in Over(t, date)
      BY <2>1 DEF Over, Ids, S
    <3> QED
      BY <3>1
  <2>3. ASSUME NEW id \in Over(t, date) PROVE \E i \in P : f[i] = id
    <3>1. PICK g \in S : g.collected > date /\ g.id = id
      BY DEF Over, Ids, S
    <3>2. PICK k \in 1..Len(rows) : rows[k] = g
      BY <1>3
    <3>3. k \in P
      BY <1>6, <3>1, <3>2
    <3> QED
      BY <2>1, <3>1, <3>2, <3>3
  <2>4. \A i, j \in P : f[i] = f[j] => i = j
    BY <1>1, <1>3, <1>7, <2>1 DEF Unique
  <2> HIDE DEF f
  <2>5. f \in Surjection(P, Over(t, date))
    BY <2>2, <2>3 DEF Surjection
  <2>6. IsInjective(f)
    BY <2>2, <2>4 DEF IsInjective
  <2> QED
    BY <2>2, <2>5, <2>6 DEF Injection
<1> HIDE DEF f
<1>9. IsFiniteSet(P)
  <2>1. IsFiniteSet(1..Len(rows))
    <3>1. Len(rows) \in Int /\ 1 \in Int
      BY <1>3
    <3> QED
      BY <3>1, FS_Interval
  <2> QED
    BY <1>7, <2>1, FS_Subset
<1>10. Cardinality(Over(t, date)) = Cardinality(P)
  BY <1>8, <1>9, FS_Surjection
<1>11. \A i \in 1..Len(rows) : i <= Cardinality(P) <=> i \in P
  BY <1>3, <1>5, <1>7, InitialPart
<1> QED
  BY <1>6, <1>10, <1>11

LEMMA FromPast ==
    ASSUME NEW T, NEW s \in Seq(T), NEW offset \in Nat, ~(offset <= Len(s))
    PROVE  From(s, offset) = <<>>
<1> DEFINE f == From(s, offset)
<1>1. f = SubSeq(s, offset + 1, Len(s)) /\ Len(s) \in Nat
  BY DEF From
<1> HIDE DEF f
<1>2. f = [k \in 1..(Len(s) - (offset + 1) + 1) |-> s[offset + 1 + k - 1]]
  BY <1>1
<1>3. 1..(Len(s) - (offset + 1) + 1) = {}
  BY <1>1
<1>4. f = <<>>
  BY <1>2, <1>3
<1> QED
  BY <1>4 DEF f

LEMMA PageFacts ==
    ASSUME NEW T, NEW rows \in Seq(T), NEW H, NEW limit \in Nat, NEW offset \in Nat
    PROVE  Page(rows, H, limit, offset) \in Seq(T)
<1> DEFINE rest == From(rows, offset)
           fetched == FirstOf(rest, 2 * limit)
           P == {i \in DOMAIN fetched : fetched[i].id \notin H}
           kept == EntriesAt(fetched, P)
<1>1. rest \in Seq(T)
  <2>1. CASE offset <= Len(rows)
    BY <2>1, FromFacts
  <2>2. CASE ~(offset <= Len(rows))
    <3>1. rest = <<>>
      BY <2>2, FromPast
    <3> HIDE DEF rest
    <3> QED
      BY <3>1
  <2> QED
    BY <2>1, <2>2
<1>2. 2 * limit \in Nat
  OBVIOUS
<1> HIDE DEF rest
<1>3. FirstOf(rest, limit) \in Seq(T) /\ fetched \in Seq(T)
  BY <1>1, <1>2, FirstOfFacts
<1> HIDE DEF fetched
<1>4. P \in SUBSET DOMAIN fetched
  OBVIOUS
<1> HIDE DEF P
<1>5. kept \in Seq(T)
  BY <1>3, <1>4, EntriesAtFacts
<1> HIDE DEF kept
<1>6. FirstOf(kept, limit) \in Seq(T)
  BY <1>5, FirstOfFacts
<1> QED
  BY <1>3, <1>6 DEF Page, Unhidden, rest, fetched, P, kept

(* One page.  Whoever pages through rows, each row behind the offset and   *)
(* within the limit is shown unless it is hidden: as a row that is not     *)
(* hidden moves only up when the hidden ones are dropped.                  *)
LEMMA PageShows ==
    ASSUME NEW T, NEW rows \in Seq(T), NEW H, NEW limit \in Nat \ {0}, NEW offset \in Nat,
           NEW k \in 1..Len(rows), offset < k, k <= offset + limit,
           H = None \/ rows[k].id \notin H
    PROVE  rows[k] \in ToSet(Page(rows, H, limit, offset))
<1> DEFINE rest == From(rows, offset)
           j == k - offset
<1>1. offset <= Len(rows) /\ j \in 1..(Len(rows) - offset) /\ j <= limit /\ offset + j = k
  OBVIOUS
<1>2. rest \in Seq(T) /\ Len(rest) = Len(rows) - offset /\ rest[j] = rows[k]
  <2>1. \A i \in 1..(Len(rows) - offset) : rest[i] = rows[offset + i]
    BY <1>1, FromFacts
  <2>2. rest \in Seq(T) /\ Len(rest) = Len(rows) - offset
    BY <1>1, FromFacts
  <2> QED
    BY <1>1, <2>1, <2>2
<1>3. j \in 1..Len(rest) /\ limit \in Nat /\ 2 * limit \in Nat /\ j <= 2 * limit
  BY <1>1, <1>2
<1> HIDE DEF rest, j
<1>4. CASE H = None
  <2> DEFINE page == FirstOf(rest, limit)
  <2>1. j \in 1..Len(page) /\ DOMAIN page = 1..Len(page) /\ page[j] = rest[j]
    <3> HIDE DEF page
    <3>1. j <= Len(page) /\ Len(page) \in Nat /\ DOMAIN page = 1..Len(page)
      BY <1>1, <1>2, <1>3, FirstOfFacts DEF page
    <3>2. j \in 1..Len(page)
      BY <1>3, <3>1
    <3> QED
      BY <1>2, <1>3, <3>1, <3>2, FirstOfFacts DEF page
  <2>2. Page(rows, H, limit, offset) = page
    BY <1>4 DEF Page, rest
  <2> HIDE DEF page
  <2> QED
    BY <1>2, <2>1, <2>2 DEF ToSet
<1>5. CASE H # None
  <2> DEFINE fetched == FirstOf(rest, 2 * limit)
             P == {i \in DOMAIN fetched : fetched[i].id \notin H}
             kept == EntriesAt(fetched, P)
             page == FirstOf(kept, limit)
  <2>1. fetched \in Seq(T) /\ j \in DOMAIN fetched /\ fetched[j] = rest[j]
    <3>1. /\ fetched \in Seq(T) /\ j <= Len(fetched) /\ Len(fetched) \in Nat
          /\ DOMAIN fetched = 1..Len(fetched)
      BY <1>2, <1>3, FirstOfFacts
    <3>2. j \in 1..Len(fetched)
      BY <1>3, <3>1
    <3> QED
      BY <1>2, <1>3, <3>1, <3>2, FirstOfFacts
  <2>2. Page(rows, H, limit, offset) = page
    BY <1>5 DEF Page, rest, Unhidden
  <2> HIDE DEF fetched
  <2>3. P \in SUBSET DOMAIN fetched /\ j \in P
    BY <1>2, <1>5, <2>1
  <2> HIDE DEF P
  <2>4. P \in SUBSET Nat /\ IsFiniteSet(P) /\ P \subseteq 1..Len(fetched)
    BY <2>1, <2>3, PlacesFacts
  <2>5. InOrder(P) \in [1..Cardinality(P) -> P] /\ Increasing(InOrder(P), Cardinality(P))
        /\ Cardinality(P) \in Nat
    BY <2>4, InOrderFacts
  <2>6. PICK i \in 1..Cardinality(P) : InOrder(P)[i] = j
    BY <2>3, <2>4, InOrderOnto
  <2>7. i <= j
    <3>1. \A l \in 1..Cardinality(P) : InOrder(P)[l] \in Nat \ {0}
      <4>1. 1..Len(fetched) \subseteq Nat \ {0}
        BY <2>1
      <4> QED
        BY <2>4, <2>5, <4>1
    <3>2. i <= InOrder(P)[i]
      BY <2>5, <3>1, IncreasingAbove
    <3> QED
      BY <2>6, <3>2
  <2>8. kept \in Seq(T) /\ Len(kept) = Cardinality(P) /\ kept[i] = fetched[j]
    BY <2>1, <2>3, <2>6, EntriesAtFacts
  <2> HIDE DEF kept
  <2>9. i \in 1..Len(kept) /\ i <= limit
    <3>1. j \in Nat /\ j <= limit /\ i \in Nat
      BY <1>1, <1>3, <2>5
    <3> QED
      BY <1>3, <2>6, <2>7, <2>8, <3>1
  <2>10. i \in 1..Len(page) /\ DOMAIN page = 1..Len(page) /\ page[i] = kept[i]
    <3>1. i <= Len(page) /\ Len(page) \in Nat /\ DOMAIN page = 1..Len(page)
      BY <1>3, <2>8, <2>9, FirstOfFacts
    <3>2. i \in 1..Len(page)
      BY <2>9, <3>1
    <3> QED
      BY <1>3, <2>8, <2>9, <3>1, <3>2, FirstOfFacts
  <2> HIDE DEF page
  <2> QED
    BY <1>2, <2>1, <2>2, <2>8, <2>10 DEF ToSet
<1> QED
  BY <1>4, <1>5

(* A page for an NGO that is empty: what is left of the feed is hidden, or *)
(* as many rows as a page is made of.                                      *)
LEMMA PageEmpty ==
    ASSUME NEW t, SoundTable(t), NEW rows \in Seq(t), NEW H, H # None, IsFiniteSet(H),
           \A i, j \in 1..Len(rows) : i # j => rows[i] # rows[j],
           NEW limit \in Nat \ {0}, NEW offset \in Nat,
           NEW k \in 1..Len(rows), offset < k,
           Page(rows, H, limit, offset) = <<>>
    PROVE  rows[k].id \in H \/ ~(Cardinality(H) < 2 * limit)
<1> DEFINE rest == From(rows, offset)
           n == 2 * limit
           j == k - offset
<1>1. offset <= Len(rows) /\ j \in 1..(Len(rows) - offset) /\ offset + j = k /\ n \in Nat /\ Len(rows) \in Nat
  OBVIOUS
<1>2. /\ rest \in Seq(t) /\ Len(rest) = Len(rows) - offset
      /\ \A i \in 1..Len(rest) : offset + i \in 1..Len(rows) /\ rest[i] = rows[offset + i]
  <2>1. /\ rest \in Seq(t) /\ Len(rest) = Len(rows) - offset
        /\ \A i \in 1..(Len(rows) - offset) : rest[i] = rows[offset + i]
    BY <1>1, FromFacts
  <2> HIDE DEF rest
  <2> QED
    BY <1>1, <2>1
<1> HIDE DEF rest, n
<1>3. j \in 1..Len(rest) /\ rest[j] = rows[k]
  BY <1>1, <1>2
<1> HIDE DEF j
<1> DEFINE fetched == FirstOf(rest, n)
<1>4. /\ fetched \in Seq(t) /\ DOMAIN fetched = 1..Len(fetched) /\ Len(fetched) \in Nat
      /\ \A i \in 1..Len(rest) : i <= n => i <= Len(fetched)
      /\ \A i \in 1..Len(fetched) : i \in 1..Len(rest) /\ fetched[i] = rest[i]
  <2>1. rest \in Seq(t) /\ n \in Nat
    BY <1>1, <1>2
  <2> HIDE DEF fetched
  <2>2. /\ fetched \in Seq(t) /\ DOMAIN fetched = 1..Len(fetched) /\ Len(fetched) \in Nat
        /\ \A i \in 1..Len(rest) : i <= n => i <= Len(fetched)
    BY <2>1, FirstOfFacts DEF fetched
  <2>3. \A i \in 1..Len(fetched) : i \in 1..Len(rest) /\ fetched[i] = rest[i]
    BY <2>1, FirstOfFacts DEF fetched
  <2> QED
    BY <2>2, <2>3
<1> DEFINE P == {i \in DOMAIN fetched : fetched[i].id \notin H}
           kept == EntriesAt(fetched, P)
<1>5. Page(rows, H, limit, offset) = FirstOf(kept, limit)
  BY DEF Page, Unhidden, rest, n
<1> HIDE DEF fetched
<1>6. P \in SUBSET DOMAIN fetched
  OBVIOUS
<1>7. P = {}
  <2> SUFFICES ASSUME P # {} PROVE FALSE
    OBVIOUS
  <2> HIDE DEF P
  <2>1. kept \in Seq(t) /\ Len(kept) = Cardinality(P) /\ Cardinality(P) \in Nat
    BY <1>4, <1>6, EntriesAtFacts
  <2>2. Cardinality(P) # 0
    <3>1. IsFiniteSet(P)
      BY <1>4, <1>6, PlacesFacts
    <3> QED
      BY <3>1, FS_EmptySet
  <2> HIDE DEF kept
  <2>3. 1 \in 1..Len(kept) /\ 1 <= limit /\ limit \in Nat
    BY <2>1, <2>2
  <2>4. 1 <= Len(FirstOf(kept, limit))
    BY <2>1, <2>3, FirstOfFacts
  <2> QED
    BY <1>5, <2>4
<1>8. \A i \in 1..Len(fetched) : fetched[i].id \in H
  BY <1>4, <1>7
<1> HIDE DEF P, kept
<1>9. CASE j <= n
  <2>1. j \in 1..Len(fetched) /\ fetched[j] = rows[k]
    BY <1>3, <1>4, <1>9
  <2> QED
    BY <1>8, <2>1
<1>10. CASE ~(j <= n)
  <2>1. n <= Len(fetched)
    <3>1. CASE n = 0
      BY <1>4, <3>1
    <3>2. CASE n # 0
      <4>1. n \in 1..Len(rest)
        BY <1>1, <1>2, <1>3, <1>10, <3>2
      <4> QED
        BY <1>1, <1>4, <4>1
    <3> QED
      BY <3>1, <3>2
  <2> DEFINE f == [i \in 1..n |-> fetched[i].id]
  <2>2. \A i \in 1..n : i \in 1..Len(fetched) /\ f[i] = fetched[i].id
    BY <1>1, <1>4, <2>1
  <2>3. f \in [1..n -> H]
    BY <1>8, <2>2
  <2>4. \A i, l \in 1..n : f[i] = f[l] => i = l
    <3> SUFFICES ASSUME NEW i \in 1..n, NEW l \in 1..n, fetched[i].id = fetched[l].id PROVE i = l
      OBVIOUS
    <3>1. /\ fetched[i] = rows[offset + i] /\ offset + i \in 1..Len(rows)
          /\ fetched[l] = rows[offset + l] /\ offset + l \in 1..Len(rows)
          /\ fetched[i] \in t /\ fetched[l] \in t
      BY <1>2, <1>4, <2>2
    <3>2. fetched[i] = fetched[l]
      BY <3>1 DEF SoundTable, Unique
    <3>3. offset + i = offset + l
      BY <3>1, <3>2
    <3> QED
      BY <1>1, <3>3
  <2> HIDE DEF f
  <2>5. f \in Injection(1..n, H)
    <3>1. IsInjective(f)
      BY <2>3, <2>4 DEF IsInjective
    <3> QED
      BY <2>3, <3>1 DEF Injection
  <2>6. Cardinality(1..n) <= Cardinality(H)
    BY <2>5, FS_Injection
  <2>7. Cardinality(1..n) = n
    <3>1. n \in Int /\ 1 \in Int
      BY <1>1
    <3>2. Cardinality(1..n) = IF 1 > n THEN 0 ELSE n - 1 + 1
      BY <3>1, FS_Interval
    <3> QED
      BY <1>1, <3>2
  <2>8. Cardinality(H) \in Nat
    BY FS_CardinalityType
  <2>9. ~(Cardinality(H) < n)
    BY <1>1, <2>6, <2>7, <2>8
  <2> QED
    BY <2>9 DEF n
<1> QED
  BY <1>9, <1>10

-----------------------------------------------------------------------------
(* Queries: the invariant, and the steps that ask for no score.            *)

Walk == [kind : {"walk"}, limit : LIMITS, asNgo : BOOLEAN, offset : Nat, seen : SUBSET Nat,
         from : SUBSET Nat, cut : SUBSET Nat, ended : BOOLEAN]

(* A grant was seen or is hidden, or it is still to come: in every listing *)
(* it stands behind the offset.                                            *)
Met(g, v, h, t) ==
    \/ g.id \in v.seen
    \/ v.asNgo = TRUE /\ g.id \in h
    \/ v.ended = FALSE /\ v.offset <= Cardinality(Over(t, g.collected))
    \/ v.ended = TRUE /\ v.asNgo = TRUE /\ ~(Cardinality(h) < 2 * v.limit)

WalkSound ==
    view.kind = "walk" =>
        /\ view \in Walk
        /\ view.from \subseteq Ids(Live(table))
        /\ \A g \in Live(table) :
               g.id \in view.from /\ g.collected \notin view.cut => Met(g, view, hidden, table)

(* What was told of a row of the table is its canonical score, if it has   *)
(* one.                                                                    *)
ToldOf(p, g, t) ==
    IF g \in DOMAIN Canonical(t, PROFILE) THEN p.score = Canonical(t, PROFILE)[g].score_100
    ELSE /\ p.page # "ask" => p.score = None
         /\ p.score # None => Recommendable(g)

ToldSound ==
    view.kind = "scores" =>
        /\ view = [kind |-> "scores", id |-> view.id, told |-> view.told]
        /\ \A p \in view.told : \E g \in table : g.id = view.id /\ ToldOf(p, g, table)

GradeOf(s) == BuildMatchScore(s.relevance, s.overlap, s.geography, s.deadline, s.multiplier)

GradedSound == view.kind = "graded" => view.shares \in SHARES /\ view.match = GradeOf(view.shares)

QInv == QueriesTypeOK /\ WalkSound /\ ToldSound /\ AskEarnsItsTier /\ GradedSound

LEMMA TableSound == QInv => SoundTable(table) /\ IsFiniteSet(hidden) /\ hidden \subseteq Ids(table)
<1> SUFFICES ASSUME QInv PROVE SoundTable(table) /\ IsFiniteSet(hidden) /\ hidden \subseteq Ids(table)
  OBVIOUS
<1>1. SoundTable(table) /\ hidden \subseteq Ids(table)
  BY DEF QInv, QueriesTypeOK, SoundTable
<1>2. IsFiniteSet(Ids(table))
  BY <1>1, IdsFacts
<1> QED
  BY <1>1, <1>2, FS_Subset

LEMMA IdleSound ==
    ASSUME QueriesTypeOK', view' = Idle
    PROVE  QInv'
<1>1. view'.kind = "idle"
  BY DEF Idle
<1>2. WalkSound'
  BY <1>1 DEF WalkSound
<1>3. ToldSound'
  BY <1>1 DEF ToldSound
<1>4. AskEarnsItsTier'
  BY <1>1 DEF AskEarnsItsTier
<1>5. GradedSound'
  BY <1>1 DEF GradedSound
<1> QED
  BY <1>2, <1>3, <1>4, <1>5 DEF QInv

LEMMA InitQInv == QueriesInit => QInv
<1> SUFFICES ASSUME QueriesInit PROVE QInv
  OBVIOUS
<1>1. view.kind = "idle"
  BY DEF QueriesInit, Idle
<1>2. QueriesTypeOK
  <2>1. Seed \subseteq Grants
    BY DEF Grants
  <2> QED
    BY <1>1, <2>1, QueriesAssumption DEF QueriesInit, QueriesTypeOK, KINDS
<1>3. WalkSound
  BY <1>1 DEF WalkSound
<1>4. ToldSound
  BY <1>1 DEF ToldSound
<1>5. AskEarnsItsTier
  BY <1>1 DEF AskEarnsItsTier
<1>6. GradedSound
  BY <1>1 DEF GradedSound
<1> QED
  BY <1>2, <1>3, <1>4, <1>5, <1>6 DEF QInv

(* A grant that is still to come stays so when no row leaves the feed:     *)
(* those before it stay before it.                                         *)
LEMMA MetAfterSync ==
    ASSUME NEW t, SoundTable(t), NEW u, SoundTable(u), Ids(Live(t)) \subseteq Ids(Live(u)),
           \A g \in t, h \in u : g.id = h.id => g.collected = h.collected,
           NEW v \in Walk, NEW h, NEW x \in Live(t), NEW y \in Live(u), x.id = y.id,
           Met(x, v, h, t)
    PROVE  Met(y, v, h, u)
<1>1. x.collected = y.collected /\ Live(t) \subseteq t /\ Live(u) \subseteq u
  BY LiveFacts
<1> DEFINE date == y.collected
<1>2. Over(t, date) \subseteq Over(u, date)
  <2> SUFFICES ASSUME NEW id \in Over(t, date) PROVE id \in Over(u, date)
    OBVIOUS
  <2>1. PICK g \in Live(t) : g.id = id /\ g.collected > date
    BY DEF Over, Ids
  <2>2. PICK k \in Live(u) : k.id = id
    BY <2>1 DEF Ids
  <2>3. k.collected > date
    BY <1>1, <2>1, <2>2
  <2> QED
    BY <2>2, <2>3 DEF Over, Ids
<1> HIDE DEF date
<1>3. /\ IsFiniteSet(Over(u, date)) /\ Cardinality(Over(u, date)) \in Nat
      /\ Cardinality(Over(t, date)) \in Nat
  BY OverFacts
<1>4. Cardinality(Over(t, date)) <= Cardinality(Over(u, date))
  BY <1>2, <1>3, FS_Subset
<1>5. v.offset \in Nat
  BY DEF Walk
<1>6. v.offset <= Cardinality(Over(t, date)) => v.offset <= Cardinality(Over(u, date))
  BY <1>3, <1>4, <1>5
<1> QED
  BY <1>1, <1>6 DEF Met, date

LEMMA AfterSyncStep ==
    ASSUME QInv, NEW t, SoundTable(t), AfterSync(t), Ids(table) \subseteq Ids(t),
           \A g \in table, h \in t : g.id = h.id => g.collected = h.collected
    PROVE  QInv'
<1>1. /\ table' = t /\ hidden' = hidden /\ view.kind \in KINDS
      /\ SoundTable(table) /\ hidden \subseteq Ids(t)
  BY TableSound DEF QInv, QueriesTypeOK, AfterSync
<1>2. QueriesTypeOK' <=> view'.kind \in KINDS
  BY <1>1 DEF QueriesTypeOK, SoundTable
<1>3. CASE view.kind = "walk" /\ Ids(Live(table)) \subseteq Ids(Live(t))
  <2>1. view' = view
    BY <1>3 DEF AfterSync
  <2>2. view \in Walk /\ view.from \subseteq Ids(Live(table))
    BY <1>3 DEF QInv, WalkSound
  <2>3. ASSUME NEW g \in Live(t), g.id \in view.from, g.collected \notin view.cut
        PROVE  Met(g, view, hidden, t)
    <3>1. PICK x \in Live(table) : x.id = g.id
      BY <2>2, <2>3 DEF Ids
    <3>2. x.collected = g.collected
      BY <1>1, <3>1, LiveFacts
    <3>3. Met(x, view, hidden, table)
      BY <1>3, <2>3, <3>1, <3>2 DEF QInv, WalkSound
    <3> QED
      BY <1>1, <1>3, <2>2, <3>1, <3>3, MetAfterSync
  <2>4. WalkSound'
    <3>1. view.from \subseteq Ids(Live(t))
      BY <1>3, <2>2
    <3> QED
      BY <1>1, <2>1, <2>2, <2>3, <3>1 DEF WalkSound
  <2>5. ToldSound' /\ AskEarnsItsTier' /\ GradedSound'
    BY <1>3, <2>1 DEF ToldSound, AskEarnsItsTier, GradedSound
  <2> QED
    BY <1>1, <1>2, <2>1, <2>4, <2>5 DEF QInv
<1>4. CASE view.kind = "scores"
  <2>1. view = [kind |-> "scores", id |-> view.id, told |-> view.told]
    BY <1>4 DEF QInv, ToldSound
  <2>2. view' = [view EXCEPT !.told = {}]
    <3>1. ~(view.kind = "walk" /\ Ids(Live(table)) \subseteq Ids(Live(t)))
      BY <1>4
    <3> QED
      BY <1>4, <3>1, Zenon DEF AfterSync
  <2>3. view' = [kind |-> "scores", id |-> view.id, told |-> {}]
    <3>1. \A i, old, new : [[kind |-> "scores", id |-> i, told |-> old] EXCEPT !.told = new]
                               = [kind |-> "scores", id |-> i, told |-> new]
      OBVIOUS
    <3>2. [view EXCEPT !.told = {}] = [[kind |-> "scores", id |-> view.id, told |-> view.told] EXCEPT !.told = {}]
      BY <2>1
    <3> QED
      BY <2>2, <3>1, <3>2
  <2>4. view'.kind = "scores" /\ view'.id = view.id /\ view'.told = {}
    BY <2>3
  <2>5. ToldSound'
    BY <2>3, <2>4 DEF ToldSound
  <2>6. WalkSound' /\ AskEarnsItsTier' /\ GradedSound'
    BY <2>4 DEF WalkSound, AskEarnsItsTier, GradedSound
  <2>7. QueriesTypeOK'
    BY <1>2, <2>4 DEF KINDS
  <2> QED
    BY <2>5, <2>6, <2>7 DEF QInv
<1>5. CASE ~(view.kind = "walk" /\ Ids(Live(table)) \subseteq Ids(Live(t))) /\ view.kind # "scores"
  <2>1. view' = Idle
    BY <1>5, Zenon DEF AfterSync
  <2>2. QueriesTypeOK'
    BY <1>2, <2>1 DEF KINDS, Idle
  <2> QED
    BY <2>1, <2>2, IdleSound
<1> QED
  BY <1>3, <1>4, <1>5

LEMMA ImportStep == QInv /\ Import => QInv'
<1> SUFFICES ASSUME QInv, NEW new \in SUBSET ROWS, Unique(new), Ids(new) \cap Ids(table) = {},
                    AfterSync(table \cup new)
             PROVE  QInv'
  BY DEF Import
<1>1. SoundTable(table)
  BY TableSound
<1>2. Unique(table \cup new)
  <2> SUFFICES ASSUME NEW g \in table \cup new, NEW h \in table \cup new, g.id = h.id PROVE g = h
    BY DEF Unique
  <2>1. CASE g \in table /\ h \in table
    BY <1>1, <2>1 DEF SoundTable, Unique
  <2>2. CASE g \in new /\ h \in new
    BY <2>2 DEF Unique
  <2>3. ~(g \in table /\ h \in new) /\ ~(g \in new /\ h \in table)
    BY DEF Ids
  <2> QED
    BY <2>1, <2>2, <2>3
<1>3. IsFiniteSet(table \cup new)
  <2>1. IsFiniteSet(new)
    BY QueriesAssumption, FS_Subset
  <2> QED
    BY <1>1, <2>1, FS_Union DEF SoundTable
<1>4. SoundTable(table \cup new)
  <2>1. new \subseteq Grants
    BY DEF Grants
  <2> QED
    BY <1>1, <1>2, <1>3, <2>1 DEF SoundTable
<1>5. Ids(table) \subseteq Ids(table \cup new)
  BY DEF Ids
<1>6. \A g \in table, h \in table \cup new : g.id = h.id => g.collected = h.collected
  BY <1>2 DEF Unique
<1> QED
  BY <1>4, <1>5, <1>6, AfterSyncStep

LEMMA ChangeStep == QInv /\ Change => QInv'
<1> SUFFICES ASSUME QInv, NEW x \in table, NEW s \in STATUSES,
                    AfterSync((table \ {x}) \cup {[x EXCEPT !.status = s]})
             PROVE  QInv'
  BY DEF Change
<1> DEFINE y == [x EXCEPT !.status = s]
           t == (table \ {x}) \cup {y}
<1>1. SoundTable(table) /\ x \in Grants
  BY TableSound DEF SoundTable
<1>2. y \in Grants /\ y.id = x.id /\ y.collected = x.collected
  BY <1>1, GrantFacts
<1>3. AfterSync(t)
  OBVIOUS
<1> HIDE DEF y
<1>4. Unique(t)
  BY <1>1, <1>2 DEF SoundTable, Unique
<1>5. IsFiniteSet(t)
  <2>1. IsFiniteSet(table \ {x}) /\ IsFiniteSet({y})
    BY <1>1, FS_Subset, FS_Singleton DEF SoundTable
  <2> QED
    BY <2>1, FS_Union
<1>6. SoundTable(t)
  BY <1>1, <1>2, <1>4, <1>5 DEF SoundTable
<1>7. Ids(table) \subseteq Ids(t)
  BY <1>2 DEF Ids
<1>8. \A g \in table, h \in t : g.id = h.id => g.collected = h.collected
  BY <1>1, <1>2 DEF SoundTable, Unique
<1> HIDE DEF t
<1> QED
  BY <1>3, <1>6, <1>7, <1>8, AfterSyncStep

(* A grant that is hidden need not come any more.                          *)
LEMMA HideStep == QInv /\ Hide => QInv'
<1> SUFFICES ASSUME QInv, NEW x \in table, hidden' = hidden \cup {x.id}, table' = table,
                    view' = IF view.kind \in {"walk", "scores"} THEN view ELSE Idle
             PROVE  QInv'
  BY DEF Hide
<1>1. SoundTable(table) /\ IsFiniteSet(hidden) /\ hidden' \subseteq Ids(table)
  BY TableSound DEF Ids
<1>2. QueriesTypeOK' <=> view'.kind \in KINDS
  BY <1>1 DEF QueriesTypeOK, SoundTable
<1>3. view.kind \in KINDS
  BY DEF QInv, QueriesTypeOK
<1>4. CASE view.kind = "walk"
  <2>1. view' = view
    BY <1>4
  <2>2. Cardinality(hidden) <= Cardinality(hidden') /\ Cardinality(hidden) \in Nat /\ Cardinality(hidden') \in Nat
    <3>1. IsFiniteSet(hidden')
      BY <1>1, IdsFacts, FS_Subset
    <3> QED
      BY <1>1, <3>1, FS_Subset, FS_CardinalityType
  <2>3. view \in Walk
    BY <1>4 DEF QInv, WalkSound
  <2>4. 2 * view.limit \in Nat
    BY <2>3, LimitFacts DEF Walk
  <2> DEFINE n == 2 * view.limit
  <2>5. \A g \in Live(table) : Met(g, view, hidden, table) => Met(g, view, hidden', table)
    <3>1. ~(Cardinality(hidden) < n) => ~(Cardinality(hidden') < n)
      <4> HIDE DEF n
      <4> QED
        BY <2>2, <2>4 DEF n
    <3> QED
      BY <3>1 DEF Met
  <2>6. WalkSound'
    BY <1>4, <2>1, <2>5 DEF QInv, WalkSound
  <2>7. ToldSound' /\ AskEarnsItsTier' /\ GradedSound'
    BY <1>4, <2>1 DEF ToldSound, AskEarnsItsTier, GradedSound
  <2> QED
    BY <1>2, <1>3, <2>1, <2>6, <2>7 DEF QInv
<1>5. CASE view.kind = "scores"
  <2>1. view' = view
    BY <1>5
  <2>2. ToldSound'
    BY <2>1 DEF QInv, ToldSound
  <2>3. WalkSound' /\ AskEarnsItsTier' /\ GradedSound'
    BY <1>5, <2>1 DEF WalkSound, AskEarnsItsTier, GradedSound
  <2> QED
    BY <1>2, <1>3, <2>1, <2>2, <2>3 DEF QInv
<1>6. CASE view.kind \notin {"walk", "scores"}
  <2>1. view' = Idle
    BY <1>6
  <2>2. QueriesTypeOK'
    BY <1>2, <2>1 DEF KINDS, Idle
  <2> QED
    BY <2>1, <2>2, IdleSound
<1> QED
  BY <1>4, <1>5, <1>6

LEMMA StartWalkStep == QInv /\ StartWalk => QInv'
<1> SUFFICES ASSUME QInv, NEW limit \in LIMITS, NEW asNgo \in BOOLEAN,
                    view' = [kind |-> "walk", limit |-> limit, asNgo |-> asNgo, offset |-> 0,
                             seen |-> {}, from |-> Ids(Live(table)), cut |-> {}, ended |-> FALSE],
                    table' = table, hidden' = hidden
             PROVE  QInv'
  BY DEF StartWalk
<1> DEFINE ids == Ids(Live(table))
<1>1. SoundTable(table) /\ ids \in SUBSET Nat
  BY TableSound, LiveFacts, IdsFacts
<1>2. view' = [kind |-> "walk", limit |-> limit, asNgo |-> asNgo, offset |-> 0,
               seen |-> {}, from |-> ids, cut |-> {}, ended |-> FALSE]
  OBVIOUS
<1>3. \A f \in SUBSET Nat : \A e \in SUBSET Nat :
          [kind |-> "walk", limit |-> limit, asNgo |-> asNgo, offset |-> 0, seen |-> e,
           from |-> f, cut |-> e, ended |-> FALSE] \in Walk
  BY SMT DEF Walk
<1> HIDE DEF ids
<1>4. /\ view' \in Walk /\ view'.kind = "walk" /\ view'.from = ids /\ view'.offset = 0
      /\ view'.ended = FALSE
  <2>1. view'.kind = "walk" /\ view'.from = ids /\ view'.offset = 0 /\ view'.ended = FALSE
    BY <1>2
  <2>2. {} \in SUBSET Nat
    OBVIOUS
  <2>3. view' \in Walk
    BY <1>1, <1>2, <1>3, <2>2, Zenon
  <2> QED
    BY <2>1, <2>3
<1>5. ASSUME NEW g \in Live(table) PROVE Met(g, view, hidden, table)'
  <2>1. Cardinality(Over(table, g.collected)) \in Nat
    BY <1>1, OverFacts
  <2>2. 0 <= Cardinality(Over(table, g.collected))
    BY <2>1
  <2> QED
    BY <1>4, <2>2 DEF Met
<1>6. QueriesTypeOK'
  BY <1>4 DEF QInv, QueriesTypeOK, KINDS
<1>7. WalkSound'
  <2>1. view'.from \subseteq Ids(Live(table))
    BY <1>4 DEF ids
  <2>2. \A g \in Live(table) : Met(g, view', hidden', table')
    BY <1>5
  <2> QED
    BY <1>4, <2>1, <2>2 DEF WalkSound
<1>8. ToldSound' /\ AskEarnsItsTier' /\ GradedSound'
  BY <1>4 DEF ToldSound, AskEarnsItsTier, GradedSound
<1> QED
  BY <1>6, <1>7, <1>8 DEF QInv

(* What a page makes of a grant that is still to come, in the listing of   *)
(* that page.                                                              *)
LEMMA PageMeets ==
    ASSUME NEW t, SoundTable(t), NEW rows \in NewestFirst(Live(t)), NEW H, IsFiniteSet(H),
           NEW limit \in Nat \ {0}, NEW offset \in Nat, NEW asNgo \in BOOLEAN,
           NEW page, page = Page(rows, IF asNgo THEN H ELSE None, limit, offset),
           NEW g \in Live(t), offset <= Cardinality(Over(t, g.collected)),
           ~(asNgo /\ g.id \in H)
    PROVE  /\ page = <<>> => asNgo /\ ~(Cardinality(H) < 2 * limit)
           /\ \/ g \in ToSet(page)
              \/ offset + limit <= Cardinality(Over(t, g.collected))
              \/ g.collected \in CutAt(rows, offset + limit)
<1> DEFINE m == Cardinality(Over(t, g.collected))
           Hid == IF asNgo THEN H ELSE None
           S == Live(t)
<1>1. SoundTable(S) /\ S \subseteq t /\ m \in Nat /\ g \in Grants /\ g.collected \in Nat
  BY LiveFacts, OverFacts, GrantFacts DEF SoundTable
<1>2. /\ rows \in Seq(S) /\ DOMAIN rows = 1..Len(rows) /\ Len(rows) \in Nat
      /\ \A i, j \in 1..Len(rows) : i # j => rows[i] # rows[j]
      /\ \A x \in S : \E k \in 1..Len(rows) : rows[k] = x
  <2>1. rows \in BestFirst(S, [x \in S |-> x.collected])
    BY DEF NewestFirst
  <2>2. IsFiniteSet(S)
    BY <1>1 DEF SoundTable
  <2> HIDE DEF S
  <2> QED
    BY <2>1, <2>2, BestFirstFacts
<1>3. \A i, j \in 1..Len(rows) : i < j => rows[i].collected >= rows[j].collected
  <2>1. rows \in BestFirst(S, [x \in S |-> x.collected])
    BY DEF NewestFirst
  <2>2. IsFiniteSet(S)
    BY <1>1 DEF SoundTable
  <2> HIDE DEF S
  <2> DEFINE value == [x \in S |-> x.collected]
  <2>3. \A x \in S : value[x] = x.collected
    OBVIOUS
  <2> HIDE DEF value
  <2>4. \A i, j \in DOMAIN rows : i < j => value[rows[i]] >= value[rows[j]]
    BY <2>1, <2>2, BestFirstFacts DEF value
  <2>5. \A i \in 1..Len(rows) : rows[i] \in S
    BY <1>2
  <2> QED
    BY <1>2, <2>3, <2>4, <2>5
<1>4. \A i \in 1..Len(rows) : i <= m <=> rows[i].collected > g.collected
  BY <1>1, OverFirst
<1>5. \A i \in 1..Len(rows) : rows[i] \in S /\ rows[i].collected \in Nat
  <2> TAKE i \in 1..Len(rows)
  <2>1. rows[i] \in S
    BY <1>2
  <2> QED
    BY <1>1, <2>1, GrantFacts DEF SoundTable
<1>6. PICK k \in 1..Len(rows) : rows[k] = g
  BY <1>2
<1> HIDE DEF m, S
<1>7. offset < k /\ k \in Nat
  <2>1. ~(k <= m)
    BY <1>1, <1>4, <1>6
  <2>2. offset <= m
    BY DEF m
  <2> QED
    BY <1>1, <1>6, <2>1, <2>2
<1>8. Hid = None \/ rows[k].id \notin Hid
  BY <1>6
<1>9. page = Page(rows, Hid, limit, offset)
  OBVIOUS
<1> HIDE DEF Hid
<1>10. k <= offset + limit => g \in ToSet(page)
  BY <1>2, <1>6, <1>7, <1>8, <1>9, PageShows
<1>11. ASSUME page = <<>> PROVE asNgo /\ ~(Cardinality(H) < 2 * limit)
  <2>1. CASE Hid # None
    <3>1. Hid = H /\ asNgo
      BY <2>1 DEF Hid
    <3>2. rows[k].id \in H \/ ~(Cardinality(H) < 2 * limit)
      BY <1>1, <1>2, <1>6, <1>7, <1>9, <1>11, <2>1, <3>1, PageEmpty
    <3> QED
      BY <1>6, <3>1, <3>2
  <2>2. CASE Hid = None
    <3>1. page = FirstOf(From(rows, offset), limit)
      BY <1>9, <2>2 DEF Page
    <3>2. From(rows, offset) \in Seq(S) /\ Len(From(rows, offset)) = Len(rows) - offset
      <4>1. offset <= Len(rows)
        BY <1>2, <1>6, <1>7
      <4> QED
        BY <1>2, <4>1, FromFacts
    <3>3. 1 \in 1..Len(From(rows, offset)) /\ 1 <= limit /\ limit \in Nat
      BY <1>2, <1>6, <1>7, <3>2
    <3>4. 1 <= Len(page)
      BY <3>1, <3>2, <3>3, FirstOfFacts
    <3> QED
      BY <1>11, <3>4
  <2> QED
    BY <2>1, <2>2
<1>12. ASSUME ~(k <= offset + limit), ~(offset + limit <= m)
       PROVE  g.collected \in CutAt(rows, offset + limit)
  <2> DEFINE n == offset + limit
  <2>1. n \in 1..Len(rows) /\ n + 1 \in 1..Len(rows) /\ n < k /\ n + 1 <= k /\ ~(n <= m) /\ ~(n + 1 <= m)
    BY <1>1, <1>2, <1>6, <1>7, <1>12
  <2> HIDE DEF n
  <2>2. rows[n].collected = g.collected
    <3>1. ~(rows[n].collected > g.collected)
      BY <1>4, <2>1
    <3>2. rows[n].collected >= rows[k].collected
      BY <1>3, <1>6, <2>1
    <3> QED
      BY <1>1, <1>5, <1>6, <2>1, <3>1, <3>2
  <2>3. rows[n + 1].collected = g.collected
    <3>1. ~(rows[n + 1].collected > g.collected)
      BY <1>4, <2>1
    <3>2. rows[n + 1].collected >= rows[k].collected
      <4>1. CASE n + 1 = k
        BY <1>5, <2>1, <4>1
      <4>2. CASE n + 1 # k
        <5>1. n + 1 < k
          BY <1>6, <2>1, <4>2
        <5> QED
          BY <1>3, <1>6, <2>1, <5>1
      <4> QED
        BY <4>1, <4>2
    <3> QED
      BY <1>1, <1>5, <1>6, <2>1, <3>1, <3>2
  <2>4. g.collected \in CutAt(rows, n)
    BY <1>2, <2>1, <2>2, <2>3 DEF CutAt
  <2> QED
    BY <2>4 DEF n
<1> QED
  BY <1>10, <1>11, <1>12 DEF m

LEMMA NextPageStep == QInv /\ NextPage => QInv'
<1> SUFFICES ASSUME QInv, NextPage PROVE QInv'
  OBVIOUS
<1>1. PICK rows \in NewestFirst(Live(table)) :
          /\ view.kind = "walk" /\ ~view.ended /\ table' = table /\ hidden' = hidden
          /\ LET page == Page(rows, IF view.asNgo THEN hidden ELSE None, view.limit, view.offset)
             IN  \/ page = <<>> /\ view' = [view EXCEPT !.ended = TRUE]
                 \/ /\ page # <<>>
                    /\ view' = [view EXCEPT !.offset = @ + view.limit,
                                            !.seen = @ \cup Ids(ToSet(page)),
                                            !.cut = @ \cup CutAt(rows, view.offset + view.limit)]
  BY DEF NextPage
<1> DEFINE page == Page(rows, IF view.asNgo THEN hidden ELSE None, view.limit, view.offset)
           ids == Ids(ToSet(page))
           cuts == CutAt(rows, view.offset + view.limit)
<1>0. \/ page = <<>> /\ view' = [view EXCEPT !.ended = TRUE]
      \/ /\ page # <<>>
         /\ view' = [view EXCEPT !.offset = view.offset + view.limit, !.seen = view.seen \cup ids,
                                 !.cut = view.cut \cup cuts]
  BY <1>1, Zenon
<1>2. view \in Walk
  BY <1>1 DEF QInv, WalkSound
<1>3. /\ view.offset \in Nat /\ view.limit \in LIMITS /\ view.limit \in Nat \ {0} /\ view.asNgo \in BOOLEAN
      /\ view.ended = FALSE /\ view.seen \in SUBSET Nat /\ view.cut \in SUBSET Nat
  BY <1>1, <1>2, LimitFacts DEF Walk
<1>4. SoundTable(table) /\ IsFiniteSet(hidden) /\ hidden \subseteq Nat
  BY TableSound, IdsFacts
<1>5. SoundTable(Live(table)) /\ rows \in Seq(Live(table)) /\ DOMAIN rows = 1..Len(rows)
  <2>1. SoundTable(Live(table))
    BY <1>4, LiveFacts
  <2>2. rows \in BestFirst(Live(table), [g \in Live(table) |-> g.collected])
    BY DEF NewestFirst
  <2> QED
    BY <2>1, <2>2, BestFirstFacts DEF SoundTable
<1> HIDE DEF page
<1>6. ids \in SUBSET Nat
  <2>1. page \in Seq(Live(table))
    BY <1>3, <1>5, PageFacts DEF page
  <2>2. ToSet(page) \subseteq Live(table)
    BY <2>1 DEF ToSet
  <2> QED
    BY <1>5, <2>2, IdsFacts DEF Ids
<1>7. cuts \in SUBSET Nat
  <2>1. \A i \in DOMAIN rows : rows[i].collected \in Nat
    <3> TAKE i \in DOMAIN rows
    <3>1. rows[i] \in Live(table)
      BY <1>5
    <3> QED
      BY <1>5, <3>1, GrantFacts DEF SoundTable
  <2> QED
    BY <2>1 DEF CutAt
<1> HIDE DEF ids, cuts
<1>8. ASSUME NEW g \in Live(table), g.id \in view.from, g.collected \notin view.cut
      PROVE  \/ g.id \in view.seen \/ (view.asNgo = TRUE /\ g.id \in hidden)
             \/ /\ page = <<>> => view.asNgo = TRUE /\ ~(Cardinality(hidden) < 2 * view.limit)
                /\ \/ g.id \in ids
                   \/ view.offset + view.limit <= Cardinality(Over(table, g.collected))
                   \/ g.collected \in cuts
  <2> SUFFICES ASSUME g.id \notin view.seen, ~(view.asNgo = TRUE /\ g.id \in hidden)
               PROVE  /\ page = <<>> => view.asNgo = TRUE /\ ~(Cardinality(hidden) < 2 * view.limit)
                      /\ \/ g.id \in ids
                         \/ view.offset + view.limit <= Cardinality(Over(table, g.collected))
                         \/ g.collected \in cuts
    OBVIOUS
  <2>1. view.offset <= Cardinality(Over(table, g.collected))
    BY <1>1, <1>3, <1>8 DEF QInv, WalkSound, Met
  <2>3. ~(view.asNgo /\ g.id \in hidden)
    BY <1>3
  <2>4. /\ page = <<>> => view.asNgo /\ ~(Cardinality(hidden) < 2 * view.limit)
        /\ \/ g \in ToSet(page)
           \/ view.offset + view.limit <= Cardinality(Over(table, g.collected))
           \/ g.collected \in CutAt(rows, view.offset + view.limit)
    BY <1>3, <1>4, <2>1, <2>3, PageMeets DEF page
  <2> QED
    BY <1>3, <2>4 DEF ids, cuts, Ids
<1>9. CASE page = <<>>
  <2>1. view' = [view EXCEPT !.ended = TRUE]
    BY <1>9, <1>0
  <2>2. /\ view' \in Walk /\ view'.kind = "walk" /\ view'.ended = TRUE /\ view'.asNgo = view.asNgo
        /\ view'.from = view.from /\ view'.cut = view.cut /\ view'.seen = view.seen
        /\ view'.limit = view.limit
    BY <1>2, <2>1 DEF Walk
  <2>3. \A g \in Live(table) : g.id \in view.from /\ g.collected \notin view.cut => Met(g, view', hidden, table)
    BY <1>8, <1>9, <2>2 DEF Met
  <2>4. view.from \subseteq Ids(Live(table))
    BY <1>1 DEF QInv, WalkSound
  <2>5. WalkSound'
    BY <1>1, <2>2, <2>3, <2>4 DEF WalkSound
  <2>6. QueriesTypeOK'
    BY <1>1, <2>2 DEF QInv, QueriesTypeOK, KINDS
  <2>7. ToldSound' /\ AskEarnsItsTier' /\ GradedSound'
    BY <2>2 DEF ToldSound, AskEarnsItsTier, GradedSound
  <2> QED
    BY <2>5, <2>6, <2>7 DEF QInv
<1>10. CASE page # <<>>
  <2> DEFINE o == view.offset + view.limit
             s == view.seen \cup ids
             c == view.cut \cup cuts
  <2>1. view' = [view EXCEPT !.offset = o, !.seen = s, !.cut = c]
    BY <1>10, <1>0
  <2>2. o \in Nat /\ s \in SUBSET Nat /\ c \in SUBSET Nat
    <3>1. \A x, y \in Nat : x + y \in Nat
      OBVIOUS
    <3>2. o \in Nat
      BY <1>3, <3>1, Zenon
    <3>3. s \in SUBSET Nat /\ c \in SUBSET Nat
      BY <1>3, <1>6, <1>7, Zenon
    <3> QED
      BY <3>2, <3>3
  <2>3. \A g \in Live(table) : g.id \in view.from /\ g.collected \notin c =>
            g.id \in s \/ (view.asNgo = TRUE /\ g.id \in hidden) \/ o <= Cardinality(Over(table, g.collected))
    BY <1>8
  <2> HIDE DEF o, s, c
  <2>4. /\ view' \in Walk /\ view'.kind = "walk" /\ view'.ended = view.ended /\ view'.asNgo = view.asNgo
        /\ view'.from = view.from /\ view'.cut = c /\ view'.seen = s /\ view'.offset = o
    BY <1>2, <2>1, <2>2 DEF Walk
  <2>5. \A g \in Live(table) : g.id \in view.from /\ g.collected \notin c => Met(g, view', hidden, table)
    BY <1>3, <2>3, <2>4 DEF Met
  <2>6. view.from \subseteq Ids(Live(table))
    BY <1>1 DEF QInv, WalkSound
  <2>7. WalkSound'
    BY <1>1, <2>4, <2>5, <2>6 DEF WalkSound
  <2>8. QueriesTypeOK'
    BY <1>1, <2>4 DEF QInv, QueriesTypeOK, KINDS
  <2>9. ToldSound' /\ AskEarnsItsTier' /\ GradedSound'
    BY <2>4 DEF ToldSound, AskEarnsItsTier, GradedSound
  <2> QED
    BY <2>7, <2>8, <2>9 DEF QInv
<1> QED
  BY <1>9, <1>10

LEMMA StartScoresStep == QInv /\ StartScores => QInv'
<1> SUFFICES ASSUME QInv, NEW g \in table, view' = [kind |-> "scores", id |-> g.id, told |-> {}],
                    table' = table, hidden' = hidden
             PROVE  QInv'
  BY DEF StartScores
<1>1. view'.kind = "scores" /\ view'.id = g.id /\ view'.told = {}
  OBVIOUS
<1>2. QueriesTypeOK'
  BY <1>1 DEF QInv, QueriesTypeOK, KINDS
<1>3. ToldSound'
  BY <1>1 DEF ToldSound
<1>4. WalkSound' /\ AskEarnsItsTier' /\ GradedSound'
  BY <1>1 DEF WalkSound, AskEarnsItsTier, GradedSound
<1> QED
  BY <1>2, <1>3, <1>4 DEF QInv

LEMMA LeaveStep == QInv /\ Leave => QInv'
<1> SUFFICES ASSUME QInv, view' = Idle, table' = table, hidden' = hidden
             PROVE  QInv'
  BY DEF Leave
<1>1. QueriesTypeOK'
  BY DEF QInv, QueriesTypeOK, KINDS, Idle
<1> QED
  BY <1>1, IdleSound

LEMMA GradeStep == QInv /\ Grade => QInv'
<1> SUFFICES ASSUME QInv, NEW s \in SHARES,
                    view' = [kind |-> "graded", shares |-> s, match |-> GradeOf(s)],
                    table' = table, hidden' = hidden
             PROVE  QInv'
  BY DEF Grade, GradeOf
<1> HIDE DEF GradeOf
<1>1. view'.kind = "graded" /\ view'.shares = s /\ view'.match = GradeOf(s)
  OBVIOUS
<1>2. QueriesTypeOK'
  BY <1>1 DEF QInv, QueriesTypeOK, KINDS
<1>3. GradedSound'
  BY <1>1 DEF GradedSound
<1>4. WalkSound' /\ ToldSound' /\ AskEarnsItsTier'
  BY <1>1 DEF WalkSound, ToldSound, AskEarnsItsTier
<1> QED
  BY <1>2, <1>3, <1>4 DEF QInv

LEMMA QueriesUnchanged == QInv /\ UNCHANGED queryVars => QInv'
<1> SUFFICES ASSUME QInv, table' = table, hidden' = hidden, view' = view PROVE QInv'
  BY DEF queryVars
<1>1. QueriesTypeOK'
  BY DEF QInv, QueriesTypeOK
<1>2. WalkSound'
  BY DEF QInv, WalkSound
<1>3. ToldSound'
  BY DEF QInv, ToldSound
<1>4. AskEarnsItsTier'
  BY DEF QInv, AskEarnsItsTier
<1>5. GradedSound'
  BY DEF QInv, GradedSound
<1> QED
  BY <1>1, <1>2, <1>3, <1>4, <1>5 DEF QInv

-----------------------------------------------------------------------------
(* Queries: the score of a grant, from its shares.                         *)

(* The anchors of the curve: its score before, and after.                  *)
Pre(k) == Anchors[k][1]
Post(k) == Anchors[k][2]

LEMMA AnchorValues ==
    /\ Len(Anchors) = 18
    /\ Pre(1) = 0 /\ Post(1) = 0
    /\ Pre(2) = 5 /\ Post(2) = 8
    /\ Pre(3) = 10 /\ Post(3) = 16
    /\ Pre(4) = 15 /\ Post(4) = 24
    /\ Pre(5) = 20 /\ Post(5) = 33
    /\ Pre(6) = 25 /\ Post(6) = 38
    /\ Pre(7) = 30 /\ Post(7) = 48
    /\ Pre(8) = 35 /\ Post(8) = 58
    /\ Pre(9) = 40 /\ Post(9) = 68
    /\ Pre(10) = 45 /\ Post(10) = 76
    /\ Pre(11) = 50 /\ Post(11) = 83
    /\ Pre(12) = 55 /\ Post(12) = 87
    /\ Pre(13) = 60 /\ Post(13) = 90
    /\ Pre(14) = 65 /\ Post(14) = 93
    /\ Pre(15) = 70 /\ Post(15) = 97
    /\ Pre(16) = 80 /\ Post(16) = 99
    /\ Pre(17) = 90 /\ Post(17) = 100
    /\ Pre(18) = 100 /\ Post(18) = 100
  BY DEF Anchors, Pre, Post

LEMMA AnchorFacts ==
    /\ \A k \in 1..18 : Pre(k) \in Nat /\ Post(k) \in Nat
    /\ \A k \in 1..17 : Pre(k + 1) - Pre(k) \in {5, 10} /\ Post(k) <= Post(k + 1)
    /\ \A k \in 1..18 : \A l \in 1..18 : k < l => Pre(k) < Pre(l) /\ Post(k) <= Post(l)
<1>1. \A k \in 1..18 : \/ k = 1 \/ k = 2 \/ k = 3 \/ k = 4 \/ k = 5 \/ k = 6 \/ k = 7 \/ k = 8 \/ k = 9
                       \/ k = 10 \/ k = 11 \/ k = 12 \/ k = 13 \/ k = 14 \/ k = 15 \/ k = 16 \/ k = 17 \/ k = 18
  OBVIOUS
<1>2. \A k \in 1..18 : Pre(k) \in Nat /\ Post(k) \in Nat
  BY <1>1, AnchorValues
<1>3. \A k \in 1..17 : Pre(k + 1) - Pre(k) \in {5, 10} /\ Post(k) <= Post(k + 1)
  BY <1>1, AnchorValues
<1>4. \A k \in 1..18 : \A l \in 1..18 : k < l => Pre(k) < Pre(l) /\ Post(k) <= Post(l)
  BY <1>1, AnchorValues
<1> QED
  BY <1>2, <1>3, <1>4

LEMMA MulMono ==
    ASSUME NEW a \in Nat, NEW b \in Nat, NEW c \in Nat, a <= b
    PROVE  a * c \in Nat /\ b * c \in Nat /\ a * c <= b * c
<1>1. PICK d \in Nat : b = a + d
  <2>1. b - a \in Nat /\ b = a + (b - a)
    BY SMT
  <2> QED
    BY <2>1, SMT
<1>2. a * c \in Nat /\ d * c \in Nat /\ (a + d) * c = a * c + d * c
  BY SMT
<1> QED
  BY <1>1, <1>2, SMT

LEMMA DivMono ==
    ASSUME NEW d \in {5, 10}, NEW a \in Nat, NEW b \in Nat, a <= b
    PROVE  a \div d \in Nat /\ a \div d <= b \div d
<1>1. a \div 5 \in Nat /\ a \div 5 <= b \div 5
  BY SMT
<1>2. a \div 10 \in Nat /\ a \div 10 <= b \div 10
  BY SMT
<1>3. CASE d = 5
  BY <1>1, <1>3, SMT
<1>4. CASE d = 10
  BY <1>2, <1>4, SMT
<1> QED
  BY <1>3, <1>4, SMT

Within(k, raw) == 2000 * Pre(k) <= raw /\ raw <= 2000 * Pre(k + 1)
OnSegment(k, raw) ==
    20000 * Post(k) + ((raw - 2000 * Pre(k)) * (Post(k + 1) - Post(k)) * 10) \div (Pre(k + 1) - Pre(k))

LEMMA CurveSegment ==
    ASSUME NEW raw \in Nat, raw <= 200000
    PROVE  \E k \in 1..17 : Within(k, raw) /\ LeniencyCurve(raw) = OnSegment(k, raw)
<1> DEFINE Fits(i) == 2000 * Anchors[i][1] <= raw /\ raw <= 2000 * Anchors[i + 1][1]
           chosen == CHOOSE i \in 1..(Len(Anchors) - 1) : Fits(i)
<1>1. \A i : Fits(i) <=> Within(i, raw)
  BY SMT DEF Within, Pre
<1>2. Len(Anchors) = 18
  BY AnchorValues, SMT
<1>3. \E i \in 1..17 : Within(i, raw)
  <2> SUFFICES ASSUME \A i \in 1..17 : ~Within(i, raw) PROVE FALSE
    BY SMT
  <2> QED
    BY AnchorValues, SMT DEF Within
<1>4. LeniencyCurve(raw) = OnSegment(chosen, raw)
  BY SMT DEF LeniencyCurve, OnSegment, Pre, Post
<1> HIDE DEF Fits
<1> DEFINE places == 1..(Len(Anchors) - 1)
<1>5. \A i \in 1..17 : i \in places
  BY <1>2, SMT
<1>6. \A i \in places : i \in 1..17
  BY <1>2, SMT
<1> HIDE DEF places
<1>7. \E i \in places : Fits(i)
  BY <1>1, <1>3, <1>5, SMT
<1>8. chosen \in places /\ Fits(chosen)
  BY <1>7, SMT DEF places
<1> HIDE DEF chosen
<1>9. chosen \in 1..17 /\ Within(chosen, raw)
  BY <1>1, <1>6, <1>8, SMT
<1> QED
  BY <1>4, <1>9, SMT

LEMMA SegmentMono ==
    ASSUME NEW k \in 1..17, NEW x \in Nat, NEW y \in Nat, Within(k, x), Within(k, y), x <= y
    PROVE  OnSegment(k, x) <= OnSegment(k, y) /\ OnSegment(k, x) \in Nat
<1> DEFINE a == x - 2000 * Pre(k)
           b == y - 2000 * Pre(k)
           r == Post(k + 1) - Post(k)
           d == Pre(k + 1) - Pre(k)
<1>1. Pre(k) \in Nat /\ Post(k) \in Nat /\ Post(k + 1) \in Nat /\ d \in {5, 10} /\ r \in Nat
  <2>1. k \in 1..18 /\ k + 1 \in 1..18
    BY SMT
  <2>2. Pre(k) \in Nat /\ Post(k) \in Nat /\ Post(k + 1) \in Nat /\ d \in {5, 10} /\ Post(k) <= Post(k + 1)
    BY <2>1, AnchorFacts, SMT
  <2> QED
    BY <2>2, SMT
<1>2. a \in Nat /\ b \in Nat /\ a <= b
  BY <1>1, SMT DEF Within
<1> HIDE DEF a, b, r, d
<1>3. a * r \in Nat /\ b * r \in Nat /\ a * r <= b * r
  BY <1>1, <1>2, MulMono, SMT
<1> DEFINE p == a * r
           q == b * r
<1>4. p \in Nat /\ q \in Nat /\ p <= q
  BY <1>3, SMT
<1> HIDE DEF p, q
<1>5. p * 10 \in Nat /\ q * 10 \in Nat /\ p * 10 <= q * 10
  BY <1>4, SMT
<1>6. (p * 10) \div d \in Nat /\ (q * 10) \div d \in Nat /\ (p * 10) \div d <= (q * 10) \div d
  <2>1. (p * 10) \div d \in Nat /\ (p * 10) \div d <= (q * 10) \div d
    BY <1>1, <1>5, DivMono, SMT
  <2>2. (q * 10) \div d \in Nat
    <3>1. q * 10 <= q * 10
      BY <1>5, SMT
    <3> QED
      BY <1>1, <1>5, <3>1, DivMono, SMT
  <2> QED
    BY <2>1, <2>2, SMT
<1>7. OnSegment(k, x) = 20000 * Post(k) + (p * 10) \div d /\ OnSegment(k, y) = 20000 * Post(k) + (q * 10) \div d
  BY SMT DEF OnSegment, p, q, a, b, r, d
<1> QED
  BY <1>1, <1>6, <1>7, SMT

LEMMA SegmentBounds ==
    ASSUME NEW k \in 1..17, NEW x \in Nat, Within(k, x)
    PROVE  20000 * Post(k) <= OnSegment(k, x) /\ OnSegment(k, x) <= 20000 * Post(k + 1) /\ OnSegment(k, x) \in Nat
<1> DEFINE r == Post(k + 1) - Post(k)
           d == Pre(k + 1) - Pre(k)
           lo == 2000 * Pre(k)
           hi == 2000 * Pre(k + 1)
<1>1. /\ Pre(k) \in Nat /\ Pre(k + 1) \in Nat /\ Post(k) \in Nat /\ Post(k + 1) \in Nat
      /\ d \in {5, 10} /\ r \in Nat
  <2>1. k \in 1..18 /\ k + 1 \in 1..18
    BY SMT
  <2>2. /\ Pre(k) \in Nat /\ Pre(k + 1) \in Nat /\ Post(k) \in Nat /\ Post(k + 1) \in Nat /\ d \in {5, 10}
        /\ Post(k) <= Post(k + 1)
    BY <2>1, AnchorFacts, SMT
  <2> QED
    BY <2>2, SMT
<1>2. lo \in Nat /\ hi \in Nat /\ lo <= x /\ x <= hi /\ Within(k, lo) /\ Within(k, hi)
  BY <1>1, SMT DEF Within
<1>3. OnSegment(k, lo) <= OnSegment(k, x) /\ OnSegment(k, x) <= OnSegment(k, hi) /\ OnSegment(k, x) \in Nat
  BY <1>2, SegmentMono, SMT
<1>4. OnSegment(k, lo) = 20000 * Post(k)
  <2>1. (lo - 2000 * Pre(k)) * r * 10 = 0
    BY <1>1, SMT
  <2>2. 0 \div d = 0
    BY <1>1, SMT
  <2> QED
    BY <1>1, <2>1, <2>2, SMT DEF OnSegment
<1>5. OnSegment(k, hi) = 20000 * Post(k + 1)
  <2>1. hi - 2000 * Pre(k) = 2000 * d
    BY <1>1, SMT
  <2>2. ((2000 * d) * r * 10) \div d = 20000 * r
    <3>1. ((2000 * 5) * r * 10) \div 5 = 20000 * r
      BY <1>1, SMT
    <3>2. ((2000 * 10) * r * 10) \div 10 = 20000 * r
      BY <1>1, SMT
    <3> QED
      BY <1>1, <3>1, <3>2, SMT
  <2>3. OnSegment(k, hi) = 20000 * Post(k) + 20000 * r
    BY <2>1, <2>2, SMT DEF OnSegment
  <2> QED
    BY <1>1, <2>3, SMT
<1> QED
  BY <1>3, <1>4, <1>5, SMT

(* A better score before the curve is none worse after it.                 *)
LEMMA CurveMono ==
    ASSUME NEW x \in Nat, NEW y \in Nat, x <= y, y <= 200000
    PROVE  LeniencyCurve(x) <= LeniencyCurve(y) /\ LeniencyCurve(x) \in Nat /\ LeniencyCurve(x) <= 2000000
<1>1. PICK k \in 1..17 : Within(k, x) /\ LeniencyCurve(x) = OnSegment(k, x)
  BY CurveSegment, SMT
<1>2. PICK l \in 1..17 : Within(l, y) /\ LeniencyCurve(y) = OnSegment(l, y)
  BY CurveSegment, SMT
<1>3. x \in Nat /\ y \in Nat /\ k \in 1..18 /\ k + 1 \in 1..18 /\ l \in 1..18 /\ l + 1 \in 1..18
  BY SMT
<1>4. /\ 20000 * Post(k) <= OnSegment(k, x) /\ OnSegment(k, x) <= 20000 * Post(k + 1)
      /\ OnSegment(k, x) \in Nat
  BY <1>1, <1>3, SegmentBounds, SMT
<1>5. 20000 * Post(l) <= OnSegment(l, y) /\ OnSegment(l, y) \in Nat
  BY <1>2, <1>3, SegmentBounds, SMT
<1>6. /\ Pre(k) \in Nat /\ Pre(l) \in Nat /\ Pre(l + 1) \in Nat
      /\ Post(k + 1) \in Nat /\ Post(l) \in Nat /\ Post(k + 1) <= Post(18) /\ Post(18) = 100
  <2>1. k + 1 < 18 \/ k + 1 = 18
    BY <1>3, SMT
  <2> QED
    BY <1>3, <2>1, AnchorFacts, AnchorValues, SMT
<1>7. LeniencyCurve(x) \in Nat /\ LeniencyCurve(x) <= 2000000
  BY <1>1, <1>4, <1>6, SMT
<1>8. CASE k = l
  BY <1>1, <1>2, <1>3, <1>7, <1>8, SegmentMono, SMT
<1>9. CASE k < l
  <2>1. Post(k + 1) <= Post(l)
    <3>1. k + 1 < l \/ k + 1 = l
      BY <1>9, SMT
    <3> QED
      BY <1>3, <1>6, <3>1, AnchorFacts, SMT
  <2> QED
    BY <1>1, <1>2, <1>4, <1>5, <1>6, <2>1, SMT
<1>10. CASE l < k
  <2>1. Pre(l + 1) <= Pre(k)
    <3>1. l + 1 < k \/ l + 1 = k
      BY <1>10, SMT
    <3> QED
      BY <1>3, <1>6, <3>1, AnchorFacts, SMT
  <2>2. y <= x
    BY <1>1, <1>2, <1>6, <2>1, SMT DEF Within
  <2>3. x = y
    BY <1>3, <2>2, SMT
  <2> QED
    BY <1>7, <2>3, SMT
<1> QED
  BY <1>7, <1>8, <1>9, <1>10, SMT

LEMMA MulCancel ==
    ASSUME NEW a \in Int, NEW b \in Int, NEW c \in Nat \ {0}
    PROVE  /\ a <= b => a * c <= b * c
           /\ a * c <= b * c => a <= b
<1>1. ASSUME a <= b PROVE a * c <= b * c
  <2>1. b - a \in Nat /\ b = a + (b - a)
    BY <1>1, SMT
  <2> DEFINE d == b - a
  <2>2. d * c \in Nat /\ b * c = a * c + d * c
    BY <2>1, SMT
  <2>3. a * c \in Int /\ b * c \in Int
    BY SMT
  <2> HIDE DEF d
  <2> QED
    BY <2>2, <2>3, SMT
<1>2. ASSUME a * c <= b * c, ~(a <= b) PROVE FALSE
  <2>1. a - b - 1 \in Nat /\ a = b + (a - b - 1) + 1
    BY <1>2, SMT
  <2> DEFINE d == a - b - 1
  <2>2. d * c \in Nat /\ a * c = b * c + d * c + c
    BY <2>1, SMT
  <2>3. a * c \in Int /\ b * c \in Int
    BY SMT
  <2> HIDE DEF d
  <2> QED
    BY <1>2, <2>2, <2>3, SMT
<1> QED
  BY <1>1, <1>2, SMT

LEMMA Euclid ==
    ASSUME NEW n \in Nat, NEW d \in Nat \ {0}
    PROVE  /\ n \div d \in Nat /\ n % d \in Nat /\ n % d < d
           /\ n = d * (n \div d) + (n % d)
  BY SMT

(* Rounding errs by at most a half, and when it errs by a half the result  *)
(* is even.                                                                *)
Rounds(r, n, d) ==
    /\ r \in Nat /\ 2 * (r * d) - 2 * n <= d /\ 2 * n - 2 * (r * d) <= d
    /\ (2 * (r * d) - 2 * n = d \/ 2 * n - 2 * (r * d) = d) => r % 2 = 0

Divisors == {1000, 20000, 40000, 340000, 400000}

LEMMA RoundFacts ==
    ASSUME NEW n \in Nat, NEW d \in Divisors
    PROVE  Rounds(Round(n, d), n, d)
<1> DEFINE q == n \div d
           m == n % d
           r == Round(n, d)
<1>1. q \in Nat /\ m \in Nat /\ m < d /\ n = d * q + m /\ d \in Nat
  <2>1. d \in Nat \ {0}
    BY SMT DEF Divisors
  <2> QED
    BY <2>1, Euclid, SMT
<1>2. r = IF 2 * m > d \/ (2 * m = d /\ q % 2 = 1) THEN q + 1 ELSE q
  BY SMT DEF Round
<1> HIDE DEF q, m, r
<1>3. r = q \/ r = q + 1
  BY <1>2, SMT
<1>4. d * q \in Nat /\ (r = q => r * d = d * q) /\ (r = q + 1 => r * d = d * q + d)
  BY <1>1, SMT
<1> DEFINE p == d * q
<1>5. p \in Nat /\ (r = q => r * d = p) /\ (r = q + 1 => r * d = p + d) /\ n = p + m
  BY <1>1, <1>4, SMT
<1> HIDE DEF p
<1> DEFINE e == r * d
<1>6. e \in Nat /\ (r = q => e = p) /\ (r = q + 1 => e = p + d)
  BY <1>1, <1>3, <1>5, SMT
<1> HIDE DEF e
<1>7. /\ r \in Nat /\ 2 * e - 2 * n <= d /\ 2 * n - 2 * e <= d
      /\ (2 * e - 2 * n = d \/ 2 * n - 2 * e = d) => r % 2 = 0
  <2>1. CASE 2 * m > d
    BY <1>1, <1>2, <1>5, <1>6, <2>1, SMT
  <2>2. CASE 2 * m = d
    BY <1>1, <1>2, <1>5, <1>6, <2>2, SMT
  <2>3. CASE 2 * m < d
    BY <1>1, <1>2, <1>5, <1>6, <2>3, SMT
  <2> QED
    BY <1>1, <2>1, <2>2, <2>3, SMT
<1> QED
  BY <1>7, SMT DEF r, e, Rounds

LEMMA RoundMono ==
    ASSUME NEW x \in Nat, NEW y \in Nat, x <= y
    PROVE  Round(x, 20000) <= Round(y, 20000) /\ Round(x, 20000) \in Nat
<1> DEFINE q == x \div 20000
           m == x % 20000
           u == y \div 20000
           v == y % 20000
<1>1. /\ q \in Nat /\ m \in Nat /\ m < 20000 /\ x = 20000 * q + m
      /\ u \in Nat /\ v \in Nat /\ v < 20000 /\ y = 20000 * u + v
  BY SMT
<1>2. /\ Round(x, 20000) = IF 2 * m > 20000 \/ (2 * m = 20000 /\ q % 2 = 1) THEN q + 1 ELSE q
      /\ Round(y, 20000) = IF 2 * v > 20000 \/ (2 * v = 20000 /\ u % 2 = 1) THEN u + 1 ELSE u
  BY SMT DEF Round
<1> HIDE DEF q, m, u, v
<1>3. q < u \/ (q = u /\ m <= v)
  BY <1>1, SMT
<1> QED
  BY <1>1, <1>2, <1>3, SMT

(* The points of one part: the exact share of the curved score, c * curved *)
(* / raw, is rounded from thousandths, and errs by at most a half.         *)
Apportions(p, c, curved, raw) ==
    LET err == 1000 * (p * raw) - c * curved
    IN  /\ p \in Nat /\ err \in Int /\ 0 - 500 * raw <= err /\ err <= 500 * raw
        /\ (err = 500 * raw \/ err = 0 - 500 * raw) => p % 2 = 0

LEMMA ScaledFacts ==
    ASSUME NEW c \in Nat, NEW curved \in Nat, NEW raw \in Nat \ {0}
    PROVE  Apportions(Scaled(c, curved, raw), c, curved, raw)
<1> DEFINE q == curved \div raw
           s == curved % raw
           u == (c * s) \div raw
           v == (c * s) % raw
           whole == c * q + u
           p == Scaled(c, curved, raw)
           z == 1000 * p - whole
<1>1. q \in Nat /\ s \in Nat /\ curved = raw * q + s
  BY Euclid, SMT
<1>2. c * s \in Nat
  <2> HIDE DEF s
  <2> QED
    BY <1>1, SMT
<1>3. u \in Nat /\ v \in Nat /\ v < raw /\ c * s = raw * u + v
  <2> DEFINE cs == c * s
  <2> HIDE DEF cs
  <2>1. cs \in Nat
    BY <1>2 DEF cs
  <2>2. cs \div raw \in Nat /\ cs % raw \in Nat /\ cs % raw < raw /\ cs = raw * (cs \div raw) + (cs % raw)
    BY <2>1, Euclid
  <2> QED
    BY <2>2 DEF cs
<1>4. p = IF whole % 1000 = 500 /\ v > 0 THEN whole \div 1000 + 1 ELSE Round(whole, 1000)
  BY SMT DEF Scaled
<1> HIDE DEF q, s, u, v
<1>5. whole \in Nat
  BY <1>1, <1>3, SMT
<1>6. c * curved = raw * whole + v
  <2>1. c * curved = c * (raw * q) + c * s
    BY <1>1, SMT
  <2>2. c * (raw * q) = raw * (c * q)
    BY <1>1, SMT
  <2>3. raw * whole = raw * (c * q) + raw * u
    BY <1>1, <1>3, SMT
  <2>4. c * curved \in Nat /\ raw * (c * q) \in Nat /\ raw * u \in Nat /\ c * (raw * q) \in Nat
    BY <1>1, <1>3, SMT
  <2> HIDE DEF whole
  <2> QED
    BY <1>2, <1>3, <1>5, <2>1, <2>2, <2>3, <2>4, SMT
<1> HIDE DEF whole, p
<1>7. /\ p \in Nat /\ 0 - 500 <= z /\ z <= 500
      /\ z = 500 /\ v = 0 => p % 2 = 0
      /\ z = 0 - 500 => p % 2 = 0 /\ v = 0
  <2>1. CASE whole % 1000 = 500 /\ v > 0
    <3>1. p = whole \div 1000 + 1
      BY <1>4, <2>1, SMT
    <3> QED
      BY <1>5, <2>1, <3>1, SMT
  <2>2. CASE ~(whole % 1000 = 500 /\ v > 0)
    <3>1. p = Round(whole, 1000)
      BY <1>4, <2>2, SMT
    <3>2. p = IF 2 * (whole % 1000) > 1000 \/ (2 * (whole % 1000) = 1000 /\ (whole \div 1000) % 2 = 1)
              THEN whole \div 1000 + 1 ELSE whole \div 1000
      BY <3>1, SMT DEF Round
    <3> QED
      BY <1>3, <1>5, <2>2, <3>2, SMT
  <2> QED
    BY <2>1, <2>2, SMT
<1>8. z \in Int
  BY <1>5, <1>7, SMT
<1> DEFINE rz == z * raw
<1>9. 1000 * (p * raw) - c * curved = rz - v /\ rz \in Int
  <2>1. z * raw = 1000 * (p * raw) - raw * whole
    BY <1>5, <1>7, SMT
  <2>2. p * raw \in Nat /\ raw * whole \in Nat /\ c * curved \in Nat
    BY <1>5, <1>7, SMT
  <2> HIDE DEF z
  <2>3. z * raw \in Int
    BY <1>8, SMT
  <2> QED
    BY <1>3, <1>6, <2>1, <2>2, <2>3, SMT
<1> HIDE DEF z
<1>10. rz <= 500 * raw /\ (z < 500 => rz <= 499 * raw)
       /\ 0 - 500 * raw <= rz /\ (0 - 500 < z => 0 - 499 * raw <= rz)
  <2>1. \A a, b \in Int : a <= b => a * raw <= b * raw
    BY MulCancel
  <2>2. 500 \in Int /\ 499 \in Int /\ 0 - 500 \in Int /\ 0 - 499 \in Int
    BY SMT
  <2>3. rz <= 500 * raw
    BY <1>7, <1>8, <2>1, <2>2, SMT
  <2>4. ASSUME z < 500 PROVE rz <= 499 * raw
    <3>1. z <= 499
      BY <1>8, <2>4, SMT
    <3> QED
      BY <1>8, <2>1, <2>2, <3>1, SMT
  <2>5. (0 - 500) * raw <= rz
    BY <1>7, <1>8, <2>1, <2>2, SMT
  <2>6. ASSUME 0 - 500 < z PROVE (0 - 499) * raw <= rz
    <3>1. 0 - 499 <= z
      BY <1>8, <2>6, SMT
    <3> QED
      BY <1>8, <2>1, <2>2, <3>1, SMT
  <2>7. (0 - 500) * raw = 0 - 500 * raw /\ (0 - 499) * raw = 0 - 499 * raw
    BY SMT
  <2> HIDE DEF rz
  <2> QED
    BY <2>3, <2>4, <2>5, <2>6, <2>7, SMT
<1> DEFINE err == 1000 * (p * raw) - c * curved
<1>11. err = rz - v
  BY <1>9, SMT
<1> HIDE DEF rz, err
<1>12. /\ err \in Int /\ 0 - 500 * raw <= err /\ err <= 500 * raw
       /\ (err = 500 * raw \/ err = 0 - 500 * raw) => p % 2 = 0
  <2>1. 0 - 500 < z \/ (v = 0 /\ p % 2 = 0)
    BY <1>7, <1>8, SMT
  <2>2. err \in Int /\ 0 - 500 * raw <= err /\ err <= 500 * raw
    BY <1>3, <1>9, <1>10, <1>11, <2>1, SMT
  <2>3. ASSUME err = 500 * raw PROVE p % 2 = 0
    <3>1. rz > 499 * raw /\ v = 0
      BY <1>3, <1>9, <1>10, <1>11, <2>3, SMT
    <3>2. z = 500
      BY <1>7, <1>8, <1>9, <1>10, <3>1, SMT
    <3> QED
      BY <1>7, <3>1, <3>2, SMT
  <2>4. ASSUME err = 0 - 500 * raw PROVE p % 2 = 0
    BY <1>3, <1>9, <1>10, <1>11, <2>1, <2>4, SMT
  <2> QED
    BY <2>2, <2>3, <2>4, SMT
<1> QED
  BY <1>7, <1>12, SMT DEF err, p, Apportions

-----------------------------------------------------------------------------
(* Queries: a score as a whole.                                            *)

Multipliers == {2, 17, 20}

RawOf(r, o, g, d, m) == (40 * r + 35 * o + 150 * g + 100 * d) * m

LEMMA MatchFields ==
    ASSUME NEW r, NEW o, NEW g, NEW d, NEW m
    PROVE  LET b == BuildMatchScore(r, o, g, d, m)
               raw == RawOf(r, o, g, d, m)
           IN  /\ b.score_100 = Round(LeniencyCurve(raw), 20000) /\ b.tier = TierOf(b.score_100)
               /\ b.penalty = Round((20 - m) * LeniencyCurve(raw), m * 20000)
               /\ b.points[1] = PointsOf(40 * r, raw) /\ b.points[2] = PointsOf(35 * o, raw)
               /\ b.points[3] = PointsOf(150 * g, raw) /\ b.points[4] = PointsOf(100 * d, raw)
  BY SMT DEF BuildMatchScore, RawOf

Shared(r, o, g, d) == /\ r \in Nat /\ r <= 100 /\ o \in Nat /\ o <= 100
                      /\ g \in Nat /\ 4 <= g /\ g <= 10 /\ d \in Nat /\ d <= 10

LEMMA RawFacts ==
    ASSUME NEW r, NEW o, NEW g, NEW d, Shared(r, o, g, d), NEW m \in Multipliers
    PROVE  /\ RawOf(r, o, g, d, m) \in Nat \ {0} /\ RawOf(r, o, g, d, m) <= 200000
           /\ m = 2 => RawOf(r, o, g, d, m) <= 20000
<1> DEFINE c == 40 * r + 35 * o + 150 * g + 100 * d
<1>1. c \in Nat /\ 600 <= c /\ c <= 10000
  BY SMT DEF Shared
<1>2. RawOf(r, o, g, d, m) = c * m
  BY SMT DEF RawOf
<1> HIDE DEF c
<1>3. CASE m = 2
  BY <1>1, <1>2, <1>3, SMT
<1>4. CASE m = 17
  BY <1>1, <1>2, <1>4, SMT
<1>5. CASE m = 20
  BY <1>1, <1>2, <1>5, SMT
<1> QED
  BY <1>3, <1>4, <1>5, SMT DEF Multipliers

LEMMA ScoreFacts ==
    ASSUME NEW r, NEW o, NEW g, NEW d, Shared(r, o, g, d), NEW m \in Multipliers
    PROVE  /\ BuildMatchScore(r, o, g, d, m).score_100 \in Nat
           /\ LeniencyCurve(RawOf(r, o, g, d, m)) \in Nat
<1> DEFINE raw == RawOf(r, o, g, d, m)
<1>1. raw \in Nat /\ raw <= 200000
  BY RawFacts, SMT
<1> HIDE DEF raw
<1>2. LeniencyCurve(raw) \in Nat
  BY <1>1, CurveMono, SMT
<1>3. Round(LeniencyCurve(raw), 20000) \in Nat
  BY <1>2, RoundMono, SMT
<1>4. BuildMatchScore(r, o, g, d, m).score_100 = Round(LeniencyCurve(raw), 20000)
  BY MatchFields, SMT DEF raw
<1> QED
  BY <1>2, <1>3, <1>4, SMT DEF raw

(* With a better similarity, or a better multiplier, the score before the  *)
(* curve is no lower.                                                      *)
LEMMA ScoreMono ==
    ASSUME NEW r, NEW q, NEW o, NEW g, NEW d, Shared(r, o, g, d), Shared(q, o, g, d),
           NEW m \in Multipliers, NEW n \in Multipliers,
           RawOf(r, o, g, d, m) <= RawOf(q, o, g, d, n)
    PROVE  BuildMatchScore(r, o, g, d, m).score_100 <= BuildMatchScore(q, o, g, d, n).score_100
<1> DEFINE x == RawOf(r, o, g, d, m)
           y == RawOf(q, o, g, d, n)
<1>1. x \in Nat /\ y \in Nat /\ x <= y /\ y <= 200000 /\ x <= 200000
  BY RawFacts, SMT
<1>2. /\ BuildMatchScore(r, o, g, d, m).score_100 = Round(LeniencyCurve(x), 20000)
      /\ BuildMatchScore(q, o, g, d, n).score_100 = Round(LeniencyCurve(y), 20000)
  BY MatchFields, SMT
<1> HIDE DEF x, y
<1>3. LeniencyCurve(x) <= LeniencyCurve(y) /\ LeniencyCurve(x) \in Nat
  BY <1>1, CurveMono, SMT
<1>4. LeniencyCurve(y) \in Nat
  <2>1. y <= y
    BY <1>1, SMT
  <2> QED
    BY <1>1, <2>1, CurveMono, SMT
<1>5. Round(LeniencyCurve(x), 20000) <= Round(LeniencyCurve(y), 20000)
  BY <1>3, <1>4, RoundMono, SMT
<1> QED
  BY <1>2, <1>5, SMT

LEMMA TierFacts ==
    ASSUME NEW score \in Nat
    PROVE  /\ TierOf(score) \in STRONG_TIERS => score >= 75
           /\ score < 30 => TierOf(score) = "minimal"
<1> DEFINE First(i) == Tiers[i][1] <= score /\ \A j \in 1..(i - 1) : Tiers[j][1] > score
           chosen == CHOOSE i \in DOMAIN Tiers : First(i)
<1>1. /\ DOMAIN Tiers = 1..7 /\ Tiers[1] = <<95, "exceptional">> /\ Tiers[2] = <<85, "very_strong">>
      /\ Tiers[3] = <<75, "strong">> /\ Tiers[4] = <<65, "good">> /\ Tiers[5] = <<50, "moderate">>
      /\ Tiers[6] = <<30, "low">> /\ Tiers[7] = <<0, "minimal">>
  BY SMT DEF Tiers
<1>2. TierOf(score) = Tiers[chosen][2]
  BY SMT DEF TierOf
<1>3. \E i \in 1..7 : First(i)
  <2>1. CASE score >= 95
    <3>1. First(1)
      BY <1>1, <2>1, SMT
    <3> QED
      BY <3>1, SMT
  <2>2. CASE score < 95 /\ score >= 85
    <3>1. First(2)
      BY <1>1, <2>2, SMT
    <3> QED
      BY <3>1, SMT
  <2>3. CASE score < 85 /\ score >= 75
    <3>1. First(3)
      BY <1>1, <2>3, SMT
    <3> QED
      BY <3>1, SMT
  <2>4. CASE score < 75 /\ score >= 65
    <3>1. First(4)
      BY <1>1, <2>4, SMT
    <3> QED
      BY <3>1, SMT
  <2>5. CASE score < 65 /\ score >= 50
    <3>1. First(5)
      BY <1>1, <2>5, SMT
    <3> QED
      BY <3>1, SMT
  <2>6. CASE score < 50 /\ score >= 30
    <3>1. First(6)
      BY <1>1, <2>6, SMT
    <3> QED
      BY <3>1, SMT
  <2>7. CASE score < 30
    <3>1. First(7)
      BY <1>1, <2>7, SMT
    <3> QED
      BY <3>1, SMT
  <2> QED
    BY <2>1, <2>2, <2>3, <2>4, <2>5, <2>6, <2>7, SMT
<1>4. chosen \in DOMAIN Tiers /\ First(chosen)
  BY <1>1, <1>3, SMT
<1> HIDE DEF chosen
<1>5. chosen \in 1..7 /\ Tiers[chosen][1] <= score
  BY <1>1, <1>4, SMT
<1>6. TierOf(score) \in STRONG_TIERS => score >= 75
  BY <1>1, <1>2, <1>5, SMT DEF STRONG_TIERS
<1>7. score < 30 => TierOf(score) = "minimal"
  BY <1>1, <1>2, <1>5, SMT
<1> QED
  BY <1>6, <1>7, SMT

(* The points of the four parts, before the penalty, against the curved    *)
(* score v.                                                                *)
PointsSum(c1, c2, c3, c4, v, raw) ==
    Scaled(c1, v, raw) + Scaled(c2, v, raw) + Scaled(c3, v, raw) + Scaled(c4, v, raw)

RawSum(c1, c2, c3, c4, m) == (c1 + c2 + c3 + c4) * m

Adds(S, v, m) ==
    /\ S \in Nat /\ 0 - 2000 * m <= 1000 * (m * S) - v /\ 1000 * (m * S) - v <= 2000 * m
    /\ (1000 * (m * S) - v = 2000 * m \/ 1000 * (m * S) - v = 0 - 2000 * m) => S % 2 = 0

LEMMA PointsFacts ==
    ASSUME NEW c1 \in Nat, NEW c2 \in Nat, NEW c3 \in Nat, NEW c4 \in Nat, NEW m \in Multipliers,
           NEW raw \in Nat \ {0}, raw = RawSum(c1, c2, c3, c4, m), NEW v \in Nat
    PROVE  Adds(PointsSum(c1, c2, c3, c4, v, raw), v, m)
<1> DEFINE p1 == Scaled(c1, v, raw)
           p2 == Scaled(c2, v, raw)
           p3 == Scaled(c3, v, raw)
           p4 == Scaled(c4, v, raw)
           e1 == 1000 * (p1 * raw) - c1 * v
           e2 == 1000 * (p2 * raw) - c2 * v
           e3 == 1000 * (p3 * raw) - c3 * v
           e4 == 1000 * (p4 * raw) - c4 * v
           S == p1 + p2 + p3 + p4
           C == c1 + c2 + c3 + c4
           E == e1 + e2 + e3 + e4
           x == 1000 * (m * S) - v
<1>0. m \in Nat
  BY SMT DEF Multipliers
<1>1. /\ p1 \in Nat /\ e1 \in Int /\ 0 - 500 * raw <= e1 /\ e1 <= 500 * raw
      /\ (e1 = 500 * raw \/ e1 = 0 - 500 * raw) => p1 % 2 = 0
  <2>1. Apportions(p1, c1, v, raw)
    BY ScaledFacts, SMT
  <2> HIDE DEF p1
  <2> QED
    BY <2>1, SMT DEF Apportions
<1>2. /\ p2 \in Nat /\ e2 \in Int /\ 0 - 500 * raw <= e2 /\ e2 <= 500 * raw
      /\ (e2 = 500 * raw \/ e2 = 0 - 500 * raw) => p2 % 2 = 0
  <2>1. Apportions(p2, c2, v, raw)
    BY ScaledFacts, SMT
  <2> HIDE DEF p2
  <2> QED
    BY <2>1, SMT DEF Apportions
<1>3. /\ p3 \in Nat /\ e3 \in Int /\ 0 - 500 * raw <= e3 /\ e3 <= 500 * raw
      /\ (e3 = 500 * raw \/ e3 = 0 - 500 * raw) => p3 % 2 = 0
  <2>1. Apportions(p3, c3, v, raw)
    BY ScaledFacts, SMT
  <2> HIDE DEF p3
  <2> QED
    BY <2>1, SMT DEF Apportions
<1>4. /\ p4 \in Nat /\ e4 \in Int /\ 0 - 500 * raw <= e4 /\ e4 <= 500 * raw
      /\ (e4 = 500 * raw \/ e4 = 0 - 500 * raw) => p4 % 2 = 0
  <2>1. Apportions(p4, c4, v, raw)
    BY ScaledFacts, SMT
  <2> HIDE DEF p4
  <2> QED
    BY <2>1, SMT DEF Apportions
<1> HIDE DEF p1, p2, p3, p4
<1>5. S \in Nat /\ C \in Nat /\ raw = C * m /\ x \in Int
  <2>1. S \in Nat /\ C \in Nat
    BY <1>1, <1>2, <1>3, <1>4, SMT
  <2> HIDE DEF S, C
  <2>2. m * S \in Nat
    BY <1>0, <2>1, SMT
  <2> QED
    BY <1>0, <2>1, <2>2, SMT DEF C, RawSum
<1>6. E = 1000 * (S * raw) - C * v
  <2>1. /\ p1 * raw \in Nat /\ p2 * raw \in Nat /\ p3 * raw \in Nat /\ p4 * raw \in Nat
        /\ c1 * v \in Nat /\ c2 * v \in Nat /\ c3 * v \in Nat /\ c4 * v \in Nat
    BY <1>1, <1>2, <1>3, <1>4, SMT
  <2>2. S * raw = p1 * raw + p2 * raw + p3 * raw + p4 * raw
    BY <1>1, <1>2, <1>3, <1>4, SMT
  <2>3. C * v = c1 * v + c2 * v + c3 * v + c4 * v
    BY SMT
  <2> QED
    BY <2>1, <2>2, <2>3, SMT DEF Multipliers
<1> HIDE DEF e1, e2, e3, e4
<1>7. E \in Int /\ 0 - 2000 * raw <= E /\ E <= 2000 * raw
      /\ (E = 2000 * raw \/ E = 0 - 2000 * raw => S % 2 = 0)
  <2>1. E \in Int /\ 0 - 2000 * raw <= E /\ E <= 2000 * raw
    BY <1>1, <1>2, <1>3, <1>4, SMT
  <2>2. ASSUME E = 2000 * raw \/ E = 0 - 2000 * raw PROVE S % 2 = 0
    <3>1. p1 % 2 = 0 /\ p2 % 2 = 0 /\ p3 % 2 = 0 /\ p4 % 2 = 0
      BY <1>1, <1>2, <1>3, <1>4, <2>2, SMT
    <3> QED
      BY <1>1, <1>2, <1>3, <1>4, <3>1, SMT
  <2> QED
    BY <2>1, <2>2, SMT
<1> HIDE DEF S, C, E
<1>8. m * E = x * raw
  <2>1. m * (C * v) = raw * v
    BY <1>0, <1>5, SMT
  <2>2. m * (S * raw) = (m * S) * raw
    BY <1>0, <1>5, SMT
  <2> DEFINE a == S * raw
             b == C * v
             w == m * S
  <2>3. a \in Nat /\ b \in Nat /\ w \in Nat
    BY <1>0, <1>5, SMT
  <2>4. x * raw = 1000 * (w * raw) - v * raw
    <3> HIDE DEF w
    <3>1. (1000 * w - v) * raw = 1000 * (w * raw) - v * raw
      BY <2>3, SMT
    <3> QED
      BY <3>1, SMT DEF w
  <2>5. m * a = w * raw /\ m * b = v * raw /\ E = 1000 * a - b
    BY <1>6, <2>1, <2>2, SMT
  <2> HIDE DEF a, b, w, x
  <2>6. m * (1000 * a - b) = 1000 * (m * a) - m * b
    BY <1>0, <2>3, SMT
  <2> QED
    BY <2>4, <2>5, <2>6, SMT
<1> HIDE DEF x
<1>9. m * E <= (2000 * m) * raw /\ (0 - 2000 * m) * raw <= m * E
      /\ (m * E = (2000 * m) * raw => E = 2000 * raw)
      /\ (m * E = (0 - 2000 * m) * raw => E = 0 - 2000 * raw)
  <2>1. CASE m = 2
    BY <1>7, <2>1, SMT
  <2>2. CASE m = 17
    BY <1>7, <2>2, SMT
  <2>3. CASE m = 20
    BY <1>7, <2>3, SMT
  <2> QED
    BY <2>1, <2>2, <2>3, SMT DEF Multipliers
<1>10. x <= 2000 * m /\ 0 - 2000 * m <= x
  <2> DEFINE hi == 2000 * m
             lo == 0 - 2000 * m
  <2>1. hi \in Int /\ lo \in Int /\ raw \in Nat \ {0} /\ x \in Int
    BY <1>0, <1>5, SMT
  <2>2. x * raw <= hi * raw /\ lo * raw <= x * raw
    BY <1>8, <1>9, SMT
  <2> HIDE DEF hi, lo
  <2>3. x <= hi
    BY <2>1, <2>2, MulCancel, Zenon
  <2>4. lo <= x
    BY <2>1, <2>2, MulCancel, Zenon
  <2> QED
    BY <2>3, <2>4, SMT DEF hi, lo
<1>11. ASSUME x = 2000 * m \/ x = 0 - 2000 * m PROVE S % 2 = 0
  <2>1. m * E = (2000 * m) * raw \/ m * E = (0 - 2000 * m) * raw
    BY <1>8, <1>11, SMT
  <2> QED
    BY <1>7, <1>9, <2>1, SMT
<1> QED
  <2>1. Adds(S, v, m)
    BY <1>5, <1>10, <1>11, SMT DEF x, Adds
  <2> QED
    BY <2>1 DEF PointsSum, S, p1, p2, p3, p4

(* The points shown, less the penalty, are within two of the score.        *)
LEMMA GapFacts ==
    ASSUME NEW S \in Nat, NEW pen \in Nat, NEW s \in Nat, NEW v \in Nat, NEW m \in Multipliers,
           NEW n, n = (20 - m) * v, NEW D, D = m * 20000,
           Adds(S, v, m), Rounds(s, v, 20000), Rounds(pen, n, D)
    PROVE  S - pen - s \in -2 .. 2
<1> DEFINE gap == S - pen - s
<1>1. gap \in Int /\ -3 <= gap /\ gap <= 3
  <2>1. CASE m = 2
    BY <2>1, SMT DEF Adds, Rounds
  <2>2. CASE m = 17
    BY <2>2, SMT DEF Adds, Rounds
  <2>3. CASE m = 20
    BY <2>3, SMT DEF Adds, Rounds
  <2> QED
    BY <2>1, <2>2, <2>3, SMT DEF Multipliers
<1>2. ASSUME gap = 3 \/ gap = -3 PROVE S % 2 = 0 /\ pen % 2 = 0 /\ s % 2 = 0
  <2>1. CASE m = 2
    BY <1>2, <2>1, SMT DEF Adds, Rounds
  <2>2. CASE m = 17
    BY <1>2, <2>2, SMT DEF Adds, Rounds
  <2>3. CASE m = 20
    BY <1>2, <2>3, SMT DEF Adds, Rounds
  <2> QED
    BY <2>1, <2>2, <2>3, SMT DEF Multipliers
<1>3. gap # 3 /\ gap # -3
  <2> SUFFICES ASSUME gap = 3 \/ gap = -3 PROVE FALSE
    BY SMT
  <2>1. S % 2 = 0 /\ pen % 2 = 0 /\ s % 2 = 0
    BY <1>2, SMT
  <2> QED
    BY <2>1, SMT DEF Adds, Rounds
<1> QED
  BY <1>1, <1>3, SMT

GapOf(b) == b.points[1] + b.points[2] + b.points[3] + b.points[4] - b.penalty - b.score_100

LEMMA GapFair ==
    ASSUME NEW r, NEW o, NEW g, NEW d, Shared(r, o, g, d), NEW m \in Multipliers
    PROVE  GapOf(BuildMatchScore(r, o, g, d, m)) \in -2 .. 2
<1> DEFINE b == BuildMatchScore(r, o, g, d, m)
           raw == RawOf(r, o, g, d, m)
           v == LeniencyCurve(raw)
           c1 == 40 * r
           c2 == 35 * o
           c3 == 150 * g
           c4 == 100 * d
           S == b.points[1] + b.points[2] + b.points[3] + b.points[4]
           D == m * 20000
           n == (20 - m) * v
<1>1. raw \in Nat \ {0} /\ v \in Nat
  BY RawFacts, ScoreFacts, SMT
<1>2. c1 \in Nat /\ c2 \in Nat /\ c3 \in Nat /\ c4 \in Nat /\ raw = RawSum(c1, c2, c3, c4, m)
  BY SMT DEF Shared, RawOf, RawSum
<1>3. /\ b.points[1] = PointsOf(c1, raw) /\ b.points[2] = PointsOf(c2, raw)
      /\ b.points[3] = PointsOf(c3, raw) /\ b.points[4] = PointsOf(c4, raw)
      /\ b.score_100 = Round(v, 20000) /\ b.penalty = Round(n, D)
  BY MatchFields, SMT
<1> HIDE DEF raw, c1, c2, c3, c4
<1>4. \A c : PointsOf(c, raw) = Scaled(c, v, raw)
  BY <1>1, SMT DEF PointsOf
<1> HIDE DEF v, b
<1>5. S = PointsSum(c1, c2, c3, c4, v, raw)
  BY <1>3, <1>4, SMT DEF PointsSum
<1> HIDE DEF S
<1>6. Adds(S, v, m)
  <2>1. Adds(PointsSum(c1, c2, c3, c4, v, raw), v, m)
    BY <1>1, <1>2, PointsFacts
  <2> QED
    BY <1>5, <2>1, SMT
<1>7. 20000 \in Divisors /\ D \in Divisors
  BY SMT DEF Divisors, Multipliers
<1>8. n \in Nat
  <2>1. 20 - m \in Nat
    BY SMT DEF Multipliers
  <2> QED
    BY <1>1, <2>1, SMT
<1> HIDE DEF n, D
<1> DEFINE s == Round(v, 20000)
           pen == Round(n, D)
<1>9. Rounds(s, v, 20000)
  BY <1>1, <1>7, RoundFacts, SMT
<1>10. Rounds(pen, n, D)
  BY <1>7, <1>8, RoundFacts, SMT
<1>11. b.score_100 = s /\ b.penalty = pen
  BY <1>3, SMT
<1>12. b.points[1] \in Nat /\ b.points[2] \in Nat /\ b.points[3] \in Nat /\ b.points[4] \in Nat
  <2>1. \A c \in Nat : Scaled(c, v, raw) \in Nat
    BY <1>1, ScaledFacts, SMT DEF Apportions
  <2> QED
    BY <1>2, <1>3, <1>4, <2>1, SMT
<1>13. s \in Nat /\ pen \in Nat /\ S \in Nat
  <2> HIDE DEF s, pen
  <2> QED
    BY <1>6, <1>9, <1>10, SMT DEF Rounds, Adds
<1> HIDE DEF s, pen
<1>14. n = (20 - m) * v /\ D = m * 20000
  BY SMT DEF n, D
<1>15. S - pen - s \in -2 .. 2
  BY <1>1, <1>6, <1>9, <1>10, <1>13, <1>14, GapFacts
<1>16. GapOf(b) = S - pen - s
  BY <1>11, <1>12, <1>13, SMT DEF GapOf, S
<1> QED
  BY <1>15, <1>16, SMT DEF b

(* Whatever its similarity, a grant that excludes the NGO does not pass    *)
(* one that admits it, and has the lowest tier.                            *)
LEMMA ExcludedFair ==
    ASSUME NEW r, NEW o, NEW g, NEW d, Shared(r, o, g, d)
    PROVE  /\ BuildMatchScore(100, o, g, d, 2).score_100 <= BuildMatchScore(0, o, g, d, 20).score_100
           /\ BuildMatchScore(r, o, g, d, 2).tier = "minimal"
<1>1. Shared(100, o, g, d) /\ Shared(0, o, g, d)
  BY SMT DEF Shared
<1>2. RawOf(100, o, g, d, 2) <= RawOf(0, o, g, d, 20)
  BY SMT DEF Shared, RawOf
<1>3. 2 \in Multipliers /\ 20 \in Multipliers
  BY SMT DEF Multipliers
<1>4. BuildMatchScore(100, o, g, d, 2).score_100 <= BuildMatchScore(0, o, g, d, 20).score_100
  BY <1>1, <1>2, <1>3, ScoreMono, SMT
<1> DEFINE raw == RawOf(r, o, g, d, 2)
<1>5. raw \in Nat /\ raw <= 20000
  BY <1>3, RawFacts, SMT
<1>6. /\ BuildMatchScore(r, o, g, d, 2).score_100 = Round(LeniencyCurve(raw), 20000)
      /\ BuildMatchScore(r, o, g, d, 2).tier = TierOf(BuildMatchScore(r, o, g, d, 2).score_100)
  BY MatchFields, SMT
<1> HIDE DEF raw
<1>7. LeniencyCurve(raw) <= LeniencyCurve(20000) /\ LeniencyCurve(raw) \in Nat
  BY <1>5, CurveMono, SMT
<1>8. LeniencyCurve(20000) \in Nat /\ LeniencyCurve(20000) <= 320000
  <2>1. 20000 \in Nat /\ 20000 <= 200000
    BY SMT
  <2>2. PICK k \in 1..17 : Within(k, 20000) /\ LeniencyCurve(20000) = OnSegment(k, 20000)
    BY <2>1, CurveSegment, SMT
  <2>3. k = 2 \/ k = 3
    <3>1. k \in 1..18 /\ k + 1 \in 1..18 /\ Pre(k) \in Nat /\ Pre(k + 1) \in Nat
      BY AnchorFacts, SMT
    <3>2. Pre(k) <= 10 /\ 10 <= Pre(k + 1)
      BY <2>2, <3>1, SMT DEF Within
    <3>3. k < 2 => Pre(k + 1) <= 5
      BY AnchorValues, SMT
    <3>4. k > 3 => 15 <= Pre(k)
      <4>1. Pre(4) = 15 /\ 4 \in 1..18
        BY AnchorValues, SMT
      <4>2. k > 4 => Pre(4) < Pre(k)
        BY <3>1, <4>1, AnchorFacts, SMT
      <4> QED
        BY <3>1, <4>1, <4>2, SMT
    <3> QED
      BY <3>1, <3>2, <3>3, <3>4, SMT
  <2>4. CASE k = 2
    <3>1. 2 \in 1..17 /\ Within(2, 20000)
      BY <2>2, <2>4, SMT
    <3>2. OnSegment(2, 20000) <= 20000 * Post(3) /\ OnSegment(2, 20000) \in Nat
      <4>1. OnSegment(2, 20000) <= 20000 * Post(2 + 1) /\ OnSegment(2, 20000) \in Nat
        BY <2>1, <3>1, SegmentBounds, SMT
      <4> QED
        BY <4>1, SMT
    <3> QED
      BY <2>2, <2>4, <3>2, AnchorValues, SMT
  <2>5. CASE k = 3
    <3>1. OnSegment(3, 20000) = 320000
      BY AnchorValues, SMT DEF OnSegment
    <3> QED
      BY <2>2, <2>5, <3>1, SMT
  <2> QED
    BY <2>3, <2>4, <2>5, SMT
<1>9. Round(LeniencyCurve(raw), 20000) <= Round(320000, 20000) /\ Round(LeniencyCurve(raw), 20000) \in Nat
  <2>1. LeniencyCurve(raw) <= 320000
    BY <1>7, <1>8, SMT
  <2>2. 320000 \in Nat
    BY SMT
  <2> QED
    BY <1>7, <2>1, <2>2, RoundMono, SMT
<1>10. Round(320000, 20000) = 16
  BY SMT DEF Round
<1>11. BuildMatchScore(r, o, g, d, 2).tier = "minimal"
  <2>1. BuildMatchScore(r, o, g, d, 2).score_100 \in Nat /\ BuildMatchScore(r, o, g, d, 2).score_100 < 30
    BY <1>6, <1>9, <1>10, SMT
  <2> QED
    BY <1>6, <2>1, TierFacts, SMT
<1> QED
  BY <1>4, <1>11

LEMMA PercentFacts ==
    ASSUME NEW x
    PROVE  /\ x \in Percent => x \in Nat /\ x <= 100
           /\ x \in Nat /\ x <= 100 => x \in Percent
  BY SMT DEF Percent

LEMMA SharesFacts ==
    ASSUME NEW s \in SHARES
    PROVE  Shared(s.relevance, s.overlap, s.geography, s.deadline) /\ s.multiplier \in Multipliers
<1>1. s \in [relevance : Percent, overlap : Percent, geography : {4, 5, 6, 10},
             deadline : {0, 5, 6, 8, 10}, multiplier : {2, 17, 20}]
  BY QueriesAssumption
<1>2. /\ s.relevance \in Percent /\ s.overlap \in Percent /\ s.geography \in {4, 5, 6, 10}
      /\ s.deadline \in {0, 5, 6, 8, 10} /\ s.multiplier \in {2, 17, 20}
  BY <1>1
<1> QED
  BY <1>2, PercentFacts, SMT DEF Shared, Multipliers

-----------------------------------------------------------------------------
(* Queries: the overlap of a profile with a text.                          *)

(* What a matching term leaves of the remaining share.                     *)
Shrunk(x, y) == (x * y + 500000) \div 1000000
Factors == {y \in Nat : y <= 1000000}

LEMMA ShrunkFacts ==
    ASSUME NEW x \in Percent, NEW y \in Factors
    PROVE  Shrunk(x, y) \in Percent
<1>1. x \in Nat /\ x <= 100 /\ y \in Nat /\ y <= 1000000
  BY PercentFacts, SMT DEF Factors
<1>2. x * y \in Nat /\ x * y <= 100 * y
  <2>1. 100 \in Nat
    BY SMT
  <2> QED
    BY <1>1, <2>1, MulMono, SMT
<1> DEFINE z == x * y
<1>3. z \in Nat /\ z <= 100000000
  BY <1>1, <1>2, SMT
<1> HIDE DEF z
<1>4. (z + 500000) \div 1000000 \in Nat /\ (z + 500000) \div 1000000 <= 100
  BY <1>3, SMT
<1>5. Shrunk(x, y) \in Nat /\ Shrunk(x, y) <= 100
  BY <1>4, SMT DEF Shrunk, z
<1> QED
  BY <1>5, PercentFacts, SMT

(* The shares that remain, term after term, exist as a recursive function, *)
(* and are shares.                                                         *)
Shrinks(f, h, n) == f[0] = 100 /\ \A k \in 1..n : f[k] = Shrunk(f[k - 1], h[k])

LEMMA ShrinkingExists ==
    ASSUME NEW n \in Nat, NEW h \in [1..n -> Factors]
    PROVE  \E f \in [0..n -> Percent] : Shrinks(f, h, n)
<1> DEFINE Good(m) == \E f \in [0..m -> Percent] : Shrinks(f, h, m)
           Bad == {m \in 0..n : ~Good(m)}
<1> SUFFICES ASSUME Bad # {} PROVE FALSE
  BY SMT
<1>1. PICK m \in Bad : \A l \in Bad : m <= l
  <2>1. Bad \subseteq Nat
    BY SMT
  <2> HIDE DEF Bad
  <2> QED
    BY <2>1, Least
<1>2. m \in 0..n /\ ~Good(m)
  BY <1>1
<1>3. Good(0)
  <2> DEFINE f == [k \in 0..0 |-> 100]
  <2>1. 100 \in Percent
    BY PercentFacts, SMT
  <2>2. f \in [0..0 -> Percent] /\ Shrinks(f, h, 0)
    BY <2>1, SMT DEF Shrinks
  <2> QED
    BY <2>2
<1>4. m # 0 /\ m \in 1..n /\ m - 1 \in 0..n
  <2>1. m # 0
    BY <1>2, <1>3
  <2> QED
    BY <1>2, <2>1, SMT
<1>5. Good(m - 1)
  <2> SUFFICES ASSUME ~Good(m - 1) PROVE FALSE
    OBVIOUS
  <2>1. m - 1 \in Bad
    BY <1>4
  <2> HIDE DEF Bad, Good
  <2> QED
    BY <1>1, <1>4, <2>1, SMT
<1>6. PICK f \in [0..(m - 1) -> Percent] : Shrinks(f, h, m - 1)
  BY <1>5
<1> DEFINE g == [k \in 0..m |-> IF k = m THEN Shrunk(f[m - 1], h[m]) ELSE f[k]]
<1>7. \A k \in 0..m : k # m => k \in 0..(m - 1)
  BY <1>4, SMT
<1>8. Shrunk(f[m - 1], h[m]) \in Percent
  <2>1. f[m - 1] \in Percent /\ h[m] \in Factors
    BY <1>4, SMT
  <2> QED
    BY <2>1, ShrunkFacts
<1>9. g \in [0..m -> Percent]
  BY <1>7, <1>8
<1>10. Shrinks(g, h, m)
  <2>1. g[0] = 100
    BY <1>4, <1>6, SMT DEF Shrinks
  <2>2. ASSUME NEW k \in 1..m PROVE g[k] = Shrunk(g[k - 1], h[k])
    <3>1. k \in 0..m /\ k - 1 \in 0..m /\ k - 1 # m
      BY <1>4, SMT
    <3>2. g[k - 1] = f[k - 1] /\ (k # m => g[k] = f[k]) /\ (k = m => g[k] = Shrunk(f[m - 1], h[m]))
      BY <3>1
    <3>3. k # m => k \in 1..(m - 1)
      BY <1>4, SMT
    <3>4. k # m => f[k] = Shrunk(f[k - 1], h[k])
      BY <1>6, <3>3 DEF Shrinks
    <3> HIDE DEF g
    <3> QED
      BY <3>2, <3>4
  <2> QED
    BY <2>1, <2>2 DEF Shrinks
<1> QED
  BY <1>2, <1>9, <1>10

LEMMA ShrinkingStays ==
    ASSUME NEW n \in Nat, NEW h \in [1..n -> Factors], NEW f, Shrinks(f, h, n), NEW k \in 0..n
    PROVE  f[k] \in Percent
<1> DEFINE Bad == {m \in 0..n : f[m] \notin Percent}
<1> SUFFICES ASSUME Bad # {} PROVE FALSE
  OBVIOUS
<1>1. PICK m \in Bad : \A l \in Bad : m <= l
  <2>1. Bad \subseteq Nat
    BY SMT
  <2> HIDE DEF Bad
  <2> QED
    BY <2>1, Least
<1>2. m \in 0..n /\ f[m] \notin Percent
  BY <1>1
<1>3. m # 0
  <2>1. 100 \in Percent
    BY PercentFacts, SMT
  <2> QED
    BY <1>2, <2>1 DEF Shrinks
<1>4. m \in 1..n /\ m - 1 \in 0..n /\ ~ (m <= m - 1)
  BY <1>2, <1>3, SMT
<1>5. f[m - 1] \in Percent
  BY <1>1, <1>4
<1>6. f[m] = Shrunk(f[m - 1], h[m]) /\ h[m] \in Factors
  BY <1>4 DEF Shrinks
<1> QED
  BY <1>2, <1>5, <1>6, ShrunkFacts

Factor(term, text) == 1000000 - OVERLAP_MATCH_CAP * TermWeight(term) * TermMatch(term, text)

LEMMA TermFacts ==
    ASSUME NEW term, NEW text
    PROVE  Factor(term, text) \in Factors
<1>1. TermWeight(term) \in {25, 100}
  BY SMT DEF TermWeight
<1>2. TermMatch(term, text) \in {100, 85, 50, 0}
  BY DEF TermMatch
<1> HIDE DEF TermWeight, TermMatch
<1> QED
  BY <1>1, <1>2, SMT DEF Factors, Factor, OVERLAP_MATCH_CAP

LEMMA OverlapFacts ==
    ASSUME NEW T, NEW terms \in Seq(T), NEW text
    PROVE  ConceptOverlap(terms, text) \in Percent
<1> DEFINE n == Len(terms)
           h == [k \in 1..n |-> Factor(terms[k], text)]
           Is(f) == f = [k \in 0..n |-> IF k = 0 THEN 100 ELSE Shrunk(f[k - 1], Factor(terms[k], text))]
           remaining == CHOOSE f : Is(f)
<1>1. ConceptOverlap(terms, text) = 100 - remaining[n]
  BY SMT DEF ConceptOverlap, Factor, Shrunk
<1>2. n \in Nat
  OBVIOUS
<1>3. h \in [1..n -> Factors] /\ \A k \in 1..n : h[k] = Factor(terms[k], text)
  BY TermFacts
<1> HIDE DEF h, n
<1>4. PICK f \in [0..n -> Percent] : Shrinks(f, h, n)
  BY <1>2, <1>3, ShrinkingExists
<1>5. \A k \in 0..n : k # 0 => k \in 1..n
  BY <1>2, SMT
<1>6. Is(f)
  <2>1. \A k \in 0..n : f[k] = IF k = 0 THEN 100 ELSE Shrunk(f[k - 1], Factor(terms[k], text))
    <3> TAKE k \in 0..n
    <3>1. CASE k = 0
      BY <1>4, <3>1, Zenon DEF Shrinks
    <3>2. CASE k # 0
      <4>1. k \in 1..n
        BY <1>5, <3>2
      <4>2. f[k] = Shrunk(f[k - 1], h[k])
        BY <1>4, <4>1, Zenon DEF Shrinks
      <4> QED
        BY <1>3, <3>2, <4>1, <4>2, Zenon
    <3> QED
      BY <3>1, <3>2, Zenon
  <2>2. f = [k \in 0..n |-> f[k]]
    BY <1>4
  <2> QED
    BY <2>1, <2>2, Zenon
<1>7. Is(remaining)
  <2> HIDE DEF Is
  <2> QED
    BY <1>6
<1> HIDE DEF remaining
<1>8. Shrinks(remaining, h, n)
  <2>1. remaining[0] = 100
    <3>1. 0 \in 0..n
      BY <1>2, SMT
    <3> QED
      BY <1>7, <3>1, Zenon
  <2>2. \A k \in 1..n : k \in 0..n /\ k # 0
    BY <1>2, SMT
  <2>3. \A k \in 1..n : remaining[k] = Shrunk(remaining[k - 1], h[k])
    BY <1>3, <1>7, <2>2, Zenon
  <2> QED
    BY <2>1, <2>3 DEF Shrinks
<1>9. n \in 0..n
  BY <1>2, SMT
<1>10. remaining[n] \in Percent
  BY <1>2, <1>3, <1>8, <1>9, ShrinkingStays
<1> QED
  BY <1>1, <1>10, PercentFacts, SMT

LEMMA PartFacts ==
    ASSUME NEW type, NEW text, NEW locations, NEW g, NEW days
    PROVE  /\ EligibilityScore(CheckEligibility(type, text)) \in Multipliers
           /\ GeographyScore(locations, g) \in {4, 5, 6, 10}
           /\ DeadlineScore(days) \in {0, 5, 6, 8, 10}
<1>1. CheckEligibility(type, text) \in {"compatible", "unknown", "incompatible"}
  <2>1. CASE text = {}
    BY <2>1 DEF CheckEligibility
  <2>2. CASE text \cap HARD_EXCLUSION # {} /\ NONPROFIT \notin text
    <3>1. text # {}
      BY <2>2
    <3> QED
      BY <2>2, <3>1, Zenon DEF CheckEligibility
  <2>3. CASE text # {} /\ (text \cap HARD_EXCLUSION = {} \/ NONPROFIT \in text)
    BY <2>3, Zenon DEF CheckEligibility
  <2> QED
    BY <2>1, <2>2, <2>3
<1>2. EligibilityScore("compatible") = 20 /\ EligibilityScore("unknown") = 17
      /\ EligibilityScore("incompatible") = 2
  BY SMT DEF EligibilityScore
<1>3. EligibilityScore(CheckEligibility(type, text)) \in Multipliers
  BY <1>1, <1>2, SMT DEF Multipliers
<1>4. GeographyScore(locations, g) \in {4, 5, 6, 10}
  BY Zenon DEF GeographyScore
<1>5. DeadlineScore(days) \in {0, 5, 6, 8, 10}
  BY Zenon DEF DeadlineScore
<1> QED
  BY <1>3, <1>4, <1>5

-----------------------------------------------------------------------------
(* Queries: the pages that tell a score.                                   *)
Pool(t) == {g \in t : Recommendable(g)}

LEMMA CanonicalFacts ==
    ASSUME NEW t, t \subseteq Grants, NEW g \in DOMAIN Canonical(t, PROFILE)
    PROVE  /\ g \in t /\ Recommendable(g)
           /\ Canonical(t, PROFILE)[g].score_100 \in Nat
           /\ Canonical(t, PROFILE)[g].tier = TierOf(Canonical(t, PROFILE)[g].score_100)
<1> DEFINE pool == Pool(t)
           r == Relevance(Terms(PROFILE), g, pool)
           o == ConceptOverlap(Terms(PROFILE), g.text)
           geo == GeographyScore(PROFILE.locations, g)
           d == DeadlineScore(g.deadline)
           m == EligibilityScore(CheckEligibility(PROFILE.registration_type, g.eligibility))
<1>1. Canonical(t, PROFILE) = [x \in Ranked(pool, PROFILE) |-> MatchOf(x, PROFILE, pool)]
  BY DEF Canonical, Pool
<1>2. g \in pool /\ Ranked(pool, PROFILE) \subseteq pool
  BY <1>1 DEF Ranked
<1>3. g \in t /\ Recommendable(g) /\ pool \in SUBSET Grants
  BY <1>2 DEF Pool
<1>4. Canonical(t, PROFILE)[g] = BuildMatchScore(r, o, geo, d, m)
  BY <1>1 DEF MatchOf
<1>5. r \in Percent
  BY <1>2, <1>3, QueriesAssumption
<1>6. o \in Percent
  <2>1. Terms(PROFILE) \in Seq(ToSet(Terms(PROFILE)))
    BY QueriesAssumption
  <2> QED
    BY <2>1, OverlapFacts
<1>7. geo \in {4, 5, 6, 10} /\ d \in {0, 5, 6, 8, 10} /\ m \in Multipliers
  BY PartFacts
<1> HIDE DEF r, o, geo, d, m, pool
<1>8. Shared(r, o, geo, d)
  BY <1>5, <1>6, <1>7, PercentFacts, SMT DEF Shared
<1>9. BuildMatchScore(r, o, geo, d, m).score_100 \in Nat
  BY <1>7, <1>8, ScoreFacts
<1>10. BuildMatchScore(r, o, geo, d, m).tier = TierOf(BuildMatchScore(r, o, geo, d, m).score_100)
  BY MatchFields, SMT
<1> QED
  BY <1>3, <1>4, <1>9, <1>10

LEMMA TellStep ==
    ASSUME QInv, NEW page, NEW g \in table, NEW score, Tell(page, g, score),
           ToldOf([page |-> page, score |-> score], g, table)
    PROVE  QInv'
<1> DEFINE p == [page |-> page, score |-> score]
           told == view.told \cup {p}
<1>1. /\ view.kind = "scores" /\ view.id = g.id /\ table' = table /\ hidden' = hidden
      /\ view' = [view EXCEPT !.told = told]
  BY DEF Tell
<1>2. /\ view = [kind |-> "scores", id |-> view.id, told |-> view.told]
      /\ \A q \in view.told : \E h \in table : h.id = view.id /\ ToldOf(q, h, table)
  BY <1>1 DEF QInv, ToldSound
<1>3. \A q \in told : \E h \in table : h.id = view.id /\ ToldOf(q, h, table)
  <2>1. ToldOf(p, g, table)
    OBVIOUS
  <2> HIDE DEF p
  <2> QED
    BY <1>1, <1>2, <2>1
<1> HIDE DEF told
<1>4. view' = [kind |-> "scores", id |-> view.id, told |-> told]
  <2>1. \A i, old, new : [[kind |-> "scores", id |-> i, told |-> old] EXCEPT !.told = new]
                             = [kind |-> "scores", id |-> i, told |-> new]
    OBVIOUS
  <2>2. [view EXCEPT !.told = told] = [[kind |-> "scores", id |-> view.id, told |-> view.told] EXCEPT !.told = told]
    BY <1>2
  <2> QED
    BY <1>1, <2>1, <2>2
<1>5. view'.kind = "scores" /\ view'.id = view.id /\ view'.told = told
  BY <1>4
<1>6. QueriesTypeOK'
  BY <1>1, <1>5 DEF QInv, QueriesTypeOK, KINDS
<1>7. ToldSound'
  <2>1. view' = [kind |-> "scores", id |-> view'.id, told |-> view'.told]
    BY <1>4, <1>5
  <2>2. \A q \in view'.told : \E h \in table' : h.id = view'.id /\ ToldOf(q, h, table')
    BY <1>1, <1>3, <1>5
  <2> QED
    BY <2>1, <2>2 DEF ToldSound
<1>8. WalkSound' /\ AskEarnsItsTier' /\ GradedSound'
  BY <1>5 DEF WalkSound, AskEarnsItsTier, GradedSound
<1> QED
  BY <1>6, <1>7, <1>8 DEF QInv

LEMMA ShowRecommendedStep == QInv /\ ShowRecommended => QInv'
<1> SUFFICES ASSUME QInv, NEW limit \in LIMITS, NEW list \in Recommended(table, PROFILE, hidden, limit),
                    NEW g \in ToSet(list), Tell("recommended", g, Canonical(table, PROFILE)[g].score_100)
             PROVE  QInv'
  BY DEF ShowRecommended
<1> DEFINE canonical == Canonical(table, PROFILE)
           shown == {x \in DOMAIN canonical : x.id \notin hidden}
           value == [x \in shown |-> canonical[x].score_100]
<1>1. table \subseteq Grants /\ IsFiniteSet(table)
  BY TableSound DEF SoundTable
<1>2. PICK full \in BestFirst(shown, value) : list = FirstOf(full, limit)
  BY DEF Recommended
<1>3. shown \subseteq table /\ shown \subseteq DOMAIN canonical
  BY <1>1, CanonicalFacts
<1> HIDE DEF shown, value
<1>4. full \in Seq(shown)
  <2>1. IsFiniteSet(shown)
    BY <1>1, <1>3, FS_Subset
  <2> QED
    BY <1>2, <2>1, BestFirstFacts
<1>5. list \in Seq(shown)
  <2>1. limit \in Nat
    BY LimitFacts
  <2> QED
    BY <1>2, <1>4, <2>1, FirstOfFacts
<1>6. g \in shown
  BY <1>5 DEF ToSet
<1>7. ToldOf([page |-> "recommended", score |-> canonical[g].score_100], g, table)
  BY <1>3, <1>6 DEF ToldOf
<1> QED
  BY <1>3, <1>6, <1>7, TellStep

LEMMA ShowDetailStep == QInv /\ ShowDetail => QInv'
<1> SUFFICES ASSUME QInv, NEW g \in table, Tell("detail", g, DetailScore(table, PROFILE, g))
             PROVE  QInv'
  BY DEF ShowDetail
<1>1. ToldOf([page |-> "detail", score |-> DetailScore(table, PROFILE, g)], g, table)
  BY DEF ToldOf, DetailScore
<1> QED
  BY <1>1, TellStep

-----------------------------------------------------------------------------
(* Queries: searches, and Ask AI.                                          *)

(* What a search finds, of the grants in its window.                       *)
WindowPool(t, intent) == {g \in t : Recommendable(g) /\ InWindow(g, intent.within)}

ScoreIn(t, intent, g) ==
    IF intent.terms # <<>> THEN Relevance(intent.terms, g, WindowPool(t, intent)) ELSE 100

ResultOf(t, intent, g) ==
    [grant |-> g, score |-> ScoreIn(t, intent, g), relevance_known |-> intent.terms # <<>>,
     bucket |-> StatusBucket(g)]

Results(t, intent) == {ResultOf(t, intent, g) : g \in WindowPool(t, intent)}

LEMMA ResultFacts ==
    ASSUME NEW t, t \subseteq Grants, NEW intent \in Intents, NEW r \in Results(t, intent)
    PROVE  /\ r.grant \in t /\ Recommendable(r.grant)
           /\ r.relevance_known \in BOOLEAN
           /\ r.relevance_known => r.score \in Percent
<1>1. PICK g \in WindowPool(t, intent) : r = ResultOf(t, intent, g)
  BY DEF Results
<1>2. /\ r.grant = g /\ r.score = ScoreIn(t, intent, g)
      /\ r.relevance_known = (intent.terms # <<>>)
  BY <1>1 DEF ResultOf
<1>3. g \in t /\ Recommendable(g) /\ WindowPool(t, intent) \in SUBSET Grants
  BY DEF WindowPool
<1>4. intent.terms # <<>> => ScoreIn(t, intent, g) \in Percent
  BY <1>3, QueriesAssumption DEF ScoreIn
<1> QED
  BY <1>2, <1>3, <1>4

LEMMA SearchFacts ==
    ASSUME NEW t, t \subseteq Grants, IsFiniteSet(t), NEW intent \in Intents, NEW limit \in LIMITS,
           NEW found \in SearchGrants(t, intent, limit)
    PROVE  found \in Seq(Results(t, intent))
<1> DEFINE pool == WindowPool(t, intent)
           known == intent.terms # <<>>
           score == [g \in pool |-> IF known THEN Relevance(intent.terms, g, pool) ELSE 100]
           order == [g \in pool |-> IF known THEN score[g] ELSE 0 - g.deadline]
           Of(g) == [grant |-> g, score |-> score[g], relevance_known |-> known, bucket |-> StatusBucket(g)]
           ListOf(s) == [i \in DOMAIN s |-> Of(s[i])]
<1>1. SearchLive(t, intent, limit) =
          IF ~known /\ intent.within = None THEN {<<>>}
          ELSE {ListOf(FirstOf(list, 2 * limit)) : list \in BestFirst(pool, order)}
  BY Zenon DEF SearchLive, WindowPool
<1>2. pool \subseteq t /\ IsFiniteSet(pool)
  BY FS_Subset DEF WindowPool
<1>3. \A g \in pool : Of(g) = ResultOf(t, intent, g)
  <2>1. \A g \in pool : score[g] = ScoreIn(t, intent, g)
    BY DEF ScoreIn
  <2> HIDE DEF score
  <2> QED
    BY <2>1, Zenon DEF ResultOf
<1> HIDE DEF Of, order, pool, known
<1>4. limit \in Nat /\ 2 * limit \in Nat
  <2>1. limit \in Nat
    BY LimitFacts
  <2> QED
    BY <2>1, SMT
<1>5. ASSUME NEW list \in BestFirst(pool, order)
      PROVE  ListOf(FirstOf(list, 2 * limit)) \in Seq(Results(t, intent))
  <2> DEFINE s == FirstOf(list, 2 * limit)
             live == ListOf(s)
  <2>1. list \in Seq(pool)
    BY <1>2, BestFirstFacts
  <2>2. s \in Seq(pool)
    BY <1>4, <2>1, FirstOfFacts
  <2> HIDE DEF s
  <2>3. DOMAIN s = 1..Len(s) /\ Len(s) \in Nat /\ \A i \in 1..Len(s) : s[i] \in pool
    BY <2>2
  <2>4. \A i \in 1..Len(s) : Of(s[i]) \in Results(t, intent)
    BY <1>3, <2>3 DEF Results, pool
  <2>5. live = [i \in 1..Len(s) |-> Of(s[i])]
    BY <2>3
  <2> HIDE DEF live
  <2>6. live \in Seq(Results(t, intent))
    BY <2>3, <2>4, <2>5
  <2> QED
    BY <2>6 DEF live, s
<1> HIDE DEF ListOf
<1>6. PICK live \in SearchLive(t, intent, limit) :
          found = FirstOf(EntriesAt(live, {i \in DOMAIN live : live[i].score > 0}), limit)
  BY DEF SearchGrants
<1>7. live \in Seq(Results(t, intent))
  <2>1. CASE live = <<>>
    BY <2>1
  <2>2. CASE live # <<>>
    BY <1>1, <1>5, <1>6, <2>2
  <2> QED
    BY <2>1, <2>2
<1> DEFINE P == {i \in DOMAIN live : live[i].score > 0}
<1>8. P \in SUBSET DOMAIN live
  OBVIOUS
<1>9. found = FirstOf(EntriesAt(live, P), limit)
  BY <1>6
<1> HIDE DEF P
<1>10. EntriesAt(live, P) \in Seq(Results(t, intent))
  BY <1>7, <1>8, EntriesAtFacts
<1> QED
  BY <1>4, <1>9, <1>10, FirstOfFacts

(* Each item of an answer is made of a result.                             *)
LEMMA AskFacts ==
    ASSUME NEW t, t \subseteq Grants, IsFiniteSet(t), NEW intent \in Intents, NEW profile, NEW limit \in LIMITS,
           NEW items \in AskResults(t, intent, profile, limit)
    PROVE  /\ AskRaises(intent) \/ intent.scope = "historical" => items = <<>>
           /\ \A i \in DOMAIN items : \E r \in Results(t, intent) : items[i] = AskItem(t, profile, r)
<1>1. CASE AskRaises(intent) \/ intent.scope = "historical"
  <2>1. items = <<>>
    BY <1>1 DEF AskResults
  <2> QED
    BY <2>1
<1>2. CASE ~(AskRaises(intent) \/ intent.scope = "historical")
  <2>1. PICK found \in SearchGrants(t, intent, limit) :
            items = [i \in DOMAIN found |-> AskItem(t, profile, found[i])]
    BY <1>2 DEF AskResults
  <2>2. \A i \in DOMAIN found : found[i] \in Results(t, intent)
    <3>1. found \in Seq(Results(t, intent))
      BY SearchFacts
    <3> QED
      BY <3>1
  <2> QED
    BY <1>2, <2>1, <2>2
<1> QED
  BY <1>1, <1>2

LEMMA ItemFacts ==
    ASSUME NEW t, NEW profile, NEW r
    PROVE  LET canonical == IF profile = None THEN <<>> ELSE Canonical(t, profile)
               scored == profile # None /\ r.grant \in DOMAIN canonical
               item == AskItem(t, profile, r)
           IN  /\ item.result = r
               /\ scored => /\ item.tier = canonical[r.grant].tier
                            /\ item.score_100 = canonical[r.grant].score_100
               /\ ~scored => item.tier = MatchTier(r)
               /\ ~scored /\ r.relevance_known => item.score_100 = r.score
               /\ ~scored /\ ~r.relevance_known => item.score_100 = None
<1> DEFINE canonical == IF profile = None THEN <<>> ELSE Canonical(t, profile)
           scored == profile # None /\ r.grant \in DOMAIN canonical
           item == AskItem(t, profile, r)
<1>1. item = [result |-> r,
              tier |-> IF scored THEN canonical[r.grant].tier ELSE MatchTier(r),
              score_100 |-> CASE scored -> canonical[r.grant].score_100
                              [] ~scored /\ r.relevance_known -> r.score
                              [] OTHER -> None]
  BY Zenon DEF AskItem
<1> HIDE DEF item, scored, canonical
<1>2. /\ item.result = r
      /\ item.tier = IF scored THEN canonical[r.grant].tier ELSE MatchTier(r)
      /\ item.score_100 = CASE scored -> canonical[r.grant].score_100
                            [] ~scored /\ r.relevance_known -> r.score
                            [] OTHER -> None
  BY <1>1, Zenon
<1>3. scored => item.score_100 = canonical[r.grant].score_100
  BY <1>2, Zenon
<1>4. ~scored /\ r.relevance_known => item.score_100 = r.score
  BY <1>2, Zenon
<1>5. ~scored /\ ~r.relevance_known => item.score_100 = None
  BY <1>2, Zenon
<1> QED
  BY <1>2, <1>3, <1>4, <1>5, Zenon DEF item, scored, canonical

LEMMA ShowAskScoresStep == QInv /\ ShowAskScores => QInv'
<1> SUFFICES ASSUME QInv, NEW intent \in Intents, NEW limit \in LIMITS,
                    NEW items \in AskResults(table, intent, PROFILE, limit), NEW item \in ToSet(items),
                    Tell("ask", item.result.grant, item.score_100)
             PROVE  QInv'
  BY DEF ShowAskScores
<1>1. table \subseteq Grants /\ IsFiniteSet(table) /\ PROFILE # None
  BY TableSound, QueriesAssumption DEF SoundTable
<1>2. PICK r \in Results(table, intent) : item = AskItem(table, PROFILE, r)
  <2>1. PICK i \in DOMAIN items : item = items[i]
    BY DEF ToSet
  <2> QED
    BY <1>1, <2>1, AskFacts
<1>3. r.grant \in table /\ Recommendable(r.grant) /\ item.result = r
  BY <1>1, <1>2, ResultFacts, ItemFacts
<1>4. r.grant \in DOMAIN Canonical(table, PROFILE) =>
          item.score_100 = Canonical(table, PROFILE)[r.grant].score_100
  BY <1>1, <1>2, ItemFacts
<1>5. ToldOf([page |-> "ask", score |-> item.score_100], r.grant, table)
  BY <1>3, <1>4 DEF ToldOf
<1> QED
  BY <1>3, <1>5, TellStep

LEMMA AskStep == QInv /\ Ask => QInv'
<1> SUFFICES ASSUME QInv, NEW intent \in Intents, NEW profile \in {None, PROFILE}, NEW limit \in LIMITS,
                    NEW items \in AskResults(table, intent, profile, limit),
                    view' = [kind |-> "asked", scope |-> intent.scope, profile |-> profile, items |-> items,
                             outcome |-> IF AskRaises(intent) THEN "raises" ELSE "answers"],
                    table' = table, hidden' = hidden
             PROVE  QInv'
  BY DEF Ask
<1> DEFINE Canon(r) == profile # None /\ r.grant \in DOMAIN Canonical(table, PROFILE)
           Earned(item) ==
               /\ Recommendable(item.result.grant)
               /\ item.tier \in STRONG_TIERS =>
                      IF Canon(item.result) THEN item.score_100 >= 75
                      ELSE item.result.relevance_known /\ item.result.score >= 50
                           /\ item.result.grant.eligibility # {}
               /\ item.score_100 # None => Canon(item.result) \/ item.result.relevance_known
<1>1. table \subseteq Grants /\ IsFiniteSet(table) /\ PROFILE # None
  BY TableSound, QueriesAssumption DEF SoundTable
<1>2. /\ AskRaises(intent) \/ intent.scope = "historical" => items = <<>>
      /\ \A i \in DOMAIN items : \E r \in Results(table, intent) : items[i] = AskItem(table, profile, r)
  BY <1>1, AskFacts
<1>3. ASSUME NEW r \in Results(table, intent) PROVE Earned(AskItem(table, profile, r))
  <2> DEFINE item == AskItem(table, profile, r)
             canonical == Canonical(table, PROFILE)
  <2>1. /\ Recommendable(r.grant)
        /\ r.relevance_known \in BOOLEAN
        /\ r.relevance_known => r.score \in Percent
    BY <1>1, ResultFacts
  <2>2. item.result = r
    BY ItemFacts
  <2>3. CASE Canon(r)
    <3>1. profile = PROFILE /\ profile # None
      BY <2>3
    <3>2. item.tier = canonical[r.grant].tier /\ item.score_100 = canonical[r.grant].score_100
      BY <2>3, <3>1, ItemFacts
    <3> DEFINE score == canonical[r.grant].score_100
    <3>3. score \in Nat /\ canonical[r.grant].tier = TierOf(score)
      BY <1>1, <2>3, CanonicalFacts
    <3> HIDE DEF item, score, Canon
    <3>4. item.tier = TierOf(score) /\ item.score_100 = score
      BY <3>2, <3>3 DEF score
    <3>5. item.tier \in STRONG_TIERS => item.score_100 >= 75
      BY <3>3, <3>4, TierFacts, SMT
    <3> QED
      BY <2>1, <2>2, <2>3, <3>5 DEF item
  <2>4. CASE ~Canon(r)
    <3>1. /\ item.tier = MatchTier(r)
          /\ ~r.relevance_known => item.score_100 = None
      BY <2>4, ItemFacts
    <3>2. MatchTier(r) \in STRONG_TIERS => r.relevance_known /\ r.score >= 50 /\ r.grant.eligibility # {}
      <4>1. CASE r.grant.eligibility = {}
        BY <4>1 DEF MatchTier, STRONG_TIERS
      <4>2. CASE r.grant.eligibility # {} /\ ~r.relevance_known
        BY <4>2 DEF MatchTier, STRONG_TIERS
      <4>3. CASE r.grant.eligibility # {} /\ r.relevance_known
        <5>1. MatchTier(r) = IF r.score >= 50 THEN "strong" ELSE IF r.score >= 15 THEN "moderate" ELSE "low"
          BY <4>3, Zenon DEF MatchTier
        <5> QED
          BY <4>3, <5>1 DEF STRONG_TIERS
      <4> QED
        BY <2>1, <4>1, <4>2, <4>3
    <3> HIDE DEF item, Canon
    <3> QED
      BY <2>1, <2>2, <2>4, <3>1, <3>2 DEF item
  <2> QED
    BY <2>3, <2>4
<1>4. \A i \in DOMAIN items : Earned(items[i])
  <2> HIDE DEF Earned
  <2> QED
    BY <1>2, <1>3
<1>5. /\ view'.kind = "asked" /\ view'.scope = intent.scope /\ view'.profile = profile
      /\ view'.items = items /\ view'.outcome = IF AskRaises(intent) THEN "raises" ELSE "answers"
  OBVIOUS
<1>6. intent.scope = "historical" => items = <<>> /\ ~AskRaises(intent)
  <2>1. intent.method = "raises" => intent.scope = None
    BY DEF Intents, SearchIntent
  <2>2. None # "historical"
    BY QueriesAssumption
  <2> QED
    BY <1>2, <2>1, <2>2 DEF AskRaises
<1>7. AskEarnsItsTier'
  BY <1>4, <1>5, <1>6, Zenon DEF AskEarnsItsTier
<1>8. QueriesTypeOK'
  BY <1>5 DEF QInv, QueriesTypeOK, KINDS
<1>9. WalkSound' /\ ToldSound' /\ GradedSound'
  BY <1>5 DEF WalkSound, ToldSound, GradedSound
<1> QED
  BY <1>7, <1>8, <1>9 DEF QInv

LEMMA ScoreFairHolds == QInv => ScoreFair
<1> SUFFICES ASSUME QInv, view.kind = "graded" PROVE ScoreFair
  BY DEF ScoreFair
<1> DEFINE s == view.shares
           Of(r, k) == BuildMatchScore(r, s.overlap, s.geography, s.deadline, k)
           m == view.match
<1>1. s \in SHARES /\ m = Of(s.relevance, s.multiplier)
  BY DEF QInv, GradedSound, GradeOf
<1>2. Shared(s.relevance, s.overlap, s.geography, s.deadline) /\ s.multiplier \in Multipliers
  BY <1>1, SharesFacts
<1>3. GapOf(m) \in -2 .. 2
  <2>1. GapOf(Of(s.relevance, s.multiplier)) \in -2 .. 2
    BY <1>2, GapFair
  <2> QED
    BY <1>1, <2>1
<1>4. s.relevance < 100 => m.score_100 <= Of(s.relevance + 1, s.multiplier).score_100
  <2> SUFFICES ASSUME s.relevance < 100
               PROVE  Of(s.relevance, s.multiplier).score_100 <= Of(s.relevance + 1, s.multiplier).score_100
    BY <1>1
  <2> DEFINE r == s.relevance
             k == s.multiplier
             q == r + 1
  <2>1. Shared(q, s.overlap, s.geography, s.deadline)
    BY <1>2, SMT DEF Shared
  <2>2. RawOf(r, s.overlap, s.geography, s.deadline, k) <= RawOf(q, s.overlap, s.geography, s.deadline, k)
    BY <1>2, SMT DEF Shared, RawOf, Multipliers
  <2> HIDE DEF r, q, k
  <2>3. BuildMatchScore(r, s.overlap, s.geography, s.deadline, k).score_100
            <= BuildMatchScore(q, s.overlap, s.geography, s.deadline, k).score_100
    <3>1. Shared(r, s.overlap, s.geography, s.deadline) /\ k \in Multipliers
      BY <1>2 DEF r, k
    <3> QED
      BY <2>1, <2>2, <3>1, ScoreMono, SMT
  <2> QED
    BY <2>3 DEF r, q, k
<1>5. Of(100, 2).score_100 <= Of(0, 20).score_100
  BY <1>2, ExcludedFair, SMT
<1>6. s.multiplier = 2 => m.tier = "minimal"
  BY <1>1, <1>2, ExcludedFair
<1> QED
  BY <1>3, <1>4, <1>5, <1>6 DEF ScoreFair, GapOf

-----------------------------------------------------------------------------
(* Queries: the theorems.                                                  *)

LEMMA WalkHolds == QInv => WalkMissesNothing
<1> SUFFICES ASSUME QInv PROVE WalkMissesNothing
  OBVIOUS
<1>1. QueriesTypeOK
  BY DEF QInv
<1>2. ASSUME view.kind = "walk", view.ended, view.asNgo => Cardinality(hidden) < 2 * view.limit,
             NEW g \in Live(table), g.id \in view.from, g.collected \notin view.cut
      PROVE  g.id \in view.seen \/ (view.asNgo /\ g.id \in hidden)
  <2>1. view \in Walk /\ Met(g, view, hidden, table)
    BY <1>2 DEF QInv, WalkSound
  <2>2. view.ended = TRUE /\ view.asNgo \in BOOLEAN
    BY <1>2, <2>1 DEF Walk
  <2> QED
    BY <1>2, <2>1, <2>2, Zenon DEF Met
<1> QED
  BY <1>1, <1>2, Zenon DEF WalkMissesNothing

LEMMA AgreementHolds == QInv => SurfacesAgree
<1> SUFFICES ASSUME QInv, view.kind = "scores" PROVE SurfacesAgree
  BY DEF SurfacesAgree
<1>1. /\ SoundTable(table)
      /\ \A p \in view.told : \E g \in table : g.id = view.id /\ ToldOf(p, g, table)
  BY TableSound DEF QInv, ToldSound
<1>2. ASSUME NEW p \in view.told, NEW q \in view.told, p.score # q.score
      PROVE  /\ "ask" \in {p.page, q.page}
             /\ \A r \in view.told : r.page # "ask" => r.score = None
  <2>1. PICK g \in table : g.id = view.id /\ ToldOf(p, g, table)
    BY <1>1
  <2>2. \A r \in view.told : ToldOf(r, g, table)
    <3> TAKE r \in view.told
    <3>1. PICK h \in table : h.id = view.id /\ ToldOf(r, h, table)
      BY <1>1
    <3>2. h = g
      BY <1>1, <2>1, <3>1 DEF SoundTable, Unique
    <3> QED
      BY <3>1, <3>2
  <2>3. g \notin DOMAIN Canonical(table, PROFILE)
    BY <1>2, <2>2 DEF ToldOf
  <2>4. \A r \in view.told : r.page # "ask" => r.score = None
    BY <2>2, <2>3 DEF ToldOf
  <2> QED
    BY <1>2, <2>4
<1>3. ASSUME NEW p \in view.told, p.score # None
      PROVE  \E g \in table : g.id = view.id /\ Recommendable(g)
  <2>1. PICK g \in table : g.id = view.id /\ ToldOf(p, g, table)
    BY <1>1
  <2>2. Recommendable(g)
    <3>1. CASE g \in DOMAIN Canonical(table, PROFILE)
      BY <1>1, <3>1, CanonicalFacts DEF SoundTable
    <3>2. CASE g \notin DOMAIN Canonical(table, PROFILE)
      BY <1>3, <2>1, <3>2 DEF ToldOf
    <3> QED
      BY <3>1, <3>2
  <2> QED
    BY <2>1, <2>2
<1> QED
  BY <1>2, <1>3 DEF SurfacesAgree

LEMMA QueriesStep == QInv /\ [QueriesNext]_queryVars => QInv'
<1> SUFFICES ASSUME QInv, [QueriesNext]_queryVars PROVE QInv'
  OBVIOUS
<1>1. CASE Import
  BY <1>1, ImportStep
<1>2. CASE Change
  BY <1>2, ChangeStep
<1>3. CASE Hide
  BY <1>3, HideStep
<1>4. CASE StartWalk
  BY <1>4, StartWalkStep
<1>5. CASE NextPage
  BY <1>5, NextPageStep
<1>6. CASE StartScores
  BY <1>6, StartScoresStep
<1>7. CASE ShowRecommended
  BY <1>7, ShowRecommendedStep
<1>8. CASE ShowDetail
  BY <1>8, ShowDetailStep
<1>9. CASE ShowAskScores
  BY <1>9, ShowAskScoresStep
<1>10. CASE Ask
  BY <1>10, AskStep
<1>11. CASE Grade
  BY <1>11, GradeStep
<1>12. CASE Leave
  BY <1>12, LeaveStep
<1>13. CASE UNCHANGED queryVars
  BY <1>13, QueriesUnchanged
<1> QED
  BY <1>1, <1>2, <1>3, <1>4, <1>5, <1>6, <1>7, <1>8, <1>9, <1>10, <1>11, <1>12, <1>13 DEF QueriesNext

LEMMA QueriesInvariance == QueriesSpec => []QInv
<1>1. QueriesInit => QInv
  BY InitQInv
<1>2. QInv /\ [QueriesNext]_queryVars => QInv'
  BY QueriesStep
<1> QED
  BY <1>1, <1>2, PTL DEF QueriesSpec

(* A reader who asks for page after page (list_live_opportunities) until   *)
(* one is empty has seen every grant that the feed held at its start, that *)
(* did not leave it and that the NGO has not hidden, whatever came in      *)
(* meanwhile and in whatever order each reply lists rows of one date,      *)
(* unless a page ended between rows of the grant's date or hidden rows can *)
(* fill a page: for every table, page size and set of hidden grants.       *)
THEOREM FeedIsComplete == QueriesSpec => []WalkMissesNothing
<1>1. QInv => WalkMissesNothing
  BY WalkHolds
<1> QED
  BY <1>1, QueriesInvariance, PTL

(* Until the next sync the recommendations, a grant's page and Ask AI tell *)
(* one score for a grant that has a canonical one                          *)
(* (build_canonical_match_scores); of another Ask AI alone tells any; and  *)
(* none is told of a grant that must not be recommended, for every         *)
(* profile, table, question and similarity.                                *)
THEOREM ScoresAgree == QueriesSpec => []SurfacesAgree
<1>1. QInv => SurfacesAgree
  BY AgreementHolds
<1> QED
  BY <1>1, QueriesInvariance, PTL

(* An answer of Ask AI lists only grants that may be recommended, and a    *)
(* strong tier in it is earned: by a canonical score of at least 75 of a   *)
(* grant that has one, and else by a real similarity (compute_match_tier), *)
(* for every query and whatever the AI makes of it, well formed or not.    *)
THEOREM TiersAreEarned == QueriesSpec => []AskEarnsItsTier
<1>1. QInv => AskEarnsItsTier
  BY DEF QInv
<1> QED
  BY <1>1, QueriesInvariance, PTL

(* The points of build_match_score, less the penalty, add up to the score  *)
(* but for two points of rounding; a better similarity never lowers a      *)
(* score; and, all else equal, a grant that excludes the NGO does not      *)
(* outscore one that admits it, whatever their similarity: for all shares. *)
THEOREM ScoresAreFair == QueriesSpec => []ScoreFair
<1>1. QInv => ScoreFair
  BY ScoreFairHolds
<1> QED
  BY <1>1, QueriesInvariance, PTL

=============================================================================
