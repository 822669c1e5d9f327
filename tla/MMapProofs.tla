----------------------------- MODULE MMapProofs -----------------------------
(***************************************************************************)
(* The list of mappings, for regions, mappings and lists of every length:  *)
(* it stays in order, the binary search finds what is in it, and the calls *)
(* on it implement AddressSpace.                                           *)
(***************************************************************************)
EXTENDS MMap, TLAPS, WellFoundedInduction, SequenceTheorems

-----------------------------------------------------------------------------
(* Least numbers and lists *)

LEMMA MinIsLeast ==
    ASSUME NEW S \in SUBSET Nat, S # {}
    PROVE  Min(S) \in S /\ \A n \in S : Min(S) <= n
<1> DEFINE R == OpToRel(<, Nat)
<1>1. IsWellFoundedOn(R, Nat)
  BY NatLessThanWellFounded
<1>2. \A x, y \in Nat : x < y => <<x, y>> \in R
  BY DEF OpToRel
<1> HIDE DEF R
<1>3. \E x \in S : \A y \in S : ~ (<<y, x>> \in R)
  <2>1. S \subseteq Nat
    OBVIOUS
  <2>2. QED
    BY <1>1, <2>1, WFMin, Zenon
<1>4. \E x \in S : \A y \in S : x <= y
  <2>1. PICK x \in S : \A y \in S : ~ (<<y, x>> \in R)
    BY <1>3
  <2>2. \A y \in S : ~(y < x)
    BY <1>2, <2>1, Zenon
  <2>3. QED
    BY <2>2
<1>5. QED
  BY <1>4 DEF Min

LEMMA InsertAtFacts ==
    ASSUME NEW S, NEW s \in Seq(S), NEW i \in 1..(Len(s) + 1), NEW e \in S
    PROVE  /\ InsertAt(s, i, e) \in Seq(S)
           /\ Len(InsertAt(s, i, e)) = Len(s) + 1
           /\ \A k \in 1..(Len(s) + 1) :
                 InsertAt(s, i, e)[k] = IF k < i THEN s[k] ELSE IF k = i THEN e ELSE s[k - 1]
<1> DEFINE before == SubSeq(s, 1, i - 1)
           after == SubSeq(s, i, Len(s))
           first == before \o <<e>>
<1>1. /\ before \in Seq(S) /\ Len(before) = i - 1
      /\ \A k \in 1..(i - 1) : before[k] = s[k]
  OBVIOUS
<1>2. /\ after \in Seq(S) /\ Len(after) = Len(s) - i + 1
      /\ \A k \in 1..(Len(s) - i + 1) : after[k] = s[k + i - 1]
  OBVIOUS
<1> HIDE DEF before, after
<1>3. /\ first \in Seq(S) /\ Len(first) = i
      /\ \A k \in 1..i : first[k] = IF k < i THEN s[k] ELSE e
  BY <1>1
<1> HIDE DEF first
<1>4. /\ first \o after \in Seq(S) /\ Len(first \o after) = Len(s) + 1
      /\ \A k \in 1..(Len(s) + 1) :
            (first \o after)[k] = IF k < i THEN s[k] ELSE IF k = i THEN e ELSE s[k - 1]
  <2>1. /\ first \o after \in Seq(S) /\ Len(first \o after) = Len(s) + 1
        /\ \A k \in 1..(Len(s) + 1) :
              (first \o after)[k] = IF k <= i THEN first[k] ELSE after[k - i]
    <3>1. Len(first) + Len(after) = Len(s) + 1
      BY <1>2, <1>3
    <3>2. /\ first \o after \in Seq(S) /\ Len(first \o after) = Len(first) + Len(after)
          /\ \A k \in 1..(Len(first) + Len(after)) :
                (first \o after)[k] = IF k <= Len(first) THEN first[k] ELSE after[k - Len(first)]
      BY <1>2, <1>3, ConcatProperties
    <3>3. QED
      BY <1>3, <3>1, <3>2
  <2>2. \A k \in (i + 1)..(Len(s) + 1) : k - i \in 1..(Len(s) - i + 1) /\ (k - i) + i - 1 = k - 1
    OBVIOUS
  <2>3. \A k \in (i + 1)..(Len(s) + 1) : after[k - i] = s[k - 1]
    BY <1>2, <2>2
  <2>4. QED
    BY <1>3, <2>1, <2>3
<1>5. InsertAt(s, i, e) = first \o after
  BY DEF InsertAt, first, before, after
<1>6. QED
  BY <1>4, <1>5

LEMMA RemoveAtFacts ==
    ASSUME NEW S, NEW s \in Seq(S), NEW i \in 1..Len(s)
    PROVE  /\ RemoveAt(s, i) \in Seq(S)
           /\ Len(RemoveAt(s, i)) = Len(s) - 1
           /\ \A k \in 1..(Len(s) - 1) : RemoveAt(s, i)[k] = IF k < i THEN s[k] ELSE s[k + 1]
<1> DEFINE before == SubSeq(s, 1, i - 1)
           after == SubSeq(s, i + 1, Len(s))
<1>1. /\ before \in Seq(S) /\ Len(before) = i - 1
      /\ \A k \in 1..(i - 1) : before[k] = s[k]
  OBVIOUS
<1>2. /\ after \in Seq(S) /\ Len(after) = Len(s) - i
      /\ \A k \in 1..(Len(s) - i) : after[k] = s[k + i]
  OBVIOUS
<1> HIDE DEF before, after
<1>3. /\ before \o after \in Seq(S) /\ Len(before \o after) = Len(s) - 1
      /\ \A k \in 1..(Len(s) - 1) : (before \o after)[k] = IF k < i THEN s[k] ELSE s[k + 1]
  <2>1. /\ before \o after \in Seq(S) /\ Len(before \o after) = Len(s) - 1
        /\ \A k \in 1..(Len(s) - 1) :
              (before \o after)[k] = IF k <= i - 1 THEN before[k] ELSE after[k - (i - 1)]
    BY <1>1, <1>2, ConcatProperties
  <2>2. \A k \in i..(Len(s) - 1) : k - (i - 1) \in 1..(Len(s) - i) /\ (k - (i - 1)) + i = k + 1
    OBVIOUS
  <2>3. \A k \in i..(Len(s) - 1) : after[k - (i - 1)] = s[k + 1]
    BY <1>2, <2>2
  <2>4. QED
    BY <1>1, <2>1, <2>3
<1>4. RemoveAt(s, i) = before \o after
  BY DEF RemoveAt, before, after
<1>5. QED
  BY <1>3, <1>4

-----------------------------------------------------------------------------
(* Lists of mappings *)

Mapping == [address : Nat, length : Nat \ {0}]

\* Each mapping is in the region and ends before all that follow it.
InOrder(es) ==
    /\ es \in Seq(Mapping)
    /\ \A i \in 1..Len(es) : Base <= es[i].address /\ End(es[i]) <= Base + Length
    /\ \A i, j \in 1..Len(es) : i < j => End(es[i]) <= es[j].address

LEMMA RegionFacts == Base \in Nat /\ Length \in Nat /\ Base > 0 /\ Length > 0
  BY RegionAssumption

LEMMA NewIsMapping ==
    ASSUME NEW a \in Nat, NEW n \in Nat, n > 0
    PROVE  New(a, n) \in Mapping /\ New(a, n).address = a /\ New(a, n).length = n
           /\ End(New(a, n)) = a + n
  BY DEF New, Mapping, End

LEMMA OrderFacts ==
    ASSUME NEW es, InOrder(es), NEW i \in 1..Len(es)
    PROVE  /\ es[i] \in Mapping /\ es[i].address \in Nat /\ es[i].length \in Nat /\ es[i].length > 0
           /\ End(es[i]) = es[i].address + es[i].length /\ End(es[i]) \in Nat
           /\ es[i].address < End(es[i])
           /\ Len(es) \in Nat /\ DOMAIN es = 1..Len(es)
<1>1. es \in Seq(Mapping)
  BY DEF InOrder
<1>2. es[i] \in Mapping /\ Len(es) \in Nat /\ DOMAIN es = 1..Len(es)
  BY <1>1
<1>3. QED
  BY <1>2 DEF Mapping, End

\* A mapping e that fits between its two neighbours fits between any two.
LEMMA FitsBetween ==
    ASSUME NEW es, InOrder(es), NEW i \in 1..(Len(es) + 1), NEW j \in i..(Len(es) + 1), NEW e \in Mapping,
           i > 1 => End(es[i - 1]) <= e.address,
           j <= Len(es) => End(e) <= es[j].address
    PROVE  /\ \A k \in 1..Len(es) : k < i => End(es[k]) <= e.address
           /\ \A k \in 1..Len(es) : k >= j => End(e) <= es[k].address
<1>1. e.address \in Nat /\ End(e) \in Nat /\ Len(es) \in Nat
  <2>1. Len(es) \in Nat
    BY DEF InOrder
  <2>2. QED
    BY <2>1 DEF Mapping, End
<1>2. ASSUME NEW k \in 1..Len(es), k < i PROVE End(es[k]) <= e.address
  <2>3. i - 1 \in 1..Len(es) /\ i > 1 /\ (k = i - 1 \/ k < i - 1)
    BY <1>1, <1>2
  <2>1. CASE k = i - 1
    BY <1>2, <2>1
  <2>2. CASE k < i - 1
    <3>1. i - 1 \in 1..Len(es) /\ i > 1
      BY <2>3
    <3>2. End(es[k]) <= es[i - 1].address
      BY <2>2, <3>1 DEF InOrder
    <3>3. /\ End(es[k]) \in Nat /\ es[i - 1].address \in Nat /\ End(es[i - 1]) \in Nat
          /\ es[i - 1].address < End(es[i - 1])
      BY <3>1, OrderFacts
    <3>4. QED
      BY <1>1, <3>1, <3>2, <3>3
  <2>4. QED
    BY <2>1, <2>2, <2>3, Zenon
<1>3. ASSUME NEW k \in 1..Len(es), k >= j PROVE End(e) <= es[k].address
  <2>1. CASE k = j
    BY <1>3, <2>1
  <2>2. CASE k > j
    <3>1. j \in 1..Len(es)
      BY <1>1, <1>3
    <3>2. End(es[j]) <= es[k].address
      BY <2>2, <3>1 DEF InOrder
    <3>3. /\ es[k].address \in Nat /\ es[j].address \in Nat /\ End(es[j]) \in Nat
          /\ es[j].address < End(es[j])
      BY <3>1, OrderFacts
    <3>4. QED
      BY <1>1, <3>1, <3>2, <3>3
  <2>3. QED
    BY <1>1, <1>3, <2>1, <2>2
<1>4. QED
  BY <1>2, <1>3

\* What an insertion does to the place of the mappings that were there.
LEMMA InsertedFacts ==
    ASSUME NEW es, InOrder(es), NEW i \in 1..(Len(es) + 1), NEW e \in Mapping, NEW m \in 1..Len(es)
    PROVE  LET j == IF m < i THEN m ELSE m + 1
           IN  j \in 1..Len(InsertAt(es, i, e)) /\ InsertAt(es, i, e)[j] = es[m]
<1>1. es \in Seq(Mapping) /\ Len(es) \in Nat
  BY DEF InOrder
<1>2. /\ Len(InsertAt(es, i, e)) = Len(es) + 1
      /\ \A k \in 1..(Len(es) + 1) :
            InsertAt(es, i, e)[k] = IF k < i THEN es[k] ELSE IF k = i THEN e ELSE es[k - 1]
  BY <1>1, InsertAtFacts
<1>3. QED
  BY <1>1, <1>2

LEMMA InsertKeepsOrder ==
    ASSUME NEW es, InOrder(es), NEW i \in 1..(Len(es) + 1), NEW e \in Mapping,
           Base <= e.address, End(e) <= Base + Length,
           i > 1 => End(es[i - 1]) <= e.address,
           i <= Len(es) => End(e) <= es[i].address
    PROVE  InOrder(InsertAt(es, i, e))
<1> DEFINE new == InsertAt(es, i, e)
<1>1. es \in Seq(Mapping) /\ Len(es) \in Nat
  BY DEF InOrder
<1>2. /\ new \in Seq(Mapping) /\ Len(new) = Len(es) + 1
      /\ \A k \in 1..(Len(es) + 1) : new[k] = IF k < i THEN es[k] ELSE IF k = i THEN e ELSE es[k - 1]
  BY <1>1, InsertAtFacts
<1>3. /\ \A k \in 1..Len(es) : k < i => End(es[k]) <= e.address
      /\ \A k \in 1..Len(es) : k >= i => End(e) <= es[k].address
  BY <1>1, FitsBetween
<1> HIDE DEF new
<1>4. ASSUME NEW k \in 1..Len(new) PROVE Base <= new[k].address /\ End(new[k]) <= Base + Length
  <2>1. CASE k = i
    BY <1>2, <2>1
  <2>2. CASE k # i
    <3>1. \E l \in 1..Len(es) : new[k] = es[l]
      BY <1>1, <1>2, <2>2
    <3>2. QED
      BY <3>1 DEF InOrder
  <2>3. QED
    BY <2>1, <2>2
<1>5. ASSUME NEW k \in 1..Len(new), NEW l \in 1..Len(new), k < l PROVE End(new[k]) <= new[l].address
  <2>1. CASE k = i
    <3>1. l - 1 \in 1..Len(es) /\ l - 1 >= i /\ new[l] = es[l - 1] /\ new[k] = e
      BY <1>1, <1>2, <1>5, <2>1
    <3>2. QED
      BY <1>3, <3>1
  <2>2. CASE l = i
    <3>1. k \in 1..Len(es) /\ new[k] = es[k] /\ new[l] = e /\ k < i
      BY <1>1, <1>2, <1>5, <2>2
    <3>2. QED
      BY <1>3, <3>1
  <2>3. CASE k # i /\ l # i
    <3>1. \E m, n \in 1..Len(es) : m < n /\ new[k] = es[m] /\ new[l] = es[n]
      <4>1. CASE l < i
        BY <1>1, <1>2, <1>5, <4>1
      <4>2. CASE k < i /\ l > i
        <5>1. k < l - 1 /\ l - 1 \in 1..Len(es) /\ k \in 1..Len(es) /\ new[l] = es[l - 1] /\ new[k] = es[k]
          BY <1>1, <1>2, <1>5, <4>2
        <5>2. QED
          BY <5>1
      <4>3. CASE k > i
        <5>1. k - 1 < l - 1 /\ l - 1 \in 1..Len(es) /\ k - 1 \in 1..Len(es)
              /\ new[l] = es[l - 1] /\ new[k] = es[k - 1]
          BY <1>1, <1>2, <1>5, <4>3
        <5>2. QED
          BY <5>1
      <4>4. QED
        BY <1>1, <1>2, <1>5, <2>3, <4>1, <4>2, <4>3
    <3>2. QED
      BY <3>1 DEF InOrder
  <2>4. QED
    BY <2>1, <2>2, <2>3
<1>6. QED
  BY <1>2, <1>4, <1>5 DEF InOrder, new

LEMMA RemoveKeepsOrder ==
    ASSUME NEW es, InOrder(es), NEW i \in 1..Len(es)
    PROVE  InOrder(RemoveAt(es, i))
<1> DEFINE new == RemoveAt(es, i)
           old(k) == IF k < i THEN k ELSE k + 1
<1>1. es \in Seq(Mapping) /\ Len(es) \in Nat
  BY DEF InOrder
<1>2. /\ new \in Seq(Mapping) /\ Len(new) = Len(es) - 1
      /\ \A k \in 1..(Len(es) - 1) : new[k] = IF k < i THEN es[k] ELSE es[k + 1]
  BY <1>1, RemoveAtFacts
<1> HIDE DEF new
<1>3. \A k \in 1..Len(new) : old(k) \in 1..Len(es) /\ new[k] = es[old(k)]
  BY <1>1, <1>2
<1>4. \A k, l \in 1..Len(new) : k < l => old(k) < old(l)
  BY <1>1, <1>2
<1> HIDE DEF old
<1>5. QED
  BY <1>2, <1>3, <1>4 DEF InOrder, new

LEMMA ReplaceKeepsOrder ==
    ASSUME NEW es, InOrder(es), NEW i \in 1..Len(es), NEW e \in Mapping,
           Base <= e.address, End(e) <= Base + Length,
           i > 1 => End(es[i - 1]) <= e.address,
           i < Len(es) => End(e) <= es[i + 1].address
    PROVE  InOrder([es EXCEPT ![i] = e])
<1> DEFINE new == [es EXCEPT ![i] = e]
<1>1. es \in Seq(Mapping) /\ Len(es) \in Nat
  BY DEF InOrder
<1>2. /\ new \in Seq(Mapping) /\ Len(new) = Len(es)
      /\ \A k \in 1..Len(es) : new[k] = IF k = i THEN e ELSE es[k]
  BY <1>1
<1>3. /\ \A k \in 1..Len(es) : k < i => End(es[k]) <= e.address
      /\ \A k \in 1..Len(es) : k >= i + 1 => End(e) <= es[k].address
  <2>1. i \in 1..(Len(es) + 1) /\ i + 1 \in i..(Len(es) + 1) /\ (i + 1 <= Len(es) => i < Len(es))
    BY <1>1
  <2>2. QED
    BY <2>1, FitsBetween
<1> HIDE DEF new
<1>4. ASSUME NEW k \in 1..Len(es), NEW l \in 1..Len(es), k < l PROVE End(new[k]) <= new[l].address
  <2>1. CASE k = i
    BY <1>1, <1>2, <1>3, <1>4, <2>1
  <2>2. CASE l = i
    BY <1>1, <1>2, <1>3, <1>4, <2>2
  <2>3. CASE k # i /\ l # i
    BY <1>2, <1>4, <2>3 DEF InOrder
  <2>4. QED
    BY <2>1, <2>2, <2>3
<1>5. \A k \in 1..Len(es) : Base <= new[k].address /\ End(new[k]) <= Base + Length
  BY <1>2 DEF InOrder
<1>6. QED
  BY <1>2, <1>4, <1>5 DEF InOrder, new

LEMMA AppendIsInsert ==
    ASSUME NEW es \in Seq(Mapping), NEW e \in Mapping
    PROVE  InsertAt(es, Len(es) + 1, e) = Append(es, e)
<1> DEFINE i == Len(es) + 1
<1>1. /\ InsertAt(es, i, e) \in Seq(Mapping) /\ Len(InsertAt(es, i, e)) = Len(es) + 1
      /\ \A k \in 1..(Len(es) + 1) :
            InsertAt(es, i, e)[k] = IF k < i THEN es[k] ELSE IF k = i THEN e ELSE es[k - 1]
  <2>1. i \in 1..(Len(es) + 1)
    OBVIOUS
  <2> HIDE DEF i
  <2>2. QED
    BY <2>1, InsertAtFacts
<1>2. /\ Append(es, e) \in Seq(Mapping) /\ Len(Append(es, e)) = Len(es) + 1
      /\ \A k \in 1..(Len(es) + 1) : Append(es, e)[k] = IF k < i THEN es[k] ELSE e
  OBVIOUS
<1>3. \A k \in 1..(Len(es) + 1) : InsertAt(es, i, e)[k] = Append(es, e)[k]
  BY <1>1, <1>2
<1>4. QED
  BY <1>1, <1>2, <1>3, SeqEqual

LEMMA AppendKeepsOrder ==
    ASSUME NEW es, InOrder(es), NEW e \in Mapping, Base <= e.address, End(e) <= Base + Length,
           es # <<>> => End(es[Len(es)]) <= e.address
    PROVE  InOrder(Append(es, e))
<1>1. es \in Seq(Mapping) /\ Len(es) \in Nat
  BY DEF InOrder
<1> DEFINE i == Len(es) + 1
<1>2. Len(es) > 0 => es # <<>>
  BY <1>1
<1>3. InOrder(InsertAt(es, i, e))
  BY <1>1, <1>2, InsertKeepsOrder
<1>4. QED
  BY <1>1, <1>3, AppendIsInsert

-----------------------------------------------------------------------------
(* The search in a list *)

\* Induction over a set of naturals.
LEMMA Induction ==
    ASSUME NEW S \in SUBSET Nat, 0 \in S, \A n \in S : n + 1 \in S
    PROVE  S = Nat
<1> DEFINE Missing == Nat \ S
<1>1. SUFFICES ASSUME Missing # {} PROVE FALSE
  OBVIOUS
<1>2. Missing \in SUBSET Nat
  OBVIOUS
<1>3. Min(Missing) \in Missing /\ \A n \in Missing : Min(Missing) <= n
  <2> HIDE DEF Missing
  <2>1. QED
    BY <1>1, <1>2, MinIsLeast
<1>4. PICK m \in Missing : \A n \in Missing : m <= n
  BY <1>3
<1>5. m # 0 /\ m \in Nat
  BY <1>4
<1>6. m - 1 \in Nat /\ (m - 1) + 1 = m
  BY <1>5
<1>7. m - 1 \in Missing
  BY <1>4, <1>6
<1>8. m <= m - 1
  BY <1>4, <1>7
<1>9. QED
  BY <1>6, <1>8

\* A function on the naturals up to N is defined by its first value and by
\* how each next one comes of the last.
Iterates(g, N, first, step, S) ==
    /\ g \in [0..N -> S]
    /\ \A i \in 0..N : g[i] = IF i = 0 THEN first ELSE step[g[i - 1]]

LEMMA Recursion ==
    ASSUME NEW S, NEW first \in S, NEW step \in [S -> S], NEW N \in Nat
    PROVE  \E g : Iterates(g, N, first, step, S)
<1> DEFINE Made(n, g) == /\ g \in [0..n -> S]
                         /\ \A i \in 0..n : g[i] = IF i = 0 THEN first ELSE step[g[i - 1]]
           Defined == {n \in Nat : \E g : Made(n, g)}
<1>1. 0 \in Defined
  <2>1. Made(0, [i \in 0..0 |-> first])
    OBVIOUS
  <2>2. QED
    BY <2>1
<1>2. ASSUME NEW n \in Defined PROVE n + 1 \in Defined
  <2>1. PICK g : Made(n, g)
    BY <1>2
  <2> DEFINE h == [i \in 0..(n + 1) |-> IF i = n + 1 THEN step[g[n]] ELSE g[i]]
  <2>2. step[g[n]] \in S
    BY <2>1
  <2>3. h \in [0..(n + 1) -> S]
    BY <2>1, <2>2
  <2>4. ASSUME NEW i \in 0..(n + 1)
        PROVE  h[i] = IF i = 0 THEN first ELSE step[h[i - 1]]
    <3>1. CASE i = n + 1
      <4>1. i # 0 /\ i - 1 = n /\ n \in 0..(n + 1) /\ n # n + 1
        BY <3>1
      <4>2. h[n] = g[n] /\ h[n + 1] = step[g[n]]
        BY <4>1
      <4> HIDE DEF h
      <4>3. QED
        BY <3>1, <4>1, <4>2
    <3>2. CASE i # n + 1
      <4>1. i \in 0..n /\ (i # 0 => i - 1 \in 0..n)
        BY <3>2
      <4>2. h[i] = g[i] /\ (i # 0 => h[i - 1] = g[i - 1])
        BY <4>1
      <4>3. QED
        BY <2>1, <4>1, <4>2
    <3>3. QED
      BY <3>1, <3>2
  <2>5. Made(n + 1, h)
    BY <2>3, <2>4
  <2> HIDE DEF Made
  <2>6. QED
    BY <2>5
<1>3. Defined = Nat
  <2> HIDE DEF Defined
  <2>1. Defined \in SUBSET Nat
    BY DEF Defined
  <2>2. QED
    BY <1>1, <1>2, <2>1, Induction
<1>4. QED
  BY <1>3 DEF Iterates

\* The search leaves the list below its first entry.
Below(es, a) == es # << >> /\ a < es[1].address

LEMMA SearchStaysInside ==
    ASSUME NEW es, InOrder(es), NEW i \in 1..Len(es), NEW a \in Nat, es[i].address <= a
    PROVE  ~Below(es, a)
<1>1. Len(es) \in Nat /\ 1 \in 1..Len(es) /\ InOrder(es)
  BY DEF InOrder
<1>2. /\ es[1].address \in Nat /\ es[1].address < End(es[1]) /\ End(es[1]) \in Nat
      /\ es[i].address \in Nat
  BY <1>1, OrderFacts
<1>3. i = 1 \/ End(es[1]) <= es[i].address
  BY <1>1 DEF InOrder
<1>4. QED
  BY <1>2, <1>3 DEF Below

\* low, high and what is found.
Ranges == [low : Int, high : Int, found : Int]

\* What holds after so many turns of the loop: the entry sought is between low
\* and high, which have come closer by a turn each time; or it is found; or
\* it is below the first.
Searched(es, turns, a, r) ==
    LET n == Len(es)
    IN  /\ r \in Ranges
        /\ 0 <= r.low /\ r.high < n /\ (n > 0 => 0 <= r.high)
        /\ \/ /\ r.found = -1
              /\ \A i \in 1..n : es[i].address = a => r.low < i /\ i <= r.high + 1
              /\ r.low > 0 => ~Below(es, a)
              /\ r.low <= r.high => (r.high - r.low) + 1 + turns <= n
           \/ r.found >= 0 /\ r.found < n /\ es[r.found + 1].address = a
           \/ r.found = -2 /\ Below(es, a)

LEMMA MidIsBetween ==
    ASSUME NEW r \in Ranges, r.low <= r.high
    PROVE  At(r) \in Int /\ r.low <= At(r) /\ At(r) <= r.high
<1>1. PICK d : d = r.high - r.low
  OBVIOUS
<1>2. d \in Nat /\ r.low \in Int /\ r.high \in Int
  BY <1>1 DEF Ranges
<1>3. d \div 2 \in Nat /\ d \div 2 <= d
  BY <1>2
<1>4. At(r) = r.low + (d \div 2)
  BY <1>1 DEF At
<1>5. PICK half : half = d \div 2
  OBVIOUS
<1>6. QED
  BY <1>1, <1>2, <1>3, <1>4, <1>5

LEMMA RangeParts ==
    ASSUME NEW r \in Ranges PROVE r.low \in Int /\ r.high \in Int /\ r.found \in Int
  BY DEF Ranges

LEMMA TurnIsRange == ASSUME NEW es, NEW a, NEW r \in Ranges PROVE Turn(es, a, r) \in Ranges
<1> DEFINE mid == At(r)
<1>1. mid \in Int
  <2>1. r.low \in Int /\ r.high \in Int /\ r.high - r.low \in Int
    BY RangeParts
  <2>2. PICK d \in Int : d = r.high - r.low
    BY <2>1
  <2>3. d \div 2 \in Int
    OBVIOUS
  <2>4. PICK half \in Int : half = d \div 2
    BY <2>3
  <2>5. QED
    BY <2>1, <2>2, <2>4 DEF At
<1> HIDE DEF mid
<1>2. mid - 1 \in Int /\ mid + 1 \in Int /\ -2 \in Int
  BY <1>1
<1>3. QED
  BY <1>1, <1>2 DEF Turn, mid, Ranges

LEMMA TurnSearches ==
    ASSUME NEW es, InOrder(es), NEW a \in Nat, NEW k \in Nat, NEW r, Searched(es, k, a, r)
    PROVE  Searched(es, k + 1, a, Turn(es, a, r))
<1> DEFINE n == Len(es)
           mid == At(r)
           address == es[mid + 1].address
<1>1. InOrder(es) /\ n \in Nat
  BY DEF InOrder
<1>2. /\ r \in Ranges /\ r.low \in Int /\ r.high \in Int /\ r.found \in Int
      /\ 0 <= r.low /\ r.high < n /\ (n > 0 => 0 <= r.high)
  <2>1. /\ r \in Ranges /\ 0 <= r.low /\ r.high < n /\ (n > 0 => 0 <= r.high)
    BY DEF Searched
  <2>2. QED
    BY <2>1, RangeParts
<1>3. CASE Ended(r)
  <2>1. Turn(es, a, r) = r
    BY <1>3 DEF Turn
  <2>2. \/ r.low > r.high
        \/ r.found # -1
    BY <1>3 DEF Ended
  <2>3. Searched(es, k + 1, a, r)
    BY <1>2, <2>2 DEF Searched
  <2>4. QED
    BY <2>1, <2>3
<1>4. CASE ~Ended(r)
  <2>1. /\ r.low <= r.high /\ r.found = -1
        /\ \A i \in 1..n : es[i].address = a => r.low < i /\ i <= r.high + 1
        /\ r.low > 0 => ~Below(es, a)
        /\ (r.high - r.low) + 1 + k <= n
    BY <1>2, <1>4 DEF Ended, Searched
  <2>2. mid \in Int /\ r.low <= mid /\ mid <= r.high
    BY <1>2, <2>1, MidIsBetween
  <2> HIDE DEF mid
  <2>3. mid + 1 \in 1..n /\ n > 0 /\ 1 \in 1..n
    BY <1>1, <1>2, <2>2
  <2>4. /\ address \in Nat /\ es[1].address \in Nat
        /\ End(es[mid + 1]) \in Nat /\ address < End(es[mid + 1])
    BY <1>1, <2>3, OrderFacts
  <2>5. \A i, j \in 1..n : i < j => es[i].address < es[j].address
    <3>1. SUFFICES ASSUME NEW i \in 1..n, NEW j \in 1..n, i < j
                   PROVE  es[i].address < es[j].address
      OBVIOUS
    <3>2. End(es[i]) <= es[j].address
      BY <1>1, <3>1 DEF InOrder
    <3>3. /\ es[i].address \in Nat /\ End(es[i]) \in Nat
          /\ es[i].address < End(es[i]) /\ es[j].address \in Nat
      BY <1>1, <3>1, OrderFacts
    <3>4. QED
      BY <3>2, <3>3
  <2>6. es # << >>
    BY <1>1, <2>3
  <2>7. CASE address = a
    <3>1. Turn(es, a, r) = [r EXCEPT !.found = mid]
      BY <1>4, <2>7 DEF Turn, mid
    <3>2. PICK s : s = [r EXCEPT !.found = mid]
      OBVIOUS
    <3>3. s \in Ranges /\ s.low = r.low /\ s.high = r.high /\ s.found = mid
      BY <1>2, <2>2, <3>2 DEF Ranges
    <3>4. s.found >= 0 /\ s.found < n /\ es[s.found + 1].address = a
      BY <1>1, <1>2, <2>2, <2>7, <3>3
    <3>5. Searched(es, k + 1, a, s)
      BY <1>2, <3>3, <3>4 DEF Searched
    <3>6. QED
      BY <3>1, <3>2, <3>5
  <2>8. CASE address < a
    <3>1. Turn(es, a, r) = [r EXCEPT !.low = mid + 1]
      BY <1>4, <2>4, <2>8 DEF Turn, mid
    <3>2. PICK s : s = [r EXCEPT !.low = mid + 1]
      OBVIOUS
    <3>3. s \in Ranges /\ s.low = mid + 1 /\ s.high = r.high /\ s.found = -1
      BY <1>2, <2>1, <2>2, <3>2 DEF Ranges
    <3>4. ~Below(es, a)
      BY <2>3, <2>4, <2>8, SearchStaysInside
    <3>5. ASSUME NEW i \in 1..n, es[i].address = a PROVE s.low < i /\ i <= s.high + 1
      <4>1. i \in Int /\ r.low < i /\ i <= r.high + 1
        BY <2>1, <3>5
      <4>2. mid + 1 < i
        <5>1. ~(i < mid + 1)
          BY <2>3, <2>4, <2>5, <2>8, <3>5
        <5>2. i # mid + 1
          BY <2>4, <2>8, <3>5
        <5>3. QED
          BY <2>2, <4>1, <5>1, <5>2
      <4>3. QED
        BY <3>3, <4>1, <4>2
    <3>6. s.low <= s.high => (s.high - s.low) + 1 + (k + 1) <= n
      BY <1>1, <1>2, <2>1, <2>2, <3>3
    <3>7. 0 <= s.low /\ s.high < n /\ 0 <= s.high
      BY <1>2, <2>2, <2>3, <3>3
    <3>8. Searched(es, k + 1, a, s)
      BY <3>3, <3>4, <3>5, <3>6, <3>7 DEF Searched
    <3>9. QED
      BY <3>1, <3>2, <3>8
  <2>9. CASE a < address /\ mid = 0
    <3>1. Turn(es, a, r) = [r EXCEPT !.found = -2]
      BY <1>4, <2>4, <2>9 DEF Turn, mid
    <3>2. PICK s : s = [r EXCEPT !.found = -2]
      OBVIOUS
    <3>3. s \in Ranges /\ s.low = r.low /\ s.high = r.high /\ s.found = -2
      BY <1>2, <3>2 DEF Ranges
    <3>4. Below(es, a)
      BY <2>6, <2>9 DEF Below
    <3>5. Searched(es, k + 1, a, s)
      BY <1>2, <3>3, <3>4 DEF Searched
    <3>6. QED
      BY <3>1, <3>2, <3>5
  <2>10. CASE a < address /\ mid # 0
    <3>1. Turn(es, a, r) = [r EXCEPT !.high = mid - 1]
      BY <1>4, <2>4, <2>10 DEF Turn, mid
    <3>2. PICK s : s = [r EXCEPT !.high = mid - 1]
      OBVIOUS
    <3>3. s \in Ranges /\ s.low = r.low /\ s.high = mid - 1 /\ s.found = -1
      BY <1>2, <2>1, <2>2, <3>2 DEF Ranges
    <3>4. ASSUME NEW i \in 1..n, es[i].address = a PROVE s.low < i /\ i <= s.high + 1
      <4>1. i \in Int /\ r.low < i /\ i <= r.high + 1
        BY <2>1, <3>4
      <4>2. i < mid + 1
        <5>1. ~(mid + 1 < i)
          BY <2>3, <2>4, <2>5, <2>10, <3>4
        <5>2. i # mid + 1
          BY <2>4, <2>10, <3>4
        <5>3. QED
          BY <2>2, <4>1, <5>1, <5>2
      <4>3. QED
        BY <2>2, <3>3, <4>1, <4>2
    <3>5. s.low <= s.high => (s.high - s.low) + 1 + (k + 1) <= n
      BY <1>1, <1>2, <2>1, <2>2, <3>3
    <3>6. 0 <= s.low /\ s.high < n /\ 0 <= s.high
      BY <1>1, <1>2, <2>2, <2>10, <3>3
    <3>7. Searched(es, k + 1, a, s)
      BY <2>1, <3>3, <3>4, <3>5, <3>6 DEF Searched
    <3>8. QED
      BY <3>1, <3>2, <3>7
  <2>11. QED
    BY <2>4, <2>7, <2>8, <2>9, <2>10
<1>5. QED
  BY <1>3, <1>4

LEMMA TurnsSearch ==
    ASSUME NEW es, InOrder(es), NEW a \in Nat
    PROVE  \E r : r.found = binary_search(es, a) /\ Searched(es, Len(es), a, r)
<1> DEFINE n == Len(es)
           start == [low |-> 0, high |-> n - 1, found |-> -1]
           Is(g) == g = [turns \in 0..n |-> IF turns = 0 THEN start ELSE Turn(es, a, g[turns - 1])]
           range == CHOOSE g : Is(g)
           step == [r \in Ranges |-> Turn(es, a, r)]
<1>1. n \in Nat /\ InOrder(es)
  BY DEF InOrder
<1>2. binary_search(es, a) = range[n].found
  BY DEF binary_search
<1>3. start \in Ranges /\ start.low = 0 /\ start.high = n - 1 /\ start.found = -1
  BY <1>1 DEF Ranges
<1> HIDE DEF start
<1>4. step \in [Ranges -> Ranges] /\ \A r \in Ranges : step[r] = Turn(es, a, r)
  BY TurnIsRange
<1> HIDE DEF step, n
<1>5. PICK g \in [0..n -> Ranges] :
          \A i \in 0..n : g[i] = IF i = 0 THEN start ELSE step[g[i - 1]]
  <2>1. \E g : Iterates(g, n, start, step, Ranges)
    BY <1>1, <1>3, <1>4, Recursion
  <2>2. QED
    BY <2>1 DEF Iterates
<1>6. \A i \in 0..n : g[i] = IF i = 0 THEN start ELSE Turn(es, a, g[i - 1])
  <2>1. ASSUME NEW i \in 0..n, i # 0 PROVE g[i - 1] \in Ranges
    <3>1. i - 1 \in 0..n
      BY <1>1, <2>1
    <3>2. QED
      BY <3>1
  <2>2. QED
    BY <1>4, <1>5, <2>1
<1>7. Is(g)
  BY <1>5, <1>6
<1>8. Is(range)
  BY <1>7
<1> HIDE DEF range
<1>9. /\ range[0] = start
      /\ \A i \in 0..n : i # 0 => range[i] = Turn(es, a, range[i - 1])
  BY <1>1, <1>8
<1> HIDE DEF Is
<1>10. Searched(es, 0, a, start)
  <2>1. \A i \in 1..n : start.low < i /\ i <= start.high + 1
    BY <1>1, <1>3
  <2>2. start.low <= start.high => (start.high - start.low) + 1 + 0 <= n
    BY <1>1, <1>3
  <2>3. 0 <= start.low /\ start.high < n /\ (n > 0 => 0 <= start.high) /\ ~(start.low > 0)
    BY <1>1, <1>3
  <2>4. QED
    BY <1>3, <2>1, <2>2, <2>3 DEF Searched, n
<1> DEFINE Right == {k \in Nat : k <= n => Searched(es, k, a, range[k])}
<1>11. 0 \in Right
  BY <1>9, <1>10
<1>12. ASSUME NEW k \in Right PROVE k + 1 \in Right
  <2>1. SUFFICES ASSUME k + 1 <= n PROVE Searched(es, k + 1, a, range[k + 1])
    OBVIOUS
  <2>2. k \in Nat /\ k <= n /\ k + 1 \in 0..n /\ k + 1 # 0 /\ (k + 1) - 1 = k
    BY <1>1, <2>1
  <2>3. Searched(es, k, a, range[k])
    BY <2>2
  <2>4. range[k + 1] = Turn(es, a, range[k])
    BY <1>9, <2>2
  <2>5. QED
    BY <2>2, <2>3, <2>4, TurnSearches
<1>13. Right = Nat
  <2>1. Right \in SUBSET Nat
    OBVIOUS
  <2> HIDE DEF Right
  <2>2. QED
    BY <1>11, <1>12, <2>1, Induction
<1>14. Searched(es, n, a, range[n])
  BY <1>1, <1>13
<1>15. QED
  BY <1>2, <1>14 DEF n

LEMMA SearchFinds ==
    ASSUME NEW es, InOrder(es), NEW a \in Nat
    PROVE  LET k == binary_search(es, a)
           IN  /\ k \in Int
               /\ k = -2 <=> Below(es, a)
               /\ k >= 0 => k + 1 \in 1..Len(es) /\ es[k + 1].address = a
               /\ k < 0 => \A i \in 1..Len(es) : es[i].address # a
<1> DEFINE n == Len(es)
<1>2. n \in Nat /\ DOMAIN es = 1..n /\ es \in Seq(Mapping)
  BY DEF InOrder
<1>3. PICK r : r.found = binary_search(es, a) /\ Searched(es, n, a, r)
  BY TurnsSearch
<1>4. /\ r.low \in Int /\ r.high \in Int /\ r.found \in Int
      /\ 0 <= r.low /\ r.high < n /\ (n > 0 => 0 <= r.high)
  <2>1. r \in Ranges /\ 0 <= r.low /\ r.high < n /\ (n > 0 => 0 <= r.high)
    BY <1>3 DEF Searched
  <2>2. QED
    BY <2>1, RangeParts
<1>5. CASE /\ r.found = -1
           /\ \A i \in 1..n : es[i].address = a => r.low < i /\ i <= r.high + 1
           /\ r.low > 0 => ~Below(es, a)
           /\ r.low <= r.high => (r.high - r.low) + 1 + n <= n
  <2>1. r.high < r.low
    BY <1>2, <1>4, <1>5
  <2>2. ~Below(es, a)
    <3>1. CASE n = 0
      BY <1>2, <3>1 DEF Below
    <3>2. CASE n # 0
      BY <1>2, <1>4, <1>5, <2>1, <3>2
    <3>3. QED
      BY <3>1, <3>2
  <2>3. \A i \in 1..n : es[i].address # a
    BY <1>2, <1>4, <1>5, <2>1
  <2>4. QED
    BY <1>3, <1>5, <2>2, <2>3
<1>6. CASE r.found >= 0 /\ r.found < n /\ es[r.found + 1].address = a
  <2>1. r.found + 1 \in 1..n
    BY <1>2, <1>4, <1>6
  <2>2. es[r.found + 1].address <= a
    BY <1>6
  <2>3. ~Below(es, a)
    BY <2>1, <2>2, SearchStaysInside
  <2>4. QED
    BY <1>3, <1>4, <1>6, <2>1, <2>3
<1>7. CASE r.found = -2 /\ Below(es, a)
  <2>1. ASSUME NEW i \in 1..n, es[i].address = a PROVE FALSE
    <3>1. es[i].address <= a
      BY <2>1
    <3>2. QED
      BY <1>7, <3>1, SearchStaysInside
  <2>2. QED
    BY <1>3, <1>7, <2>1
<1>8. QED
  BY <1>3, <1>5, <1>6, <1>7 DEF Searched

\* The place at which the search finds the mapping at index m.
LEMMA SearchFindsAt ==
    ASSUME NEW es, InOrder(es), NEW a \in Nat, NEW m \in 1..Len(es), es[m].address = a
    PROVE  binary_search(es, a) = m - 1
<1> DEFINE k == binary_search(es, a)
<1>1. k \in Int /\ k >= 0 /\ k + 1 \in 1..Len(es) /\ es[k + 1].address = a
  BY SearchFinds
<1>2. PICK j : j = k + 1
  OBVIOUS
<1> HIDE DEF k
<1>3. j \in 1..Len(es) /\ es[j].address = a
  BY <1>1, <1>2
<1>4. /\ a < End(es[m]) /\ a < End(es[j]) /\ End(es[m]) \in Nat /\ End(es[j]) \in Nat
      /\ Len(es) \in Nat
  BY <1>3, OrderFacts
<1>5. ~(m < j) /\ ~(j < m)
  <2>1. m < j => End(es[m]) <= a
    BY <1>3 DEF InOrder
  <2>2. j < m => End(es[j]) <= a
    BY <1>3 DEF InOrder
  <2>3. QED
    BY <1>4, <2>1, <2>2
<1>6. j = m
  BY <1>3, <1>4, <1>5
<1>7. QED
  BY <1>1, <1>2, <1>6 DEF k

-----------------------------------------------------------------------------
(* The steps *)

\* The lists the code can have are in order, and their mappings are not
\* empty; the rest are the types.
ListInv ==
    /\ InOrder(entries)
    /\ pages \in [Pages -> Content] /\ peak \in Nat
    /\ wild \in BOOLEAN /\ strayed \in BOOLEAN /\ overran \in BOOLEAN

\* What the slot past the last entry reads as is no address past the region.
PastEndIsInside == PastEnd \subseteq 0..(Base + Length + 1)

\* What each action of the guest comes to.
Kept == InOrder(entries') /\ pages' \in [Pages -> Content] /\ peak' \in Nat /\ wild' \in BOOLEAN

LEMMA Looked ==
    ASSUME ListInv, NEW a \in Nat
    PROVE  /\ Matches(a) = {i \in 1..Len(entries) : entries[i].address = a}
           /\ SearchIsWild(a) <=> Below(entries, a)
<1>1. InOrder(entries) /\ DOMAIN entries = 1..Len(entries) /\ Len(entries) \in Nat
  BY DEF ListInv, InOrder
<1>2. ASSUME NEW i \in 1..Len(entries)
      PROVE  i - 1 = binary_search(entries, a) <=> entries[i].address = a
  <2>1. ASSUME i - 1 = binary_search(entries, a) PROVE entries[i].address = a
    <3>1. PICK k : k = binary_search(entries, a)
      OBVIOUS
    <3>2. k \in Int /\ (k >= 0 => entries[k + 1].address = a)
      BY <1>1, <3>1, SearchFinds
    <3>3. k >= 0 /\ k + 1 = i
      BY <2>1, <3>1, <3>2
    <3>4. QED
      BY <3>2, <3>3
  <2>2. QED
    BY <1>1, <2>1, SearchFindsAt
<1>3. SearchIsWild(a) <=> Below(entries, a)
  BY <1>1, SearchFinds DEF SearchIsWild
<1>4. QED
  BY <1>1, <1>2, <1>3 DEF Matches

LEMMA ZeroIsPages == ASSUME ListInv, NEW S PROVE Zero(S) \in [Pages -> Content]
  BY ContentAssumption DEF ListInv, Zero

LEMMA NothingIsKept ==
    ASSUME ListInv, UNCHANGED <<entries, pages, peak>>, wild' \in BOOLEAN PROVE Kept
  BY DEF ListInv, Kept

LEMMA ReturnsIsBoolean == ASSUME ListInv, NEW c, Returns(c) \/ Strays(c) PROVE wild' \in BOOLEAN
  BY Zenon DEF ListInv, Returns, Strays

LEMMA StraysIsKept == ASSUME ListInv, NEW c, Strays(c) PROVE Kept
  BY ReturnsIsBoolean, NothingIsKept DEF Strays

LEMMA FreeOffsetFacts ==
    ASSUME ListInv, entries # <<>>
    PROVE  /\ Len(entries) \in 1..Len(entries) /\ FreeOffset \in Nat
           /\ FreeOffset >= Base /\ FreeOffset <= Base + Length
<1>1. entries \in Seq(Mapping)
  BY DEF ListInv, InOrder
<1>2. Len(entries) \in 1..Len(entries)
  BY <1>1
<1>3. QED
  BY <1>2, OrderFacts, RegionFacts DEF ListInv, InOrder, FreeOffset

LEMMA GapFacts ==
    ASSUME ListInv, NEW n \in Nat, n > 0, NEW hint, Gaps(n, hint) # {}
    PROVE  LET i == Min(Gaps(n, hint))
               e == New(End(entries[i]), n)
           IN  /\ i \in 1..(Len(entries) - 1) /\ i + 1 \in 1..Len(entries)
               /\ End(entries[i]) \in Nat /\ e \in Mapping
               /\ e.address = End(entries[i]) /\ e.length = n
               /\ End(e) = End(entries[i]) + n
               /\ End(e) <= entries[i + 1].address
               /\ Base <= e.address /\ End(e) <= Base + Length
<1> DEFINE i == Min(Gaps(n, hint))
<1>1. Len(entries) \in Nat
  BY DEF ListInv, InOrder
<1>2. i \in Gaps(n, hint)
  <2>1. Gaps(n, hint) \in SUBSET Nat
    BY <1>1 DEF Gaps
  <2>2. QED
    BY <2>1, MinIsLeast
<1> HIDE DEF i
<1>3. i \in 1..(Len(entries) - 1) /\ AtMost(n, Gap(i))
  BY <1>2 DEF Gaps
<1>4. i \in 1..Len(entries) /\ i + 1 \in 1..Len(entries) /\ i < i + 1
  BY <1>1, <1>3
<1>5. /\ entries[i].address \in Nat /\ End(entries[i]) \in Nat /\ entries[i].address < End(entries[i])
      /\ entries[i + 1].address \in Nat /\ End(entries[i + 1]) \in Nat
      /\ entries[i + 1].address < End(entries[i + 1])
  BY <1>4, OrderFacts DEF ListInv
<1>6. Base <= entries[i].address /\ End(entries[i + 1]) <= Base + Length
  BY <1>4 DEF ListInv, InOrder
<1> DEFINE e == New(End(entries[i]), n)
<1>7. e \in Mapping /\ e.address = End(entries[i]) /\ e.length = n /\ End(e) = End(entries[i]) + n
  BY <1>5, NewIsMapping
<1> HIDE DEF e
<1>8. entries[i + 1].address - End(entries[i]) >= n
  <2>1. End(entries[i]) <= entries[i + 1].address
    BY <1>4 DEF ListInv, InOrder
  <2>2. QED
    BY <1>3, <1>5, <2>1 DEF AtMost, Gap
<1>9. End(e) <= entries[i + 1].address /\ Base <= e.address /\ End(e) <= Base + Length
  BY <1>5, <1>6, <1>7, <1>8, RegionFacts
<1>10. QED
  BY <1>3, <1>4, <1>5, <1>7, <1>9 DEF i, e

LEMMA EndFacts ==
    ASSUME ListInv, NEW n \in Nat, n > 0, entries # <<>>, RoomAtEnd(n)
    PROVE  LET e == New(FreeOffset, n)
           IN  InOrder(Append(entries, e)) /\ e \in Mapping
<1> DEFINE e == New(FreeOffset, n)
<1>1. FreeOffset \in Nat /\ FreeOffset >= Base /\ FreeOffset <= Base + Length
  BY FreeOffsetFacts
<1>2. e \in Mapping /\ e.address = FreeOffset /\ End(e) = FreeOffset + n
  BY <1>1, NewIsMapping
<1> HIDE DEF e
<1>3. Base <= e.address /\ End(e) <= Base + Length
  BY <1>1, <1>2, RegionFacts DEF RoomAtEnd, AtMost
<1>4. End(entries[Len(entries)]) <= e.address
  BY <1>1, <1>2 DEF FreeOffset
<1>5. InOrder(Append(entries, e))
  BY <1>2, <1>3, <1>4, AppendKeepsOrder DEF ListInv
<1>6. QED
  BY <1>2, <1>5 DEF e

\* Where there is room for n pages they are in the region and not mapped.
LEMMA HomeIsInside ==
    ASSUME ListInv, NEW n \in Nat, n > 0, NEW hint, HasHome(n, hint)
    PROVE  LET e == New(Home(n, hint), n)
           IN  /\ Home(n, hint) \in Nat /\ Inside(Home(n, hint), n) /\ e \in Mapping
               /\ \A i \in 1..Len(entries) : End(entries[i]) <= e.address \/ End(e) <= entries[i].address
<1> DEFINE e == New(Home(n, hint), n)
<1>1. InOrder(entries) /\ Len(entries) \in Nat
  BY DEF ListInv, InOrder
<1>2. ASSUME e \in Mapping, Base <= e.address, End(e) <= Base + Length PROVE Inside(Home(n, hint), n)
  <2>1. e.address = Home(n, hint) /\ End(e) = e.address + n /\ e.address \in Nat
    BY <1>2 DEF New, End, Mapping
  <2>2. QED
    BY <1>2, <2>1, RegionFacts DEF Inside, Span, Pages
<1>3. CASE Gaps(n, hint) # {}
  <2> DEFINE g == Min(Gaps(n, hint))
  <2>1. Home(n, hint) = End(entries[g])
    BY <1>3 DEF Home
  <2>2. /\ g \in 1..(Len(entries) - 1) /\ e \in Mapping
        /\ e.address = End(entries[g]) /\ e.address \in Nat
        /\ End(e) <= entries[g + 1].address /\ Base <= e.address /\ End(e) <= Base + Length
    BY <1>3, <2>1, GapFacts
  <2> HIDE DEF g, e
  <2>3. g + 1 \in 1..(Len(entries) + 1) /\ (g + 1) - 1 = g
    BY <1>1, <2>2
  <2>4. /\ \A k \in 1..Len(entries) : k < g + 1 => End(entries[k]) <= e.address
        /\ \A k \in 1..Len(entries) : k >= g + 1 => End(e) <= entries[k].address
    BY <1>1, <2>2, <2>3, FitsBetween
  <2>5. \A k \in 1..Len(entries) : End(entries[k]) <= e.address \/ End(e) <= entries[k].address
    BY <1>1, <2>2, <2>4
  <2>6. Inside(Home(n, hint), n)
    BY <1>2, <2>2
  <2>7. QED
    BY <2>1, <2>2, <2>5, <2>6 DEF e
<1>4. CASE Gaps(n, hint) = {}
  <2>1. entries # <<>> /\ RoomAtEnd(n) /\ Home(n, hint) = FreeOffset
    BY <1>4 DEF HasHome, Home
  <2>2. /\ e \in Mapping /\ e.address = FreeOffset /\ FreeOffset \in Nat
        /\ Len(entries) \in 1..Len(entries)
    BY <2>1, EndFacts, FreeOffsetFacts, NewIsMapping
  <2>3. InOrder(Append(entries, e))
    BY <2>1, EndFacts
  <2> HIDE DEF e
  <2>4. /\ Len(Append(entries, e)) = Len(entries) + 1
        /\ Append(entries, e)[Len(entries) + 1] = e
        /\ \A k \in 1..Len(entries) : Append(entries, e)[k] = entries[k]
    BY <1>1, <2>2 DEF InOrder
  <2>5. Base <= e.address /\ End(e) <= Base + Length
    BY <1>1, <2>3, <2>4 DEF InOrder
  <2>6. \A k \in 1..Len(entries) : End(entries[k]) <= e.address
    BY <1>1, <2>3, <2>4 DEF InOrder
  <2>7. Inside(Home(n, hint), n)
    BY <1>2, <2>2, <2>5
  <2>8. QED
    BY <2>1, <2>2, <2>6, <2>7 DEF e
<1>5. QED
  BY <1>3, <1>4

LEMMA MmapKeeps ==
    ASSUME ListInv, NEW n \in Lengths, NEW hint,
           \/ MmapFirst(n) \/ MmapInGap(hint, n) \/ MmapAtEnd(hint, n)
           \/ MmapFails(hint, n) \/ MmapStrays(hint, n)
    PROVE  Kept
<1>1. n \in Nat /\ n > 0
  BY MaxLenAssumption DEF Lengths
<1>2. CASE MmapFirst(n)
  <2>1. wild' \in BOOLEAN /\ pages' \in [Pages -> Content] /\ peak' \in Nat
    BY <1>1, <1>2, ReturnsIsBoolean, ZeroIsPages DEF MmapFirst
  <2>2. /\ New(Base, n) \in Mapping /\ New(Base, n).address = Base
        /\ End(New(Base, n)) = Base + n /\ n <= Length
    BY <1>1, <1>2, RegionFacts, NewIsMapping DEF MmapFirst
  <2>3. InOrder(Append(entries, New(Base, n)))
    <3>1. entries = <<>> /\ InOrder(entries)
      BY <1>2 DEF MmapFirst, ListInv
    <3>2. Base <= Base /\ Base + n <= Base + Length
      BY <1>1, <2>2, RegionFacts
    <3>3. QED
      BY <2>2, <3>1, <3>2, AppendKeepsOrder
  <2>4. entries' = Append(entries, New(Base, n))
    BY <1>2 DEF MmapFirst
  <2>5. QED
    BY <2>1, <2>3, <2>4 DEF Kept
<1>3. CASE MmapInGap(hint, n)
  <2> DEFINE i == Min(Gaps(n, hint))
             e == New(End(entries[i]), n)
  <2>1. /\ entries' = InsertAt(entries, i + 1, e) /\ UNCHANGED peak
        /\ pages' = Zero(Span(End(entries[i]), n)) /\ Gaps(n, hint) # {}
    BY <1>3 DEF MmapInGap
  <2>2. wild' \in BOOLEAN
    BY <1>3, ReturnsIsBoolean DEF MmapInGap
  <2>3. /\ i \in 1..(Len(entries) - 1) /\ e \in Mapping /\ e.address = End(entries[i])
        /\ End(e) <= entries[i + 1].address /\ Base <= e.address /\ End(e) <= Base + Length
        /\ End(entries[i]) \in Nat
    BY <1>1, <2>1, GapFacts
  <2> HIDE DEF i, e
  <2>4. InOrder(InsertAt(entries, i + 1, e))
    <3>1. Len(entries) \in Nat /\ InOrder(entries)
      BY DEF ListInv, InOrder
    <3>2. i + 1 \in 1..(Len(entries) + 1) /\ (i + 1) - 1 = i /\ End(entries[(i + 1) - 1]) <= e.address
      BY <2>3, <3>1
    <3>3. QED
      BY <2>3, <3>1, <3>2, InsertKeepsOrder
  <2>5. QED
    BY <2>1, <2>2, <2>4, ZeroIsPages DEF Kept, ListInv
<1>4. CASE MmapAtEnd(hint, n)
  <2>1. wild' \in BOOLEAN
    BY <1>4, ReturnsIsBoolean DEF MmapAtEnd
  <2>2. /\ entries # <<>> /\ RoomAtEnd(n) /\ entries' = Append(entries, New(FreeOffset, n))
        /\ pages' = Zero(Span(FreeOffset, n)) /\ peak' = FreeOffset - Base + n
    BY <1>4 DEF MmapAtEnd
  <2>3. InOrder(entries')
    BY <1>1, <2>2, EndFacts
  <2>4. FreeOffset \in Nat /\ FreeOffset >= Base
    BY <2>2, FreeOffsetFacts
  <2>5. peak' \in Nat
    BY <1>1, <2>2, <2>4, RegionFacts
  <2>6. QED
    BY <2>1, <2>2, <2>3, <2>5, ZeroIsPages DEF Kept
<1>5. CASE MmapFails(hint, n)
  BY <1>5, ReturnsIsBoolean, NothingIsKept DEF MmapFails
<1>6. CASE MmapStrays(hint, n)
  BY <1>6, StraysIsKept DEF MmapStrays
<1>7. QED
  BY <1>2, <1>3, <1>4, <1>5, <1>6

LEMMA MmapFixedKeeps == ASSUME ListInv, NEW a, MmapFixed(a) PROVE Kept
  BY ReturnsIsBoolean, NothingIsKept, StraysIsKept DEF MmapFixed

LEMMA Neighbours ==
    ASSUME NEW es, InOrder(es), NEW i \in 1..Len(es)
    PROVE  /\ i > 1 => i - 1 \in 1..Len(es) /\ End(es[i - 1]) <= es[i].address
           /\ i < Len(es) => i + 1 \in 1..Len(es) /\ End(es[i]) <= es[i + 1].address
<1>1. Len(es) \in Nat
  BY DEF InOrder
<1>2. i > 1 => i - 1 \in 1..Len(es) /\ i - 1 < i
  BY <1>1
<1>3. i < Len(es) => i + 1 \in 1..Len(es) /\ i < i + 1
  BY <1>1
<1>4. QED
  BY <1>2, <1>3 DEF InOrder

\* A mapping that loses pages at its start or its end.
LEMMA ShrinkKeepsOrder ==
    ASSUME NEW es, InOrder(es), NEW i \in 1..Len(es), NEW e \in Mapping,
           es[i].address <= e.address, End(e) <= End(es[i])
    PROVE  InOrder([es EXCEPT ![i] = e])
<1>1. e.address \in Nat /\ End(e) \in Nat
  BY DEF Mapping, End
<1>2. /\ es[i].address \in Nat /\ End(es[i]) \in Nat
      /\ Base <= es[i].address /\ End(es[i]) <= Base + Length
  BY OrderFacts DEF InOrder
<1>3. i > 1 => End(es[i - 1]) <= e.address
  BY <1>1, <1>2, OrderFacts, Neighbours
<1>4. i < Len(es) => End(e) <= es[i + 1].address
  BY <1>1, <1>2, OrderFacts, Neighbours
<1>5. Base <= e.address /\ End(e) <= Base + Length
  BY <1>1, <1>2, RegionFacts
<1>6. QED
  BY <1>3, <1>4, <1>5, ReplaceKeepsOrder

LEMMA MatchFacts ==
    ASSUME ListInv, NEW a \in Nat, NEW i \in Matches(a)
    PROVE  i \in 1..Len(entries) /\ entries[i].address = a /\ entries[i] \in Mapping
<1>1. entries \in Seq(Mapping)
  BY DEF ListInv, InOrder
<1>2. i \in 1..Len(entries) /\ entries[i].address = a
  BY Looked
<1>3. QED
  BY <1>1, <1>2

LEMMA MunmapHeadKeeps == ASSUME ListInv, NEW a \in Pages, NEW n \in Lengths, MunmapHead(a, n) PROVE Kept
<1>1. n \in Nat /\ n > 0 /\ a \in Nat
  BY MaxLenAssumption, RegionFacts DEF Lengths, Pages
<1>2. wild' \in BOOLEAN /\ UNCHANGED <<pages, peak>>
  BY ReturnsIsBoolean DEF MunmapHead
<1>3. PICK i \in Matches(a) :
          entries' = IF n < entries[i].length
                     THEN [entries EXCEPT ![i] = New(a + n, entries[i].length - n)]
                     ELSE RemoveAt(entries, i)
  BY DEF MunmapHead
<1>4. i \in 1..Len(entries) /\ entries[i].address = a /\ entries[i].length \in Nat
      /\ End(entries[i]) = a + entries[i].length /\ InOrder(entries)
  BY <1>1, MatchFacts, OrderFacts DEF ListInv
<1>5. CASE n < entries[i].length
  <2> DEFINE e == New(a + n, entries[i].length - n)
  <2>1. e \in Mapping /\ e.address = a + n /\ End(e) = (a + n) + (entries[i].length - n)
    <3>1. a + n \in Nat /\ entries[i].length - n \in Nat /\ entries[i].length - n > 0
      BY <1>1, <1>4, <1>5
    <3>2. QED
      BY <3>1, NewIsMapping
  <2> HIDE DEF e
  <2>2. entries[i].address <= e.address /\ End(e) <= End(entries[i])
    BY <1>1, <1>4, <2>1
  <2>3. InOrder([entries EXCEPT ![i] = e])
    BY <1>4, <2>1, <2>2, ShrinkKeepsOrder
  <2>4. QED
    BY <1>2, <1>3, <1>5, <2>3 DEF Kept, ListInv, e
<1>6. CASE ~(n < entries[i].length)
  BY <1>2, <1>3, <1>4, <1>6, RemoveKeepsOrder DEF Kept, ListInv
<1>7. QED
  BY <1>5, <1>6

LEMMA AroundIsOne ==
    ASSUME ListInv, NEW a \in Nat, NEW n \in Nat, n > 0, Around(a, n) # {}
    PROVE  LET i == Max(Around(a, n))
           IN  /\ i \in 1..Len(entries) /\ entries[i].address < a /\ a < End(entries[i])
               /\ a + n <= End(entries[i])
<1>1. Around(a, n) \subseteq 1..Len(entries) /\ Len(entries) \in Nat
  BY DEF Around, ListInv, InOrder
<1>2. ASSUME NEW i \in Around(a, n), NEW j \in Around(a, n), i < j PROVE FALSE
  <2>1. i \in 1..Len(entries) /\ j \in 1..Len(entries) /\ End(entries[i]) <= entries[j].address
    BY <1>1, <1>2 DEF ListInv, InOrder
  <2>2. a < End(entries[i]) /\ entries[j].address < a
    BY DEF Around
  <2>3. End(entries[i]) \in Nat /\ entries[j].address \in Nat
    BY <2>1, OrderFacts DEF ListInv
  <2>4. QED
    BY <2>1, <2>2, <2>3
<1>3. \A i, j \in Around(a, n) : i >= j
  BY <1>1, <1>2
<1>4. Max(Around(a, n)) \in Around(a, n)
  <2>1. \E i \in Around(a, n) : \A j \in Around(a, n) : i >= j
    BY <1>3
  <2>2. QED
    BY <2>1 DEF Max
<1>5. QED
  BY <1>4 DEF Around, ListInv, InOrder

LEMMA MunmapHoleKeeps == ASSUME ListInv, NEW a \in Pages, NEW n \in Lengths, MunmapHole(a, n) PROVE Kept
<1>1. n \in Nat /\ n > 0 /\ a \in Nat
  BY MaxLenAssumption, RegionFacts DEF Lengths, Pages
<1> DEFINE i == Max(Around(a, n))
           before == New(entries[i].address, a - entries[i].address)
           after == New(a + n, End(entries[i]) - (a + n))
           head == [entries EXCEPT ![i] = before]
<1>2. wild' \in BOOLEAN /\ UNCHANGED <<pages, peak>>
      /\ entries' = IF a + n < End(entries[i]) THEN InsertAt(head, i + 1, after) ELSE head
  BY ReturnsIsBoolean DEF MunmapHole, Punched
<1>3. /\ i \in 1..Len(entries) /\ entries[i].address < a /\ a < End(entries[i])
      /\ a + n <= End(entries[i])
  BY <1>1, AroundIsOne DEF MunmapHole
<1> HIDE DEF i
<1>4. entries[i].address \in Nat /\ End(entries[i]) \in Nat /\ InOrder(entries) /\ Len(entries) \in Nat
      /\ End(entries[i]) <= Base + Length /\ Base <= entries[i].address
  BY <1>3, OrderFacts DEF ListInv, InOrder
<1>5. before \in Mapping /\ before.address = entries[i].address
      /\ End(before) = entries[i].address + (a - entries[i].address)
  <2>1. a - entries[i].address \in Nat /\ a - entries[i].address > 0
    BY <1>1, <1>3, <1>4
  <2>2. QED
    BY <1>4, <2>1, NewIsMapping
<1> HIDE DEF before
<1>6. InOrder(head)
  BY <1>1, <1>3, <1>4, <1>5, ShrinkKeepsOrder
<1>7. /\ Len(head) = Len(entries) /\ head[i] = before
      /\ \A k \in 1..Len(entries) : k # i => head[k] = entries[k]
  BY <1>3, <1>4 DEF InOrder
<1> HIDE DEF head
<1>8. ASSUME a + n < End(entries[i]) PROVE InOrder(InsertAt(head, i + 1, after))
  <2>1. /\ after \in Mapping /\ after.address = a + n
        /\ End(after) = (a + n) + (End(entries[i]) - (a + n))
    <3>1. a + n \in Nat /\ End(entries[i]) - (a + n) \in Nat /\ End(entries[i]) - (a + n) > 0
      BY <1>1, <1>4, <1>8
    <3>2. QED
      BY <3>1, NewIsMapping
  <2> HIDE DEF after
  <2>2. i + 1 \in 1..(Len(head) + 1) /\ (i + 1) - 1 = i
    BY <1>3, <1>4, <1>7
  <2>3. End(after) = End(entries[i]) /\ End(head[i]) <= after.address
    BY <1>1, <1>4, <1>5, <1>7, <2>1
  <2>4. Base <= after.address /\ End(after) <= Base + Length
    BY <1>1, <1>3, <1>4, <2>1, <2>3, RegionFacts
  <2>5. i + 1 <= Len(head) => End(after) <= head[i + 1].address
    <3>1. ASSUME i + 1 <= Len(head) PROVE i < Len(entries) /\ i + 1 \in 1..Len(entries) /\ i + 1 # i
      BY <1>3, <1>4, <1>7, <3>1
    <3>2. QED
      BY <1>3, <1>4, <1>7, <2>3, <3>1, Neighbours
  <2>6. QED
    BY <1>6, <2>1, <2>2, <2>3, <2>4, <2>5, InsertKeepsOrder
<1>9. InOrder(entries')
  BY <1>2, <1>6, <1>8
<1>10. QED
  BY <1>2, <1>9 DEF Kept, ListInv

LEMMA MunmapUnknownKeeps == ASSUME ListInv, NEW a, NEW n, MunmapUnknown(a, n) PROVE Kept
  BY ReturnsIsBoolean, NothingIsKept, StraysIsKept DEF MunmapUnknown

LEMMA CopiedIsPages ==
    ASSUME ListInv, NEW i \in 1..Len(entries), NEW a \in Nat, NEW new \in Nat
    PROVE  Copied(entries[i], a, new) \in [Pages -> Content]
<1>1. /\ entries[i].address \in Nat /\ entries[i].length \in Nat
      /\ Base <= entries[i].address /\ entries[i].address + entries[i].length <= Base + Length
  BY OrderFacts DEF ListInv, InOrder
<1>2. ASSUME NEW p \in Span(a, entries[i].length) PROVE entries[i].address + (p - a) \in Pages
  <2>1. p \in Int /\ a <= p /\ p < a + entries[i].length
    BY <1>1 DEF Span
  <2>2. QED
    BY <1>1, <2>1, RegionFacts DEF Pages
<1>3. \A p \in Pages : (IF p \in Span(a, entries[i].length) THEN pages[entries[i].address + (p - a)]
                        ELSE IF p \in Span(a, new) THEN 0 ELSE pages[p]) \in Content
  <2>1. pages \in [Pages -> Content]
    BY DEF ListInv
  <2>2. QED
    BY <1>2, <2>1, ContentAssumption
<1>4. QED
  BY <1>3 DEF Copied

LEMMA MremapInPlaceKeeps ==
    ASSUME ListInv, PastEndIsInside, NEW a \in Pages, NEW old \in Lengths, NEW new \in Lengths,
           NEW past \in PastEnd, ~Overruns(a, old, new), MremapInPlace(a, old, new, past)
    PROVE  Kept
<1>1. new \in Nat /\ new > 0 /\ old \in Nat /\ a \in Nat
  BY MaxLenAssumption, RegionFacts DEF Lengths, Pages
<1>2. wild' \in BOOLEAN /\ UNCHANGED <<pages, peak>>
  BY ReturnsIsBoolean DEF MremapInPlace
<1> DEFINE e == New(a, new)
<1>3. PICK i \in Matches(a) : /\ new <= old \/ GrowsInPlace(i, new, past)
                              /\ entries' = [entries EXCEPT ![i] = e]
  BY DEF MremapInPlace
<1>4. /\ i \in 1..Len(entries) /\ entries[i].address = a /\ entries[i].length \in Nat
      /\ End(entries[i]) = a + entries[i].length /\ InOrder(entries) /\ Len(entries) \in Nat
      /\ Base <= a /\ End(entries[i]) <= Base + Length
  <2>1. i \in 1..Len(entries) /\ entries[i].address = a /\ InOrder(entries)
    BY <1>1, MatchFacts DEF ListInv
  <2>2. /\ entries[i].length \in Nat /\ End(entries[i]) = a + entries[i].length
        /\ Len(entries) \in Nat
    BY <2>1, OrderFacts
  <2>3. Base <= a /\ End(entries[i]) <= Base + Length
    BY <2>1 DEF InOrder
  <2>4. QED
    BY <2>1, <2>2, <2>3
<1>5. e \in Mapping /\ e.address = a /\ End(e) = a + new
  BY <1>1, NewIsMapping
<1> HIDE DEF e
<1>6. CASE new <= old
  <2>1. new <= entries[i].length
    BY <1>1, <1>3, <1>4, <1>6 DEF Overruns
  <2>2. entries[i].address <= e.address /\ End(e) <= End(entries[i])
    BY <1>1, <1>4, <1>5, <1>6, <2>1
  <2>3. QED
    BY <1>2, <1>3, <1>4, <1>5, <2>2, ShrinkKeepsOrder DEF Kept, ListInv
<1>7. CASE GrowsInPlace(i, new, past)
  <2>1. i < Len(entries) => End(e) <= entries[i + 1].address /\ End(e) <= Base + Length
    <3>1. ASSUME i < Len(entries) PROVE End(e) <= entries[i + 1].address /\ End(e) <= Base + Length
      <4>1. i # Len(entries) /\ i + 1 \in 1..Len(entries)
        BY <1>4, <3>1
      <4>2. a + new < entries[i + 1].address
        BY <1>4, <1>7, <4>1 DEF GrowsInPlace
      <4>3. /\ entries[i + 1].address \in Nat /\ End(entries[i + 1]) \in Nat
            /\ entries[i + 1].address < End(entries[i + 1]) /\ End(entries[i + 1]) <= Base + Length
        BY <4>1, OrderFacts DEF ListInv, InOrder
      <4>4. QED
        BY <1>1, <1>5, <4>2, <4>3, RegionFacts
    <3>2. QED
      BY <3>1
  <2>2. i = Len(entries) => End(e) <= Base + Length
    <3>1. past \in Nat /\ past <= Base + Length + 1
      BY RegionFacts DEF PastEndIsInside
    <3>2. i = Len(entries) => a + new <= Length \/ a + new < past
      BY <1>4, <1>7 DEF GrowsInPlace
    <3>3. QED
      BY <1>1, <1>5, <3>1, <3>2, RegionFacts
  <2>3. End(e) <= Base + Length
    BY <1>4, <2>1, <2>2
  <2>4. i > 1 => End(entries[i - 1]) <= e.address
    BY <1>4, <1>5, Neighbours
  <2>5. InOrder([entries EXCEPT ![i] = e])
    BY <1>4, <1>5, <2>1, <2>3, <2>4, ReplaceKeepsOrder
  <2>6. QED
    BY <1>2, <1>3, <2>5 DEF Kept, ListInv
<1>8. QED
  BY <1>3, <1>6, <1>7

\* The second search finds the mapping to erase.
LEMMA GapIsSearched ==
    ASSUME ListInv, NEW a \in Nat, NEW new \in Nat, new > 0, Gaps(new, 0) # {},
           NEW i \in 1..Len(entries), entries[i].address = a
    PROVE  /\ binary_search(InsertedInGap(new), a) \in Nat
           /\ binary_search(InsertedInGap(new), a) + 1 = IF i <= Min(Gaps(new, 0)) THEN i ELSE i + 1
<1> DEFINE g == Min(Gaps(new, 0))
           to == End(entries[g])
           e == New(to, new)
           inserted == InsertAt(entries, g + 1, e)
<1>1. InsertedInGap(new) = inserted
  BY DEF InsertedInGap
<1>2. /\ g \in 1..(Len(entries) - 1) /\ e \in Mapping /\ e.address = End(entries[g])
      /\ End(e) <= entries[g + 1].address /\ Base <= e.address /\ End(e) <= Base + Length
      /\ End(entries[g]) \in Nat
  BY GapFacts
<1>3. Len(entries) \in Nat /\ InOrder(entries)
  BY DEF ListInv, InOrder
<1> DEFINE k == g + 1
           j == IF i < k THEN i ELSE i + 1
<1>4. k \in 1..(Len(entries) + 1) /\ k - 1 = g /\ j = (IF i <= g THEN i ELSE i + 1) /\ j \in Nat /\ j > 0
  BY <1>2, <1>3
<1>5. InOrder(inserted) /\ j \in 1..Len(inserted) /\ inserted[j] = entries[i]
  <2>1. End(entries[k - 1]) <= e.address /\ End(e) <= entries[k].address
    BY <1>2, <1>4
  <2> HIDE DEF g, e
  <2>2. InOrder(InsertAt(entries, k, e))
    <3> HIDE DEF k
    <3>1. QED
      BY <1>2, <1>3, <1>4, <2>1, InsertKeepsOrder
  <2>3. /\ j \in 1..Len(InsertAt(entries, k, e)) /\ InsertAt(entries, k, e)[j] = entries[i]
    <3> HIDE DEF k
    <3>1. QED
      BY <1>2, <1>3, <1>4, InsertedFacts
  <2>4. QED
    BY <2>2, <2>3
<1> HIDE DEF inserted, j, k, g
<1>6. binary_search(inserted, a) = j - 1 /\ j - 1 \in Nat /\ (j - 1) + 1 = j
  BY <1>4, <1>5, SearchFindsAt
<1>7. QED
  BY <1>1, <1>4, <1>6 DEF g

LEMMA MremapToGapErases ==
    ASSUME ListInv, NEW a \in Pages, NEW old, NEW new \in Lengths, NEW past, MremapToGap(a, old, new, past)
    PROVE  LET g == Min(Gaps(new, 0))
               to == End(entries[g])
               inserted == InsertAt(entries, g + 1, New(to, new))
           IN  \E i \in Matches(a) :
                  /\ entries[i].length <= new
                  /\ entries' = RemoveAt(inserted, IF i <= g THEN i ELSE i + 1)
                  /\ pages' = Copied(entries[i], to, new)
                  /\ call' = Remapped(a, old, new, to)
<1>1. new \in Nat /\ new > 0 /\ a \in Nat
  BY MaxLenAssumption, RegionFacts DEF Lengths, Pages
<1> DEFINE g == Min(Gaps(new, 0))
           to == End(entries[g])
           inserted == InsertAt(entries, g + 1, New(to, new))
<1>2. Gaps(new, 0) # {} /\ Home(new, 0) = to /\ InsertedInGap(new) = inserted
  BY DEF MremapToGap, Home, InsertedInGap
<1>3. PICK i \in Matches(a) :
          /\ CanCopy(entries[i], Home(new, 0), new)
          /\ entries' = RemoveAt(InsertedInGap(new), binary_search(InsertedInGap(new), a) + 1)
          /\ pages' = Copied(entries[i], Home(new, 0), new)
  BY DEF MremapToGap
<1>4. i \in 1..Len(entries) /\ entries[i].address = a
  BY <1>1, MatchFacts
<1>5. binary_search(InsertedInGap(new), a) + 1 = IF i <= g THEN i ELSE i + 1
  BY <1>1, <1>2, <1>4, GapIsSearched
<1>6. entries[i].length <= new
  BY <1>3 DEF CanCopy
<1>7. call' = Remapped(a, old, new, to)
  BY <1>2 DEF MremapToGap, Returns
<1> HIDE DEF g, to, inserted
<1>8. entries' = RemoveAt(inserted, IF i <= g THEN i ELSE i + 1) /\ pages' = Copied(entries[i], to, new)
  BY <1>2, <1>3, <1>5
<1>9. QED
  BY <1>6, <1>7, <1>8 DEF g, to, inserted

LEMMA MremapToGapKeeps ==
    ASSUME ListInv, NEW a \in Pages, NEW old, NEW new \in Lengths, NEW past, MremapToGap(a, old, new, past)
    PROVE  Kept
<1>1. new \in Nat /\ new > 0 /\ a \in Nat
  BY MaxLenAssumption, RegionFacts DEF Lengths, Pages
<1>2. wild' \in BOOLEAN /\ UNCHANGED peak /\ Gaps(new, 0) # {}
  BY ReturnsIsBoolean DEF MremapToGap
<1> DEFINE g == Min(Gaps(new, 0))
           e == New(End(entries[g]), new)
           inserted == InsertAt(entries, g + 1, e)
<1>3. PICK i \in Matches(a) :
          /\ entries' = RemoveAt(inserted, IF i <= g THEN i ELSE i + 1)
          /\ pages' = Copied(entries[i], End(entries[g]), new)
  BY MremapToGapErases
<1>4. /\ g \in 1..(Len(entries) - 1) /\ e \in Mapping /\ e.address = End(entries[g])
      /\ End(e) <= entries[g + 1].address /\ Base <= e.address /\ End(e) <= Base + Length
      /\ End(entries[g]) \in Nat
  BY <1>1, <1>2, GapFacts
<1> HIDE DEF g, e
<1>5. i \in 1..Len(entries) /\ Len(entries) \in Nat /\ InOrder(entries)
  BY <1>1, MatchFacts DEF ListInv, InOrder
<1>6. InOrder(inserted) /\ Len(inserted) = Len(entries) + 1
  <2>1. g + 1 \in 1..(Len(entries) + 1) /\ (g + 1) - 1 = g /\ End(entries[(g + 1) - 1]) <= e.address
    BY <1>4, <1>5
  <2>2. InOrder(inserted)
    BY <1>4, <1>5, <2>1, InsertKeepsOrder
  <2>3. Len(inserted) = Len(entries) + 1
    BY <1>4, <1>5, <2>1, InsertAtFacts DEF InOrder
  <2>4. QED
    BY <2>2, <2>3
<1> HIDE DEF inserted
<1>7. (IF i <= g THEN i ELSE i + 1) \in 1..Len(inserted)
  BY <1>4, <1>5, <1>6
<1>8. InOrder(entries')
  BY <1>3, <1>6, <1>7, RemoveKeepsOrder
<1>9. pages' \in [Pages -> Content]
  BY <1>1, <1>3, <1>4, <1>5, CopiedIsPages
<1>10. QED
  BY <1>2, <1>8, <1>9 DEF Kept, ListInv

LEMMA MremapToEndKeeps ==
    ASSUME ListInv, NEW a \in Pages, NEW old, NEW new \in Lengths, NEW past, MremapToEnd(a, old, new, past)
    PROVE  Kept
<1>1. new \in Nat /\ new > 0 /\ a \in Nat
  BY MaxLenAssumption, RegionFacts DEF Lengths, Pages
<1>2. wild' \in BOOLEAN /\ peak' = FreeOffset - Base + new
  BY ReturnsIsBoolean DEF MremapToEnd
<1> DEFINE longer == Append(entries, New(FreeOffset, new))
<1>3. PICK i \in Matches(a) : /\ RoomAtEnd(new)
                              /\ entries' = RemoveAt(longer, i)
                              /\ pages' = Copied(entries[i], FreeOffset, new)
  BY DEF MremapToEnd
<1>4. i \in 1..Len(entries) /\ Len(entries) \in Nat /\ entries \in Seq(Mapping)
  BY <1>1, MatchFacts DEF ListInv, InOrder
<1>5. entries # <<>>
  BY <1>4
<1>6. FreeOffset \in Nat /\ FreeOffset >= Base
  BY <1>5, FreeOffsetFacts
<1>7. InOrder(longer) /\ Len(longer) = Len(entries) + 1
  <2>1. InOrder(longer)
    BY <1>1, <1>3, <1>5, EndFacts
  <2>2. Len(longer) = Len(entries) + 1
    BY <1>4
  <2>3. QED
    BY <2>1, <2>2
<1> HIDE DEF longer
<1>8. InOrder(entries')
  <2>1. i \in 1..Len(longer)
    BY <1>4, <1>7
  <2>2. QED
    BY <1>3, <1>7, <2>1, RemoveKeepsOrder
<1>9. pages' \in [Pages -> Content]
  BY <1>1, <1>3, <1>4, <1>6, CopiedIsPages
<1>10. peak' \in Nat
  BY <1>1, <1>2, <1>6, RegionFacts
<1>11. QED
  BY <1>2, <1>8, <1>9, <1>10 DEF Kept

LEMMA MremapKeeps ==
    ASSUME ListInv, PastEndIsInside, NEW a \in Pages, NEW old \in Lengths, NEW new \in Lengths,
           NEW may_move \in BOOLEAN, NEW past \in PastEnd, ~Overruns(a, old, new),
           Mremap(a, old, new, may_move, past)
    PROVE  Kept
<1>1. CASE MremapStrays(a, old, new, may_move, past)
  BY <1>1, StraysIsKept DEF MremapStrays
<1>2. CASE MremapFails(a, old, new, may_move, past)
  BY <1>2, ReturnsIsBoolean, NothingIsKept DEF MremapFails
<1>3. QED
  BY <1>1, <1>2, MremapInPlaceKeeps, MremapToGapKeeps, MremapToEndKeeps DEF Mremap

\* A mapping remapped whole is not lengthened where it is taken to shrink.
LEMMA WholeIsNotOverrun ==
    ASSUME ListInv, NEW a \in Nat, NEW old \in Nat, NEW new \in Nat, Whole(a, old), Overruns(a, old, new)
    PROVE  FALSE
<1>1. PICK w \in DOMAIN entries : entries[w] = New(a, old)
  BY DEF Whole
<1>2. PICK i \in Matches(a) : entries[i].length < new /\ new <= old
  BY DEF Overruns
<1>3. w \in 1..Len(entries) /\ entries[w].address = a /\ entries[w].length = old /\ InOrder(entries)
  BY <1>1 DEF ListInv, InOrder, New
<1>4. i \in 1..Len(entries) /\ entries[i].address = a
  BY MatchFacts
<1>5. i - 1 = w - 1
  BY <1>3, <1>4, SearchFindsAt
<1>6. i = w
  BY <1>3, <1>4, <1>5
<1>7. QED
  BY <1>2, <1>3, <1>6

LEMMA StoreKeeps == ASSUME ListInv, NEW p, NEW v \in Content, Store(p, v) PROVE Kept
<1>1. pages' \in [Pages -> Content]
  BY DEF Store, ListInv
<1>2. QED
  BY <1>1, ReturnsIsBoolean DEF Store, Kept, ListInv

-----------------------------------------------------------------------------
(* The invariant *)

\* The list is as ListInv says until the guest overruns, which it does only by
\* straying.
IInv ==
    /\ strayed \in BOOLEAN /\ overran \in BOOLEAN
    /\ overran => strayed
    /\ ~overran => ListInv

LEMMA InitIInv == ASSUME Init PROVE IInv
<1>1. InOrder(<<>>)
  BY DEF InOrder
<1>2. QED
  BY <1>1, ContentAssumption DEF Init, IInv, ListInv

\* What History says, with its Boolean arguments for all to see.
LEMMA HistoryFacts ==
    ASSUME IInv, NEW yes, NEW over, History(yes, over)
    PROVE  /\ strayed' \in BOOLEAN /\ overran' \in BOOLEAN
           /\ ~strayed' => ~strayed /\ yes
           /\ ~overran' => ~overran /\ ~over
           /\ overran' => overran \/ over
           /\ strayed => strayed'
           /\ ~yes => strayed'
  BY Zenon DEF History, Proper, IInv

LEMMA CallHistory ==
    ASSUME IInv, Call
    PROVE  /\ strayed' \in BOOLEAN /\ overran' \in BOOLEAN
           /\ strayed => strayed'
           /\ ~overran' => ~overran
  <1>1. \E yes, over : History(yes, over)
    BY Zenon DEF Call
  <1>2. QED
    BY <1>1, HistoryFacts, Zenon

LEMMA NextIInv == ASSUME PastEndIsInside, IInv, [Next]_vars PROVE IInv'
<1>1. CASE UNCHANGED vars
  BY <1>1 DEF vars, IInv, ListInv
<1>2. CASE Call
  <2>1. strayed' \in BOOLEAN /\ overran' \in BOOLEAN /\ (strayed => strayed') /\ (~overran' => ~overran)
    BY <1>2, CallHistory
  <2>2. ASSUME ~overran' PROVE ListInv'
    <3>1. ~overran /\ ListInv
      BY <2>1, <2>2 DEF IInv
    <3>2. ASSUME NEW yes, NEW over, History(yes, over) PROVE ~over
      BY <2>2, <3>2, HistoryFacts, Zenon
    <3>3. ASSUME NEW a \in Pages, NEW old \in Lengths, NEW new \in Lengths, NEW may_move \in BOOLEAN,
                 NEW past \in PastEnd, Mremap(a, old, new, may_move, past),
                 History(Whole(a, old), Overruns(a, old, new))
          PROVE  Kept
      <4>1. ~Overruns(a, old, new)
        BY <3>2, <3>3, Zenon
      <4>2. QED
        BY <3>1, <3>3, <4>1, MremapKeeps
    <3>4. Kept
      BY <1>2, <3>1, <3>3, MmapKeeps, MmapFixedKeeps, MunmapHeadKeeps, MunmapHoleKeeps,
         MunmapUnknownKeeps, StoreKeeps DEF Call
    <3>5. QED
      BY <2>1, <3>4 DEF Kept, ListInv
  <2>3. ASSUME overran' PROVE strayed'
    <3>1. CASE overran
      BY <2>1, <3>1 DEF IInv
    <3>2. CASE ~overran
      <4>1. ASSUME NEW yes, History(yes, FALSE) PROVE FALSE
        BY <2>3, <3>2, <4>1, HistoryFacts, Zenon
      <4>2. PICK a \in Pages, old \in Lengths, new \in Lengths :
                History(Whole(a, old), Overruns(a, old, new))
        BY <1>2, <4>1, Zenon DEF Call
      <4>3. ListInv /\ a \in Nat /\ old \in Nat /\ old > 0 /\ new \in Nat
        BY <3>2, MaxLenAssumption, RegionFacts DEF IInv, Lengths, Pages
      <4>4. ~Whole(a, old) \/ ~Overruns(a, old, new)
        BY <4>3, WholeIsNotOverrun
      <4>5. Overruns(a, old, new)
        BY <2>3, <3>2, <4>2, Zenon DEF History
      <4>6. QED
        BY <4>2, <4>4, <4>5, Zenon DEF History, Proper
    <3>3. QED
      BY <3>1, <3>2
  <2>4. QED
    BY <2>1, <2>2, <2>3 DEF IInv
<1>3. QED
  BY <1>1, <1>2 DEF Next

LEMMA ListInvMeans == ASSUME IInv PROVE Validate
<1> SUFFICES ASSUME ~overran PROVE Validate
  BY DEF Validate
<1>0. ListInv
  BY DEF IInv
<1>1. entries \in Seq(Mapping) /\ Len(entries) \in Nat
  BY <1>0 DEF ListInv, InOrder
<1>2. entries \in Seq(Entry)
  <2>1. \A i \in 1..Len(entries) : entries[i] \in Entry
    <3>1. Mapping \subseteq Entry
      BY DEF Mapping, Entry
    <3>2. QED
      BY <1>1, <3>1
  <2>2. QED
    BY <1>1, <2>1
<1>3. TypeOK
  BY <1>0, <1>2 DEF ListInv, TypeOK
<1>4. ASSUME NEW i \in 1..(Len(entries) - 1)
      PROVE  entries[i].address < entries[i + 1].address /\ End(entries[i]) <= entries[i + 1].address
  <2>1. i \in 1..Len(entries) /\ i + 1 \in 1..Len(entries) /\ i < i + 1
    BY <1>1
  <2>2. End(entries[i]) <= entries[i + 1].address
    BY <1>0, <2>1 DEF ListInv, InOrder
  <2>3. QED
    BY <1>0, <2>1, <2>2, OrderFacts DEF ListInv
<1>5. QED
  BY <1>0, <1>3, <1>4, FreeOffsetFacts DEF Validate

\* The mappings are in order, apart from one another and within the region
\* after any calls, for a region and for mappings of any length, until the
\* guest has mremap lengthen a mapping by an old length that goes past it; if
\* what the slot past the last entry reads as is no address past the region.
THEOREM MappingsAreAlwaysValid == ASSUME PastEndIsInside PROVE Spec => []Validate
<1>1. Init => IInv
  BY InitIInv
<1>2. IInv /\ [Next]_vars => IInv'
  BY NextIInv
<1>3. IInv => Validate
  BY ListInvMeans
<1>4. QED
  BY <1>1, <1>2, <1>3, PTL DEF Spec

\* The search finds an entry by its address if there is one, in a list of any
\* length that calls can have made before the guest has mremap lengthen a
\* mapping by an old length that goes past it; and it leaves the list for an
\* address below the first entry and for no other.
THEOREM SearchIsAlwaysExact == ASSUME PastEndIsInside PROVE Spec => []SearchIsExact
<1>1. ASSUME IInv PROVE SearchIsExact
  <2> SUFFICES ASSUME ~overran, NEW a \in Pages
               PROVE  LET r == binary_search(entries, a)
                      IN  /\ r = -2 <=> entries # << >> /\ a < entries[1].address
                          /\ r >= 0 => entries[r + 1].address = a
                          /\ r = -1 => \A i \in DOMAIN entries : entries[i].address # a
    BY DEF SearchIsExact
  <2>1. a \in Nat
    BY RegionFacts DEF Pages
  <2>2. InOrder(entries) /\ DOMAIN entries = 1..Len(entries)
    BY <1>1 DEF IInv, ListInv, InOrder
  <2>3. QED
    BY <2>1, <2>2, SearchFinds DEF Below
<1>2. Spec => []IInv
  <2>1. Init => IInv
    BY InitIInv
  <2>2. IInv /\ [Next]_vars => IInv'
    BY NextIInv
  <2>3. QED
    BY <2>1, <2>2, PTL DEF Spec
<1>3. QED
  BY <1>1, <1>2, PTL

-----------------------------------------------------------------------------
(* The pages of a list *)

Block(e) == Span(e.address, e.length)
CoveredBy(es) == UNION {Span(es[i].address, es[i].length) : i \in DOMAIN es}

\* The mapping of AddressSpace: the guest's view of the pages.
Held == [p \in Covered |-> pages[p]]

LEMMA InBlock ==
    ASSUME NEW e \in Mapping, NEW p
    PROVE  p \in Block(e) <=> p \in Int /\ e.address <= p /\ p < End(e)
  BY DEF Block, Span, Mapping, End

LEMMA CoveredMeans ==
    ASSUME NEW es, InOrder(es), NEW p
    PROVE  p \in CoveredBy(es) <=> \E k \in 1..Len(es) : p \in Block(es[k])
<1>1. DOMAIN es = 1..Len(es)
  BY DEF InOrder
<1>2. QED
  BY <1>1 DEF CoveredBy, Block

LEMMA BlocksApart ==
    ASSUME NEW es, InOrder(es), NEW k \in 1..Len(es), NEW l \in 1..Len(es), NEW p,
           p \in Block(es[k]), p \in Block(es[l])
    PROVE  k = l
<1>1. \A i, j \in 1..Len(es) : i < j => End(es[i]) <= es[j].address
  BY DEF InOrder
<1>2. Len(es) \in Nat /\ es[k] \in Mapping /\ es[l] \in Mapping
      /\ es[k].address \in Nat /\ es[l].address \in Nat /\ End(es[k]) \in Nat /\ End(es[l]) \in Nat
  BY OrderFacts
<1>3. p \in Int /\ es[k].address <= p /\ p < End(es[k]) /\ es[l].address <= p /\ p < End(es[l])
  BY <1>2, InBlock
<1>4. QED
  BY <1>1, <1>2, <1>3

LEMMA CoveredIsPages == ASSUME NEW es, InOrder(es) PROVE CoveredBy(es) \subseteq Pages
<1> SUFFICES ASSUME NEW p \in CoveredBy(es) PROVE p \in Pages
  OBVIOUS
<1>1. PICK k \in 1..Len(es) : p \in Block(es[k])
  BY CoveredMeans
<1>2. /\ es[k] \in Mapping /\ es[k].address \in Nat /\ End(es[k]) \in Nat
      /\ Base <= es[k].address /\ End(es[k]) <= Base + Length
  BY OrderFacts DEF InOrder
<1>3. p \in Int /\ es[k].address <= p /\ p < End(es[k])
  BY <1>1, <1>2, InBlock
<1>4. QED
  BY <1>2, <1>3, RegionFacts DEF Pages

\* An insertion that leaves the list in order adds pages that were not there.
LEMMA CoveredFacts ==
    /\ InOrder(entries) => Covered = CoveredBy(entries)
    /\ InOrder(entries') => Covered' = CoveredBy(entries')
<1>1. Covered = Pages \cap CoveredBy(entries) /\ Covered' = Pages \cap CoveredBy(entries')
  BY DEF Covered, CoveredBy
<1>2. QED
  BY <1>1, CoveredIsPages

LEMMA CoveredByInsert ==
    ASSUME NEW es, InOrder(es), NEW i \in 1..(Len(es) + 1), NEW e \in Mapping, InOrder(InsertAt(es, i, e))
    PROVE  CoveredBy(InsertAt(es, i, e)) = CoveredBy(es) \cup Block(e) /\ Block(e) \cap CoveredBy(es) = {}
<1> DEFINE new == InsertAt(es, i, e)
           place(k) == IF k < i THEN k ELSE k + 1
<1>1. es \in Seq(Mapping) /\ Len(es) \in Nat
  BY DEF InOrder
<1>2. /\ Len(new) = Len(es) + 1
      /\ \A k \in 1..(Len(es) + 1) : new[k] = IF k < i THEN es[k] ELSE IF k = i THEN e ELSE es[k - 1]
  BY <1>1, InsertAtFacts
<1>3. InOrder(new)
  OBVIOUS
<1> HIDE DEF new
<1>4. i \in 1..Len(new) /\ new[i] = e
  BY <1>1, <1>2
<1>5. \A k \in 1..Len(es) : place(k) \in 1..Len(new) /\ place(k) # i /\ new[place(k)] = es[k]
  BY <1>1, <1>2
<1>6. \A l \in 1..Len(new) : l = i \/ \E k \in 1..Len(es) : l = place(k)
  <2> SUFFICES ASSUME NEW l \in 1..Len(new), l # i PROVE \E k \in 1..Len(es) : l = place(k)
    OBVIOUS
  <2>1. CASE l < i
    <3>1. l \in 1..Len(es) /\ place(l) = l
      BY <1>1, <1>2, <2>1
    <3>2. QED
      BY <3>1
  <2>2. CASE l > i
    <3>1. l - 1 \in 1..Len(es) /\ place(l - 1) = l
      BY <1>1, <1>2, <2>2
    <3>2. QED
      BY <3>1
  <2>3. QED
    BY <1>1, <1>2, <2>1, <2>2
<1> HIDE DEF place
<1>7. ASSUME NEW p PROVE p \in CoveredBy(new) <=> p \in CoveredBy(es) \/ p \in Block(e)
  <2>1. p \in CoveredBy(new) <=> \E l \in 1..Len(new) : p \in Block(new[l])
    BY <1>3, CoveredMeans
  <2>2. p \in CoveredBy(es) <=> \E k \in 1..Len(es) : p \in Block(es[k])
    BY CoveredMeans
  <2>3. QED
    BY <1>4, <1>5, <1>6, <2>1, <2>2
<1>8. ASSUME NEW p \in Block(e), p \in CoveredBy(es) PROVE FALSE
  <2>1. PICK k \in 1..Len(es) : p \in Block(es[k])
    BY <1>8, CoveredMeans
  <2>2. place(k) = i
    BY <1>3, <1>4, <1>5, <2>1, BlocksApart
  <2>3. QED
    BY <1>5, <2>2
<1>9. QED
  BY <1>7, <1>8 DEF new

LEMMA CoveredByRemove ==
    ASSUME NEW es, InOrder(es), NEW i \in 1..Len(es)
    PROVE  CoveredBy(RemoveAt(es, i)) = CoveredBy(es) \ Block(es[i])
<1> DEFINE new == RemoveAt(es, i)
           old(k) == IF k < i THEN k ELSE k + 1
<1>1. es \in Seq(Mapping) /\ Len(es) \in Nat
  BY DEF InOrder
<1>2. /\ Len(new) = Len(es) - 1
      /\ \A k \in 1..(Len(es) - 1) : new[k] = IF k < i THEN es[k] ELSE es[k + 1]
  BY <1>1, RemoveAtFacts
<1>3. InOrder(new)
  BY RemoveKeepsOrder
<1> HIDE DEF new
<1>4. \A k \in 1..Len(new) : old(k) \in 1..Len(es) /\ old(k) # i /\ new[k] = es[old(k)]
  BY <1>1, <1>2
<1>5. \A l \in 1..Len(es) : l = i \/ \E k \in 1..Len(new) : l = old(k)
  <2> SUFFICES ASSUME NEW l \in 1..Len(es), l # i PROVE \E k \in 1..Len(new) : l = old(k)
    OBVIOUS
  <2>1. CASE l < i
    <3>1. l \in 1..Len(new) /\ old(l) = l
      BY <1>1, <1>2, <2>1
    <3>2. QED
      BY <3>1
  <2>2. CASE l > i
    <3>1. l - 1 \in 1..Len(new) /\ old(l - 1) = l
      BY <1>1, <1>2, <2>2
    <3>2. QED
      BY <3>1
  <2>3. QED
    BY <1>1, <2>1, <2>2
<1> HIDE DEF old
<1>6. ASSUME NEW p PROVE p \in CoveredBy(new) <=> p \in CoveredBy(es) /\ p \notin Block(es[i])
  <2>1. p \in CoveredBy(new) <=> \E l \in 1..Len(new) : p \in Block(new[l])
    BY <1>3, CoveredMeans
  <2>2. p \in CoveredBy(es) <=> \E k \in 1..Len(es) : p \in Block(es[k])
    BY CoveredMeans
  <2>3. \A k \in 1..Len(es) : p \in Block(es[k]) /\ p \in Block(es[i]) => k = i
    BY BlocksApart
  <2>4. QED
    BY <1>4, <1>5, <2>1, <2>2, <2>3
<1>7. QED
  BY <1>6 DEF new

LEMMA CoveredByReplace ==
    ASSUME NEW es, InOrder(es), NEW i \in 1..Len(es), NEW e \in Mapping, InOrder([es EXCEPT ![i] = e])
    PROVE  /\ CoveredBy([es EXCEPT ![i] = e]) = (CoveredBy(es) \ Block(es[i])) \cup Block(e)
           /\ Block(e) \cap (CoveredBy(es) \ Block(es[i])) = {}
<1> DEFINE new == [es EXCEPT ![i] = e]
<1>1. es \in Seq(Mapping) /\ Len(es) \in Nat
  BY DEF InOrder
<1>2. Len(new) = Len(es) /\ \A k \in 1..Len(es) : new[k] = IF k = i THEN e ELSE es[k]
  BY <1>1
<1>3. InOrder(new)
  OBVIOUS
<1> HIDE DEF new
<1>4. ASSUME NEW p
      PROVE  /\ p \in CoveredBy(new) <=> (p \in CoveredBy(es) /\ p \notin Block(es[i])) \/ p \in Block(e)
             /\ p \in Block(e) => ~(p \in CoveredBy(es) /\ p \notin Block(es[i]))
  <2>1. p \in CoveredBy(new) <=> \E l \in 1..Len(es) : p \in Block(new[l])
    BY <1>2, <1>3, CoveredMeans
  <2>2. p \in CoveredBy(es) <=> \E k \in 1..Len(es) : p \in Block(es[k])
    BY CoveredMeans
  <2>3. \A k \in 1..Len(es) : p \in Block(es[k]) /\ p \in Block(es[i]) => k = i
    BY BlocksApart
  <2>4. \A k \in 1..Len(es) : p \in Block(new[k]) /\ p \in Block(new[i]) => k = i
    BY <1>2, <1>3, BlocksApart
  <2>5. new[i] = e /\ \A k \in 1..Len(es) : k # i => new[k] = es[k]
    BY <1>2
  <2>6. QED
    BY <2>1, <2>2, <2>3, <2>4, <2>5
<1>5. QED
  BY <1>4 DEF new

LEMMA CoveredByAppend ==
    ASSUME NEW es, InOrder(es), NEW e \in Mapping, InOrder(Append(es, e))
    PROVE  CoveredBy(Append(es, e)) = CoveredBy(es) \cup Block(e) /\ Block(e) \cap CoveredBy(es) = {}
<1> DEFINE i == Len(es) + 1
<1>1. i \in 1..(Len(es) + 1)
  BY DEF InOrder
<1>2. InsertAt(es, i, e) = Append(es, e)
  BY AppendIsInsert DEF InOrder
<1> HIDE DEF i
<1>3. InOrder(InsertAt(es, i, e))
  BY <1>2
<1>4. CoveredBy(InsertAt(es, i, e)) = CoveredBy(es) \cup Block(e) /\ Block(e) \cap CoveredBy(es) = {}
  BY <1>1, <1>3, CoveredByInsert
<1>5. QED
  BY <1>2, <1>4

-----------------------------------------------------------------------------
(* What is a step of AddressSpace *)

LEMMA MapsPages ==
    ASSUME ListInv, NEW a \in Nat, NEW n \in Nat, call' = Mapped(n, a),
           Covered' = Covered \cup Span(a, n), Span(a, n) \cap Covered = {}, Span(a, n) \subseteq Pages,
           pages' = Zero(Span(a, n)), Covered \subseteq Pages
    PROVE  View!Mmap
<1> DEFINE new == Span(a, n)
<1>1. call'.op = "mmap" /\ call'.result = a /\ call'.len = n
  BY DEF Mapped
<1>2. [p \in Covered' |-> pages'[p]] = View!With([p \in Covered |-> pages[p]], [p \in new |-> 0])
  BY DEF View!With, Zero
<1>3. View!Span(a, n) = new
  BY DEF View!Span, Span
<1> HIDE DEF new
<1>4. new \subseteq Pages \ DOMAIN [p \in Covered |-> pages[p]]
  BY DEF new
<1>5. QED
  BY <1>1, <1>2, <1>3, <1>4 DEF View!Mmap

LEMMA FailsToMap ==
    ASSUME NEW n, call' = Mapped(n, 0), UNCHANGED <<entries, pages>> PROVE View!Mmap
<1>1. call'.op = "mmap" /\ call'.result = 0
  BY DEF Mapped
<1>2. Covered' = Covered /\ pages' = pages
  BY DEF Covered
<1>3. QED
  BY <1>1, <1>2 DEF View!Mmap, View!Fail

LEMMA UnmapsPages ==
    ASSUME NEW a, NEW n, NEW ok, call' = Unmapped(a, n, ok),
           Covered' = Covered \ Span(a, n), pages' = pages
    PROVE  View!Munmap
<1>1. call'.op = "munmap" /\ call'.addr = a /\ call'.len = n
  BY DEF Unmapped
<1>2. [p \in Covered' |-> pages'[p]] = View!Without([p \in Covered |-> pages[p]], Span(a, n))
  BY DEF View!Without
<1>3. View!Span(a, n) = Span(a, n)
  BY DEF View!Span, Span
<1>4. QED
  BY <1>1, <1>2, <1>3 DEF View!Munmap

\* A step that takes the pages of the first block to the second one.
Remaps(a, old, new, r) ==
    /\ call' = Remapped(a, old, new, r) /\ pages' \in [Pages -> Content]
    /\ Covered' = (Covered \ Span(a, old)) \cup Span(r, new)
    /\ Span(r, new) \cap (Covered \ Span(a, old)) = {} /\ Span(r, new) \subseteq Pages
    /\ Span(a, old) \subseteq Covered
    /\ \A p \in Covered \ Span(a, old) : pages'[p] = pages[p]
    /\ \A p \in Span(r, new) : /\ p - r < old => pages'[p] = pages[a + (p - r)]
                               /\ p - r >= old /\ r # a => pages'[p] = 0

LEMMA RemapsPages ==
    ASSUME NEW a \in Nat, NEW old \in Nat, NEW new \in Nat, NEW r \in Nat, Remaps(a, old, new, r)
    PROVE  View!Mremap
<1> USE DEF Remaps
<1> DEFINE from == Span(a, old)
           to == Span(r, new)
           rest == View!Without([p \in Covered |-> pages[p]], from)
           content == [p \in to |-> pages'[p]]
<1>1. /\ call'.op = "mremap" /\ call'.addr = a /\ call'.old = old /\ call'.new = new
      /\ call'.result = r
  BY DEF Remapped
<1>2. View!Span(a, old) = from /\ View!Span(r, new) = to
  BY DEF View!Span, Span
<1>3. DOMAIN rest = Covered \ from /\ \A p \in Covered \ from : rest[p] = pages[p]
  BY DEF View!Without
<1>4. content \in [to -> Content]
  OBVIOUS
<1>5. ASSUME NEW p \in to
      PROVE  /\ p - r < old => content[p] = [q \in Covered |-> pages[q]][a + (p - r)]
             /\ p - r >= old /\ r # a => content[p] = 0
  <2>1. content[p] = pages'[p] /\ p \in Int /\ r <= p
    BY <1>5 DEF Span
  <2>2. p - r < old => a + (p - r) \in Covered
    BY <2>1 DEF Span
  <2>3. QED
    BY <2>1, <2>2
<1>6. [p \in Covered' |-> pages'[p]] = View!With(rest, content)
  <2>1. DOMAIN content = to
    OBVIOUS
  <2>2. \A p \in Covered' : pages'[p] = IF p \in to THEN content[p] ELSE rest[p]
    BY <1>3
  <2> HIDE DEF rest, content, to, from
  <2>3. Covered' = (DOMAIN rest) \cup to
    BY <1>3 DEF to, from
  <2>4. QED
    BY <2>1, <2>2, <2>3 DEF View!With
<1>7. to \subseteq Pages \ DOMAIN rest
  BY <1>3
<1> HIDE DEF content, to, from
<1>8. \E c \in [to -> Content] :
          /\ \A p \in to :
                /\ p - r < old => c[p] = [q \in Covered |-> pages[q]][a + (p - r)]
                /\ p - r >= old /\ r # a => c[p] = 0
          /\ [p \in Covered' |-> pages'[p]] = View!With(rest, c)
  BY <1>4, <1>5, <1>6
<1> DEFINE Q(x, o, n, t) ==
              LET xs == View!Span(x, o)
                  ts == View!Span(t, n)
                  others == View!Without([p \in Covered |-> pages[p]], xs)
              IN  /\ ts \subseteq Pages \ DOMAIN others
                  /\ \E c \in [ts -> Content] :
                        /\ \A p \in ts :
                              LET k == p - t
                              IN  /\ k < o => c[p] = [q \in Covered |-> pages[q]][x + k]
                                  /\ k >= o /\ t # x => c[p] = 0
                        /\ [p \in Covered' |-> pages'[p]] = View!With(others, c)
<1>9. Q(a, old, new, r)
  BY <1>2, <1>7, <1>8, Zenon
<1> HIDE DEF Q
<1>10. Q(call'.addr, call'.old, call'.new, call'.result)
  BY <1>1, <1>9
<1>11. QED
  BY <1>1, <1>10, Zenon DEF View!Mremap, Q

LEMMA FailsToRemap ==
    ASSUME NEW a, NEW old, NEW new, call' = Remapped(a, old, new, 0), UNCHANGED <<entries, pages>>
    PROVE  View!Mremap
<1>1. call'.op = "mremap" /\ call'.result = 0
  BY DEF Remapped
<1>2. Covered' = Covered /\ pages' = pages
  BY DEF Covered
<1>3. QED
  BY <1>1, <1>2 DEF View!Mremap, View!Fail

-----------------------------------------------------------------------------
(* The steps are steps of AddressSpace *)

LEMMA BlockOfNew == ASSUME NEW a, NEW n PROVE Block(New(a, n)) = Span(a, n)
  BY DEF Block, New

LEMMA CoveredInRegion == ASSUME ListInv PROVE Covered \subseteq Pages
  BY DEF Covered

LEMMA MmapIsMmap ==
    ASSUME ListInv, NEW n \in Lengths, NEW hint,
           \/ MmapFirst(n) \/ MmapInGap(hint, n) \/ MmapAtEnd(hint, n)
           \/ MmapFails(hint, n) \/ MmapStrays(hint, n)
    PROVE  View!Mmap
<1>1. n \in Nat /\ n > 0
  BY MaxLenAssumption DEF Lengths
<1>2. InOrder(entries) /\ InOrder(entries') /\ Covered' \subseteq Pages
  BY MmapKeeps, CoveredFacts, CoveredIsPages DEF Kept, ListInv
<1>3. ASSUME NEW a \in Nat, CoveredBy(entries') = CoveredBy(entries) \cup Block(New(a, n)),
             Block(New(a, n)) \cap CoveredBy(entries) = {},
             pages' = Zero(Span(a, n)), call' = Mapped(n, a)
      PROVE  View!Mmap
  <2>1. /\ Covered' = Covered \cup Span(a, n) /\ Span(a, n) \cap Covered = {}
        /\ Span(a, n) \subseteq Pages
    BY <1>2, <1>3, BlockOfNew, CoveredFacts
  <2>2. QED
    BY <1>1, <1>3, <2>1, CoveredInRegion, MapsPages
<1>4. CASE MmapFirst(n)
  <2>1. /\ entries = <<>> /\ entries' = <<New(Base, n)>> /\ pages' = Zero(Span(Base, n))
        /\ call' = Mapped(n, Base)
    BY <1>4 DEF MmapFirst, Returns
  <2>2. New(Base, n) \in Mapping
    BY <1>1, RegionFacts, NewIsMapping
  <2>3. entries' = Append(entries, New(Base, n))
    BY <2>1
  <2>4. QED
    BY <1>2, <1>3, <2>1, <2>2, <2>3, CoveredByAppend, RegionFacts
<1>5. CASE MmapInGap(hint, n)
  <2> DEFINE i == Min(Gaps(n, hint))
             a == End(entries[i])
             k == i + 1
  <2>1. /\ entries' = InsertAt(entries, k, New(a, n)) /\ pages' = Zero(Span(a, n))
        /\ call' = Mapped(n, a) /\ Gaps(n, hint) # {}
    BY <1>5 DEF MmapInGap, Returns
  <2>2. /\ i + 1 \in 1..Len(entries) /\ a \in Nat /\ New(a, n) \in Mapping
    BY <1>1, <2>1, GapFacts
  <2>3. k \in 1..(Len(entries) + 1)
    BY <1>2, <2>2 DEF InOrder
  <2> HIDE DEF i, a, k
  <2>4. QED
    BY <1>2, <1>3, <2>1, <2>2, <2>3, CoveredByInsert
<1>6. CASE MmapAtEnd(hint, n)
  <2>1. /\ entries # <<>> /\ entries' = Append(entries, New(FreeOffset, n))
        /\ pages' = Zero(Span(FreeOffset, n)) /\ call' = Mapped(n, FreeOffset)
    BY <1>6 DEF MmapAtEnd, Returns
  <2>2. FreeOffset \in Nat /\ New(FreeOffset, n) \in Mapping
    BY <1>1, <2>1, FreeOffsetFacts, NewIsMapping
  <2>3. QED
    BY <1>2, <1>3, <2>1, <2>2, CoveredByAppend
<1>7. CASE MmapFails(hint, n)
  BY <1>7, FailsToMap DEF MmapFails, Returns
<1>8. CASE MmapStrays(hint, n)
  BY <1>1, <1>8, HomeIsInside DEF MmapStrays
<1>9. QED
  BY <1>4, <1>5, <1>6, <1>7, <1>8

LEMMA MmapFixedIsMmapFixed ==
    ASSUME ListInv, NEW a \in Pages, MmapFixed(a), Matches(a) # {} PROVE View!MmapFixed
<1>1. a \in Nat
  BY RegionFacts DEF Pages
<1>2. PICK i : i \in Matches(a)
  OBVIOUS
<1>3. ~SearchIsWild(a)
  <2>1. i \in 1..Len(entries) /\ entries[i].address = a /\ InOrder(entries)
    BY <1>1, <1>2, MatchFacts DEF ListInv
  <2>2. entries[i].address <= a
    BY <1>1, <2>1
  <2>3. QED
    BY <1>1, <2>1, <2>2, SearchStaysInside, Looked
<1>4. /\ call' = [op |-> "mmap_fixed", addr |-> a, result |-> a] /\ entries' = entries
      /\ pages' = pages
  BY <1>3 DEF MmapFixed, Returns
<1>5. call'.op = "mmap_fixed" /\ call'.result = call'.addr
  BY <1>4
<1>6. Covered' = Covered
  BY <1>4 DEF Covered
<1>7. QED
  BY <1>4, <1>5, <1>6 DEF View!MmapFixed

\* The one mapping that the pages are a piece of.
LEMMA PieceFacts ==
    ASSUME ListInv, NEW a \in Nat, NEW n \in Nat, n > 0, Piece(a, n)
    PROVE  \E j \in 1..Len(entries) :
              /\ entries[j].address <= a /\ a + n <= End(entries[j])
              /\ ~SearchIsWild(a)
              /\ \A i \in Matches(a) : i = j
<1>1. InOrder(entries)
  BY DEF ListInv
<1>2. PICK j \in DOMAIN entries : Span(a, n) \subseteq Block(entries[j])
  BY DEF Piece, Block
<1>3. j \in 1..Len(entries) /\ entries[j] \in Mapping
  BY <1>1 DEF InOrder
<1>4. a \in Block(entries[j]) /\ a + n - 1 \in Block(entries[j])
  BY <1>2 DEF Span
<1>5. entries[j].address <= a /\ a < End(entries[j]) /\ a + n - 1 < End(entries[j])
  BY <1>3, <1>4, InBlock
<1>6. a + n <= End(entries[j])
  BY <1>1, <1>3, <1>5, OrderFacts
<1>7. ~SearchIsWild(a)
  BY <1>1, <1>3, <1>5, SearchStaysInside, Looked
<1>8. ASSUME NEW i \in Matches(a) PROVE i = j
  <2>1. i \in 1..Len(entries) /\ entries[i].address = a /\ entries[i] \in Mapping
    BY MatchFacts
  <2>2. a < End(entries[i])
    BY <1>1, <2>1, OrderFacts
  <2>3. a \in Block(entries[i])
    BY <2>1, <2>2, InBlock
  <2>4. QED
    BY <1>1, <1>3, <1>4, <2>1, <2>3, BlocksApart
<1>9. QED
  BY <1>3, <1>5, <1>6, <1>7, <1>8

LEMMA StoreIsStore ==
    ASSUME NEW p \in Covered, NEW v \in Content, Store(p, v), ListInv PROVE View!Store
<1>1. pages' = [pages EXCEPT ![p] = v] /\ entries' = entries /\ call' = [op |-> "store"]
  BY DEF Store, Returns
<1>2. Covered' = Covered
  BY <1>1 DEF Covered
<1>3. Covered \subseteq DOMAIN pages
  BY CoveredInRegion DEF ListInv
<1>4. [q \in Covered' |-> pages'[q]] = [[q \in Covered |-> pages[q]] EXCEPT ![p] = v]
  BY <1>1, <1>2, <1>3
<1>5. QED
  BY <1>1, <1>4 DEF View!Store

LEMMA MunmapHeadIsMunmap ==
    ASSUME ListInv, NEW a \in Pages, NEW n \in Lengths, MunmapHead(a, n), Piece(a, n)
    PROVE  View!Munmap
<1>1. n \in Nat /\ n > 0 /\ a \in Nat
  BY MaxLenAssumption, RegionFacts DEF Lengths, Pages
<1>2. InOrder(entries) /\ InOrder(entries')
  BY MunmapHeadKeeps DEF Kept, ListInv
<1>3. PICK i \in Matches(a) :
          entries' = IF n < entries[i].length
                     THEN [entries EXCEPT ![i] = New(a + n, entries[i].length - n)]
                     ELSE RemoveAt(entries, i)
  BY DEF MunmapHead
<1>4. /\ i \in 1..Len(entries) /\ entries[i] \in Mapping /\ entries[i].address = a
      /\ entries[i].length \in Nat /\ End(entries[i]) = a + entries[i].length
      /\ Block(entries[i]) = Span(a, entries[i].length)
  BY <1>1, <1>2, MatchFacts, OrderFacts DEF Block
<1>5. a + n <= End(entries[i])
  BY <1>1, PieceFacts
<1>6. Covered' = Covered \ Span(a, n)
  <2>1. CASE n < entries[i].length
    <3> DEFINE e == New(a + n, entries[i].length - n)
    <3>1. e \in Mapping /\ Block(e) = Span(a + n, entries[i].length - n)
      <4>1. a + n \in Nat /\ entries[i].length - n \in Nat /\ entries[i].length - n > 0
        BY <1>1, <1>4, <2>1
      <4>2. QED
        BY <4>1, NewIsMapping, BlockOfNew
    <3>2. entries' = [entries EXCEPT ![i] = e]
      BY <1>3, <2>1
    <3> HIDE DEF e
    <3>3. Covered' = (Covered \ Span(a, entries[i].length)) \cup Span(a + n, entries[i].length - n)
      <4>1. InOrder([entries EXCEPT ![i] = e])
        BY <1>2, <3>2
      <4>2. CoveredBy([entries EXCEPT ![i] = e]) = (CoveredBy(entries) \ Block(entries[i])) \cup Block(e)
        BY <1>2, <1>4, <3>1, <4>1, CoveredByReplace
      <4>3. QED
        BY <1>2, <1>4, <3>1, <3>2, <4>2, CoveredFacts, Zenon
    <3>4. Span(a, entries[i].length) \subseteq Covered
      BY <1>2, <1>4, CoveredMeans, CoveredFacts
    <3>5. Span(a + n, entries[i].length - n) = Span(a, entries[i].length) \ Span(a, n)
      BY <1>1, <1>4, <2>1 DEF Span
    <3>6. Span(a, n) \subseteq Span(a, entries[i].length)
      BY <1>1, <1>4, <2>1 DEF Span
    <3>7. QED
      BY <3>3, <3>4, <3>5, <3>6
  <2>2. CASE ~(n < entries[i].length)
    <3>1. n = entries[i].length
      BY <1>1, <1>4, <1>5, <2>2
    <3>2. QED
      BY <1>2, <1>3, <1>4, <2>2, <3>1, CoveredByRemove, CoveredFacts
  <2>3. QED
    BY <2>1, <2>2
<1>7. pages' = pages /\ call' = Unmapped(a, n, TRUE)
  BY DEF MunmapHead, Returns
<1>8. QED
  BY <1>6, <1>7, UnmapsPages

LEMMA MunmapHoleIsMunmap ==
    ASSUME ListInv, NEW a \in Pages, NEW n \in Lengths, MunmapHole(a, n) PROVE View!Munmap
<1>1. n \in Nat /\ n > 0 /\ a \in Nat
  BY MaxLenAssumption, RegionFacts DEF Lengths, Pages
<1> DEFINE i == Max(Around(a, n))
           e == entries[i]
           before == New(e.address, a - e.address)
           after == New(a + n, End(e) - (a + n))
           head == [entries EXCEPT ![i] = before]
           k == i + 1
<1>2. /\ pages' = pages /\ call' = Unmapped(a, n, TRUE)
      /\ entries' = IF a + n < End(e) THEN InsertAt(head, k, after) ELSE head
  BY DEF MunmapHole, Punched, Returns
<1>3. InOrder(entries) /\ InOrder(entries')
  BY MunmapHoleKeeps DEF Kept, ListInv
<1>4. i \in 1..Len(entries) /\ e.address < a /\ a < End(e) /\ a + n <= End(e)
  BY <1>1, AroundIsOne DEF MunmapHole
<1> HIDE DEF i
<1>5. /\ e \in Mapping /\ e.address \in Nat /\ End(e) \in Nat /\ End(e) = e.address + e.length
      /\ e.length \in Nat /\ Block(e) = Span(e.address, e.length) /\ Len(entries) \in Nat
  BY <1>3, <1>4, OrderFacts DEF Block
<1>6. Block(e) \subseteq Covered
  BY <1>3, <1>4, CoveredMeans, CoveredFacts
<1>7. /\ before \in Mapping /\ before.address = e.address /\ End(before) = a
      /\ Block(before) = Span(e.address, a - e.address)
  <2>1. a - e.address \in Nat /\ a - e.address > 0 /\ e.address + (a - e.address) = a
    BY <1>1, <1>4, <1>5
  <2>2. QED
    BY <1>5, <2>1, NewIsMapping, BlockOfNew
<1> HIDE DEF e
<1> HIDE DEF before
<1>8. InOrder(head)
  BY <1>1, <1>3, <1>4, <1>5, <1>7, ShrinkKeepsOrder DEF e
<1>9. CoveredBy(head) = (CoveredBy(entries) \ Block(e)) \cup Block(before)
  BY <1>3, <1>4, <1>7, <1>8, CoveredByReplace DEF e
<1>10. k \in 1..(Len(head) + 1)
  BY <1>3, <1>4, <1>5 DEF InOrder
<1> HIDE DEF head, k
<1>11. CASE a + n < End(e)
  <2>1. after \in Mapping /\ Block(after) = Span(a + n, End(e) - (a + n))
    <3>1. a + n \in Nat /\ End(e) - (a + n) \in Nat /\ End(e) - (a + n) > 0
      BY <1>1, <1>5, <1>11
    <3>2. QED
      BY <3>1, NewIsMapping, BlockOfNew
  <2> HIDE DEF after
  <2>2. entries' = InsertAt(head, k, after)
    BY <1>2, <1>11
  <2>3. CoveredBy(entries') = CoveredBy(head) \cup Block(after)
    BY <1>3, <1>8, <1>10, <2>1, <2>2, CoveredByInsert
  <2>4. Block(before) \cup Block(after) = Block(e) \ Span(a, n) /\ Span(a, n) \subseteq Block(e)
    <3>1. Block(before) = e.address..(a - 1) /\ Block(e) = e.address..(End(e) - 1)
      BY <1>1, <1>5, <1>7 DEF Span
    <3>2. Block(after) = (a + n)..(End(e) - 1) /\ Span(a, n) = a..((a + n) - 1) /\ a + n \in Int
      BY <1>1, <1>5, <2>1 DEF Span
    <3> HIDE DEF after
    <3>3. QED
      BY <1>1, <1>4, <1>5, <1>11, <3>1, <3>2
  <2>5. Covered' = Covered \ Span(a, n)
    BY <1>3, <1>6, <1>9, <2>3, <2>4, CoveredFacts
  <2>6. QED
    BY <1>2, <2>5, UnmapsPages
<1>12. CASE ~(a + n < End(e))
  <2>1. entries' = head
    BY <1>2, <1>12
  <2>2. Block(before) = Block(e) \ Span(a, n) /\ Span(a, n) \subseteq Block(e)
    <3>1. Block(before) = e.address..(a - 1) /\ Block(e) = e.address..(End(e) - 1)
      BY <1>1, <1>5, <1>7 DEF Span
    <3>2. Span(a, n) = a..((a + n) - 1) /\ a + n \in Int
      BY <1>1 DEF Span
    <3>3. QED
      BY <1>1, <1>4, <1>5, <1>12, <3>1, <3>2
  <2>3. Covered' = Covered \ Span(a, n)
    BY <1>3, <1>6, <1>9, <2>1, <2>2, CoveredFacts
  <2>4. QED
    BY <1>2, <2>3, UnmapsPages
<1>13. QED
  BY <1>11, <1>12

LEMMA MunmapIsKnown ==
    ASSUME ListInv, NEW a \in Pages, NEW n \in Lengths, MunmapUnknown(a, n), Piece(a, n) PROVE FALSE
<1>1. n \in Nat /\ n > 0 /\ a \in Nat
  BY MaxLenAssumption, RegionFacts DEF Lengths, Pages
<1>2. PICK j \in 1..Len(entries) :
          entries[j].address <= a /\ a + n <= End(entries[j]) /\ ~SearchIsWild(a)
  BY <1>1, PieceFacts
<1>3. /\ j \in DOMAIN entries /\ entries[j].address \in Nat /\ End(entries[j]) \in Nat
  BY OrderFacts DEF ListInv
<1>4. Matches(a) = {} /\ Around(a, n) = {}
  BY <1>2 DEF MunmapUnknown
<1>5. entries[j].address # a
  BY <1>1, <1>4, Looked
<1>6. entries[j].address < a /\ a < End(entries[j])
  BY <1>1, <1>2, <1>3, <1>5
<1>7. QED
  BY <1>2, <1>3, <1>4, <1>6 DEF Around

\* A move of the mapping at a, whole, to pages that are not mapped.
LEMMA MovesPages ==
    ASSUME ListInv, NEW i \in 1..Len(entries), NEW a \in Nat, NEW old \in Nat, NEW new \in Nat,
           NEW to \in Nat, entries[i] = New(a, old), old <= new,
           CoveredBy(entries') = (CoveredBy(entries) \cup Block(New(to, new))) \ Block(entries[i]),
           Block(New(to, new)) \cap CoveredBy(entries) = {},
           InOrder(entries'), pages' \in [Pages -> Content],
           pages' = Copied(entries[i], to, new), call' = Remapped(a, old, new, to)
    PROVE  View!Mremap
<1>1. /\ Covered' = (Covered \cup Span(to, new)) \ Span(a, old) /\ Span(to, new) \cap Covered = {}
  BY BlockOfNew, CoveredFacts DEF ListInv
<1>2. Span(a, old) \subseteq Covered
  BY CoveredMeans, CoveredFacts, BlockOfNew DEF ListInv
<1>3. Covered' = (Covered \ Span(a, old)) \cup Span(to, new)
  BY <1>1, <1>2
<1>4. Span(to, new) \subseteq Pages
  BY <1>3, CoveredIsPages, CoveredFacts
<1>5. entries[i].address = a /\ entries[i].length = old
  BY DEF New
<1>6. Span(to, old) \subseteq Span(to, new)
  BY DEF Span
<1>7. ASSUME NEW p \in Covered \ Span(a, old) PROVE pages'[p] = pages[p]
  <2>1. p \notin Span(to, new) /\ p \notin Span(to, old) /\ p \in Pages
    BY <1>1, <1>6, CoveredInRegion
  <2>2. QED
    BY <1>5, <2>1 DEF Copied
<1>8. ASSUME NEW p \in Span(to, new)
      PROVE  /\ p - to < old => pages'[p] = pages[a + (p - to)]
             /\ p - to >= old => pages'[p] = 0
  <2>1. p \in Span(to, old) <=> p - to < old
    BY DEF Span
  <2>2. pages'[p] = IF p \in Span(to, old) THEN pages[a + (p - to)] ELSE 0
    BY <1>4, <1>5 DEF Copied
  <2>3. p - to \in Int
    BY DEF Span
  <2>4. QED
    BY <2>1, <2>2, <2>3
<1>9. Span(to, new) \cap (Covered \ Span(a, old)) = {}
  BY <1>1
<1>10. \A p \in Span(to, new) : /\ p - to < old => pages'[p] = pages[a + (p - to)]
                                /\ p - to >= old /\ to # a => pages'[p] = 0
  BY <1>8
<1>11. \A p \in Covered \ Span(a, old) : pages'[p] = pages[p]
  BY <1>7
<1>12. Remaps(a, old, new, to)
  BY <1>2, <1>3, <1>4, <1>9, <1>10, <1>11, Zenon DEF Remaps
<1>13. QED
  BY <1>12, RemapsPages

LEMMA WholeFacts ==
    ASSUME ListInv, NEW a \in Nat, NEW old \in Nat, old > 0, Whole(a, old)
    PROVE  ~SearchIsWild(a) /\ \A i \in Matches(a) : i \in 1..Len(entries) /\ entries[i] = New(a, old)
<1>1. PICK w \in DOMAIN entries : entries[w] = New(a, old)
  BY DEF Whole
<1>2. Block(entries[w]) = Span(a, old)
  BY <1>1, BlockOfNew
<1>3. Piece(a, old)
  BY <1>2 DEF Piece, Block
<1>4. PICK j \in 1..Len(entries) : ~SearchIsWild(a) /\ \A i \in Matches(a) : i = j
  BY <1>3, PieceFacts
<1>5. w \in Matches(a)
  BY <1>1, Looked DEF New, ListInv, InOrder
<1>6. QED
  BY <1>1, <1>4, <1>5

LEMMA MremapInPlaceIsMremap ==
    ASSUME ListInv, PastEndIsInside, NEW a \in Pages, NEW old \in Lengths, NEW new \in Lengths,
           NEW past \in PastEnd, MremapInPlace(a, old, new, past), Whole(a, old)
    PROVE  View!Mremap
<1>1. new \in Nat /\ new > 0 /\ old \in Nat /\ old > 0 /\ a \in Nat
  BY MaxLenAssumption, RegionFacts DEF Lengths, Pages
<1>2. InOrder(entries) /\ InOrder(entries') /\ pages' \in [Pages -> Content]
  BY <1>1, WholeIsNotOverrun, MremapInPlaceKeeps DEF Kept, ListInv
<1> DEFINE e == New(a, new)
<1>3. PICK i \in Matches(a) : entries' = [entries EXCEPT ![i] = e]
  BY DEF MremapInPlace
<1>4. i \in 1..Len(entries) /\ entries[i] = New(a, old) /\ Block(entries[i]) = Span(a, old)
  BY <1>1, WholeFacts, BlockOfNew
<1>5. e \in Mapping /\ Block(e) = Span(a, new)
  BY <1>1, NewIsMapping, BlockOfNew
<1> HIDE DEF e
<1>6. InOrder([entries EXCEPT ![i] = e])
  BY <1>2, <1>3
<1>7. /\ CoveredBy([entries EXCEPT ![i] = e]) = (CoveredBy(entries) \ Block(entries[i])) \cup Block(e)
      /\ Block(e) \cap (CoveredBy(entries) \ Block(entries[i])) = {}
  BY <1>2, <1>4, <1>5, <1>6, CoveredByReplace
<1>8. /\ Covered' = (Covered \ Span(a, old)) \cup Span(a, new)
      /\ Span(a, new) \cap (Covered \ Span(a, old)) = {}
  BY <1>2, <1>3, <1>4, <1>5, <1>7, CoveredFacts, Zenon
<1>9. Span(a, new) \subseteq Pages
  BY <1>2, <1>8, CoveredIsPages, CoveredFacts
<1>10. Span(a, old) \subseteq Covered
  BY <1>2, <1>4, CoveredMeans, CoveredFacts
<1>11. pages' = pages /\ call' = Remapped(a, old, new, a)
  BY DEF MremapInPlace, Returns
<1>12. \A p \in Span(a, new) : p = a + (p - a)
  BY <1>1 DEF Span
<1>13. Remaps(a, old, new, a)
  BY <1>2, <1>8, <1>9, <1>10, <1>11, <1>12 DEF Remaps
<1>14. QED
  BY <1>1, <1>13, RemapsPages

LEMMA MremapToGapIsMremap ==
    ASSUME ListInv, NEW a \in Pages, NEW old \in Lengths, NEW new \in Lengths, NEW past,
           MremapToGap(a, old, new, past), Whole(a, old)
    PROVE  View!Mremap
<1>1. new \in Nat /\ new > 0 /\ old \in Nat /\ old > 0 /\ a \in Nat
  BY MaxLenAssumption, RegionFacts DEF Lengths, Pages
<1>2. InOrder(entries) /\ InOrder(entries') /\ pages' \in [Pages -> Content] /\ Gaps(new, 0) # {}
  BY MremapToGapKeeps DEF Kept, ListInv, MremapToGap
<1> DEFINE g == Min(Gaps(new, 0))
           to == End(entries[g])
           k == g + 1
           e == New(to, new)
           inserted == InsertAt(entries, k, e)
<1>3. PICK i \in Matches(a) :
          /\ entries[i].length <= new
          /\ entries' = RemoveAt(inserted, IF i <= g THEN i ELSE i + 1)
          /\ pages' = Copied(entries[i], to, new)
          /\ call' = Remapped(a, old, new, to)
  BY MremapToGapErases
<1>4. /\ g \in 1..(Len(entries) - 1) /\ e \in Mapping /\ e.address = End(entries[g])
      /\ End(e) <= entries[g + 1].address /\ Base <= e.address /\ End(e) <= Base + Length
      /\ to \in Nat
  BY <1>1, <1>2, GapFacts
<1>5. i \in 1..Len(entries) /\ entries[i] = New(a, old) /\ Len(entries) \in Nat /\ entries \in Seq(Mapping)
  BY <1>1, <1>2, WholeFacts DEF InOrder
<1>6. k \in 1..(Len(entries) + 1) /\ k - 1 = g
  BY <1>4, <1>5
<1>7. old <= new
  BY <1>3, <1>5 DEF New
<1>8. (IF i <= g THEN i ELSE i + 1) = (IF i < k THEN i ELSE i + 1)
  BY <1>4, <1>5
<1> DEFINE j == IF i < k THEN i ELSE i + 1
<1> HIDE DEF g
<1> HIDE DEF to
<1>9. InOrder(inserted)
  <2>1. End(entries[k - 1]) <= e.address /\ End(e) <= entries[k].address
    BY <1>4, <1>6 DEF to
  <2> HIDE DEF k, e
  <2>2. QED
    BY <1>2, <1>4, <1>6, <2>1, InsertKeepsOrder
<1> HIDE DEF k
<1>10. CoveredBy(inserted) = CoveredBy(entries) \cup Block(e) /\ Block(e) \cap CoveredBy(entries) = {}
  <2> HIDE DEF e
  <2>1. QED
    BY <1>2, <1>4, <1>6, <1>9, CoveredByInsert
<1>11. j \in 1..Len(inserted) /\ inserted[j] = entries[i]
  <2>1. InOrder(entries) /\ e \in Mapping /\ i \in 1..Len(entries)
    BY <1>2, <1>4, <1>5
  <2> HIDE DEF e
  <2>2. QED
    BY <1>6, <2>1, InsertedFacts
<1> HIDE DEF j, inserted
<1>12. CoveredBy(entries') = (CoveredBy(entries) \cup Block(e)) \ Block(entries[i])
  BY <1>3, <1>8, <1>9, <1>10, <1>11, CoveredByRemove DEF j
<1>13. QED
  BY <1>1, <1>2, <1>3, <1>4, <1>5, <1>7, <1>10, <1>12, MovesPages

LEMMA MremapToEndIsMremap ==
    ASSUME ListInv, NEW a \in Pages, NEW old \in Lengths, NEW new \in Lengths, NEW past,
           MremapToEnd(a, old, new, past), Whole(a, old)
    PROVE  View!Mremap
<1>1. new \in Nat /\ new > 0 /\ old \in Nat /\ old > 0 /\ a \in Nat
  BY MaxLenAssumption, RegionFacts DEF Lengths, Pages
<1>2. InOrder(entries) /\ InOrder(entries') /\ pages' \in [Pages -> Content]
  BY MremapToEndKeeps DEF Kept, ListInv
<1> DEFINE e == New(FreeOffset, new)
           longer == Append(entries, e)
<1>3. PICK i \in Matches(a) :
          /\ RoomAtEnd(new)
          /\ entries[i].length <= new
          /\ entries' = RemoveAt(longer, i)
          /\ pages' = Copied(entries[i], FreeOffset, new)
          /\ call' = Remapped(a, old, new, FreeOffset)
  BY DEF MremapToEnd, CanCopy, Returns
<1>4. i \in 1..Len(entries) /\ entries[i] = New(a, old) /\ Len(entries) \in Nat /\ entries \in Seq(Mapping)
  BY <1>1, <1>2, WholeFacts DEF InOrder
<1>5. entries # <<>> /\ FreeOffset \in Nat
  BY <1>4, FreeOffsetFacts
<1>6. old <= new
  BY <1>3, <1>4 DEF New
<1>7. InOrder(longer) /\ e \in Mapping
  BY <1>1, <1>3, <1>5, EndFacts
<1>8. i \in 1..Len(longer) /\ longer[i] = entries[i]
  <2> HIDE DEF e
  <2>1. QED
    BY <1>4, <1>7
<1>9. CoveredBy(longer) = CoveredBy(entries) \cup Block(e) /\ Block(e) \cap CoveredBy(entries) = {}
  <2> HIDE DEF e
  <2>1. QED
    BY <1>2, <1>7, CoveredByAppend
<1> HIDE DEF longer
<1>10. CoveredBy(entries') = (CoveredBy(entries) \cup Block(e)) \ Block(entries[i])
  BY <1>3, <1>7, <1>8, <1>9, CoveredByRemove
<1>11. QED
  BY <1>1, <1>2, <1>3, <1>4, <1>5, <1>6, <1>9, <1>10, MovesPages

\* A mapping remapped whole can be copied to where there is room for more.
LEMMA CanCopyWhole ==
    ASSUME ListInv, NEW a \in Nat, NEW old \in Nat, NEW new \in Nat, old < new, HasHome(new, 0),
           NEW i \in 1..Len(entries), entries[i] = New(a, old)
    PROVE  CanCopy(entries[i], Home(new, 0), new)
<1> DEFINE to == Home(new, 0)
           e == New(to, new)
<1>1. /\ to \in Nat /\ Inside(to, new) /\ e \in Mapping
      /\ End(entries[i]) <= e.address \/ End(e) <= entries[i].address
  BY HomeIsInside
<1>2. e.address = to /\ End(e) = to + new
  BY <1>1 DEF New, End
<1> HIDE DEF to, e
<1>3. /\ entries[i].address = a /\ entries[i].length = old /\ End(entries[i]) = a + old
      /\ Base <= a /\ a + old <= Base + Length
  BY DEF New, End, ListInv, InOrder
<1>4. Inside(a, old)
  BY <1>3, RegionFacts DEF Inside, Span, Pages
<1>5. Span(a, old) \cap Span(to, old) = {}
  BY <1>1, <1>2, <1>3 DEF Span
<1>6. QED
  BY <1>1, <1>3, <1>4, <1>5 DEF CanCopy, to

LEMMA MremapIsMremap ==
    ASSUME ListInv, PastEndIsInside, NEW a \in Pages, NEW old \in Lengths, NEW new \in Lengths,
           NEW may_move \in BOOLEAN, NEW past \in PastEnd,
           Mremap(a, old, new, may_move, past), Whole(a, old)
    PROVE  View!Mremap
<1>1. new \in Nat /\ old \in Nat /\ old > 0 /\ a \in Nat
  BY MaxLenAssumption, RegionFacts DEF Lengths, Pages
<1>2. ASSUME MremapStrays(a, old, new, may_move, past) PROVE FALSE
  <2>1. ~SearchIsWild(a)
    BY <1>1, WholeFacts
  <2>2. PICK i \in Matches(a) :
            /\ MustMove(i, old, new, past) /\ HasHome(new, 0)
            /\ \/ ~CanCopy(entries[i], Home(new, 0), new)
               \/ Gaps(new, 0) # {} /\ binary_search(InsertedInGap(new), a) < 0
    BY <1>2, <2>1 DEF MremapStrays
  <2>3. i \in 1..Len(entries) /\ entries[i] = New(a, old) /\ entries[i].address = a /\ new > 0
    BY <1>1, WholeFacts, MatchFacts, MaxLenAssumption DEF Lengths
  <2>4. old < new
    BY <1>1, <2>2 DEF MustMove
  <2>5. CanCopy(entries[i], Home(new, 0), new)
    BY <1>1, <2>2, <2>3, <2>4, CanCopyWhole
  <2>6. Gaps(new, 0) # {} => binary_search(InsertedInGap(new), a) >= 0
    BY <1>1, <2>3, GapIsSearched
  <2>7. PICK match : match = binary_search(InsertedInGap(new), a)
    OBVIOUS
  <2>8. Gaps(new, 0) # {} => match \in Int
    BY <1>1, <2>3, <2>7, GapIsSearched
  <2>9. QED
    BY <2>2, <2>5, <2>6, <2>7, <2>8
<1>3. CASE MremapFails(a, old, new, may_move, past)
  BY <1>3, FailsToRemap DEF MremapFails, Returns
<1>4. QED
  BY <1>2, <1>3, MremapInPlaceIsMremap, MremapToGapIsMremap, MremapToEndIsMremap DEF Mremap

LEMMA StepIsAddressSpace ==
    ASSUME PastEndIsInside, IInv, [Next]_vars
    PROVE  [~strayed' => View!Next]_<<Held, call>>
<1>1. CASE UNCHANGED vars
  <2>1. entries' = entries /\ pages' = pages /\ call' = call
    BY <1>1 DEF vars
  <2>2. Covered' = Covered
    BY <2>1 DEF Covered
  <2>3. Held' = Held
    BY <2>1, <2>2 DEF Held
  <2>4. QED
    BY <2>1, <2>3
<1>2. ASSUME NEW yes, NEW over, History(yes, over), ~strayed' PROVE yes
  BY <1>2, Zenon DEF History, Proper
<1>3. ASSUME ListInv, NEW n \in Lengths, NEW hint,
             \/ MmapFirst(n) \/ MmapInGap(hint, n) \/ MmapAtEnd(hint, n)
             \/ MmapFails(hint, n) \/ MmapStrays(hint, n)
      PROVE  View!Next
  BY <1>3, MmapIsMmap DEF View!Next
<1>4. ASSUME ListInv, NEW a \in Pages, MmapFixed(a), Matches(a) # {} PROVE View!Next
  BY <1>4, MmapFixedIsMmapFixed DEF View!Next
<1>5. ASSUME ListInv, NEW a \in Pages, NEW n \in Lengths, Piece(a, n),
             MunmapHead(a, n) \/ MunmapHole(a, n) \/ MunmapUnknown(a, n)
      PROVE  View!Next
  BY <1>5, MunmapHeadIsMunmap, MunmapHoleIsMunmap, MunmapIsKnown DEF View!Next
<1>6. ASSUME ListInv, NEW a \in Pages, NEW old \in Lengths, NEW new \in Lengths, NEW may_move \in BOOLEAN,
             NEW past \in PastEnd, Mremap(a, old, new, may_move, past), Whole(a, old)
      PROVE  View!Next
  BY <1>6, MremapIsMremap DEF View!Next
<1>7. ASSUME ListInv, NEW p \in Covered, NEW v \in Content, Store(p, v) PROVE View!Next
  BY <1>7, StoreIsStore DEF View!Next
<1>8. ASSUME Call, ~strayed' PROVE View!Next
  <2>1. ListInv
    BY <1>8, CallHistory DEF IInv
  <2>2. CASE \E n \in Lengths : MmapFirst(n)
    BY <1>3, <2>1, <2>2
  <2>3. CASE \E n \in Lengths, hint \in {0} \cup Pages :
                 MmapInGap(hint, n) \/ MmapAtEnd(hint, n) \/ MmapFails(hint, n) \/ MmapStrays(hint, n)
    BY <1>3, <2>1, <2>3
  <2>4. CASE \E a \in Pages : MmapFixed(a) /\ History(Matches(a) # {}, FALSE)
    BY <1>2, <1>4, <1>8, <2>1, <2>4, Zenon
  <2>5. CASE \E a \in Pages, n \in Lengths :
                 /\ MunmapHead(a, n) \/ MunmapHole(a, n) \/ MunmapUnknown(a, n)
                 /\ History(Piece(a, n), FALSE)
    <3>1. PICK a \in Pages, n \in Lengths :
              /\ MunmapHead(a, n) \/ MunmapHole(a, n) \/ MunmapUnknown(a, n)
              /\ History(Piece(a, n), FALSE)
      BY <2>5, Zenon
    <3>2. Piece(a, n)
      BY <1>8, <3>1, Zenon DEF History, Proper
    <3>3. QED
      BY <1>5, <2>1, <3>1, <3>2, Zenon
  <2>6. CASE \E a \in Pages, old, new \in Lengths, may_move \in BOOLEAN, past \in PastEnd :
                 /\ Mremap(a, old, new, may_move, past)
                 /\ History(Whole(a, old), Overruns(a, old, new))
    <3>1. PICK a \in Pages, old \in Lengths, new \in Lengths, may_move \in BOOLEAN, past \in PastEnd :
              Mremap(a, old, new, may_move, past) /\ History(Whole(a, old), Overruns(a, old, new))
      BY <2>6, Zenon
    <3>2. Whole(a, old)
      BY <1>8, <3>1, Zenon DEF History, Proper
    <3>3. QED
      BY <1>6, <2>1, <3>1, <3>2, Zenon
  <2>7. CASE \E p \in Covered, v \in Content : Store(p, v)
    BY <1>7, <2>1, <2>7
  <2>8. QED
    BY <1>8, <2>2, <2>3, <2>4, <2>5, <2>6, <2>7, Zenon DEF Call
<1>9. QED
  BY <1>1, <1>8 DEF Next

LEMMA InitIsAddressSpace == ASSUME Init PROVE View!Init
<1>1. Covered = {}
  BY DEF Init, Covered
<1>2. [p \in Covered |-> pages[p]] = << >>
  BY <1>1
<1>3. QED
  BY <1>2 DEF Init, View!Init

\* The calls do to the guest's pages what mmap, munmap and mremap promise,
\* for regions, mappings and contents of any size, for as long as the guest
\* unmaps pieces of mappings and remaps whole ones.
THEOREM CallsImplementAddressSpace == ASSUME PastEndIsInside PROVE Spec => ImplementsAddressSpace
<1>1. Init => IInv /\ View!Init
  BY InitIInv, InitIsAddressSpace
<1>2. IInv /\ [Next]_vars => IInv'
  BY NextIInv
<1>3. IInv /\ [Next]_vars => [~strayed' => View!Next]_<<Held, call>>
  BY StepIsAddressSpace
<1>4. QED
  BY <1>1, <1>2, <1>3, PTL DEF Spec, ImplementsAddressSpace, Held

=============================================================================
