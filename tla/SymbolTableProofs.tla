-------------------------- MODULE SymbolTableProofs --------------------------
(***************************************************************************)
(* The theorems about the symbols: the sort that partitions in place, the  *)
(* list that is made of what it sorts, and the search in that list.        *)
(***************************************************************************)
EXTENDS SymbolTable, TLAPS, WellFoundedInduction, SequenceTheorems

-----------------------------------------------------------------------------
(* Least and greatest numbers *)

LEMMA MinIsLeast ==
    ASSUME NEW S \in SUBSET Nat, S # {}
    PROVE  Min(S) \in S /\ \A n \in S : Min(S) <= n
<1> DEFINE R == OpToRel(<, Nat)
<1>1. IsWellFoundedOn(R, Nat)
  BY NatLessThanWellFounded
<1>2. \A x, y \in Nat : x < y => <<x, y>> \in R
  BY DEF OpToRel
<1> HIDE DEF R
<1>3. \E x \in S : \A y \in S : ~ (<<y, x>> \in R)
  <2>1. S \subseteq Nat
    OBVIOUS
  <2>2. QED
    BY <1>1, <2>1, WFMin, Zenon
<1>4. \E x \in S : \A y \in S : x <= y
  <2>1. PICK x \in S : \A y \in S : ~ (<<y, x>> \in R)
    BY <1>3
  <2>2. \A y \in S : ~(y < x)
    BY <1>2, <2>1, Zenon
  <2>3. QED
    BY <2>2
<1>5. QED
  BY <1>4 DEF Min

LEMMA MaxIsGreatest ==
    ASSUME NEW N \in Nat, NEW S \in SUBSET (1..N), S # {}
    PROVE  Max(S) \in S /\ \A n \in S : n <= Max(S)
<1> DEFINE Left == {N - n : n \in S}
<1>1. Left \in SUBSET Nat /\ Left # {}
  <2>1. \A n \in S : N - n \in Nat
    OBVIOUS
  <2>2. QED
    BY <2>1
<1>2. Min(Left) \in Left /\ \A n \in Left : Min(Left) <= n
  <2> HIDE DEF Left
  <2>1. QED
    BY <1>1, MinIsLeast
<1>3. PICK m \in S : N - m = Min(Left)
  BY <1>2
<1>4. \A n \in S : n <= m
  <2>1. SUFFICES ASSUME NEW n \in S PROVE n <= m
    OBVIOUS
  <2>2. N - n \in Left
    BY <2>1
  <2>3. N - m <= N - n
    BY <1>2, <1>3, <2>2
  <2>4. QED
    BY <2>3
<1>5. QED
  BY <1>4 DEF Max

\* Induction over a set of naturals.
LEMMA Induction ==
    ASSUME NEW S \in SUBSET Nat, 0 \in S, \A n \in S : n + 1 \in S
    PROVE  S = Nat
<1> DEFINE Missing == Nat \ S
<1>1. SUFFICES ASSUME Missing # {} PROVE FALSE
  OBVIOUS
<1>2. Missing \in SUBSET Nat
  OBVIOUS
<1>3. Min(Missing) \in Missing /\ \A n \in Missing : Min(Missing) <= n
  <2> HIDE DEF Missing
  <2>1. QED
    BY <1>1, <1>2, MinIsLeast
<1>4. PICK m \in Missing : \A n \in Missing : m <= n
  BY <1>3
<1>5. m # 0 /\ m \in Nat
  BY <1>4
<1>6. m - 1 \in Nat /\ (m - 1) + 1 = m
  BY <1>5
<1>7. m - 1 \in Missing
  BY <1>4, <1>6
<1>8. m <= m - 1
  BY <1>4, <1>7
<1>9. QED
  BY <1>6, <1>8

-----------------------------------------------------------------------------
(* The sort *)

Symbol == [name : 0..Count, value : Nat, size : 0..(Size - 1)]
Place == 1..Count

LEMMA CountIsNat == Count \in Nat /\ Size \in Nat /\ Size > 0
  BY ProgramAssumption

\* The pointers of a call are in its range, or one past its ends.
InRange(p) ==
    /\ p \in [base : Nat, max : Nat, first : Nat, last : Nat, key : Nat]
    /\ 1 <= p.base /\ p.max <= Count
    /\ p.base <= p.first /\ p.first <= p.max + 1
    /\ p.base <= p.last + 1 /\ p.last <= p.max

\* Nothing that was passed on the left is above the pivot, and nothing on the
\* right below it.  As long as the pointers have not met, the pivot is where
\* key says, and each scan has something to stop at before it leaves the
\* range.
Divided(t, p) ==
    \E v \in Nat :
        /\ \A n \in Place : p.base <= n /\ n < p.first => t[n].value <= v
        /\ \A n \in Place : p.last < n /\ n <= p.max => v <= t[n].value
        /\ p.first <= p.last =>
               /\ p.key \in Place /\ t[p.key].value = v
               /\ \E n \in Place : p.first <= n /\ n <= p.max /\ v <= t[n].value
               /\ \E n \in Place : p.base <= n /\ n <= p.last /\ t[n].value <= v

Outside(r, s) == r.max < s.base \/ s.max < r.base

\* The calls still to be made are for ranges apart from one another and from
\* that of the call at work.
Waiting(c, p) ==
    /\ c \subseteq [base : Nat, max : Nat]
    /\ \A r \in c : 1 <= r.base /\ r.base <= r.max /\ r.max <= Count /\ Outside(r, p)
    /\ \A r, s \in c : r = s \/ Outside(r, s)

\* Two symbols are in order, or there is a call that has both of them to sort.
Within(r, i, j) == r.base <= i /\ j <= r.max
Ordered(t, c, p) ==
    \A i, j \in Place :
        i < j => t[i].value <= t[j].value \/ Within(p, i, j) \/ \E r \in c : Within(r, i, j)

Sorts(t, c, p) == InRange(p) /\ Divided(t, p) /\ Waiting(c, p) /\ Ordered(t, c, p)

\* The named symbols of the file are there once, the others have no value.
Held(t) ==
    /\ t \in [Place -> Symbol]
    /\ \A i \in Place : IF t[i].name = 0 THEN t[i].value = 0
                        ELSE t[i].name \in Place /\ t[i] = file[t[i].name]
    /\ \A k \in Place : file[k].name # 0 => \E i \in Place : t[i] = file[k]
    /\ \A i, j \in Place : t[i].name # 0 /\ t[i].name = t[j].name => i = j

LEMMA SymbolFacts ==
    ASSUME NEW t \in [Place -> Symbol], NEW i \in Place
    PROVE  /\ t[i] \in Symbol /\ t[i].name \in 0..Count /\ t[i].value \in Nat
           /\ t[i].size \in 0..(Size - 1) /\ t[i].size \in Nat /\ i \in Nat
  BY CountIsNat DEF Symbol, Place

LEMMA SwappedFacts ==
    ASSUME NEW t \in [Place -> Symbol], NEW i \in Place, NEW j \in Place
    PROVE  /\ Swapped(t, i, j) \in [Place -> Symbol]
           /\ \A n \in Place : Swapped(t, i, j)[n] = IF n = j THEN t[i] ELSE IF n = i THEN t[j] ELSE t[n]
  BY DEF Swapped

LEMMA SwappedIsHeld ==
    ASSUME NEW t, Held(t), NEW i \in Place, NEW j \in Place
    PROVE  Held(Swapped(t, i, j))
<1> DEFINE u == Swapped(t, i, j)
           from(n) == IF n = j THEN i ELSE IF n = i THEN j ELSE n
<1>1. t \in [Place -> Symbol]
  BY DEF Held
<1>2. /\ u \in [Place -> Symbol]
      /\ \A n \in Place : u[n] = IF n = j THEN t[i] ELSE IF n = i THEN t[j] ELSE t[n]
  BY <1>1, SwappedFacts
<1> HIDE DEF u
<1>3. \A n \in Place : from(n) \in Place /\ u[n] = t[from(n)] /\ u[from(n)] = t[n]
  BY <1>2
<1>4. \A m, n \in Place : from(m) = from(n) => m = n
  OBVIOUS
<1> HIDE DEF from
<1>5. \A n \in Place : IF u[n].name = 0 THEN u[n].value = 0
                       ELSE u[n].name \in Place /\ u[n] = file[u[n].name]
  <2>1. SUFFICES ASSUME NEW n \in Place
                 PROVE  IF u[n].name = 0 THEN u[n].value = 0
                        ELSE u[n].name \in Place /\ u[n] = file[u[n].name]
    OBVIOUS
  <2>2. PICK m \in Place : u[n] = t[m]
    BY <1>3
  <2>3. IF t[m].name = 0 THEN t[m].value = 0
        ELSE t[m].name \in Place /\ t[m] = file[t[m].name]
    BY DEF Held
  <2>4. QED
    BY <2>2, <2>3
<1>6. \A k \in Place : file[k].name # 0 => \E n \in Place : u[n] = file[k]
  <2>1. SUFFICES ASSUME NEW k \in Place, file[k].name # 0 PROVE \E n \in Place : u[n] = file[k]
    OBVIOUS
  <2>2. PICK m \in Place : t[m] = file[k]
    BY <2>1 DEF Held
  <2>3. from(m) \in Place /\ u[from(m)] = t[m]
    BY <1>3
  <2>4. QED
    BY <2>2, <2>3
<1>7. \A m, n \in Place : u[m].name # 0 /\ u[m].name = u[n].name => m = n
  BY <1>3, <1>4 DEF Held
<1>8. QED
  BY <1>2, <1>5, <1>6, <1>7 DEF Held, u

LEMMA RangeParts ==
    ASSUME NEW p, InRange(p)
    PROVE  /\ p.base \in Nat /\ p.max \in Nat /\ p.first \in Nat /\ p.last \in Nat /\ p.key \in Nat
           /\ 1 <= p.base /\ p.max <= Count
           /\ p.base <= p.first /\ p.first <= p.max + 1
           /\ p.base <= p.last + 1 /\ p.last <= p.max
  BY DEF InRange

\* Where the two scans of a turn stop.
Stops(t, p, v, i, j) ==
    /\ i \in Place /\ p.first <= i /\ i <= p.max /\ v <= t[i].value
    /\ j \in Place /\ p.base <= j /\ j <= p.last /\ t[j].value <= v
    /\ \A n \in Place : p.first <= n /\ n < i => t[n].value < v
    /\ \A n \in Place : j < n /\ n <= p.last => v < t[n].value

LEMMA ScansStop ==
    ASSUME NEW t, Held(t), NEW c, NEW p, Sorts(t, c, p), p.first <= p.last
    PROVE  LET v == t[p.key].value
               i == Min({n \in p.first..Count : t[n].value >= v})
               j == Max({n \in 1..p.last : t[n].value <= v})
           IN  /\ p.key \in Place /\ Stops(t, p, v, i, j)
               /\ \A n \in Place : p.base <= n /\ n < p.first => t[n].value <= v
               /\ \A n \in Place : p.last < n /\ n <= p.max => v <= t[n].value
<1> DEFINE up == {n \in p.first..Count : t[n].value >= t[p.key].value}
           down == {n \in 1..p.last : t[n].value <= t[p.key].value}
<1>1. t \in [Place -> Symbol] /\ Count \in Nat
  BY CountIsNat DEF Held
<1>2. \A n \in Place : t[n].value \in Nat /\ n \in Nat
  BY <1>1, SymbolFacts
<1>3. /\ p.base \in Nat /\ p.max \in Nat /\ p.first \in Nat /\ p.last \in Nat
      /\ 1 <= p.base /\ p.max <= Count
      /\ p.base <= p.first /\ p.last <= p.max
  BY RangeParts DEF Sorts
<1>4. PICK v \in Nat :
        /\ \A n \in Place : p.base <= n /\ n < p.first => t[n].value <= v
        /\ \A n \in Place : p.last < n /\ n <= p.max => v <= t[n].value
        /\ p.key \in Place /\ t[p.key].value = v
        /\ \E n \in Place : p.first <= n /\ n <= p.max /\ v <= t[n].value
        /\ \E n \in Place : p.base <= n /\ n <= p.last /\ t[n].value <= v
  BY DEF Sorts, Divided
<1>5. PICK a \in Place : p.first <= a /\ a <= p.max /\ v <= t[a].value
  BY <1>4
<1>6. PICK b \in Place : p.base <= b /\ b <= p.last /\ t[b].value <= v
  BY <1>4
<1>7. a \in up /\ b \in down
  BY <1>1, <1>2, <1>3, <1>4, <1>5, <1>6 DEF Place
<1>8. up \in SUBSET Nat /\ down \in SUBSET (1..p.last)
  BY <1>3
<1>9. Min(up) \in up /\ \A n \in up : Min(up) <= n
  <2> HIDE DEF up
  <2>1. QED
    BY <1>7, <1>8, MinIsLeast
<1>10. Max(down) \in down /\ \A n \in down : n <= Max(down)
  <2> HIDE DEF down
  <2>1. QED
    BY <1>3, <1>7, <1>8, MaxIsGreatest
<1>11. PICK i, j : i = Min(up) /\ j = Max(down)
  OBVIOUS
<1>12. /\ i \in p.first..Count /\ v <= t[i].value /\ i <= a
       /\ \A n \in p.first..Count : v <= t[n].value => i <= n
  BY <1>4, <1>7, <1>9, <1>11
<1>13. /\ j \in 1..p.last /\ t[j].value <= v /\ b <= j
       /\ \A n \in 1..p.last : t[n].value <= v => n <= j
  BY <1>4, <1>7, <1>10, <1>11
<1>14. i \in Place /\ p.first <= i /\ i <= p.max
  BY <1>1, <1>3, <1>5, <1>12 DEF Place
<1>15. j \in Place /\ p.base <= j /\ j <= p.last
  BY <1>1, <1>3, <1>6, <1>13 DEF Place
<1>16. ASSUME NEW n \in Place, p.first <= n, n < i PROVE t[n].value < v
  <2>1. n \in p.first..Count /\ t[n].value \in Nat
    BY <1>1, <1>2, <1>3, <1>16 DEF Place
  <2>2. QED
    BY <1>12, <1>14, <1>16, <2>1 DEF Place
<1>17. ASSUME NEW n \in Place, j < n, n <= p.last PROVE v < t[n].value
  <2>1. n \in 1..p.last /\ t[n].value \in Nat
    BY <1>1, <1>2, <1>3, <1>17 DEF Place
  <2>2. QED
    BY <1>13, <1>15, <1>17, <2>1 DEF Place
<1>18. Stops(t, p, v, i, j)
  BY <1>12, <1>13, <1>14, <1>15, <1>16, <1>17 DEF Stops
<1>19. QED
  BY <1>4, <1>11, <1>18, Zenon

\* The pointers pass each other and nothing moves.
LEMMA MeetingSorts ==
    ASSUME NEW t, Held(t), NEW c, NEW p, Sorts(t, c, p), p.first <= p.last,
           NEW v \in Nat, NEW i, NEW j, Stops(t, p, v, i, j), i > j,
           \A n \in Place : p.base <= n /\ n < p.first => t[n].value <= v,
           \A n \in Place : p.last < n /\ n <= p.max => v <= t[n].value,
           NEW q, q = [p EXCEPT !.first = i, !.last = j]
    PROVE  Sorts(t, c, q)
<1>1. \A n \in Place : t[n].value \in Nat /\ n \in Nat
  BY SymbolFacts DEF Held
<1>2. /\ p.base \in Nat /\ p.max \in Nat /\ p.first \in Nat /\ p.last \in Nat /\ p.key \in Nat
      /\ 1 <= p.base /\ p.max <= Count /\ p.base <= p.first /\ p.last <= p.max
      /\ p.first <= p.max + 1 /\ p.base <= p.last + 1
  BY RangeParts DEF Sorts
<1>3. /\ i \in Place /\ p.first <= i /\ i <= p.max
      /\ j \in Place /\ p.base <= j /\ j <= p.last
      /\ \A n \in Place : p.first <= n /\ n < i => t[n].value < v
      /\ \A n \in Place : j < n /\ n <= p.last => v < t[n].value
      /\ i \in Nat /\ j \in Nat
  BY <1>1 DEF Stops
<1>4. /\ q \in [base : Nat, max : Nat, first : Nat, last : Nat, key : Nat]
      /\ q.base = p.base /\ q.max = p.max /\ q.first = i /\ q.last = j /\ q.key = p.key
  BY <1>3 DEF Sorts, InRange
<1>5. InRange(q)
  BY <1>2, <1>3, <1>4, CountIsNat DEF InRange
<1>6. ASSUME NEW n \in Place, q.base <= n, n < q.first PROVE t[n].value <= v
  BY <1>1, <1>2, <1>3, <1>4, <1>6
<1>7. ASSUME NEW n \in Place, q.last < n, n <= q.max PROVE v <= t[n].value
  BY <1>1, <1>2, <1>3, <1>4, <1>7
<1>8. ~(q.first <= q.last)
  BY <1>3, <1>4
<1>9. Divided(t, q)
  BY <1>6, <1>7, <1>8 DEF Divided
<1>10. Waiting(c, q) /\ Ordered(t, c, q)
  BY <1>4 DEF Sorts, Waiting, Ordered, Within, Outside
<1>11. QED
  BY <1>5, <1>9, <1>10 DEF Sorts

LEMMA OutsideIsInOrder ==
    ASSUME NEW t, NEW c, NEW p, Sorts(t, c, p), t \in [Place -> Symbol],
           NEW m \in Place, NEW n \in Place, NEW l \in Place,
           p.base <= m, m <= p.max, p.base <= l, l <= p.max
    PROVE  /\ p.max < n => t[m].value <= t[n].value
           /\ n < p.base => t[n].value <= t[m].value
<1>1. /\ p.base \in Nat /\ p.max \in Nat /\ m \in Nat /\ n \in Nat
      /\ \A r \in c : r.base \in Nat /\ r.max \in Nat /\ Outside(r, p)
  BY RangeParts, SymbolFacts DEF Sorts, Waiting
<1>2. CASE p.max < n
  <2>1. m < n /\ ~Within(p, m, n)
    BY <1>1, <1>2 DEF Within
  <2>2. \A r \in c : ~Within(r, m, n)
    BY <1>1, <1>2 DEF Within, Outside
  <2>3. t[m].value <= t[n].value
    BY <2>1, <2>2 DEF Sorts, Ordered
  <2>4. QED
    BY <1>1, <1>2, <2>1, <2>3
<1>3. CASE n < p.base
  <2>1. n < m /\ ~Within(p, n, m)
    BY <1>1, <1>3 DEF Within
  <2>2. \A r \in c : ~Within(r, n, m)
    BY <1>1, <1>3 DEF Within, Outside
  <2>3. t[n].value <= t[m].value
    BY <2>1, <2>2 DEF Sorts, Ordered
  <2>4. QED
    BY <1>1, <1>3, <2>1, <2>3
<1>4. QED
  BY <1>2, <1>3

\* Two symbols in the range of the call change places, those out of it stay
\* where they are.
LEMMA SwapKeepsOrder ==
    ASSUME NEW t, NEW c, NEW p, Sorts(t, c, p), t \in [Place -> Symbol],
           NEW i \in Place, NEW j \in Place, p.base <= i, i <= p.max, p.base <= j, j <= p.max
    PROVE  Ordered(Swapped(t, i, j), c, p)
<1> DEFINE u == Swapped(t, i, j)
<1>1. /\ p.base \in Nat /\ p.max \in Nat
      /\ \A n \in Place : n \in Nat /\ t[n].value \in Nat
  BY RangeParts, SymbolFacts DEF Sorts
<1>2. \A n \in Place : u[n] = IF n = j THEN t[i] ELSE IF n = i THEN t[j] ELSE t[n]
  BY SwappedFacts
<1> HIDE DEF u
<1>3. \A n \in Place : p.base <= n /\ n <= p.max =>
          \E m \in Place : p.base <= m /\ m <= p.max /\ u[n] = t[m]
  BY <1>2
<1>4. \A n \in Place : ~(p.base <= n /\ n <= p.max) => u[n] = t[n]
  BY <1>2
<1>5. SUFFICES ASSUME NEW m \in Place, NEW n \in Place, m < n, ~Within(p, m, n)
               PROVE  u[m].value <= u[n].value \/ \E r \in c : Within(r, m, n)
  BY DEF Ordered, u
<1>6. CASE p.base <= m /\ m <= p.max
  <2>1. p.max < n
    BY <1>1, <1>5, <1>6 DEF Within
  <2>2. PICK l \in Place : p.base <= l /\ l <= p.max /\ u[m] = t[l]
    BY <1>3, <1>6
  <2>3. u[n] = t[n]
    BY <1>1, <1>4, <2>1
  <2>4. QED
    BY <2>1, <2>2, <2>3, OutsideIsInOrder
<1>7. CASE p.base <= n /\ n <= p.max
  <2>1. m < p.base
    BY <1>1, <1>5, <1>7 DEF Within
  <2>2. PICK l \in Place : p.base <= l /\ l <= p.max /\ u[n] = t[l]
    BY <1>3, <1>7
  <2>3. u[m] = t[m]
    BY <1>1, <1>4, <2>1
  <2>4. QED
    BY <2>1, <2>2, <2>3, OutsideIsInOrder
<1>8. CASE ~(p.base <= m /\ m <= p.max) /\ ~(p.base <= n /\ n <= p.max)
  BY <1>4, <1>5, <1>8 DEF Sorts, Ordered
<1>9. QED
  BY <1>6, <1>7, <1>8

LEMMA SwapSorts ==
    ASSUME NEW t, Held(t), NEW c, NEW p, Sorts(t, c, p), p.first <= p.last,
           p.key \in Place, NEW v \in Nat, v = t[p.key].value,
           NEW i, NEW j, Stops(t, p, v, i, j), i <= j,
           \A n \in Place : p.base <= n /\ n < p.first => t[n].value <= v,
           \A n \in Place : p.last < n /\ n <= p.max => v <= t[n].value,
           NEW q, q = [p EXCEPT !.first = i + 1, !.last = j - 1, !.key = Follow(p.key, i, j)]
    PROVE  Sorts(Swapped(t, i, j), c, q)
<1> DEFINE u == Swapped(t, i, j)
           k == Follow(p.key, i, j)
<1>1. t \in [Place -> Symbol] /\ \A n \in Place : t[n].value \in Nat /\ n \in Nat
  BY SymbolFacts DEF Held
<1>2. /\ p.base \in Nat /\ p.max \in Nat /\ p.first \in Nat /\ p.last \in Nat /\ p.key \in Nat
      /\ 1 <= p.base /\ p.max <= Count /\ p.base <= p.first /\ p.last <= p.max
      /\ p.first <= p.max + 1 /\ p.base <= p.last + 1
  BY RangeParts DEF Sorts
<1>3. /\ i \in Place /\ p.first <= i /\ i <= p.max /\ v <= t[i].value
      /\ j \in Place /\ p.base <= j /\ j <= p.last /\ t[j].value <= v
      /\ \A n \in Place : p.first <= n /\ n < i => t[n].value < v
      /\ \A n \in Place : j < n /\ n <= p.last => v < t[n].value
      /\ i \in Nat /\ j \in Nat
  BY <1>1 DEF Stops
<1>4. p.base <= i /\ j <= p.max /\ i + 1 \in Nat /\ j - 1 \in Nat
  BY <1>2, <1>3
<1>5. k \in Place /\ k \in Nat
  BY <1>1, <1>3 DEF Follow
<1>6. \A n \in Place : u[n] = IF n = j THEN t[i] ELSE IF n = i THEN t[j] ELSE t[n]
  BY <1>1, <1>3, SwappedFacts
<1>7. u[k].value = v
  BY <1>3, <1>6 DEF Follow
<1> HIDE DEF u, k
<1>8. PICK a, b : a = i + 1 /\ b = j - 1
  OBVIOUS
<1>9. a \in Nat /\ b \in Nat /\ q = [p EXCEPT !.first = a, !.last = b, !.key = k]
  BY <1>4, <1>8 DEF k
<1>10. /\ q \in [base : Nat, max : Nat, first : Nat, last : Nat, key : Nat]
       /\ q.base = p.base /\ q.max = p.max /\ q.first = i + 1 /\ q.last = j - 1 /\ q.key = k
  BY <1>5, <1>8, <1>9 DEF Sorts, InRange
<1>11. InRange(q)
  BY <1>2, <1>3, <1>4, <1>10, CountIsNat DEF InRange
<1>12. ASSUME NEW n \in Place, q.base <= n, n < q.first PROVE u[n].value <= v
  <2>1. n \in Nat /\ n <= i /\ p.base <= n
    <3>1. n \in Nat /\ n < i + 1 /\ p.base <= n
      BY <1>1, <1>10, <1>12
    <3>2. i \in Nat
      BY <1>3
    <3>3. QED
      BY <3>1, <3>2
  <2>2. CASE n = i
    <3>1. u[n] = t[j] \/ (i = j /\ u[n] = t[i])
      BY <1>6, <2>2
    <3>2. QED
      BY <1>3, <3>1
  <2>3. CASE n # i
    <3>1. n < i /\ n # j
      BY <1>1, <1>3, <2>1, <2>3
    <3>2. u[n] = t[n]
      BY <1>6, <2>3, <3>1
    <3>3. n < p.first \/ p.first <= n
      BY <1>2, <2>1
    <3>4. QED
      BY <1>1, <1>3, <2>1, <3>1, <3>2, <3>3
  <2>4. QED
    BY <2>2, <2>3
<1>13. ASSUME NEW n \in Place, q.last < n, n <= q.max PROVE v <= u[n].value
  <2>1. n \in Nat /\ j <= n /\ n <= p.max
    BY <1>1, <1>3, <1>10, <1>13
  <2>2. CASE n = j
    <3>1. u[n] = t[i]
      BY <1>6, <2>2
    <3>2. QED
      BY <1>3, <3>1
  <2>3. CASE n # j
    <3>1. j < n /\ n # i
      BY <1>1, <1>3, <2>1, <2>3
    <3>2. u[n] = t[n]
      BY <1>6, <2>3, <3>1
    <3>3. n <= p.last \/ p.last < n
      BY <1>2, <2>1
    <3>4. QED
      BY <1>1, <1>3, <2>1, <3>1, <3>2, <3>3
  <2>4. QED
    BY <2>2, <2>3
<1>14. ASSUME q.first <= q.last
       PROVE  /\ \E n \in Place : q.first <= n /\ n <= q.max /\ v <= u[n].value
              /\ \E n \in Place : q.base <= n /\ n <= q.last /\ u[n].value <= v
  <2>1. i + 1 <= j - 1 /\ i # j
    BY <1>3, <1>10, <1>14
  <2>2. q.first <= j /\ j <= q.max /\ u[j] = t[i]
    BY <1>3, <1>4, <1>6, <1>10, <2>1
  <2>3. q.base <= i /\ i <= q.last /\ u[i] = t[j]
    BY <1>3, <1>4, <1>6, <1>10, <2>1
  <2>4. QED
    BY <1>3, <2>2, <2>3
<1>15. Divided(u, q)
  BY <1>5, <1>7, <1>10, <1>12, <1>13, <1>14 DEF Divided
<1>16. i <= p.max /\ p.base <= j
  BY <1>3
<1>17. Ordered(u, c, p)
  BY <1>1, <1>3, <1>4, <1>16, SwapKeepsOrder DEF u
<1>18. Waiting(c, q) /\ Ordered(u, c, q)
  BY <1>10, <1>17 DEF Sorts, Waiting, Ordered, Within, Outside
<1>19. QED
  BY <1>11, <1>15, <1>18 DEF Sorts, u

\* The two calls that a call makes are for what its pointers have passed.
LEMMA RestSorts ==
    ASSUME NEW t, Held(t), NEW c, NEW p, Sorts(t, c, p), p.first > p.last,
           NEW d, d = c \cup {r \in {[base |-> p.base, max |-> p.last], [base |-> p.first, max |-> p.max]} :
                                 r.base < r.max}
    PROVE  /\ d \subseteq [base : Nat, max : Nat]
           /\ \A r \in d : 1 <= r.base /\ r.base <= r.max /\ r.max <= Count
           /\ \A r, s \in d : r = s \/ Outside(r, s)
           /\ \A i, j \in Place : i < j => t[i].value <= t[j].value \/ \E r \in d : Within(r, i, j)
<1> DEFINE low == [base |-> p.base, max |-> p.last]
           high == [base |-> p.first, max |-> p.max]
<1>1. \A n \in Place : t[n].value \in Nat /\ n \in Nat
  BY SymbolFacts DEF Held
<1>2. /\ p.base \in Nat /\ p.max \in Nat /\ p.first \in Nat /\ p.last \in Nat
      /\ 1 <= p.base /\ p.max <= Count /\ p.base <= p.first /\ p.last <= p.max /\ Count \in Nat
  BY RangeParts, CountIsNat DEF Sorts
<1>3. /\ low \in [base : Nat, max : Nat] /\ low.base = p.base /\ low.max = p.last
      /\ high \in [base : Nat, max : Nat] /\ high.base = p.first /\ high.max = p.max
  BY <1>2
<1>4. \A r \in d : r \in c \/ (r = low /\ p.base < p.last) \/ (r = high /\ p.first < p.max)
  BY <1>3
<1>5. /\ c \subseteq d /\ (p.base < p.last => low \in d) /\ (p.first < p.max => high \in d)
  BY <1>3
<1>6. /\ c \subseteq [base : Nat, max : Nat]
      /\ \A r \in c : 1 <= r.base /\ r.base <= r.max /\ r.max <= Count /\ Outside(r, p)
      /\ \A r, s \in c : r = s \/ Outside(r, s)
  BY DEF Sorts, Waiting
<1> HIDE DEF low, high
<1>7. \A r \in d : /\ r \in [base : Nat, max : Nat] /\ r.base \in Nat /\ r.max \in Nat
                   /\ 1 <= r.base /\ r.base <= r.max /\ r.max <= Count
  <2>1. SUFFICES ASSUME NEW r \in d
                 PROVE  /\ r \in [base : Nat, max : Nat] /\ r.base \in Nat /\ r.max \in Nat
                        /\ 1 <= r.base /\ r.base <= r.max /\ r.max <= Count
    OBVIOUS
  <2>2. CASE r \in c
    BY <1>6, <2>2
  <2>3. CASE r = low /\ p.base < p.last
    BY <1>2, <1>3, <2>3
  <2>4. CASE r = high /\ p.first < p.max
    BY <1>2, <1>3, <2>4
  <2>5. QED
    BY <1>4, <2>2, <2>3, <2>4
<1>8. \A r \in c : Outside(r, low) /\ Outside(low, r) /\ Outside(r, high) /\ Outside(high, r)
  <2>1. SUFFICES ASSUME NEW r \in c
                 PROVE  Outside(r, low) /\ Outside(low, r) /\ Outside(r, high) /\ Outside(high, r)
    OBVIOUS
  <2>2. r.base \in Nat /\ r.max \in Nat /\ Outside(r, p)
    BY <1>6
  <2>3. QED
    BY <1>2, <1>3, <2>2 DEF Outside
<1>9. Outside(low, high) /\ Outside(high, low)
  BY <1>2, <1>3 DEF Outside
<1>10. \A r, s \in d : r = s \/ Outside(r, s)
  BY <1>4, <1>6, <1>8, <1>9
<1>11. PICK v \in Nat :
        /\ \A n \in Place : p.base <= n /\ n < p.first => t[n].value <= v
        /\ \A n \in Place : p.last < n /\ n <= p.max => v <= t[n].value
  BY DEF Sorts, Divided
<1>12. ASSUME NEW i \in Place, NEW j \in Place, i < j
       PROVE  t[i].value <= t[j].value \/ \E r \in d : Within(r, i, j)
  <2>1. i \in Nat /\ j \in Nat /\ t[i].value \in Nat /\ t[j].value \in Nat
    BY <1>1
  <2>2. CASE ~Within(p, i, j)
    <3>1. t[i].value <= t[j].value \/ \E r \in c : Within(r, i, j)
      BY <1>12, <2>2 DEF Sorts, Ordered
    <3>2. QED
      BY <1>5, <3>1
  <2>3. CASE Within(p, i, j) /\ j <= p.last
    <3>1. low \in d /\ Within(low, i, j)
      BY <1>2, <1>3, <1>5, <1>12, <2>1, <2>3 DEF Within
    <3>2. QED
      BY <3>1
  <2>4. CASE Within(p, i, j) /\ p.first <= i
    <3>1. high \in d /\ Within(high, i, j)
      BY <1>2, <1>3, <1>5, <1>12, <2>1, <2>4 DEF Within
    <3>2. QED
      BY <3>1
  <2>5. CASE Within(p, i, j) /\ ~(j <= p.last) /\ ~(p.first <= i)
    <3>1. p.base <= i /\ i < p.first /\ p.last < j /\ j <= p.max
      BY <1>2, <2>1, <2>5 DEF Within
    <3>2. t[i].value <= v /\ v <= t[j].value
      BY <1>11, <3>1
    <3>3. QED
      BY <2>1, <3>2
  <2>6. QED
    BY <2>2, <2>3, <2>4, <2>5
<1>13. QED
  BY <1>7, <1>10, <1>12

\* A call starts with the range it is for.
LEMMA CallSorts ==
    ASSUME NEW t, Held(t), NEW d, NEW l \in [base : Nat, max : Nat],
           1 <= l.base, l.base <= l.max + 1, l.max <= Count, l.base <= Count + 1,
           d \subseteq [base : Nat, max : Nat],
           \A r \in d : 1 <= r.base /\ r.base <= r.max /\ r.max <= Count,
           \A r, s \in d \cup {l} : r = s \/ Outside(r, s),
           \A i, j \in Place :
               i < j => t[i].value <= t[j].value \/ \E r \in d \cup {l} : Within(r, i, j)
    PROVE  Sorts(t, d \ {l}, Call(l.base, l.max))
<1> DEFINE p == Call(l.base, l.max)
           half == ((l.max - l.base) + 1) \div 2
           key == l.base + half
<1>1. l.base \in Nat /\ l.max \in Nat /\ Count \in Nat
  BY CountIsNat
<1>2. half \in Nat /\ (l.base <= l.max => key <= l.max) /\ key \in Nat
  <2>1. PICK n : n = (l.max - l.base) + 1
    OBVIOUS
  <2>2. n \in Nat /\ l.max = (l.base + n) - 1
    BY <1>1, <2>1
  <2>3. (n \div 2) \in Nat /\ (n > 0 => (n \div 2) <= n - 1)
    BY <2>2
  <2>4. PICK h : h = (n \div 2)
    OBVIOUS
  <2>5. h \in Nat /\ (n > 0 => h <= n - 1) /\ half = h
    BY <2>1, <2>3, <2>4
  <2> HIDE DEF half
  <2>6. PICK a \in Nat, b \in Nat : a = l.base /\ b = l.max
    BY <1>1
  <2>7. a <= b => a + h <= b
    BY <2>1, <2>2, <2>5, <2>6
  <2>8. half \in Nat /\ key = a + h
    BY <2>5, <2>6
  <2> HIDE DEF key
  <2>9. QED
    BY <2>5, <2>6, <2>7, <2>8
<1> HIDE DEF half
<1>3. /\ p \in [base : Nat, max : Nat, first : Nat, last : Nat, key : Nat]
      /\ p.base = l.base /\ p.max = l.max /\ p.first = l.base /\ p.last = l.max /\ p.key = key
  BY <1>1, <1>2 DEF Call, half
<1> HIDE DEF p, key
<1>4. InRange(p)
  BY <1>1, <1>3 DEF InRange
<1>5. \A n \in Place : t[n].value \in Nat /\ n \in Nat
  BY SymbolFacts DEF Held
<1>6. Divided(t, p)
  <2>1. CASE l.base <= l.max
    <3>1. key \in Place /\ l.base <= key /\ key <= l.max
      BY <1>1, <1>2, <2>1 DEF Place, key
    <3>2. t[key].value \in Nat /\ t[key].value <= t[key].value
      BY <1>5, <3>1
    <3>3. \A n \in Place : ~(p.base <= n /\ n < p.first) /\ ~(p.last < n /\ n <= p.max)
      BY <1>1, <1>3, <1>5
    <3>4. QED
      BY <1>3, <3>1, <3>2, <3>3 DEF Divided
  <2>2. CASE ~(l.base <= l.max)
    <3>1. \A n \in Place : ~(p.base <= n /\ n < p.first) /\ ~(p.last < n /\ n <= p.max)
      BY <1>1, <1>3, <1>5
    <3>2. ~(p.first <= p.last) /\ 0 \in Nat
      BY <1>3, <2>2
    <3>3. QED
      BY <3>1, <3>2 DEF Divided
  <2>3. QED
    BY <2>1, <2>2
<1>7. Waiting(d \ {l}, p)
  BY <1>3 DEF Waiting, Outside
<1>8. Ordered(t, d \ {l}, p)
  <2>1. SUFFICES ASSUME NEW i \in Place, NEW j \in Place, i < j, ~Within(p, i, j)
                 PROVE  t[i].value <= t[j].value \/ \E r \in d \ {l} : Within(r, i, j)
    BY DEF Ordered
  <2>2. ~Within(l, i, j)
    BY <1>3, <2>1 DEF Within
  <2>3. QED
    BY <2>1, <2>2
<1>9. QED
  BY <1>4, <1>6, <1>7, <1>8 DEF Sorts, p

-----------------------------------------------------------------------------
(* The steps up to the sorted list *)

Phases == {"read", "voided", "sorting", "sorted", "erased", "loaded"}
InOrder(t) == \A i, j \in Place : i < j => t[i].value <= t[j].value

\* What is left of the table: the symbols of the program by their values,
\* each once.
Listed(u) ==
    /\ u \in Seq(Symbol)
    /\ \A i \in 1..Len(u) : /\ u[i].name \in Place /\ file[u[i].name].name # 0
                            /\ u[i].value = file[u[i].name].value /\ ElfBase <= u[i].value
    /\ \A i, j \in 1..Len(u) : i < j => u[i].value <= u[j].value /\ u[i].name # u[j].name
    /\ \A k \in Place : file[k].name # 0 /\ ElfBase <= file[k].value =>
           \E i \in 1..Len(u) : u[i].name = k

\* The symbols are as the file has them.
Verbatim(u) == \A i \in 1..Len(u) : u[i] = file[u[i].name]

\* Where the search for the next value ends.
EndsAt(u, i, n) ==
    /\ n \in (i + 1)..Len(u) /\ (n = Len(u) \/ u[n].value # u[i].value)
    /\ \A m \in (i + 1)..(n - 1) : u[m].value = u[i].value

\* The sizes are those of the file, or reach to the next value.
Sizes(u) ==
    \A i \in 1..Len(u) :
        LET s == file[u[i].name].size
        IN  IF s # 0 THEN u[i].size = s
            ELSE IF i < Len(u)
            THEN \E n \in Nat : EndsAt(u, i, n) /\ u[i].size = (u[n].value - u[i].value) % Size
            ELSE u[i].size = (Past - u[i].value) % Size

TableInv ==
    /\ phase \in Phases /\ file \in Files
    /\ part \in [base : Nat, max : Nat, first : Nat, last : Nat, key : Nat]
    /\ calls \subseteq [base : Nat, max : Nat]
    /\ phase = "read" => symbols = file
    /\ phase \in {"read", "voided"} => calls = {}
    /\ phase \in {"voided", "sorting", "sorted"} => Held(symbols)
    /\ phase = "sorting" => Sorts(symbols, calls, part)
    /\ phase = "sorted" => InOrder(symbols)
    /\ phase \in {"erased", "loaded"} => Listed(symbols)
    /\ phase = "erased" => Verbatim(symbols)
    /\ phase = "loaded" => Sizes(symbols)

LEMMA FileFacts ==
    ASSUME file \in Files
    PROVE  file \in [Place -> Symbol] /\ \A i \in Place : file[i].name \in {0, i}
<1>1. Value \subseteq Nat /\ Bytes \subseteq 0..(Size - 1)
  BY ProgramAssumption
<1>2. file \in [Place -> [name : 0..Count, value : Value, size : Bytes]]
  BY DEF Files, Place
<1>3. ASSUME NEW i \in Place PROVE file[i] \in Symbol
  <2>1. file[i] \in [name : 0..Count, value : Value, size : Bytes]
    BY <1>2
  <2>2. QED
    BY <1>1, <2>1 DEF Symbol
<1>4. QED
  BY <1>2, <1>3 DEF Files, Place

LEMMA TableIsSeq ==
    ASSUME NEW t \in [Place -> Symbol]
    PROVE  t \in Seq(Symbol) /\ Len(t) = Count /\ DOMAIN t = Place
<1>1. t \in [1..Count -> Symbol] /\ Count \in Nat
  BY CountIsNat DEF Place
<1>2. t \in Seq(Symbol)
  BY <1>1, SeqDef
<1>3. Len(t) = Count
  BY <1>1, <1>2
<1>4. QED
  BY <1>2, <1>3

LEMMA InitTableInv == ASSUME Init PROVE TableInv
<1>1. part \in [base : Nat, max : Nat, first : Nat, last : Nat, key : Nat]
  <2>1. ((0 - 1) + 1) \div 2 = 0
    OBVIOUS
  <2>2. part = [base |-> 1, max |-> 0, first |-> 1, last |-> 0, key |-> 1]
    BY <2>1 DEF Init, Call
  <2>3. QED
    BY <2>2
<1>2. QED
  BY <1>1 DEF Init, TableInv, Phases

LEMMA VoidUnnamedInv == ASSUME TableInv, VoidUnnamed PROVE TableInv'
<1>1. /\ phase = "read" /\ phase' = "voided" /\ UNCHANGED <<file, part, calls, answer>>
      /\ symbols = file /\ calls = {} /\ file \in Files
  BY DEF VoidUnnamed, TableInv
<1>2. file \in [Place -> Symbol] /\ \A i \in Place : file[i].name \in {0, i}
  BY <1>1, FileFacts
<1>3. PICK u : u = [i \in Place |-> IF file[i].name = 0 THEN [file[i] EXCEPT !.value = 0] ELSE file[i]]
  OBVIOUS
<1>4. symbols' = u
  <2>1. DOMAIN file = Place
    BY <1>2
  <2>2. QED
    BY <1>1, <1>3, <2>1 DEF VoidUnnamed
<1>5. ASSUME NEW i \in Place
      PROVE  /\ u[i] \in Symbol /\ u[i].name = file[i].name
             /\ file[i].name = 0 => u[i].value = 0
             /\ file[i].name # 0 => u[i] = file[i]
  <2>1. file[i] \in Symbol
    BY <1>2
  <2>2. QED
    BY <1>3, <2>1 DEF Symbol
<1>6. u \in [Place -> Symbol]
  BY <1>3, <1>5
<1>7. Held(u)
  BY <1>2, <1>5, <1>6 DEF Held
<1>8. QED
  BY <1>1, <1>4, <1>7 DEF TableInv, Phases, Held

LEMMA SortSymbolsInv == ASSUME TableInv, SortSymbols PROVE TableInv'
<1>1. /\ phase = "voided" /\ phase' = "sorting" /\ UNCHANGED <<file, symbols, calls, answer>>
      /\ calls = {} /\ file \in Files /\ Held(symbols) /\ part' = Call(1, Len(symbols))
  BY DEF SortSymbols, TableInv
<1>2. symbols \in [Place -> Symbol] /\ Len(symbols) = Count
  BY <1>1, TableIsSeq DEF Held
<1>3. PICK l : l = [base |-> 1, max |-> Count]
  OBVIOUS
<1>4. l \in [base : Nat, max : Nat] /\ l.base = 1 /\ l.max = Count /\ Count \in Nat
  BY <1>3, CountIsNat
<1>5. \A i, j \in Place : Within(l, i, j)
  BY <1>4 DEF Within, Place
<1>6. Sorts(symbols, {} \ {l}, Call(l.base, l.max))
  <2>1. 1 <= l.base /\ l.base <= l.max + 1 /\ l.max <= Count /\ l.base <= Count + 1
    BY <1>4
  <2>2. {} \subseteq [base : Nat, max : Nat] /\ \A r \in {} : 1 <= r.base /\ r.base <= r.max /\ r.max <= Count
    OBVIOUS
  <2>3. \A r, s \in {} \cup {l} : r = s \/ Outside(r, s)
    OBVIOUS
  <2>4. \A i, j \in Place :
            i < j => symbols[i].value <= symbols[j].value \/ \E r \in {} \cup {l} : Within(r, i, j)
    BY <1>5
  <2>5. QED
    BY <1>1, <1>4, <2>1, <2>2, <2>3, <2>4, CallSorts
<1>7. Sorts(symbols, {}, Call(1, Count))
  <2>1. {} \ {l} = {}
    OBVIOUS
  <2>2. QED
    BY <1>4, <1>6, <2>1, Zenon
<1>8. PICK p : p = part'
  OBVIOUS
<1>9. Sorts(symbols, {}, p) /\ p \in [base : Nat, max : Nat, first : Nat, last : Nat, key : Nat]
  <2>1. Sorts(symbols, {}, p)
    BY <1>1, <1>2, <1>7, <1>8
  <2>2. QED
    BY <2>1 DEF Sorts, InRange
<1>10. Held(symbols)' /\ Sorts(symbols, calls, part)'
  <2>1. symbols' = symbols /\ file' = file /\ calls' = {} /\ part' = p
    BY <1>1, <1>8
  <2>2. Sorts(symbols', calls', part')
    BY <1>9, <2>1
  <2>3. QED
    BY <1>1, <2>1, <2>2 DEF Held
<1>11. QED
  BY <1>1, <1>8, <1>9, <1>10 DEF TableInv, Phases

LEMMA PartitionInv == ASSUME TableInv, Partition PROVE TableInv'
<1>1. /\ phase = "sorting" /\ phase' = "sorting" /\ file' = file /\ calls' = calls /\ part.first <= part.last
      /\ file \in Files /\ Held(symbols) /\ Sorts(symbols, calls, part)
      /\ calls \subseteq [base : Nat, max : Nat]
  BY DEF Partition, TableInv
<1>2. symbols \in [Place -> Symbol] /\ Len(symbols) = Count
  BY <1>1, TableIsSeq DEF Held
<1> DEFINE v == symbols[part.key].value
           i == Min({n \in part.first..Count : symbols[n].value >= v})
           j == Max({n \in 1..part.last : symbols[n].value <= v})
<1>3. /\ part.key \in Place /\ Stops(symbols, part, v, i, j)
      /\ \A n \in Place : part.base <= n /\ n < part.first => symbols[n].value <= v
      /\ \A n \in Place : part.last < n /\ n <= part.max => v <= symbols[n].value
  BY <1>1, ScansStop
<1>4. \/ /\ i > j /\ symbols' = symbols
         /\ part' = [part EXCEPT !.first = i, !.last = j]
      \/ /\ ~(i > j) /\ symbols' = Swapped(symbols, i, j)
         /\ part' = [part EXCEPT !.first = i + 1, !.last = j - 1, !.key = Follow(part.key, i, j)]
  BY <1>2 DEF Partition
<1>5. v \in Nat
  BY <1>2, <1>3, SymbolFacts
<1> HIDE DEF v, i, j
<1>6. PICK w, x, y : w = v /\ x = i /\ y = j
  OBVIOUS
<1>7. PICK t, c, p, u, q : t = symbols /\ c = calls /\ p = part /\ u = symbols' /\ q = part'
  OBVIOUS
<1>8. /\ w \in Nat /\ w = t[p.key].value /\ p.key \in Place /\ Stops(t, p, w, x, y)
      /\ Held(t) /\ Sorts(t, c, p) /\ p.first <= p.last
      /\ \A n \in Place : p.base <= n /\ n < p.first => t[n].value <= w
      /\ \A n \in Place : p.last < n /\ n <= p.max => w <= t[n].value
  <2>1. w = t[p.key].value
    BY <1>6, <1>7 DEF v
  <2>2. QED
    BY <1>1, <1>3, <1>5, <1>6, <1>7, <2>1
<1>9. x \in Place /\ y \in Place /\ x \in Nat /\ y \in Nat
  BY <1>8 DEF Stops, Place
<1>10. Held(u) /\ Sorts(u, c, q)
  <2>1. CASE x > y /\ u = t /\ q = [p EXCEPT !.first = x, !.last = y]
    BY <1>8, <2>1, MeetingSorts
  <2>2. CASE /\ ~(x > y) /\ u = Swapped(t, x, y)
             /\ q = [p EXCEPT !.first = x + 1, !.last = y - 1, !.key = Follow(p.key, x, y)]
    <3>1. x <= y
      BY <1>9, <2>2
    <3>2. Sorts(Swapped(t, x, y), c, q)
      BY <1>8, <2>2, <3>1, SwapSorts
    <3>3. Held(Swapped(t, x, y))
      BY <1>8, <1>9, SwappedIsHeld
    <3>4. QED
      BY <2>2, <3>2, <3>3
  <2>3. QED
    BY <1>4, <1>6, <1>7, <2>1, <2>2
<1>11. q \in [base : Nat, max : Nat, first : Nat, last : Nat, key : Nat]
  BY <1>10 DEF Sorts, InRange
<1>12. Held(symbols)' /\ Sorts(symbols, calls, part)'
  <2>1. Sorts(symbols', calls', part')
    BY <1>1, <1>7, <1>10
  <2>2. QED
    BY <1>1, <1>7, <1>10, <2>1 DEF Held
<1>13. QED
  BY <1>1, <1>7, <1>11, <1>12 DEF TableInv, Phases

LEMMA LowestCall ==
    ASSUME NEW d, d \subseteq [base : Nat, max : Nat], d # {}
    PROVE  \E r \in d : \A s \in d : r.base <= s.base
<1> DEFINE bases == {r.base : r \in d}
<1>1. bases \in SUBSET Nat /\ bases # {}
  OBVIOUS
<1>2. Min(bases) \in bases /\ \A n \in bases : Min(bases) <= n
  <2> HIDE DEF bases
  <2>1. QED
    BY <1>1, MinIsLeast
<1>3. PICK r \in d : r.base = Min(bases)
  BY <1>2
<1>4. QED
  BY <1>2, <1>3

LEMMA PendingFacts ==
    ASSUME TableInv, phase = "sorting", part.first > part.last
    PROVE  /\ Pending \subseteq [base : Nat, max : Nat]
           /\ \A r \in Pending : 1 <= r.base /\ r.base <= r.max /\ r.max <= Count
           /\ \A r, s \in Pending : r = s \/ Outside(r, s)
           /\ \A i, j \in Place :
                  i < j => symbols[i].value <= symbols[j].value \/ \E r \in Pending : Within(r, i, j)
<1>1. Held(symbols) /\ Sorts(symbols, calls, part)
  BY DEF TableInv
<1>2. PICK d : d = Pending
  OBVIOUS
<1>3. d = calls \cup {r \in {[base |-> part.base, max |-> part.last], [base |-> part.first, max |-> part.max]} :
                          r.base < r.max}
  BY <1>2 DEF Pending
<1>4. QED
  BY <1>1, <1>2, <1>3, RestSorts

LEMMA RecurseInv == ASSUME TableInv, Recurse PROVE TableInv'
<1>1. /\ phase = "sorting" /\ phase' = "sorting" /\ file' = file /\ symbols' = symbols
      /\ part.first > part.last /\ Pending # {} /\ file \in Files /\ Held(symbols)
  BY DEF Recurse, TableInv
<1>2. PICK d : d = Pending
  OBVIOUS
<1>3. /\ d \subseteq [base : Nat, max : Nat]
      /\ \A r \in d : 1 <= r.base /\ r.base <= r.max /\ r.max <= Count
      /\ \A r, s \in d : r = s \/ Outside(r, s)
      /\ \A i, j \in Place : i < j => symbols[i].value <= symbols[j].value \/ \E r \in d : Within(r, i, j)
  BY <1>1, <1>2, PendingFacts
<1>4. PICK l : l = CHOOSE r \in d : \A s \in d : r.base <= s.base
  OBVIOUS
<1>5. l \in d
  BY <1>1, <1>2, <1>3, <1>4, LowestCall
<1>6. part' = Call(l.base, l.max) /\ calls' = d \ {l}
  BY <1>2, <1>4 DEF Recurse
<1>7. Sorts(symbols, d \ {l}, Call(l.base, l.max))
  <2>1. l \in [base : Nat, max : Nat] /\ l.base \in Nat /\ l.max \in Nat /\ Count \in Nat
    BY <1>3, <1>5, CountIsNat
  <2>2. 1 <= l.base /\ l.base <= l.max + 1 /\ l.max <= Count /\ l.base <= Count + 1
    <3>1. 1 <= l.base /\ l.base <= l.max /\ l.max <= Count
      BY <1>3, <1>5
    <3>2. QED
      BY <2>1, <3>1
  <2>3. d \cup {l} = d
    BY <1>5
  <2>4. \A r, s \in d \cup {l} : r = s \/ Outside(r, s)
    BY <1>3, <2>3
  <2>5. \A i, j \in Place :
            i < j => symbols[i].value <= symbols[j].value \/ \E r \in d \cup {l} : Within(r, i, j)
    BY <1>3, <2>3
  <2>6. QED
    BY <1>1, <1>3, <2>1, <2>2, <2>4, <2>5, CallSorts
<1>8. PICK p, c : p = part' /\ c = calls'
  OBVIOUS
<1>9. Sorts(symbols, c, p)
  BY <1>6, <1>7, <1>8
<1>10. /\ p \in [base : Nat, max : Nat, first : Nat, last : Nat, key : Nat]
       /\ c \subseteq [base : Nat, max : Nat]
  BY <1>9 DEF Sorts, InRange, Waiting
<1>11. Held(symbols)' /\ Sorts(symbols, calls, part)'
  <2>1. Sorts(symbols', calls', part')
    BY <1>1, <1>8, <1>9
  <2>2. QED
    BY <1>1, <2>1 DEF Held
<1>12. QED
  BY <1>1, <1>8, <1>10, <1>11 DEF TableInv, Phases

LEMMA SortedInv == ASSUME TableInv, Sorted PROVE TableInv'
<1>1. /\ phase = "sorting" /\ phase' = "sorted" /\ UNCHANGED <<file, symbols, part, calls, answer>>
      /\ part.first > part.last /\ Pending = {} /\ Held(symbols)
      /\ file \in Files /\ calls \subseteq [base : Nat, max : Nat]
      /\ part \in [base : Nat, max : Nat, first : Nat, last : Nat, key : Nat]
  BY DEF Sorted, TableInv
<1>2. \A i, j \in Place : i < j => symbols[i].value <= symbols[j].value
  BY <1>1, PendingFacts
<1>3. InOrder(symbols)' /\ Held(symbols)'
  BY <1>1, <1>2 DEF InOrder, Held
<1>4. QED
  BY <1>1, <1>3 DEF TableInv, Phases

-----------------------------------------------------------------------------
(* The list of the program's symbols *)

LEMMA NamedFacts ==
    ASSUME file \in Files, NEW t, Held(t), NEW i \in Place, ElfBase <= t[i].value
    PROVE  /\ t[i].name \in Place /\ t[i].name # 0 /\ t[i] = file[t[i].name]
           /\ file[t[i].name].name = t[i].name
<1>1. t \in [Place -> Symbol] /\ t[i].value \in Nat
  BY SymbolFacts DEF Held
<1>2. t[i].name # 0
  <2>1. t[i].name = 0 => t[i].value = 0
    BY DEF Held
  <2>2. QED
    BY <1>1, <2>1, ProgramAssumption
<1>3. t[i].name \in Place /\ t[i] = file[t[i].name]
  BY <1>2 DEF Held
<1>4. QED
  BY <1>2, <1>3

\* What is left from a place on of a table in order.
LEMMA TailIsListed ==
    ASSUME file \in Files, NEW t, Held(t), InOrder(t), NEW m \in Place, ElfBase <= t[m].value,
           \A i \in Place : ElfBase <= t[i].value => m <= i,
           NEW u, u = SubSeq(t, m, Count)
    PROVE  Listed(u) /\ Verbatim(u)
<1>1. t \in [Place -> Symbol] /\ t \in Seq(Symbol) /\ Len(t) = Count /\ Count \in Nat /\ m \in Nat
      /\ m \in 1..Count
  BY TableIsSeq, CountIsNat DEF Held, Place
<1>2. /\ u \in Seq(Symbol) /\ Len(u) = (Count - m) + 1
      /\ \A i \in 1..((Count - m) + 1) : u[i] = t[(m + i) - 1]
  BY <1>1
<1>3. \A i \in 1..Len(u) : (m + i) - 1 \in Place /\ i \in Nat /\ u[i] = t[(m + i) - 1]
  BY <1>1, <1>2 DEF Place
<1>4. ASSUME NEW n \in Place, m <= n PROVE ElfBase <= t[n].value
  <2>1. t[m].value \in Nat /\ t[n].value \in Nat /\ m \in Nat /\ n \in Nat
    BY <1>1, SymbolFacts
  <2>2. m = n \/ t[m].value <= t[n].value
    BY <1>4, <2>1 DEF InOrder
  <2>3. QED
    BY <2>1, <2>2, ProgramAssumption
<1>5. ASSUME NEW i \in 1..Len(u)
      PROVE  /\ u[i].name \in Place /\ file[u[i].name].name # 0
             /\ u[i] = file[u[i].name] /\ ElfBase <= u[i].value
  <2>1. PICK n \in Place : n = (m + i) - 1 /\ u[i] = t[n]
    BY <1>3
  <2>2. m <= n
    BY <1>1, <1>3, <2>1
  <2>3. ElfBase <= t[n].value
    BY <1>4, <2>2
  <2>4. QED
    BY <2>1, <2>3, NamedFacts
<1>6. ASSUME NEW i \in 1..Len(u), NEW j \in 1..Len(u), i < j
      PROVE  u[i].value <= u[j].value /\ u[i].name # u[j].name
  <2>1. PICK k \in Place : k = (m + i) - 1 /\ u[i] = t[k]
    BY <1>3
  <2>2. PICK l \in Place : l = (m + j) - 1 /\ u[j] = t[l]
    BY <1>3
  <2>3. i \in Nat /\ j \in Nat
    BY <1>3
  <2>4. k < l /\ k # l
    BY <1>1, <1>6, <2>1, <2>2, <2>3
  <2>5. t[k].value <= t[l].value
    BY <2>4 DEF InOrder
  <2>6. t[k].name # t[l].name
    <3>1. u[i].name # 0
      <4>1. u[i].name \in Place
        BY <1>5
      <4>2. QED
        BY <4>1, CountIsNat DEF Place
    <3>2. QED
      BY <2>1, <2>4, <3>1 DEF Held
  <2>7. QED
    BY <2>1, <2>2, <2>5, <2>6
<1>7. ASSUME NEW k \in Place, file[k].name # 0, ElfBase <= file[k].value
      PROVE  \E i \in 1..Len(u) : u[i].name = k
  <2>1. PICK n \in Place : t[n] = file[k]
    BY <1>7 DEF Held
  <2>2. m <= n /\ n \in Nat /\ n <= Count
    <3>1. m <= n
      BY <1>7, <2>1
    <3>2. QED
      BY <1>1, <3>1 DEF Place
  <2>3. PICK i : i = (n - m) + 1
    OBVIOUS
  <2>4. i \in 1..Len(u) /\ (m + i) - 1 = n
    BY <1>1, <1>2, <2>2, <2>3
  <2>5. u[i] = t[n]
    BY <1>3, <2>4
  <2>6. file[k].name = k
    BY <1>7, FileFacts
  <2>7. QED
    BY <2>1, <2>4, <2>5, <2>6
<1>8. QED
  BY <1>2, <1>5, <1>6, <1>7 DEF Listed, Verbatim

LEMMA EraseLowInv == ASSUME TableInv, EraseLow PROVE TableInv'
<1>1. /\ phase = "sorted" /\ phase' = "erased" /\ UNCHANGED <<file, part, calls, answer>>
      /\ Held(symbols) /\ InOrder(symbols)
      /\ file \in Files /\ calls \subseteq [base : Nat, max : Nat]
      /\ part \in [base : Nat, max : Nat, first : Nat, last : Nat, key : Nat]
  BY DEF EraseLow, TableInv
<1>2. symbols \in [Place -> Symbol] /\ Len(symbols) = Count /\ DOMAIN symbols = Place
  BY <1>1, TableIsSeq DEF Held
<1>3. \A i \in Place : symbols[i].value \in Nat /\ i \in Nat
  BY <1>2, SymbolFacts
<1>4. PICK kept : kept = {i \in Place : symbols[i].value >= ElfBase}
  OBVIOUS
<1>5. symbols' = IF kept = {} THEN << >> ELSE SubSeq(symbols, Min(kept), Count)
  BY <1>1, <1>2, <1>4 DEF EraseLow
<1>6. PICK u : u = symbols'
  OBVIOUS
<1>7. ElfBase \in Nat
  BY ProgramAssumption
<1>8. Listed(u) /\ Verbatim(u)
  <2>1. CASE kept = {}
    <3>1. u = << >> /\ u \in Seq(Symbol) /\ Len(u) = 0 /\ 1..Len(u) = {}
      BY <1>5, <1>6, <2>1
    <3>2. ASSUME NEW k \in Place, file[k].name # 0, ElfBase <= file[k].value PROVE FALSE
      <4>1. PICK n \in Place : symbols[n] = file[k]
        BY <1>1, <3>2 DEF Held
      <4>2. n \in kept
        BY <1>3, <1>4, <1>7, <3>2, <4>1
      <4>3. QED
        BY <2>1, <4>2
    <3>3. QED
      BY <3>1, <3>2 DEF Listed, Verbatim
  <2>2. CASE kept # {}
    <3>1. kept \in SUBSET Nat
      BY <1>3, <1>4
    <3>2. Min(kept) \in kept /\ \A n \in kept : Min(kept) <= n
      BY <2>2, <3>1, MinIsLeast
    <3>3. PICK m : m = Min(kept)
      OBVIOUS
    <3>4. m \in Place /\ ElfBase <= symbols[m].value
      BY <1>3, <1>4, <1>7, <3>2, <3>3
    <3>5. \A i \in Place : ElfBase <= symbols[i].value => m <= i
      BY <1>3, <1>4, <1>7, <3>2, <3>3
    <3>6. u = SubSeq(symbols, m, Count)
      BY <1>5, <1>6, <2>2, <3>3
    <3>7. PICK t : t = symbols
      OBVIOUS
    <3>8. Held(t) /\ InOrder(t) /\ file \in Files
      BY <1>1, <3>7
    <3>9. /\ ElfBase <= t[m].value /\ \A i \in Place : ElfBase <= t[i].value => m <= i
          /\ u = SubSeq(t, m, Count) /\ m \in Place
      BY <3>4, <3>5, <3>6, <3>7
    <3>10. QED
      BY ONLY <3>8, <3>9, TailIsListed
  <2>3. QED
    BY <2>1, <2>2
<1>9. Listed(symbols)' /\ Verbatim(symbols)'
  BY <1>1, <1>6, <1>8 DEF Listed, Verbatim
<1>10. QED
  BY <1>1, <1>9 DEF TableInv, Phases

LEMMA ListFacts ==
    ASSUME NEW u, Listed(u)
    PROVE  /\ u \in Seq(Symbol) /\ Len(u) \in Nat /\ DOMAIN u = 1..Len(u)
           /\ \A i \in 1..Len(u) : /\ u[i] \in Symbol /\ u[i].name \in Place /\ u[i].value \in Nat
                                   /\ u[i].size \in 0..(Size - 1) /\ i \in Nat /\ 0 < u[i].value
<1>1. u \in Seq(Symbol) /\ Len(u) \in Nat /\ DOMAIN u = 1..Len(u)
  BY DEF Listed
<1>2. ASSUME NEW i \in 1..Len(u)
      PROVE  /\ u[i] \in Symbol /\ u[i].name \in Place /\ u[i].value \in Nat
             /\ u[i].size \in 0..(Size - 1) /\ i \in Nat /\ 0 < u[i].value
  <2>1. u[i] \in Symbol /\ u[i].name \in Place /\ ElfBase <= u[i].value
    BY <1>1 DEF Listed
  <2>2. u[i].value \in Nat /\ u[i].size \in 0..(Size - 1)
    BY <2>1 DEF Symbol
  <2>3. QED
    BY <2>1, <2>2, ProgramAssumption
<1>3. QED
  BY <1>1, <1>2

\* NextValue is the value where the search ends.
LEMMA NextValueFacts ==
    ASSUME Listed(symbols), NEW i \in 1..Len(symbols), i < Len(symbols)
    PROVE  \E n \in Nat : EndsAt(symbols, i, n) /\ NextValue(i) = symbols[n].value
<1> DEFINE last == Len(symbols)
           above == {n \in (i + 1)..(last - 1) : symbols[n].value # symbols[i].value} \cup {last}
<1>1. last \in Nat /\ i \in Nat /\ 1 <= i
  BY ListFacts
<1>2. above \in SUBSET Nat /\ above # {}
  BY <1>1
<1>3. Min(above) \in above /\ \A n \in above : Min(above) <= n
  <2> HIDE DEF above
  <2>1. QED
    BY <1>2, MinIsLeast
<1>4. PICK n : n = Min(above)
  OBVIOUS
<1>5. /\ n \in (i + 1)..last /\ n \in Nat
      /\ n = last \/ symbols[n].value # symbols[i].value
  BY <1>1, <1>3, <1>4
<1>6. ASSUME NEW m \in (i + 1)..(n - 1) PROVE symbols[m].value = symbols[i].value
  <2>1. m \in (i + 1)..(last - 1) /\ ~(n <= m)
    BY <1>1, <1>5
  <2>2. m \notin above
    BY <1>3, <1>4, <2>1
  <2>3. QED
    BY <2>1, <2>2
<1>7. EndsAt(symbols, i, n)
  BY <1>5, <1>6 DEF EndsAt
<1>8. NextValue(i) = symbols[n].value
  BY <1>4 DEF NextValue
<1>9. QED
  BY <1>5, <1>7, <1>8

LEMMA RemainderFacts == ASSUME NEW n \in Int PROVE n % Size \in 0..(Size - 1)
  BY CountIsNat

LEMMA SetSizesInv == ASSUME TableInv, SetSizes PROVE TableInv'
<1>1. /\ phase = "erased" /\ phase' = "loaded" /\ UNCHANGED <<file, part, calls, answer>>
      /\ Listed(symbols) /\ \A i \in 1..Len(symbols) : symbols[i] = file[symbols[i].name]
      /\ file \in Files /\ calls \subseteq [base : Nat, max : Nat]
      /\ part \in [base : Nat, max : Nat, first : Nat, last : Nat, key : Nat]
  BY DEF SetSizes, TableInv, Verbatim
<1>2. /\ symbols \in Seq(Symbol) /\ Len(symbols) \in Nat /\ DOMAIN symbols = 1..Len(symbols)
      /\ \A i \in 1..Len(symbols) :
            /\ symbols[i] \in Symbol /\ symbols[i].name \in Place /\ symbols[i].value \in Nat
            /\ symbols[i].size \in 0..(Size - 1) /\ i \in Nat /\ 0 < symbols[i].value
  BY <1>1, ListFacts
<1> DEFINE next(i) == IF i < Len(symbols) THEN NextValue(i) ELSE Past
           made(i) == (next(i) - symbols[i].value) % Size
<1>3. PICK u : u = [i \in 1..Len(symbols) |->
                        IF symbols[i].size # 0 THEN symbols[i] ELSE [symbols[i] EXCEPT !.size = made(i)]]
  OBVIOUS
<1>4. symbols' = u
  BY <1>2, <1>3 DEF SetSizes
<1>5. \A i \in 1..Len(symbols) : next(i) \in Nat
  <2>1. SUFFICES ASSUME NEW i \in 1..Len(symbols), i < Len(symbols) PROVE NextValue(i) \in Nat
    BY ProgramAssumption
  <2>2. PICK n \in Nat : EndsAt(symbols, i, n) /\ NextValue(i) = symbols[n].value
    BY <1>1, <2>1, NextValueFacts
  <2>3. n \in 1..Len(symbols)
    <3>1. i \in Nat /\ n \in (i + 1)..Len(symbols)
      BY <1>2, <2>2 DEF EndsAt
    <3>2. QED
      BY <1>2, <3>1
  <2>4. QED
    BY <1>2, <2>2, <2>3
<1> HIDE DEF next
<1>6. \A i \in 1..Len(symbols) : made(i) \in 0..(Size - 1)
  <2>1. SUFFICES ASSUME NEW i \in 1..Len(symbols) PROVE made(i) \in 0..(Size - 1)
    OBVIOUS
  <2>2. PICK d : d = next(i) - symbols[i].value
    OBVIOUS
  <2>3. d \in Int
    BY <1>2, <1>5, <2>2
  <2>4. QED
    BY <2>2, <2>3, RemainderFacts
<1> HIDE DEF made
<1>7. ASSUME NEW i \in 1..Len(symbols)
      PROVE  /\ u[i] \in Symbol /\ u[i].name = symbols[i].name /\ u[i].value = symbols[i].value
             /\ u[i].size = IF symbols[i].size # 0 THEN symbols[i].size ELSE made(i)
  <2>1. symbols[i] \in Symbol /\ made(i) \in 0..(Size - 1)
    BY <1>2, <1>6
  <2>2. QED
    BY <1>3, <2>1 DEF Symbol
<1>8. u \in Seq(Symbol) /\ Len(u) = Len(symbols)
  <2>1. u \in [1..Len(symbols) -> Symbol]
    BY <1>3, <1>7
  <2>2. u \in Seq(Symbol)
    BY <1>2, <2>1, SeqDef
  <2>3. QED
    BY <1>2, <2>1, <2>2
<1>9. Listed(u)
  <2>1. \A i \in 1..Len(u) : /\ u[i].name \in Place /\ file[u[i].name].name # 0
                             /\ u[i].value = file[u[i].name].value /\ ElfBase <= u[i].value
    BY <1>1, <1>7, <1>8 DEF Listed
  <2>2. \A i, j \in 1..Len(u) : i < j => u[i].value <= u[j].value /\ u[i].name # u[j].name
    BY <1>1, <1>7, <1>8 DEF Listed
  <2>3. \A k \in Place : file[k].name # 0 /\ ElfBase <= file[k].value =>
            \E i \in 1..Len(u) : u[i].name = k
    BY <1>1, <1>7, <1>8 DEF Listed
  <2>4. QED
    BY <1>8, <2>1, <2>2, <2>3 DEF Listed
<1>10. ASSUME NEW i \in 1..Len(u)
       PROVE  LET s == file[u[i].name].size
              IN  IF s # 0 THEN u[i].size = s
                  ELSE IF i < Len(u)
                  THEN \E n \in Nat : EndsAt(u, i, n) /\ u[i].size = (u[n].value - u[i].value) % Size
                  ELSE u[i].size = (Past - u[i].value) % Size
  <2>1. /\ file[u[i].name].size = symbols[i].size /\ u[i].value = symbols[i].value
        /\ u[i].size = IF symbols[i].size # 0 THEN symbols[i].size ELSE made(i)
    BY <1>1, <1>7, <1>8
  <2>2. CASE symbols[i].size # 0
    BY <2>1, <2>2
  <2>3. CASE symbols[i].size = 0 /\ i < Len(u)
    <3>1. PICK n \in Nat : EndsAt(symbols, i, n) /\ NextValue(i) = symbols[n].value
      BY <1>1, <1>8, <2>3, NextValueFacts
    <3>2. n \in 1..Len(symbols) /\ \A m \in (i + 1)..(n - 1) : m \in 1..Len(symbols)
      BY <1>2, <1>8, <3>1 DEF EndsAt
    <3>3. u[n].value = symbols[n].value /\ \A m \in (i + 1)..(n - 1) : u[m].value = symbols[m].value
      BY <1>7, <3>2
    <3>4. EndsAt(u, i, n)
      BY <1>8, <2>1, <3>1, <3>2, <3>3 DEF EndsAt
    <3>5. u[i].size = (u[n].value - u[i].value) % Size
      BY <1>8, <2>1, <2>3, <3>1, <3>3 DEF made, next
    <3>6. QED
      BY <2>1, <2>3, <3>4, <3>5
  <2>4. CASE symbols[i].size = 0 /\ ~(i < Len(u))
    BY <1>8, <2>1, <2>4 DEF made, next
  <2>5. QED
    BY <2>2, <2>3, <2>4
<1>11. Sizes(u)
  BY <1>10 DEF Sizes
<1>12. Listed(symbols)' /\ Sizes(symbols)'
  BY <1>1, <1>4, <1>9, <1>11 DEF Listed, Sizes, EndsAt
<1>13. QED
  BY <1>1, <1>12 DEF TableInv, Phases

LEMMA LookupTableInv ==
    ASSUME TableInv, NEW address \in 0..(End + 1), emulator_symbol_lookup(address)
    PROVE  TableInv'
<1>1. phase = "loaded" /\ UNCHANGED <<phase, file, symbols, part, calls>>
  BY DEF emulator_symbol_lookup
<1>2. QED
  BY <1>1 DEF TableInv, Listed, Sizes, EndsAt

LEMMA NextTableInv == TableInv /\ [Next]_vars => TableInv'
<1>1. SUFFICES ASSUME TableInv, [Next]_vars PROVE TableInv'
  OBVIOUS
<1>2. CASE UNCHANGED vars
  BY <1>1, <1>2 DEF vars, TableInv, Held, Sorts, InRange, Divided, Waiting, Ordered, InOrder, Listed,
     Verbatim, Sizes, EndsAt
<1>3. QED
  BY <1>1, <1>2, VoidUnnamedInv, SortSymbolsInv, PartitionInv, RecurseInv, SortedInv, EraseLowInv,
     SetSizesInv, LookupTableInv DEF Next

LEMMA TableInvAlways == Spec => []TableInv
  BY InitTableInv, NextTableInv, PTL DEF Spec

-----------------------------------------------------------------------------
(* The search *)

\* A function on the naturals up to N is defined by its first value and by
\* how each next one comes of the last.
Iterates(g, N, first, step, S) ==
    /\ g \in [0..N -> S]
    /\ \A i \in 0..N : g[i] = IF i = 0 THEN first ELSE step[g[i - 1]]

LEMMA Recursion ==
    ASSUME NEW S, NEW first \in S, NEW step \in [S -> S], NEW N \in Nat
    PROVE  \E g : Iterates(g, N, first, step, S)
<1> DEFINE Made(n, g) == /\ g \in [0..n -> S]
                         /\ \A i \in 0..n : g[i] = IF i = 0 THEN first ELSE step[g[i - 1]]
           Defined == {n \in Nat : \E g : Made(n, g)}
<1>1. 0 \in Defined
  <2>1. Made(0, [i \in 0..0 |-> first])
    OBVIOUS
  <2>2. QED
    BY <2>1
<1>2. ASSUME NEW n \in Defined PROVE n + 1 \in Defined
  <2>1. PICK g : Made(n, g)
    BY <1>2
  <2> DEFINE h == [i \in 0..(n + 1) |-> IF i = n + 1 THEN step[g[n]] ELSE g[i]]
  <2>2. step[g[n]] \in S
    BY <2>1
  <2>3. h \in [0..(n + 1) -> S]
    BY <2>1, <2>2
  <2>4. ASSUME NEW i \in 0..(n + 1)
        PROVE  h[i] = IF i = 0 THEN first ELSE step[h[i - 1]]
    <3>1. CASE i = n + 1
      <4>1. i # 0 /\ i - 1 = n /\ n \in 0..(n + 1) /\ n # n + 1
        BY <3>1
      <4>2. h[n] = g[n] /\ h[n + 1] = step[g[n]]
        BY <4>1
      <4> HIDE DEF h
      <4>3. QED
        BY <3>1, <4>1, <4>2
    <3>2. CASE i # n + 1
      <4>1. i \in 0..n /\ (i # 0 => i - 1 \in 0..n)
        BY <3>2
      <4>2. h[i] = g[i] /\ (i # 0 => h[i - 1] = g[i - 1])
        BY <4>1
      <4>3. QED
        BY <2>1, <4>1, <4>2
    <3>3. QED
      BY <3>1, <3>2
  <2>5. Made(n + 1, h)
    BY <2>3, <2>4
  <2> HIDE DEF Made
  <2>6. QED
    BY <2>5
<1>3. Defined = Nat
  <2> HIDE DEF Defined
  <2>1. Defined \in SUBSET Nat
    BY DEF Defined
  <2>2. QED
    BY <1>1, <1>2, <2>1, Induction
<1>4. QED
  BY <1>3 DEF Iterates

Compared(a, u, k) == symbol_find_compare32(a, u[k])

LEMMA CompareFacts ==
    ASSUME NEW a \in Nat, NEW s \in Symbol
    PROVE  /\ symbol_find_compare32(a, s) \in {-1, 0, 1}
           /\ symbol_find_compare32(a, s) = 0 <=>
                  a = s.value \/ (a > s.value /\ a < (s.value + s.size) % Size)
           /\ symbol_find_compare32(a, s) = 1 => a > s.value
           /\ symbol_find_compare32(a, s) < 0 => a < s.value
           /\ a < s.value => symbol_find_compare32(a, s) = -1
<1>1. s.value \in Nat
  BY DEF Symbol
<1>2. QED
  BY <1>1 DEF symbol_find_compare32

\* The entry that all others lead to.
IsTarget(a, u, m) ==
    /\ m \in 1..Len(u) /\ Compared(a, u, m) = 0
    /\ \A k \in 1..Len(u) : /\ Compared(a, u, k) = 1 => k < m
                            /\ Compared(a, u, k) = -1 => m < k

Halves == [lo : Int, hi : Int, found : Int]

\* What holds after so many turns: an entry is found; or a target is between lo
\* and hi, which have come closer by a turn each time.
Searched(turns, a, u, r) ==
    LET n == Len(u)
    IN  /\ r \in Halves
        /\ 1 <= r.lo /\ r.hi <= n
        /\ \/ /\ r.found = 0
              /\ \A m \in 1..n : IsTarget(a, u, m) => r.lo <= m /\ m <= r.hi
              /\ r.lo <= r.hi => (r.hi - r.lo) + 1 + turns <= n
           \/ r.found \in 1..n /\ Compared(a, u, r.found) = 0

LEMMA HalvesParts ==
    ASSUME NEW r \in Halves
    PROVE  /\ r.lo \in Int /\ r.hi \in Int /\ r.found \in Int
           /\ (r.lo + r.hi) \div 2 \in Int
           /\ r.lo <= r.hi => /\ r.lo <= (r.lo + r.hi) \div 2
                              /\ (r.lo + r.hi) \div 2 <= r.hi
  BY DEF Halves

LEMMA TurnIsHalves ==
    ASSUME NEW a, NEW u, NEW r \in Halves
    PROVE  Turn(a, u, r) \in Halves
<1> DEFINE k == (r.lo + r.hi) \div 2
<1>1. k \in Int /\ r.lo \in Int /\ r.hi \in Int
  BY HalvesParts
<1>2. PICK i \in Int : i = k
  BY <1>1
<1>3. i - 1 \in Int /\ i + 1 \in Int
  BY <1>2
<1> HIDE DEF k
<1>4. QED
  BY <1>2, <1>3 DEF Turn, k, Halves

LEMMA TurnSearches ==
    ASSUME NEW u \in Seq(Symbol), NEW a \in Nat, NEW turns \in Nat, NEW r, Searched(turns, a, u, r)
    PROVE  Searched(turns + 1, a, u, Turn(a, u, r))
<1> DEFINE n == Len(u)
           k == (r.lo + r.hi) \div 2
           cmp == Compared(a, u, k)
<1>1. n \in Nat
  OBVIOUS
<1>2. r \in Halves /\ r.lo \in Int /\ r.hi \in Int /\ r.found \in Int /\ 1 <= r.lo /\ r.hi <= n
  <2>1. r \in Halves /\ 1 <= r.lo /\ r.hi <= n
    BY DEF Searched
  <2>2. QED
    BY <2>1, HalvesParts
<1>3. CASE Ended(r)
  <2>1. Turn(a, u, r) = r
    BY <1>3 DEF Turn
  <2>2. r.lo > r.hi \/ r.found # 0
    BY <1>3 DEF Ended
  <2>3. Searched(turns + 1, a, u, r)
    BY <1>2, <2>2 DEF Searched
  <2>4. QED
    BY <2>1, <2>3
<1>4. CASE ~Ended(r)
  <2>1. /\ r.lo <= r.hi /\ r.found = 0
        /\ \A m \in 1..n : IsTarget(a, u, m) => r.lo <= m /\ m <= r.hi
        /\ (r.hi - r.lo) + 1 + turns <= n
    BY <1>2, <1>4 DEF Ended, Searched
  <2>2. k \in Int /\ r.lo <= k /\ k <= r.hi
    BY <1>2, <2>1, HalvesParts
  <2>3. PICK i \in Int : i = k
    BY <2>2
  <2> HIDE DEF k
  <2>4. i \in 1..n /\ r.lo <= i /\ i <= r.hi /\ cmp = Compared(a, u, i)
    BY <1>1, <1>2, <2>2, <2>3
  <2>5. cmp \in {-1, 0, 1}
    <3>1. u[i] \in Symbol
      BY <2>4
    <3>2. QED
      BY <2>4, <3>1, CompareFacts DEF Compared
  <2>6. Turn(a, u, r) = IF cmp = 0 THEN [r EXCEPT !.found = i]
                        ELSE IF cmp < 0 THEN [r EXCEPT !.hi = i - 1]
                        ELSE [r EXCEPT !.lo = i + 1]
    BY <1>4, <2>3 DEF Turn, k, Compared
  <2> HIDE DEF cmp
  <2>7. PICK s : s = Turn(a, u, r)
    OBVIOUS
  <2>8. CASE cmp = 0
    <3>1. s = [r EXCEPT !.found = i]
      BY <2>6, <2>7, <2>8
    <3>2. s \in Halves /\ s.lo = r.lo /\ s.hi = r.hi /\ s.found = i
      BY <1>2, <2>4, <3>1 DEF Halves
    <3>3. Compared(a, u, s.found) = 0 /\ s.found \in 1..n
      BY <2>4, <2>8, <3>2
    <3>4. QED
      BY <1>2, <2>7, <3>2, <3>3 DEF Searched
  <2>9. CASE cmp = -1
    <3>1. PICK h \in Int : h = i - 1
      OBVIOUS
    <3>2. s = [r EXCEPT !.hi = h]
      BY <2>6, <2>7, <2>9, <3>1
    <3>3. s \in Halves /\ s.lo = r.lo /\ s.hi = h /\ s.found = 0
      BY <1>2, <2>1, <3>1, <3>2 DEF Halves
    <3>4. ASSUME NEW m \in 1..n, IsTarget(a, u, m) PROVE s.lo <= m /\ m <= s.hi
      <4>1. m < i
        BY <2>4, <2>9, <3>4 DEF IsTarget
      <4>2. r.lo <= m
        BY <2>1, <3>4
      <4>3. QED
        BY <2>3, <3>1, <3>3, <4>1, <4>2
    <3>5. s.lo <= s.hi => (s.hi - s.lo) + 1 + (turns + 1) <= n
      <4>1. (h - r.lo) + 1 + (turns + 1) <= n
        BY <1>1, <1>2, <2>1, <2>4, <3>1
      <4>2. QED
        BY <3>3, <4>1
    <3>6. 1 <= s.lo /\ s.hi <= n
      BY <1>1, <1>2, <2>4, <3>1, <3>3
    <3>7. QED
      BY <2>7, <3>3, <3>4, <3>5, <3>6 DEF Searched
  <2>10. CASE cmp = 1
    <3>1. PICK l \in Int : l = i + 1
      OBVIOUS
    <3>2. s = [r EXCEPT !.lo = l]
      BY <2>6, <2>7, <2>10, <3>1
    <3>3. s \in Halves /\ s.lo = l /\ s.hi = r.hi /\ s.found = 0
      BY <1>2, <2>1, <3>1, <3>2 DEF Halves
    <3>4. ASSUME NEW m \in 1..n, IsTarget(a, u, m) PROVE s.lo <= m /\ m <= s.hi
      <4>1. i < m
        BY <2>4, <2>10, <3>4 DEF IsTarget
      <4>2. m <= r.hi
        BY <2>1, <3>4
      <4>3. QED
        BY <2>3, <3>1, <3>3, <4>1, <4>2
    <3>5. s.lo <= s.hi => (s.hi - s.lo) + 1 + (turns + 1) <= n
      <4>1. (r.hi - l) + 1 + (turns + 1) <= n
        BY <1>1, <1>2, <2>1, <2>4, <3>1
      <4>2. QED
        BY <3>3, <4>1
    <3>6. 1 <= s.lo /\ s.hi <= n
      BY <1>1, <1>2, <2>4, <3>1, <3>3
    <3>7. QED
      BY <2>7, <3>3, <3>4, <3>5, <3>6 DEF Searched
  <2>11. QED
    BY <2>5, <2>8, <2>9, <2>10
<1>5. QED
  BY <1>3, <1>4

\* What the loop finds, which is no entry only if there is no target.
Found(a, u, f) ==
    \/ f = 0 /\ \A m \in 1..Len(u) : ~IsTarget(a, u, m)
    \/ f \in 1..Len(u) /\ Compared(a, u, f) = 0

\* The search goes back from there, as long as the entries compare equal.
FirstOf(a, u, f) ==
    IF f = 0 THEN 0
    ELSE Min({i \in 1..f : \A j \in i..f : symbol_find_compare32(a, u[j]) = 0})

LEMMA TurnsSearch ==
    ASSUME NEW u \in Seq(Symbol), NEW a \in Nat
    PROVE  \E f \in Nat : Found(a, u, f) /\ my_bsearch(a, u) = FirstOf(a, u, f)
<1> DEFINE n == Len(u)
           start == [lo |-> 1, hi |-> n, found |-> 0]
           Is(g) == g = [turns \in 0..n |-> IF turns = 0 THEN start ELSE Turn(a, u, g[turns - 1])]
           range == CHOOSE g : Is(g)
           step == [r \in Halves |-> Turn(a, u, r)]
<1>1. n \in Nat
  OBVIOUS
<1>2. my_bsearch(a, u) = FirstOf(a, u, range[n].found)
  BY DEF my_bsearch, FirstOf
<1>3. start \in Halves /\ start.lo = 1 /\ start.hi = n /\ start.found = 0
  BY <1>1 DEF Halves
<1> HIDE DEF start
<1>4. step \in [Halves -> Halves] /\ \A r \in Halves : step[r] = Turn(a, u, r)
  BY TurnIsHalves
<1> HIDE DEF step, n
<1>5. PICK g \in [0..n -> Halves] :
          \A i \in 0..n : g[i] = IF i = 0 THEN start ELSE step[g[i - 1]]
  <2>1. \E g : Iterates(g, n, start, step, Halves)
    BY <1>1, <1>3, <1>4, Recursion
  <2>2. QED
    BY <2>1 DEF Iterates
<1>6. \A i \in 0..n : g[i] = IF i = 0 THEN start ELSE Turn(a, u, g[i - 1])
  <2>1. ASSUME NEW i \in 0..n, i # 0 PROVE g[i - 1] \in Halves
    <3>1. i - 1 \in 0..n
      BY <1>1, <2>1
    <3>2. QED
      BY <3>1
  <2>2. QED
    BY <1>4, <1>5, <2>1
<1>7. Is(g)
  BY <1>5, <1>6
<1>8. Is(range)
  BY <1>7
<1> HIDE DEF range
<1>9. /\ range[0] = start
      /\ \A i \in 0..n : i # 0 => range[i] = Turn(a, u, range[i - 1])
  BY <1>1, <1>8
<1> HIDE DEF Is
<1>10. Searched(0, a, u, start)
  <2>1. \A m \in 1..n : start.lo <= m /\ m <= start.hi
    BY <1>1, <1>3
  <2>2. start.lo <= start.hi => (start.hi - start.lo) + 1 + 0 <= n
    BY <1>1, <1>3
  <2>3. 1 <= start.lo /\ start.hi <= n
    BY <1>1, <1>3
  <2>4. QED
    BY <1>3, <2>1, <2>2, <2>3 DEF Searched, n
<1> DEFINE Right == {k \in Nat : k <= n => Searched(k, a, u, range[k])}
<1>11. 0 \in Right
  BY <1>9, <1>10
<1>12. ASSUME NEW k \in Right PROVE k + 1 \in Right
  <2>1. SUFFICES ASSUME k + 1 <= n PROVE Searched(k + 1, a, u, range[k + 1])
    OBVIOUS
  <2>2. k \in Nat /\ k <= n /\ k + 1 \in 0..n /\ k + 1 # 0 /\ (k + 1) - 1 = k
    BY <1>1, <2>1
  <2>3. Searched(k, a, u, range[k])
    BY <2>2
  <2>4. range[k + 1] = Turn(a, u, range[k])
    BY <1>9, <2>2
  <2>5. QED
    BY <2>2, <2>3, <2>4, TurnSearches
<1>13. Right = Nat
  <2>1. Right \in SUBSET Nat
    OBVIOUS
  <2> HIDE DEF Right
  <2>2. QED
    BY <1>11, <1>12, <2>1, Induction
<1>14. Searched(n, a, u, range[n])
  BY <1>1, <1>13
<1>15. PICK r : r = range[n]
  OBVIOUS
<1>16. Found(a, u, r.found) /\ r.found \in Nat
  <2>1. r \in Halves /\ r.lo \in Int /\ r.hi \in Int
    BY <1>14, <1>15, HalvesParts DEF Searched
  <2>2. CASE r.found # 0
    BY <1>14, <1>15, <2>2 DEF Searched, Found, n
  <2>3. CASE r.found = 0
    <3>1. /\ \A m \in 1..n : IsTarget(a, u, m) => r.lo <= m /\ m <= r.hi
          /\ r.lo <= r.hi => (r.hi - r.lo) + 1 + n <= n
      BY <1>1, <1>14, <1>15, <2>3 DEF Searched, n
    <3>2. ~(r.lo <= r.hi)
      BY <1>1, <2>1, <3>1
    <3>3. \A m \in 1..n : ~IsTarget(a, u, m)
      BY <2>1, <3>1, <3>2
    <3>4. QED
      BY <2>3, <3>3 DEF Found, n
  <2>4. QED
    BY <2>2, <2>3
<1>17. QED
  BY <1>2, <1>15, <1>16

\* What is found compares equal, and so do all the entries from there to one
\* the loop came to; the one before it does not.
SearchResult(a, u, r) ==
    \/ r = 0 /\ \A m \in 1..Len(u) : ~IsTarget(a, u, m)
    \/ \E f \in 1..Len(u) :
          /\ r \in 1..f
          /\ \A j \in r..f : Compared(a, u, j) = 0
          /\ r > 1 => Compared(a, u, r - 1) # 0

LEMMA SearchFinds ==
    ASSUME NEW u \in Seq(Symbol), NEW a \in Nat
    PROVE  SearchResult(a, u, my_bsearch(a, u))
<1>1. PICK f \in Nat : Found(a, u, f) /\ my_bsearch(a, u) = FirstOf(a, u, f)
  BY TurnsSearch
<1>2. CASE f = 0
  BY <1>1, <1>2 DEF Found, FirstOf, SearchResult
<1>3. CASE f # 0
  <2> DEFINE equal == {i \in 1..f : \A j \in i..f : symbol_find_compare32(a, u[j]) = 0}
  <2>1. f \in 1..Len(u) /\ Compared(a, u, f) = 0 /\ Len(u) \in Nat
    BY <1>1, <1>3 DEF Found
  <2>2. f \in equal
    <3>1. f..f = {f} /\ f \in 1..f
      BY <2>1
    <3>2. QED
      BY <2>1, <3>1 DEF Compared
  <2>3. equal \in SUBSET Nat
    BY <2>1
  <2>4. Min(equal) \in equal /\ \A i \in equal : Min(equal) <= i
    <3> HIDE DEF equal
    <3>1. QED
      BY <2>2, <2>3, MinIsLeast
  <2>5. PICK r : r = Min(equal)
    OBVIOUS
  <2>6. my_bsearch(a, u) = r
    BY <1>1, <1>3, <2>5 DEF FirstOf
  <2>7. r \in 1..f /\ \A j \in r..f : Compared(a, u, j) = 0
    BY <2>4, <2>5 DEF Compared
  <2>8. r > 1 => Compared(a, u, r - 1) # 0
    <3>1. SUFFICES ASSUME r > 1, Compared(a, u, r - 1) = 0 PROVE FALSE
      OBVIOUS
    <3>2. PICK q : q = r - 1
      OBVIOUS
    <3>3. q \in 1..f /\ q < r /\ Compared(a, u, q) = 0
      BY <2>1, <2>7, <3>1, <3>2
    <3>4. ASSUME NEW j \in q..f PROVE Compared(a, u, j) = 0
      <4>1. j = q \/ j \in r..f
        BY <2>7, <3>2, <3>4
      <4>2. QED
        BY <2>7, <3>3, <4>1
    <3>5. q \in equal
      BY <3>3, <3>4 DEF Compared
    <3>6. r <= q
      BY <2>4, <2>5, <3>5
    <3>7. QED
      BY <2>1, <2>7, <3>3, <3>6
  <2>9. QED
    BY <2>1, <2>6, <2>7, <2>8 DEF SearchResult
<1>4. QED
  BY <1>2, <1>3

-----------------------------------------------------------------------------
(* Lookups *)

\* The last answer is that of a search, in the list as it is.
Answers(a, r) ==
    /\ SearchResult(a, symbols, r)
    /\ answer = IF a > End \/ r = 0 THEN [address |-> a, name |-> 0, offset |-> 0]
                ELSE [address |-> a, name |-> symbols[r].name, offset |-> a - symbols[r].value]

Answered == phase = "loaded" /\ \E a \in 0..(End + 1), r \in 0..Len(symbols) : Answers(a, r)

LookupInv == TableInv /\ (answer = NoAnswer \/ Answered)

LEMMA SearchResultFacts ==
    ASSUME NEW u, Listed(u), NEW a \in Nat, NEW r, SearchResult(a, u, r), r # 0
    PROVE  /\ r \in 1..Len(u) /\ Compared(a, u, r) = 0 /\ u[r].value <= a
           /\ r > 1 => Compared(a, u, r - 1) # 0
<1>1. PICK f \in 1..Len(u) : /\ r \in 1..f /\ \A j \in r..f : Compared(a, u, j) = 0
                             /\ r > 1 => Compared(a, u, r - 1) # 0
  BY DEF SearchResult
<1>2. Len(u) \in Nat
  BY ListFacts
<1>3. r \in 1..Len(u) /\ r \in r..f
  BY <1>1, <1>2
<1>4. Compared(a, u, r) = 0
  BY <1>1, <1>3
<1>5. u[r] \in Symbol /\ u[r].value \in Nat
  BY <1>3, ListFacts
<1>6. u[r].value <= a
  BY <1>4, <1>5, CompareFacts DEF Compared
<1>7. QED
  BY <1>1, <1>3, <1>4, <1>6

LEMMA EndIsNat == End \in Nat /\ Past \in Nat /\ ElfBase \in Nat /\ 0 < ElfBase /\ ElfBase <= Past /\ Past <= End /\ End < Size
  BY ProgramAssumption

LEMMA NextLookupInv == LookupInv /\ [Next]_vars => LookupInv'
<1>1. SUFFICES ASSUME LookupInv, [Next]_vars PROVE LookupInv'
  OBVIOUS
<1>2. TableInv /\ TableInv'
  BY <1>1, NextTableInv DEF LookupInv
<1>3. CASE answer' = answer /\ (phase = "loaded" => phase' = "loaded" /\ symbols' = symbols)
  <2>1. answer = NoAnswer \/ Answered
    BY <1>1 DEF LookupInv
  <2>2. (answer = NoAnswer \/ Answered)'
    BY <1>3, <2>1 DEF Answered, Answers, SearchResult, IsTarget, Compared
  <2>3. QED
    BY <1>2, <2>2 DEF LookupInv
<1>4. ASSUME NEW address \in 0..(End + 1), emulator_symbol_lookup(address) PROVE LookupInv'
  <2>1. phase = "loaded" /\ UNCHANGED <<phase, file, symbols, part, calls>>
    BY <1>4 DEF emulator_symbol_lookup
  <2>2. Listed(symbols) /\ symbols \in Seq(Symbol)
    BY <1>2, <2>1 DEF TableInv, Listed
  <2>3. address \in Nat
    BY EndIsNat
  <2>4. PICK r : r = IF symbols = << >> THEN 0 ELSE my_bsearch(address, symbols)
    OBVIOUS
  <2>5. SearchResult(address, symbols, r)
    <3>1. CASE symbols = << >>
      <4>1. Len(symbols) = 0 /\ r = 0
        BY <2>4, <3>1
      <4>2. 1..Len(symbols) = {}
        BY <4>1
      <4>3. QED
        BY <4>1, <4>2 DEF SearchResult
    <3>2. CASE symbols # << >>
      BY <2>2, <2>3, <2>4, <3>2, SearchFinds
    <3>3. QED
      BY <3>1, <3>2
  <2>6. r \in 0..Len(symbols)
    <3>1. CASE r = 0
      BY <2>2, <3>1
    <3>2. CASE r # 0
      <4>1. r \in 1..Len(symbols)
        BY <2>2, <2>3, <2>5, <3>2, SearchResultFacts
      <4>2. QED
        BY <4>1, <2>2
    <3>3. QED
      BY <3>1, <3>2
  <2>7. answer' = IF address > End \/ r = 0 THEN [address |-> address, name |-> 0, offset |-> 0]
                  ELSE [address |-> address, name |-> symbols[r].name, offset |-> address - symbols[r].value]
    <3>1. [NoAnswer EXCEPT !.address = address] = [address |-> address, name |-> 0, offset |-> 0]
      BY DEF NoAnswer
    <3>2. QED
      BY <1>4, <2>4, <3>1 DEF emulator_symbol_lookup
  <2>8. Answered'
    BY <2>1, <2>5, <2>6, <2>7 DEF Answered, Answers, SearchResult, IsTarget, Compared
  <2>9. QED
    BY <1>2, <2>8 DEF LookupInv
<1>5. CASE VoidUnnamed \/ SortSymbols \/ Partition \/ Recurse \/ Sorted \/ EraseLow \/ SetSizes \/ UNCHANGED vars
  <2>1. answer' = answer /\ (phase = "loaded" => phase' = "loaded" /\ symbols' = symbols)
    BY <1>5 DEF VoidUnnamed, SortSymbols, Partition, Recurse, Sorted, EraseLow, SetSizes, vars
  <2>2. QED
    BY <1>3, <2>1
<1>6. QED
  BY <1>1, <1>4, <1>5 DEF Next

LEMMA LookupInvAlways == Spec => []LookupInv
<1>1. Init => LookupInv
  BY InitTableInv DEF Init, LookupInv
<1>2. QED
  BY <1>1, NextLookupInv, PTL DEF Spec

LEMMA AnswerFacts ==
    ASSUME LookupInv
    PROVE  answer \in [address : Nat, name : 0..Count, offset : Nat]
<1>1. CASE answer = NoAnswer
  BY <1>1, CountIsNat DEF NoAnswer
<1>2. CASE Answered
  <2>1. PICK a \in 0..(End + 1), r \in 0..Len(symbols) : Answers(a, r)
    BY <1>2 DEF Answered
  <2>2. a \in Nat /\ Listed(symbols)
    BY <1>2, EndIsNat DEF Answered, LookupInv, TableInv
  <2>3. CASE a > End \/ r = 0
    BY <2>1, <2>2, <2>3, CountIsNat DEF Answers
  <2>4. CASE ~(a > End \/ r = 0)
    <3>1. r \in 1..Len(symbols) /\ symbols[r].value <= a
      BY <2>1, <2>2, <2>4, SearchResultFacts DEF Answers
    <3>2. symbols[r].name \in Place /\ symbols[r].value \in Nat
      BY <2>2, <3>1, ListFacts
    <3>3. a - symbols[r].value \in Nat /\ symbols[r].name \in 0..Count
      BY <2>2, <3>1, <3>2, CountIsNat DEF Place
    <3>4. QED
      BY <2>1, <2>2, <2>4, <3>3 DEF Answers
  <2>5. QED
    BY <2>3, <2>4
<1>3. QED
  BY <1>1, <1>2 DEF LookupInv

LEMMA TypesAreOK == LookupInv => TypeOK
<1>1. SUFFICES ASSUME LookupInv PROVE TypeOK
  OBVIOUS
<1>2. TableInv
  BY <1>1 DEF LookupInv
<1>3. symbols \in Seq(Symbol)
  <2>1. CASE phase = "read"
    BY <1>2, <2>1, FileFacts, TableIsSeq DEF TableInv
  <2>2. CASE phase \in {"voided", "sorting", "sorted"}
    BY <1>2, <2>2, TableIsSeq DEF TableInv, Held
  <2>3. CASE phase \in {"erased", "loaded"}
    BY <1>2, <2>3 DEF TableInv, Listed
  <2>4. QED
    BY <1>2, <2>1, <2>2, <2>3 DEF TableInv, Phases
<1>4. QED
  BY <1>1, <1>2, <1>3, AnswerFacts DEF TableInv, TypeOK, Phases, Symbol

LEMMA ProgramFacts ==
    ASSUME file \in Files
    PROVE  /\ \A k \in Place : file[k].name # 0 /\ ElfBase <= file[k].value => file[k] \in InProgram
           /\ \A s \in InProgram :
                 \E k \in Place : s = file[k] /\ file[k].name # 0 /\ ElfBase <= file[k].value /\ s.name = k
<1>1. file \in [Place -> Symbol] /\ \A k \in Place : file[k].name \in {0, k}
  BY FileFacts
<1>2. DOMAIN file = Place /\ \A k \in Place : file[k].value \in Nat
  BY <1>1, SymbolFacts
<1>3. QED
  BY <1>1, <1>2, EndIsNat DEF InProgram, Named

\* The symbols of the program are all there once and in order, for a table of
\* any length.
THEOREM SymbolsAreAlwaysSorted == Spec => []SymbolsAreSorted
<1>1. LookupInv => SymbolsAreSorted
  <2>1. SUFFICES ASSUME LookupInv, phase \in {"erased", "loaded"}
                 PROVE  /\ \A i, j \in DOMAIN symbols : i < j => /\ symbols[i].value <= symbols[j].value
                                                               /\ symbols[i].name # symbols[j].name
                        /\ {<<symbols[i].name, symbols[i].value>> : i \in DOMAIN symbols}
                               = {<<s.name, s.value>> : s \in InProgram}
    BY TypesAreOK DEF SymbolsAreSorted
  <2>2. Listed(symbols) /\ file \in Files
    BY <2>1 DEF LookupInv, TableInv
  <2>3. DOMAIN symbols = 1..Len(symbols)
    BY <2>2, ListFacts
  <2>4. \A i, j \in DOMAIN symbols : i < j => /\ symbols[i].value <= symbols[j].value
                                             /\ symbols[i].name # symbols[j].name
    BY <2>2, <2>3 DEF Listed
  <2>5. ASSUME NEW i \in DOMAIN symbols
        PROVE  \E s \in InProgram : s.name = symbols[i].name /\ s.value = symbols[i].value
    <3>1. /\ symbols[i].name \in Place /\ file[symbols[i].name].name # 0
          /\ symbols[i].value = file[symbols[i].name].value /\ ElfBase <= symbols[i].value
      BY <2>2, <2>3 DEF Listed
    <3>2. file[symbols[i].name] \in InProgram
      BY <2>2, <3>1, ProgramFacts
    <3>3. file[symbols[i].name].name = symbols[i].name
      BY <2>2, <3>1, FileFacts
    <3>4. QED
      BY <3>1, <3>2, <3>3
  <2>6. ASSUME NEW s \in InProgram
        PROVE  \E i \in DOMAIN symbols : s.name = symbols[i].name /\ s.value = symbols[i].value
    <3>1. PICK k \in Place : s = file[k] /\ file[k].name # 0 /\ ElfBase <= file[k].value /\ s.name = k
      BY <2>2, ProgramFacts
    <3>2. PICK i \in 1..Len(symbols) : symbols[i].name = k
      BY <2>2, <3>1 DEF Listed
    <3>3. symbols[i].value = file[k].value
      BY <2>2, <3>2 DEF Listed
    <3>4. QED
      BY <2>3, <3>1, <3>2, <3>3
  <2>7. {<<symbols[i].name, symbols[i].value>> : i \in DOMAIN symbols} = {<<s.name, s.value>> : s \in InProgram}
    BY <2>5, <2>6
  <2>8. QED
    BY <2>4, <2>7
<1>2. QED
  BY <1>1, LookupInvAlways, PTL

\* A lookup in a table of any length answers with a symbol the address is in.
THEOREM LookupIsAlwaysSound == Spec => []LookupIsSound
<1>1. LookupInv => LookupIsSound
  <2> DEFINE s == symbols[Sized(answer.name)]
  <2>1. SUFFICES ASSUME LookupInv, answer.name # 0
                 PROVE  /\ s.value + answer.offset = answer.address
                        /\ answer.offset = 0 \/ answer.offset < s.size
    BY DEF LookupIsSound
  <2>2. Answered /\ Listed(symbols)
    BY <2>1 DEF LookupInv, TableInv, NoAnswer, Answered
  <2>3. PICK a \in 0..(End + 1), r \in 0..Len(symbols) : Answers(a, r)
    BY <2>2 DEF Answered
  <2>4. a \in Nat /\ ~(a > End \/ r = 0)
    <3>1. (a > End \/ r = 0) => answer.name = 0
      BY <2>3 DEF Answers
    <3>2. QED
      BY <2>1, <3>1, EndIsNat
  <2>5. answer.address = a /\ answer.name = symbols[r].name /\ answer.offset = a - symbols[r].value
    BY <2>3, <2>4 DEF Answers
  <2>6. r \in 1..Len(symbols) /\ symbols[r].value <= a /\ Compared(a, symbols, r) = 0
    BY <2>2, <2>3, <2>4, SearchResultFacts DEF Answers
  <2>7. /\ symbols[r] \in Symbol /\ symbols[r].value \in Nat /\ symbols[r].size \in 0..(Size - 1)
        /\ DOMAIN symbols = 1..Len(symbols) /\ \A i \in 1..Len(symbols) : i \in Nat
    BY <2>2, <2>6, ListFacts
  <2>8. \A i \in DOMAIN symbols : symbols[i].name = answer.name => i = r
    <3>1. SUFFICES ASSUME NEW i \in 1..Len(symbols), symbols[i].name = symbols[r].name, i # r PROVE FALSE
      BY <2>5, <2>7
    <3>2. i < r \/ r < i
      BY <2>6, <2>7, <3>1
    <3>3. QED
      BY <2>2, <2>6, <3>1, <3>2 DEF Listed
  <2>9. Sized(answer.name) = r
    BY <2>5, <2>6, <2>7, <2>8 DEF Sized
  <2>10. s.value = symbols[r].value /\ s.size = symbols[r].size
    BY <2>9
  <2> HIDE DEF s
  <2>11. PICK v \in Nat, z \in Nat : v = symbols[r].value /\ z = symbols[r].size
    BY <2>7, CountIsNat
  <2>12. a = v \/ (v < a /\ a < (v + z) % Size)
    BY <2>4, <2>6, <2>7, <2>11, CompareFacts DEF Compared
  <2>13. (v + z) % Size <= v + z
    <3>1. PICK w \in Nat : w = v + z
      BY <2>11
    <3>2. (w % Size) <= w
      BY CountIsNat
    <3>3. QED
      BY <3>1, <3>2
  <2>14. PICK w \in Int : w = (v + z) % Size
    BY <2>11, CountIsNat
  <2>15. a = v \/ (v < a /\ a < v + z)
    BY <2>4, <2>12, <2>13, <2>14
  <2>16. PICK o : o = a - v
    OBVIOUS
  <2>17. v + o = a /\ (o = 0 \/ o < z)
    BY <2>4, <2>15, <2>16
  <2>18. QED
    BY <2>5, <2>10, <2>11, <2>16, <2>17
<1>2. QED
  BY <1>1, LookupInvAlways, PTL

-----------------------------------------------------------------------------
(* What a lookup finds *)

\* In a list whose sizes do not wrap around, an entry compares equal if it
\* covers the address.
LEMMA EqualIsCovered ==
    ASSUME NEW a \in Nat, NEW s \in Symbol, s.value + s.size < Size
    PROVE  symbol_find_compare32(a, s) = 0 <=> Covers(s, a)
<1>1. PICK v \in Nat, z \in Nat : v = s.value /\ z = s.size
  BY CountIsNat DEF Symbol
<1>2. (v + z) % Size = v + z
  BY <1>1, CountIsNat
<1>3. symbol_find_compare32(a, s) = 0 <=> a = v \/ (a > v /\ a < v + z)
  BY <1>1, <1>2, CompareFacts
<1>4. Covers(s, a) <=> v <= a /\ (a < v + z \/ a = v)
  BY <1>1 DEF Covers
<1>5. QED
  BY <1>3, <1>4

\* No entry covers the value of another.
Disjoint(u) ==
    \A i \in 1..Len(u) : /\ u[i].value + u[i].size < Size
                         /\ \A j \in 1..Len(u) : i # j => ~Covers(u[i], u[j].value)

LEMMA DisjointIsFound ==
    ASSUME NEW u, Listed(u), Disjoint(u), NEW a \in Nat, NEW r, SearchResult(a, u, r),
           NEW i \in 1..Len(u), Covers(u[i], a)
    PROVE  r = i
<1>1. \A k \in 1..Len(u) : /\ u[k] \in Symbol /\ u[k].value \in Nat /\ u[k].size \in Nat /\ k \in Nat
                           /\ Compared(a, u, k) \in {-1, 0, 1}
                           /\ Compared(a, u, k) = 0 <=> Covers(u[k], a)
                           /\ Compared(a, u, k) = 1 => u[k].value < a
                           /\ Compared(a, u, k) = -1 => a < u[k].value
  <2>1. SUFFICES ASSUME NEW k \in 1..Len(u)
        PROVE  /\ u[k] \in Symbol /\ u[k].value \in Nat /\ u[k].size \in Nat /\ k \in Nat
               /\ Compared(a, u, k) \in {-1, 0, 1}
               /\ Compared(a, u, k) = 0 <=> Covers(u[k], a)
               /\ Compared(a, u, k) = 1 => u[k].value < a
               /\ Compared(a, u, k) = -1 => a < u[k].value
    OBVIOUS
  <2>2. u[k] \in Symbol /\ u[k].value \in Nat /\ u[k].size \in Nat /\ k \in Nat
    BY ListFacts, CountIsNat
  <2>3. u[k].value + u[k].size < Size
    BY DEF Disjoint
  <2>4. Compared(a, u, k) = 0 <=> Covers(u[k], a)
    BY <2>2, <2>3, EqualIsCovered DEF Compared
  <2>5. PICK c : c = Compared(a, u, k)
    OBVIOUS
  <2>6. c \in {-1, 0, 1} /\ (c = 1 => a > u[k].value) /\ (c < 0 => a < u[k].value)
    BY <2>2, <2>5, CompareFacts DEF Compared
  <2>7. c = -1 => c < 0
    OBVIOUS
  <2>8. QED
    BY <2>2, <2>4, <2>5, <2>6, <2>7
<1>2. PICK v \in Nat, z \in Nat : v = u[i].value /\ z = u[i].size
  BY <1>1
<1>3. v <= a /\ (a < v + z \/ a = v)
  BY <1>2 DEF Covers
<1>4. ASSUME NEW k \in 1..Len(u), k # i PROVE ~(v <= u[k].value /\ u[k].value <= a)
  <2>1. ~Covers(u[i], u[k].value)
    BY <1>4 DEF Disjoint
  <2>2. PICK w \in Nat : w = u[k].value
    BY <1>1
  <2>3. ~(v <= w /\ (w < v + z \/ w = v))
    BY <1>2, <2>1, <2>2 DEF Covers
  <2>4. QED
    BY <1>3, <2>2, <2>3
<1>5. IsTarget(a, u, i)
  <2>1. Compared(a, u, i) = 0
    BY <1>1
  <2>2. ASSUME NEW k \in 1..Len(u)
        PROVE  /\ Compared(a, u, k) = 1 => k < i
               /\ Compared(a, u, k) = -1 => i < k
    <3>1. k = i => Compared(a, u, k) = 0
      BY <2>1
    <3>2. PICK w \in Nat : w = u[k].value
      BY <1>1
    <3>3. i < k => v <= w
      BY <1>2, <3>2 DEF Listed
    <3>4. k < i => w <= v
      BY <1>2, <3>2 DEF Listed
    <3>5. Compared(a, u, k) = 1 => k # i /\ ~(i < k)
      BY <1>1, <1>4, <3>1, <3>2, <3>3
    <3>6. Compared(a, u, k) = -1 => k # i /\ ~(k < i)
      BY <1>1, <1>3, <3>1, <3>2, <3>4
    <3>7. i \in Nat /\ k \in Nat
      BY <1>1
    <3>8. QED
      BY <3>5, <3>6, <3>7
  <2>3. QED
    BY <2>1, <2>2 DEF IsTarget
<1>6. r # 0
  BY <1>5 DEF SearchResult, IsTarget
<1>7. r \in 1..Len(u) /\ Compared(a, u, r) = 0
  BY <1>6, SearchResultFacts
<1>8. Covers(u[r], a)
  BY <1>1, <1>7
<1>9. PICK w \in Nat, y \in Nat : w = u[r].value /\ y = u[r].size
  BY <1>1, <1>7
<1>10. w <= a /\ (a < w + y \/ a = w)
  BY <1>8, <1>9 DEF Covers
<1>11. SUFFICES ASSUME r # i PROVE FALSE
  OBVIOUS
<1>12. ~(v <= w)
  BY <1>4, <1>7, <1>9, <1>10, <1>11
<1>13. ~Covers(u[r], u[i].value)
  BY <1>7, <1>11 DEF Disjoint
<1>14. ~(w <= v /\ (v < w + y \/ v = w))
  BY <1>2, <1>9, <1>13 DEF Covers
<1>15. QED
  BY <1>3, <1>10, <1>12, <1>14

\* Each entry reaches to the next value, the last one to the program's end.
ToNext(u) ==
    \A i \in 1..Len(u) :
        /\ u[i].value < Past
        /\ IF i < Len(u)
           THEN \E m \in Nat : EndsAt(u, i, m) /\ u[i].value + u[i].size = u[m].value
           ELSE u[i].value + u[i].size = Past

LEMMA NoWrap ==
    ASSUME NEW v \in Nat, NEW e \in Nat, v <= e, e < Size
    PROVE  v + ((e - v) % Size) = e
<1>1. PICK d \in Nat : d = e - v
  OBVIOUS
<1>2. d < Size /\ (d % Size) = d
  BY <1>1, CountIsNat
<1>3. QED
  BY <1>1, <1>2

LEMMA SizesReachNext ==
    ASSUME NEW u, Listed(u), Sizes(u),
           \A i \in 1..Len(u) : file[u[i].name].size = 0 /\ u[i].value < Past
    PROVE  ToNext(u)
<1>1. SUFFICES ASSUME NEW i \in 1..Len(u)
               PROVE  IF i < Len(u)
                      THEN \E m \in Nat : EndsAt(u, i, m) /\ u[i].value + u[i].size = u[m].value
                      ELSE u[i].value + u[i].size = Past
  BY DEF ToNext
<1>2. Len(u) \in Nat /\ \A k \in 1..Len(u) : k \in Nat /\ u[k].value \in Nat
  BY ListFacts
<1>3. IF i < Len(u)
      THEN \E n \in Nat : EndsAt(u, i, n) /\ u[i].size = (u[n].value - u[i].value) % Size
      ELSE u[i].size = (Past - u[i].value) % Size
  BY DEF Sizes
<1>4. PICK v \in Nat : v = u[i].value
  BY <1>2
<1>5. v < Past
  BY <1>4
<1>6. CASE i < Len(u)
  <2>1. PICK n \in Nat : EndsAt(u, i, n) /\ u[i].size = (u[n].value - u[i].value) % Size
    BY <1>3, <1>6
  <2>2. n \in 1..Len(u) /\ i < n
    BY <1>2, <2>1 DEF EndsAt
  <2>3. PICK e \in Nat : e = u[n].value
    BY <1>2, <2>2
  <2>4. v <= e /\ e < Past
    BY <1>4, <2>2, <2>3 DEF Listed
  <2>5. e < Size
    BY <2>4, EndIsNat, CountIsNat
  <2>6. v + ((e - v) % Size) = e
    BY <2>4, <2>5, NoWrap
  <2>7. u[i].value + u[i].size = u[n].value
    BY <1>4, <2>1, <2>3, <2>6
  <2>8. QED
    BY <1>6, <2>1, <2>7
<1>7. CASE ~(i < Len(u))
  <2>1. Past < Size /\ Past \in Nat
    BY EndIsNat, CountIsNat
  <2>2. v <= Past
    BY <1>5, <2>1
  <2>3. v + ((Past - v) % Size) = Past
    BY <2>1, <2>2, NoWrap
  <2>4. QED
    BY <1>3, <1>4, <1>7, <2>3
<1>8. QED
  BY <1>6, <1>7

\* The highest of the values at or below the address.
Highest(u, a, h) ==
    /\ h \in 1..Len(u) /\ u[h].value <= a
    /\ \A k \in 1..Len(u) : u[k].value <= a => k <= h

LEMMA ReachFacts ==
    ASSUME NEW u, Listed(u), ToNext(u), NEW a \in Nat, a < Past, NEW h, Highest(u, a, h), NEW i \in 1..Len(u)
    PROVE  /\ Compared(a, u, i) = 0 => u[i].value = u[h].value
           /\ (h < Len(u) \/ i = h) /\ u[i].value = u[h].value => Compared(a, u, i) = 0
<1>1. /\ h \in 1..Len(u) /\ Len(u) \in Nat
      /\ \A k \in 1..Len(u) : /\ k \in Nat /\ u[k].value \in Nat /\ u[k] \in Symbol
                              /\ u[k].value <= a <=> k <= h
                              /\ k <= h => u[k].value <= u[h].value
  <2>1. h \in 1..Len(u) /\ Len(u) \in Nat /\ u[h].value \in Nat
    BY ListFacts DEF Highest
  <2>2. ASSUME NEW k \in 1..Len(u)
        PROVE  /\ k \in Nat /\ u[k].value \in Nat /\ u[k] \in Symbol
               /\ u[k].value <= a <=> k <= h
               /\ k <= h => u[k].value <= u[h].value
    <3>1. k \in Nat /\ u[k].value \in Nat /\ u[k] \in Symbol /\ h \in Nat
      BY <2>1, ListFacts
    <3>2. k < h => u[k].value <= u[h].value
      BY <2>1 DEF Listed
    <3>3. k <= h => u[k].value <= u[h].value
      BY <2>1, <3>1, <3>2
    <3>4. u[k].value <= a => k <= h
      BY DEF Highest
    <3>5. u[h].value <= a
      BY DEF Highest
    <3>6. QED
      BY <2>1, <3>1, <3>3, <3>4, <3>5
  <2>3. QED
    BY <2>1, <2>2
<1>2. PICK v \in Nat, t \in Nat : v = u[i].value /\ t = u[h].value
  BY <1>1
<1>3. t <= a
  BY <1>1, <1>2
<1>4. PICK e \in Nat : e = u[i].value + u[i].size
  BY <1>1, CountIsNat DEF Symbol
<1>5. Compared(a, u, i) = 0 <=> v <= a /\ (a < e \/ a = v)
  <2>1. e < Size
    <3>1. CASE i < Len(u)
      <4>1. PICK m \in Nat : EndsAt(u, i, m) /\ u[i].value + u[i].size = u[m].value
        BY <3>1 DEF ToNext
      <4>2. m \in 1..Len(u)
        BY <1>1, <4>1 DEF EndsAt
      <4>3. u[m].value < Past /\ u[m].value \in Nat
        BY <1>1, <4>2 DEF ToNext
      <4>4. QED
        BY <1>4, <4>1, <4>3, EndIsNat, CountIsNat
    <3>2. CASE ~(i < Len(u))
      <4>1. e = Past
        BY <1>4, <3>2 DEF ToNext
      <4>2. QED
        BY <4>1, EndIsNat, CountIsNat
    <3>3. QED
      BY <3>1, <3>2
  <2>2. u[i] \in Symbol /\ u[i].value + u[i].size < Size
    BY <1>1, <1>4, <2>1
  <2>3. Compared(a, u, i) = 0 <=> Covers(u[i], a)
    BY <2>2, EqualIsCovered DEF Compared
  <2>4. QED
    BY <1>2, <1>4, <2>3 DEF Covers
<1>6. CASE i = Len(u)
  <2>1. e = Past
    BY <1>1, <1>4, <1>6 DEF ToNext
  <2>2. v <= a => i = h
    BY <1>1, <1>2, <1>6
  <2>3. QED
    BY <1>1, <1>2, <1>3, <1>5, <1>6, <2>1, <2>2
<1>7. CASE i < Len(u)
  <2>1. PICK m \in Nat : EndsAt(u, i, m) /\ u[i].value + u[i].size = u[m].value
    BY <1>7 DEF ToNext
  <2>2. /\ m \in 1..Len(u) /\ i < m /\ m <= Len(u)
        /\ m = Len(u) \/ u[m].value # v
        /\ \A k \in 1..Len(u) : i < k /\ k < m => u[k].value = v
    BY <1>1, <1>2, <2>1 DEF EndsAt
  <2>3. e = u[m].value
    BY <1>4, <2>1
  <2>4. a < e <=> h < m
    BY <1>1, <2>2, <2>3
  <2>5. h \in Nat /\ i \in Nat /\ (v <= a <=> i <= h)
    BY <1>1, <1>2
  <2>6. v <= a /\ h < m => v = t
    <3>1. i <= h /\ h < m => i = h \/ u[h].value = v
      BY <1>1, <2>2, <2>5
    <3>2. QED
      BY <1>2, <2>5, <3>1
  <2>7. a = v => v = t
    BY <1>1, <1>2, <1>3, <2>5
  <2>8. (h < Len(u) \/ i = h) /\ v = t => h < m
    <3>1. SUFFICES ASSUME h < Len(u) \/ i = h, v = t, ~(h < m) PROVE FALSE
      OBVIOUS
    <3>2. i # h /\ h < Len(u) /\ m <= h
      BY <2>2, <2>5, <3>1
    <3>3. m # Len(u)
      BY <1>1, <2>2, <2>5, <3>2
    <3>4. u[m].value # v /\ v <= u[m].value
      BY <1>1, <1>2, <2>2, <3>3 DEF Listed
    <3>5. u[m].value <= t /\ u[m].value \in Nat
      BY <1>1, <1>2, <2>2, <3>2
    <3>6. QED
      BY <3>1, <3>4, <3>5
  <2>9. QED
    BY <1>2, <1>3, <1>5, <2>4, <2>6, <2>7, <2>8
<1>8. QED
  BY <1>1, <1>6, <1>7

\* What is found in such a list has the highest value, and is the first that
\* has it unless that is the last value of all.
LEMMA HighestIsFound ==
    ASSUME NEW u, Listed(u), ToNext(u), NEW a \in Nat, a < Past, NEW h, Highest(u, a, h),
           NEW r, SearchResult(a, u, r)
    PROVE  /\ r \in 1..Len(u) /\ u[r].value = u[h].value
           /\ h < Len(u) => \A q \in 1..Len(u) : u[q].value = u[h].value => r <= q
<1>1. /\ h \in 1..Len(u) /\ Len(u) \in Nat /\ u[h].value <= a
      /\ \A k \in 1..Len(u) : k \in Nat /\ u[k].value \in Nat /\ u[k] \in Symbol
  BY ListFacts DEF Highest
<1>2. Compared(a, u, h) = 0
  BY <1>1, ReachFacts
<1>3. IsTarget(a, u, h)
  <2>1. ASSUME NEW k \in 1..Len(u)
        PROVE  /\ Compared(a, u, k) = 1 => k < h
               /\ Compared(a, u, k) = -1 => h < k
    <3>1. PICK c : c = Compared(a, u, k)
      OBVIOUS
    <3>2. (c = 1 => a > u[k].value) /\ (c < 0 => a < u[k].value)
      BY <1>1, <3>1, CompareFacts DEF Compared
    <3>3. c = -1 => c < 0
      OBVIOUS
    <3>4. c # 0 => k # h
      BY <1>2, <3>1
    <3>5. c = 1 => k <= h
      BY <1>1, <3>2 DEF Highest
    <3>6. k < h => u[k].value <= u[h].value
      BY <1>1 DEF Listed
    <3>7. c = -1 => ~(k < h)
      BY <1>1, <3>2, <3>3, <3>6
    <3>8. h \in Nat /\ k \in Nat
      BY <1>1
    <3>9. (c = 1 => k < h) /\ (c = -1 => h < k)
      BY <3>4, <3>5, <3>7, <3>8
    <3>10. QED
      BY <3>1, <3>9
  <2>2. QED
    BY <1>1, <1>2, <2>1 DEF IsTarget
<1>4. r # 0
  BY <1>1, <1>3 DEF SearchResult
<1>5. r \in 1..Len(u) /\ Compared(a, u, r) = 0 /\ (r > 1 => Compared(a, u, r - 1) # 0)
  BY <1>4, SearchResultFacts
<1>6. u[r].value = u[h].value
  BY <1>5, ReachFacts
<1>7. ASSUME h < Len(u), NEW q \in 1..Len(u), u[q].value = u[h].value, ~(r <= q) PROVE FALSE
  <2>1. PICK p : p = r - 1
    OBVIOUS
  <2>2. r > 1 /\ p \in 1..Len(u) /\ p < r /\ (q = p \/ q < p)
    BY <1>1, <1>5, <1>7, <2>1
  <2>3. u[p].value <= u[r].value
    BY <1>5, <2>2 DEF Listed
  <2>4. q < p => u[q].value <= u[p].value
    BY <2>2 DEF Listed
  <2>5. u[p].value = u[h].value
    BY <1>1, <1>6, <1>7, <2>2, <2>3, <2>4
  <2>6. Compared(a, u, p) = 0
    BY <1>7, <2>2, <2>5, ReachFacts
  <2>7. QED
    BY <1>5, <2>1, <2>2, <2>6
<1>8. QED
  BY <1>5, <1>6, <1>7

\* The entries of the list stand for the symbols of the program.
LEMMA EntryFacts ==
    ASSUME file \in Files, NEW u, Listed(u), Sizes(u)
    PROVE  /\ \A i \in 1..Len(u) : /\ file[u[i].name] \in InProgram
                                   /\ file[u[i].name].name = u[i].name
                                   /\ file[u[i].name].value = u[i].value
                                   /\ file[u[i].name].size # 0 => file[u[i].name].size = u[i].size
           /\ \A s \in InProgram :
                 \E i \in 1..Len(u) : s = file[u[i].name]
<1>1. ASSUME NEW i \in 1..Len(u)
      PROVE  /\ file[u[i].name] \in InProgram
             /\ file[u[i].name].name = u[i].name
             /\ file[u[i].name].value = u[i].value
             /\ file[u[i].name].size # 0 => file[u[i].name].size = u[i].size
  <2>1. /\ u[i].name \in Place /\ file[u[i].name].name # 0
        /\ u[i].value = file[u[i].name].value /\ ElfBase <= u[i].value
    BY DEF Listed
  <2>2. file[u[i].name] \in InProgram
    BY <2>1, ProgramFacts
  <2>3. file[u[i].name].name = u[i].name
    BY <2>1, FileFacts
  <2>4. file[u[i].name].size # 0 => u[i].size = file[u[i].name].size
    BY DEF Sizes
  <2>5. QED
    BY <2>1, <2>2, <2>3, <2>4
<1>2. ASSUME NEW s \in InProgram PROVE \E i \in 1..Len(u) : s = file[u[i].name]
  <2>1. PICK k \in Place : s = file[k] /\ file[k].name # 0 /\ ElfBase <= file[k].value /\ s.name = k
    BY ProgramFacts
  <2>2. PICK i \in 1..Len(u) : u[i].name = k
    BY <2>1 DEF Listed
  <2>3. QED
    BY <2>1, <2>2
<1>3. QED
  BY <1>1, <1>2

LEMMA SizedAreDisjoint ==
    ASSUME file \in Files, NEW u, Listed(u), Sizes(u), HasSizes, ~Overlap
    PROVE  Disjoint(u)
<1>1. SUFFICES ASSUME NEW i \in 1..Len(u)
               PROVE  /\ u[i].value + u[i].size < Size
                      /\ \A j \in 1..Len(u) : i # j => ~Covers(u[i], u[j].value)
  BY DEF Disjoint
<1>2. \A k \in 1..Len(u) : k \in Nat
  BY ListFacts
<1>3. PICK s : s = file[u[i].name]
  OBVIOUS
<1>4. s \in InProgram /\ s.value = u[i].value /\ s.name = u[i].name /\ (s.size # 0 => s.size = u[i].size)
  BY <1>3, EntryFacts
<1>5. s.size > 0 /\ s.value + s.size < Size
  BY <1>4 DEF HasSizes
<1>6. s.size = u[i].size
  <2>1. s.size # 0
    BY <1>5
  <2>2. QED
    BY <1>4, <2>1
<1>7. ASSUME NEW j \in 1..Len(u), i # j, Covers(u[i], u[j].value) PROVE FALSE
  <2>1. PICK t : t = file[u[j].name]
    OBVIOUS
  <2>2. t \in InProgram /\ t.value = u[j].value /\ t.name = u[j].name
    BY <2>1, EntryFacts
  <2>3. u[i].name # u[j].name
    <3>1. i < j \/ j < i
      BY <1>2, <1>7
    <3>2. QED
      BY <3>1 DEF Listed
  <2>4. s # t
    BY <1>4, <2>2, <2>3
  <2>5. Covers(s, t.value)
    BY <1>4, <1>6, <1>7, <2>2 DEF Covers
  <2>6. QED
    BY <1>4, <2>2, <2>4, <2>5 DEF Overlap
<1>8. QED
  BY <1>4, <1>5, <1>6, <1>7

\* In a table of any length, an address in a symbol finds it if the symbols
\* are apart; and if they have no sizes of their own, every address of the
\* program from the first one on finds the one with the highest value below it.
THEOREM SymbolsAreAlwaysFound == Spec => []SymbolsAreFound
<1>1. LookupInv => SymbolsAreFound
  <2> DEFINE below   == {i \in DOMAIN symbols : symbols[i].value <= answer.address}
             highest == {i \in below : symbols[i].value = symbols[Max(below)].value}
  <2>1. SUFFICES ASSUME LookupInv, Asked
                 PROVE  /\ HasSizes /\ ~Overlap =>
                               \A s \in InProgram : Covers(s, answer.address) /\ answer.address <= End =>
                                                        answer.name = s.name
                        /\ HasNoSizes => (below # {} /\ answer.address < Past =>
                               IF Max(below) = Len(symbols)
                               THEN answer.name \in {symbols[i].name : i \in highest}
                               ELSE answer.name = symbols[Min(highest)].name)
    BY DEF SymbolsAreFound
  <2>2. Listed(symbols) /\ Sizes(symbols) /\ file \in Files /\ Answered
    BY <2>1 DEF LookupInv, TableInv, Asked
  <2>3. PICK a \in 0..(End + 1), r \in 0..Len(symbols) : Answers(a, r)
    BY <2>2 DEF Answered
  <2>4. PICK u : u = symbols
    OBVIOUS
  <2>5. /\ Listed(u) /\ Sizes(u) /\ SearchResult(a, u, r) /\ a \in Nat /\ Len(u) \in Nat
        /\ DOMAIN u = 1..Len(u) /\ \A i \in 1..Len(u) : u[i].value \in Nat /\ u[i].size \in Nat /\ i \in Nat
    BY <2>2, <2>3, <2>4, ListFacts, EndIsNat, CountIsNat DEF Answers
  <2>6. /\ answer.address = a
        /\ ~(a > End \/ r = 0) => answer.name = u[r].name
    BY <2>3, <2>4 DEF Answers
  <2>7. ASSUME HasSizes, ~Overlap, NEW s \in InProgram, Covers(s, a), a <= End
        PROVE  answer.name = s.name
    <3>1. PICK i \in 1..Len(u) : s = file[u[i].name]
      BY <2>2, <2>5, EntryFacts
    <3>2. /\ s.name = u[i].name /\ s.value = u[i].value /\ (s.size # 0 => s.size = u[i].size)
      BY <2>2, <2>5, <3>1, EntryFacts
    <3>3. s.size # 0
      <4>1. s.size > 0
        BY <2>7 DEF HasSizes
      <4>2. QED
        BY <4>1
    <3>4. Covers(u[i], a)
      BY <2>7, <3>2, <3>3 DEF Covers
    <3>5. Disjoint(u)
      BY <2>2, <2>5, <2>7, SizedAreDisjoint
    <3>6. r = i
      BY <2>5, <3>4, <3>5, DisjointIsFound
    <3>7. ~(a > End \/ r = 0)
      BY <2>5, <2>7, <3>6, EndIsNat
    <3>8. QED
      BY <2>6, <3>2, <3>6, <3>7
  <2>8. ASSUME HasNoSizes, below # {}, a < Past
        PROVE  IF Max(below) = Len(symbols)
               THEN answer.name \in {symbols[i].name : i \in highest}
               ELSE answer.name = symbols[Min(highest)].name
    <3>1. below = {i \in 1..Len(u) : u[i].value <= a}
      BY <2>4, <2>5, <2>6
    <3>2. PICK h : h = Max(below)
      OBVIOUS
    <3>3. highest = {i \in 1..Len(u) : u[i].value <= a /\ u[i].value = u[h].value}
      BY <2>4, <3>1, <3>2
    <3> HIDE DEF below, highest
    <3>4. below \in SUBSET (1..Len(u))
      BY <3>1
    <3>5. h \in below /\ \A n \in below : n <= h
      BY <2>5, <2>8, <3>2, <3>4, MaxIsGreatest
    <3>6. Highest(u, a, h)
      BY <3>1, <3>5 DEF Highest
    <3>7. ToNext(u)
      <4>1. ASSUME NEW i \in 1..Len(u) PROVE file[u[i].name].size = 0 /\ u[i].value < Past
        <5>1. file[u[i].name] \in InProgram /\ file[u[i].name].value = u[i].value
          BY <2>2, <2>5, EntryFacts
        <5>2. QED
          BY <2>8, <5>1 DEF HasNoSizes
      <4>2. QED
        BY <2>5, <4>1, SizesReachNext
    <3>8. /\ r \in 1..Len(u) /\ u[r].value = u[h].value
          /\ h < Len(u) => \A q \in 1..Len(u) : u[q].value = u[h].value => r <= q
      BY <2>5, <2>8, <3>6, <3>7, HighestIsFound
    <3>9. r \in highest
      <4>1. u[h].value <= a
        BY <3>6 DEF Highest
      <4>2. QED
        BY <3>3, <3>8, <4>1
    <3>10. answer.name = u[r].name
      <4>1. ~(a > End \/ r = 0)
        BY <2>5, <2>8, <3>8, EndIsNat
      <4>2. QED
        BY <2>6, <4>1
    <3>11. CASE h = Len(u)
      <4>1. answer.name = symbols[r].name /\ Max(below) = Len(symbols)
        BY <2>4, <3>2, <3>10, <3>11
      <4>2. answer.name \in {symbols[i].name : i \in highest}
        BY <3>9, <4>1
      <4>3. QED
        BY <4>1, <4>2
    <3>12. CASE h # Len(u)
      <4>1. h < Len(u)
        <5>1. h \in 1..Len(u)
          BY <3>6 DEF Highest
        <5>2. PICK n \in Nat : n = Len(u)
          BY <2>5
        <5>3. h \in 1..n /\ h # n
          BY <3>12, <5>1, <5>2
        <5>4. h < n
          BY <5>3
        <5>5. QED
          BY <5>2, <5>4
      <4>2. highest \in SUBSET Nat /\ highest # {}
        BY <2>5, <3>3, <3>9
      <4>3. Min(highest) \in highest /\ \A n \in highest : Min(highest) <= n
        BY <4>2, MinIsLeast
      <4>4. PICK q : q = Min(highest)
        OBVIOUS
      <4>5. q \in 1..Len(u) /\ u[q].value = u[h].value /\ q <= r
        BY <3>3, <3>9, <4>3, <4>4
      <4>6. r <= q
        BY <3>8, <4>1, <4>5
      <4>7. q = r
        BY <2>5, <3>8, <4>5, <4>6
      <4>8. QED
        BY <2>4, <3>2, <3>10, <3>12, <4>4, <4>7
    <3>13. QED
      BY <3>11, <3>12
  <2>9. QED
    BY <2>6, <2>7, <2>8
<1>2. QED
  BY <1>1, LookupInvAlways, PTL

=============================================================================
