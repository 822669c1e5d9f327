------------------------- MODULE InstructionProofs -------------------------
(***************************************************************************)
(* The instructions are exact for words of every width,                    *)
(* and for floating-point numbers of every size:                           *)
(*   - sums, differences and the comparisons made of them depend on Size   *)
(*     only through Half;                                                  *)
(*   - quotients, double words and partial products need that Half is the  *)
(*     weight of the sign bit, and what the bits of a word add up to,      *)
(*     which is shown by induction over the bits;                          *)
(*   - a floating-point comparison and a conversion need no width at all;  *)
(*   - a sum, a product or a quotient has a result if it is the same for   *)
(*     all numbers near its operands.                                      *)
(*   - a word is what its bytes make, whatever the values of a byte.       *)
(***************************************************************************)
EXTENDS MCInstructions, TLAPS, WellFoundedInduction

\* Cutting to a word adds or takes away Size at most once.
LEMMA CutIsWord ==
    ASSUME NEW s \in Int, -Size <= s, s < 2 * Size
    PROVE  /\ Cut(s) \in Word
           /\ s - Cut(s) \in {-Size, 0, Size}
           /\ s < 0 => Cut(s) = s + Size
           /\ 0 <= s /\ s < Size => Cut(s) = s
           /\ s >= Size => Cut(s) = s - Size
  BY HalfAssumption DEF Cut, Word, Size

\* A sum of two words and a carry: its word, its carry and its overflow.
LEMMA SumFlags ==
    ASSUME NEW val1 \in Word, NEW val2 \in Word, NEW c \in {0, 1}
    PROVE  LET sum == val1 + val2 + c
               result == Cut(sum)
           IN  /\ IsCutTo(sum, result)
               /\ sum >= Size <=> sum # result
               /\ SumOverflows(val1, val2, result)
                      <=> Signed(val1) + Signed(val2) + c # Signed(result)
<1> DEFINE sum == val1 + val2 + c
<1>1. sum \in Int /\ -Size <= sum /\ sum < 2 * Size
  BY HalfAssumption DEF Word, Size
<1>2. IsCutTo(sum, Cut(sum))
  BY <1>1, CutIsWord DEF IsCutTo
<1>3. sum >= Size <=> sum # Cut(sum)
  BY <1>1, CutIsWord, HalfAssumption DEF Word, Size
<1>4. SumOverflows(val1, val2, Cut(sum))
          <=> Signed(val1) + Signed(val2) + c # Signed(Cut(sum))
  BY <1>1, HalfAssumption DEF SumOverflows, Signed, sign, Cut, Word, Size
<1>5. QED
  BY <1>2, <1>3, <1>4

\* A difference of two words and a borrow, of which the code has sign bits.
LEMMA DifferenceFlags ==
    ASSUME NEW val1 \in Word, NEW val2 \in Word, NEW c \in {0, 1}
    PROVE  LET diff == val1 - val2 - c
               result == Cut(diff)
           IN  /\ IsCutTo(diff, result)
               /\ Borrows(val1, val2, result) <=> diff < 0
               /\ DifferenceOverflows(val1, val2, result)
                      <=> Signed(val1) - Signed(val2) - c \notin SignedRange
<1> DEFINE diff == val1 - val2 - c
<1>1. diff \in Int /\ -Size <= diff /\ diff < 2 * Size
  BY HalfAssumption DEF Word, Size
<1>2. IsCutTo(diff, Cut(diff))
  BY <1>1, CutIsWord DEF IsCutTo
<1>3. Borrows(val1, val2, Cut(diff)) <=> diff < 0
  BY <1>1, HalfAssumption DEF Borrows, sign, Cut, Word, Size
<1>4. DifferenceOverflows(val1, val2, Cut(diff))
          <=> Signed(val1) - Signed(val2) - c \notin SignedRange
  BY <1>1, HalfAssumption DEF DifferenceOverflows, SignedRange, Signed, sign, Cut, Word, Size
<1>5. QED
  BY <1>2, <1>3, <1>4

-----------------------------------------------------------------------------
SumOps == {"add", "addx", "addcc", "addxcc", "taddcc"}
DifferenceOps == {"sub", "subx", "subcc", "subxcc", "tsubcc"}

\* What add and its variants leave in rd and in the condition codes.
LEMMA AddStep ==
    ASSUME NEW val1 \in Word, NEW val2 \in Word, NEW op1 \in SumOps,
           Executes(op1, val1, val2, Add(op1, val1, val2, icc, y))
    PROVE  SumsAreExact'
<1> DEFINE c == IF op1 \in {"addx", "addxcc"} THEN Carry(icc) ELSE 0
           sum == val1 + val2 + c
           v == \/ SumOverflows(val1, val2, Cut(sum))
                \/ op1 = "taddcc" /\ Tagged(val1, val2)
           result == Add(op1, val1, val2, icc, y)
<1>1. c \in {0, 1}
  BY DEF Carry
<1>2. /\ last'.op = op1 /\ last'.val1 = val1 /\ last'.val2 = val2
      /\ last'.rd = result.rd /\ last'.c = Carry(icc)
      /\ icc' = result.icc
  BY DEF Executes
<1>3. /\ result.rd = Cut(sum)
      /\ op1 \in {"addcc", "addxcc", "taddcc"} => result.icc = Codes(Cut(sum), v, sum >= Size)
  BY Zenon DEF Add, SumOps
<1>4. /\ IsCutTo(sum, Cut(sum))
      /\ sum >= Size <=> sum # Cut(sum)
      /\ SumOverflows(val1, val2, Cut(sum))
             <=> Signed(val1) + Signed(val2) + c # Signed(Cut(sum))
  BY <1>1, SumFlags
<1>5. Codes(Cut(sum), v, sum >= Size).v = v /\ Codes(Cut(sum), v, sum >= Size).c = (sum >= Size)
  BY Zenon DEF Codes
<1>6. CarryIn' = c
  BY <1>2, Zenon DEF CarryIn, IsOne, SumOps
<1>7. op1 \in {"addcc", "addxcc", "taddcc"} => icc'.v = v /\ icc'.c = (sum >= Size)
  BY <1>2, <1>3, <1>5, Zenon
<1>8. last'.rd = Cut(sum)
  BY <1>2, <1>3, Zenon
<1>9. QED
  BY <1>2, <1>4, <1>6, <1>7, <1>8, Zenon DEF SumsAreExact, IsOne, SumOps

\* What sub and its variants leave in rd and in the condition codes.
LEMMA SubtractStep ==
    ASSUME NEW val1 \in Word, NEW val2 \in Word, NEW op1 \in DifferenceOps,
           Executes(op1, val1, val2, Subtract(op1, val1, val2, icc, y))
    PROVE  DifferencesAreExact'
<1> DEFINE c == IF op1 \in {"subx", "subxcc"} THEN Carry(icc) ELSE 0
           diff == val1 - val2 - c
           v == \/ DifferenceOverflows(val1, val2, Cut(diff))
                \/ op1 = "tsubcc" /\ Tagged(val1, val2)
           borrow == Borrows(val1, val2, Cut(diff))
           result == Subtract(op1, val1, val2, icc, y)
<1>1. c \in {0, 1}
  BY DEF Carry
<1>2. /\ last'.op = op1 /\ last'.val1 = val1 /\ last'.val2 = val2
      /\ last'.rd = result.rd /\ last'.c = Carry(icc)
      /\ icc' = result.icc
  BY DEF Executes
<1>3. /\ result.rd = Cut(diff)
      /\ op1 \in {"subcc", "subxcc", "tsubcc"} => result.icc = Codes(Cut(diff), v, borrow)
  BY Zenon DEF Subtract, DifferenceOps
<1>4. /\ IsCutTo(diff, Cut(diff))
      /\ borrow <=> diff < 0
      /\ DifferenceOverflows(val1, val2, Cut(diff))
             <=> Signed(val1) - Signed(val2) - c \notin SignedRange
  BY <1>1, DifferenceFlags
<1>5. Codes(Cut(diff), v, borrow).v = v /\ Codes(Cut(diff), v, borrow).c = borrow
  BY Zenon DEF Codes
<1>6. CarryIn' = c
  BY <1>2, Zenon DEF CarryIn, IsOne, DifferenceOps
<1>7. op1 \in {"subcc", "subxcc", "tsubcc"} => icc'.v = v /\ icc'.c = borrow
  BY <1>2, <1>3, <1>5, Zenon
<1>8. last'.rd = Cut(diff)
  BY <1>2, <1>3, Zenon
<1>9. QED
  BY <1>2, <1>4, <1>6, <1>7, <1>8, Zenon DEF DifferencesAreExact, IsOne, DifferenceOps

\* The codes of a difference order its operands, as naturals by the borrow and
\* as integers by the sign of the difference, corrected by its overflow.
LEMMA DifferenceOrders ==
    ASSUME NEW val1 \in Word, NEW val2 \in Word
    PROVE  LET diff == Cut(val1 - val2)
           IN  /\ diff = 0 <=> val1 = val2
               /\ Borrows(val1, val2, diff) <=> val1 < val2
               /\ ~(sign(diff) <=> DifferenceOverflows(val1, val2, diff))
                      <=> Signed(val1) < Signed(val2)
               /\ Signed(val1) = Signed(val2) <=> val1 = val2
  BY HalfAssumption DEF Borrows, DifferenceOverflows, Signed, sign, Cut, Word, Size

\* The table of conditions, those about order and carry.
LEMMA ConditionTable ==
    ASSUME NEW codes
    PROVE  /\ Tests(0, codes) = FALSE
           /\ Tests(1, codes) = codes.z
           /\ Tests(2, codes) = (codes.z \/ codes.n # codes.v)
           /\ Tests(3, codes) = (codes.n # codes.v)
           /\ Tests(4, codes) = (codes.c \/ codes.z)
           /\ Tests(5, codes) = codes.c
<1>1. /\ Tests(0, codes) = FALSE
      /\ Tests(1, codes) = codes.z
      /\ Tests(5, codes) = codes.c
  BY DEF Tests
<1>2. Tests(2, codes) = (codes.z \/ codes.n # codes.v)
  BY DEF Tests
<1>3. Tests(3, codes) = (codes.n # codes.v)
  BY DEF Tests
<1>4. Tests(4, codes) = (codes.c \/ codes.z)
  BY DEF Tests
<1>5. QED
  BY <1>1, <1>2, <1>3, <1>4

\* Conditions 8 to 13 are the opposites of 0 to 5.
LEMMA ConditionOpposites ==
    ASSUME NEW codes
    PROVE  /\ check_condition(0, codes) = Tests(0, codes) /\ check_condition(8, codes) = ~Tests(0, codes)
           /\ check_condition(1, codes) = Tests(1, codes) /\ check_condition(9, codes) = ~Tests(1, codes)
           /\ check_condition(2, codes) = Tests(2, codes) /\ check_condition(10, codes) = ~Tests(2, codes)
           /\ check_condition(3, codes) = Tests(3, codes) /\ check_condition(11, codes) = ~Tests(3, codes)
           /\ check_condition(4, codes) = Tests(4, codes) /\ check_condition(12, codes) = ~Tests(4, codes)
           /\ check_condition(5, codes) = Tests(5, codes) /\ check_condition(13, codes) = ~Tests(5, codes)
  BY DEF check_condition

\* After a subcc the conditions compare.
LEMMA CompareStep ==
    ASSUME NEW val1 \in Word, NEW val2 \in Word,
           Executes("subcc", val1, val2, Subtract("subcc", val1, val2, icc, y))
    PROVE  ConditionsCompare'
<1> DEFINE diff == Cut(val1 - val2)
           v == \/ DifferenceOverflows(val1, val2, diff)
                \/ "subcc" = "tsubcc" /\ Tagged(val1, val2)
           borrow == Borrows(val1, val2, diff)
           less == Signed(val1) < Signed(val2)
<1>1. last'.val1 = val1 /\ last'.val2 = val2
  BY DEF Executes
<1>2. val1 - val2 - 0 = val1 - val2
  BY DEF Word, Size
<1>3. icc' = Codes(diff, v, borrow)
  BY <1>2, Zenon DEF Executes, Subtract
<1>4. icc'.n = sign(diff) /\ icc'.z = (diff = 0) /\ icc'.v = v /\ icc'.c = borrow
  BY <1>3, Zenon DEF Codes
<1>5. /\ icc'.z <=> val1 = val2
      /\ icc'.c <=> val1 < val2
      /\ icc'.n # icc'.v <=> less
  <2>1. v <=> DifferenceOverflows(val1, val2, diff)
    OBVIOUS
  <2>2. v \in BOOLEAN /\ sign(diff) \in BOOLEAN
    <3>1. v \in BOOLEAN
      BY Zenon
    <3>2. sign(diff) \in BOOLEAN
      BY DEF sign
    <3>3. QED
      BY <3>1, <3>2
  <2>3. /\ diff = 0 <=> val1 = val2
        /\ borrow <=> val1 < val2
        /\ ~(sign(diff) <=> DifferenceOverflows(val1, val2, diff)) <=> less
    BY DifferenceOrders
  <2>4. QED
    BY <1>4, <2>1, <2>2, <2>3, Zenon
<1>6. /\ check_condition(0, icc') = FALSE /\ check_condition(8, icc') = TRUE
      /\ check_condition(1, icc') = icc'.z /\ check_condition(9, icc') = ~icc'.z
      /\ check_condition(2, icc') = (icc'.z \/ icc'.n # icc'.v)
      /\ check_condition(10, icc') = ~(icc'.z \/ icc'.n # icc'.v)
      /\ check_condition(3, icc') = (icc'.n # icc'.v)
      /\ check_condition(11, icc') = ~(icc'.n # icc'.v)
      /\ check_condition(4, icc') = (icc'.c \/ icc'.z)
      /\ check_condition(12, icc') = ~(icc'.c \/ icc'.z)
      /\ check_condition(5, icc') = icc'.c /\ check_condition(13, icc') = ~icc'.c
  BY ConditionTable, ConditionOpposites, Zenon
<1>7. /\ Signed(val1) \in Int /\ Signed(val2) \in Int /\ val1 \in Int /\ val2 \in Int
      /\ Signed(val1) = Signed(val2) <=> val1 = val2
  BY HalfAssumption, DifferenceOrders DEF Signed, Word, Size
<1>8. /\ less \/ val1 = val2 <=> Signed(val1) <= Signed(val2)
      /\ ~(less \/ val1 = val2) <=> Signed(val1) > Signed(val2)
      /\ ~less <=> Signed(val1) >= Signed(val2)
      /\ val1 < val2 \/ val1 = val2 <=> val1 <= val2
      /\ ~(val1 < val2 \/ val1 = val2) <=> val1 > val2
      /\ ~(val1 < val2) <=> val1 >= val2
  BY <1>7
<1>9. QED
  BY <1>1, <1>5, <1>6, <1>8, Zenon DEF ConditionsCompare

-----------------------------------------------------------------------------
(* Weights *)

\* Induction over a set of naturals.
LEMMA Induction ==
    ASSUME NEW S \in SUBSET Nat, 0 \in S, \A n \in S : n + 1 \in S
    PROVE  S = Nat
<1> DEFINE R == OpToRel(<, Nat)
           Missing == Nat \ S
<1>1. IsWellFoundedOn(R, Nat)
  BY NatLessThanWellFounded
<1>2. \A m, n \in Nat : m < n => <<m, n>> \in R
  BY DEF OpToRel
<1>3. Missing \subseteq Nat /\ (Missing = {} => S = Nat)
  OBVIOUS
<1>4. \A n \in Missing : n # 0 /\ n - 1 \in Missing
  <2> SUFFICES ASSUME NEW n \in Nat, n \notin S PROVE n # 0 /\ n - 1 \in Nat /\ n - 1 \notin S
    OBVIOUS
  <2>1. n # 0
    OBVIOUS
  <2>2. n - 1 \in Nat /\ (n - 1) + 1 = n
    BY <2>1
  <2>3. QED
    BY <2>1, <2>2
<1> HIDE DEF R, Missing
<1>5. SUFFICES ASSUME Missing # {} PROVE FALSE
  BY <1>3
<1>6. PICK n \in Missing : \A m \in Missing : ~ (<<m, n>> \in R)
  BY <1>1, <1>3, <1>5, WFMin, Zenon
<1>7. n - 1 \in Nat /\ n \in Nat /\ n - 1 < n
  BY <1>3, <1>4
<1>8. QED
  BY <1>2, <1>4, <1>6, <1>7

\* A function may be defined by its first value and each next one by the last.
Iterates(g, N, first, next) ==
    /\ g \in [0..N -> Nat]
    /\ \A i \in 0..N : g[i] = IF i = 0 THEN first ELSE next[<<i, g[i - 1]>>]

LEMMA Recursion ==
    ASSUME NEW first \in Nat, NEW next \in [Nat \X Nat -> Nat], NEW N \in Nat
    PROVE  \E g : Iterates(g, N, first, next)
<1> DEFINE Made(n, g) == /\ g \in [0..n -> Nat]
                         /\ \A i \in 0..n : g[i] = IF i = 0 THEN first ELSE next[<<i, g[i - 1]>>]
           Defined == {n \in Nat : \E g : Made(n, g)}
<1>1. 0 \in Defined
  <2>1. Made(0, [i \in 0..0 |-> first])
    OBVIOUS
  <2>2. QED
    BY <2>1
<1>2. ASSUME NEW n \in Defined PROVE n + 1 \in Defined
  <2>1. PICK g : Made(n, g)
    BY <1>2
  <2> DEFINE h == [i \in 0..(n + 1) |-> IF i = n + 1 THEN next[<<n + 1, g[n]>>] ELSE g[i]]
  <2>2. next[<<n + 1, g[n]>>] \in Nat
    BY <2>1
  <2>3. h \in [0..(n + 1) -> Nat]
    BY <2>1, <2>2
  <2>4. ASSUME NEW i \in 0..(n + 1)
        PROVE  h[i] = IF i = 0 THEN first ELSE next[<<i, h[i - 1]>>]
    <3>1. CASE i = n + 1
      <4>1. i # 0 /\ i - 1 = n /\ n \in 0..(n + 1) /\ n # n + 1
        BY <3>1
      <4>2. h[n] = g[n] /\ h[n + 1] = next[<<n + 1, g[n]>>]
        BY <4>1
      <4> HIDE DEF h
      <4>3. QED
        BY <3>1, <4>1, <4>2
    <3>2. CASE i # n + 1
      <4>1. i \in 0..n /\ (i # 0 => i - 1 \in 0..n)
        BY <3>2
      <4>2. h[i] = g[i] /\ (i # 0 => h[i - 1] = g[i - 1])
        BY <4>1
      <4>3. QED
        BY <2>1, <4>1, <4>2
    <3>3. QED
      BY <3>1, <3>2
  <2>5. Made(n + 1, h)
    BY <2>3, <2>4
  <2> HIDE DEF Made
  <2>6. QED
    BY <2>5
<1>3. Defined = Nat
  <2> HIDE DEF Defined
  <2>1. Defined \in SUBSET Nat
    BY DEF Defined
  <2>2. QED
    BY <1>1, <1>2, <2>1, Induction
<1>4. QED
  BY <1>3 DEF Iterates

LEMMA WeightDef ==
    /\ Weight \in [0..Width -> Nat]
    /\ Weight[0] = 1
    /\ \A i \in 1..Width : Weight[i] = 2 * Weight[i - 1]
<1> DEFINE next == [p \in Nat \X Nat |-> 2 * p[2]]
<1>1. Width \in Nat
  BY WidthAssumption
<1>2. 1 \in Nat /\ next \in [Nat \X Nat -> Nat] /\ \A i, n \in Nat : next[<<i, n>>] = 2 * n
  OBVIOUS
<1> HIDE DEF next
<1>3. PICK g \in [0..Width -> Nat] :
          \A i \in 0..Width : g[i] = IF i = 0 THEN 1 ELSE next[<<i, g[i - 1]>>]
  <2>1. PICK one \in Nat : one = 1
    OBVIOUS
  <2>2. PICK g : Iterates(g, Width, one, next)
    BY <1>1, <1>2, <2>1, Recursion
  <2>3. /\ g \in [0..Width -> Nat]
        /\ \A i \in 0..Width : g[i] = IF i = 0 THEN 1 ELSE next[<<i, g[i - 1]>>]
    BY <2>1, <2>2 DEF Iterates
  <2>4. QED
    BY <2>3, Zenon
<1>4. ASSUME NEW i \in 0..Width PROVE g[i] = IF i = 0 THEN 1 ELSE 2 * g[i - 1]
  <2>1. i # 0 => i - 1 \in 0..Width
    BY <1>1
  <2>2. i # 0 => i \in Nat /\ g[i - 1] \in Nat
    BY <2>1
  <2>3. i # 0 => next[<<i, g[i - 1]>>] = 2 * g[i - 1]
    BY <1>2, <2>2
  <2>4. QED
    BY <1>3, <2>3
<1>5. g = [i \in 0..Width |-> IF i = 0 THEN 1 ELSE 2 * g[i - 1]]
  BY <1>4
<1>6. Weight = [i \in 0..Width |-> IF i = 0 THEN 1 ELSE 2 * Weight[i - 1]]
  BY <1>5 DEF Weight
<1>7. \A i \in 0..Width : Weight[i] = g[i]
  <2> DEFINE Same == {i \in Nat : i \in 0..Width => Weight[i] = g[i]}
  <2>1. 0 \in Same
    BY <1>1, <1>4, <1>6
  <2>2. ASSUME NEW i \in Same PROVE i + 1 \in Same
    <3>1. i + 1 \in 0..Width => i \in 0..Width /\ i + 1 # 0 /\ (i + 1) - 1 = i
      BY <1>1
    <3>2. i + 1 \in 0..Width => Weight[i + 1] = 2 * Weight[i]
      BY <1>6, <3>1
    <3>3. i + 1 \in 0..Width => g[i + 1] = 2 * g[i]
      BY <1>4, <3>1
    <3>4. QED
      BY <3>1, <3>2, <3>3
  <2>3. Same = Nat
    <3> HIDE DEF Same
    <3>1. Same \in SUBSET Nat
      BY DEF Same
    <3>2. QED
      BY <2>1, <2>2, <3>1, Induction
  <2>4. QED
    BY <2>3
<1>8. QED
  <2>1. Weight \in [0..Width -> Nat]
    BY <1>6, <1>7
  <2>2. \A i \in 0..Width : Weight[i] = IF i = 0 THEN 1 ELSE 2 * Weight[i - 1]
    BY <1>6
  <2>3. \A i \in 1..Width : i \in 0..Width /\ i # 0
    BY <1>1
  <2>4. 0 \in 0..Width
    BY <1>1
  <2>5. QED
    BY <2>1, <2>2, <2>3, <2>4

\* Weights are positive, and twice that of the sign bit is Size.
LEMMA WeightFacts ==
    /\ Width \in Nat /\ Width >= 1
    /\ \A i \in 0..Width : Weight[i] \in Nat \ {0}
    /\ Weight[0] = 1 /\ Weight[Width - 1] = Half /\ Weight[Width] = Size
    /\ \A i \in 0..(Width - 1) : Weight[i + 1] = 2 * Weight[i]
<1>1. Width \in Nat /\ Width >= 1 /\ Weight[Width - 1] = Half
  BY WidthAssumption
<1>2. ASSUME NEW i \in 0..(Width - 1) PROVE Weight[i + 1] = 2 * Weight[i]
  BY <1>1, WeightDef
<1> DEFINE Positive == {i \in Nat : i \in 0..Width => Weight[i] \in Nat \ {0}}
<1>3. 0 \in Positive
  BY WeightDef
<1>4. ASSUME NEW i \in Positive PROVE i + 1 \in Positive
  <2>1. i + 1 \in 0..Width => i \in 0..(Width - 1) /\ i \in 0..Width
    BY <1>1
  <2>2. QED
    BY <1>2, <2>1
<1>5. Positive = Nat
  <2> HIDE DEF Positive
  <2>1. Positive \in SUBSET Nat
    BY DEF Positive
  <2>2. QED
    BY <1>3, <1>4, <2>1, Induction
<1>6. Weight[Width] = Size
  BY <1>1, <1>2, HalfAssumption DEF Size
<1>7. \A i \in 0..Width : Weight[i] \in Nat \ {0}
  BY <1>5
<1>8. QED
  BY <1>1, <1>2, <1>6, <1>7, WeightDef

-----------------------------------------------------------------------------
(* Bits and the y register *)

\* A sum of weights of a word's bits is a word, and that of none is zero.
LEMMA OfBitsIsWord ==
    ASSUME NEW s
    PROVE  OfBits(s) \in Word /\ OfBits({}) = 0
<1> DEFINE Below(t, g) ==
               g = [n \in 0..Width |->
                       IF n = 0 THEN 0 ELSE g[n - 1] + IF n - 1 \in t THEN Weight[n - 1] ELSE 0]
<1>1. ASSUME NEW t PROVE OfBits(t) \in Word /\ (t = {} => OfBits(t) = 0)
  <2> DEFINE weight(n) == IF n - 1 \in t THEN Weight[n - 1] ELSE 0
             next == [p \in Nat \X Nat |-> p[2] + IF p[1] \in 1..Width THEN weight(p[1]) ELSE 0]
             below == CHOOSE g : Below(t, g)
  <2>1. \A n \in 1..Width : weight(n) \in Nat
    BY WeightFacts
  <2>2. next \in [Nat \X Nat -> Nat]
    BY <2>1
  <2>3. \A n \in 1..Width, v \in Nat : next[<<n, v>>] = v + weight(n)
    OBVIOUS
  <2> HIDE DEF next
  <2>4. PICK g \in [0..Width -> Nat] :
            \A i \in 0..Width : g[i] = IF i = 0 THEN 0 ELSE next[<<i, g[i - 1]>>]
    <3>1. PICK zero \in Nat : zero = 0 /\ Width \in Nat
      BY WeightFacts
    <3>2. PICK g : Iterates(g, Width, zero, next)
      BY <2>2, <3>1, Recursion
    <3>3. /\ g \in [0..Width -> Nat]
          /\ \A i \in 0..Width : g[i] = IF i = 0 THEN 0 ELSE next[<<i, g[i - 1]>>]
      BY <3>1, <3>2 DEF Iterates
    <3>4. QED
      BY <3>3, Zenon
  <2>5. ASSUME NEW i \in 0..Width PROVE g[i] = IF i = 0 THEN 0 ELSE g[i - 1] + weight(i)
    <3>1. i # 0 => i \in 1..Width /\ i - 1 \in 0..Width
      BY WeightFacts
    <3>2. i # 0 => g[i - 1] \in Nat
      BY <3>1
    <3> HIDE DEF weight
    <3>3. i # 0 => next[<<i, g[i - 1]>>] = g[i - 1] + weight(i)
      BY <2>3, <3>1, <3>2
    <3>4. QED
      BY <2>4, <3>3
  <2>6. Below(t, g)
    BY <2>4, <2>5
  <2>7. Below(t, below)
    <3> HIDE DEF Below
    <3>1. QED
      BY <2>6
  <2>8. OfBits(t) = below[Width]
    BY DEF OfBits
  <2> HIDE DEF below
  <2>9. \A n \in 0..Width :
            below[n] = IF n = 0 THEN 0 ELSE below[n - 1] + weight(n)
    BY <2>7
  <2> DEFINE Bounded == {n \in Nat : n \in 0..Width =>
                            below[n] \in 0..(Weight[n] - 1) /\ (t = {} => below[n] = 0)}
  <2>10. 0 \in Bounded
    BY <2>9, WeightFacts
  <2>11. ASSUME NEW n \in Bounded PROVE n + 1 \in Bounded
    <3>1. SUFFICES ASSUME n + 1 \in 0..Width
                   PROVE  below[n + 1] \in 0..(Weight[n + 1] - 1) /\ (t = {} => below[n + 1] = 0)
      OBVIOUS
    <3>2. n \in 0..(Width - 1) /\ n \in 0..Width /\ n + 1 # 0 /\ (n + 1) - 1 = n
      BY <3>1, WeightFacts
    <3>3. below[n + 1] = below[n] + IF n \in t THEN Weight[n] ELSE 0
      BY <2>9, <3>1, <3>2
    <3>4. Weight[n + 1] = 2 * Weight[n] /\ Weight[n] \in Nat
      BY <3>2, WeightFacts
    <3>5. below[n] \in 0..(Weight[n] - 1) /\ (t = {} => below[n] = 0)
      BY <3>2
    <3>6. QED
      BY <3>3, <3>4, <3>5
  <2>12. Bounded = Nat
    <3> HIDE DEF Bounded
    <3>1. Bounded \in SUBSET Nat
      BY DEF Bounded
    <3>2. QED
      BY <2>10, <2>11, <3>1, Induction
  <2>13. below[Width] \in 0..(Size - 1) /\ (t = {} => below[Width] = 0)
    <3>1. Width \in Nat /\ Width <= Width /\ Weight[Width] = Size
      BY WeightFacts
    <3>2. Width \in Bounded
      BY <2>12, <3>1
    <3>3. below[Width] \in 0..(Weight[Width] - 1) /\ (t = {} => below[Width] = 0)
      BY <3>1, <3>2
    <3>4. QED
      BY <3>1, <3>3
  <2>14. QED
    BY <2>8, <2>13 DEF Word
<1>2. QED
  BY <1>1

LEMMA ProductIsInt == ASSUME NEW p \in Int, NEW q \in Int PROVE p * q \in Int
  OBVIOUS

\* A product, a step of one and what is written keep y a word.
LEMMA WordOfProduct ==
    ASSUME NEW p \in Int
    PROVE  p % Size \in Word /\ (p \div Size) % Size \in Word
  BY HalfAssumption DEF Word, Size

LEMMA HalvedIsWord ==
    ASSUME NEW x \in Word
    PROVE  x \div 2 \in 0..(Half - 1) /\ (x \div 2) + Half \in Word /\ x \div 2 \in Word
  BY HalfAssumption DEF Word, Size

-----------------------------------------------------------------------------
(* Quotients *)

Absolute(n) == IF n < 0 THEN -n ELSE n
IsQuotient(n, d, q) ==
    /\ (n - q * d) * n >= 0
    /\ (n - q * d) * (n - q * d) < d * d

\* The quotient and the remainder of naturals.
LEMMA NaturalQuotient ==
    ASSUME NEW n \in Nat, NEW d \in Nat \ {0}
    PROVE  /\ n \div d \in Nat
           /\ (n \div d) * d <= n
           /\ n < (n \div d + 1) * d
           /\ n - (n \div d) * d \in 0..(d - 1)
  OBVIOUS

LEMMA ProductOrder ==
    ASSUME NEW a1 \in Int, NEW b1 \in Int, NEW d \in Nat \ {0}
    PROVE  /\ a1 * d < b1 * d <=> a1 < b1
           /\ a1 >= 0 => a1 * d >= 0
           /\ (a1 + 1) * d = a1 * d + d
  OBVIOUS

LEMMA SquareOrder ==
    ASSUME NEW r1 \in Int, NEW d \in Int
    PROVE  r1 * r1 < d * d <=> Absolute(r1) < Absolute(d)
<1> DEFINE p == Absolute(r1)
           q == Absolute(d)
<1>1. p \in Nat /\ q \in Nat /\ p * p = r1 * r1 /\ q * q = d * d
  BY DEF Absolute
<1> HIDE DEF p, q
<1>2. p < q => p * p < q * q
  BY <1>1
<1>3. p >= q => p * p >= q * q
  BY <1>1
<1>4. QED
  BY <1>1, <1>2, <1>3 DEF p, q

LEMMA SignRule ==
    ASSUME NEW m \in Int, NEW n \in Int
    PROVE  m * n >= 0 <=> (n = 0 \/ m = 0 \/ (m > 0 /\ n > 0) \/ (m < 0 /\ n < 0))
  OBVIOUS

\* C's quotient, and none but it, is one rounded towards zero.
LEMMA TruncatedIsQuotient ==
    ASSUME NEW n \in Int, NEW d \in Int, d # 0
    PROVE  /\ Truncated(n, d) \in Int
           /\ (n < 0) = (d < 0) => Truncated(n, d) >= 0
           /\ (n < 0) # (d < 0) => Truncated(n, d) <= 0
           /\ \A q \in Int : IsQuotient(n, d, q) <=> q = Truncated(n, d)
<1> DEFINE A == Absolute(n)
           D == Absolute(d)
           q0 == A \div D
           rem == A - q0 * D
<1>1. A \in Nat /\ D \in Nat \ {0}
  BY DEF Absolute
<1>2. q0 \in Nat /\ rem \in 0..(D - 1)
  BY <1>1, NaturalQuotient
<1>3. Truncated(n, d) = IF (n < 0) = (d < 0) THEN q0 ELSE -q0
  BY DEF Truncated, Absolute
<1> HIDE DEF q0
<1>4. ASSUME NEW q \in Int
      PROVE  IsQuotient(n, d, q) <=> (IF (n < 0) = (d < 0) THEN q ELSE -q) = q0
  <2> DEFINE x == IF (n < 0) = (d < 0) THEN q ELSE -q
             e == n - q * d
             t == A - x * D
  <2>1. x \in Int /\ e \in Int /\ t \in Int /\ Absolute(e) = Absolute(t)
    BY DEF Absolute
  <2>2. e * n = t * A
    BY DEF Absolute
  <2>3. IsQuotient(n, d, q) <=> t * A >= 0 /\ Absolute(t) < D
    BY <2>1, <2>2, SquareOrder DEF IsQuotient
  <2> HIDE DEF A, D, e
  <2>4. t = rem + (q0 - x) * D
    BY <1>1, <1>2, <2>1
  <2>5. x = q0 => t * A >= 0 /\ Absolute(t) < D
    <3>1. x = q0 => t = rem
      BY <1>1, <1>2, <2>1
    <3>2. rem * A >= 0
      BY <1>1, <1>2
    <3>3. QED
      BY <1>1, <1>2, <3>1, <3>2 DEF Absolute
  <2>6. t * A >= 0 /\ Absolute(t) < D => x = q0
    <3> SUFFICES ASSUME t * A >= 0, Absolute(t) < D PROVE x = q0
      OBVIOUS
    <3>1. CASE A = 0
      <4>1. q0 * D = 0
        BY <1>1, <1>2, <3>1
      <4>2. -D < t /\ t < D /\ t = -(x * D)
        BY <1>1, <2>1, <3>1 DEF Absolute
      <4>3. x * D < 1 * D /\ (-1) * D < x * D
        BY <1>1, <2>1, <4>2
      <4>4. x = 0
        BY <1>1, <2>1, <4>3, ProductOrder
      <4>5. q0 = 0
        BY <1>1, <1>2, <4>1, ProductOrder
      <4>6. QED
        BY <4>4, <4>5
    <3>2. CASE A # 0
      <4>1. t \in 0..(D - 1)
        BY <1>1, <2>1, <3>2, SignRule DEF Absolute
      <4>2. (q0 - x) * D < 1 * D /\ (-1) * D < (q0 - x) * D
        BY <1>1, <1>2, <2>1, <2>4, <4>1
      <4>3. q0 - x < 1 /\ -1 < q0 - x
        BY <1>1, <1>2, <2>1, <4>2, ProductOrder
      <4>4. QED
        BY <1>2, <2>1, <4>3
    <3>3. QED
      BY <3>1, <3>2
  <2>7. QED
    BY <2>3, <2>5, <2>6
<1>5. QED
  BY <1>2, <1>3, <1>4

\* What udiv and udivcc leave in rd and in the condition codes.
LEMMA UnsignedQuotientStep ==
    ASSUME NEW val1 \in Word, NEW val2 \in Word, val2 # 0, NEW cc \in BOOLEAN, y \in Word,
           Executes(IF cc THEN "udivcc" ELSE "udiv", val1, val2,
                    DivideUnsigned(cc, val1, val2, icc, y))
    PROVE  QuotientsAreExact'
<1> DEFINE dividend == y * Size + val1
           quotient == dividend \div val2
           overflow == quotient >= Size
           result == IF overflow THEN Size - 1 ELSE quotient
           new == DivideUnsigned(cc, val1, val2, icc, y)
<1>1. /\ last'.op = IF cc THEN "udivcc" ELSE "udiv"
      /\ last'.val1 = val1 /\ last'.val2 = val2 /\ last'.rd = new.rd /\ last'.y = y
      /\ icc' = new.icc
  BY DEF Executes
<1>2. new.rd = result /\ (cc => new.icc = Codes(result, overflow, FALSE))
  BY Zenon DEF DivideUnsigned
<1>3. cc => icc'.v = overflow
  <2>1. Codes(result, overflow, FALSE).v = overflow
    BY Zenon DEF Codes
  <2> HIDE DEF result, overflow, new
  <2>2. QED
    BY <1>1, <1>2, <2>1, Zenon
<1>4. dividend \in Nat /\ val2 \in Nat \ {0} /\ Size \in Nat
  BY HalfAssumption DEF Word, Size
<1> HIDE DEF dividend
<1>5. /\ quotient \in Nat
      /\ quotient * val2 <= dividend
      /\ dividend < (quotient + 1) * val2
  BY <1>4, NaturalQuotient
<1> HIDE DEF quotient
<1>6. overflow <=> ~(dividend < val2 * Size)
  <2>1. overflow => dividend >= Size * val2
    <3>1. overflow => quotient * val2 >= Size * val2
      BY <1>4, <1>5
    <3>2. Size * val2 \in Nat /\ quotient * val2 \in Nat
      BY <1>4, <1>5
    <3>3. QED
      BY <1>4, <1>5, <3>1, <3>2
  <2>2. ~overflow => dividend < Size * val2
    <3>1. ~overflow => (quotient + 1) * val2 <= Size * val2
      BY <1>4, <1>5
    <3>2. Size * val2 \in Nat /\ (quotient + 1) * val2 \in Nat
      BY <1>4, <1>5
    <3>3. QED
      BY <1>4, <1>5, <3>1, <3>2
  <2>3. Size * val2 = val2 * Size /\ Size * val2 \in Nat
    BY <1>4
  <2>4. QED
    BY <1>4, <2>1, <2>2, <2>3
<1>7. ~overflow => result * val2 <= dividend /\ dividend < (result + 1) * val2
  BY <1>5
<1>8. overflow => result = Size - 1
  OBVIOUS
<1> HIDE DEF overflow, result, new
<1>9. (IF cc THEN "udivcc" ELSE "udiv") \notin {"sdiv", "sdivcc"}
      /\ ((IF cc THEN "udivcc" ELSE "udiv") \in {"udivcc"} => cc)
  OBVIOUS
<1>10. last'.rd = result
  BY <1>1, <1>2, Zenon
<1>11. last'.y * Size + last'.val1 = dividend
  BY <1>1, Zenon DEF dividend
<1>12. QED
  BY <1>1, <1>3, <1>6, <1>7, <1>8, <1>9, <1>10, <1>11, Zenon DEF QuotientsAreExact, IsOne

\* The word that stands for an integer of a word's range.
LEMMA SignedOfCut ==
    ASSUME NEW q \in SignedRange
    PROVE  Signed(q % Size) = q
<1>1. q >= 0 => q % Size = q
  BY HalfAssumption DEF SignedRange, Size
<1>2. q < 0 => q % Size = q + Size
  BY HalfAssumption DEF SignedRange, Size
<1>3. QED
  BY <1>1, <1>2, HalfAssumption DEF SignedRange, Signed, sign, Size

\* sdiv gives the quotient if a word can hold it, and the word nearest to it.
LEMMA DivideSignedFacts ==
    ASSUME NEW val1 \in Word, NEW val2 \in Word, val2 # 0, NEW cc \in BOOLEAN, y \in Word
    PROVE  LET dividend == Signed(y) * Size + val1
               divisor == Signed(val2)
               new == DivideSigned(cc, val1, val2, icc, y)
               fits == \E q \in SignedRange : IsQuotient(dividend, divisor, q)
           IN  /\ fits => IsQuotient(dividend, divisor, Signed(new.rd))
               /\ ~fits => Signed(new.rd) =
                              IF (dividend < 0) = (divisor < 0) THEN Half - 1 ELSE -Half
               /\ cc => (new.icc.v <=> ~fits)
<1> DEFINE dividend == Signed(y) * Size + val1
           divisor == Signed(val2)
           new == DivideSigned(cc, val1, val2, icc, y)
           fits == \E q \in SignedRange : IsQuotient(dividend, divisor, q)
           smallest == -(Half * Size)
           doubleOverflow == dividend = smallest /\ divisor = -1
           exact == Truncated(dividend, divisor)
           quotient == IF doubleOverflow THEN -smallest - 1 ELSE exact
           overflow == doubleOverflow \/ quotient < -Half \/ quotient > Half - 1
           result == CASE ~overflow                -> quotient % Size
                       [] overflow /\ quotient < 0 -> Half
                       [] OTHER                    -> Half - 1
<1>1. new.rd = result /\ (cc => new.icc = Codes(result, overflow, FALSE))
  BY Zenon DEF DivideSigned
<1>2. cc => new.icc.v = overflow
  <2>1. Codes(result, overflow, FALSE).v = overflow
    BY Zenon DEF Codes
  <2> HIDE DEF result, overflow, new
  <2>2. QED
    BY <1>1, <2>1, Zenon
<1>3. /\ dividend \in Int /\ divisor \in Int /\ divisor # 0
      /\ Half \in Nat /\ Half > 0 /\ Size \in Nat /\ Size = 2 * Half /\ smallest \in Int
  BY HalfAssumption DEF Word, Signed, sign, Size
<1> HIDE DEF dividend, divisor
<1>4. /\ exact \in Int
      /\ (dividend < 0) = (divisor < 0) => exact >= 0
      /\ (dividend < 0) # (divisor < 0) => exact <= 0
      /\ \A q \in Int : IsQuotient(dividend, divisor, q) <=> q = exact
  BY <1>3, TruncatedIsQuotient
<1>5. doubleOverflow => exact = Half * Size /\ (dividend < 0) = (divisor < 0)
  <2> SUFFICES ASSUME doubleOverflow PROVE exact = Half * Size /\ (dividend < 0) = (divisor < 0)
    OBVIOUS
  <2>1. Half * Size \in Nat /\ Half * Size > 0
    BY <1>3
  <2>2. dividend < 0 /\ divisor < 0 /\ -dividend = Half * Size /\ -divisor = 1
    <3> DEFINE p == Half * Size
    <3>1. dividend = -p /\ divisor = -1
      OBVIOUS
    <3>2. p \in Nat /\ p > 0
      BY <2>1
    <3> HIDE DEF p, doubleOverflow
    <3>3. divisor < 0 /\ -divisor = 1
      <4>1. divisor \in Int /\ divisor + 1 = 0
        BY <3>1
      <4>2. QED
        BY ONLY <4>1
    <3>4. -dividend = p
      BY <3>1, <3>2
    <3>5. dividend < 0
      BY <3>1, <3>2
    <3>6. QED
      BY <3>3, <3>4, <3>5 DEF p
  <2>3. exact = (Half * Size) \div 1
    BY <2>2 DEF Truncated
  <2>4. QED
    BY <2>1, <2>2, <2>3
<1>6. doubleOverflow => Half * Size > Half - 1 /\ Half * Size - 1 > Half - 1
  BY <1>3
<1> HIDE DEF exact
<1>7. overflow <=> exact \notin SignedRange
  BY <1>3, <1>4, <1>5, <1>6 DEF SignedRange
<1>8. fits <=> exact \in SignedRange
  BY <1>3, <1>4 DEF SignedRange
<1>9. fits => Signed(result) = exact
  BY <1>7, <1>8, SignedOfCut
<1>10. ~fits => Signed(result) = IF (dividend < 0) = (divisor < 0) THEN Half - 1 ELSE -Half
  <2> SUFFICES ASSUME ~fits
               PROVE  Signed(result) = IF (dividend < 0) = (divisor < 0) THEN Half - 1 ELSE -Half
    OBVIOUS
  <2>1. overflow
    BY <1>7, <1>8
  <2>2. Signed(Half) = -Half /\ Signed(Half - 1) = Half - 1
    BY <1>3 DEF Signed, sign
  <2>3. CASE quotient < 0
    <3>1. (dividend < 0) # (divisor < 0)
      BY <1>3, <1>4, <1>5, <1>6, <2>3
    <3>2. QED
      BY <2>1, <2>2, <2>3, <3>1
  <2>4. CASE ~(quotient < 0)
    <3>1. quotient > Half - 1
      BY <1>3, <1>4, <1>5, <1>6, <2>1, <2>4
    <3>2. (dividend < 0) = (divisor < 0)
      BY <1>3, <1>4, <1>5, <3>1
    <3>3. QED
      BY <2>1, <2>2, <2>4, <3>2
  <2>5. QED
    BY <2>3, <2>4
<1> HIDE DEF fits, overflow, result, new
<1>11. fits => IsQuotient(dividend, divisor, Signed(result))
  BY <1>4, <1>9
<1>12. QED
  BY <1>1, <1>2, <1>7, <1>8, <1>10, <1>11 DEF fits, dividend, divisor, new

\* What sdiv and sdivcc leave in rd and in the condition codes.
LEMMA SignedQuotientStep ==
    ASSUME NEW val1 \in Word, NEW val2 \in Word, val2 # 0, NEW cc \in BOOLEAN, y \in Word,
           Executes(IF cc THEN "sdivcc" ELSE "sdiv", val1, val2,
                    DivideSigned(cc, val1, val2, icc, y))
    PROVE  QuotientsAreExact'
<1> DEFINE dividend == Signed(y) * Size + val1
           divisor == Signed(val2)
           new == DivideSigned(cc, val1, val2, icc, y)
           fits == \E q \in SignedRange : IsQuotient(dividend, divisor, q)
<1>1. /\ last'.op = IF cc THEN "sdivcc" ELSE "sdiv"
      /\ last'.val1 = val1 /\ last'.val2 = val2 /\ last'.rd = new.rd /\ last'.y = y
      /\ icc' = new.icc
  BY DEF Executes
<1>2. /\ fits => IsQuotient(dividend, divisor, Signed(new.rd))
      /\ ~fits => Signed(new.rd) =
                     IF (dividend < 0) = (divisor < 0) THEN Half - 1 ELSE -Half
      /\ cc => (new.icc.v <=> ~fits)
  BY DivideSignedFacts
<1>3. (IF cc THEN "sdivcc" ELSE "sdiv") \notin {"udiv", "udivcc"}
      /\ ((IF cc THEN "sdivcc" ELSE "sdiv") \in {"sdivcc"} => cc)
  OBVIOUS
<1> HIDE DEF new
<1>4. QED
  BY <1>1, <1>2, <1>3, Zenon DEF QuotientsAreExact, IsOne, IsQuotient

-----------------------------------------------------------------------------
(* One instruction after another *)

\* y is a word, whatever writes it.
LEMMA YIsWord == y \in Word /\ [Next]_vars => y' \in Word
<1> SUFFICES ASSUME y \in Word, [Next]_vars PROVE y' \in Word
  OBVIOUS
<1>1. ASSUME NEW val1 \in Word, NEW val2 \in Word,
             \/ Sums(val1, val2)
             \/ Differences(val1, val2)
             \/ TaggedSum(val1, val2)
             \/ TaggedDifference(val1, val2)
             \/ Bitwises(val1, val2)
             \/ Shifts(val1, val2)
             \/ UnsignedQuotients(val1, val2)
             \/ SignedQuotients(val1, val2)
      PROVE  y' = y
  BY <1>1 DEF Sums, Differences, TaggedSum, TaggedDifference, Bitwises, Shifts,
              UnsignedQuotients, SignedQuotients, Executes, Add, Subtract, Bitwise, Shift,
              DivideUnsigned, DivideSigned
<1>2. ASSUME NEW val1 \in Word, NEW val2 \in Word, Products(val1, val2) PROVE y' \in Word
  <2>1. PICK op1 \in {"umul", "smul"}, cc \in BOOLEAN :
            Executes(op1, val1, val2, Multiply(op1, cc, val1, val2, icc, y))
    BY <1>2 DEF Products
  <2> DEFINE product == IF op1 = "umul" THEN val1 * val2 ELSE Signed(val1) * Signed(val2)
  <2>2. y' = (product \div Size) % Size
    BY <2>1 DEF Executes, Multiply
  <2>3. val1 \in Int /\ val2 \in Int /\ Signed(val1) \in Int /\ Signed(val2) \in Int
    BY HalfAssumption DEF Word, Size, Signed
  <2>4. product \in Int
    BY <2>3, ProductIsInt
  <2> HIDE DEF product
  <2>5. QED
    BY <2>2, <2>4, WordOfProduct
<1>3. ASSUME NEW val1 \in Word, NEW val2 \in Word, MulSteps(val1, val2) PROVE y' \in Word
  <2>1. y' = (y \div 2) + IF val1 % 2 = 1 THEN Half ELSE 0
    BY <1>3 DEF MulSteps, Executes, MulStep
  <2>2. (y \div 2) + Half \in Word /\ (y \div 2) + 0 \in Word
    BY HalvedIsWord, HalfAssumption DEF Word, Size
  <2>3. QED
    BY <2>1, <2>2
<1>4. ASSUME NEW val1 \in Word, NEW val2 \in Word, WriteY(val1, val2) PROVE y' \in Word
  BY <1>4, OfBitsIsWord DEF WriteY
<1>5. ASSUME NEW val1 \in Word, NEW val2 \in Word,
             TaggedOverflow(val1, val2) \/ DivisionByZero(val1, val2)
      PROVE  y' = y
  BY <1>5 DEF TaggedOverflow, DivisionByZero, vars
<1>6. Retire \/ UNCHANGED vars => y' = y
  BY DEF Retire, vars
<1>7. QED
  BY <1>1, <1>2, <1>3, <1>4, <1>5, <1>6 DEF Next, Instruction

Exact == SumsAreExact /\ DifferencesAreExact /\ ConditionsCompare /\ QuotientsAreExact
QuotientOps == {"udiv", "udivcc", "sdiv", "sdivcc"}

\* The four properties speak of sums, differences and quotients only.
LEMMA OtherInstruction ==
    ASSUME last'.op \notin SumOps, last'.op \notin DifferenceOps, last'.op \notin QuotientOps
    PROVE  Exact'
<1>1. SumsAreExact' /\ DifferencesAreExact' /\ ConditionsCompare'
  BY DEF SumsAreExact, DifferencesAreExact, ConditionsCompare, IsOne, SumOps, DifferenceOps
<1>2. QuotientsAreExact'
  BY DEF QuotientsAreExact, IsOne, QuotientOps
<1>3. QED
  BY <1>1, <1>2 DEF Exact

LEMMA SameInstruction ==
    ASSUME Exact, UNCHANGED <<icc, last>>
    PROVE  Exact'
<1>1. SumsAreExact' /\ DifferencesAreExact' /\ ConditionsCompare'
  BY DEF Exact, SumsAreExact, DifferencesAreExact, ConditionsCompare, IsOne, CarryIn
<1>2. QuotientsAreExact'
  BY DEF Exact, QuotientsAreExact, IsOne
<1>3. QED
  BY <1>1, <1>2 DEF Exact

LEMMA SumInstruction ==
    ASSUME NEW val1 \in Word, NEW val2 \in Word, NEW op1 \in SumOps,
           Executes(op1, val1, val2, Add(op1, val1, val2, icc, y))
    PROVE  Exact'
<1>1. last'.op = op1
  BY DEF Executes
<1>2. last'.op \notin DifferenceOps /\ last'.op \notin QuotientOps
  BY <1>1 DEF SumOps, DifferenceOps, QuotientOps
<1>3. DifferencesAreExact' /\ ConditionsCompare'
  BY <1>2 DEF DifferencesAreExact, ConditionsCompare, IsOne, DifferenceOps
<1>4. QuotientsAreExact'
  BY <1>2 DEF QuotientsAreExact, IsOne, QuotientOps
<1>5. QED
  BY <1>3, <1>4, AddStep DEF Exact

LEMMA DifferenceInstruction ==
    ASSUME NEW val1 \in Word, NEW val2 \in Word, NEW op1 \in DifferenceOps,
           Executes(op1, val1, val2, Subtract(op1, val1, val2, icc, y))
    PROVE  Exact'
<1>1. last'.op = op1
  BY DEF Executes
<1>2. last'.op \notin SumOps /\ last'.op \notin QuotientOps
  BY <1>1 DEF SumOps, DifferenceOps, QuotientOps
<1>3. SumsAreExact'
  BY <1>2 DEF SumsAreExact, IsOne, SumOps
<1>4. ConditionsCompare'
  <2>1. CASE op1 = "subcc"
    BY <2>1, CompareStep
  <2>2. CASE op1 # "subcc"
    BY <1>1, <2>2 DEF ConditionsCompare, IsOne
  <2>3. QED
    BY <2>1, <2>2
<1>5. QuotientsAreExact'
  BY <1>2 DEF QuotientsAreExact, IsOne, QuotientOps
<1>6. QED
  BY <1>3, <1>4, <1>5, SubtractStep DEF Exact

LEMMA QuotientInstruction ==
    ASSUME NEW val1 \in Word, NEW val2 \in Word, y \in Word,
           UnsignedQuotients(val1, val2) \/ SignedQuotients(val1, val2)
    PROVE  Exact'
<1>1. QuotientsAreExact'
  <2>1. CASE UnsignedQuotients(val1, val2)
    <3>1. PICK cc \in BOOLEAN : Executes(IF cc THEN "udivcc" ELSE "udiv", val1, val2,
                                         DivideUnsigned(cc, val1, val2, icc, y))
      BY <2>1 DEF UnsignedQuotients
    <3>2. val2 # 0
      BY <2>1 DEF UnsignedQuotients
    <3>3. QED
      BY <3>1, <3>2, UnsignedQuotientStep
  <2>2. CASE SignedQuotients(val1, val2)
    <3>1. PICK cc \in BOOLEAN : Executes(IF cc THEN "sdivcc" ELSE "sdiv", val1, val2,
                                         DivideSigned(cc, val1, val2, icc, y))
      BY <2>2 DEF SignedQuotients
    <3>2. val2 # 0
      BY <2>2 DEF SignedQuotients
    <3>3. QED
      BY <3>1, <3>2, SignedQuotientStep
  <2>3. QED
    BY <2>1, <2>2
<1>2. last'.op \in QuotientOps
  BY DEF UnsignedQuotients, SignedQuotients, Executes, QuotientOps
<1>3. last'.op \notin SumOps /\ last'.op \notin DifferenceOps
  BY <1>2 DEF SumOps, DifferenceOps, QuotientOps
<1>4. SumsAreExact' /\ DifferencesAreExact' /\ ConditionsCompare'
  BY <1>3 DEF SumsAreExact, DifferencesAreExact, ConditionsCompare, IsOne, SumOps, DifferenceOps
<1>5. QED
  BY <1>1, <1>4 DEF Exact

LEMMA NextExact == y \in Word /\ Exact /\ [Next]_vars => Exact'
<1> SUFFICES ASSUME y \in Word, Exact, [Next]_vars PROVE Exact'
  OBVIOUS
<1>1. ASSUME NEW val1 \in Word, NEW val2 \in Word, Sums(val1, val2) PROVE Exact'
  BY <1>1, SumInstruction DEF Sums, SumOps
<1>2. ASSUME NEW val1 \in Word, NEW val2 \in Word, Differences(val1, val2) PROVE Exact'
  BY <1>2, DifferenceInstruction DEF Differences, DifferenceOps
<1>3. ASSUME NEW val1 \in Word, NEW val2 \in Word, TaggedSum(val1, val2) PROVE Exact'
  BY <1>3, SumInstruction DEF TaggedSum, SumOps
<1>4. ASSUME NEW val1 \in Word, NEW val2 \in Word, TaggedDifference(val1, val2)
      PROVE  Exact'
  BY <1>4, DifferenceInstruction DEF TaggedDifference, DifferenceOps
<1>5. ASSUME NEW val1 \in Word, NEW val2 \in Word,
             \/ Bitwises(val1, val2)
             \/ Shifts(val1, val2)
             \/ Products(val1, val2)
             \/ MulSteps(val1, val2)
      PROVE  Exact'
  <2>1. last'.op \in {"and", "or", "xor", "andn", "orn", "xnor", "sll", "srl", "sra",
                      "umul", "smul", "mulscc"}
    BY <1>5 DEF Bitwises, Shifts, Products, MulSteps, Executes
  <2>2. QED
    BY <2>1, OtherInstruction DEF SumOps, DifferenceOps, QuotientOps
<1>6. ASSUME NEW val1 \in Word, NEW val2 \in Word,
             UnsignedQuotients(val1, val2) \/ SignedQuotients(val1, val2)
      PROVE  Exact'
  BY <1>6, QuotientInstruction
<1>7. ASSUME NEW val1 \in Word, NEW val2 \in Word,
             TaggedOverflow(val1, val2) \/ DivisionByZero(val1, val2) \/ WriteY(val1, val2)
      PROVE  Exact'
  BY <1>7, SameInstruction DEF TaggedOverflow, DivisionByZero, WriteY, vars
<1>8. CASE Retire
  BY <1>8, OtherInstruction DEF Retire, Idle, SumOps, DifferenceOps, QuotientOps
<1>9. CASE UNCHANGED vars
  BY <1>9, SameInstruction DEF vars
<1>10. QED
  BY <1>1, <1>2, <1>3, <1>4, <1>5, <1>6, <1>7, <1>8, <1>9 DEF Next, Instruction

LEMMA InstructionsAreExact == Spec => []Exact
<1> DEFINE Inv == y \in Word /\ Exact
<1>1. Init => Inv
  BY HalfAssumption DEF Init, Idle, Word, Size, Exact, SumsAreExact, DifferencesAreExact,
     ConditionsCompare, QuotientsAreExact, IsOne
<1>2. Inv /\ [Next]_vars => Inv'
  BY YIsWord, NextExact
<1>3. Inv => Exact
  OBVIOUS
<1> HIDE DEF Inv
<1>4. QED
  BY <1>1, <1>2, <1>3, PTL DEF Spec

\* For words of every width: sums, and the carry and overflow of each, are exact.
THEOREM SumsAreAlwaysExact == Spec => []SumsAreExact
<1>1. Exact => SumsAreExact
  BY DEF Exact
<1>2. QED
  BY <1>1, InstructionsAreExact, PTL

\* For words of every width: the borrow of a difference, which the code takes
\* from three sign bits, and its overflow are those of the integers.
THEOREM DifferencesAreAlwaysExact == Spec => []DifferencesAreExact
<1>1. Exact => DifferencesAreExact
  BY DEF Exact
<1>2. QED
  BY <1>1, InstructionsAreExact, PTL

\* For words of every width: a subcc and a condition compare two words.
THEOREM ConditionsAlwaysCompare == Spec => []ConditionsCompare
<1>1. Exact => ConditionsCompare
  BY DEF Exact
<1>2. QED
  BY <1>1, InstructionsAreExact, PTL

\* For words of every width: a quotient of a double word is the one rounded
\* towards zero, or the word nearest to it with v set.
THEOREM QuotientsAreAlwaysExact == Spec => []QuotientsAreExact
<1>1. Exact => QuotientsAreExact
  BY DEF Exact
<1>2. QED
  BY <1>1, InstructionsAreExact, PTL

-----------------------------------------------------------------------------
(* Routines: their operators are those of the instructions. *)

LEMMA SameOperators ==
    /\ Routines!Size = Size /\ Routines!Word = Word /\ Routines!Weight = Weight
    /\ \A x : Routines!Signed(x) = Signed(x)
    /\ \A op1, x1, x2, codes, y1 : Routines!Add(op1, x1, x2, codes, y1) = Add(op1, x1, x2, codes, y1)
    /\ \A op1, x1, x2, codes, y1 :
           Routines!Subtract(op1, x1, x2, codes, y1) = Subtract(op1, x1, x2, codes, y1)
    /\ \A x1, x2, codes, y1 : Routines!MulStep(x1, x2, codes, y1) = MulStep(x1, x2, codes, y1)
    /\ \A n, codes : Routines!check_condition(n, codes) = check_condition(n, codes)
<1>1. Routines!Size = Size /\ Routines!Weight = Weight
  BY DEF Routines!Size, Size, Routines!Weight, Weight
<1>2. Routines!Word = Word
  BY DEF Routines!Word, Word, Routines!Size, Size
<1>3. \A x : Routines!Signed(x) = Signed(x)
  BY DEF Routines!Signed, Signed, Routines!sign, sign, Routines!Size, Size
<1>4. \A op1, x1, x2, codes, y1 :
          Routines!Add(op1, x1, x2, codes, y1) = Add(op1, x1, x2, codes, y1)
  BY DEF Routines!Add, Add, Routines!Cut, Cut, Routines!Size, Size, Routines!Carry, Carry,
         Routines!SumOverflows, SumOverflows, Routines!Tagged, Tagged,
         Routines!Codes, Codes, Routines!sign, sign
<1>5. \A op1, x1, x2, codes, y1 :
          Routines!Subtract(op1, x1, x2, codes, y1) = Subtract(op1, x1, x2, codes, y1)
  BY DEF Routines!Subtract, Subtract, Routines!Cut, Cut, Routines!Size, Size, Routines!Carry, Carry,
         Routines!DifferenceOverflows, DifferenceOverflows, Routines!Tagged, Tagged,
         Routines!Borrows, Borrows, Routines!Codes, Codes, Routines!sign, sign
<1>6. \A x1, x2, codes, y1 : Routines!MulStep(x1, x2, codes, y1) = MulStep(x1, x2, codes, y1)
  BY DEF Routines!MulStep, MulStep, Routines!Cut, Cut, Routines!Size, Size,
         Routines!Codes, Codes, Routines!sign, sign
<1>7. \A n, codes : Routines!check_condition(n, codes) = check_condition(n, codes)
  BY DEF Routines!check_condition, check_condition, Routines!Tests, Tests
<1>8. QED
  BY <1>1, <1>2, <1>3, <1>4, <1>5, <1>6, <1>7

-----------------------------------------------------------------------------
(* Double words *)

\* There is one way to divide with a remainder.
LEMMA Division ==
    ASSUME NEW d \in Nat \ {0}, NEW q \in Int, NEW m \in 0..(d - 1)
    PROVE  (q * d + m) \div d = q /\ (q * d + m) % d = m
<1> DEFINE n == q * d + m
           q1 == n \div d
           m1 == n % d
<1>1. /\ n \in Int /\ q1 \in Int /\ m1 \in 0..(d - 1) /\ n = d * q1 + m1
      /\ q * d \in Int /\ q1 * d \in Int /\ d * q1 = q1 * d
  OBVIOUS
<1>2. n = q * d + m
  OBVIOUS
<1> HIDE DEF n, q1, m1
<1>3. (q1 - q) * d = q1 * d - q * d
  BY <1>1
<1>4. (q1 - q) * d = m - m1
  BY <1>1, <1>2, <1>3
<1>5. (q1 - q) * d < 1 * d /\ (-1) * d < (q1 - q) * d
  BY <1>1, <1>4
<1>6. q1 - q < 1 /\ -1 < q1 - q
  BY <1>1, <1>5, ProductOrder
<1>7. q1 = q
  BY <1>1, <1>6
<1>8. QED
  BY <1>1, <1>2, <1>7 DEF n, q1, m1

LEMMA DivisionFacts ==
    ASSUME NEW n \in Nat, NEW d \in Nat \ {0}
    PROVE  n \div d \in Nat /\ n % d \in 0..(d - 1) /\ n = (n \div d) * d + (n % d)
  OBVIOUS

\* A product with a sum.
LEMMA ProductOfSum ==
    ASSUME NEW p \in Int, NEW q \in Int, NEW s \in Int, NEW t \in Int, NEW d \in Int
    PROVE  (p + q + s - t * d) * d = p * d + q * d + s * d - t * (d * d)
  OBVIOUS

LEMMA DoubleWordFacts ==
    ASSUME NEW d \in Routines!DoubleWord
    PROVE  /\ Routines!High(d) \in Word /\ Routines!Low(d) \in Word
           /\ d = Routines!High(d) * Size + Routines!Low(d)
           /\ Routines!SignedDouble(d) = Signed(Routines!High(d)) * Size + Routines!Low(d)
<1>1. Size \in Nat \ {0} /\ Size = 2 * Half /\ d \in Nat /\ d < Size * Size
  BY HalfAssumption, SameOperators DEF Size, Routines!DoubleWord
<1> DEFINE h == d \div Size
           l == d % Size
<1>2. h \in Nat /\ l \in 0..(Size - 1) /\ d = h * Size + l
  <2>1. Size \in Nat \ {0} /\ d \in Nat
    BY <1>1
  <2>2. QED
    BY <2>1, DivisionFacts, Zenon
<1>3. Routines!High(d) = h /\ Routines!Low(d) = l
  BY SameOperators DEF Routines!High, Routines!Low
<1> HIDE DEF h, l
<1>4. h * Size < Size * Size
  BY <1>1, <1>2
<1>5. h < Size
  BY <1>1, <1>2, <1>4, ProductOrder
<1>6. (h - Size) * Size = h * Size - Size * Size /\ h * Size \in Nat /\ Size * Size \in Nat
  BY <1>1, <1>2
<1>7. Routines!SignedDouble(d) = IF h >= Half THEN d - Size * Size ELSE d
  BY <1>3, SameOperators DEF Routines!SignedDouble
<1>8. Signed(h) = IF h >= Half THEN h - Size ELSE h
  BY DEF Signed, sign
<1>9. QED
  BY <1>1, <1>2, <1>3, <1>4, <1>5, <1>6, <1>7, <1>8 DEF Word

LEMMA DoubleWordOfWords ==
    ASSUME NEW h \in Word, NEW l \in Word
    PROVE  /\ h * Size + l \in Routines!DoubleWord
           /\ Routines!High(h * Size + l) = h
           /\ Routines!SignedDouble(h * Size + l) = Signed(h) * Size + l
<1>1. Size \in Nat \ {0} /\ h \in Nat /\ h <= Size - 1 /\ l \in 0..(Size - 1)
  BY HalfAssumption DEF Word, Size
<1>2. h * Size <= (Size - 1) * Size /\ (Size - 1) * Size = Size * Size - Size
      /\ h * Size \in Nat /\ Size * Size \in Nat
  BY <1>1
<1>3. h * Size + l \in Routines!DoubleWord
  BY <1>1, <1>2, SameOperators DEF Routines!DoubleWord
<1>4. (h * Size + l) \div Size = h /\ (h * Size + l) % Size = l
  BY <1>1, Division
<1>5. Routines!High(h * Size + l) = h /\ Routines!Low(h * Size + l) = l
  BY <1>4, SameOperators DEF Routines!High, Routines!Low
<1>6. QED
  BY <1>3, <1>5, DoubleWordFacts

\* Two sums of words, the second of which takes in the carry of the first.
LEMMA SumOfDoubles ==
    ASSUME NEW a1 \in Routines!DoubleWord, NEW b1 \in Routines!DoubleWord,
           NEW c \in {0, 1}, NEW h \in Word, NEW l \in Word, NEW c2 \in {0, 1},
           l = Routines!Low(a1) + Routines!Low(b1) - c * Size,
           h = Routines!High(a1) + Routines!High(b1) + c - c2 * Size
    PROVE  /\ h * Size + l = (a1 + b1) % (Size * Size)
           /\ c2 = 1 <=> a1 + b1 >= Size * Size
           /\ Signed(Routines!High(a1)) + Signed(Routines!High(b1)) + c # Signed(h)
                  <=> Routines!SignedDouble(h * Size + l)
                          # Routines!SignedDouble(a1) + Routines!SignedDouble(b1)
<1> DEFINE ah == Routines!High(a1)
           bh == Routines!High(b1)
           al == Routines!Low(a1)
           bl == Routines!Low(b1)
           sum == h * Size + l
<1>1. /\ ah \in Word /\ al \in Word /\ a1 = ah * Size + al
      /\ Routines!SignedDouble(a1) = Signed(ah) * Size + al
      /\ bh \in Word /\ bl \in Word /\ b1 = bh * Size + bl
      /\ Routines!SignedDouble(b1) = Signed(bh) * Size + bl
  BY DoubleWordFacts
<1>2. sum \in Routines!DoubleWord /\ Routines!SignedDouble(sum) = Signed(h) * Size + l
  BY DoubleWordOfWords
<1>3. /\ Size \in Nat \ {0} /\ sum \in Nat /\ sum < Size * Size /\ a1 \in Nat /\ b1 \in Nat
      /\ Size * Size \in Nat \ {0} /\ Routines!DoubleWord = 0..(Size * Size - 1)
  BY <1>2, HalfAssumption, SameOperators DEF Size, Routines!DoubleWord
<1>4. ah \in Nat /\ al \in Nat /\ bh \in Nat /\ bl \in Nat /\ h \in Nat /\ l \in Nat
  BY <1>1, HalfAssumption DEF Word, Size
<1>5. Signed(ah) \in Int /\ Signed(bh) \in Int /\ Signed(h) \in Int
  BY <1>4, HalfAssumption DEF Signed, Size
<1>6. l = al + bl - c * Size /\ h = ah + bh + c - c2 * Size
  OBVIOUS
<1>7. sum = h * Size + l
  OBVIOUS
<1> HIDE DEF ah, al, bh, bl, sum
<1>8. sum = a1 + b1 - c2 * (Size * Size)
  <2>1. ah \in Int /\ bh \in Int /\ c \in Int /\ c2 \in Int /\ Size \in Int
    BY <1>3, <1>4
  <2>2. (ah + bh + c - c2 * Size) * Size = ah * Size + bh * Size + c * Size - c2 * (Size * Size)
    BY <2>1, ProductOfSum
  <2>3. /\ ah * Size \in Int /\ bh * Size \in Int /\ c * Size \in Int /\ h * Size \in Int
        /\ Size * Size \in Int /\ c2 * (Size * Size) \in Int
    BY <1>3, <1>4, <2>1, ProductIsInt
  <2>4. h * Size = ah * Size + bh * Size + c * Size - c2 * (Size * Size)
    BY <1>6, <2>2, Zenon
  <2>5. QED
    BY <1>1, <1>3, <1>4, <1>6, <1>7, <2>1, <2>3, <2>4
<1>9. sum = (a1 + b1) % (Size * Size) /\ (c2 = 1 <=> a1 + b1 >= Size * Size)
  <2> DEFINE square == Size * Size
  <2>1. square \in Nat \ {0} /\ sum \in 0..(square - 1) /\ c2 \in Int
    BY <1>3
  <2> HIDE DEF square
  <2>2. a1 + b1 = c2 * square + sum
    BY <1>3, <1>8, <2>1 DEF square
  <2>3. (c2 * square + sum) % square = sum
    BY <2>1, Division
  <2>4. QED
    BY <1>3, <2>1, <2>2, <2>3 DEF square
<1>10. Signed(ah) + Signed(bh) + c # Signed(h)
           <=> Routines!SignedDouble(sum) # Routines!SignedDouble(a1) + Routines!SignedDouble(b1)
  <2> DEFINE sa == Signed(ah)
             sb == Signed(bh)
             sh == Signed(h)
             pa == sa * Size
             pb == sb * Size
             pc == c * Size
             e == sh - sa - sb - c
  <2>1. sa \in Int /\ sb \in Int /\ sh \in Int /\ c \in Int /\ Size \in Int
    BY <1>3, <1>5
  <2>2. /\ Routines!SignedDouble(sum) = sh * Size + l
        /\ Routines!SignedDouble(a1) = pa + al
        /\ Routines!SignedDouble(b1) = pb + bl
        /\ l = al + bl - pc
    BY <1>1, <1>2, <1>6, Zenon
  <2> HIDE DEF sa, sb, sh
  <2>3. sh * Size = pa + pb + pc + e * Size
    <3>1. (sa + sb + c - (-e) * 1) * Size = pa + pb + pc + e * Size
      BY <2>1
    <3>2. sa + sb + c - (-e) * 1 = sh
      BY <2>1
    <3>3. QED
      BY <3>1, <3>2
  <2>4. e \in Int /\ pa \in Int /\ pb \in Int /\ pc \in Int /\ e * Size \in Int
    BY <2>1, ProductIsInt
  <2>5. e * Size = 0 <=> e = 0
    BY <1>3, <2>4
  <2>6. e = 0 <=> sa + sb + c = sh
    BY <2>1
  <2> HIDE DEF e, pa, pb, pc
  <2>7. (pa + pb + pc + e * Size) + (al + bl - pc) = (pa + al) + (pb + bl) <=> e * Size = 0
    BY <1>4, <2>4
  <2>8. QED
    BY <2>2, <2>3, <2>5, <2>6, <2>7, Zenon DEF sa, sb, sh
<1>11. QED
  BY <1>9, <1>10 DEF ah, bh, sum

\* Double words are in the order of their upper words, or of their lower ones.
LEMMA DoublesInOrder ==
    ASSUME NEW h1 \in Int, NEW h2 \in Int, NEW l1 \in Word, NEW l2 \in Word
    PROVE  h1 * Size + l1 < h2 * Size + l2
               <=> h1 - h2 - (IF l1 < l2 THEN 1 ELSE 0) < 0
<1>1. Size \in Nat \ {0} /\ l1 \in 0..(Size - 1) /\ l2 \in 0..(Size - 1)
  BY HalfAssumption DEF Word, Size
<1> DEFINE p1 == h1 * Size
           p2 == h2 * Size
<1>2. p1 \in Int /\ p2 \in Int
  BY <1>1
<1>3. h1 < h2 => p1 + Size <= p2
  <2>1. h1 < h2 => (h1 + 1) * Size <= p2
    BY <1>1
  <2>2. (h1 + 1) * Size = p1 + Size
    BY <1>1
  <2>3. QED
    BY <2>1, <2>2
<1>4. h2 < h1 => p2 + Size <= p1
  <2>1. h2 < h1 => (h2 + 1) * Size <= p1
    BY <1>1
  <2>2. (h2 + 1) * Size = p2 + Size
    BY <1>1
  <2>3. QED
    BY <2>1, <2>2
<1>5. h1 = h2 => p1 = p2
  OBVIOUS
<1> HIDE DEF p1, p2
<1>6. p1 + l1 < p2 + l2 <=> h1 < h2 \/ (h1 = h2 /\ l1 < l2)
  BY <1>1, <1>2, <1>3, <1>4, <1>5
<1>7. QED
  BY <1>6 DEF p1, p2

\* What addcc, addxcc, subcc and subxcc leave, field by field.
LEMMA AddCodes ==
    ASSUME NEW x1, NEW x2, NEW codes, NEW y1, NEW op1, NEW c,
           \/ op1 = "addcc" /\ c = 0
           \/ op1 = "addxcc" /\ c = Carry(codes)
    PROVE  LET sum == x1 + x2 + c
               new == Add(op1, x1, x2, codes, y1)
           IN  /\ new.rd = Cut(sum)
               /\ new.icc.c = (sum >= Size)
               /\ new.icc.v = SumOverflows(x1, x2, Cut(sum))
<1> DEFINE sum == x1 + x2 + c
           v == SumOverflows(x1, x2, Cut(sum)) \/ (op1 = "taddcc" /\ Tagged(x1, x2))
           new == Add(op1, x1, x2, codes, y1)
<1>1. (IF op1 \in {"addx", "addxcc"} THEN Carry(codes) ELSE 0) = c
  OBVIOUS
<1>2. op1 \notin {"add", "addx"} /\ op1 # "taddcc"
  OBVIOUS
<1>3. new.rd = Cut(sum) /\ new.icc = Codes(Cut(sum), v, sum >= Size)
  BY <1>1, <1>2, Zenon DEF Add
<1>4. Codes(Cut(sum), v, sum >= Size).c = (sum >= Size) /\ Codes(Cut(sum), v, sum >= Size).v = v
  BY Zenon DEF Codes
<1>5. v = SumOverflows(x1, x2, Cut(sum))
  BY <1>2, Zenon DEF SumOverflows
<1> HIDE DEF v, sum, new
<1>6. QED
  BY <1>3, <1>4, <1>5, Zenon DEF sum, new

LEMMA SubtractCodes ==
    ASSUME NEW x1, NEW x2, NEW codes, NEW y1, NEW op1, NEW c,
           \/ op1 = "subcc" /\ c = 0
           \/ op1 = "subxcc" /\ c = Carry(codes)
    PROVE  LET diff == Cut(x1 - x2 - c)
               new == Subtract(op1, x1, x2, codes, y1)
           IN  /\ new.rd = diff
               /\ new.icc.n = sign(diff)
               /\ new.icc.c = Borrows(x1, x2, diff)
               /\ new.icc.v = DifferenceOverflows(x1, x2, diff)
<1> DEFINE diff == Cut(x1 - x2 - c)
           v == DifferenceOverflows(x1, x2, diff) \/ (op1 = "tsubcc" /\ Tagged(x1, x2))
           borrow == Borrows(x1, x2, diff)
           new == Subtract(op1, x1, x2, codes, y1)
<1>1. (IF op1 \in {"subx", "subxcc"} THEN Carry(codes) ELSE 0) = c
  OBVIOUS
<1>2. op1 \notin {"sub", "subx"} /\ op1 # "tsubcc"
  OBVIOUS
<1>3. new.rd = diff /\ new.icc = Codes(diff, v, borrow)
  BY <1>1, <1>2, Zenon DEF Subtract
<1>4. /\ Codes(diff, v, borrow).c = borrow /\ Codes(diff, v, borrow).v = v
      /\ Codes(diff, v, borrow).n = sign(diff)
  BY Zenon DEF Codes
<1>5. v = DifferenceOverflows(x1, x2, diff)
  BY <1>2, Zenon DEF DifferenceOverflows
<1> HIDE DEF v, diff, new, borrow
<1>6. QED
  BY <1>3, <1>4, <1>5, Zenon DEF diff, new, borrow

LEMMA CarryIsDigit ==
    ASSUME NEW codes
    PROVE  Carry(codes) \in {0, 1} /\ (codes.c => Carry(codes) = 1) /\ (~codes.c => Carry(codes) = 0)
  BY DEF Carry

\* The sign of a difference, corrected by its overflow, is that of the integers.
LEMMA DifferenceSign ==
    ASSUME NEW val1 \in Word, NEW val2 \in Word, NEW c \in {0, 1}
    PROVE  LET diff == Cut(val1 - val2 - c)
           IN  /\ sign(diff) \in BOOLEAN /\ DifferenceOverflows(val1, val2, diff) \in BOOLEAN
               /\ ~(sign(diff) <=> DifferenceOverflows(val1, val2, diff))
                      <=> Signed(val1) - Signed(val2) - c < 0
<1> DEFINE diff == Cut(val1 - val2 - c)
<1>1. ~(sign(diff) <=> DifferenceOverflows(val1, val2, diff))
          <=> Signed(val1) - Signed(val2) - c < 0
  BY HalfAssumption DEF DifferenceOverflows, Signed, sign, Cut, Word, Size
<1>2. sign(diff) \in BOOLEAN /\ DifferenceOverflows(val1, val2, diff) \in BOOLEAN
  BY DEF DifferenceOverflows, sign
<1>3. QED
  BY <1>1, <1>2

-----------------------------------------------------------------------------
\* Between the two instructions of a double word, what the first one leaves.
DoubleInv ==
    /\ routine \in {"add", "compare"} => a \in Routines!DoubleWord /\ b \in Routines!DoubleWord
    /\ routine = "add" /\ step = 1 =>
           LET sum == Routines!Low(a) + Routines!Low(b)
           IN  lo = Cut(sum) /\ (icc.c <=> sum >= Size)
    /\ routine = "compare" /\ step = 1 => (icc.c <=> Routines!Low(a) < Routines!Low(b))
    /\ DoubleWordsAreExact

\* A routine that is not on double words, or has not begun with them.
LEMMA NotDoubles ==
    ASSUME DoubleInv, UNCHANGED <<routine, a, b>>,
           routine \notin {"add", "compare"}
    PROVE  DoubleInv'
  BY DEF DoubleInv, DoubleWordsAreExact, Routines!DoubleWordsAreExact

LEMMA AddLowStep ==
    ASSUME DoubleInv, Routines!AddLow
    PROVE  DoubleInv'
<1> DEFINE al == Routines!Low(a)
           bl == Routines!Low(b)
           new == Add("addcc", al, bl, icc, y)
<1>1. /\ routine = "add" /\ step = 0 /\ step' = 1
      /\ routine' = routine /\ a' = a /\ b' = b
      /\ icc' = new.icc /\ lo' = new.rd
  BY SameOperators DEF Routines!AddLow, Routines!At, Routines!Writes
<1>2. a \in Routines!DoubleWord /\ b \in Routines!DoubleWord /\ al \in Word /\ bl \in Word
  BY <1>1, DoubleWordFacts DEF DoubleInv
<1>3. new.rd = Cut(al + bl + 0) /\ new.icc.c = (al + bl + 0 >= Size)
  BY AddCodes
<1>4. al + bl + 0 = al + bl
  BY <1>2, HalfAssumption DEF Word, Size
<1>5. lo' = Cut(al + bl) /\ icc'.c = (al + bl >= Size)
  BY <1>1, <1>3, <1>4, Zenon
<1>6. al' = al /\ bl' = bl
  BY <1>1 DEF Routines!Low
<1>7. routine' = "add" /\ step' = 1
  BY <1>1
<1> HIDE DEF al, bl, new
<1>8. /\ (routine \in {"add", "compare"} => a \in Routines!DoubleWord /\ b \in Routines!DoubleWord)'
      /\ (routine = "compare" /\ step = 1 => (icc.c <=> Routines!Low(a) < Routines!Low(b)))'
      /\ DoubleWordsAreExact'
  BY <1>1, <1>2, <1>7 DEF DoubleWordsAreExact, Routines!DoubleWordsAreExact
<1>9. (LET sum == Routines!Low(a) + Routines!Low(b)
       IN  lo = Cut(sum) /\ (icc.c <=> sum >= Size))'
  BY <1>5, <1>6, Zenon DEF al, bl
<1>10. QED
  BY <1>8, <1>9, Zenon DEF DoubleInv

LEMMA SubtractLowStep ==
    ASSUME DoubleInv, Routines!SubtractLow
    PROVE  DoubleInv'
<1> DEFINE al == Routines!Low(a)
           bl == Routines!Low(b)
           new == Subtract("subcc", al, bl, icc, y)
<1>1. /\ routine = "compare" /\ step = 0 /\ step' = 1
      /\ routine' = routine /\ a' = a /\ b' = b
      /\ icc' = new.icc
  BY SameOperators DEF Routines!SubtractLow, Routines!At, Routines!Writes
<1>2. a \in Routines!DoubleWord /\ b \in Routines!DoubleWord /\ al \in Word /\ bl \in Word
  BY <1>1, DoubleWordFacts DEF DoubleInv
<1>3. new.icc.c = Borrows(al, bl, Cut(al - bl - 0))
  BY SubtractCodes
<1>4. al - bl - 0 < 0 <=> al < bl
  BY <1>2, HalfAssumption DEF Word, Size
<1>5. Borrows(al, bl, Cut(al - bl - 0)) <=> al - bl - 0 < 0
  BY <1>2, DifferenceFlags
<1>6. icc'.c <=> al < bl
  BY <1>1, <1>3, <1>4, <1>5, Zenon
<1>7. al' = al /\ bl' = bl
  BY <1>1 DEF Routines!Low
<1>8. routine' = "compare" /\ step' = 1
  BY <1>1
<1> HIDE DEF al, bl, new
<1>9. /\ (routine \in {"add", "compare"} => a \in Routines!DoubleWord /\ b \in Routines!DoubleWord)'
      /\ (routine = "add" /\ step = 1 =>
              LET sum == Routines!Low(a) + Routines!Low(b)
              IN  lo = Cut(sum) /\ (icc.c <=> sum >= Size))'
      /\ DoubleWordsAreExact'
  BY <1>1, <1>2, <1>8 DEF DoubleWordsAreExact, Routines!DoubleWordsAreExact
<1>10. (icc.c <=> Routines!Low(a) < Routines!Low(b))'
  BY <1>6, <1>7, Zenon DEF al, bl
<1>11. QED
  BY <1>9, <1>10, Zenon DEF DoubleInv

LEMMA AddHighStep ==
    ASSUME DoubleInv, Routines!AddHigh
    PROVE  DoubleInv'
<1> DEFINE al == Routines!Low(a)
           bl == Routines!Low(b)
           ah == Routines!High(a)
           bh == Routines!High(b)
           c == Carry(icc)
           sum == ah + bh + c
           new == Add("addxcc", ah, bh, icc, y)
           c2 == IF sum >= Size THEN 1 ELSE 0
<1>1. /\ routine = "add" /\ step = 1 /\ step' = 2
      /\ routine' = routine /\ a' = a /\ b' = b
      /\ icc' = new.icc /\ hi' = new.rd /\ lo' = lo
  BY SameOperators DEF Routines!AddHigh, Routines!At, Routines!Writes
<1>2. a \in Routines!DoubleWord /\ b \in Routines!DoubleWord
      /\ lo = Cut(al + bl) /\ (icc.c <=> al + bl >= Size)
  BY <1>1 DEF DoubleInv
<1>3. /\ al \in Word /\ bl \in Word /\ ah \in Word /\ bh \in Word
      /\ c \in {0, 1} /\ c2 \in {0, 1}
  BY <1>2, DoubleWordFacts, CarryIsDigit
<1>4. new.rd = Cut(sum) /\ new.icc.c = (sum >= Size) /\ new.icc.v = SumOverflows(ah, bh, Cut(sum))
  BY AddCodes
<1>5. SumOverflows(ah, bh, Cut(sum)) <=> Signed(ah) + Signed(bh) + c # Signed(Cut(sum))
  BY <1>3, SumFlags
<1>6. lo \in Word /\ lo = al + bl - c * Size
  <2>1. (icc.c => c = 1) /\ (~icc.c => c = 0)
    BY CarryIsDigit
  <2> HIDE DEF al, bl, c
  <2>2. QED
    BY <1>2, <1>3, <2>1, HalfAssumption DEF Cut, Word, Size
<1>7. Cut(sum) \in Word /\ Cut(sum) = ah + bh + c - c2 * Size
  <2> HIDE DEF ah, bh, c
  <2>1. QED
    BY <1>3, HalfAssumption DEF Cut, Word, Size
<1> DEFINE h == Cut(sum)
           whole == h * Size + lo
<1>8. /\ whole = (a + b) % (Size * Size)
      /\ c2 = 1 <=> a + b >= Size * Size
      /\ Signed(ah) + Signed(bh) + c # Signed(h)
             <=> Routines!SignedDouble(whole) # Routines!SignedDouble(a) + Routines!SignedDouble(b)
  <2> HIDE DEF c, c2, h
  <2>1. h \in Word /\ h = ah + bh + c - c2 * Size
    BY <1>7 DEF h
  <2>2. QED
    BY <1>2, <1>3, <1>6, <2>1, SumOfDoubles
<1>9. c2 = 1 <=> sum >= Size
  OBVIOUS
<1>10. hi' = h /\ icc'.c = (sum >= Size) /\ icc'.v = SumOverflows(ah, bh, h)
  BY <1>1, <1>4, Zenon
<1>11. Routines!Result' = whole
  BY <1>1, <1>10, SameOperators DEF Routines!Result
<1> DEFINE sds == Routines!SignedDouble(whole)
           sda == Routines!SignedDouble(a)
           sdb == Routines!SignedDouble(b)
<1>12. Routines!SignedDouble(Routines!Result)' = sds /\ sda' = sda /\ sdb' = sdb
  BY <1>1, <1>11 DEF Routines!SignedDouble, Routines!High
<1> HIDE DEF al, bl, ah, bh, c, c2, sum, h, whole, new, sds, sda, sdb
<1>13. /\ Routines!Result' = (a + b) % (Routines!Size * Routines!Size)
       /\ icc'.c <=> a + b >= Routines!Size * Routines!Size
       /\ icc'.v <=> sds # sda + sdb
  BY <1>5, <1>8, <1>9, <1>10, <1>11, SameOperators, Zenon DEF h, sds, sda, sdb
<1>14. routine' = "add" /\ step' = 2 /\ a' \in Routines!DoubleWord /\ b' \in Routines!DoubleWord
  BY <1>1, <1>2
<1>15. DoubleWordsAreExact'
  BY <1>1, <1>12, <1>13, <1>14, Zenon
  DEF DoubleWordsAreExact, Routines!DoubleWordsAreExact, sda, sdb
<1>16. QED
  BY <1>14, <1>15 DEF DoubleInv

LEMMA SubtractHighStep ==
    ASSUME DoubleInv, Routines!SubtractHigh
    PROVE  DoubleInv'
<1> DEFINE al == Routines!Low(a)
           bl == Routines!Low(b)
           ah == Routines!High(a)
           bh == Routines!High(b)
           c == Carry(icc)
           diff == Cut(ah - bh - c)
           new == Subtract("subxcc", ah, bh, icc, y)
           sda == Routines!SignedDouble(a)
           sdb == Routines!SignedDouble(b)
<1>1. /\ routine = "compare" /\ step = 1 /\ step' = 2
      /\ routine' = routine /\ a' = a /\ b' = b /\ icc' = new.icc
  BY SameOperators DEF Routines!SubtractHigh, Routines!At, Routines!Writes
<1>2. a \in Routines!DoubleWord /\ b \in Routines!DoubleWord /\ (icc.c <=> al < bl)
  BY <1>1 DEF DoubleInv
<1>3. /\ al \in Word /\ bl \in Word /\ ah \in Word /\ bh \in Word
      /\ a = ah * Size + al /\ b = bh * Size + bl
      /\ sda = Signed(ah) * Size + al /\ sdb = Signed(bh) * Size + bl
  BY <1>2, DoubleWordFacts
<1>4. c = (IF al < bl THEN 1 ELSE 0) /\ c \in {0, 1}
  BY <1>2, CarryIsDigit
<1>5. /\ new.icc.n = sign(diff) /\ new.icc.c = Borrows(ah, bh, diff)
      /\ new.icc.v = DifferenceOverflows(ah, bh, diff)
  BY SubtractCodes
<1>6. Borrows(ah, bh, diff) <=> ah - bh - c < 0
  <2> HIDE DEF c, ah, bh
  <2>1. QED
    BY <1>3, <1>4, DifferenceFlags
<1>7. /\ sign(diff) \in BOOLEAN /\ DifferenceOverflows(ah, bh, diff) \in BOOLEAN
      /\ ~(sign(diff) <=> DifferenceOverflows(ah, bh, diff)) <=> Signed(ah) - Signed(bh) - c < 0
  <2> HIDE DEF c, ah, bh
  <2>1. QED
    BY <1>3, <1>4, DifferenceSign
<1>8. /\ ah \in Int /\ bh \in Int /\ Signed(ah) \in Int /\ Signed(bh) \in Int
      /\ al \in Int /\ bl \in Int /\ Size \in Int
  BY <1>3, HalfAssumption DEF Word, Signed, sign, Size
<1> HIDE DEF al, bl, ah, bh, c, diff, new, sda, sdb
<1>9. ah - bh - c < 0 <=> a < b
  BY <1>3, <1>4, <1>8, DoublesInOrder
<1>10. Signed(ah) - Signed(bh) - c < 0 <=> sda < sdb
  BY <1>3, <1>4, <1>8, DoublesInOrder
<1>11. icc'.c <=> a < b
  BY <1>1, <1>5, <1>6, <1>9, Zenon
<1>12. icc'.n # icc'.v <=> sda < sdb
  BY <1>1, <1>5, <1>7, <1>10, Zenon
<1>13. /\ check_condition(5, icc') = icc'.c /\ check_condition(13, icc') = ~icc'.c
       /\ check_condition(3, icc') = (icc'.n # icc'.v) /\ check_condition(11, icc') = ~(icc'.n # icc'.v)
  BY ConditionTable, ConditionOpposites, Zenon
<1>14. ~(a < b) <=> a >= b
  <2>1. a \in Int /\ b \in Int
    BY <1>3, <1>8, ProductIsInt
  <2>2. QED
    BY <2>1
<1>15. ~(sda < sdb) <=> sda >= sdb
  <2>1. sda \in Int /\ sdb \in Int
    BY <1>3, <1>8, ProductIsInt
  <2>2. QED
    BY <2>1
<1>16. sda' = sda /\ sdb' = sdb
  BY <1>1 DEF sda, sdb, Routines!SignedDouble, Routines!High
<1>17. /\ check_condition(5, icc') <=> a < b
       /\ check_condition(13, icc') <=> a >= b
       /\ check_condition(3, icc') <=> sda < sdb
       /\ check_condition(11, icc') <=> sda >= sdb
  BY <1>11, <1>12, <1>13, <1>14, <1>15, Zenon
<1>18. \A n : Routines!check_condition(n, icc') = check_condition(n, icc')
  BY SameOperators, Zenon
<1>19. routine' = "compare" /\ step' = 2 /\ a' \in Routines!DoubleWord /\ b' \in Routines!DoubleWord
  BY <1>1, <1>2
<1>20. DoubleWordsAreExact'
  BY <1>1, <1>16, <1>17, <1>18, <1>19, Zenon
  DEF DoubleWordsAreExact, Routines!DoubleWordsAreExact, sda, sdb
<1>21. QED
  BY <1>19, <1>20 DEF DoubleInv

LEMMA NextDouble == DoubleInv /\ [Routines!Next]_(Routines!vars) => DoubleInv'
<1> SUFFICES ASSUME DoubleInv, [Routines!Next]_(Routines!vars) PROVE DoubleInv'
  OBVIOUS
<1>1. CASE Routines!StartMultiply \/ Routines!MultiplyStep \/ Routines!FinishMultiply
  <2>1. routine = "multiply" /\ UNCHANGED <<routine, a, b>>
    BY <1>1 DEF Routines!StartMultiply, Routines!MultiplyStep, Routines!FinishMultiply,
                Routines!At, Routines!Writes
  <2>2. QED
    BY <2>1, NotDoubles
<1>2. CASE UNCHANGED Routines!vars
  <2>1. UNCHANGED <<routine, a, b, step, hi, lo, icc>>
    BY <1>2 DEF Routines!vars
  <2>2. DoubleWordsAreExact <=> DoubleWordsAreExact'
    BY <2>1 DEF DoubleWordsAreExact, Routines!DoubleWordsAreExact, Routines!Result,
                Routines!SignedDouble, Routines!High, Routines!check_condition, Routines!Tests
  <2>3. QED
    BY <2>1, <2>2 DEF DoubleInv, Routines!Low
<1>3. QED
  BY <1>1, <1>2, AddLowStep, AddHighStep, SubtractLowStep, SubtractHighStep DEF Routines!Next

\* For words of every width: addcc and addxcc add double words, and subcc and
\* subxcc compare them, as naturals and as integers.
THEOREM DoubleWordsAreAlwaysExact == Routines!Spec => []DoubleWordsAreExact
<1>1. Routines!Init => DoubleInv
  BY DEF Routines!Init, DoubleInv, DoubleWordsAreExact, Routines!DoubleWordsAreExact
<1>2. DoubleInv => DoubleWordsAreExact
  BY DEF DoubleInv
<1>3. QED
  BY <1>1, <1>2, NextDouble, PTL DEF Routines!Spec

-----------------------------------------------------------------------------
(* Multiplication, a bit at a time *)

LEMMA SameBitwise ==
    ASSUME NEW op1, NEW cc, NEW x1, NEW x2, NEW codes, NEW y1
    PROVE  Routines!Bitwise(op1, cc, x1, x2, codes, y1) = Bitwise(op1, cc, x1, x2, codes, y1)
  BY DEF Routines!Bitwise, Bitwise, Routines!OfBits, OfBits, Routines!Bits, Bits,
         Routines!Weight, Weight, Routines!Codes, Codes, Routines!sign, sign

\* Exponents add up.
LEMMA WeightProduct ==
    ASSUME NEW i \in Nat, NEW j \in Nat, i + j <= Width
    PROVE  Weight[i] * Weight[j] = Weight[i + j]
<1> DEFINE Fine == {n \in Nat : n + j <= Width => Weight[n] * Weight[j] = Weight[n + j]}
<1>1. 0 \in Fine
  <2>1. 0 + j = j /\ j \in 0..Width
    BY WeightFacts
  <2>2. Weight[0] = 1 /\ Weight[j] \in Nat
    BY <2>1, WeightFacts
  <2>3. QED
    BY <2>1, <2>2
<1>2. ASSUME NEW n \in Fine PROVE n + 1 \in Fine
  <2>1. SUFFICES ASSUME (n + 1) + j <= Width
                 PROVE  Weight[n + 1] * Weight[j] = Weight[(n + 1) + j]
    OBVIOUS
  <2>2. /\ n \in 0..(Width - 1) /\ n + j \in 0..(Width - 1) /\ (n + 1) + j = (n + j) + 1
        /\ n \in 0..Width /\ j \in 0..Width /\ n + j \in 0..Width /\ n + j <= Width
    BY <2>1, WeightFacts
  <2>3. Weight[n + 1] = 2 * Weight[n] /\ Weight[(n + j) + 1] = 2 * Weight[n + j]
    BY <2>2, WeightFacts
  <2>4. Weight[n] * Weight[j] = Weight[n + j]
    BY <2>2
  <2>5. Weight[n] \in Nat /\ Weight[j] \in Nat
    BY <2>2, WeightFacts
  <2>6. (2 * Weight[n]) * Weight[j] = 2 * (Weight[n] * Weight[j])
    BY <2>5
  <2>7. QED
    BY <2>2, <2>3, <2>4, <2>6
<1>3. Fine = Nat
  <2> HIDE DEF Fine
  <2>1. Fine \in SUBSET Nat
    BY DEF Fine
  <2>2. QED
    BY <1>1, <1>2, <2>1, Induction
<1>4. QED
  BY <1>3 DEF Iterates

\* One more bit of a number: what is above it, and what is below.
LEMMA NextBit ==
    ASSUME NEW n \in Nat, NEW w \in Nat \ {0}
    PROVE  /\ n \div (2 * w) = (n \div w) \div 2
           /\ n % (2 * w) = (n % w) + ((n \div w) % 2) * w
<1> DEFINE q == n \div w
           m == n % w
           h == q \div 2
           bit == q % 2
           low == bit * w + m
<1>1. q \in Nat /\ m \in 0..(w - 1) /\ n = q * w + m
  BY DivisionFacts
<1> HIDE DEF q, m
<1>2. h \in Nat /\ bit \in {0, 1} /\ q = 2 * h + bit
  BY <1>1
<1> HIDE DEF h, bit
<1>3. low \in 0..(2 * w - 1)
  BY <1>1, <1>2
<1>4. n = h * (2 * w) + low
  <2>1. (2 * h + bit) * w = h * (2 * w) + bit * w
    BY <1>2
  <2>2. h * (2 * w) \in Nat /\ bit * w \in Nat
    BY <1>2
  <2>3. QED
    BY <1>1, <1>2, <2>1, <2>2
<1> HIDE DEF low
<1>5. 2 * w \in Nat \ {0} /\ h \in Int /\ low \in 0..(2 * w - 1)
  BY <1>2, <1>3
<1>6. (h * (2 * w) + low) \div (2 * w) = h /\ (h * (2 * w) + low) % (2 * w) = low
  BY <1>5, Division
<1>7. n \div (2 * w) = h /\ n % (2 * w) = low
  BY <1>4, <1>6, Zenon
<1>8. low = m + bit * w
  BY <1>1, <1>2 DEF low
<1>9. QED
  BY <1>7, <1>8, Zenon DEF h, bit, q, m

\* The sum that a word and its codes stand for; see PartialSum.
SumOf(n, v, x) == IF v THEN (IF n THEN x ELSE x - Size) ELSE Signed(x)

\* The first operand of a MULScc is the half of that sum.
LEMMA HalfOfSum ==
    ASSUME NEW x \in Word, NEW n \in BOOLEAN, NEW v \in BOOLEAN, n <=> sign(x)
    PROVE  LET operand1 == (x \div 2) + IF n # v THEN Half ELSE 0
           IN  /\ operand1 \in Word
               /\ SumOf(n, v, x) = 2 * Signed(operand1) + (x % 2)
<1> DEFINE h == x \div 2
           d == x % 2
<1>1. h \in 0..(Half - 1) /\ d \in {0, 1} /\ x = 2 * h + d /\ Half \in Nat \ {0}
  BY HalfAssumption DEF Word, Size
<1> HIDE DEF h, d
<1>2. CASE n # v
  <2>1. h + Half \in Word /\ Signed(h + Half) = h - Half
    BY <1>1 DEF Word, Size, Signed, sign
  <2>2. SumOf(n, v, x) = x - Size
    BY <1>2 DEF SumOf, Signed
  <2>3. QED
    BY <1>1, <1>2, <2>1, <2>2 DEF h, d, Size
<1>3. CASE n = v
  <2>1. h \in Word /\ Signed(h) = h
    BY <1>1 DEF Word, Size, Signed, sign
  <2>2. SumOf(n, v, x) = x
    BY <1>3 DEF SumOf, Signed
  <2>3. QED
    BY <1>1, <1>3, <2>1, <2>2 DEF h, d
<1>4. QED
  BY <1>2, <1>3

\* The sum of two words and the codes that MULScc makes stand for the sum.
LEMMA SumOfTwo ==
    ASSUME NEW x1 \in Word, NEW x2 \in Word
    PROVE  LET x == Cut(x1 + x2)
               v == SumOverflows(x1, x2, x)
           IN  x \in Word /\ SumOf(sign(x), v, x) = Signed(x1) + Signed(x2)
  BY HalfAssumption DEF SumOf, SumOverflows, Signed, sign, Cut, Word, Size

LEMMA MulStepFacts ==
    ASSUME NEW x1 \in Word, NEW x2 \in Word, NEW codes, NEW y1,
           codes.n \in BOOLEAN, codes.v \in BOOLEAN, codes.n <=> sign(x1)
    PROVE  LET new == MulStep(x1, x2, codes, y1)
               operand1 == (x1 \div 2) + IF codes.n # codes.v THEN Half ELSE 0
               p == Signed(operand1)
           IN  /\ p \in Int
               /\ SumOf(codes.n, codes.v, x1) = 2 * p + (x1 % 2)
               /\ new.y = (y1 \div 2) + IF x1 % 2 = 1 THEN Half ELSE 0
               /\ new.rd \in Word
               /\ new.icc.n \in BOOLEAN /\ new.icc.v \in BOOLEAN
               /\ new.icc.n <=> sign(new.rd)
               /\ SumOf(new.icc.n, new.icc.v, new.rd) = p + IF y1 % 2 = 1 THEN Signed(x2) ELSE 0
               /\ x2 = 0 => new.rd = operand1
<1> DEFINE o1 == (x1 \div 2) + IF codes.n # codes.v THEN Half ELSE 0
           o2 == IF y1 % 2 = 1 THEN x2 ELSE 0
           x == Cut(o1 + o2)
           v == (sign(o1) /\ sign(o2) /\ ~sign(x)) \/ (~sign(o1) /\ ~sign(o2) /\ sign(x))
           c == (sign(o1) /\ sign(o2)) \/ (~sign(x) /\ (sign(o1) \/ sign(o2)))
           new == MulStep(x1, x2, codes, y1)
<1>1. /\ new.rd = x /\ new.icc = Codes(x, v, c)
      /\ new.y = (y1 \div 2) + IF x1 % 2 = 1 THEN Half ELSE 0
  BY DEF MulStep
<1>2. Codes(x, v, c).n = sign(x) /\ Codes(x, v, c).v = v
  BY Zenon DEF Codes
<1>3. o1 \in Word /\ SumOf(codes.n, codes.v, x1) = 2 * Signed(o1) + (x1 % 2)
  BY HalfOfSum
<1>4. o2 \in Word /\ Signed(o2) = IF y1 % 2 = 1 THEN Signed(x2) ELSE 0
  BY HalfAssumption DEF Word, Size, Signed, sign
<1> HIDE DEF o1, o2, c, new
<1>5. v <=> SumOverflows(o1, o2, x)
  BY DEF SumOverflows, sign
<1>6. v = SumOverflows(o1, o2, x) /\ v \in BOOLEAN /\ sign(x) \in BOOLEAN
  BY <1>5 DEF SumOverflows, sign
<1>7. x \in Word /\ SumOf(sign(x), SumOverflows(o1, o2, x), x) = Signed(o1) + Signed(o2)
  BY <1>3, <1>4, SumOfTwo
<1>8. x2 = 0 => x = o1
  BY <1>3, HalfAssumption DEF o2, Cut, Word, Size
<1>9. Signed(o1) \in Int
  BY <1>3, HalfAssumption DEF Signed, Word, Size
<1> HIDE DEF x, v
<1>10. new.rd = x /\ new.icc.n = sign(x) /\ new.icc.v = SumOverflows(o1, o2, x)
  BY <1>1, <1>2, <1>6, Zenon
<1>11. SumOf(new.icc.n, new.icc.v, new.rd) = Signed(o1) + IF y1 % 2 = 1 THEN Signed(x2) ELSE 0
  BY <1>4, <1>7, <1>10, Zenon
<1>12. new.icc.n \in BOOLEAN /\ new.icc.v \in BOOLEAN /\ (new.icc.n <=> sign(new.rd))
  BY <1>6, <1>10, Zenon
<1>13. new.rd \in Word /\ (x2 = 0 => new.rd = o1)
  BY <1>7, <1>8, <1>10, Zenon
<1>14. QED
  BY <1>1, <1>3, <1>9, <1>11, <1>12, <1>13, Zenon DEF o1, new

-----------------------------------------------------------------------------
\* After used steps of MULScc, w being the weight of the bits used up: y has q,
\* the low bits of the product, above the bits of b that remain.
Multiplied(used, sum, q, y1) ==
    /\ q \in 0..(Weight[used - 1] - 1)
    /\ y1 = q * Weight[Width + 1 - used] + (b \div Weight[used])
    /\ sum * Weight[used - 1] + q = (b % Weight[used]) * Signed(a)

Partly == \E q : Multiplied(step - 1, SumOf(icc.n, icc.v, hi), q, y)

MultiplyInv ==
    routine = "multiply" =>
        /\ a \in Word /\ b \in Word /\ step \in Nat
        /\ step = 1 => hi = 0 /\ y = b /\ icc.n = FALSE /\ icc.v = FALSE
        /\ step \in 2..(Width + 1) =>
               /\ hi \in Word
               /\ icc.n \in BOOLEAN /\ icc.v \in BOOLEAN /\ (icc.n <=> sign(hi))
               /\ Partly
        /\ PartialProductIsExact

\* One step: a bit of the sum moves to y, and a bit of b out of it.
LEMMA OneStep ==
    ASSUME NEW k \in 1..(Width - 1), NEW sum, NEW p \in Int, NEW d \in {0, 1}, NEW q, NEW y1,
           a \in Word, b \in Word,
           sum = 2 * p + d, Multiplied(k, sum, q, y1)
    PROVE  LET bit == y1 % 2
           IN  Multiplied(k + 1, p + (IF bit = 1 THEN Signed(a) ELSE 0), q + d * Weight[k - 1],
                          (y1 \div 2) + (IF d = 1 THEN Half ELSE 0))
<1> DEFINE w == Weight[k - 1]
           u == Weight[Width - k]
           B == b \div Weight[k]
           m == b % Weight[k]
           h == B \div 2
           bit == B % 2
           S == Signed(a)
           q2 == q + d * w
<1>1. /\ Width \in Nat /\ k \in 1..(Width - 1)
      /\ k - 1 \in 0..(Width - 1) /\ (k - 1) + 1 = k /\ k \in 0..(Width - 1) /\ k \in 0..Width
      /\ Width - k \in 0..(Width - 1) /\ (Width - k) + 1 = Width + 1 - k
      /\ k - 1 \in Nat /\ Width - k \in Nat /\ (k - 1) + (Width - k) = Width - 1
      /\ k - 1 \in 0..Width /\ Width - k \in 0..Width
  BY WeightFacts
<1>2. /\ Weight[k] = 2 * w /\ Weight[k + 1] = 2 * Weight[k]
      /\ Weight[Width + 1 - k] = 2 * u
      /\ w \in Nat \ {0} /\ u \in Nat \ {0} /\ Weight[k] \in Nat \ {0}
  BY <1>1, WeightFacts
<1>3. w * u = Half
  <2>1. (k - 1) + (Width - k) <= Width
    BY <1>1
  <2>2. Weight[k - 1] * Weight[Width - k] = Weight[(k - 1) + (Width - k)]
    BY <1>1, <2>1, WeightProduct
  <2>3. QED
    BY <1>1, <2>2, WeightFacts
<1>4. /\ B \in Nat /\ m \in Nat /\ B = 2 * h + bit /\ h \in Nat /\ bit \in {0, 1}
      /\ S \in Int /\ b \in Nat
  <2>1. b \in Nat /\ S \in Int
    BY HalfAssumption DEF Word, Size, Signed
  <2>2. B \in Nat /\ m \in 0..(Weight[k] - 1)
    BY <1>2, <2>1, DivisionFacts, Zenon
  <2> HIDE DEF B, m
  <2>3. QED
    BY <1>2, <2>1, <2>2
<1>5. b \div Weight[k + 1] = h /\ b % Weight[k + 1] = m + bit * Weight[k]
  BY <1>2, <1>4, NextBit
<1>6. q \in 0..(w - 1) /\ y1 = q * (2 * u) + B /\ sum * w + q = m * S
  BY <1>2 DEF Multiplied
<1> HIDE DEF w, u, B, m, h, bit, S
<1>7. q \in Nat /\ q * u \in Nat /\ q * (2 * u) = 2 * (q * u)
  BY <1>2, <1>6
<1>8. y1 = 2 * (q * u + h) + bit
  BY <1>4, <1>6, <1>7
<1>9. y1 \div 2 = q * u + h /\ y1 % 2 = bit
  <2> DEFINE half == q * u + h
  <2>1. half \in Nat
    BY <1>4, <1>7
  <2> HIDE DEF half
  <2>2. y1 = 2 * half + bit
    BY <1>8 DEF half
  <2>3. QED
    BY <1>4, <2>1, <2>2 DEF half
<1>10. q2 \in 0..(Weight[k] - 1)
  BY <1>2, <1>6
<1>11. (y1 \div 2) + (IF d = 1 THEN Half ELSE 0) = q2 * u + h
  <2>1. q2 * u = q * u + d * (w * u)
    BY <1>2, <1>7
  <2>2. d * (w * u) = IF d = 1 THEN Half ELSE 0
    BY <1>3, HalfAssumption
  <2>3. (IF d = 1 THEN Half ELSE 0) \in Nat
    BY HalfAssumption
  <2>4. QED
    BY <1>4, <1>7, <1>9, <2>1, <2>2, <2>3
<1>12. (p + (IF bit = 1 THEN S ELSE 0)) * Weight[k] + q2 = (m + bit * Weight[k]) * S
  <2>1. (IF bit = 1 THEN S ELSE 0) = bit * S
    BY <1>4
  <2>2. sum * w = p * (2 * w) + d * w
    BY <1>2
  <2>3. (p + bit * S) * (2 * w) = p * (2 * w) + (bit * (2 * w)) * S
    BY <1>2, <1>4
  <2>4. (m + bit * (2 * w)) * S = m * S + (bit * (2 * w)) * S
    BY <1>2, <1>4
  <2>5. /\ p * (2 * w) \in Int /\ d * w \in Int /\ (bit * (2 * w)) * S \in Int
        /\ m * S \in Int /\ sum * w \in Int
    BY <1>2, <1>4
  <2>6. QED
    BY <1>2, <1>4, <1>6, <1>7, <2>1, <2>2, <2>3, <2>4, <2>5
<1>13. (k + 1) - 1 = k /\ Width + 1 - (k + 1) = Width - k
  BY <1>1
<1> HIDE DEF q2
<1>14. Multiplied(k + 1, p + (IF bit = 1 THEN S ELSE 0), q2,
                  (y1 \div 2) + (IF d = 1 THEN Half ELSE 0))
  BY <1>5, <1>10, <1>11, <1>12, <1>13, Zenon DEF Multiplied, u, S
<1>15. QED
  BY <1>9, <1>14, Zenon DEF q2, S, w

\* The first step has no sum yet.
LEMMA FirstStep ==
    ASSUME a \in Word, b \in Word
    PROVE  Multiplied(1, 0 + (IF b % 2 = 1 THEN Signed(a) ELSE 0), 0, b \div 2)
<1>1. Weight[0] = 1 /\ Weight[1] = 2 /\ Weight[Width] \in Nat
  <2>1. 0 \in 0..(Width - 1) /\ 0 + 1 = 1 /\ Width \in 0..Width
    BY WeightFacts
  <2>2. QED
    BY <2>1, WeightFacts
<1>2. b \in Nat /\ Signed(a) \in Int
  BY HalfAssumption DEF Word, Size, Signed
<1>3. 1 - 1 = 0 /\ Width + 1 - 1 = Width
  BY WeightFacts
<1>4. 0 \in 0..(1 - 1) /\ b \div 2 = 0 * Weight[Width] + (b \div 2)
  BY <1>1, <1>2
<1>5. (0 + (IF b % 2 = 1 THEN Signed(a) ELSE 0)) * 1 + 0 = (b % 2) * Signed(a)
  <2>1. b % 2 \in {0, 1}
    BY <1>2
  <2>2. CASE b % 2 = 1
    BY <1>2, <2>2
  <2>3. CASE b % 2 = 0
    BY <1>2, <2>3
  <2>4. QED
    BY <2>1, <2>2, <2>3
<1>6. QED
  BY <1>1, <1>3, <1>4, <1>5, Zenon DEF Multiplied

\* What y has of the product is what it has above the bits of b.
LEMMA UsedUp ==
    ASSUME NEW k \in 1..Width, NEW sum, NEW q, NEW y1, b \in Word, Multiplied(k, sum, q, y1)
    PROVE  y1 \div Weight[Width + 1 - k] = q
<1> DEFINE u == Weight[Width - k]
           B == b \div Weight[k]
<1>1. /\ Width \in Nat /\ k \in 0..Width /\ Width - k \in 0..(Width - 1)
      /\ Width - k \in 0..Width /\ (Width - k) + 1 = Width + 1 - k
      /\ k \in Nat /\ Width - k \in Nat /\ k + (Width - k) = Width /\ k - 1 \in 0..Width
  BY WeightFacts
<1>2. /\ Weight[Width + 1 - k] = 2 * u /\ u \in Nat \ {0} /\ Weight[k] \in Nat \ {0}
      /\ Weight[k - 1] \in Nat
  BY <1>1, WeightFacts
<1>3. Weight[k] * u = Size
  <2>1. k + (Width - k) <= Width
    BY <1>1
  <2>2. Weight[k] * Weight[Width - k] = Weight[k + (Width - k)]
    BY <1>1, <2>1, WeightProduct
  <2>3. QED
    BY <1>1, <2>2, WeightFacts
<1>4. b \in Nat /\ b < Size /\ Size \in Nat
  BY HalfAssumption DEF Word, Size
<1>5. B \in Nat /\ b = B * Weight[k] + (b % Weight[k]) /\ b % Weight[k] \in 0..(Weight[k] - 1)
  BY <1>2, <1>4, DivisionFacts, Zenon
<1> HIDE DEF B, u
<1>6. B < u
  <2>1. B * Weight[k] < u * Weight[k]
    BY <1>2, <1>3, <1>4, <1>5
  <2>2. QED
    BY <1>2, <1>5, <2>1, ProductOrder
<1>7. q \in Nat /\ y1 = q * (2 * u) + B
  BY <1>2 DEF Multiplied, B
<1>8. 2 * u \in Nat \ {0} /\ B \in 0..(2 * u - 1) /\ q \in Int
  BY <1>2, <1>5, <1>6, <1>7
<1>9. (q * (2 * u) + B) \div (2 * u) = q
  BY <1>8, Division
<1>10. QED
  BY <1>2, <1>7, <1>9, Zenon

\* After the last step on b, and one that only shifts, the product is complete.
LEMMA LastStep ==
    ASSUME NEW sum, NEW p \in Int, NEW d \in {0, 1}, NEW q, NEW y1, NEW h \in Word,
           a \in Word, b \in Word,
           sum = 2 * p + d, Signed(h) = p, Multiplied(Width, sum, q, y1)
    PROVE  LET l == (y1 \div 2) + IF d = 1 THEN Half ELSE 0
           IN  Routines!SignedDouble(h * Size + l) = Signed(a) * b
<1> DEFINE l == (y1 \div 2) + IF d = 1 THEN Half ELSE 0
           S == Signed(a)
<1>1. /\ Width \in Nat /\ Width \in 1..Width /\ Width + 1 - Width = 1
      /\ Weight[1] = 2 /\ Weight[Width - 1] = Half /\ Weight[Width] = Size
  <2>1. 0 \in 0..(Width - 1) /\ 0 + 1 = 1
    BY WeightFacts
  <2>2. QED
    BY <2>1, WeightFacts
<1>2. Half \in Nat \ {0} /\ Size = 2 * Half /\ b \in Nat /\ b < Size /\ S \in Int
  BY HalfAssumption DEF Word, Size, Signed
<1>3. b % Size = b /\ Size \in Nat \ {0}
  BY <1>2
<1>4. q \in 0..(Half - 1) /\ sum * Half + q = b * S
  BY <1>1, <1>3, Zenon DEF Multiplied
<1>5. y1 \div 2 = q
  <2>1. y1 \div Weight[Width + 1 - Width] = q
    BY <1>1, UsedUp
  <2>2. QED
    BY <1>1, <2>1
<1>6. l = q + d * Half /\ l \in Word
  <2>1. CASE d = 0
    BY <1>2, <1>4, <1>5, <2>1 DEF Word
  <2>2. CASE d = 1
    BY <1>2, <1>4, <1>5, <2>2 DEF Word
  <2>3. QED
    BY <2>1, <2>2
<1> HIDE DEF l, S
<1>7. Routines!SignedDouble(h * Size + l) = p * Size + l
  BY <1>6, DoubleWordOfWords
<1>8. (2 * p + d) * Half = p * (2 * Half) + d * Half
  BY <1>2
<1>9. p * (2 * Half) \in Int /\ d * Half \in Int /\ b * S \in Int /\ b * S = S * b
  BY <1>2
<1>10. p * Size + l = S * b
  BY <1>2, <1>4, <1>6, <1>8, <1>9
<1>11. QED
  BY <1>7, <1>10, Zenon DEF l, S

-----------------------------------------------------------------------------
(* The routine *)

LEMMA SumIsPartial == Routines!PartialSum = SumOf(icc.n, icc.v, hi)
  BY SameOperators DEF Routines!PartialSum, SumOf

\* The property follows from the invariant while bits of b remain.
LEMMA PartialFollows ==
    routine = "multiply" /\ step \in 2..(Width + 1) /\ b \in Word /\ Partly
        => PartialProductIsExact
<1> SUFFICES ASSUME routine = "multiply", step \in 2..(Width + 1), b \in Word, Partly
             PROVE  PartialProductIsExact
  OBVIOUS
<1>1. PICK q : Multiplied(step - 1, SumOf(icc.n, icc.v, hi), q, y)
  BY DEF Partly
<1>2. Width \in Nat /\ step - 1 \in 1..Width /\ step # Width + 2
  BY WeightFacts
<1>3. y \div Weight[Width + 1 - (step - 1)] = q
  BY <1>1, <1>2, UsedUp
<1>4. SumOf(icc.n, icc.v, hi) * Weight[(step - 1) - 1] + q
          = (b % Weight[step - 1]) * Signed(a)
  BY <1>1, Zenon DEF Multiplied
<1>5. /\ Routines!PartialSum = SumOf(icc.n, icc.v, hi) /\ Routines!Weight = Weight
      /\ Routines!Signed(a) = Signed(a)
  BY SumIsPartial, SameOperators
<1>6. QED
  BY <1>2, <1>3, <1>4, <1>5, Zenon DEF PartialProductIsExact, Routines!PartialProductIsExact

LEMMA StartStep ==
    ASSUME MultiplyInv, Routines!StartMultiply
    PROVE  MultiplyInv'
<1> DEFINE new == Bitwise("and", TRUE, 0, 0, icc, b)
<1>1. /\ routine = "multiply" /\ routine' = "multiply" /\ step = 0 /\ step' = 1
      /\ a' = a /\ b' = b /\ hi' = new.rd /\ y' = new.y /\ icc' = new.icc
  <2>1. Routines!Bitwise("and", TRUE, 0, 0, icc, b) = new
    BY SameBitwise
  <2> DEFINE old == Routines!Bitwise("and", TRUE, 0, 0, icc, b)
  <2> HIDE DEF new
  <2>2. routine = "multiply" /\ step = 0 /\ step' = 1
    BY DEF Routines!StartMultiply, Routines!At
  <2>3. routine' = routine /\ a' = a /\ b' = b
    BY DEF Routines!StartMultiply, Routines!Writes
  <2>4. hi' = old.rd /\ y' = old.y /\ icc' = old.icc
    BY DEF Routines!StartMultiply, Routines!Writes
  <2> HIDE DEF old
  <2>5. old = new
    BY <2>1 DEF old
  <2>6. QED
    BY <2>2, <2>3, <2>4, <2>5
<1>2. Bits(0) \cap Bits(0) = {}
  <2>1. \A i \in 0..(Width - 1) : Weight[i] \in Nat \ {0}
    BY WeightFacts
  <2>2. \A i \in 0..(Width - 1) : (0 \div Weight[i]) % 2 = 0
    BY <2>1
  <2>3. QED
    BY <2>2 DEF Bits
<1>3. OfBits(Bits(0) \cap Bits(0)) = 0
  BY <1>2, OfBitsIsWord
<1>4. new.rd = 0 /\ new.y = b /\ new.icc = Codes(0, FALSE, FALSE)
  BY <1>3 DEF Bitwise
<1>5. Codes(0, FALSE, FALSE).n = sign(0) /\ Codes(0, FALSE, FALSE).v = FALSE
  BY Zenon DEF Codes
<1>6. sign(0) = FALSE
  BY HalfAssumption DEF sign
<1>7. hi' = 0 /\ y' = b' /\ icc'.n = FALSE /\ icc'.v = FALSE
  BY <1>1, <1>4, <1>5, <1>6, Zenon
<1>8. a' \in Word /\ b' \in Word
  BY <1>1 DEF MultiplyInv
<1>9. step' = 1 /\ step' \in Nat /\ step' \notin 2..(Width + 1) /\ step' # Width + 2
  BY <1>1, WeightFacts
<1>10. PartialProductIsExact'
  BY <1>9 DEF PartialProductIsExact, Routines!PartialProductIsExact
<1>11. QED
  BY <1>7, <1>8, <1>9, <1>10, Zenon DEF MultiplyInv

LEMMA MultiplyStepStep ==
    ASSUME MultiplyInv, Routines!MultiplyStep
    PROVE  MultiplyInv'
<1> DEFINE new == MulStep(hi, a, icc, y)
           p == Signed((hi \div 2) + IF icc.n # icc.v THEN Half ELSE 0)
           d == hi % 2
           ps == SumOf(icc.n, icc.v, hi)
           next == SumOf(new.icc.n, new.icc.v, new.rd)
<1>1. /\ routine = "multiply" /\ routine' = "multiply" /\ a' = a /\ b' = b
      /\ step \in 1..Width /\ step' = step + 1
      /\ hi' = new.rd /\ y' = new.y /\ icc' = new.icc
  BY SameOperators DEF Routines!MultiplyStep, Routines!At, Routines!Writes
<1>2. /\ a \in Word /\ b \in Word
      /\ step = 1 => hi = 0 /\ y = b /\ icc.n = FALSE /\ icc.v = FALSE
      /\ step \in 2..(Width + 1) =>
             /\ hi \in Word
             /\ icc.n \in BOOLEAN /\ icc.v \in BOOLEAN /\ (icc.n <=> sign(hi))
             /\ \E q : Multiplied(step - 1, ps, q, y)
  BY <1>1 DEF MultiplyInv, Partly
<1>3. hi \in Word /\ icc.n \in BOOLEAN /\ icc.v \in BOOLEAN /\ (icc.n <=> sign(hi))
  <2>1. step = 1 \/ step \in 2..(Width + 1)
    BY <1>1, WeightFacts
  <2>2. 0 \in Word /\ ~sign(0)
    BY HalfAssumption DEF Word, Size, sign
  <2>3. QED
    BY <1>2, <2>1, <2>2
<1>4. /\ p \in Int /\ ps = 2 * p + d
      /\ new.y = (y \div 2) + IF d = 1 THEN Half ELSE 0
      /\ new.rd \in Word /\ new.icc.n \in BOOLEAN /\ new.icc.v \in BOOLEAN
      /\ new.icc.n <=> sign(new.rd)
      /\ next = p + IF y % 2 = 1 THEN Signed(a) ELSE 0
  BY <1>2, <1>3, MulStepFacts
<1>5. d \in {0, 1}
  BY <1>3, HalfAssumption DEF Word, Size
<1> HIDE DEF new, p, d, ps, next
<1>6. \E q : Multiplied(step, next, q, new.y)
  <2>1. CASE step = 1
    <3>1. p = 0 /\ d = 0
      <4>1. hi = 0 /\ icc.n = icc.v
        BY <1>2, <2>1
      <4>2. (hi \div 2) + (IF icc.n # icc.v THEN Half ELSE 0) = 0 /\ hi % 2 = 0
        BY <4>1
      <4>3. Signed(0) = 0
        BY HalfAssumption DEF Signed, sign
      <4>4. QED
        BY <4>2, <4>3 DEF p, d
    <3>2. Multiplied(1, 0 + (IF b % 2 = 1 THEN Signed(a) ELSE 0), 0, b \div 2)
      BY <1>2, FirstStep
    <3>3. y = b
      BY <1>2, <2>1
    <3>4. b \div 2 + 0 = b \div 2
      BY <1>2, HalfAssumption DEF Word, Size
    <3>5. new.y = b \div 2
      BY <1>4, <3>1, <3>3, <3>4
    <3>6. next = 0 + (IF b % 2 = 1 THEN Signed(a) ELSE 0)
      BY <1>4, <3>1, <3>3
    <3>7. QED
      BY <2>1, <3>2, <3>5, <3>6, Zenon
  <2>2. CASE step # 1
    <3>1. step \in 2..(Width + 1) /\ step - 1 \in 1..(Width - 1) /\ (step - 1) + 1 = step
      BY <1>1, <2>2, WeightFacts
    <3>2. PICK q : Multiplied(step - 1, ps, q, y)
      BY <1>2, <3>1
    <3>3. Multiplied((step - 1) + 1, p + (IF y % 2 = 1 THEN Signed(a) ELSE 0),
                     q + d * Weight[(step - 1) - 1],
                     (y \div 2) + (IF d = 1 THEN Half ELSE 0))
      BY <1>2, <1>4, <1>5, <3>1, <3>2, OneStep
    <3>4. QED
      BY <1>4, <3>1, <3>3, Zenon
  <2>3. QED
    BY <2>1, <2>2
<1>7. step' - 1 = step /\ step' \in 2..(Width + 1) /\ step' # 1 /\ step' \in Nat
  BY <1>1, WeightFacts
<1>8. hi' \in Word /\ icc'.n \in BOOLEAN /\ icc'.v \in BOOLEAN /\ (icc'.n <=> sign(hi'))
  BY <1>1, <1>4, Zenon
<1>9. Partly'
  <2>1. PICK q : Multiplied(step, next, q, new.y)
    BY <1>6
  <2>2. next = SumOf(icc'.n, icc'.v, hi')
    BY <1>1, Zenon DEF next
  <2>3. Multiplied(step' - 1, SumOf(icc'.n, icc'.v, hi'), q, y')
    BY <1>1, <1>7, <2>1, <2>2, Zenon
  <2>4. QED
    BY <1>1, <2>3, Zenon DEF Multiplied, Partly
<1>10. PartialProductIsExact'
  <2>1. (routine = "multiply" /\ step \in 2..(Width + 1) /\ b \in Word /\ Partly
            => PartialProductIsExact)'
    BY PartialFollows, PTL
  <2>2. QED
    BY <1>1, <1>2, <1>7, <1>9, <2>1
<1>11. QED
  BY <1>1, <1>2, <1>7, <1>8, <1>9, <1>10, Zenon DEF MultiplyInv

LEMMA FinishStep ==
    ASSUME MultiplyInv, Routines!FinishMultiply
    PROVE  MultiplyInv'
<1> DEFINE new == MulStep(hi, 0, icc, y)
           operand1 == (hi \div 2) + IF icc.n # icc.v THEN Half ELSE 0
           p == Signed(operand1)
           d == hi % 2
           ps == SumOf(icc.n, icc.v, hi)
<1>1. /\ routine = "multiply" /\ routine' = "multiply" /\ a' = a /\ b' = b
      /\ step = Width + 1 /\ step' = step + 1
      /\ hi' = new.rd /\ lo' = new.y
  BY SameOperators DEF Routines!FinishMultiply, Routines!At, Routines!Writes
<1>2. /\ step \in 2..(Width + 1) /\ step - 1 = Width
      /\ step' = Width + 2 /\ step' \in Nat /\ step' \notin 2..(Width + 1) /\ step' # 1
  BY <1>1, WeightFacts
<1>3. /\ a \in Word /\ b \in Word /\ hi \in Word
      /\ icc.n \in BOOLEAN /\ icc.v \in BOOLEAN /\ (icc.n <=> sign(hi))
      /\ \E q : Multiplied(Width, ps, q, y)
  BY <1>1, <1>2 DEF MultiplyInv, Partly
<1>4. 0 \in Word
  BY HalfAssumption DEF Word, Size
<1>5. /\ p \in Int /\ ps = 2 * p + d
      /\ new.y = (y \div 2) + IF d = 1 THEN Half ELSE 0
      /\ new.rd \in Word /\ new.rd = operand1
  BY <1>3, <1>4, MulStepFacts
<1>6. d \in {0, 1}
  BY <1>3, HalfAssumption DEF Word, Size
<1>7. Signed(new.rd) = p
  BY <1>5, Zenon
<1> HIDE DEF new, operand1, p, d, ps
<1>8. Routines!SignedDouble(new.rd * Size + new.y) = Signed(a) * b
  <2>1. PICK q : Multiplied(Width, ps, q, y)
    BY <1>3
  <2>2. Routines!SignedDouble(new.rd * Size + ((y \div 2) + IF d = 1 THEN Half ELSE 0)) = Signed(a) * b
    BY <1>3, <1>5, <1>6, <1>7, <2>1, LastStep
  <2>3. QED
    BY <1>5, <2>2, Zenon
<1>9. Routines!SignedDouble(Routines!Result)' = Signed(a) * b
  <2>1. Routines!Result' = new.rd * Size + new.y
    BY <1>1, SameOperators DEF Routines!Result
  <2>2. QED
    BY <1>8, <2>1 DEF Routines!SignedDouble, Routines!High
<1>10. PartialProductIsExact'
  BY <1>1, <1>2, <1>9, SameOperators, Zenon
  DEF PartialProductIsExact, Routines!PartialProductIsExact
<1>11. QED
  BY <1>1, <1>2, <1>3, <1>10, Zenon DEF MultiplyInv

LEMMA NextMultiply == MultiplyInv /\ [Routines!Next]_(Routines!vars) => MultiplyInv'
<1> SUFFICES ASSUME MultiplyInv, [Routines!Next]_(Routines!vars) PROVE MultiplyInv'
  OBVIOUS
<1>1. CASE Routines!AddLow \/ Routines!AddHigh \/ Routines!SubtractLow \/ Routines!SubtractHigh
  <2>1. routine' # "multiply"
    BY <1>1 DEF Routines!AddLow, Routines!AddHigh, Routines!SubtractLow, Routines!SubtractHigh,
                Routines!At, Routines!Writes
  <2>2. QED
    BY <2>1 DEF MultiplyInv
<1>2. CASE UNCHANGED Routines!vars
  <2>1. UNCHANGED <<routine, a, b, step, hi, lo, y, icc>>
    BY <1>2 DEF Routines!vars
  <2>2. PartialProductIsExact <=> PartialProductIsExact'
    BY <2>1 DEF PartialProductIsExact, Routines!PartialProductIsExact, Routines!PartialSum,
                Routines!Result, Routines!SignedDouble, Routines!High
  <2>3. Partly <=> Partly'
    BY <2>1, Zenon DEF Partly, Multiplied
  <2>4. QED
    BY <2>1, <2>2, <2>3, Zenon DEF MultiplyInv
<1>3. QED
  BY <1>1, <1>2, StartStep, MultiplyStepStep, FinishStep DEF Routines!Next

\* For words of every width: a loop of MULScc multiplies a signed word by one
\* without a sign, every bit of the product in its place after every step.
THEOREM PartialProductsAreAlwaysExact == Routines!Spec => []PartialProductIsExact
<1>1. Routines!Init => MultiplyInv
  <2> SUFFICES ASSUME Routines!Init, routine = "multiply"
               PROVE  /\ a \in Word /\ b \in Word /\ step \in Nat
                      /\ step # 1 /\ step \notin 2..(Width + 1) /\ step # Width + 2
    BY Zenon DEF MultiplyInv, PartialProductIsExact, Routines!PartialProductIsExact
  <2>1. a \in Word /\ b \in Word /\ step = 0
    BY SameOperators DEF Routines!Init
  <2>2. QED
    BY <2>1, WeightFacts
<1>2. MultiplyInv => PartialProductIsExact
  BY Zenon DEF MultiplyInv, PartialProductIsExact, Routines!PartialProductIsExact
<1>3. QED
  BY <1>1, <1>2, NextMultiply, PTL DEF Routines!Spec

-----------------------------------------------------------------------------
(* Floating point *)

\* The codes of a comparison and the conditions 1 to 7 they meet.
LEMMA ComparisonTable ==
    ASSUME NEW code
    PROVE  /\ Floats!check_fcondition(0, code) = FALSE
           /\ Floats!check_fcondition(1, code) <=> code \in {"L", "G", "U"}
           /\ Floats!check_fcondition(2, code) <=> code \in {"L", "G"}
           /\ Floats!check_fcondition(3, code) <=> code \in {"U", "L"}
           /\ Floats!check_fcondition(4, code) <=> code \in {"L"}
           /\ Floats!check_fcondition(5, code) <=> code \in {"U", "G"}
           /\ Floats!check_fcondition(6, code) <=> code \in {"G"}
           /\ Floats!check_fcondition(7, code) <=> code \in {"U"}
  BY DEF Floats!check_fcondition, Floats!fconditions

\* Conditions 8 to 15 are the opposites of 0 to 7.
LEMMA ComparisonOpposites ==
    ASSUME NEW code, NEW cond \in 0..7
    PROVE  Floats!check_fcondition(cond + 8, code) <=> ~Floats!check_fcondition(cond, code)
<1>1. cond \in {0, 1, 2, 3, 4, 5, 6, 7}
  OBVIOUS
<1>2. /\ Floats!check_fcondition(8, code) = TRUE
      /\ Floats!check_fcondition(9, code) <=> code \notin {"L", "G", "U"}
      /\ Floats!check_fcondition(10, code) <=> code \notin {"L", "G"}
      /\ Floats!check_fcondition(11, code) <=> code \notin {"U", "L"}
      /\ Floats!check_fcondition(12, code) <=> code \notin {"L"}
      /\ Floats!check_fcondition(13, code) <=> code \notin {"U", "G"}
      /\ Floats!check_fcondition(14, code) <=> code \notin {"G"}
      /\ Floats!check_fcondition(15, code) <=> code \notin {"U"}
  BY DEF Floats!check_fcondition, Floats!fconditions
<1>3. /\ 0 + 8 = 8 /\ 1 + 8 = 9 /\ 2 + 8 = 10 /\ 3 + 8 = 11 /\ 4 + 8 = 12
      /\ 5 + 8 = 13 /\ 6 + 8 = 14 /\ 7 + 8 = 15
  OBVIOUS
<1>4. QED
  BY <1>1, <1>2, <1>3, ComparisonTable

FloatInv ==
    /\ op.name = "fcmp" =>
           op.a \in Floats!Value /\ op.b \in Floats!Value /\ fcc = Floats!compare_floating(op.a, op.b)
    /\ op.name = "ftoi" => op.a \in Floats!Value /\ op.result = Floats!saturate_int32(op.a)

LEMMA NextFloat == FloatInv /\ [Floats!Next]_(Floats!vars) => FloatInv'
<1> SUFFICES ASSUME FloatInv, [Floats!Next]_(Floats!vars) PROVE FloatInv'
  OBVIOUS
<1>1. ASSUME NEW u \in Floats!Value, NEW v \in Floats!Value, Floats!Arithmetic(u, v) PROVE FloatInv'
  BY <1>1 DEF Floats!Arithmetic, Floats!Computes, FloatInv
<1>2. ASSUME NEW u \in Floats!Value, NEW v \in Floats!Value, Floats!Fcmp(u, v) PROVE FloatInv'
  BY <1>2 DEF Floats!Fcmp, FloatInv
<1>3. ASSUME NEW v \in Floats!Value, Floats!ToInteger(v) PROVE FloatInv'
  BY <1>3 DEF Floats!ToInteger, FloatInv
<1>4. ASSUME NEW v \in Floats!Value, Floats!Moves(v) PROVE FloatInv'
  BY <1>4 DEF Floats!Moves, FloatInv
<1>5. CASE Floats!Retire
  BY <1>5 DEF Floats!Retire, Floats!Idle, FloatInv
<1>6. CASE UNCHANGED Floats!vars
  BY <1>6 DEF Floats!vars, FloatInv
<1>7. QED
  BY <1>1, <1>2, <1>3, <1>4, <1>5, <1>6 DEF Floats!Next, Floats!Instruction

LEMMA FloatsAreCompared == FloatInv => FloatConditionsCompare
<1> SUFFICES ASSUME FloatInv, op.name = "fcmp" PROVE FloatConditionsCompare
  BY DEF FloatConditionsCompare, Floats!FloatConditionsCompare
<1> DEFINE ordered == ~Floats!is_nan(op.a) /\ ~Floats!is_nan(op.b)
           less == ordered /\ Floats!Number(op.a) < Floats!Number(op.b)
           greater == ordered /\ Floats!Number(op.a) > Floats!Number(op.b)
<1>1. op.a \in Floats!Value /\ op.b \in Floats!Value /\ fcc = Floats!compare_floating(op.a, op.b)
  BY DEF FloatInv
<1>2. Floats!Number(op.a) \in Int /\ Floats!Number(op.b) \in Int
  BY <1>1 DEF Floats!Number, Floats!Value
<1>3. /\ less <=> fcc = "L"
      /\ greater <=> fcc = "G"
      /\ ~ordered <=> fcc = "U"
  BY <1>1, <1>2 DEF Floats!compare_floating
<1>4. /\ Floats!check_fcondition(4, fcc) <=> less
      /\ Floats!check_fcondition(6, fcc) <=> greater
      /\ Floats!check_fcondition(7, fcc) <=> ~ordered
      /\ Floats!check_fcondition(1, fcc) <=> less \/ greater \/ ~ordered
      /\ Floats!check_fcondition(2, fcc) <=> less \/ greater
      /\ Floats!check_fcondition(3, fcc) <=> less \/ ~ordered
      /\ Floats!check_fcondition(5, fcc) <=> greater \/ ~ordered
  <2> HIDE DEF less, greater, ordered
  <2>1. QED
    BY <1>3, ComparisonTable
<1>5. \A cond \in 0..7 : Floats!check_fcondition(cond + 8, fcc)
                             <=> ~Floats!check_fcondition(cond, fcc)
  BY ComparisonOpposites
<1>6. QED
  BY <1>4, <1>5, Zenon DEF FloatConditionsCompare, Floats!FloatConditionsCompare

\* For numbers of every size: after an fcmp the sixteen conditions compare, and
\* of NaNs say that they have no order.
THEOREM FloatConditionsAlwaysCompare == Floats!Spec => []FloatConditionsCompare
<1>1. Floats!Init => FloatInv
  BY DEF Floats!Init, Floats!Idle, FloatInv
<1>2. QED
  BY <1>1, NextFloat, FloatsAreCompared, PTL DEF Floats!Spec

LEMMA ConversionsTruncate == FloatInv => ConversionTruncates
<1> SUFFICES ASSUME FloatInv, op.name = "ftoi", ~Floats!is_nan(op.a) PROVE ConversionTruncates
  BY DEF ConversionTruncates, Floats!ConversionTruncates
<1> DEFINE s == op.a.size
           number == Floats!Number(op.a)
           res == op.result
           Distance(i) == Floats!Magnitude(number - 2 * i)
           TowardsZero(i) == Floats!Magnitude(2 * i) <= Floats!Magnitude(number) /\ 2 * i * number >= 0
<1>1. /\ s \in Nat /\ op.a.sign \in {-1, 1} /\ number = op.a.sign * s
      /\ res = Floats!saturate_int32(op.a)
  BY DEF FloatInv, Floats!Value, Floats!Number
<1>2. IntLimit \in Nat \ {0} /\ Floats!Integer = (-IntLimit)..(IntLimit - 1)
  BY IntLimitAssumption DEF Floats!Integer
<1> HIDE DEF s, number, res
<1>3. CASE op.a.sign = 1
  <2>1. number = s /\ s \div 2 \in Nat /\ 1 * (s \div 2) = s \div 2
    BY <1>1, <1>3
  <2>2. res = IF s \div 2 > IntLimit - 1 THEN IntLimit - 1 ELSE s \div 2
    BY <1>1, <1>2, <1>3, <2>1 DEF Floats!saturate_int32, s
  <2>3. res \in 0..(IntLimit - 1) /\ 2 * res <= s
    BY <1>1, <1>2, <2>1, <2>2
  <2>4. \A i \in 0..(IntLimit - 1) : 2 * i <= s => i <= res
    BY <1>1, <1>2, <2>1, <2>2
  <2>5. res \in Floats!Integer
    BY <1>2, <2>3
  <2>6. TowardsZero(res)
    <3>1. (2 * res) * s >= 0 /\ 2 * res * number = (2 * res) * s
      BY <1>1, <2>1, <2>3
    <3>2. QED
      BY <1>1, <2>1, <2>3, <3>1 DEF Floats!Magnitude
  <2>7. ASSUME NEW i \in Floats!Integer, TowardsZero(i) PROVE Distance(res) <= Distance(i)
    <3>1. i \in Int /\ i <= IntLimit - 1
      BY <1>2
    <3>2. CASE i >= 0
      <4>1. i <= res
        BY <1>1, <1>2, <2>1, <2>4, <2>7, <3>1, <3>2 DEF Floats!Magnitude
      <4>2. QED
        BY <1>1, <2>1, <2>3, <3>1, <4>1 DEF Floats!Magnitude
    <3>3. CASE i < 0
      BY <1>1, <2>1, <2>3, <3>1, <3>3 DEF Floats!Magnitude
    <3>4. QED
      BY <3>1, <3>2, <3>3
  <2>8. QED
    BY <2>5, <2>6, <2>7, Zenon DEF ConversionTruncates, Floats!ConversionTruncates, number, res
<1>4. CASE op.a.sign = -1
  <2>1. number = -s /\ s \div 2 \in Nat /\ (-1) * (s \div 2) = -(s \div 2)
    BY <1>1, <1>4
  <2>2. res = IF s \div 2 > IntLimit THEN -IntLimit ELSE -(s \div 2)
    BY <1>1, <1>2, <1>4, <2>1 DEF Floats!saturate_int32, s
  <2> DEFINE m == IF s \div 2 > IntLimit THEN IntLimit ELSE s \div 2
  <2>3. m \in 0..IntLimit /\ 2 * m <= s /\ res = -m
    BY <1>1, <1>2, <2>1, <2>2
  <2>4. \A i \in 0..IntLimit : 2 * i <= s => i <= m
    BY <1>1, <1>2, <2>1, <2>2
  <2> HIDE DEF m
  <2>5. res \in Floats!Integer
    BY <1>2, <2>3
  <2>6. TowardsZero(res)
    <3>1. (2 * m) * s >= 0 /\ 2 * res * number = (2 * m) * s
      BY <1>1, <2>1, <2>3
    <3>2. QED
      BY <1>1, <2>1, <2>3, <3>1 DEF Floats!Magnitude
  <2>7. ASSUME NEW i \in Floats!Integer, TowardsZero(i) PROVE Distance(res) <= Distance(i)
    <3>1. i \in Int /\ -i <= IntLimit
      BY <1>2
    <3>2. CASE i <= 0
      <4>1. -i <= m
        BY <1>1, <1>2, <2>1, <2>4, <2>7, <3>1, <3>2 DEF Floats!Magnitude
      <4>2. QED
        BY <1>1, <2>1, <2>3, <3>1, <4>1 DEF Floats!Magnitude
    <3>3. CASE i > 0
      BY <1>1, <2>1, <2>3, <3>1, <3>3 DEF Floats!Magnitude
    <3>4. QED
      BY <3>1, <3>2, <3>3
  <2>8. QED
    BY <2>5, <2>6, <2>7, Zenon DEF ConversionTruncates, Floats!ConversionTruncates, number, res
<1>5. QED
  BY <1>1, <1>3, <1>4

\* For numbers and integers of every size: a conversion takes the fraction off,
\* or gives the integer nearest to a number that is none.
THEOREM ConversionsAlwaysTruncate == Floats!Spec => []ConversionTruncates
<1>1. Floats!Init => FloatInv
  BY DEF Floats!Init, Floats!Idle, FloatInv
<1>2. QED
  BY <1>1, NextFloat, ConversionsTruncate, PTL DEF Floats!Spec


-----------------------------------------------------------------------------
(* Arithmetic with infinities and zeroes *)

LEMMA ProductAtLeast ==
    ASSUME NEW p \in Nat, NEW q \in Nat, NEW m \in Nat, NEW n \in Nat, p >= m, q >= n
    PROVE  p * q \in Nat /\ m * n \in Nat /\ p * q >= m * n
<1>1. (p - m) * q >= 0 /\ m * (q - n) >= 0 /\ p * q \in Nat /\ m * n \in Nat
  OBVIOUS
<1>2. (p - m) * q = p * q - m * q /\ m * (q - n) = m * q - m * n
  OBVIOUS
<1>3. QED
  BY <1>1, <1>2

\* What is far enough from 0 to be infinite, and near enough to be 0.
LEMMA HugeFacts ==
    /\ Largest \in Nat \ {0} /\ Floats!Infinite = Largest + 1
    /\ Floats!Infinite \in Nat /\ Floats!Huge \in Nat
    /\ Floats!Huge >= 8
    /\ Floats!Huge >= 4 * Floats!Infinite
    /\ Floats!Huge >= 2 * (Floats!Infinite * Floats!Infinite)
    /\ Floats!Huge * Floats!Huge \in Nat
    /\ Floats!Huge * Floats!Huge >= 8 * Floats!Huge
    /\ Floats!Huge * Floats!Huge >= Floats!Infinite * (4 * Floats!Huge)
<1>1. Largest \in Nat \ {0} /\ Floats!Infinite = Largest + 1
  BY LargestAssumption DEF Floats!Infinite
<1> DEFINE i == Floats!Infinite
           h == Floats!Huge
<1>2. i \in Nat /\ i >= 2
  BY <1>1
<1>3. h = 2 * i * i
  BY DEF Floats!Huge
<1> HIDE DEF i, h
<1>4. i * i \in Nat /\ i * i >= 2 * i
  BY <1>2, ProductAtLeast
<1>5. h = 2 * (i * i)
  BY <1>2, <1>3
<1>6. h \in Nat /\ h >= 8 /\ h >= 4 * i /\ h >= 2 * (i * i)
  BY <1>2, <1>4, <1>5
<1>7. h * h \in Nat /\ h * h >= 8 * h /\ h * h >= (4 * i) * h
  BY <1>2, <1>6, ProductAtLeast
<1>8. (4 * i) * h = i * (4 * h)
  BY <1>2, <1>6
<1>9. QED
  BY <1>1, <1>2, <1>6, <1>7, <1>8 DEF i, h

\* The nearest size.
LEMMA RoundedFacts ==
    ASSUME NEW num \in Nat, NEW den \in Nat \ {0}
    PROVE  /\ num >= Floats!Infinite * den => Floats!Rounded(num, den) = Floats!Infinite
           /\ 2 * num <= den => Floats!Rounded(num, den) = 0
           /\ \A n \in 1..Largest :
                  2 * (n * den) < 2 * num + den /\ 2 * num <= 2 * (n * den) + den
                      => Floats!Rounded(num, den) = n
<1> DEFINE nearest == (2 * num + den - 1) \div (2 * den)
           rest == (2 * num + den - 1) % (2 * den)
<1>1. 2 * num + den - 1 \in Nat /\ 2 * den \in Nat \ {0}
  OBVIOUS
<1>2. nearest \in Nat /\ rest \in 0..(2 * den - 1) /\ 2 * num + den - 1 = nearest * (2 * den) + rest
  BY <1>1, DivisionFacts, Zenon
<1>3. Floats!Rounded(num, den) = IF nearest > Largest THEN Floats!Infinite ELSE nearest
  BY DEF Floats!Rounded
<1> HIDE DEF nearest, rest
<1>4. nearest * (2 * den) = 2 * (nearest * den) /\ nearest * den \in Nat
  BY <1>2
<1>5. ASSUME num >= Floats!Infinite * den PROVE nearest > Largest
  <2>1. Floats!Infinite * den = Largest * den + den /\ Largest * den \in Nat
    BY HugeFacts
  <2>2. Largest * den < nearest * den
    BY <1>2, <1>4, <1>5, <2>1
  <2>3. QED
    BY <1>2, <2>2, HugeFacts, ProductOrder
<1>6. ASSUME NEW n \in Nat, 2 * (n * den) < 2 * num + den, 2 * num <= 2 * (n * den) + den
      PROVE  nearest = n
  <2>1. (n + 1) * den = n * den + den /\ (nearest + 1) * den = nearest * den + den /\ n * den \in Nat
    BY <1>2
  <2>2. nearest * den < (n + 1) * den /\ n * den < (nearest + 1) * den
    BY <1>2, <1>4, <1>6, <2>1
  <2>3. nearest < n + 1 /\ n < nearest + 1
    BY <1>2, <2>2, ProductOrder
  <2>4. QED
    BY <1>2, <2>3
<1>7. 2 * num <= den => nearest = 0
  <2>1. 0 * den = 0
    OBVIOUS
  <2>2. QED
    BY <1>6, <2>1
<1>8. \A n \in 1..Largest :
          2 * (n * den) < 2 * num + den /\ 2 * num <= 2 * (n * den) + den => nearest = n
  BY <1>6
<1>9. /\ nearest > Largest => Floats!Rounded(num, den) = Floats!Infinite
      /\ \A n \in 0..Largest : nearest = n => Floats!Rounded(num, den) = n
  BY <1>2, <1>3, LargestAssumption
<1>10. QED
  BY <1>5, <1>7, <1>8, <1>9, LargestAssumption

\* A size, as a fraction of naturals.
IsFraction(p) == p[1] \in Nat \ {0} /\ p[2] \in Nat \ {0}

LEMMA SizesFacts ==
    ASSUME NEW v \in Floats!Value, ~Floats!is_nan(v), NEW p \in Floats!Sizes(v)
    PROVE  /\ IsFraction(p)
           /\ v.size \in 0..Floats!Infinite
           /\ Floats!is_inf(v) => p[1] >= Floats!Huge /\ p[2] = 1
           /\ Floats!is_zero(v) => p[1] = 1 /\ p[2] >= Floats!Huge
           /\ ~Floats!is_inf(v) /\ ~Floats!is_zero(v) =>
                  p[1] = v.size /\ p[2] = 1 /\ v.size \in 1..Largest
<1>1. v.size \in 0..Floats!Infinite
  BY HugeFacts DEF Floats!Value, Floats!is_nan, Floats!Quiet, Floats!Signaling
<1> DEFINE h == Floats!Huge
           k == Floats!Huge * Floats!Huge
<1>h. h \in Nat \ {0} /\ k \in Nat \ {0} /\ k >= h
  BY HugeFacts
<1>2. CASE Floats!is_inf(v)
  <2>1. v.size # 0
    BY <1>2, HugeFacts DEF Floats!is_inf
  <2>2. Floats!Sizes(v) = {<<h, 1>>, <<k, 1>>}
    <3>1. ~Floats!is_zero(v)
      BY <2>1 DEF Floats!is_zero
    <3>2. QED
      BY <1>2, <3>1 DEF Floats!Sizes
  <2> HIDE DEF h, k
  <2>3. p[1] \in {h, k} /\ p[2] = 1
    BY <2>2
  <2>4. IsFraction(p) /\ p[1] >= h
    BY <1>h, <2>3 DEF IsFraction
  <2>5. QED
    BY <1>1, <1>2, <2>1, <2>3, <2>4 DEF Floats!is_zero, h
<1>3. CASE Floats!is_zero(v)
  <2>1. v.size = 0 /\ ~Floats!is_inf(v)
    BY <1>3, HugeFacts DEF Floats!is_zero, Floats!is_inf
  <2>2. Floats!Sizes(v) = {<<1, h>>, <<1, k>>}
    BY <1>3, <2>1, Zenon DEF Floats!Sizes
  <2> HIDE DEF h, k
  <2>3. p[2] \in {h, k} /\ p[1] = 1
    BY <2>2
  <2>4. IsFraction(p) /\ p[2] >= h
    BY <1>h, <2>3 DEF IsFraction
  <2>5. QED
    BY <1>1, <1>3, <2>1, <2>3, <2>4 DEF h
<1>4. CASE ~Floats!is_inf(v) /\ ~Floats!is_zero(v)
  <2>1. p = <<v.size, 1>>
    BY <1>4 DEF Floats!Sizes
  <2>2. v.size \in 1..Largest
    BY <1>1, <1>4, HugeFacts DEF Floats!is_inf, Floats!is_zero
  <2>3. QED
    BY <1>1, <1>4, <2>1, <2>2 DEF IsFraction
<1>5. QED
  BY <1>2, <1>3, <1>4

LEMMA SizesHave ==
    ASSUME NEW v
    PROVE  /\ Floats!is_inf(v) => {<<Floats!Huge, 1>>, <<Floats!Huge * Floats!Huge, 1>>} \subseteq Floats!Sizes(v)
           /\ Floats!is_zero(v) => {<<1, Floats!Huge>>, <<1, Floats!Huge * Floats!Huge>>} \subseteq Floats!Sizes(v)
           /\ ~Floats!is_inf(v) /\ ~Floats!is_zero(v) => <<v.size, 1>> \in Floats!Sizes(v)
           /\ \E p : p \in Floats!Sizes(v)
<1>1. Floats!is_zero(v) => ~Floats!is_inf(v)
  BY HugeFacts DEF Floats!is_inf, Floats!is_zero
<1>2. QED
  BY <1>1 DEF Floats!Sizes

\* ArithmeticIsIEEE for two operands that are numbers.
ExactOf(name, u, v, p, q) ==
    Floats!Exact(name, <<u.sign * p[1], p[2]>>, <<v.sign * q[1], q[2]>>)

AlwaysSize(name, u, v, size) ==
    \A p \in Floats!Sizes(u), q \in Floats!Sizes(v) : Floats!SizeOf(ExactOf(name, u, v, p, q)) = size
NoSize(name, u, v) ==
    \E p, p1 \in Floats!Sizes(u), q, q1 \in Floats!Sizes(v) :
        Floats!SizeOf(ExactOf(name, u, v, p, q)) # Floats!SizeOf(ExactOf(name, u, v, p1, q1))
AlwaysNegative(name, u, v) ==
    \A p \in Floats!Sizes(u), q \in Floats!Sizes(v) : ExactOf(name, u, v, p, q)[1] < 0

IsIEEE(name, u, v, result) ==
    \/ NoSize(name, u, v) /\ Floats!is_nan(result)
    \/ /\ AlwaysSize(name, u, v, result.size)
       /\ result.sign = IF AlwaysNegative(name, u, v) THEN -1 ELSE 1

LEMMA ExactNear ==
    ASSUME NEW name, NEW u, NEW v, NEW x
    PROVE  x \in Floats!ExactResults(name, u, v)
               <=> \E p \in Floats!Sizes(u), q \in Floats!Sizes(v) : x = ExactOf(name, u, v, p, q)
<1>1. x \in Floats!ExactResults(name, u, v)
          <=> \E p1 \in Floats!Near(u), q1 \in Floats!Near(v) : x = Floats!Exact(name, p1, q1)
  BY DEF Floats!ExactResults
<1>2. \A p1 : p1 \in Floats!Near(u) <=> \E p \in Floats!Sizes(u) : p1 = <<u.sign * p[1], p[2]>>
  BY Zenon DEF Floats!Near
<1>3. \A q1 : q1 \in Floats!Near(v) <=> \E q \in Floats!Sizes(v) : q1 = <<v.sign * q[1], q[2]>>
  BY Zenon DEF Floats!Near
<1>4. ASSUME x \in Floats!ExactResults(name, u, v)
      PROVE  \E p \in Floats!Sizes(u), q \in Floats!Sizes(v) : x = ExactOf(name, u, v, p, q)
  <2>1. PICK p1 \in Floats!Near(u), q1 \in Floats!Near(v) : x = Floats!Exact(name, p1, q1)
    BY <1>1, <1>4, Zenon
  <2>2. PICK p \in Floats!Sizes(u) : p1 = <<u.sign * p[1], p[2]>>
    BY <1>2, <2>1, Zenon
  <2>3. PICK q \in Floats!Sizes(v) : q1 = <<v.sign * q[1], q[2]>>
    BY <1>3, <2>1, Zenon
  <2>4. QED
    BY <2>1, <2>2, <2>3, Zenon DEF ExactOf
<1>5. ASSUME NEW p \in Floats!Sizes(u), NEW q \in Floats!Sizes(v), x = ExactOf(name, u, v, p, q)
      PROVE  x \in Floats!ExactResults(name, u, v)
  BY <1>1, <1>2, <1>3, <1>5, Zenon DEF ExactOf
<1>6. QED
  BY <1>4, <1>5, Zenon

LEMMA IEEEResult ==
    ASSUME op.name \in {"fadd", "fsub", "fmul", "fdiv"},
           ~Floats!is_nan(op.a), ~Floats!is_nan(op.b), IsIEEE(op.name, op.a, op.b, op.result)
    PROVE  Floats!ArithmeticIsIEEE
<1> DEFINE exact == Floats!ExactResults(op.name, op.a, op.b)
<1>1. \A x : x \in exact <=> \E p \in Floats!Sizes(op.a), q \in Floats!Sizes(op.b) :
                                 x = ExactOf(op.name, op.a, op.b, p, q)
  BY ExactNear
<1> HIDE DEF exact
<1>2. (\A x \in exact : x[1] < 0) <=> AlwaysNegative(op.name, op.a, op.b)
  BY <1>1 DEF AlwaysNegative
<1>3. (\E x1, x2 \in exact : Floats!SizeOf(x1) # Floats!SizeOf(x2)) <=> NoSize(op.name, op.a, op.b)
  BY <1>1 DEF NoSize
<1>4. (\A x \in exact : Floats!SizeOf(x) = op.result.size)
          <=> AlwaysSize(op.name, op.a, op.b, op.result.size)
  BY <1>1 DEF AlwaysSize
<1>5. AlwaysSize(op.name, op.a, op.b, op.result.size) => ~NoSize(op.name, op.a, op.b)
  BY DEF AlwaysSize, NoSize
<1>6. Floats!is_nan(op.a) \/ Floats!is_nan(op.b) <=> FALSE
  OBVIOUS
<1>7. QED
  BY <1>2, <1>3, <1>4, <1>5, <1>6, Zenon DEF Floats!ArithmeticIsIEEE, IsIEEE, exact

\* The four operations on two fractions.
LEMMA ExactIs ==
    ASSUME NEW p, NEW q
    PROVE  /\ Floats!Exact("fadd", p, q) = <<p[1] * q[2] + q[1] * p[2], p[2] * q[2]>>
           /\ Floats!Exact("fsub", p, q) = <<p[1] * q[2] - q[1] * p[2], p[2] * q[2]>>
           /\ Floats!Exact("fmul", p, q) = <<p[1] * q[1], 2 * p[2] * q[2]>>
           /\ Floats!Exact("fdiv", p, q) =
                  <<2 * p[1] * q[2] * (IF q[1] < 0 THEN -1 ELSE 1), p[2] * Floats!Magnitude(q[1])>>
<1>1. /\ "fsub" # "fadd" /\ "fmul" # "fadd" /\ "fmul" # "fsub"
      /\ "fdiv" # "fadd" /\ "fdiv" # "fsub" /\ "fdiv" # "fmul"
  OBVIOUS
<1>2. QED
  BY <1>1, Zenon DEF Floats!Exact

LEMMA Positive == ASSUME NEW m \in Nat \ {0}, NEW n \in Nat \ {0} PROVE m * n \in Nat \ {0}
  OBVIOUS

LEMMA ProductOf ==
    ASSUME NEW u \in Floats!Value, NEW v \in Floats!Value, NEW p, NEW q, IsFraction(p), IsFraction(q)
    PROVE  /\ Floats!SizeOf(ExactOf("fmul", u, v, p, q)) = Floats!Rounded(p[1] * q[1], 2 * (p[2] * q[2]))
           /\ ExactOf("fmul", u, v, p, q)[1] < 0 <=> u.sign # v.sign
<1> DEFINE m == p[1]
           d == p[2]
           n == q[1]
           e == q[2]
           s == u.sign
           t == v.sign
<1>1. m \in Nat \ {0} /\ d \in Nat \ {0} /\ n \in Nat \ {0} /\ e \in Nat \ {0}
  BY DEF IsFraction
<1>2. s \in {-1, 1} /\ t \in {-1, 1}
  BY DEF Floats!Value
<1> DEFINE num == (s * m) * (t * n)
           den == 2 * d * e
<1>3. ExactOf("fmul", u, v, p, q) = <<num, den>>
  <2>1. ExactOf("fmul", u, v, p, q) = Floats!Exact("fmul", <<s * m, d>>, <<t * n, e>>)
    BY DEF ExactOf
  <2> HIDE DEF s, t, m, n, d, e
  <2>2. QED
    BY <2>1, ExactIs
<1> HIDE DEF s, t, m, n, d, e
<1>4. /\ s = t => num = m * n
      /\ s # t => num = -(m * n)
      /\ den = 2 * (d * e)
  BY <1>1, <1>2
<1>5. m * n \in Nat \ {0}
  BY <1>1, Positive
<1> HIDE DEF num, den
<1>6. Floats!Magnitude(num) = m * n /\ (num < 0 <=> s # t)
  BY <1>4, <1>5 DEF Floats!Magnitude
<1>7. QED
  BY <1>3, <1>4, <1>6 DEF Floats!SizeOf, s, t, m, n, d, e

LEMMA QuotientOf ==
    ASSUME NEW u \in Floats!Value, NEW v \in Floats!Value, NEW p, NEW q, IsFraction(p), IsFraction(q)
    PROVE  /\ Floats!SizeOf(ExactOf("fdiv", u, v, p, q)) = Floats!Rounded(2 * (p[1] * q[2]), p[2] * q[1])
           /\ ExactOf("fdiv", u, v, p, q)[1] < 0 <=> u.sign # v.sign
<1> DEFINE m == p[1]
           d == p[2]
           n == q[1]
           e == q[2]
           s == u.sign
           t == v.sign
<1>1. m \in Nat \ {0} /\ d \in Nat \ {0} /\ n \in Nat \ {0} /\ e \in Nat \ {0}
  BY DEF IsFraction
<1>2. s \in {-1, 1} /\ t \in {-1, 1}
  BY DEF Floats!Value
<1> DEFINE num == 2 * (s * m) * e * (IF t * n < 0 THEN -1 ELSE 1)
           den == d * Floats!Magnitude(t * n)
<1>3. ExactOf("fdiv", u, v, p, q) = <<num, den>>
  <2>1. ExactOf("fdiv", u, v, p, q) = Floats!Exact("fdiv", <<s * m, d>>, <<t * n, e>>)
    BY DEF ExactOf
  <2> HIDE DEF s, t, m, n, d, e
  <2>2. QED
    BY <2>1, ExactIs
<1> HIDE DEF s, t, m, n, d, e
<1>4. Floats!Magnitude(t * n) = n /\ (t * n < 0 <=> t = -1)
  BY <1>1, <1>2 DEF Floats!Magnitude
<1>5. /\ s = t => num = 2 * (m * e)
      /\ s # t => num = -(2 * (m * e))
      /\ den = d * n
  <2>1. num = 2 * (s * m) * e * t
    BY <1>1, <1>2, <1>4
  <2>2. QED
    BY <1>1, <1>2, <1>4, <2>1
<1>6. m * e \in Nat \ {0}
  BY <1>1, Positive
<1> HIDE DEF num, den
<1>7. Floats!Magnitude(num) = 2 * (m * e) /\ (num < 0 <=> s # t)
  BY <1>5, <1>6 DEF Floats!Magnitude
<1>8. QED
  BY <1>3, <1>5, <1>7 DEF Floats!SizeOf, s, t, m, n, d, e

\* The number of a sum, apart from its signs.
SumNumber(u, v, p, q) == u.sign * (p[1] * q[2]) + v.sign * (q[1] * p[2])

LEMMA SumOfFractions ==
    ASSUME NEW u \in Floats!Value, NEW v \in Floats!Value, NEW p, NEW q, IsFraction(p), IsFraction(q)
    PROVE  ExactOf("fadd", u, v, p, q) = <<SumNumber(u, v, p, q), p[2] * q[2]>>
<1> DEFINE m == p[1]
           d == p[2]
           n == q[1]
           e == q[2]
           s == u.sign
           t == v.sign
<1>1. m \in Nat \ {0} /\ d \in Nat \ {0} /\ n \in Nat \ {0} /\ e \in Nat \ {0}
  BY DEF IsFraction
<1>2. s \in {-1, 1} /\ t \in {-1, 1}
  BY DEF Floats!Value
<1>3. ExactOf("fadd", u, v, p, q) = <<(s * m) * e + (t * n) * d, d * e>>
  <2>1. ExactOf("fadd", u, v, p, q) = Floats!Exact("fadd", <<s * m, d>>, <<t * n, e>>)
    BY DEF ExactOf
  <2> HIDE DEF s, t, m, n, d, e
  <2>2. QED
    BY <2>1, ExactIs
<1> HIDE DEF s, t, m, n, d, e
<1>4. (s * m) * e = s * (m * e) /\ (t * n) * d = t * (n * d)
  BY <1>1, <1>2
<1>5. QED
  BY <1>3, <1>4 DEF SumNumber, s, t, m, n, d, e

\* A difference is the sum with the opposite.
LEMMA DifferenceOf ==
    ASSUME NEW u \in Floats!Value, NEW v \in Floats!Value, NEW p, NEW q, IsFraction(p), IsFraction(q)
    PROVE  ExactOf("fsub", u, v, p, q) = ExactOf("fadd", u, Floats!Negated(v), p, q)
<1> DEFINE m == p[1]
           d == p[2]
           n == q[1]
           e == q[2]
           s == u.sign
           t == v.sign
<1>1. m \in Nat \ {0} /\ d \in Nat \ {0} /\ n \in Nat \ {0} /\ e \in Nat \ {0}
  BY DEF IsFraction
<1>2. s \in {-1, 1} /\ t \in {-1, 1} /\ Floats!Negated(v).sign = -t
  BY DEF Floats!Value, Floats!Negated, Floats!set_sign
<1>3. /\ ExactOf("fsub", u, v, p, q) = <<(s * m) * e - (t * n) * d, d * e>>
      /\ ExactOf("fadd", u, Floats!Negated(v), p, q) = <<(s * m) * e + ((-t) * n) * d, d * e>>
  <2>1. /\ ExactOf("fsub", u, v, p, q) = Floats!Exact("fsub", <<s * m, d>>, <<t * n, e>>)
        /\ ExactOf("fadd", u, Floats!Negated(v), p, q) = Floats!Exact("fadd", <<s * m, d>>, <<(-t) * n, e>>)
    BY <1>2 DEF ExactOf
  <2> HIDE DEF s, t, m, n, d, e
  <2>2. QED
    BY <2>1, ExactIs
<1> HIDE DEF s, t, m, n, d, e
<1>4. ((-t) * n) * d = -((t * n) * d)
  BY <1>1, <1>2
<1>5. (s * m) * e \in Int /\ (t * n) * d \in Int
  BY <1>1, <1>2
<1>6. QED
  BY <1>3, <1>4, <1>5

LEMMA SignsOfSizes ==
    ASSUME NEW u \in Floats!Value, NEW v \in Floats!Value, ~Floats!is_nan(u), ~Floats!is_nan(v)
    PROVE  /\ AlwaysNegative("fmul", u, v) <=> u.sign # v.sign
           /\ AlwaysNegative("fdiv", u, v) <=> u.sign # v.sign
<1>1. \A p \in Floats!Sizes(u) : IsFraction(p)
  BY SizesFacts
<1>2. \A q \in Floats!Sizes(v) : IsFraction(q)
  BY SizesFacts
<1>3. PICK p \in Floats!Sizes(u), q \in Floats!Sizes(v) : TRUE
  BY SizesHave
<1>4. QED
  BY <1>1, <1>2, <1>3, ProductOf, QuotientOf DEF AlwaysNegative

\* The cases of a product: something infinite and nothing zero, something zero
\* and nothing infinite, both.
LEMMA InfiniteProduct ==
    ASSUME NEW m \in Nat, NEW n \in Nat \ {0}, m >= Floats!Huge
    PROVE  Floats!Rounded(m * n, 2 * (1 * 1)) = Floats!Infinite
<1>1. m * n \in Nat /\ m * n >= Floats!Huge * 1
  BY HugeFacts, ProductAtLeast
<1>2. m * n >= Floats!Infinite * 2
  BY <1>1, HugeFacts
<1>3. QED
  BY <1>1, <1>2, RoundedFacts

LEMMA ZeroProduct ==
    ASSUME NEW n \in 1..Largest, NEW d \in Nat, NEW e \in Nat \ {0}, d >= Floats!Huge
    PROVE  Floats!Rounded(1 * n, 2 * (d * e)) = 0
<1>1. d * e \in Nat /\ d * e >= Floats!Huge * 1
  BY HugeFacts, ProductAtLeast
<1>2. 2 * (1 * n) <= 2 * (d * e) /\ 2 * (d * e) \in Nat \ {0} /\ 1 * n \in Nat
  BY <1>1, HugeFacts
<1>3. QED
  BY <1>2, RoundedFacts

LEMMA NoProduct ==
    /\ Floats!Rounded(Floats!Huge * 1, 2 * (1 * Floats!Huge)) = 0
    /\ Floats!Rounded((Floats!Huge * Floats!Huge) * 1, 2 * (1 * Floats!Huge)) = Floats!Infinite
<1> DEFINE h == Floats!Huge
           k == Floats!Huge * Floats!Huge
<1>1. h \in Nat \ {0} /\ k \in Nat /\ k >= Floats!Infinite * (4 * h)
  BY HugeFacts
<1> HIDE DEF h, k
<1>2. Floats!Infinite * (4 * h) = 2 * (Floats!Infinite * (2 * h)) /\ Floats!Infinite * (2 * h) \in Nat
  BY <1>1, HugeFacts
<1>3. h * 1 = h /\ k * 1 = k /\ 2 * (1 * h) = 2 * h
  BY <1>1
<1>4. Floats!Rounded(h, 2 * h) = 0
  BY <1>1, RoundedFacts
<1>5. k >= Floats!Infinite * (2 * h) /\ 2 * h \in Nat \ {0}
  BY <1>1, <1>2
<1>6. Floats!Rounded(k, 2 * h) = Floats!Infinite
  BY <1>1, <1>5, RoundedFacts
<1>7. QED
  BY <1>3, <1>4, <1>6 DEF h, k

LEMMA SignProduct ==
    ASSUME NEW u \in Floats!Value, NEW v \in Floats!Value
    PROVE  u.sign * v.sign = IF u.sign # v.sign THEN -1 ELSE 1
  BY DEF Floats!Value

LEMMA NaNIsNaN == Floats!is_nan(Floats!get_nan)
<1>1. Floats!Quiet \in Int
  BY HugeFacts DEF Floats!Quiet
<1>2. QED
  BY <1>1 DEF Floats!get_nan, Floats!set_sign, Floats!is_nan

LEMMA ProductIsIEEE ==
    ASSUME NEW u \in Floats!Value, NEW v \in Floats!Value, ~Floats!is_nan(u), ~Floats!is_nan(v)
    PROVE  IsIEEE("fmul", u, v, Floats!do_fmul(u, v))
<1> DEFINE res == Floats!do_fmul(u, v)
           Size0(p, q) == Floats!SizeOf(ExactOf("fmul", u, v, p, q))
<1>1. ASSUME NEW p \in Floats!Sizes(u), NEW q \in Floats!Sizes(v)
      PROVE  /\ IsFraction(p) /\ IsFraction(q)
             /\ Size0(p, q) = Floats!Rounded(p[1] * q[1], 2 * (p[2] * q[2]))
  BY SizesFacts, ProductOf
<1>2. AlwaysNegative("fmul", u, v) <=> u.sign # v.sign
  BY SignsOfSizes
<1>3. Floats!is_inf(u) => ~Floats!is_zero(u)
  BY HugeFacts DEF Floats!is_inf, Floats!is_zero
<1>4. Floats!is_inf(v) => ~Floats!is_zero(v)
  BY HugeFacts DEF Floats!is_inf, Floats!is_zero
<1>5. ASSUME NEW size, AlwaysSize("fmul", u, v, size), res = Floats!set_sign(size, u.sign * v.sign)
      PROVE  IsIEEE("fmul", u, v, res)
  <2>1. res.size = size /\ res.sign = u.sign * v.sign
    BY <1>5 DEF Floats!set_sign
  <2>2. QED
    BY <1>2, <1>5, <2>1, SignProduct DEF IsIEEE
<1>6. CASE (Floats!is_inf(u) /\ Floats!is_zero(v)) \/ (Floats!is_zero(u) /\ Floats!is_inf(v))
  <2>1. res = Floats!get_nan
    BY <1>6 DEF Floats!do_fmul, Floats!NaNOr
  <2>2. Floats!is_nan(res)
    BY <2>1, NaNIsNaN
  <2>3. Floats!Infinite # 0
    BY HugeFacts
  <2> DEFINE h == Floats!Huge
             k == Floats!Huge * Floats!Huge
  <2>4. CASE Floats!is_inf(u) /\ Floats!is_zero(v)
    <3>1. <<h, 1>> \in Floats!Sizes(u) /\ <<k, 1>> \in Floats!Sizes(u) /\ <<1, h>> \in Floats!Sizes(v)
      BY <2>4, SizesHave
    <3>2. Size0(<<h, 1>>, <<1, h>>) = 0 /\ Size0(<<k, 1>>, <<1, h>>) = Floats!Infinite
      BY <1>1, <3>1, NoProduct
    <3>3. NoSize("fmul", u, v)
      BY <2>3, <3>1, <3>2, Zenon DEF NoSize
    <3>4. QED
      BY <2>2, <3>3 DEF IsIEEE
  <2>5. CASE Floats!is_zero(u) /\ Floats!is_inf(v)
    <3>1. <<h, 1>> \in Floats!Sizes(v) /\ <<k, 1>> \in Floats!Sizes(v) /\ <<1, h>> \in Floats!Sizes(u)
      BY <2>5, SizesHave
    <3>2. h \in Nat /\ k \in Nat
      BY HugeFacts
    <3>3. Size0(<<1, h>>, <<h, 1>>) = 0 /\ Size0(<<1, h>>, <<k, 1>>) = Floats!Infinite
      <4>1. 1 * h = h * 1 /\ 1 * k = k * 1 /\ h * 1 = 1 * h
        BY <3>2
      <4> HIDE DEF k
      <4>2. QED
        BY <1>1, <3>1, <4>1, NoProduct DEF k
    <3>4. NoSize("fmul", u, v)
      BY <2>3, <3>1, <3>3, Zenon DEF NoSize
    <3>5. QED
      BY <2>2, <3>4 DEF IsIEEE
  <2>6. QED
    BY <1>6, <2>4, <2>5
<1>7. CASE (Floats!is_inf(u) /\ ~Floats!is_zero(v)) \/ (~Floats!is_zero(u) /\ Floats!is_inf(v))
  <2>1. res = Floats!set_sign(Floats!Infinite, u.sign * v.sign)
    BY <1>3, <1>4, <1>7 DEF Floats!do_fmul, Floats!NaNOr
  <2>2. ASSUME NEW p \in Floats!Sizes(u), NEW q \in Floats!Sizes(v)
        PROVE  Size0(p, q) = Floats!Infinite
    <3>1. Size0(p, q) = Floats!Rounded(p[1] * q[1], 2 * (p[2] * q[2])) /\ IsFraction(p) /\ IsFraction(q)
      BY <1>1
    <3>2. p[2] = 1 /\ q[2] = 1
      BY <1>3, <1>4, <1>7, SizesFacts
    <3>3. p[1] \in Nat \ {0} /\ q[1] \in Nat \ {0}
      BY <3>1 DEF IsFraction
    <3>4. p[1] >= Floats!Huge \/ q[1] >= Floats!Huge
      BY <1>7, SizesFacts
    <3> DEFINE m == p[1]
               n == q[1]
    <3>5. p[1] * q[1] = q[1] * p[1]
      <4> HIDE DEF m, n
      <4>1. m * n = n * m
        BY <3>3 DEF m, n
      <4>2. QED
        BY <4>1 DEF m, n
    <3>6. Floats!Rounded(m * n, 2 * (1 * 1)) = Floats!Infinite
      <4> HIDE DEF m, n
      <4>1. m \in Nat \ {0} /\ n \in Nat \ {0} /\ m * n = n * m
            /\ (m >= Floats!Huge \/ n >= Floats!Huge)
        BY <3>3, <3>4, <3>5 DEF m, n
      <4>2. QED
        BY <4>1, InfiniteProduct
    <3>7. QED
      BY <3>1, <3>2, <3>6
  <2>3. AlwaysSize("fmul", u, v, Floats!Infinite)
    BY <2>2 DEF AlwaysSize
  <2>4. QED
    BY <1>5, <2>1, <2>3
<1>8. CASE ~Floats!is_inf(u) /\ ~Floats!is_inf(v) /\ (Floats!is_zero(u) \/ Floats!is_zero(v))
  <2>1. res = Floats!set_sign(0, u.sign * v.sign)
    BY <1>8 DEF Floats!do_fmul, Floats!NaNOr
  <2>2. ASSUME NEW p \in Floats!Sizes(u), NEW q \in Floats!Sizes(v)
        PROVE  Size0(p, q) = 0
    <3> DEFINE m == p[1]
               d == p[2]
               n == q[1]
               e == q[2]
    <3>1. /\ Size0(p, q) = Floats!Rounded(m * n, 2 * (d * e))
          /\ m \in Nat \ {0} /\ d \in Nat \ {0} /\ n \in Nat \ {0} /\ e \in Nat \ {0}
      BY <1>1 DEF IsFraction
    <3>2. m \in 1..Largest /\ (Floats!is_zero(u) => m = 1 /\ d >= Floats!Huge)
      BY <1>8, SizesFacts, HugeFacts
    <3>3. n \in 1..Largest /\ (Floats!is_zero(v) => n = 1 /\ e >= Floats!Huge)
      BY <1>8, SizesFacts, HugeFacts
    <3> HIDE DEF m, d, n, e
    <3>4. CASE Floats!is_zero(u)
      BY <3>1, <3>2, <3>3, <3>4, ZeroProduct
    <3>5. CASE Floats!is_zero(v)
      <4>1. m * n = n * m /\ d * e = e * d
        BY <3>1
      <4>2. QED
        BY <3>1, <3>2, <3>3, <3>5, <4>1, ZeroProduct
    <3>6. QED
      BY <1>8, <3>4, <3>5
  <2>3. AlwaysSize("fmul", u, v, 0)
    BY <2>2 DEF AlwaysSize
  <2>4. QED
    BY <1>5, <2>1, <2>3
<1>9. CASE ~Floats!is_inf(u) /\ ~Floats!is_inf(v) /\ ~Floats!is_zero(u) /\ ~Floats!is_zero(v)
  <2> DEFINE size == Floats!Rounded(u.size * v.size, 2)
  <2>1. res = Floats!set_sign(size, u.sign * v.sign)
    BY <1>9 DEF Floats!do_fmul, Floats!NaNOr, Floats!HostProduct
  <2>2. ASSUME NEW p \in Floats!Sizes(u), NEW q \in Floats!Sizes(v)
        PROVE  Size0(p, q) = size
    <3>1. p[1] = u.size /\ p[2] = 1 /\ q[1] = v.size /\ q[2] = 1
      BY <1>9, SizesFacts
    <3>2. 2 * (1 * 1) = 2
      OBVIOUS
    <3>3. QED
      BY <1>1, <3>1, <3>2
  <2>3. AlwaysSize("fmul", u, v, size)
    BY <2>2 DEF AlwaysSize
  <2>4. QED
    BY <1>5, <2>1, <2>3
<1>10. QED
  BY <1>3, <1>4, <1>6, <1>7, <1>8, <1>9

\* The cases of a quotient.
LEMMA InfiniteQuotient ==
    ASSUME NEW m \in Nat \ {0}, NEW n \in 1..Largest, NEW e \in Nat \ {0},
           m >= Floats!Huge \/ e >= Floats!Huge
    PROVE  Floats!Rounded(2 * (m * e), 1 * n) = Floats!Infinite
<1>1. m * e \in Nat /\ m * e >= Floats!Huge
  <2>1. CASE m >= Floats!Huge
    <3>1. m * e >= Floats!Huge * 1 /\ m * e \in Nat
      BY <2>1, HugeFacts, ProductAtLeast
    <3>2. QED
      BY <3>1, HugeFacts
  <2>2. CASE e >= Floats!Huge
    <3>1. m * e >= 1 * Floats!Huge /\ m * e \in Nat
      BY <2>2, HugeFacts, ProductAtLeast
    <3>2. QED
      BY <3>1, HugeFacts
  <2>3. QED
    BY <2>1, <2>2
<1>2. Floats!Infinite * Floats!Infinite >= Floats!Infinite * n
      /\ Floats!Infinite * Floats!Infinite \in Nat /\ Floats!Infinite * n \in Nat
  BY HugeFacts, ProductAtLeast
<1>3. 1 * n = n /\ n \in Nat \ {0}
  OBVIOUS
<1>4. 2 * (m * e) >= Floats!Infinite * n
  BY <1>1, <1>2, HugeFacts
<1>5. QED
  BY <1>1, <1>3, <1>4, RoundedFacts

LEMMA ZeroQuotient ==
    ASSUME NEW m \in 1..Largest, NEW d \in Nat \ {0}, NEW n \in Nat \ {0},
           d >= Floats!Huge \/ n >= Floats!Huge
    PROVE  Floats!Rounded(2 * (m * 1), d * n) = 0
<1>1. d * n \in Nat \ {0} /\ d * n >= Floats!Huge
  <2>1. CASE d >= Floats!Huge
    <3>1. d * n >= Floats!Huge * 1 /\ d * n \in Nat
      BY <2>1, HugeFacts, ProductAtLeast
    <3>2. QED
      BY <3>1, HugeFacts
  <2>2. CASE n >= Floats!Huge
    <3>1. d * n >= 1 * Floats!Huge /\ d * n \in Nat
      BY <2>2, HugeFacts, ProductAtLeast
    <3>2. QED
      BY <3>1, HugeFacts
  <2>3. QED
    BY <2>1, <2>2
<1>2. m * 1 = m /\ 2 * m \in Nat
  OBVIOUS
<1>3. 2 * (2 * m) <= d * n
  BY <1>1, HugeFacts
<1>4. QED
  BY <1>1, <1>2, <1>3, RoundedFacts

LEMMA NoQuotient ==
    LET h == Floats!Huge
        k == Floats!Huge * Floats!Huge
    IN  /\ Floats!Rounded(2 * (h * 1), 1 * k) = 0 /\ Floats!Rounded(2 * (1 * h), k * 1) = 0
        /\ Floats!Rounded(2 * (k * 1), 1 * h) = Floats!Infinite
        /\ Floats!Rounded(2 * (1 * k), h * 1) = Floats!Infinite
<1> DEFINE h == Floats!Huge
           k == Floats!Huge * Floats!Huge
<1>1. /\ h \in Nat \ {0} /\ k \in Nat \ {0} /\ k >= 8 * h /\ k >= Floats!Infinite * (4 * h)
  BY HugeFacts
<1> HIDE DEF h, k
<1>2. Floats!Infinite * (4 * h) = 4 * (Floats!Infinite * h) /\ Floats!Infinite * h \in Nat
  BY <1>1, HugeFacts
<1>3. 1 * k = k /\ k * 1 = k /\ 1 * h = h /\ h * 1 = h
  BY <1>1
<1>4. 2 * k >= Floats!Infinite * h /\ 2 * k \in Nat /\ 2 * h \in Nat /\ 2 * (2 * h) <= k
  BY <1>1, <1>2
<1>5. Floats!Rounded(2 * h, k) = 0 /\ Floats!Rounded(2 * k, h) = Floats!Infinite
  BY <1>1, <1>4, RoundedFacts
<1>6. QED
  BY <1>3, <1>5 DEF h, k

LEMMA QuotientIsIEEE ==
    ASSUME NEW u \in Floats!Value, NEW v \in Floats!Value, ~Floats!is_nan(u), ~Floats!is_nan(v)
    PROVE  IsIEEE("fdiv", u, v, Floats!do_fdiv(u, v))
<1> DEFINE res == Floats!do_fdiv(u, v)
           Size0(p, q) == Floats!SizeOf(ExactOf("fdiv", u, v, p, q))
<1>1. ASSUME NEW p \in Floats!Sizes(u), NEW q \in Floats!Sizes(v)
      PROVE  /\ IsFraction(p) /\ IsFraction(q)
             /\ Size0(p, q) = Floats!Rounded(2 * (p[1] * q[2]), p[2] * q[1])
  BY SizesFacts, QuotientOf
<1>2. AlwaysNegative("fdiv", u, v) <=> u.sign # v.sign
  BY SignsOfSizes
<1>3. Floats!is_inf(u) => ~Floats!is_zero(u)
  BY HugeFacts DEF Floats!is_inf, Floats!is_zero
<1>4. Floats!is_inf(v) => ~Floats!is_zero(v)
  BY HugeFacts DEF Floats!is_inf, Floats!is_zero
<1>5. ASSUME NEW size, AlwaysSize("fdiv", u, v, size), res = Floats!set_sign(size, u.sign * v.sign)
      PROVE  IsIEEE("fdiv", u, v, res)
  <2>1. res.size = size /\ res.sign = u.sign * v.sign
    BY <1>5 DEF Floats!set_sign
  <2>2. QED
    BY <1>2, <1>5, <2>1, SignProduct DEF IsIEEE
<1> DEFINE h == Floats!Huge
           k == Floats!Huge * Floats!Huge
<1>6. CASE (Floats!is_inf(u) /\ Floats!is_inf(v)) \/ (Floats!is_zero(u) /\ Floats!is_zero(v))
  <2>1. res = Floats!get_nan
    BY <1>6 DEF Floats!do_fdiv, Floats!NaNOr, Floats!BothInf
  <2>2. Floats!is_nan(res)
    BY <2>1, NaNIsNaN
  <2>3. Floats!Infinite # 0
    BY HugeFacts
  <2>4. CASE Floats!is_inf(u) /\ Floats!is_inf(v)
    <3>1. /\ <<h, 1>> \in Floats!Sizes(u) /\ <<k, 1>> \in Floats!Sizes(u)
          /\ <<h, 1>> \in Floats!Sizes(v) /\ <<k, 1>> \in Floats!Sizes(v)
      BY <2>4, SizesHave
    <3>2. Size0(<<h, 1>>, <<k, 1>>) = 0 /\ Size0(<<k, 1>>, <<h, 1>>) = Floats!Infinite
      BY <1>1, <3>1, NoQuotient
    <3>3. NoSize("fdiv", u, v)
      BY <2>3, <3>1, <3>2, Zenon DEF NoSize
    <3>4. QED
      BY <2>2, <3>3 DEF IsIEEE
  <2>5. CASE Floats!is_zero(u) /\ Floats!is_zero(v)
    <3>1. /\ <<1, h>> \in Floats!Sizes(u) /\ <<1, k>> \in Floats!Sizes(u)
          /\ <<1, h>> \in Floats!Sizes(v) /\ <<1, k>> \in Floats!Sizes(v)
      BY <2>5, SizesHave
    <3>2. Size0(<<1, k>>, <<1, h>>) = 0 /\ Size0(<<1, h>>, <<1, k>>) = Floats!Infinite
      BY <1>1, <3>1, NoQuotient
    <3>3. NoSize("fdiv", u, v)
      BY <2>3, <3>1, <3>2, Zenon DEF NoSize
    <3>4. QED
      BY <2>2, <3>3 DEF IsIEEE
  <2>6. QED
    BY <1>6, <2>4, <2>5
<1>7. CASE ~Floats!is_inf(v) /\ ~Floats!is_zero(u) /\ (Floats!is_inf(u) \/ Floats!is_zero(v))
  <2>1. res = Floats!set_sign(Floats!Infinite, u.sign * v.sign)
    BY <1>7 DEF Floats!do_fdiv, Floats!NaNOr, Floats!BothInf, Floats!HostQuotient
  <2>2. ASSUME NEW p \in Floats!Sizes(u), NEW q \in Floats!Sizes(v)
        PROVE  Size0(p, q) = Floats!Infinite
    <3> DEFINE m == p[1]
               n == q[1]
               e == q[2]
    <3>1. /\ Size0(p, q) = Floats!Rounded(2 * (m * e), p[2] * n)
          /\ m \in Nat \ {0} /\ e \in Nat \ {0}
      BY <1>1 DEF IsFraction
    <3>2. p[2] = 1 /\ n \in 1..Largest
      BY <1>7, SizesFacts, HugeFacts
    <3>3. m >= Floats!Huge \/ e >= Floats!Huge
      BY <1>7, SizesFacts
    <3> HIDE DEF m, n, e
    <3>4. QED
      BY <3>1, <3>2, <3>3, InfiniteQuotient
  <2>3. AlwaysSize("fdiv", u, v, Floats!Infinite)
    BY <2>2 DEF AlwaysSize
  <2>4. QED
    BY <1>5, <2>1, <2>3
<1>8. CASE ~Floats!is_inf(u) /\ ~Floats!is_zero(v) /\ (Floats!is_inf(v) \/ Floats!is_zero(u))
  <2>1. res = Floats!set_sign(0, u.sign * v.sign)
    BY <1>8 DEF Floats!do_fdiv, Floats!NaNOr, Floats!BothInf
  <2>2. ASSUME NEW p \in Floats!Sizes(u), NEW q \in Floats!Sizes(v)
        PROVE  Size0(p, q) = 0
    <3> DEFINE m == p[1]
               d == p[2]
               n == q[1]
    <3>1. /\ Size0(p, q) = Floats!Rounded(2 * (m * q[2]), d * n)
          /\ d \in Nat \ {0} /\ n \in Nat \ {0}
      BY <1>1 DEF IsFraction
    <3>2. q[2] = 1 /\ m \in 1..Largest
      BY <1>8, SizesFacts, HugeFacts
    <3>3. d >= Floats!Huge \/ n >= Floats!Huge
      BY <1>8, SizesFacts
    <3> HIDE DEF m, d, n
    <3>4. QED
      BY <3>1, <3>2, <3>3, ZeroQuotient
  <2>3. AlwaysSize("fdiv", u, v, 0)
    BY <2>2 DEF AlwaysSize
  <2>4. QED
    BY <1>5, <2>1, <2>3
<1>9. CASE ~Floats!is_inf(u) /\ ~Floats!is_inf(v) /\ ~Floats!is_zero(u) /\ ~Floats!is_zero(v)
  <2> DEFINE size == Floats!Rounded(2 * u.size, v.size)
  <2>1. res = Floats!set_sign(size, u.sign * v.sign)
    BY <1>9 DEF Floats!do_fdiv, Floats!NaNOr, Floats!BothInf, Floats!HostQuotient
  <2>2. ASSUME NEW p \in Floats!Sizes(u), NEW q \in Floats!Sizes(v)
        PROVE  Size0(p, q) = size
    <3>1. p[1] = u.size /\ p[2] = 1 /\ q[1] = v.size /\ q[2] = 1 /\ u.size \in Nat /\ v.size \in Nat
      BY <1>9, SizesFacts
    <3>2. u.size * 1 = u.size /\ 1 * v.size = v.size
      BY <3>1
    <3>3. QED
      BY <1>1, <3>1, <3>2
  <2>3. AlwaysSize("fdiv", u, v, size)
    BY <2>2 DEF AlwaysSize
  <2>4. QED
    BY <1>5, <2>1, <2>3
<1>10. QED
  BY <1>3, <1>4, <1>6, <1>7, <1>8, <1>9

\* The larger of two sizes decides on the sign of a sum.
LEMMA LargerDecides ==
    ASSUME NEW s \in {-1, 1}, NEW t \in {-1, 1}, NEW m \in Nat, NEW n \in Nat, n < m
    PROVE  /\ s * m + t * n \in Int
           /\ s * m + t * n < 0 <=> s = -1
           /\ Floats!Magnitude(s * m + t * n) \in {m - n, m + n}
<1>1. s * m = (IF s = 1 THEN m ELSE -m) /\ t * n = (IF t = 1 THEN n ELSE -n)
  OBVIOUS
<1>2. QED
  BY <1>1 DEF Floats!Magnitude

LEMMA EqualSigns ==
    ASSUME NEW s \in {-1, 1}, NEW m \in Nat \ {0}, NEW n \in Nat \ {0}
    PROVE  /\ s * m + s * n \in Int
           /\ s * m + s * n < 0 <=> s = -1
           /\ Floats!Magnitude(s * m + s * n) = m + n
<1>1. s * m = (IF s = 1 THEN m ELSE -m) /\ s * n = (IF s = 1 THEN n ELSE -n)
  OBVIOUS
<1>2. QED
  BY <1>1 DEF Floats!Magnitude

\* An infinite size and one that is not.
LEMMA InfiniteSum ==
    ASSUME NEW s \in {-1, 1}, NEW t \in {-1, 1}, NEW m \in Nat \ {0}, NEW n \in 1..Largest,
           NEW e \in Nat \ {0}, m >= Floats!Huge
    PROVE  /\ Floats!Rounded(Floats!Magnitude(s * (m * e) + t * n), e) = Floats!Infinite
           /\ s * (m * e) + t * n < 0 <=> s = -1
<1>1. m * e \in Nat /\ m * e >= (4 * Floats!Infinite) * e
  BY HugeFacts, ProductAtLeast
<1>2. (4 * Floats!Infinite) * e = 4 * (Floats!Infinite * e) /\ Floats!Infinite * e \in Nat
  BY HugeFacts
<1>3. Floats!Infinite * e >= Floats!Infinite * 1
  BY HugeFacts, ProductAtLeast
<1>4. Floats!Infinite * e > n
  BY <1>2, <1>3, HugeFacts
<1> DEFINE x == m * e
           i == Floats!Infinite * e
<1> HIDE DEF x, i
<1>5. x \in Nat /\ i \in Nat /\ x >= 4 * i /\ i > n /\ n \in Nat
  BY <1>1, <1>2, <1>4, LargestAssumption DEF x, i
<1>6. /\ Floats!Magnitude(s * x + t * n) \in {x - n, x + n}
      /\ s * x + t * n < 0 <=> s = -1
  <2>1. n < x
    BY <1>5
  <2>2. QED
    BY <1>5, <2>1, LargerDecides
<1>7. PICK num \in {x - n, x + n} : num = Floats!Magnitude(s * x + t * n)
  BY <1>6
<1>8. num \in Nat /\ num >= i
  BY <1>5, <1>7
<1>9. Floats!Rounded(num, e) = Floats!Infinite
  BY <1>8, RoundedFacts DEF i
<1>10. QED
  BY <1>6, <1>7, <1>9 DEF x

\* A size that is not zero and one that is.
LEMMA SumWithZero ==
    ASSUME NEW s \in {-1, 1}, NEW t \in {-1, 1}, NEW m \in 1..Largest, NEW e \in Nat, e >= Floats!Huge
    PROVE  /\ Floats!Rounded(Floats!Magnitude(s * (m * e) + t * 1), e) = m
           /\ s * (m * e) + t * 1 < 0 <=> s = -1
<1>1. e \in Nat \ {0} /\ e >= 8
  BY HugeFacts
<1>2. m * e \in Nat /\ m * e >= 1 * e
  BY <1>1, ProductAtLeast
<1> DEFINE x == m * e
<1> HIDE DEF x
<1>3. x \in Nat /\ x >= e
  BY <1>1, <1>2 DEF x
<1>4. /\ Floats!Magnitude(s * x + t * 1) \in {x - 1, x + 1}
      /\ s * x + t * 1 < 0 <=> s = -1
  <2>1. 1 \in Nat /\ 1 < x
    BY <1>1, <1>3
  <2>2. QED
    BY <1>3, <2>1, LargerDecides
<1>5. PICK num \in {x - 1, x + 1} : num = Floats!Magnitude(s * x + t * 1)
  BY <1>4
<1>6. num \in Nat /\ 2 * x < 2 * num + e /\ 2 * num <= 2 * x + e
  BY <1>1, <1>3, <1>5
<1>7. Floats!Rounded(num, e) = m
  BY <1>1, <1>6, RoundedFacts DEF x
<1>8. QED
  BY <1>4, <1>5, <1>7 DEF x

\* Two that are.
LEMMA SumOfZeroes ==
    ASSUME NEW s \in {-1, 1}, NEW t \in {-1, 1}, NEW d \in Nat, NEW e \in Nat,
           d >= Floats!Huge, e >= Floats!Huge
    PROVE  Floats!Rounded(Floats!Magnitude(s * e + t * d), d * e) = 0
<1>1. d * e \in Nat /\ d * e >= 8 * e /\ d * e >= d * 8
  BY HugeFacts, ProductAtLeast
<1>2. s * e = (IF s = 1 THEN e ELSE -e) /\ t * d = (IF t = 1 THEN d ELSE -d)
  OBVIOUS
<1>3. PICK num \in 0..(d + e) : num = Floats!Magnitude(s * e + t * d)
  BY <1>2 DEF Floats!Magnitude
<1>4. num \in Nat /\ d * e \in Nat \ {0} /\ 2 * num <= d * e
  BY <1>1, <1>3, HugeFacts
<1>5. QED
  BY <1>3, <1>4, RoundedFacts

LEMMA RoundedWhole ==
    /\ Floats!Rounded(0, 1) = 0
    /\ \A n \in 1..Largest : Floats!Rounded(n, 1) = n
    /\ \A n \in Nat : n >= Floats!Infinite => Floats!Rounded(n, 1) = Floats!Infinite
<1>1. 1 \in Nat \ {0} /\ 0 \in Nat /\ 2 * 0 <= 1
  OBVIOUS
<1>2. Floats!Rounded(0, 1) = 0
  BY <1>1, RoundedFacts
<1>3. ASSUME NEW n \in 1..Largest PROVE Floats!Rounded(n, 1) = n
  <2>1. n \in Nat /\ n * 1 = n
    BY LargestAssumption
  <2>2. 2 * (n * 1) < 2 * n + 1 /\ 2 * n <= 2 * (n * 1) + 1
    BY <2>1
  <2>3. QED
    BY <1>1, <2>1, <2>2, RoundedFacts
<1>4. ASSUME NEW n \in Nat, n >= Floats!Infinite PROVE Floats!Rounded(n, 1) = Floats!Infinite
  <2>1. Floats!Infinite * 1 = Floats!Infinite
    BY HugeFacts
  <2>2. QED
    BY <1>1, <1>4, <2>1, RoundedFacts
<1>5. QED
  BY <1>2, <1>3, <1>4

\* The host's sum.
LEMMA HostSumIs ==
    ASSUME NEW u \in Floats!Value, NEW v \in Floats!Value, ~Floats!is_inf(u), ~Floats!is_inf(v)
    PROVE  LET sum == u.sign * u.size + v.sign * v.size
           IN  Floats!HostSum(u, v) =
                   IF sum = 0 THEN Floats!set_sign(0, IF u.sign = v.sign THEN u.sign ELSE 1)
                   ELSE Floats!set_sign(Floats!Rounded(Floats!Magnitude(sum), 1), IF sum < 0 THEN -1 ELSE 1)
<1> DEFINE sum == u.sign * u.size + v.sign * v.size
<1>1. CASE sum = 0
  BY <1>1, Zenon DEF Floats!HostSum
<1>2. CASE sum # 0
  BY <1>2, Zenon DEF Floats!HostSum
<1>3. QED
  BY <1>1, <1>2

\* What the cases of a sum have in common: a size and a sign that are the same
\* for all fractions.
SumsHave(u, v, size, sgn) ==
    \A p \in Floats!Sizes(u), q \in Floats!Sizes(v) :
        /\ Floats!Rounded(Floats!Magnitude(SumNumber(u, v, p, q)), p[2] * q[2]) = size
        /\ SumNumber(u, v, p, q) < 0 <=> sgn = -1

LEMMA SumsHaveIsIEEE ==
    ASSUME NEW u \in Floats!Value, NEW v \in Floats!Value, ~Floats!is_nan(u), ~Floats!is_nan(v),
           NEW result, result.sign \in {-1, 1}, SumsHave(u, v, result.size, result.sign)
    PROVE  IsIEEE("fadd", u, v, result)
<1>1. ASSUME NEW p \in Floats!Sizes(u), NEW q \in Floats!Sizes(v)
      PROVE  /\ ExactOf("fadd", u, v, p, q)[1] = SumNumber(u, v, p, q)
             /\ Floats!SizeOf(ExactOf("fadd", u, v, p, q))
                    = Floats!Rounded(Floats!Magnitude(SumNumber(u, v, p, q)), p[2] * q[2])
  <2>1. IsFraction(p) /\ IsFraction(q)
    BY SizesFacts
  <2>2. ExactOf("fadd", u, v, p, q) = <<SumNumber(u, v, p, q), p[2] * q[2]>>
    BY <2>1, SumOfFractions
  <2>3. QED
    BY <2>2 DEF Floats!SizeOf
<1>2. AlwaysSize("fadd", u, v, result.size)
  BY <1>1 DEF AlwaysSize, SumsHave
<1>3. PICK p \in Floats!Sizes(u), q \in Floats!Sizes(v) : TRUE
  BY SizesHave
<1>4. AlwaysNegative("fadd", u, v) <=> result.sign = -1
  BY <1>1, <1>3 DEF AlwaysNegative, SumsHave
<1>5. QED
  BY <1>2, <1>4 DEF IsIEEE

LEMMA InfiniteAndNot ==
    ASSUME NEW u \in Floats!Value, NEW v \in Floats!Value, ~Floats!is_nan(v),
           Floats!is_inf(u), ~Floats!is_inf(v)
    PROVE  SumsHave(u, v, Floats!Infinite, u.sign) /\ SumsHave(v, u, Floats!Infinite, u.sign)
<1>1. ~Floats!is_nan(u)
  BY HugeFacts DEF Floats!is_inf, Floats!is_nan, Floats!Quiet
<1>2. u.sign \in {-1, 1} /\ v.sign \in {-1, 1}
  BY DEF Floats!Value
<1>3. ASSUME NEW p \in Floats!Sizes(u), NEW q \in Floats!Sizes(v)
      PROVE  /\ Floats!Rounded(Floats!Magnitude(SumNumber(u, v, p, q)), p[2] * q[2]) = Floats!Infinite
             /\ SumNumber(u, v, p, q) < 0 <=> u.sign = -1
             /\ SumNumber(v, u, q, p) = SumNumber(u, v, p, q) /\ q[2] * p[2] = p[2] * q[2]
  <2> DEFINE m == p[1]
             n == q[1]
             e == q[2]
             s == u.sign
             t == v.sign
  <2>1. m \in Nat \ {0} /\ m >= Floats!Huge /\ p[2] = 1 /\ e \in Nat \ {0} /\ n \in 1..Largest
    BY <1>1, SizesFacts, HugeFacts DEF IsFraction
  <2> HIDE DEF m, n, e, s, t
  <2>2. s \in {-1, 1} /\ t \in {-1, 1}
    BY <1>2 DEF s, t
  <2>3. n \in Nat /\ n * 1 = n /\ 1 * e = e /\ e * 1 = e
    BY <2>1, LargestAssumption
  <2>4. /\ SumNumber(u, v, p, q) = s * (m * e) + t * n
        /\ SumNumber(v, u, q, p) = t * n + s * (m * e)
    BY <2>1, <2>3 DEF SumNumber, m, n, e, s, t
  <2>5. t * n + s * (m * e) = s * (m * e) + t * n
    BY <2>1, <2>2, <2>3
  <2>6. /\ Floats!Rounded(Floats!Magnitude(s * (m * e) + t * n), e) = Floats!Infinite
        /\ s * (m * e) + t * n < 0 <=> s = -1
    BY <2>1, <2>2, InfiniteSum
  <2>7. p[2] * q[2] = e /\ q[2] * p[2] = e
    BY <2>1, <2>3 DEF e
  <2>8. QED
    BY <2>4, <2>5, <2>6, <2>7 DEF s
<1>4. QED
  BY <1>3 DEF SumsHave

LEMMA NumberAndZero ==
    ASSUME NEW u \in Floats!Value, NEW v \in Floats!Value, ~Floats!is_nan(u), ~Floats!is_nan(v),
           ~Floats!is_inf(u), ~Floats!is_zero(u), Floats!is_zero(v)
    PROVE  SumsHave(u, v, u.size, u.sign) /\ SumsHave(v, u, u.size, u.sign)
<1>1. u.sign \in {-1, 1} /\ v.sign \in {-1, 1}
  BY DEF Floats!Value
<1>2. ASSUME NEW p \in Floats!Sizes(u), NEW q \in Floats!Sizes(v)
      PROVE  /\ Floats!Rounded(Floats!Magnitude(SumNumber(u, v, p, q)), p[2] * q[2]) = u.size
             /\ SumNumber(u, v, p, q) < 0 <=> u.sign = -1
             /\ SumNumber(v, u, q, p) = SumNumber(u, v, p, q) /\ q[2] * p[2] = p[2] * q[2]
  <2> DEFINE m == u.size
             e == q[2]
             s == u.sign
             t == v.sign
  <2>1. p[1] = m /\ p[2] = 1 /\ m \in 1..Largest /\ q[1] = 1 /\ e \in Nat /\ e >= Floats!Huge
    BY SizesFacts DEF IsFraction
  <2> HIDE DEF m, e, s, t
  <2>2. s \in {-1, 1} /\ t \in {-1, 1}
    BY <1>1 DEF s, t
  <2>3. 1 * 1 = 1 /\ 1 * e = e /\ e * 1 = e /\ m \in Nat
    BY <2>1, LargestAssumption
  <2>4. /\ SumNumber(u, v, p, q) = s * (m * e) + t * 1
        /\ SumNumber(v, u, q, p) = t * 1 + s * (m * e)
    BY <2>1, <2>3 DEF SumNumber, e, s, t
  <2>5. t * 1 + s * (m * e) = s * (m * e) + t * 1
    BY <2>1, <2>2, <2>3
  <2>6. /\ Floats!Rounded(Floats!Magnitude(s * (m * e) + t * 1), e) = m
        /\ s * (m * e) + t * 1 < 0 <=> s = -1
    BY <2>1, <2>2, SumWithZero
  <2>7. p[2] * q[2] = e /\ q[2] * p[2] = e
    BY <2>1, <2>3 DEF e
  <2>8. QED
    BY <2>4, <2>5, <2>6, <2>7 DEF s, m
<1>3. QED
  BY <1>2 DEF SumsHave

LEMMA SumIsIEEE ==
    ASSUME NEW u \in Floats!Value, NEW v \in Floats!Value, ~Floats!is_nan(u), ~Floats!is_nan(v)
    PROVE  IsIEEE("fadd", u, v, Floats!do_fadd(u, v))
<1> DEFINE res == Floats!do_fadd(u, v)
           s == u.sign
           t == v.sign
<1>1. s \in {-1, 1} /\ t \in {-1, 1}
  BY DEF Floats!Value
<1>2. Floats!is_inf(u) => ~Floats!is_zero(u)
  BY HugeFacts DEF Floats!is_inf, Floats!is_zero
<1>3. Floats!is_inf(v) => ~Floats!is_zero(v)
  BY HugeFacts DEF Floats!is_inf, Floats!is_zero
<1> DEFINE h == Floats!Huge
           k == Floats!Huge * Floats!Huge
<1>4. CASE Floats!is_inf(u) /\ Floats!is_inf(v) /\ s = t
  <2>1. res = u /\ u.size = Floats!Infinite
    BY <1>4 DEF Floats!do_fadd, Floats!NaNOr, Floats!BothInf, Floats!is_inf
  <2>2. ASSUME NEW p \in Floats!Sizes(u), NEW q \in Floats!Sizes(v)
        PROVE  /\ Floats!Rounded(Floats!Magnitude(SumNumber(u, v, p, q)), p[2] * q[2]) = Floats!Infinite
               /\ SumNumber(u, v, p, q) < 0 <=> s = -1
    <3> DEFINE m == p[1]
               n == q[1]
    <3>1. m \in Nat \ {0} /\ m >= h /\ p[2] = 1 /\ n \in Nat \ {0} /\ n >= h /\ q[2] = 1
      BY <1>4, SizesFacts DEF IsFraction
    <3> HIDE DEF m, n, s, t, h
    <3>2. m * 1 = m /\ n * 1 = n /\ 1 * 1 = 1
      BY <3>1
    <3>3. SumNumber(u, v, p, q) = s * m + s * n
      BY <1>4, <3>1, <3>2 DEF SumNumber, m, n, s, t
    <3>4. s * m + s * n < 0 <=> s = -1
      BY <1>1, <3>1, EqualSigns
    <3>5. Floats!Magnitude(s * m + s * n) = m + n
      BY <1>1, <3>1, EqualSigns
    <3>6. m + n \in Nat /\ m + n >= Floats!Infinite
      BY <3>1, HugeFacts DEF h
    <3>7. Floats!Rounded(m + n, 1) = Floats!Infinite
      BY <3>6, RoundedWhole
    <3>8. QED
      BY <3>1, <3>2, <3>3, <3>4, <3>5, <3>7
  <2>3. SumsHave(u, v, Floats!Infinite, s)
    BY <2>2 DEF SumsHave
  <2>4. QED
    BY <1>1, <2>1, <2>3, SumsHaveIsIEEE
<1>5. CASE Floats!is_inf(u) /\ Floats!is_inf(v) /\ s # t
  <2>1. res = Floats!get_nan
    BY <1>5 DEF Floats!do_fadd, Floats!NaNOr, Floats!BothInf
  <2>2. Floats!is_nan(res)
    BY <2>1, NaNIsNaN
  <2>3. Floats!Infinite # 0
    BY HugeFacts
  <2>4. /\ <<h, 1>> \in Floats!Sizes(u) /\ <<k, 1>> \in Floats!Sizes(u) /\ <<h, 1>> \in Floats!Sizes(v)
    BY <1>5, SizesHave
  <2>5. h \in Nat \ {0} /\ k \in Nat \ {0} /\ k - h \in Nat /\ k - h >= Floats!Infinite
    BY HugeFacts
  <2>6. /\ ExactOf("fadd", u, v, <<h, 1>>, <<h, 1>>) = <<SumNumber(u, v, <<h, 1>>, <<h, 1>>), 1>>
        /\ ExactOf("fadd", u, v, <<k, 1>>, <<h, 1>>) = <<SumNumber(u, v, <<k, 1>>, <<h, 1>>), 1>>
    <3> HIDE DEF h, k
    <3>1. IsFraction(<<h, 1>>) /\ IsFraction(<<k, 1>>) /\ 1 * 1 = 1
      BY <2>5 DEF IsFraction
    <3>2. QED
      BY <3>1, SumOfFractions
  <2>7. /\ Floats!Magnitude(SumNumber(u, v, <<h, 1>>, <<h, 1>>)) = 0
        /\ Floats!Magnitude(SumNumber(u, v, <<k, 1>>, <<h, 1>>)) = k - h
    <3> HIDE DEF h, k, s, t
    <3>1. h * 1 = h /\ k * 1 = k
      BY <2>5
    <3>2. /\ SumNumber(u, v, <<h, 1>>, <<h, 1>>) = s * h + t * h
          /\ SumNumber(u, v, <<k, 1>>, <<h, 1>>) = s * k + t * h
      BY <3>1 DEF SumNumber, s, t
    <3>3. s * h + t * h = 0 /\ (s * k + t * h = k - h \/ s * k + t * h = -(k - h))
      BY <1>1, <1>5, <2>5
    <3>4. QED
      BY <2>5, <3>2, <3>3 DEF Floats!Magnitude
  <2>8. /\ Floats!SizeOf(ExactOf("fadd", u, v, <<h, 1>>, <<h, 1>>)) = 0
        /\ Floats!SizeOf(ExactOf("fadd", u, v, <<k, 1>>, <<h, 1>>)) = Floats!Infinite
    <3> HIDE DEF h, k
    <3>1. Floats!Rounded(0, 1) = 0 /\ Floats!Rounded(k - h, 1) = Floats!Infinite
      BY <2>5, RoundedWhole
    <3>2. QED
      BY <2>6, <2>7, <3>1 DEF Floats!SizeOf
  <2>9. NoSize("fadd", u, v)
    BY <2>3, <2>4, <2>8, Zenon DEF NoSize
  <2>10. QED
    BY <2>2, <2>9 DEF IsIEEE
<1>6. CASE Floats!is_inf(u) /\ ~Floats!is_inf(v)
  <2>1. res = u /\ u.size = Floats!Infinite
    BY <1>6 DEF Floats!do_fadd, Floats!NaNOr, Floats!BothInf, Floats!is_inf
  <2>2. SumsHave(u, v, Floats!Infinite, s)
    BY <1>6, InfiniteAndNot
  <2>3. QED
    BY <1>1, <2>1, <2>2, SumsHaveIsIEEE
<1>7. CASE ~Floats!is_inf(u) /\ Floats!is_inf(v)
  <2>1. res = v /\ v.size = Floats!Infinite
    BY <1>7 DEF Floats!do_fadd, Floats!NaNOr, Floats!BothInf, Floats!is_inf
  <2>2. SumsHave(u, v, Floats!Infinite, t)
    BY <1>7, InfiniteAndNot
  <2>3. QED
    BY <1>1, <2>1, <2>2, SumsHaveIsIEEE
<1> DEFINE sum == u.sign * u.size + v.sign * v.size
<1>8. ASSUME ~Floats!is_inf(u), ~Floats!is_inf(v)
      PROVE  /\ u.size \in 0..Largest /\ v.size \in 0..Largest
             /\ Floats!is_zero(u) <=> u.size = 0
             /\ Floats!is_zero(v) <=> v.size = 0
             /\ sum = 0 => res = Floats!set_sign(0, IF s = t THEN s ELSE 1)
             /\ sum # 0 => res = Floats!set_sign(Floats!Rounded(Floats!Magnitude(sum), 1),
                                                 IF sum < 0 THEN -1 ELSE 1)
  <2>1. res = Floats!HostSum(u, v)
    BY <1>8 DEF Floats!do_fadd, Floats!NaNOr, Floats!BothInf
  <2>2. u.size \in 0..Largest /\ v.size \in 0..Largest
    <3>1. PICK p \in Floats!Sizes(u), q \in Floats!Sizes(v) : TRUE
      BY SizesHave
    <3>2. u.size \in 0..Floats!Infinite /\ v.size \in 0..Floats!Infinite
      BY <3>1, SizesFacts
    <3>3. QED
      BY <1>8, <3>2, HugeFacts DEF Floats!is_inf
  <2>3. QED
    BY <1>8, <2>1, <2>2, HostSumIs DEF Floats!is_zero
<1>9. CASE ~Floats!is_inf(u) /\ ~Floats!is_inf(v) /\ ~Floats!is_zero(u) /\ ~Floats!is_zero(v)
  <2> DEFINE m == u.size
             n == v.size
  <2>1. m \in Nat \ {0} /\ n \in Nat \ {0} /\ m \in 0..Largest /\ n \in 0..Largest
    BY <1>8, <1>9, LargestAssumption
  <2>2. sum \in Int
    <3> HIDE DEF m, n, s, t
    <3>1. s * m + t * n \in Int
      BY <1>1, <2>1
    <3>2. QED
      BY <3>1 DEF m, n, s, t
  <2>3. res.size = Floats!Rounded(Floats!Magnitude(sum), 1) /\ (res.sign = IF sum < 0 THEN -1 ELSE 1)
    <3>1. CASE sum = 0
      <4>1. s # t
        <5> HIDE DEF m, n, s, t
        <5>1. s * m + t * n = 0 => s # t
          BY <1>1, <2>1, EqualSigns
        <5>2. QED
          BY <3>1, <5>1 DEF m, n, s, t
      <4>2. res = Floats!set_sign(0, 1)
        BY <1>8, <1>9, <3>1, <4>1
      <4>3. Floats!Magnitude(sum) = 0
        BY <3>1 DEF Floats!Magnitude
      <4>4. QED
        BY <3>1, <4>2, <4>3, RoundedWhole DEF Floats!set_sign
    <3>2. CASE sum # 0
      BY <1>8, <1>9, <3>2 DEF Floats!set_sign
    <3>3. QED
      BY <3>1, <3>2
  <2>4. ASSUME NEW p \in Floats!Sizes(u), NEW q \in Floats!Sizes(v)
        PROVE  SumNumber(u, v, p, q) = sum /\ p[2] * q[2] = 1
    <3>1. p[1] = m /\ p[2] = 1 /\ q[1] = n /\ q[2] = 1
      BY <1>9, SizesFacts
    <3> HIDE DEF m, n
    <3>2. m * 1 = m /\ n * 1 = n /\ 1 * 1 = 1
      BY <2>1
    <3>3. QED
      BY <3>1, <3>2 DEF SumNumber, m, n
  <2>5. SumsHave(u, v, res.size, res.sign)
    <3> HIDE DEF sum, res
    <3>1. sum < 0 <=> res.sign = -1
      BY <2>2, <2>3
    <3>2. QED
      BY <2>3, <2>4, <3>1 DEF SumsHave
  <2>6. QED
    BY <2>3, <2>5, SumsHaveIsIEEE
<1>10. CASE ~Floats!is_inf(u) /\ ~Floats!is_inf(v) /\ ~Floats!is_zero(u) /\ Floats!is_zero(v)
  <2> DEFINE m == u.size
  <2>1. m \in 1..Largest /\ v.size = 0 /\ m \in Nat
    BY <1>8, <1>10, LargestAssumption
  <2>2. sum = IF s = 1 THEN m ELSE -m
    <3> HIDE DEF m, s, t
    <3>1. s * m + t * 0 = IF s = 1 THEN m ELSE -m
      BY <1>1, <2>1
    <3>2. QED
      BY <2>1, <3>1 DEF m, s, t
  <2>3. Floats!Magnitude(sum) = m /\ sum # 0 /\ (sum < 0 <=> s = -1)
    BY <1>1, <2>1, <2>2 DEF Floats!Magnitude
  <2>4. res = Floats!set_sign(m, s)
    BY <1>1, <1>8, <1>10, <2>1, <2>3, RoundedWhole
  <2>5. SumsHave(u, v, m, s)
    BY <1>10, NumberAndZero
  <2>6. QED
    BY <1>1, <2>4, <2>5, SumsHaveIsIEEE DEF Floats!set_sign
<1>11. CASE ~Floats!is_inf(u) /\ ~Floats!is_inf(v) /\ Floats!is_zero(u) /\ ~Floats!is_zero(v)
  <2> DEFINE n == v.size
  <2>1. n \in 1..Largest /\ u.size = 0 /\ n \in Nat
    BY <1>8, <1>11, LargestAssumption
  <2>2. sum = IF t = 1 THEN n ELSE -n
    <3> HIDE DEF n, s, t
    <3>1. s * 0 + t * n = IF t = 1 THEN n ELSE -n
      BY <1>1, <2>1
    <3>2. QED
      BY <2>1, <3>1 DEF n, s, t
  <2>3. Floats!Magnitude(sum) = n /\ sum # 0 /\ (sum < 0 <=> t = -1)
    BY <1>1, <2>1, <2>2 DEF Floats!Magnitude
  <2>4. res = Floats!set_sign(n, t)
    BY <1>1, <1>8, <1>11, <2>1, <2>3, RoundedWhole
  <2>5. SumsHave(u, v, n, t)
    BY <1>11, NumberAndZero
  <2>6. QED
    BY <1>1, <2>4, <2>5, SumsHaveIsIEEE DEF Floats!set_sign
<1>12. CASE Floats!is_zero(u) /\ Floats!is_zero(v)
  <2>1. ~Floats!is_inf(u) /\ ~Floats!is_inf(v) /\ u.size = 0 /\ v.size = 0
    BY <1>2, <1>3, <1>12 DEF Floats!is_zero
  <2>2. sum = 0
    BY <1>1, <2>1
  <2>3. res = Floats!set_sign(0, IF s = t THEN s ELSE 1)
    BY <1>8, <2>1, <2>2
  <2>4. res.size = 0 /\ res.sign = IF s = t THEN s ELSE 1
    BY <2>3 DEF Floats!set_sign
  <2>5. ASSUME NEW p \in Floats!Sizes(u), NEW q \in Floats!Sizes(v)
        PROVE  /\ ExactOf("fadd", u, v, p, q) = <<s * q[2] + t * p[2], p[2] * q[2]>>
               /\ p[2] \in Nat \ {0} /\ q[2] \in Nat \ {0}
               /\ Floats!Rounded(Floats!Magnitude(s * q[2] + t * p[2]), p[2] * q[2]) = 0
    <3> DEFINE d == p[2]
               e == q[2]
    <3>1. IsFraction(p) /\ IsFraction(q) /\ p[1] = 1 /\ q[1] = 1 /\ d >= h /\ e >= h
      BY <1>12, SizesFacts
    <3>2. d \in Nat \ {0} /\ e \in Nat \ {0}
      BY <3>1 DEF IsFraction
    <3> HIDE DEF d, e, s, t
    <3>3. 1 * d = d /\ 1 * e = e
      BY <3>2
    <3>4. ExactOf("fadd", u, v, p, q) = <<s * e + t * d, d * e>>
      BY <3>1, <3>3, SumOfFractions DEF SumNumber, d, e, s, t
    <3>5. Floats!Rounded(Floats!Magnitude(s * e + t * d), d * e) = 0
      BY <1>1, <3>1, <3>2, SumOfZeroes
    <3>6. QED
      BY <3>2, <3>4, <3>5 DEF d, e
  <2>6. AlwaysSize("fadd", u, v, 0)
    BY <2>5 DEF AlwaysSize, Floats!SizeOf
  <2>7. PICK p \in Floats!Sizes(u), q \in Floats!Sizes(v) : p = <<1, h>> /\ q = <<1, h>>
    BY <1>12, SizesHave
  <2>8. CASE s = t
    <3>1. ASSUME NEW p1 \in Floats!Sizes(u), NEW q1 \in Floats!Sizes(v)
          PROVE  ExactOf("fadd", u, v, p1, q1)[1] < 0 <=> s = -1
      <4> HIDE DEF s, t
      <4>1. s * q1[2] + s * p1[2] < 0 <=> s = -1
        BY <1>1, <2>5, EqualSigns
      <4>2. QED
        BY <2>5, <2>8, <4>1
    <3>2. AlwaysNegative("fadd", u, v) <=> s = -1
      BY <2>7, <3>1 DEF AlwaysNegative
    <3>3. QED
      BY <1>1, <2>4, <2>6, <2>8, <3>2 DEF IsIEEE
  <2>9. CASE s # t
    <3>1. ExactOf("fadd", u, v, p, q)[1] = s * h + t * h
      BY <2>5, <2>7
    <3>2. s * h + t * h = 0
      <4> HIDE DEF s, t, h
      <4>1. h \in Nat
        BY HugeFacts DEF h
      <4>2. QED
        BY <1>1, <2>9, <4>1
    <3>3. ~AlwaysNegative("fadd", u, v)
      BY <3>1, <3>2 DEF AlwaysNegative
    <3>4. QED
      BY <2>4, <2>6, <2>9, <3>3 DEF IsIEEE
  <2>10. QED
    BY <2>8, <2>9
<1>13. QED
  BY <1>2, <1>3, <1>4, <1>5, <1>6, <1>7, <1>9, <1>10, <1>11, <1>12

LEMMA NegatedFacts ==
    ASSUME NEW v \in Floats!Value
    PROVE  LET w == Floats!Negated(v)
           IN  /\ w \in Floats!Value /\ w.sign = -v.sign /\ w.size = v.size
               /\ Floats!Sizes(w) = Floats!Sizes(v)
               /\ Floats!is_inf(w) = Floats!is_inf(v) /\ Floats!is_nan(w) = Floats!is_nan(v)
<1> DEFINE w == Floats!Negated(v)
<1>1. w.sign = -v.sign /\ w.size = v.size
  BY DEF Floats!Negated, Floats!set_sign
<1>2. w \in Floats!Value
  BY DEF Floats!Negated, Floats!set_sign, Floats!Value
<1> HIDE DEF w
<1>3. /\ Floats!is_inf(w) = Floats!is_inf(v) /\ Floats!is_nan(w) = Floats!is_nan(v)
      /\ Floats!is_zero(w) = Floats!is_zero(v)
  BY <1>1 DEF Floats!is_inf, Floats!is_nan, Floats!is_zero
<1>4. Floats!Sizes(w) = Floats!Sizes(v)
  BY <1>1, <1>3, Zenon DEF Floats!Sizes
<1>5. QED
  BY <1>1, <1>2, <1>3, <1>4 DEF w

\* A sum is not zero if one of its numbers only is infinite.
LEMMA HostSumOfInfinite ==
    ASSUME NEW u \in Floats!Value, NEW v \in Floats!Value, ~Floats!is_nan(u), ~Floats!is_nan(v)
    PROVE  /\ Floats!is_inf(u) /\ ~Floats!is_inf(v) => Floats!HostSum(u, v) = u
           /\ ~Floats!is_inf(u) /\ Floats!is_inf(v) => Floats!HostSum(u, v) = v
<1>1. PICK p \in Floats!Sizes(u), q \in Floats!Sizes(v) : TRUE
  BY SizesHave
<1>2. u.size \in 0..Floats!Infinite /\ v.size \in 0..Floats!Infinite
  BY <1>1, SizesFacts
<1>3. u.sign \in {-1, 1} /\ v.sign \in {-1, 1}
  BY DEF Floats!Value
<1>4. (Floats!is_inf(u) <=> u.size = Floats!Infinite) /\ (Floats!is_inf(v) <=> v.size = Floats!Infinite)
  BY DEF Floats!is_inf
<1>5. u.size # v.size => u.sign * u.size + v.sign * v.size # 0
  BY <1>2, <1>3, HugeFacts
<1>6. CASE Floats!is_inf(u) /\ ~Floats!is_inf(v)
  <2>1. u.sign * u.size + v.sign * v.size # 0
    BY <1>4, <1>5, <1>6
  <2>2. Floats!HostSum(u, v) = u
    BY <1>6, <2>1, Zenon DEF Floats!HostSum
  <2>3. QED
    BY <1>6, <2>2
<1>7. CASE ~Floats!is_inf(u) /\ Floats!is_inf(v)
  <2>1. u.sign * u.size + v.sign * v.size # 0
    BY <1>4, <1>5, <1>7
  <2>2. Floats!HostSum(u, v) = v
    BY <1>7, <2>1, Zenon DEF Floats!HostSum
  <2>3. QED
    BY <1>7, <2>2
<1>8. QED
  BY <1>6, <1>7

LEMMA DifferenceIsIEEE ==
    ASSUME NEW u \in Floats!Value, NEW v \in Floats!Value, ~Floats!is_nan(u), ~Floats!is_nan(v)
    PROVE  IsIEEE("fsub", u, v, Floats!do_fsub(u, v))
<1> DEFINE w == Floats!Negated(v)
<1>1. /\ w \in Floats!Value /\ w.sign = -v.sign /\ Floats!Sizes(w) = Floats!Sizes(v)
      /\ Floats!is_inf(w) = Floats!is_inf(v) /\ ~Floats!is_nan(w)
  BY NegatedFacts
<1>2. u.sign \in {-1, 1} /\ v.sign \in {-1, 1}
  BY DEF Floats!Value
<1>3. Floats!do_fsub(u, v) = Floats!do_fadd(u, w)
  <2>1. u.sign # v.sign <=> u.sign = w.sign
    BY <1>1, <1>2
  <2>2. CASE Floats!is_inf(u) /\ Floats!is_inf(v)
    BY <1>1, <2>1, <2>2 DEF Floats!do_fsub, Floats!do_fadd, Floats!NaNOr, Floats!BothInf
  <2>3. CASE ~Floats!is_inf(u) /\ ~Floats!is_inf(v)
    BY <1>1, <2>3 DEF Floats!do_fsub, Floats!do_fadd, Floats!NaNOr, Floats!BothInf
  <2>4. CASE Floats!is_inf(u) /\ ~Floats!is_inf(v)
    <3>1. Floats!HostSum(u, w) = u
      BY <1>1, <2>4, HostSumOfInfinite
    <3>2. QED
      BY <1>1, <2>4, <3>1 DEF Floats!do_fsub, Floats!do_fadd, Floats!NaNOr, Floats!BothInf
  <2>5. CASE ~Floats!is_inf(u) /\ Floats!is_inf(v)
    <3>1. Floats!HostSum(u, w) = w
      BY <1>1, <2>5, HostSumOfInfinite
    <3>2. QED
      BY <1>1, <2>5, <3>1 DEF Floats!do_fsub, Floats!do_fadd, Floats!NaNOr, Floats!BothInf
  <2>6. QED
    BY <2>2, <2>3, <2>4, <2>5
<1>4. IsIEEE("fadd", u, w, Floats!do_fadd(u, w))
  BY <1>1, SumIsIEEE
<1>5. ASSUME NEW p \in Floats!Sizes(u), NEW q \in Floats!Sizes(v)
      PROVE  ExactOf("fsub", u, v, p, q) = ExactOf("fadd", u, w, p, q)
  <2>1. IsFraction(p) /\ IsFraction(q)
    BY SizesFacts
  <2>2. QED
    BY <2>1, DifferenceOf
<1> HIDE DEF w
<1>6. \A size : AlwaysSize("fadd", u, w, size) <=> AlwaysSize("fsub", u, v, size)
  BY <1>1, <1>5 DEF AlwaysSize
<1>7. NoSize("fadd", u, w) <=> NoSize("fsub", u, v)
  BY <1>1, <1>5 DEF NoSize
<1>8. AlwaysNegative("fadd", u, w) <=> AlwaysNegative("fsub", u, v)
  BY <1>1, <1>5 DEF AlwaysNegative
<1>9. QED
  BY <1>3, <1>4, <1>6, <1>7, <1>8 DEF IsIEEE

\* A NaN among the operands is the result.
LEMMA NaNsStay ==
    ASSUME NEW u, NEW v, Floats!is_nan(u) \/ Floats!is_nan(v)
    PROVE  /\ Floats!is_nan(Floats!do_fadd(u, v)) /\ Floats!is_nan(Floats!do_fsub(u, v))
           /\ Floats!is_nan(Floats!do_fmul(u, v)) /\ Floats!is_nan(Floats!do_fdiv(u, v))
  BY DEF Floats!do_fadd, Floats!do_fsub, Floats!do_fmul, Floats!do_fdiv, Floats!NaNOr

Computed ==
    op.name \in {"fadd", "fsub", "fmul", "fdiv"} =>
        /\ op.a \in Floats!Value /\ op.b \in Floats!Value
        /\ op.name = "fadd" => op.result = Floats!do_fadd(op.a, op.b)
        /\ op.name = "fsub" => op.result = Floats!do_fsub(op.a, op.b)
        /\ op.name = "fmul" => op.result = Floats!do_fmul(op.a, op.b)
        /\ op.name = "fdiv" => op.result = Floats!do_fdiv(op.a, op.b)

LEMMA NextComputed == Computed /\ [Floats!Next]_(Floats!vars) => Computed'
<1> SUFFICES ASSUME Computed, [Floats!Next]_(Floats!vars) PROVE Computed'
  OBVIOUS
<1>1. ASSUME NEW u \in Floats!Value, NEW v \in Floats!Value, Floats!Arithmetic(u, v) PROVE Computed'
  BY <1>1 DEF Floats!Arithmetic, Floats!Computes, Computed
<1>2. ASSUME NEW u \in Floats!Value, NEW v \in Floats!Value, Floats!Fcmp(u, v) PROVE Computed'
  BY <1>2 DEF Floats!Fcmp, Computed
<1>3. ASSUME NEW v \in Floats!Value, Floats!ToInteger(v) PROVE Computed'
  BY <1>3 DEF Floats!ToInteger, Computed
<1>4. ASSUME NEW v \in Floats!Value, Floats!Moves(v) PROVE Computed'
  BY <1>4 DEF Floats!Moves, Computed
<1>5. CASE Floats!Retire
  BY <1>5 DEF Floats!Retire, Floats!Idle, Computed
<1>6. CASE UNCHANGED Floats!vars
  BY <1>6 DEF Floats!vars, Computed
<1>7. QED
  BY <1>1, <1>2, <1>3, <1>4, <1>5, <1>6 DEF Floats!Next, Floats!Instruction

LEMMA ComputedIsIEEE == Computed => ArithmeticIsIEEE
<1> SUFFICES ASSUME Computed, op.name \in {"fadd", "fsub", "fmul", "fdiv"} PROVE ArithmeticIsIEEE
  BY DEF ArithmeticIsIEEE, Floats!ArithmeticIsIEEE
<1>1. op.a \in Floats!Value /\ op.b \in Floats!Value
  BY DEF Computed
<1>2. CASE Floats!is_nan(op.a) \/ Floats!is_nan(op.b)
  <2>1. Floats!is_nan(op.result)
    BY <1>2, NaNsStay DEF Computed
  <2>2. QED
    BY <1>2, <2>1 DEF ArithmeticIsIEEE, Floats!ArithmeticIsIEEE
<1>3. CASE ~Floats!is_nan(op.a) /\ ~Floats!is_nan(op.b)
  <2>1. IsIEEE(op.name, op.a, op.b, op.result)
    BY <1>1, <1>3, SumIsIEEE, DifferenceIsIEEE, ProductIsIEEE, QuotientIsIEEE DEF Computed
  <2>2. QED
    BY <1>3, <2>1, IEEEResult DEF ArithmeticIsIEEE
<1>4. QED
  BY <1>2, <1>3

\* For numbers of every size: a sum, a difference, a product and a quotient are
\* the nearest to what arithmetic says of all numbers near the operands, or a
\* NaN where it says nothing.
THEOREM ArithmeticIsAlwaysIEEE == Floats!Spec => []ArithmeticIsIEEE
<1>1. Floats!Init => Computed
  BY DEF Floats!Init, Floats!Idle, Computed
<1>2. QED
  BY <1>1, NextComputed, ComputedIsIEEE, PTL DEF Floats!Spec
-----------------------------------------------------------------------------
(* The bytes of a word *)

\* The weights of the bytes, each the radix times the last.
LEMMA PlaceFacts ==
    /\ Radix \in Nat /\ Radix >= 2
    /\ Memory!Place(0) = 1 /\ Memory!Place(1) = Radix
    /\ Memory!Place(2) = Radix * Radix
    /\ Memory!Place(3) = Radix * (Radix * Radix)
    /\ Memory!Place(4) = Radix * (Radix * (Radix * Radix))
    /\ \A k \in 0..4 : Memory!Place(k) \in Nat \ {0}
<1>1. Radix \in Nat /\ Radix >= 2
  BY RadixAssumption
<1>2. /\ Memory!Place(0) = 1 /\ Memory!Place(1) = Radix /\ Memory!Place(2) = Radix * Radix
      /\ Memory!Place(3) = Radix * Radix * Radix
      /\ Memory!Place(4) = Radix * Radix * Radix * Radix
  BY DEF Memory!Place
<1>3. /\ Radix * Radix * Radix = Radix * (Radix * Radix)
      /\ Radix * Radix * Radix * Radix = Radix * (Radix * (Radix * Radix))
  BY <1>1
<1>4. Radix \in Nat \ {0}
  BY <1>1
<1>5. Radix * Radix \in Nat \ {0}
  BY <1>4, Positive
<1>6. Radix * (Radix * Radix) \in Nat \ {0}
  BY <1>4, <1>5, Positive
<1>7. Radix * (Radix * (Radix * Radix)) \in Nat \ {0}
  BY <1>4, <1>6, Positive
<1>8. \A k \in 0..4 : k = 0 \/ k = 1 \/ k = 2 \/ k = 3 \/ k = 4
  OBVIOUS
<1>9. QED
  BY <1>1, <1>2, <1>3, <1>4, <1>5, <1>6, <1>7, <1>8

\* Dividing by a product is dividing twice.
LEMMA DivideTwice ==
    ASSUME NEW w \in Nat, NEW c \in Nat \ {0}, NEW d \in Nat \ {0}
    PROVE  w \div (c * d) = (w \div c) \div d
<1> DEFINE q == w \div c
           q2 == q \div d
           m == w % c
           m2 == q % d
<1>1. q \in Nat /\ m \in 0..(c - 1) /\ w = q * c + m
  BY DivisionFacts, Zenon
<1>2. q2 \in Nat /\ m2 \in 0..(d - 1) /\ q = q2 * d + m2
  BY <1>1, DivisionFacts, Zenon
<1> HIDE DEF q, q2, m, m2
<1>3. w = q2 * (c * d) + (m2 * c + m)
  BY <1>1, <1>2
<1>4. c * d \in Nat \ {0}
  BY Positive
<1>5. m2 * c + m \in 0..(c * d - 1)
  <2>1. m2 * c <= (d - 1) * c /\ m2 * c \in Nat
    BY <1>2
  <2>2. (d - 1) * c = c * d - c
    OBVIOUS
  <2>3. QED
    BY <1>1, <1>4, <2>1, <2>2
<1>6. w \div (c * d) = q2
  BY <1>2, <1>3, <1>4, <1>5, Division
<1>7. QED
  BY <1>6 DEF q2, q

\* The bytes of a word are remainders of what is left after the lower ones.
LEMMA BytesOfWord ==
    ASSUME NEW w \in Nat
    PROVE  LET w1 == w \div Radix
               w2 == w1 \div Radix
               w3 == w2 \div Radix
           IN  /\ Memory!ByteOf(w, 0) = w % Radix /\ Memory!ByteOf(w, 1) = w1 % Radix
               /\ Memory!ByteOf(w, 2) = w2 % Radix /\ Memory!ByteOf(w, 3) = w3 % Radix
               /\ w1 \in Nat /\ w2 \in Nat /\ w3 \in Nat
<1> DEFINE w1 == w \div Radix
           w2 == w1 \div Radix
           w3 == w2 \div Radix
<1>1. Radix \in Nat \ {0}
  BY RadixAssumption
<1>2. w1 \in Nat
  BY <1>1, DivisionFacts, Zenon
<1>3. w2 \in Nat
  BY <1>1, <1>2, DivisionFacts, Zenon
<1>4. w3 \in Nat
  BY <1>1, <1>3, DivisionFacts, Zenon
<1>5. w \div (Radix * Radix) = w2
  BY <1>1, DivideTwice
<1>6. Radix * Radix \in Nat \ {0}
  BY <1>1, Positive
<1>7. w \div (Radix * (Radix * Radix)) = w1 \div (Radix * Radix)
  BY <1>1, <1>6, DivideTwice
<1>8. w1 \div (Radix * Radix) = w3
  BY <1>1, <1>2, DivideTwice
<1>9. w \div 1 = w
  OBVIOUS
<1> HIDE DEF w1, w2, w3
<1>10. /\ Memory!ByteOf(w, 0) = w % Radix /\ Memory!ByteOf(w, 1) = w1 % Radix
       /\ Memory!ByteOf(w, 2) = w2 % Radix /\ Memory!ByteOf(w, 3) = w3 % Radix
  <2>1. /\ Memory!ByteOf(w, 0) = (w \div Memory!Place(0)) % Radix
        /\ Memory!ByteOf(w, 1) = (w \div Memory!Place(1)) % Radix
        /\ Memory!ByteOf(w, 2) = (w \div Memory!Place(2)) % Radix
        /\ Memory!ByteOf(w, 3) = (w \div Memory!Place(3)) % Radix
    BY Zenon DEF Memory!ByteOf
  <2>2. w \div Radix = w1
    BY DEF w1
  <2>3. QED
    BY <1>5, <1>7, <1>8, <1>9, <2>1, <2>2, PlaceFacts, Zenon
<1>11. QED
  BY <1>2, <1>3, <1>4, <1>10 DEF w1, w2, w3

LEMMA ByteIsByte ==
    ASSUME NEW w \in Nat, NEW k \in 0..3 PROVE Memory!ByteOf(w, k) \in Memory!Byte
<1>1. Radix \in Nat \ {0}
  BY RadixAssumption
<1>2. \A n \in Nat : n % Radix \in 0..(Radix - 1)
  BY <1>1
<1>3. k = 0 \/ k = 1 \/ k = 2 \/ k = 3
  OBVIOUS
<1>4. QED
  BY <1>2, <1>3, BytesOfWord DEF Memory!Byte

\* What four bytes and two make, and what they are the bytes of.
Joined4(b0, b1, b2, b3) == b0 + b1 * Memory!Place(1) + (b2 * Memory!Place(2) + b3 * Memory!Place(3))
Joined2(b0, b1) == b0 + b1 * Memory!Place(1)

LEMMA Joined4Nested ==
    ASSUME NEW b0 \in Memory!Byte, NEW b1 \in Memory!Byte, NEW b2 \in Memory!Byte, NEW b3 \in Memory!Byte
    PROVE  /\ Joined4(b0, b1, b2, b3) = ((b3 * Radix + b2) * Radix + b1) * Radix + b0
           /\ Joined2(b0, b1) = b1 * Radix + b0
<1>1. Radix \in Nat /\ b0 \in Nat /\ b1 \in Nat /\ b2 \in Nat /\ b3 \in Nat
  BY PlaceFacts DEF Memory!Byte
<1>2. Joined4(b0, b1, b2, b3) = b0 + b1 * Radix + (b2 * (Radix * Radix) + b3 * (Radix * (Radix * Radix)))
  BY PlaceFacts, Zenon DEF Joined4
<1>3. Joined2(b0, b1) = b0 + b1 * Radix
  BY PlaceFacts, Zenon DEF Joined2
<1>4. ((b3 * Radix + b2) * Radix + b1) * Radix + b0
          = b0 + b1 * Radix + (b2 * (Radix * Radix) + b3 * (Radix * (Radix * Radix)))
  BY <1>1
<1>5. QED
  BY <1>1, <1>2, <1>3, <1>4

LEMMA BytesOfJoined ==
    ASSUME NEW b0 \in Memory!Byte, NEW b1 \in Memory!Byte, NEW b2 \in Memory!Byte, NEW b3 \in Memory!Byte
    PROVE  LET w == Joined4(b0, b1, b2, b3)
               h == Joined2(b0, b1)
           IN  /\ w \in Nat /\ Memory!ByteOf(w, 0) = b0 /\ Memory!ByteOf(w, 1) = b1
               /\ Memory!ByteOf(w, 2) = b2 /\ Memory!ByteOf(w, 3) = b3
               /\ h \in Nat /\ Memory!ByteOf(h, 0) = b0 /\ Memory!ByteOf(h, 1) = b1
               /\ Memory!ByteOf(b0, 0) = b0
<1> DEFINE w2 == b3 * Radix + b2
           w1 == w2 * Radix + b1
           w == w1 * Radix + b0
           h == b1 * Radix + b0
<1>1. /\ Radix \in Nat \ {0} /\ b0 \in 0..(Radix - 1) /\ b1 \in 0..(Radix - 1)
      /\ b2 \in 0..(Radix - 1) /\ b3 \in 0..(Radix - 1)
      /\ b0 \in Nat /\ b1 \in Nat /\ b2 \in Nat /\ b3 \in Nat /\ b1 \in Int /\ b3 \in Int
  BY PlaceFacts DEF Memory!Byte
<1>2. ASSUME NEW q \in Nat, NEW m \in 0..(Radix - 1)
      PROVE  q * Radix + m \in Nat /\ (q * Radix + m) \div Radix = q /\ (q * Radix + m) % Radix = m
  <2>1. q * Radix + m \in Nat
    BY <1>1
  <2>2. q \in Int
    OBVIOUS
  <2>3. QED
    BY <1>1, <2>1, <2>2, Division, Zenon
<1>3. w2 \in Nat /\ w2 \div Radix = b3 /\ w2 % Radix = b2
  BY <1>1, <1>2, Zenon
<1>4. h \in Nat /\ h \div Radix = b1 /\ h % Radix = b0
  BY <1>1, <1>2, Zenon
<1>5. w1 \in Nat /\ w1 \div Radix = w2 /\ w1 % Radix = b1
  <2> HIDE DEF w2
  <2>1. QED
    BY <1>1, <1>2, <1>3, Zenon
<1>6. w \in Nat /\ w \div Radix = w1 /\ w % Radix = b0
  <2> HIDE DEF w1
  <2>1. QED
    BY <1>1, <1>2, <1>5, Zenon
<1>9. b0 % Radix = b0 /\ b1 % Radix = b1 /\ b3 % Radix = b3
  BY <1>1
<1>10. Joined4(b0, b1, b2, b3) = w /\ Joined2(b0, b1) = h
  BY Joined4Nested
<1> HIDE DEF w, w1, w2, h
<1>11. /\ Memory!ByteOf(w, 0) = b0 /\ Memory!ByteOf(w, 1) = b1
       /\ Memory!ByteOf(w, 2) = b2 /\ Memory!ByteOf(w, 3) = b3
  BY <1>3, <1>5, <1>6, <1>9, BytesOfWord
<1>12. Memory!ByteOf(h, 0) = b0 /\ Memory!ByteOf(h, 1) = b1
  BY <1>4, <1>9, BytesOfWord
<1>13. Memory!ByteOf(b0, 0) = b0
  BY <1>1, <1>9, BytesOfWord
<1>14. QED
  BY <1>4, <1>6, <1>10, <1>11, <1>12, <1>13

\* A word is what its bytes make.
LEMMA WordOfBytes ==
    ASSUME NEW w \in Nat
    PROVE  /\ w < Memory!Place(4) =>
                  w = Joined4(Memory!ByteOf(w, 0), Memory!ByteOf(w, 1), Memory!ByteOf(w, 2), Memory!ByteOf(w, 3))
           /\ w < Memory!Place(2) => w = Joined2(Memory!ByteOf(w, 0), Memory!ByteOf(w, 1))
           /\ w < Memory!Place(1) => w = Memory!ByteOf(w, 0)
<1> DEFINE w1 == w \div Radix
           w2 == w1 \div Radix
           w3 == w2 \div Radix
           b0 == Memory!ByteOf(w, 0)
           b1 == Memory!ByteOf(w, 1)
           b2 == Memory!ByteOf(w, 2)
           b3 == Memory!ByteOf(w, 3)
<1>1. /\ b0 = w % Radix /\ b1 = w1 % Radix /\ b2 = w2 % Radix /\ b3 = w3 % Radix
      /\ w1 \in Nat /\ w2 \in Nat /\ w3 \in Nat
  BY BytesOfWord
<1>2. b0 \in Memory!Byte /\ b1 \in Memory!Byte /\ b2 \in Memory!Byte /\ b3 \in Memory!Byte
  BY ByteIsByte
<1>3. Radix \in Nat \ {0}
  BY RadixAssumption
<1>4. w = w1 * Radix + (w % Radix)
  BY <1>3, DivisionFacts
<1>5. w1 = w2 * Radix + (w1 % Radix)
  <2> HIDE DEF w1
  <2>1. QED
    BY <1>1, <1>3, DivisionFacts
<1>6. w2 = w3 * Radix + (w2 % Radix)
  <2> HIDE DEF w2
  <2>1. QED
    BY <1>1, <1>3, DivisionFacts
<1> HIDE DEF w1, w2, w3, b0, b1, b2, b3
<1>7. w = w1 * Radix + b0 /\ w1 = w2 * Radix + b1 /\ w2 = w3 * Radix + b2
  BY <1>1, <1>4, <1>5, <1>6
<1>8. b0 \in Nat /\ b1 \in Nat /\ b2 \in Nat
  BY <1>2, PlaceFacts DEF Memory!Byte
<1>9. ASSUME w < Radix PROVE w1 = 0
  <2>1. w1 * Radix < 1 * Radix
    BY <1>1, <1>3, <1>7, <1>8, <1>9
  <2>2. QED
    BY <1>1, <1>3, <2>1, ProductOrder
<1>10. ASSUME w < Radix * Radix PROVE w2 = 0
  <2>1. w1 * Radix < Radix * Radix
    BY <1>1, <1>3, <1>7, <1>8, <1>10
  <2>2. w1 < Radix
    BY <1>1, <1>3, <2>1, ProductOrder
  <2>3. w2 * Radix < 1 * Radix
    BY <1>1, <1>3, <1>7, <1>8, <2>2
  <2>4. QED
    BY <1>1, <1>3, <2>3, ProductOrder
<1>11. ASSUME w < Radix * (Radix * (Radix * Radix)) PROVE w3 < Radix
  <2> DEFINE c == Radix * Radix
             d == Radix * c
  <2>1. c \in Nat /\ d \in Nat
    BY <1>3
  <2>2. w1 < d
    <3> HIDE DEF d
    <3>1. Radix * d = d * Radix
      BY <1>3, <2>1
    <3>2. w1 * Radix < d * Radix
      BY <1>1, <1>3, <1>7, <1>8, <1>11, <2>1, <3>1 DEF d
    <3>3. QED
      BY <1>1, <1>3, <2>1, <3>2, ProductOrder
  <2>3. w2 < c
    <3> HIDE DEF c
    <3>1. d = c * Radix
      BY <1>3, <2>1
    <3>2. w2 * Radix < c * Radix
      BY <1>1, <1>3, <1>7, <1>8, <2>1, <2>2, <3>1
    <3>3. QED
      BY <1>1, <1>3, <2>1, <3>2, ProductOrder
  <2>4. w3 * Radix < Radix * Radix
    BY <1>1, <1>3, <1>7, <1>8, <2>3
  <2>5. QED
    BY <1>1, <1>3, <2>4, ProductOrder
<1>12. w < Memory!Place(4) => w = Joined4(b0, b1, b2, b3)
  <2> SUFFICES ASSUME w < Memory!Place(4) PROVE w = Joined4(b0, b1, b2, b3)
    OBVIOUS
  <2>1. w3 < Radix
    BY <1>11, PlaceFacts
  <2>2. b3 = w3
    BY <1>1, <1>3, <2>1
  <2>3. w2 = b3 * Radix + b2 /\ w1 = (b3 * Radix + b2) * Radix + b1
        /\ w = ((b3 * Radix + b2) * Radix + b1) * Radix + b0
    BY <1>7, <2>2
  <2>4. QED
    BY <1>2, <2>3, Joined4Nested
<1>13. w < Memory!Place(2) => w = Joined2(b0, b1)
  <2> SUFFICES ASSUME w < Memory!Place(2) PROVE w = Joined2(b0, b1)
    OBVIOUS
  <2>1. w2 = 0
    BY <1>10, PlaceFacts
  <2>2. w1 = b1
    BY <1>3, <1>7, <1>8, <2>1
  <2>3. w = b1 * Radix + b0
    BY <1>7, <2>2
  <2>4. QED
    BY <1>2, <2>3, Joined4Nested
<1>14. w < Memory!Place(1) => w = b0
  <2> SUFFICES ASSUME w < Memory!Place(1) PROVE w = b0
    OBVIOUS
  <2>1. w1 = 0
    BY <1>9, PlaceFacts
  <2>2. QED
    BY <1>3, <1>7, <1>8, <2>1
<1>15. QED
  BY <1>12, <1>13, <1>14 DEF b0, b1, b2, b3

\* The host puts a word of bytes together and takes it apart the other way round.
LEMMA Flipped ==
    ASSUME NEW w \in Nat
    PROVE  /\ Memory!flip_endian(w, 1) = Memory!ByteOf(w, 0)
           /\ Memory!flip_endian(w, 2) = Joined2(Memory!ByteOf(w, 1), Memory!ByteOf(w, 0))
           /\ Memory!flip_endian(w, 4) = Joined4(Memory!ByteOf(w, 3), Memory!ByteOf(w, 2),
                                                 Memory!ByteOf(w, 1), Memory!ByteOf(w, 0))
<1>1. /\ Memory!ByteOf(w, 0) \in Nat /\ Memory!ByteOf(w, 1) \in Nat
      /\ Memory!ByteOf(w, 2) \in Nat /\ Memory!ByteOf(w, 3) \in Nat
  BY ByteIsByte, PlaceFacts DEF Memory!Byte
<1>2. /\ Memory!Place(0) \in Nat /\ Memory!Place(1) \in Nat
      /\ Memory!Place(2) \in Nat /\ Memory!Place(3) \in Nat
  BY PlaceFacts
<1>3. Memory!flip_endian(w, 1) = Memory!ByteOf(w, 0)
  BY <1>1 DEF Memory!flip_endian, Memory!Together
<1>4. Memory!flip_endian(w, 2) = Joined2(Memory!ByteOf(w, 1), Memory!ByteOf(w, 0))
  BY <1>1, <1>2 DEF Memory!flip_endian, Memory!Together, Joined2
<1>5. Memory!flip_endian(w, 4) = Joined4(Memory!ByteOf(w, 3), Memory!ByteOf(w, 2),
                                         Memory!ByteOf(w, 1), Memory!ByteOf(w, 0))
  BY <1>1, <1>2 DEF Memory!flip_endian, Memory!Together, Joined4
<1>6. QED
  BY <1>3, <1>4, <1>5

\* A number in memory is made of its bytes, the last of which is the lowest.
LEMMA PartIs ==
    ASSUME NEW m \in [Memory!Address -> Memory!Byte], NEW at \in Nat
    PROVE  /\ at + 1 <= Bytes => m[at] \in Memory!Byte /\ Memory!Part(m, at, 1) = m[at]
           /\ at + 2 <= Bytes =>
                 /\ m[at] \in Memory!Byte /\ m[at + 1] \in Memory!Byte
                 /\ Memory!Part(m, at, 2) = Joined2(m[at + 1], m[at])
           /\ at + 4 <= Bytes =>
                 /\ m[at] \in Memory!Byte /\ m[at + 1] \in Memory!Byte
                 /\ m[at + 2] \in Memory!Byte /\ m[at + 3] \in Memory!Byte
                 /\ Memory!Part(m, at, 4) = Joined4(m[at + 3], m[at + 2], m[at + 1], m[at])
<1>1. \A x \in Nat : x < Bytes => m[x] \in Memory!Byte
  BY MemoryAssumption DEF Memory!Address
<1>2. ASSUME at + 1 <= Bytes PROVE m[at] \in Memory!Byte /\ Memory!Part(m, at, 1) = m[at]
  BY <1>1, <1>2, MemoryAssumption DEF Memory!Part
<1>3. ASSUME at + 2 <= Bytes
      PROVE  /\ m[at] \in Memory!Byte /\ m[at + 1] \in Memory!Byte
             /\ Memory!Part(m, at, 2) = Joined2(m[at + 1], m[at])
  <2>1. m[at] \in Memory!Byte /\ m[at + 1] \in Memory!Byte
    BY <1>1, <1>3, MemoryAssumption
  <2>2. Memory!Part(m, at, 2) = m[at] * Radix + m[at + 1]
    BY DEF Memory!Part, Memory!HalfAt
  <2>3. QED
    BY <2>1, <2>2, Joined4Nested
<1>4. ASSUME at + 4 <= Bytes
      PROVE  /\ m[at] \in Memory!Byte /\ m[at + 1] \in Memory!Byte
             /\ m[at + 2] \in Memory!Byte /\ m[at + 3] \in Memory!Byte
             /\ Memory!Part(m, at, 4) = Joined4(m[at + 3], m[at + 2], m[at + 1], m[at])
  <2>1. /\ m[at] \in Memory!Byte /\ m[at + 1] \in Memory!Byte
        /\ m[at + 2] \in Memory!Byte /\ m[at + 3] \in Memory!Byte
    BY <1>1, <1>4, MemoryAssumption
  <2>2. (at + 2) + 1 = at + 3
    OBVIOUS
  <2>3. Memory!Part(m, at, 4)
            = (m[at] * Radix + m[at + 1]) * Memory!Place(2) + (m[at + 2] * Radix + m[at + 3])
    BY <2>2 DEF Memory!Part, Memory!HalfAt, Memory!WordAt
  <2>4. Joined4(m[at + 3], m[at + 2], m[at + 1], m[at])
            = ((m[at] * Radix + m[at + 1]) * Radix + m[at + 2]) * Radix + m[at + 3]
    BY <2>1, Joined4Nested
  <2> DEFINE b0 == m[at]
             b1 == m[at + 1]
             b2 == m[at + 2]
             b3 == m[at + 3]
  <2>5. b0 \in Nat /\ b1 \in Nat /\ b2 \in Nat /\ b3 \in Nat
    BY <2>1, PlaceFacts DEF Memory!Byte
  <2>6. (b0 * Radix + b1) * (Radix * Radix) + (b2 * Radix + b3)
            = ((b0 * Radix + b1) * Radix + b2) * Radix + b3
    <3> HIDE DEF b0, b1, b2, b3
    <3>1. QED
      BY <2>5, PlaceFacts
  <2>7. QED
    BY <2>1, <2>3, <2>4, <2>6, PlaceFacts DEF b0, b1, b2, b3
<1>5. QED
  BY <1>2, <1>3, <1>4

\* Bytes make no more than a word.
LEMMA JoinedFits ==
    ASSUME NEW b0 \in Memory!Byte, NEW b1 \in Memory!Byte, NEW b2 \in Memory!Byte, NEW b3 \in Memory!Byte
    PROVE  /\ b0 \in 0..(Memory!Place(1) - 1)
           /\ Joined2(b0, b1) \in 0..(Memory!Place(2) - 1)
           /\ Joined4(b0, b1, b2, b3) \in 0..(Memory!Place(4) - 1)
<1>1. /\ Radix \in Nat \ {0} /\ b0 \in 0..(Radix - 1) /\ b1 \in 0..(Radix - 1)
      /\ b2 \in 0..(Radix - 1) /\ b3 \in 0..(Radix - 1) /\ b3 < Radix
  BY PlaceFacts DEF Memory!Byte
<1>2. ASSUME NEW q \in Nat, NEW c \in Nat, q < c, NEW m \in 0..(Radix - 1)
      PROVE  q * Radix + m \in Nat /\ q * Radix + m < Radix * c
  <2>1. (q + 1) * Radix <= c * Radix
    BY <1>1, <1>2, ProductAtLeast
  <2>2. QED
    BY <1>1, <2>1
<1> DEFINE c2 == Radix * Radix
           c3 == Radix * c2
           w2 == b3 * Radix + b2
           w1 == w2 * Radix + b1
           h == b1 * Radix + b0
<1>3. w2 \in Nat /\ w2 < c2 /\ h \in Nat /\ h < c2 /\ c2 \in Nat
  BY <1>1, <1>2
<1>4. w1 \in Nat /\ w1 < c3 /\ c3 \in Nat
  <2> HIDE DEF w2, c2
  <2>1. QED
    BY <1>1, <1>2, <1>3
<1>5. w1 * Radix + b0 \in Nat /\ w1 * Radix + b0 < Radix * c3
  <2> HIDE DEF w1, c3
  <2>1. QED
    BY <1>1, <1>2, <1>4
<1>6. Joined2(b0, b1) = h /\ Joined4(b0, b1, b2, b3) = w1 * Radix + b0
  BY Joined4Nested
<1>7. Memory!Place(1) = Radix /\ Memory!Place(2) = c2 /\ Memory!Place(4) = Radix * c3
  BY PlaceFacts
<1> HIDE DEF w1, h, c2, c3
<1>8. Memory!Place(2) \in Nat /\ Memory!Place(4) \in Nat
  BY PlaceFacts
<1>9. QED
  BY <1>1, <1>3, <1>5, <1>6, <1>7, <1>8

\* What is read is the number that is there.
LEMMA GetIsPart ==
    ASSUME NEW n \in {1, 2, 4}, NEW at \in Nat, at + n <= Bytes,
           mem \in [Memory!Address -> Memory!Byte]
    PROVE  /\ Memory!getui(n, at) = Memory!Part(mem, at, n)
           /\ Memory!getui(n, at) \in 0..(Memory!Place(n) - 1)
<1> DEFINE host == Memory!Together(LAMBDA k : mem[at + k], n)
<1>1. Memory!getui(n, at) = Memory!flip_endian(host, n)
  BY DEF Memory!getui
<1>2. CASE n = 1
  <2>1. mem[at] \in Memory!Byte /\ Memory!Part(mem, at, 1) = mem[at]
    BY <1>2, PartIs
  <2>2. host = mem[at]
    BY <1>2, <2>1, PlaceFacts DEF Memory!Together, Memory!Byte
  <2>3. mem[at] \in Nat /\ Memory!ByteOf(mem[at], 0) = mem[at]
    BY <2>1, BytesOfJoined, PlaceFacts DEF Memory!Byte
  <2>4. QED
    BY <1>1, <1>2, <2>1, <2>2, <2>3, Flipped, JoinedFits
<1>3. CASE n = 2
  <2>1. mem[at] \in Memory!Byte /\ mem[at + 1] \in Memory!Byte
        /\ Memory!Part(mem, at, 2) = Joined2(mem[at + 1], mem[at])
    BY <1>3, PartIs
  <2>2. host = Joined2(mem[at], mem[at + 1])
    BY <1>3, <2>1, PlaceFacts DEF Memory!Together, Memory!Byte, Joined2
  <2>3. /\ host \in Nat /\ Memory!ByteOf(host, 0) = mem[at] /\ Memory!ByteOf(host, 1) = mem[at + 1]
    BY <2>1, <2>2, BytesOfJoined
  <2> HIDE DEF host
  <2>4. Memory!flip_endian(host, 2) = Joined2(mem[at + 1], mem[at])
    BY <2>3, Flipped
  <2>5. QED
    BY <1>1, <1>3, <2>1, <2>4, JoinedFits
<1>4. CASE n = 4
  <2>1. /\ mem[at] \in Memory!Byte /\ mem[at + 1] \in Memory!Byte
        /\ mem[at + 2] \in Memory!Byte /\ mem[at + 3] \in Memory!Byte
        /\ Memory!Part(mem, at, 4) = Joined4(mem[at + 3], mem[at + 2], mem[at + 1], mem[at])
    BY <1>4, PartIs
  <2>2. host = Joined4(mem[at], mem[at + 1], mem[at + 2], mem[at + 3])
    BY <1>4, <2>1, PlaceFacts DEF Memory!Together, Memory!Byte, Joined4
  <2>3. /\ host \in Nat /\ Memory!ByteOf(host, 0) = mem[at] /\ Memory!ByteOf(host, 1) = mem[at + 1]
        /\ Memory!ByteOf(host, 2) = mem[at + 2] /\ Memory!ByteOf(host, 3) = mem[at + 3]
    BY <2>1, <2>2, BytesOfJoined
  <2> HIDE DEF host
  <2>4. Memory!flip_endian(host, 4) = Joined4(mem[at + 3], mem[at + 2], mem[at + 1], mem[at])
    BY <2>3, Flipped
  <2>5. QED
    BY <1>1, <1>4, <2>1, <2>4, JoinedFits
<1>5. QED
  BY <1>2, <1>3, <1>4

\* What is written is a number there, and no other byte changes.
LEMMA SetIsPart ==
    ASSUME NEW n \in {1, 2, 4}, NEW at \in Nat, at + n <= Bytes,
           NEW m \in [Memory!Address -> Memory!Byte], NEW val \in Nat
    PROVE  LET new == Memory!setui(m, n, at, val)
           IN  /\ new \in [Memory!Address -> Memory!Byte]
               /\ \A x \in Memory!Address : x \notin at..(at + n - 1) => new[x] = m[x]
               /\ Memory!Part(new, at, n) = val % Memory!Place(n)
<1> DEFINE v == val % Memory!Place(n)
           flipped == Memory!flip_endian(v, n)
           new == Memory!setui(m, n, at, val)
<1>1. Memory!Place(n) \in Nat \ {0}
  BY PlaceFacts
<1>2. v \in Nat /\ v < Memory!Place(n)
  <2> DEFINE p == Memory!Place(n)
  <2> HIDE DEF p
  <2>1. val % p \in 0..(p - 1)
    BY <1>1 DEF p
  <2>2. QED
    BY <1>1, <2>1 DEF p
<1>3. new = [x \in Memory!Address |-> IF x \in at..(at + n - 1)
                                      THEN Memory!ByteOf(flipped, x - at) ELSE m[x]]
  BY DEF Memory!setui
<1> HIDE DEF v, new
<1>4. /\ flipped \in Nat
      /\ n = 1 => v = Memory!ByteOf(flipped, 0)
      /\ n = 2 => v = Joined2(Memory!ByteOf(flipped, 1), Memory!ByteOf(flipped, 0))
      /\ n = 4 => v = Joined4(Memory!ByteOf(flipped, 3), Memory!ByteOf(flipped, 2),
                              Memory!ByteOf(flipped, 1), Memory!ByteOf(flipped, 0))
  <2> DEFINE b0 == Memory!ByteOf(v, 0)
             b1 == Memory!ByteOf(v, 1)
             b2 == Memory!ByteOf(v, 2)
             b3 == Memory!ByteOf(v, 3)
  <2>1. b0 \in Memory!Byte /\ b1 \in Memory!Byte /\ b2 \in Memory!Byte /\ b3 \in Memory!Byte
    BY <1>2, ByteIsByte
  <2>2. /\ n = 1 => flipped = b0
        /\ n = 2 => flipped = Joined2(b1, b0)
        /\ n = 4 => flipped = Joined4(b3, b2, b1, b0)
    BY <1>2, Flipped
  <2>3. /\ n = 1 => v = b0
        /\ n = 2 => v = Joined2(b0, b1)
        /\ n = 4 => v = Joined4(b0, b1, b2, b3)
    BY <1>2, WordOfBytes
  <2> HIDE DEF b0, b1, b2, b3, flipped
  <2>4. CASE n = 1
    <3>1. flipped \in Nat /\ Memory!ByteOf(flipped, 0) = b0
      BY <2>1, <2>2, <2>4, BytesOfJoined, PlaceFacts DEF Memory!Byte
    <3>2. QED
      BY <2>3, <2>4, <3>1
  <2>5. CASE n = 2
    <3>1. flipped \in Nat /\ Memory!ByteOf(flipped, 0) = b1 /\ Memory!ByteOf(flipped, 1) = b0
      BY <2>1, <2>2, <2>5, BytesOfJoined
    <3>2. QED
      BY <2>3, <2>5, <3>1
  <2>6. CASE n = 4
    <3>1. /\ flipped \in Nat /\ Memory!ByteOf(flipped, 0) = b3 /\ Memory!ByteOf(flipped, 1) = b2
          /\ Memory!ByteOf(flipped, 2) = b1 /\ Memory!ByteOf(flipped, 3) = b0
      BY <2>1, <2>2, <2>6, BytesOfJoined
    <3>2. QED
      BY <2>3, <2>6, <3>1
  <2>7. QED
    BY <2>4, <2>5, <2>6
<1> HIDE DEF flipped
<1>5. new \in [Memory!Address -> Memory!Byte]
  <2>1. ASSUME NEW x \in Memory!Address, x \in at..(at + n - 1)
        PROVE  Memory!ByteOf(flipped, x - at) \in Memory!Byte
    <3>1. x - at \in 0..3
      BY <2>1
    <3>2. QED
      BY <1>4, <3>1, ByteIsByte
  <2>2. \A x \in Memory!Address : m[x] \in Memory!Byte
    OBVIOUS
  <2>3. QED
    BY <1>3, <2>1, <2>2
<1>6. \A x \in Memory!Address : x \notin at..(at + n - 1) => new[x] = m[x]
  BY <1>3
<1>7. ASSUME NEW k \in 0..3, k < n PROVE new[at + k] = Memory!ByteOf(flipped, k)
  <2>1. at + k \in Memory!Address /\ at + k \in at..(at + n - 1) /\ (at + k) - at = k
    BY <1>7, MemoryAssumption DEF Memory!Address
  <2>2. QED
    BY <1>3, <2>1
<1>8. at + 0 = at
  OBVIOUS
<1>9. Memory!Part(new, at, n) = v
  <2>1. CASE n = 1
    BY <1>4, <1>5, <1>7, <1>8, <2>1, PartIs
  <2>2. CASE n = 2
    <3>1. new[at] = Memory!ByteOf(flipped, 0) /\ new[at + 1] = Memory!ByteOf(flipped, 1)
      BY <1>7, <1>8, <2>2
    <3>2. Memory!Part(new, at, 2) = Joined2(new[at + 1], new[at])
      BY <1>5, <2>2, PartIs
    <3>3. QED
      BY <1>4, <2>2, <3>1, <3>2
  <2>3. CASE n = 4
    <3>1. /\ new[at] = Memory!ByteOf(flipped, 0) /\ new[at + 1] = Memory!ByteOf(flipped, 1)
          /\ new[at + 2] = Memory!ByteOf(flipped, 2) /\ new[at + 3] = Memory!ByteOf(flipped, 3)
      BY <1>7, <1>8, <2>3
    <3>2. Memory!Part(new, at, 4) = Joined4(new[at + 3], new[at + 2], new[at + 1], new[at])
      BY <1>5, <2>3, PartIs
    <3>3. QED
      BY <1>4, <2>3, <3>1, <3>2
  <2>4. QED
    BY <2>1, <2>2, <2>3
<1>10. QED
  BY <1>5, <1>6, <1>9 DEF new, v

\* A pair is two words, of which the first is the higher.
LEMMA PartOfPair ==
    ASSUME NEW m, NEW at
    PROVE  Memory!Part(m, at, 8)
               = Memory!Part(m, at, 4) * Memory!Place(4) + Memory!Part(m, at + 4, 4)
  BY DEF Memory!Part

\* Writing the second word of a pair leaves the first one alone.
LEMMA SetPairIsPart ==
    ASSUME NEW at \in Nat, at + 8 <= Bytes, NEW m \in [Memory!Address -> Memory!Byte],
           NEW high \in 0..(Memory!Place(4) - 1), NEW low \in 0..(Memory!Place(4) - 1)
    PROVE  LET new == Memory!setui(Memory!setui(m, 4, at, high), 4, at + 4, low)
           IN  /\ new \in [Memory!Address -> Memory!Byte]
               /\ \A x \in Memory!Address : x \notin at..(at + 8 - 1) => new[x] = m[x]
               /\ Memory!Part(new, at, 8) = high * Memory!Place(4) + low
<1> DEFINE first == Memory!setui(m, 4, at, high)
           new == Memory!setui(first, 4, at + 4, low)
<1>1. Memory!Place(4) \in Nat \ {0}
  BY PlaceFacts
<1>2. /\ high \in Nat /\ low \in Nat
      /\ high % Memory!Place(4) = high /\ low % Memory!Place(4) = low
  <2> DEFINE p == Memory!Place(4)
  <2> HIDE DEF p
  <2>1. \A v \in 0..(p - 1) : v \in Nat /\ v % p = v
    BY <1>1 DEF p
  <2>2. QED
    BY <2>1 DEF p
<1>3. /\ first \in [Memory!Address -> Memory!Byte]
      /\ \A x \in Memory!Address : x \notin at..(at + 4 - 1) => first[x] = m[x]
      /\ Memory!Part(first, at, 4) = high
  <2>1. at + 4 <= Bytes /\ 4 \in {1, 2, 4}
    BY MemoryAssumption
  <2>2. QED
    BY <1>2, <2>1, SetIsPart
<1> HIDE DEF first
<1>4. /\ new \in [Memory!Address -> Memory!Byte]
      /\ \A x \in Memory!Address : x \notin (at + 4)..((at + 4) + 4 - 1) => new[x] = first[x]
      /\ Memory!Part(new, at + 4, 4) = low
  <2>1. (at + 4) + 4 <= Bytes /\ at + 4 \in Nat /\ 4 \in {1, 2, 4}
    BY MemoryAssumption
  <2>2. QED
    BY <1>2, <1>3, <2>1, SetIsPart
<1> HIDE DEF new
<1>5. Memory!Part(new, at, 4) = high
  <2>1. ASSUME NEW x \in at..(at + 3) PROVE new[x] = first[x]
    <3>1. x \in Memory!Address /\ x \notin (at + 4)..((at + 4) + 4 - 1)
      BY MemoryAssumption DEF Memory!Address
    <3>2. QED
      BY <1>4, <3>1
  <2>2. new[at] = first[at] /\ new[at + 1] = first[at + 1]
        /\ new[at + 2] = first[at + 2] /\ new[at + 3] = first[at + 3]
    BY <2>1
  <2>3. at + 4 <= Bytes
    BY MemoryAssumption
  <2>4. /\ Memory!Part(new, at, 4) = Joined4(new[at + 3], new[at + 2], new[at + 1], new[at])
        /\ Memory!Part(first, at, 4) = Joined4(first[at + 3], first[at + 2], first[at + 1], first[at])
    BY <1>3, <1>4, <2>3, PartIs
  <2>5. QED
    BY <1>3, <2>2, <2>4
<1>6. \A x \in Memory!Address : x \notin at..(at + 8 - 1) => new[x] = m[x]
  BY <1>3, <1>4 DEF Memory!Address
<1>7. Memory!Part(new, at, 8) = high * Memory!Place(4) + low
  BY <1>4, <1>5, PartOfPair
<1>8. QED
  BY <1>4, <1>6, <1>7 DEF new, first

\* A sign extended above the word leaves the same remainder.
LEMMA ExtendedIs ==
    ASSUME NEW n \in {1, 2}, NEW val \in 0..(Memory!Place(n) - 1)
    PROVE  LET extended == IF val < Memory!Place(n) \div 2 THEN val
                           ELSE val + Memory!Place(4) - Memory!Place(n)
           IN  /\ extended % Memory!Place(n) = val
               /\ extended \in 0..(Memory!Place(n) \div 2 - 1)
                      \cup (Memory!Place(4) - Memory!Place(n) \div 2)..(Memory!Place(4) - 1)
<1> DEFINE p == Memory!Place(n)
           above == IF n = 1 THEN Radix * (Radix * Radix) ELSE Radix * Radix
<1>1. p \in Nat \ {0} /\ above \in Nat \ {0}
  BY PlaceFacts, Positive
<1>2. Memory!Place(4) = p * above
  <2>1. CASE n = 1
    BY <2>1, PlaceFacts
  <2>2. CASE n = 2
    <3>1. Radix * (Radix * (Radix * Radix)) = (Radix * Radix) * (Radix * Radix)
      BY PlaceFacts
    <3>2. QED
      BY <2>2, <3>1, PlaceFacts
  <2>3. QED
    BY <2>1, <2>2
<1>3. p = 2 * (p \div 2) /\ p \div 2 \in Nat
  <2>1. PICK half \in Nat : Radix = 2 * half
    BY RadixAssumption
  <2>2. half * Radix \in Nat /\ Radix * Radix = 2 * (half * Radix)
    BY <2>1, PlaceFacts
  <2>3. ASSUME NEW q \in Nat PROVE (2 * q) \div 2 = q
    OBVIOUS
  <2>4. p = Radix \/ p = Radix * Radix
    BY PlaceFacts
  <2> HIDE DEF p
  <2>5. PICK h \in Nat : p = 2 * h
    BY <2>1, <2>2, <2>4
  <2>6. QED
    BY <2>3, <2>5
<1> DEFINE h == p \div 2
<1> HIDE DEF p, above, h
<1>4. p = 2 * h /\ h \in Nat
  BY <1>3 DEF h
<1>5. p * above \in Nat /\ p <= p * above
  <2>1. 1 * p <= above * p
    BY <1>1, ProductAtLeast
  <2>2. QED
    BY <1>1, <2>1
<1>6. val \in 0..(p - 1)
  BY DEF p
<1>7. (val + p * above - p) % p = val
  <2>1. above - 1 \in Nat
    BY <1>1
  <2>2. val + p * above - p = (above - 1) * p + val
    BY <1>1, <1>6
  <2>3. val + p * above - p \in Nat
    BY <1>1, <1>5, <1>6
  <2>4. QED
    BY <1>1, <1>6, <2>1, <2>2, <2>3, Division
<1>8. val % p = val
  BY <1>1, <1>6
<1>9. IF val < h THEN val \in 0..(h - 1)
      ELSE val + p * above - p \in (p * above - h)..(p * above - 1)
  <2> DEFINE all == p * above
  <2> HIDE DEF all
  <2>1. all \in Nat
    BY <1>5 DEF all
  <2>2. QED
    BY <1>4, <1>6, <2>1 DEF all
<1>10. QED
  BY <1>2, <1>7, <1>8, <1>9 DEF p, h

-----------------------------------------------------------------------------
(* Each load and store *)

Word4 == 0..(Memory!Place(4) - 1)
Bank == [Memory!Registers -> Word4]
Image == [Memory!Address -> Memory!Byte]

\* MemoryIsBigEndian of an instruction, and of what it left: the frame, the
\* loads and the stores.
Frame(acc, m2, r2, f2, fsr2) ==
    /\ r2[0] = 0
    /\ \A g \in Memory!Registers : r2[g] # acc.r[g] =>
           /\ acc.name \in {"ld", "lds", "ldd", "ldstub", "swap"}
           /\ g = acc.rd \/ (acc.name \in {"ldd"} /\ g = acc.rd + 1)
    /\ \A g \in Memory!Registers : f2[g] # acc.f[g] =>
           /\ acc.name \in {"ldf", "lddf"}
           /\ g = acc.rd \/ (acc.name \in {"lddf"} /\ g = acc.rd + 1)
    /\ fsr2 # acc.fsr => acc.name \in {"ldfsr"}
    /\ m2 \in Image
    /\ \A x \in Memory!Address : m2[x] # acc.mem[x] =>
           x \in acc.address..(acc.address + acc.n - 1)
    /\ acc.name \in {"ld", "lds", "ldd", "ldf", "lddf", "ldfsr"} => m2 = acc.mem

Loads(acc, r2, f2, fsr2) ==
    LET before == Memory!Part(acc.mem, acc.address, acc.n)
    IN  /\ acc.name \in {"ld", "ldstub", "swap"} /\ acc.rd # 0 => r2[acc.rd] = before
        /\ acc.name \in {"lds"} /\ acc.rd # 0 =>
               /\ r2[acc.rd] % Memory!Place(acc.n) = before
               /\ r2[acc.rd] \in 0..(Memory!Place(acc.n) \div 2 - 1)
                      \cup (Memory!Place(4) - Memory!Place(acc.n) \div 2)..(Memory!Place(4) - 1)
        /\ acc.name \in {"ldd"} =>
               Memory!Pair(r2, acc.rd)
                   = IF acc.rd = 0 THEN before % Memory!Place(4) ELSE before
        /\ acc.name \in {"ldf"} => f2[acc.rd] = before
        /\ acc.name \in {"lddf"} => Memory!Pair(f2, acc.rd) = before
        /\ acc.name \in {"ldfsr"} => fsr2 = before

Stores(acc, m2) ==
    LET after == Memory!Part(m2, acc.address, acc.n)
    IN  /\ acc.name \in {"st", "swap"} => after = acc.r[acc.rd] % Memory!Place(acc.n)
        /\ acc.name \in {"std"} => after = Memory!Pair(acc.r, acc.rd)
        /\ acc.name \in {"stf"} => after = acc.f[acc.rd]
        /\ acc.name \in {"stdf"} => after = Memory!Pair(acc.f, acc.rd)
        /\ acc.name \in {"stfsr"} => after = acc.fsr
        /\ acc.name \in {"ldstub"} => after = Radix - 1

Correct(acc, m2, r2, f2, fsr2) ==
    Frame(acc, m2, r2, f2, fsr2) /\ Loads(acc, r2, f2, fsr2) /\ Stores(acc, m2)

LEMMA CorrectIs ==
    Correct(access, mem, r, f, fsr) => MemoryIsBigEndian
  BY DEF Correct, Frame, Loads, Stores, Image, MemoryIsBigEndian,
         Memory!MemoryIsBigEndian, Memory!IsOne

\* An instruction's name, width, register and address, and the state before it.
Done(name, n, rd, at) ==
    [name |-> name, n |-> n, rd |-> rd, address |-> at,
     mem |-> mem, r |-> r, f |-> f, fsr |-> fsr]

Typed ==
    mem \in Image /\ r \in Bank /\ r[0] = 0 /\ f \in Bank /\ fsr \in Word4

LEMMA WordFacts ==
    /\ Memory!Place(4) \in Nat \ {0}
    /\ \A w \in Word4 : w \in Nat /\ w % Memory!Place(4) = w
<1> DEFINE p == Memory!Place(4)
<1>1. p \in Nat \ {0}
  BY PlaceFacts
<1> HIDE DEF p
<1>2. \A w \in 0..(p - 1) : w \in Nat /\ w % p = w
  BY <1>1
<1>3. QED
  BY <1>1, <1>2 DEF p, Word4

\* The word that is read at an address.
LEMMA Got ==
    ASSUME Typed, NEW n \in {1, 2, 4}, NEW at \in Nat, at + n <= Bytes
    PROVE  /\ Memory!getui(n, at) = Memory!Part(mem, at, n)
           /\ Memory!getui(n, at) \in 0..(Memory!Place(n) - 1)
  BY GetIsPart DEF Typed, Image

LEMMA LdIsRight ==
    ASSUME Typed, NEW n \in {1, 2, 4}, NEW rd \in Memory!Registers, NEW at \in Nat, at + n <= Bytes
    PROVE  Correct(Done("ld", n, rd, at), mem,
                   Memory!Written(r, rd, Memory!getui(n, at)), f, fsr)
<1> DEFINE val == Memory!getui(n, at)
           acc == Done("ld", n, rd, at)
           r2 == Memory!Written(r, rd, val)
<1>1. /\ acc.name = "ld" /\ acc.n = n /\ acc.rd = rd /\ acc.address = at
      /\ acc.mem = mem /\ acc.r = r /\ acc.f = f /\ acc.fsr = fsr
  BY DEF Done
<1>2. val = Memory!Part(mem, at, n)
  BY Got
<1> HIDE DEF val, acc
<1>3. r2[0] = 0 /\ (rd # 0 => r2[rd] = val) /\ \A g \in Memory!Registers : r2[g] # r[g] => g = rd
  BY DEF Typed, Bank, Memory!Written, Memory!Registers
<1> HIDE DEF r2
<1>4. Frame(acc, mem, r2, f, fsr)
  BY <1>1, <1>3 DEF Frame, Typed
<1>5. Loads(acc, r2, f, fsr)
  BY <1>1, <1>2, <1>3 DEF Loads
<1>6. Stores(acc, mem)
  BY <1>1 DEF Stores
<1>7. QED
  BY <1>4, <1>5, <1>6 DEF Correct, acc, r2, val

LEMMA LdsIsRight ==
    ASSUME Typed, NEW n \in {1, 2}, NEW rd \in Memory!Registers, NEW at \in Nat, at + n <= Bytes
    PROVE  LET val == Memory!getui(n, at)
               extended == IF val < Memory!Place(n) \div 2 THEN val
                           ELSE val + Memory!Place(4) - Memory!Place(n)
           IN  Correct(Done("lds", n, rd, at), mem, Memory!Written(r, rd, extended), f, fsr)
<1> DEFINE val == Memory!getui(n, at)
           extended == IF val < Memory!Place(n) \div 2 THEN val
                       ELSE val + Memory!Place(4) - Memory!Place(n)
           acc == Done("lds", n, rd, at)
           r2 == Memory!Written(r, rd, extended)
<1>1. /\ acc.name = "lds" /\ acc.n = n /\ acc.rd = rd /\ acc.address = at
      /\ acc.mem = mem /\ acc.r = r /\ acc.f = f /\ acc.fsr = fsr
  BY DEF Done
<1>2. val = Memory!Part(mem, at, n) /\ val \in 0..(Memory!Place(n) - 1)
  BY Got
<1>3. /\ extended % Memory!Place(n) = val
      /\ extended \in 0..(Memory!Place(n) \div 2 - 1)
             \cup (Memory!Place(4) - Memory!Place(n) \div 2)..(Memory!Place(4) - 1)
  <2> HIDE DEF val
  <2>1. QED
    BY <1>2, ExtendedIs
<1> HIDE DEF val, extended, acc
<1>4. r2[0] = 0 /\ (rd # 0 => r2[rd] = extended)
      /\ \A g \in Memory!Registers : r2[g] # r[g] => g = rd
  BY DEF Typed, Bank, Memory!Written, Memory!Registers
<1> HIDE DEF r2
<1>5. Frame(acc, mem, r2, f, fsr)
  BY <1>1, <1>4 DEF Frame, Typed
<1>6. Loads(acc, r2, f, fsr)
  BY <1>1, <1>2, <1>3, <1>4, Zenon DEF Loads
<1>7. Stores(acc, mem)
  BY <1>1 DEF Stores
<1>8. QED
  BY <1>5, <1>6, <1>7 DEF Correct, acc, r2, extended, val

\* The pair of words that is read at an address.
LEMMA GotPair ==
    ASSUME Typed, NEW at \in Nat, at + 8 <= Bytes
    PROVE  LET high == Memory!getui(4, at)
               low == Memory!getui(4, at + 4)
               pair == Memory!Part(mem, at, 8)
           IN  /\ high \in Word4 /\ low \in Word4
               /\ pair = high * Memory!Place(4) + low
               /\ pair % Memory!Place(4) = low
<1> DEFINE high == Memory!getui(4, at)
           low == Memory!getui(4, at + 4)
           p == Memory!Place(4)
<1>1. at + 4 \in Nat /\ at + 4 <= Bytes /\ (at + 4) + 4 <= Bytes /\ 4 \in {1, 2, 4}
  BY MemoryAssumption
<1>2. /\ high = Memory!Part(mem, at, 4) /\ high \in Word4
      /\ low = Memory!Part(mem, at + 4, 4) /\ low \in Word4
  BY <1>1, Got DEF Word4
<1>3. Memory!Part(mem, at, 8) = high * p + low
  BY <1>2, PartOfPair
<1>4. p \in Nat \ {0} /\ low \in 0..(p - 1) /\ high \in Int
  BY <1>2, WordFacts DEF Word4
<1> HIDE DEF high, low, p
<1>5. (high * p + low) % p = low
  BY <1>4, Division
<1>6. QED
  BY <1>2, <1>3, <1>5 DEF high, low, p

\* The register after rd is written last, whatever rd is.
LEMMA LddIsRight ==
    ASSUME Typed, NEW rd \in Memory!Even, NEW at \in Nat, at + 8 <= Bytes
    PROVE  Correct(Done("ldd", 8, rd, at), mem,
                   [Memory!Written(r, rd, Memory!getui(4, at))
                        EXCEPT ![rd + 1] = Memory!getui(4, at + 4)], f, fsr)
<1> DEFINE high == Memory!getui(4, at)
           low == Memory!getui(4, at + 4)
           pair == Memory!Part(mem, at, 8)
           acc == Done("ldd", 8, rd, at)
           r2 == [Memory!Written(r, rd, high) EXCEPT ![rd + 1] = low]
<1>1. /\ acc.name = "ldd" /\ acc.n = 8 /\ acc.rd = rd /\ acc.address = at
      /\ acc.mem = mem /\ acc.r = r /\ acc.f = f /\ acc.fsr = fsr
  BY DEF Done
<1>2. high \in Word4 /\ low \in Word4 /\ pair = high * Memory!Place(4) + low
      /\ pair % Memory!Place(4) = low
  BY GotPair
<1>3. rd \in {0, 2}
  BY DEF Memory!Even
<1> HIDE DEF high, low, pair, acc
<1>4. /\ r2[0] = 0 /\ r2[rd] = (IF rd = 0 THEN 0 ELSE high) /\ r2[rd + 1] = low
      /\ \A g \in Memory!Registers : r2[g] # r[g] => g = rd \/ g = rd + 1
  BY <1>3 DEF Typed, Bank, Memory!Written, Memory!Registers
<1> HIDE DEF r2
<1>5. Frame(acc, mem, r2, f, fsr)
  BY <1>1, <1>4 DEF Frame, Typed
<1>6. Memory!Pair(r2, rd) = IF rd = 0 THEN pair % Memory!Place(4) ELSE pair
  <2>1. Memory!Pair(r2, rd) = (IF rd = 0 THEN 0 ELSE high) * Memory!Place(4) + low
    BY <1>4 DEF Memory!Pair
  <2>2. 0 * Memory!Place(4) + low = low
    BY <1>2, WordFacts
  <2>3. QED
    BY <1>2, <2>1, <2>2
<1>7. Loads(acc, r2, f, fsr)
  BY <1>1, <1>6 DEF Loads, pair
<1>8. Stores(acc, mem)
  BY <1>1 DEF Stores
<1>9. QED
  BY <1>5, <1>7, <1>8 DEF Correct, acc, r2, high, low

LEMMA StoredByte == Radix - 1 \in Nat /\ (Radix - 1) % Memory!Place(1) = Radix - 1
  BY PlaceFacts

\* What the bytes are after a store of a register.
LEMMA Stored ==
    ASSUME Typed, NEW n \in {1, 2, 4}, NEW at \in Nat, at + n <= Bytes, NEW val \in Nat
    PROVE  LET m2 == Memory!setui(mem, n, at, val)
           IN  /\ m2 \in Image
               /\ \A x \in Memory!Address : m2[x] # mem[x] => x \in at..(at + n - 1)
               /\ Memory!Part(m2, at, n) = val % Memory!Place(n)
<1>1. mem \in [Memory!Address -> Memory!Byte]
  BY DEF Typed, Image
<1> DEFINE m2 == Memory!setui(mem, n, at, val)
<1>2. /\ m2 \in [Memory!Address -> Memory!Byte]
      /\ \A x \in Memory!Address : x \notin at..(at + n - 1) => m2[x] = mem[x]
      /\ Memory!Part(m2, at, n) = val % Memory!Place(n)
  BY <1>1, SetIsPart, Zenon
<1>3. QED
  BY <1>2, Zenon DEF Image

LEMMA StoredPair ==
    ASSUME Typed, NEW at \in Nat, at + 8 <= Bytes, NEW high \in Word4, NEW low \in Word4
    PROVE  LET m2 == Memory!setui(Memory!setui(mem, 4, at, high), 4, at + 4, low)
           IN  /\ m2 \in Image
               /\ \A x \in Memory!Address : m2[x] # mem[x] => x \in at..(at + 8 - 1)
               /\ Memory!Part(m2, at, 8) = high * Memory!Place(4) + low
<1>1. mem \in [Memory!Address -> Memory!Byte]
  BY DEF Typed, Image
<1>2. QED
  BY <1>1, SetPairIsPart DEF Image, Word4

LEMMA StIsRight ==
    ASSUME Typed, NEW n \in {1, 2, 4}, NEW rd \in Memory!Registers, NEW at \in Nat, at + n <= Bytes
    PROVE  Correct(Done("st", n, rd, at), Memory!setui(mem, n, at, r[rd]), r, f, fsr)
<1> DEFINE m2 == Memory!setui(mem, n, at, r[rd])
           acc == Done("st", n, rd, at)
<1>1. /\ acc.name = "st" /\ acc.n = n /\ acc.rd = rd /\ acc.address = at
      /\ acc.mem = mem /\ acc.r = r /\ acc.f = f /\ acc.fsr = fsr
  BY DEF Done
<1>2. r[rd] \in Nat
  BY WordFacts DEF Typed, Bank
<1>3. /\ m2 \in Image /\ \A x \in Memory!Address : m2[x] # mem[x] => x \in at..(at + n - 1)
      /\ Memory!Part(m2, at, n) = r[rd] % Memory!Place(n)
  BY <1>2, Stored
<1> HIDE DEF m2, acc
<1>4. Frame(acc, m2, r, f, fsr)
  BY <1>1, <1>3 DEF Frame, Typed
<1>5. Loads(acc, r, f, fsr)
  BY <1>1 DEF Loads
<1>6. Stores(acc, m2)
  BY <1>1, <1>3 DEF Stores
<1>7. QED
  BY <1>4, <1>5, <1>6 DEF Correct, acc, m2

LEMMA StdIsRight ==
    ASSUME Typed, NEW rd \in Memory!Even, NEW at \in Nat, at + 8 <= Bytes
    PROVE  Correct(Done("std", 8, rd, at),
                   Memory!setui(Memory!setui(mem, 4, at, r[rd]), 4, at + 4, r[rd + 1]), r, f, fsr)
<1> DEFINE m2 == Memory!setui(Memory!setui(mem, 4, at, r[rd]), 4, at + 4, r[rd + 1])
           acc == Done("std", 8, rd, at)
<1>1. /\ acc.name = "std" /\ acc.n = 8 /\ acc.rd = rd /\ acc.address = at
      /\ acc.mem = mem /\ acc.r = r /\ acc.f = f /\ acc.fsr = fsr
  BY DEF Done
<1>2. r[rd] \in Word4 /\ r[rd + 1] \in Word4
  BY DEF Typed, Bank, Memory!Even, Memory!Registers
<1>3. /\ m2 \in Image /\ \A x \in Memory!Address : m2[x] # mem[x] => x \in at..(at + 8 - 1)
      /\ Memory!Part(m2, at, 8) = Memory!Pair(r, rd)
  BY <1>2, StoredPair DEF Memory!Pair
<1> HIDE DEF m2, acc
<1>4. Frame(acc, m2, r, f, fsr)
  BY <1>1, <1>3 DEF Frame, Typed
<1>5. Loads(acc, r, f, fsr)
  BY <1>1 DEF Loads
<1>6. Stores(acc, m2)
  BY <1>1, <1>3 DEF Stores
<1>7. QED
  BY <1>4, <1>5, <1>6 DEF Correct, acc, m2

LEMMA StfIsRight ==
    ASSUME Typed, NEW rd \in Memory!Registers, NEW at \in Nat, at + 4 <= Bytes
    PROVE  Correct(Done("stf", 4, rd, at), Memory!setui(mem, 4, at, f[rd]), r, f, fsr)
<1> DEFINE m2 == Memory!setui(mem, 4, at, f[rd])
           acc == Done("stf", 4, rd, at)
<1>1. /\ acc.name = "stf" /\ acc.n = 4 /\ acc.rd = rd /\ acc.address = at
      /\ acc.mem = mem /\ acc.r = r /\ acc.f = f /\ acc.fsr = fsr
  BY DEF Done
<1>2. f[rd] \in Nat /\ f[rd] % Memory!Place(4) = f[rd]
  BY WordFacts DEF Typed, Bank
<1>3. /\ m2 \in Image /\ \A x \in Memory!Address : m2[x] # mem[x] => x \in at..(at + 4 - 1)
      /\ Memory!Part(m2, at, 4) = f[rd]
  BY <1>2, Stored
<1> HIDE DEF m2, acc
<1>4. Frame(acc, m2, r, f, fsr)
  BY <1>1, <1>3 DEF Frame, Typed
<1>5. Loads(acc, r, f, fsr)
  BY <1>1 DEF Loads
<1>6. Stores(acc, m2)
  BY <1>1, <1>3 DEF Stores
<1>7. QED
  BY <1>4, <1>5, <1>6 DEF Correct, acc, m2

LEMMA StdfIsRight ==
    ASSUME Typed, NEW rd \in Memory!Even, NEW at \in Nat, at + 8 <= Bytes
    PROVE  Correct(Done("stdf", 8, rd, at),
                   Memory!setui(Memory!setui(mem, 4, at, f[rd]), 4, at + 4, f[rd + 1]), r, f, fsr)
<1> DEFINE m2 == Memory!setui(Memory!setui(mem, 4, at, f[rd]), 4, at + 4, f[rd + 1])
           acc == Done("stdf", 8, rd, at)
<1>1. /\ acc.name = "stdf" /\ acc.n = 8 /\ acc.rd = rd /\ acc.address = at
      /\ acc.mem = mem /\ acc.r = r /\ acc.f = f /\ acc.fsr = fsr
  BY DEF Done
<1>2. f[rd] \in Word4 /\ f[rd + 1] \in Word4
  BY DEF Typed, Bank, Memory!Even, Memory!Registers
<1>3. /\ m2 \in Image /\ \A x \in Memory!Address : m2[x] # mem[x] => x \in at..(at + 8 - 1)
      /\ Memory!Part(m2, at, 8) = Memory!Pair(f, rd)
  BY <1>2, StoredPair DEF Memory!Pair
<1> HIDE DEF m2, acc
<1>4. Frame(acc, m2, r, f, fsr)
  BY <1>1, <1>3 DEF Frame, Typed
<1>5. Loads(acc, r, f, fsr)
  BY <1>1 DEF Loads
<1>6. Stores(acc, m2)
  BY <1>1, <1>3 DEF Stores
<1>7. QED
  BY <1>4, <1>5, <1>6 DEF Correct, acc, m2

\* The byte is read before it is set.
LEMMA LdstubIsRight ==
    ASSUME Typed, NEW rd \in Memory!Registers, NEW at \in Nat, at + 1 <= Bytes
    PROVE  Correct(Done("ldstub", 1, rd, at), Memory!setui(mem, 1, at, Radix - 1),
                   Memory!Written(r, rd, Memory!getui(1, at)), f, fsr)
<1> DEFINE val == Memory!getui(1, at)
           m2 == Memory!setui(mem, 1, at, Radix - 1)
           acc == Done("ldstub", 1, rd, at)
           r2 == Memory!Written(r, rd, val)
<1>1. /\ acc.name = "ldstub" /\ acc.n = 1 /\ acc.rd = rd /\ acc.address = at
      /\ acc.mem = mem /\ acc.r = r /\ acc.f = f /\ acc.fsr = fsr
  BY DEF Done
<1>2. val = Memory!Part(mem, at, 1)
  BY Got
<1>3. Radix - 1 \in Nat /\ 1 \in {1, 2, 4}
  BY StoredByte
<1>4. /\ m2 \in Image /\ \A x \in Memory!Address : m2[x] # mem[x] => x \in at..(at + 1 - 1)
      /\ Memory!Part(m2, at, 1) = Radix - 1
  BY <1>3, Stored, StoredByte
<1> HIDE DEF val, acc, m2
<1>5. r2[0] = 0 /\ (rd # 0 => r2[rd] = val) /\ \A g \in Memory!Registers : r2[g] # r[g] => g = rd
  BY DEF Typed, Bank, Memory!Written, Memory!Registers
<1> HIDE DEF r2
<1>6. Frame(acc, m2, r2, f, fsr)
  BY <1>1, <1>4, <1>5 DEF Frame, Typed
<1>7. Loads(acc, r2, f, fsr)
  BY <1>1, <1>2, <1>5 DEF Loads
<1>8. Stores(acc, m2)
  BY <1>1, <1>4 DEF Stores
<1>9. QED
  BY <1>6, <1>7, <1>8 DEF Correct, acc, r2, m2, val

\* The word and the register change places.
LEMMA SwapIsRight ==
    ASSUME Typed, NEW rd \in Memory!Registers, NEW at \in Nat, at + 4 <= Bytes
    PROVE  Correct(Done("swap", 4, rd, at), Memory!setui(mem, 4, at, r[rd]),
                   Memory!Written(r, rd, Memory!getui(4, at)), f, fsr)
<1> DEFINE val == Memory!getui(4, at)
           m2 == Memory!setui(mem, 4, at, r[rd])
           acc == Done("swap", 4, rd, at)
           r2 == Memory!Written(r, rd, val)
<1>1. /\ acc.name = "swap" /\ acc.n = 4 /\ acc.rd = rd /\ acc.address = at
      /\ acc.mem = mem /\ acc.r = r /\ acc.f = f /\ acc.fsr = fsr
  BY DEF Done
<1>2. val = Memory!Part(mem, at, 4)
  BY Got
<1>3. r[rd] \in Nat /\ 4 \in {1, 2, 4}
  BY WordFacts DEF Typed, Bank
<1>4. /\ m2 \in Image /\ \A x \in Memory!Address : m2[x] # mem[x] => x \in at..(at + 4 - 1)
      /\ Memory!Part(m2, at, 4) = r[rd] % Memory!Place(4)
  BY <1>3, Stored, StoredByte
<1> HIDE DEF val, acc, m2
<1>5. r2[0] = 0 /\ (rd # 0 => r2[rd] = val) /\ \A g \in Memory!Registers : r2[g] # r[g] => g = rd
  BY DEF Typed, Bank, Memory!Written, Memory!Registers
<1> HIDE DEF r2
<1>6. Frame(acc, m2, r2, f, fsr)
  BY <1>1, <1>4, <1>5 DEF Frame, Typed
<1>7. Loads(acc, r2, f, fsr)
  BY <1>1, <1>2, <1>5 DEF Loads
<1>8. Stores(acc, m2)
  BY <1>1, <1>4 DEF Stores
<1>9. QED
  BY <1>6, <1>7, <1>8 DEF Correct, acc, r2, m2, val

LEMMA LdfIsRight ==
    ASSUME Typed, NEW rd \in Memory!Registers, NEW at \in Nat, at + 4 <= Bytes
    PROVE  Correct(Done("ldf", 4, rd, at), mem, r, [f EXCEPT ![rd] = Memory!getui(4, at)], fsr)
<1> DEFINE val == Memory!getui(4, at)
           acc == Done("ldf", 4, rd, at)
           f2 == [f EXCEPT ![rd] = val]
<1>1. /\ acc.name = "ldf" /\ acc.n = 4 /\ acc.rd = rd /\ acc.address = at
      /\ acc.mem = mem /\ acc.r = r /\ acc.f = f /\ acc.fsr = fsr
  BY DEF Done
<1>2. val = Memory!Part(mem, at, 4)
  BY Got
<1> HIDE DEF val, acc
<1>3. f2[rd] = val /\ \A g \in Memory!Registers : f2[g] # f[g] => g = rd
  BY DEF Typed, Bank
<1> HIDE DEF f2
<1>4. Frame(acc, mem, r, f2, fsr)
  BY <1>1, <1>3 DEF Frame, Typed
<1>5. Loads(acc, r, f2, fsr)
  BY <1>1, <1>2, <1>3 DEF Loads
<1>6. Stores(acc, mem)
  BY <1>1 DEF Stores
<1>7. QED
  BY <1>4, <1>5, <1>6 DEF Correct, acc, f2, val

LEMMA LddfIsRight ==
    ASSUME Typed, NEW rd \in Memory!Even, NEW at \in Nat, at + 8 <= Bytes
    PROVE  Correct(Done("lddf", 8, rd, at), mem, r,
                   [f EXCEPT ![rd] = Memory!getui(4, at), ![rd + 1] = Memory!getui(4, at + 4)], fsr)
<1> DEFINE high == Memory!getui(4, at)
           low == Memory!getui(4, at + 4)
           pair == Memory!Part(mem, at, 8)
           acc == Done("lddf", 8, rd, at)
           f2 == [f EXCEPT ![rd] = high, ![rd + 1] = low]
<1>1. /\ acc.name = "lddf" /\ acc.n = 8 /\ acc.rd = rd /\ acc.address = at
      /\ acc.mem = mem /\ acc.r = r /\ acc.f = f /\ acc.fsr = fsr
  BY DEF Done
<1>2. pair = high * Memory!Place(4) + low
  BY GotPair
<1>3. rd \in {0, 2}
  BY DEF Memory!Even
<1> HIDE DEF high, low, pair, acc
<1>4. /\ f2[rd] = high /\ f2[rd + 1] = low
      /\ \A g \in Memory!Registers : f2[g] # f[g] => g = rd \/ g = rd + 1
  BY <1>3 DEF Typed, Bank, Memory!Registers
<1> HIDE DEF f2
<1>5. Frame(acc, mem, r, f2, fsr)
  BY <1>1, <1>4 DEF Frame, Typed
<1>6. Memory!Pair(f2, rd) = pair
  BY <1>2, <1>4 DEF Memory!Pair
<1>7. Loads(acc, r, f2, fsr)
  BY <1>1, <1>6 DEF Loads, pair
<1>8. Stores(acc, mem)
  BY <1>1 DEF Stores
<1>9. QED
  BY <1>5, <1>7, <1>8 DEF Correct, acc, f2, high, low

LEMMA LdfsrIsRight ==
    ASSUME Typed, NEW at \in Nat, at + 4 <= Bytes
    PROVE  Correct(Done("ldfsr", 4, 0, at), mem, r, f, Memory!getui(4, at))
<1> DEFINE val == Memory!getui(4, at)
           acc == Done("ldfsr", 4, 0, at)
<1>1. /\ acc.name = "ldfsr" /\ acc.n = 4 /\ acc.rd = 0 /\ acc.address = at
      /\ acc.mem = mem /\ acc.r = r /\ acc.f = f /\ acc.fsr = fsr
  BY DEF Done
<1>2. val = Memory!Part(mem, at, 4)
  BY Got
<1> HIDE DEF val, acc
<1>3. Frame(acc, mem, r, f, val)
  BY <1>1 DEF Frame, Typed
<1>4. Loads(acc, r, f, val)
  BY <1>1, <1>2 DEF Loads
<1>5. Stores(acc, mem)
  BY <1>1 DEF Stores
<1>6. QED
  BY <1>3, <1>4, <1>5 DEF Correct, acc, val

LEMMA StfsrIsRight ==
    ASSUME Typed, NEW at \in Nat, at + 4 <= Bytes
    PROVE  Correct(Done("stfsr", 4, 0, at), Memory!setui(mem, 4, at, fsr), r, f, fsr)
<1> DEFINE m2 == Memory!setui(mem, 4, at, fsr)
           acc == Done("stfsr", 4, 0, at)
<1>1. /\ acc.name = "stfsr" /\ acc.n = 4 /\ acc.rd = 0 /\ acc.address = at
      /\ acc.mem = mem /\ acc.r = r /\ acc.f = f /\ acc.fsr = fsr
  BY DEF Done
<1>2. fsr \in Nat /\ fsr % Memory!Place(4) = fsr
  BY WordFacts DEF Typed
<1>3. /\ m2 \in Image /\ \A x \in Memory!Address : m2[x] # mem[x] => x \in at..(at + 4 - 1)
      /\ Memory!Part(m2, at, 4) = fsr
  BY <1>2, Stored
<1> HIDE DEF m2, acc
<1>4. Frame(acc, m2, r, f, fsr)
  BY <1>1, <1>3 DEF Frame, Typed
<1>5. Loads(acc, r, f, fsr)
  BY <1>1 DEF Loads
<1>6. Stores(acc, m2)
  BY <1>1, <1>3 DEF Stores
<1>7. QED
  BY <1>4, <1>5, <1>6 DEF Correct, acc, m2

\* The state before an instruction, the only one to run, and what it leaves.
MemoryInv == (access = Memory!Idle => Typed) /\ MemoryIsBigEndian

\* What is true of what an instruction leaves is true of the next state.
LEMMA Leaves ==
    ASSUME NEW name, NEW n, NEW rd, NEW at, name # "none",
           Memory!Instruction(name, n, rd, at),
           Correct(Done(name, n, rd, at), mem', r', f', fsr')
    PROVE  MemoryInv'
<1>1. access' = Done(name, n, rd, at)
  BY DEF Memory!Instruction, Done
<1>2. access' # Memory!Idle
  <2>1. access'.name = name
    BY <1>1 DEF Done
  <2>2. Memory!Idle.name = "none"
    BY DEF Memory!Idle
  <2>3. QED
    BY <2>1, <2>2
<1>3. Correct(access, mem, r, f, fsr)'
  BY <1>1
<1>4. MemoryIsBigEndian'
  BY <1>3, CorrectIs, PTL
<1>5. QED
  BY <1>2, <1>4 DEF MemoryInv

LEMMA PlainAccess ==
    ASSUME Typed, NEW n \in {1, 2, 4}, NEW rd \in Memory!Registers, NEW at \in Memory!Aligned(n),
           Memory!Ld(n, rd, at) \/ Memory!St(n, rd, at) \/ (n # 4 /\ Memory!Lds(n, rd, at))
    PROVE  MemoryInv'
<1>1. at \in Nat /\ at + n <= Bytes
  BY DEF Memory!Aligned, Memory!Address
<1>2. CASE Memory!Ld(n, rd, at)
  <2>1. Correct(Done("ld", n, rd, at), mem', r', f', fsr')
    BY <1>1, <1>2, LdIsRight DEF Memory!Ld
  <2>2. QED
    BY <1>2, <2>1, Leaves DEF Memory!Ld
<1>3. CASE Memory!St(n, rd, at)
  <2>1. Correct(Done("st", n, rd, at), mem', r', f', fsr')
    BY <1>1, <1>3, StIsRight DEF Memory!St
  <2>2. QED
    BY <1>3, <2>1, Leaves DEF Memory!St
<1>4. CASE n # 4 /\ Memory!Lds(n, rd, at)
  <2>1. Correct(Done("lds", n, rd, at), mem', r', f', fsr')
    BY <1>1, <1>4, LdsIsRight DEF Memory!Lds
  <2>2. QED
    BY <1>4, <2>1, Leaves DEF Memory!Lds
<1>5. QED
  BY <1>2, <1>3, <1>4

LEMMA PairAccess ==
    ASSUME Typed, NEW rd \in Memory!Even, NEW at \in Memory!Aligned(8),
           Memory!Ldd(rd, at) \/ Memory!Std(rd, at) \/ Memory!Lddf(rd, at) \/ Memory!Stdf(rd, at)
    PROVE  MemoryInv'
<1>1. at \in Nat /\ at + 8 <= Bytes
  BY DEF Memory!Aligned, Memory!Address
<1>2. CASE Memory!Ldd(rd, at)
  <2>1. Correct(Done("ldd", 8, rd, at), mem', r', f', fsr')
    BY <1>1, <1>2, LddIsRight DEF Memory!Ldd
  <2>2. QED
    BY <1>2, <2>1, Leaves DEF Memory!Ldd
<1>3. CASE Memory!Std(rd, at)
  <2>1. Correct(Done("std", 8, rd, at), mem', r', f', fsr')
    BY <1>1, <1>3, StdIsRight DEF Memory!Std
  <2>2. QED
    BY <1>3, <2>1, Leaves DEF Memory!Std
<1>4. CASE Memory!Lddf(rd, at)
  <2>1. Correct(Done("lddf", 8, rd, at), mem', r', f', fsr')
    BY <1>1, <1>4, LddfIsRight DEF Memory!Lddf
  <2>2. QED
    BY <1>4, <2>1, Leaves DEF Memory!Lddf
<1>5. CASE Memory!Stdf(rd, at)
  <2>1. Correct(Done("stdf", 8, rd, at), mem', r', f', fsr')
    BY <1>1, <1>5, StdfIsRight DEF Memory!Stdf
  <2>2. QED
    BY <1>5, <2>1, Leaves DEF Memory!Stdf
<1>6. QED
  BY <1>2, <1>3, <1>4, <1>5

LEMMA ByteExchange ==
    ASSUME Typed, NEW rd \in Memory!Registers, NEW at \in Memory!Aligned(1), Memory!Ldstub(rd, at)
    PROVE  MemoryInv'
<1>1. at \in Nat /\ at + 1 <= Bytes
  BY DEF Memory!Aligned, Memory!Address
<1>2. Correct(Done("ldstub", 1, rd, at), mem', r', f', fsr')
  BY <1>1, LdstubIsRight DEF Memory!Ldstub
<1>3. QED
  BY <1>2, Leaves DEF Memory!Ldstub

LEMMA WordAccess ==
    ASSUME Typed, NEW rd \in Memory!Registers, NEW at \in Memory!Aligned(4),
           Memory!Swap(rd, at) \/ Memory!Ldf(rd, at) \/ Memory!Stf(rd, at) \/ Memory!Fsr(at)
    PROVE  MemoryInv'
<1>1. at \in Nat /\ at + 4 <= Bytes
  BY DEF Memory!Aligned, Memory!Address
<1>2. CASE Memory!Swap(rd, at)
  <2>1. Correct(Done("swap", 4, rd, at), mem', r', f', fsr')
    BY <1>1, <1>2, SwapIsRight DEF Memory!Swap
  <2>2. QED
    BY <1>2, <2>1, Leaves DEF Memory!Swap
<1>3. CASE Memory!Ldf(rd, at)
  <2>1. Correct(Done("ldf", 4, rd, at), mem', r', f', fsr')
    BY <1>1, <1>3, LdfIsRight DEF Memory!Ldf
  <2>2. QED
    BY <1>3, <2>1, Leaves DEF Memory!Ldf
<1>4. CASE Memory!Stf(rd, at)
  <2>1. Correct(Done("stf", 4, rd, at), mem', r', f', fsr')
    BY <1>1, <1>4, StfIsRight DEF Memory!Stf
  <2>2. QED
    BY <1>4, <2>1, Leaves DEF Memory!Stf
<1>5. CASE fsr' = Memory!getui(4, at) /\ UNCHANGED <<mem, r, f>> /\ Memory!Instruction("ldfsr", 4, 0, at)
  <2>1. Correct(Done("ldfsr", 4, 0, at), mem', r', f', fsr')
    BY <1>1, <1>5, LdfsrIsRight
  <2>2. QED
    BY <1>5, <2>1, Leaves
<1>6. CASE mem' = Memory!setui(mem, 4, at, fsr) /\ UNCHANGED <<r, f, fsr>> /\ Memory!Instruction("stfsr", 4, 0, at)
  <2>1. Correct(Done("stfsr", 4, 0, at), mem', r', f', fsr')
    BY <1>1, <1>6, StfsrIsRight
  <2>2. QED
    BY <1>6, <2>1, Leaves
<1>7. QED
  BY <1>2, <1>3, <1>4, <1>5, <1>6 DEF Memory!Fsr

LEMMA MemoryAtFirst == Memory!Init => MemoryInv
<1> SUFFICES ASSUME Memory!Init PROVE MemoryInv
  OBVIOUS
<1>1. Memory!Place(4) = Radix * Radix * Radix * Radix /\ Memory!Place(4) \in Nat \ {0}
  BY PlaceFacts DEF Memory!Place
<1>2. {0} \cup Values \subseteq Word4
  BY <1>1, MemoryAssumption DEF Word4
<1>3. r \in Bank /\ r[0] = 0 /\ f = r /\ fsr = r[3]
  BY <1>2 DEF Memory!Init, Bank
<1>4. fsr \in Word4
  BY <1>3 DEF Bank, Memory!Registers
<1>5. Typed
  BY <1>3, <1>4 DEF Memory!Init, Typed, Image
<1>6. QED
  BY <1>5 DEF Memory!Init, MemoryInv, MemoryIsBigEndian, Memory!MemoryIsBigEndian

LEMMA NextMemory == MemoryInv /\ [Memory!Next]_(Memory!vars) => MemoryInv'
<1> SUFFICES ASSUME MemoryInv, [Memory!Next]_(Memory!vars) PROVE MemoryInv'
  OBVIOUS
<1>1. CASE UNCHANGED Memory!vars
  <2>1. /\ access' = access /\ Typed' = Typed
        /\ MemoryIsBigEndian' = MemoryIsBigEndian
    BY <1>1 DEF Memory!vars, Typed, Image, Bank, Word4, MemoryIsBigEndian,
                Memory!MemoryIsBigEndian, Memory!IsOne
  <2>2. QED
    BY <2>1 DEF MemoryInv, Memory!Idle
<1>2. CASE Memory!Next
  <2>1. Typed
    BY <1>2 DEF Memory!Next, MemoryInv
  <2>2. {1, 2} \subseteq {1, 2, 4} /\ \A n \in {1, 2} : n # 4
    OBVIOUS
  <2>3. 0 \in Memory!Registers
    BY DEF Memory!Registers
  <2>4. QED
    BY <1>2, <2>1, <2>2, <2>3, PlainAccess, PairAccess, ByteExchange, WordAccess, Zenon
       DEF Memory!Next
<1>3. QED
  BY <1>1, <1>2

\* For bytes, memories and registers of every size: loads take and stores
\* replace numbers of which the first byte is the highest, whatever the widths
\* of the accesses, and leave everything else alone.
THEOREM MemoryIsAlwaysBigEndian == Memory!Spec => []MemoryIsBigEndian
<1>1. MemoryInv => MemoryIsBigEndian
  BY DEF MemoryInv
<1>2. QED
  BY <1>1, MemoryAtFirst, NextMemory, PTL DEF Memory!Spec
=============================================================================
