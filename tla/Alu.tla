-------------------------------- MODULE Alu --------------------------------
(***************************************************************************)
(* The integer instructions of Sparc::run() in sparc.cxx: what each writes *)
(* to rd, to y and to the condition codes, for words of any width, and the *)
(* condition a Bicc or Tcc tests.                                          *)
(*                                                                         *)
(* A word is a number below Size.  Each operator returns [rd, icc, y], of  *)
(* which icc and y are what they were when the instruction leaves them     *)
(* alone.                                                                  *)
(***************************************************************************)
EXTENDS Integers

CONSTANTS
    Width,       \* the bits of a word, 32 in the emulator
    Half         \* the weight of its sign bit

ASSUME HalfAssumption == Half \in Nat \ {0}
\* The weight of bit i of a word.
Weight[i \in 0..Width] == IF i = 0 THEN 1 ELSE 2 * Weight[i - 1]

ASSUME WidthAssumption == Width \in Nat \ {0} /\ Half = Weight[Width - 1]

Size == 2 * Half
Word == 0..(Size - 1)
Flags == [n : BOOLEAN, z : BOOLEAN, v : BOOLEAN, c : BOOLEAN]

sign(x) == x >= Half
Signed(x) == IF sign(x) THEN x - Size ELSE x

\* The word a sum or difference of two words and a carry is cut to.
Cut(s) == IF s >= Size THEN s - Size ELSE IF s < 0 THEN s + Size ELSE s

\* set_zn, with the two other codes.
Codes(x, v, c) == [n |-> sign(x), z |-> x = 0, v |-> v, c |-> c]

Carry(icc) == IF icc.c THEN 1 ELSE 0
Tagged(val1, val2) == val1 % 4 # 0 \/ val2 % 4 # 0

-----------------------------------------------------------------------------
(* Sums and differences *)

SumOverflows(val1, val2, result) ==
    sign(val1) = sign(val2) /\ sign(val1) # sign(result)

DifferenceOverflows(val1, val2, diff) ==
    sign(val1) # sign(val2) /\ sign(diff) # sign(val1)

\* Mutant of Borrows: a difference of equal signs never borrows.
BorrowsBySign(val1, val2, diff) == ~sign(val1) /\ sign(val2)

\* The carry of a difference, from three sign bits.
Borrows(val1, val2, diff) ==
    \/ ~sign(val1) /\ sign(val2)
    \/ sign(diff) /\ (~sign(val1) \/ sign(val2))

\* Mutant of Add: the carry is added to the sum, but not to what sets carry.
AddCarryLate(op, val1, val2, icc, y) ==
    LET sum == val1 + val2
        result == Cut(sum + IF op \in {"addx", "addxcc"} THEN Carry(icc) ELSE 0)
    IN  [rd |-> result, y |-> y,
         icc |-> IF op \in {"add", "addx"} THEN icc
                 ELSE Codes(result, SumOverflows(val1, val2, result), sum >= Size)]

\* add, addx, addcc, addxcc and taddcc
Add(op, val1, val2, icc, y) ==
    LET sum == val1 + val2 + IF op \in {"addx", "addxcc"} THEN Carry(icc) ELSE 0
        result == Cut(sum)
        v == \/ SumOverflows(val1, val2, result)
             \/ op = "taddcc" /\ Tagged(val1, val2)
    IN  [rd |-> result, y |-> y,
         icc |-> IF op \in {"add", "addx"} THEN icc ELSE Codes(result, v, sum >= Size)]

\* sub, subx, subcc, subxcc and tsubcc
Subtract(op, val1, val2, icc, y) ==
    LET diff == Cut(val1 - val2 - IF op \in {"subx", "subxcc"} THEN Carry(icc) ELSE 0)
        v == \/ DifferenceOverflows(val1, val2, diff)
             \/ op = "tsubcc" /\ Tagged(val1, val2)
    IN  [rd |-> diff, y |-> y,
         icc |-> IF op \in {"sub", "subx"} THEN icc
                 ELSE Codes(diff, v, Borrows(val1, val2, diff))]

\* taddcctv and tsubcctv end the program when they overflow.
TaggedTraps(op, val1, val2) ==
    \/ Tagged(val1, val2)
    \/ op = "taddcctv" /\ SumOverflows(val1, val2, Cut(val1 + val2))
    \/ op = "tsubcctv" /\ DifferenceOverflows(val1, val2, Cut(val1 - val2))

-----------------------------------------------------------------------------
(* Bits *)

Bits(x) == {i \in 0..(Width - 1) : (x \div Weight[i]) % 2 = 1}
OfBits(s) ==
    LET below[n \in 0..Width] ==
            IF n = 0 THEN 0 ELSE below[n - 1] + IF n - 1 \in s THEN Weight[n - 1] ELSE 0
    IN  below[Width]

\* and, or, xor, andn, orn and xnor; the cc forms clear v and c.
Bitwise(op, cc, val1, val2, icc, y) ==
    LET a == Bits(val1)
        b == Bits(val2)
        all == 0..(Width - 1)
        result == OfBits(CASE op = "and"  -> a \cap b
                           [] op = "or"   -> a \cup b
                           [] op = "xor"  -> (a \ b) \cup (b \ a)
                           [] op = "andn" -> a \ b
                           [] op = "orn"  -> a \cup (all \ b)
                           [] op = "xnor" -> (a \cap b) \cup (all \ (a \cup b)))
    IN  [rd |-> result, y |-> y, icc |-> IF cc THEN Codes(result, FALSE, FALSE) ELSE icc]

\* sll, srl and sra, by the low bits of val2.
Shift(op, val1, val2, icc, y) ==
    LET by == Weight[val2 % Width]
    IN  [rd |-> CASE op = "sll" -> (val1 * by) % Size
                  [] op = "srl" -> val1 \div by
                  [] op = "sra" -> (Signed(val1) \div by) % Size,
         y |-> y, icc |-> icc]

-----------------------------------------------------------------------------
(* Products and quotients *)

\* umul and smul, umulcc and smulcc: y has the upper word.
Multiply(op, cc, val1, val2, icc, y) ==
    LET product == IF op = "umul" THEN val1 * val2 ELSE Signed(val1) * Signed(val2)
        result == product % Size
    IN  [rd |-> result, y |-> (product \div Size) % Size,
         icc |-> IF cc THEN Codes(result, FALSE, FALSE) ELSE icc]

\* Mutant of Truncated: the division of TLA+, which rounds down.
RoundedDown(n, d) == IF d < 0 THEN (-n) \div (-d) ELSE n \div d

\* C's division, which truncates.
Truncated(n, d) ==
    LET q == (IF n < 0 THEN -n ELSE n) \div (IF d < 0 THEN -d ELSE d)
    IN  IF (n < 0) = (d < 0) THEN q ELSE -q

\* udiv and udivcc, of y and val1 by a val2 that is not 0.
DivideUnsigned(cc, val1, val2, icc, y) ==
    LET quotient == (y * Size + val1) \div val2
        overflow == quotient >= Size
        result == IF overflow THEN Size - 1 ELSE quotient
    IN  [rd |-> result, y |-> y, icc |-> IF cc THEN Codes(result, overflow, FALSE) ELSE icc]

\* sdiv and sdivcc.  The smallest dividend by -1 has no quotient in C.
DivideSigned(cc, val1, val2, icc, y) ==
    LET dividend == Signed(y) * Size + val1
        smallest == -(Half * Size)
        doubleOverflow == dividend = smallest /\ Signed(val2) = -1
        quotient == IF doubleOverflow THEN -smallest - 1
                    ELSE Truncated(dividend, Signed(val2))
        overflow == doubleOverflow \/ quotient < -Half \/ quotient > Half - 1
        result == CASE ~overflow                -> quotient % Size
                    [] overflow /\ quotient < 0 -> Half
                    [] OTHER                    -> Half - 1
    IN  [rd |-> result, y |-> y, icc |-> IF cc THEN Codes(result, overflow, FALSE) ELSE icc]

\* Mutant of MulStep: the shifted sum loses its overflow.
MulStepNoOverflow(val1, val2, icc, y) ==
    LET operand1 == (val1 \div 2) + IF icc.n THEN Half ELSE 0
        operand2 == IF y % 2 = 1 THEN val2 ELSE 0
        result == Cut(operand1 + operand2)
    IN  [rd |-> result,
         y |-> (y \div 2) + IF val1 % 2 = 1 THEN Half ELSE 0,
         icc |-> Codes(result, SumOverflows(operand1, operand2, result), FALSE)]

\* mulscc: one step of a multiplication.
MulStep(val1, val2, icc, y) ==
    LET operand1 == (val1 \div 2) + IF icc.n # icc.v THEN Half ELSE 0
        operand2 == IF y % 2 = 1 THEN val2 ELSE 0
        result == Cut(operand1 + operand2)
        one == sign(operand1)
        two == sign(operand2)
    IN  [rd |-> result,
         y |-> (y \div 2) + IF val1 % 2 = 1 THEN Half ELSE 0,
         icc |-> Codes(result,
                       \/ one /\ two /\ ~sign(result)
                       \/ ~one /\ ~two /\ sign(result),
                       \/ one /\ two
                       \/ ~sign(result) /\ (one \/ two))]

-----------------------------------------------------------------------------
(* Conditions *)

\* Mutant of Tests: "less" forgets the overflow.
TestsSignOnly(cond, icc) ==
    CASE cond = 1 -> icc.z
      [] cond = 2 -> icc.z \/ icc.n
      [] cond = 3 -> icc.n
      [] cond = 4 -> icc.c \/ icc.z
      [] cond = 5 -> icc.c
      [] OTHER -> FALSE

Tests(cond, icc) ==
    CASE cond = 0 -> FALSE
      [] cond = 1 -> icc.z
      [] cond = 2 -> icc.z \/ icc.n # icc.v
      [] cond = 3 -> icc.n # icc.v
      [] cond = 4 -> icc.c \/ icc.z
      [] cond = 5 -> icc.c
      [] cond = 6 -> icc.n
      [] cond = 7 -> icc.v

\* Conditions 8 to 15 are the negations of 0 to 7.
check_condition(cond, icc) ==
    IF cond < 8 THEN Tests(cond, icc) ELSE ~Tests(cond - 8, icc)
=============================================================================
