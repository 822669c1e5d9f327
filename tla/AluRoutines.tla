---------------------------- MODULE AluRoutines ----------------------------
(***************************************************************************)
(* What compilers make of the integer instructions: sums and comparisons   *)
(* of double words, by a carry from one instruction to the next, and the   *)
(* multiplication of code for sparc v7, a loop of mulscc.  A state is      *)
(* between two instructions of such a routine.                             *)
(***************************************************************************)
EXTENDS Alu

VARIABLES
    routine,     \* "add" and "compare" double words, or "multiply" words
    a, b,        \* its operands
    step,        \* the instructions executed so far
    hi, lo,      \* the registers of its result
    y, icc

vars == <<routine, a, b, step, hi, lo, y, icc>>

DoubleWord == 0..(Size * Size - 1)

Init ==
    /\ \/ routine \in {"add", "compare"} /\ a \in DoubleWord /\ b \in DoubleWord
       \/ routine = "multiply" /\ a \in Word /\ b \in Word
    /\ step = 0
    /\ hi = 0 /\ lo = 0 /\ y = 0
    /\ icc = [n |-> FALSE, z |-> FALSE, v |-> FALSE, c |-> FALSE]

Low(d) == d % Size
High(d) == d \div Size

At(name, steps) == routine = name /\ step \in steps /\ step' = step + 1

Writes(result) ==
    /\ icc' = result.icc
    /\ y' = result.y
    /\ UNCHANGED <<routine, a, b>>

\* addcc lo, lo, lo; addxcc hi, hi, hi
AddLow ==
    LET result == Add("addcc", Low(a), Low(b), icc, y)
    IN  At("add", {0}) /\ Writes(result) /\ lo' = result.rd /\ UNCHANGED hi

AddHigh ==
    LET result == Add("addxcc", High(a), High(b), icc, y)
    IN  At("add", {1}) /\ Writes(result) /\ hi' = result.rd /\ UNCHANGED lo

\* subcc lo, lo, lo; subxcc hi, hi, hi
SubtractLow ==
    LET result == Subtract("subcc", Low(a), Low(b), icc, y)
    IN  At("compare", {0}) /\ Writes(result) /\ lo' = result.rd /\ UNCHANGED hi

SubtractHigh ==
    LET result == Subtract("subxcc", High(a), High(b), icc, y)
    IN  At("compare", {1}) /\ Writes(result) /\ hi' = result.rd /\ UNCHANGED lo

\* wr b, y; andcc g0, g0, hi
StartMultiply ==
    LET cleared == Bitwise("and", TRUE, 0, 0, icc, b)
    IN  At("multiply", {0}) /\ Writes(cleared) /\ hi' = cleared.rd /\ UNCHANGED lo

\* mulscc hi, a, hi, as often as a word has bits
MultiplyStep ==
    LET result == MulStep(hi, a, icc, y)
    IN  At("multiply", 1..Width) /\ Writes(result) /\ hi' = result.rd /\ UNCHANGED lo

\* mulscc hi, g0, hi; rd y, lo
FinishMultiply ==
    LET result == MulStep(hi, 0, icc, y)
    IN  /\ At("multiply", {Width + 1})
        /\ Writes(result)
        /\ hi' = result.rd
        /\ lo' = result.y

Next ==
    \/ AddLow
    \/ AddHigh
    \/ SubtractLow
    \/ SubtractHigh
    \/ StartMultiply
    \/ MultiplyStep
    \/ FinishMultiply

Spec == Init /\ [][Next]_vars

-----------------------------------------------------------------------------
(***************************************************************************)
(* Properties.                                                             *)
(***************************************************************************)

SignedDouble(d) == IF High(d) >= Half THEN d - Size * Size ELSE d
Result == hi * Size + lo

\* The carry that addcc leaves and addxcc takes in makes one sum of two, whose
\* codes are those of the double words (sparc.cxx:1008, 1016); and after subcc
\* and subxcc the conditions "carry set" and "less", and their opposites,
\* compare double words (sparc.cxx:1085, 1095).
DoubleWordsAreExact ==
    /\ routine = "add" /\ step = 2 =>
           /\ Result = (a + b) % (Size * Size)
           /\ icc.c <=> a + b >= Size * Size
           /\ icc.v <=> SignedDouble(Result) # SignedDouble(a) + SignedDouble(b)
    /\ routine = "compare" /\ step = 2 =>
           /\ check_condition(5, icc)  <=> a < b
           /\ check_condition(13, icc) <=> a >= b
           /\ check_condition(3, icc)  <=> SignedDouble(a) < SignedDouble(b)
           /\ check_condition(11, icc) <=> SignedDouble(a) >= SignedDouble(b)

\* The sum of a MULScc, of which hi has only a word: overflow has changed its sign.
PartialSum == IF icc.v THEN (IF icc.n THEN hi ELSE hi - Size) ELSE Signed(hi)

\* After each MULScc the bits of b that are used up have multiplied a: N xor V
\* carries the sign of the partial product over every overflow, and y changes
\* the bits of b for those of the product one by one; the last is that of a,
\* which is signed, and b, which is not (sparc.cxx:1198-1222).
PartialProductIsExact ==
    /\ routine = "multiply" /\ step \in 2..(Width + 1) =>
           LET used == step - 1
           IN  PartialSum * Weight[used - 1] + y \div Weight[Width + 1 - used]
                   = (b % Weight[used]) * Signed(a)
    /\ routine = "multiply" /\ step = Width + 2 => SignedDouble(Result) = Signed(a) * b
=============================================================================
