-------------------------- MODULE AluInstructions --------------------------
(***************************************************************************)
(* One integer instruction after another, with any operands: what each did *)
(* is compared with the arithmetic of the integers.                        *)
(***************************************************************************)
EXTENDS Alu

VARIABLES
    y,           \* the y register
    icc,         \* the condition codes of psr
    last,        \* interface: the last instruction, its operands and result
    halted       \* emulator_hard_termination was called

vars == <<y, icc, last, halted>>

Idle == [op |-> "none"]

Init ==
    /\ y = 0
    /\ icc = [n |-> FALSE, z |-> FALSE, v |-> FALSE, c |-> FALSE]
    /\ last = Idle
    /\ halted = FALSE

Ready == last = Idle /\ ~halted

\* The instruction had these operands, and did what result says.
Executes(op, val1, val2, result) ==
    /\ y' = result.y
    /\ icc' = result.icc
    /\ last' = [op |-> op, val1 |-> val1, val2 |-> val2, rd |-> result.rd,
                y |-> y, c |-> Carry(icc)]
    /\ UNCHANGED halted

Sums(val1, val2) ==
    \E op \in {"add", "addx", "addcc", "addxcc", "taddcc"} :
        Executes(op, val1, val2, Add(op, val1, val2, icc, y))

Differences(val1, val2) ==
    \E op \in {"sub", "subx", "subcc", "subxcc", "tsubcc"} :
        Executes(op, val1, val2, Subtract(op, val1, val2, icc, y))

\* Without an overflow taddcctv and tsubcctv are taddcc and tsubcc.
TaggedSum(val1, val2) ==
    /\ ~TaggedTraps("taddcctv", val1, val2)
    /\ Executes("taddcc", val1, val2, Add("taddcc", val1, val2, icc, y))

TaggedDifference(val1, val2) ==
    /\ ~TaggedTraps("tsubcctv", val1, val2)
    /\ Executes("tsubcc", val1, val2, Subtract("tsubcc", val1, val2, icc, y))

\* handle_trap( 0xa ), for which there is no handler.
TaggedOverflow(val1, val2) ==
    /\ \E op \in {"taddcctv", "tsubcctv"} : TaggedTraps(op, val1, val2)
    /\ halted' = TRUE
    /\ UNCHANGED <<y, icc, last>>

Bitwises(val1, val2) ==
    \E op \in {"and", "or", "xor", "andn", "orn", "xnor"}, cc \in BOOLEAN :
        Executes(op, val1, val2, Bitwise(op, cc, val1, val2, icc, y))

Shifts(val1, val2) ==
    \E op \in {"sll", "srl", "sra"} :
        Executes(op, val1, val2, Shift(op, val1, val2, icc, y))

Products(val1, val2) ==
    \E op \in {"umul", "smul"}, cc \in BOOLEAN :
        Executes(op, val1, val2, Multiply(op, cc, val1, val2, icc, y))

UnsignedQuotients(val1, val2) ==
    /\ val2 # 0
    /\ \E cc \in BOOLEAN :
          Executes(IF cc THEN "udivcc" ELSE "udiv", val1, val2,
                   DivideUnsigned(cc, val1, val2, icc, y))

SignedQuotients(val1, val2) ==
    /\ val2 # 0
    /\ \E cc \in BOOLEAN :
          Executes(IF cc THEN "sdivcc" ELSE "sdiv", val1, val2,
                   DivideSigned(cc, val1, val2, icc, y))

\* handle_trap( 0x2a ) ignores a division by zero: rd is what it was.
DivisionByZero(val1, val2) == val2 = 0 /\ UNCHANGED vars

MulSteps(val1, val2) == Executes("mulscc", val1, val2, MulStep(val1, val2, icc, y))

WriteY(val1, val2) ==
    /\ y' = OfBits((Bits(val1) \ Bits(val2)) \cup (Bits(val2) \ Bits(val1)))
    /\ UNCHANGED <<icc, last, halted>>

Instruction ==
    \E val1, val2 \in Word :
        \/ Sums(val1, val2)
        \/ Differences(val1, val2)
        \/ TaggedSum(val1, val2)
        \/ TaggedDifference(val1, val2)
        \/ TaggedOverflow(val1, val2)
        \/ Bitwises(val1, val2)
        \/ Shifts(val1, val2)
        \/ Products(val1, val2)
        \/ UnsignedQuotients(val1, val2)
        \/ SignedQuotients(val1, val2)
        \/ DivisionByZero(val1, val2)
        \/ MulSteps(val1, val2)
        \/ WriteY(val1, val2)

\* rd is written to a register the next instruction need not read.
Retire == last # Idle /\ last' = Idle /\ UNCHANGED <<y, icc, halted>>

Next == (Ready /\ Instruction) \/ Retire

Spec == Init /\ [][Next]_vars

-----------------------------------------------------------------------------
(***************************************************************************)
(* Properties.                                                             *)
(***************************************************************************)

IsOne(ops) == last.op \in ops
SignedRange == (-Half)..(Half - 1)

\* word is what a register keeps of the number.
IsCutTo(number, word) == word \in Word /\ number - word \in {-Size, 0, Size}

CarryIn == IF IsOne({"addx", "addxcc", "subx", "subxcc"}) THEN last.c ELSE 0

\* A sum is right as one of naturals and as one of integers, carry and
\* overflow tell which of the two it is not, and the carry that addx and
\* addxcc take in is part of both (sparc.cxx:1002-1024).
SumsAreExact ==
    IsOne({"add", "addx", "addcc", "addxcc", "taddcc"}) =>
        LET sum == last.val1 + last.val2 + CarryIn
            signedSum == Signed(last.val1) + Signed(last.val2) + CarryIn
        IN  /\ IsCutTo(sum, last.rd)
            /\ IsOne({"addcc", "addxcc", "taddcc"}) =>
                  /\ icc.c <=> sum # last.rd
                  /\ icc.v <=> \/ signedSum # Signed(last.rd)
                               \/ IsOne({"taddcc"}) /\ Tagged(last.val1, last.val2)

\* Carry is the borrow of a difference of naturals and overflow the one of
\* integers, with the borrow subx and subxcc take in (sparc.cxx:1079-1100).
DifferencesAreExact ==
    IsOne({"sub", "subx", "subcc", "subxcc", "tsubcc"}) =>
        LET diff == last.val1 - last.val2 - CarryIn
            signedDiff == Signed(last.val1) - Signed(last.val2) - CarryIn
        IN  /\ IsCutTo(diff, last.rd)
            /\ IsOne({"subcc", "subxcc", "tsubcc"}) =>
                  /\ icc.c <=> diff < 0
                  /\ icc.v <=> \/ signedDiff \notin SignedRange
                               \/ IsOne({"tsubcc"}) /\ Tagged(last.val1, last.val2)

\* A quotient is the one rounded towards zero, or where it does not fit the
\* word nearest to it, and only then v is set; a double word divided by -1
\* included (sparc.cxx:1150-1197).
QuotientsAreExact ==
    /\ IsOne({"udiv", "udivcc"}) =>
          LET dividend == last.y * Size + last.val1
              fits == dividend < last.val2 * Size
          IN  /\ fits => /\ last.rd * last.val2 <= dividend
                         /\ dividend < (last.rd + 1) * last.val2
              /\ ~fits => last.rd = Size - 1
              /\ IsOne({"udivcc"}) => (icc.v <=> ~fits)
    /\ IsOne({"sdiv", "sdivcc"}) =>
          LET dividend == Signed(last.y) * Size + last.val1
              divisor == Signed(last.val2)
              Remainder(q) == dividend - q * divisor
              IsQuotient(q) == /\ Remainder(q) * dividend >= 0
                               /\ Remainder(q) * Remainder(q) < divisor * divisor
              fits == \E q \in SignedRange : IsQuotient(q)
          IN  /\ fits => IsQuotient(Signed(last.rd))
              /\ ~fits => Signed(last.rd) =
                             IF (dividend < 0) = (divisor < 0) THEN Half - 1 ELSE -Half
              /\ IsOne({"sdivcc"}) => (icc.v <=> ~fits)

\* After a subcc the sixteen conditions compare its operands, as naturals and
\* as integers (check_condition, sparc.cxx:112-134).
ConditionsCompare ==
    IsOne({"subcc"}) =>
        LET a == last.val1
            b == last.val2
            sa == Signed(a)
            sb == Signed(b)
        IN  /\ ~check_condition(0, icc) /\ check_condition(8, icc)
            /\ check_condition(1, icc)  <=> a = b
            /\ check_condition(9, icc)  <=> a # b
            /\ check_condition(2, icc)  <=> sa <= sb
            /\ check_condition(10, icc) <=> sa > sb
            /\ check_condition(3, icc)  <=> sa < sb
            /\ check_condition(11, icc) <=> sa >= sb
            /\ check_condition(4, icc)  <=> a <= b
            /\ check_condition(12, icc) <=> a > b
            /\ check_condition(5, icc)  <=> a < b
            /\ check_condition(13, icc) <=> a >= b

=============================================================================
