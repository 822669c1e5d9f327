--------------------------- MODULE FloatingPoint ---------------------------
(***************************************************************************)
(* The floating-point instructions of Sparc::run() in sparc.cxx where they *)
(* are not the host's own: sums, products and quotients of numbers that    *)
(* are not finite or not zero, the comparisons and the conditions FBfcc    *)
(* tests, and the conversions to integers.                                 *)
(*                                                                         *)
(* A number has a sign and a size: multiples of one half up to Largest,    *)
(* what is larger is infinite, and NaNs come last.                         *)
(***************************************************************************)
EXTENDS Integers

CONSTANTS
    Largest,     \* bound: the size of the largest finite number, in halves
    IntLimit     \* bound: the integers are -IntLimit .. IntLimit - 1

VARIABLES
    fcc,         \* the floating-point condition codes of fsr
    op           \* interface: the last instruction, its operands and result

vars == <<fcc, op>>

Infinite == Largest + 1
Quiet == Largest + 2
Signaling == Largest + 3

Value == [sign : {-1, 1}, size : 0..Signaling]
Integer == (-IntLimit)..(IntLimit - 1)

is_nan(v) == v.size >= Quiet
is_inf(v) == v.size = Infinite
is_zero(v) == v.size = 0
set_sign(size, sign) == [sign |-> sign, size |-> size]
get_nan == set_sign(Quiet, 1)
Negated(v) == set_sign(v.size, -v.sign)

-----------------------------------------------------------------------------
(* What the host does with two numbers that are no NaNs. *)

\* The size nearest to num / den; of two, the smaller.
Rounded(num, den) ==
    LET nearest == (2 * num + den - 1) \div (2 * den)
    IN  IF nearest > Largest THEN Infinite ELSE nearest

Magnitude(n) == IF n < 0 THEN -n ELSE n

HostSum(a, b) ==
    LET sum == a.sign * a.size + b.sign * b.size
    IN  CASE is_inf(a) -> a
          [] is_inf(b) -> b
          [] sum = 0 -> set_sign(0, IF a.sign = b.sign THEN a.sign ELSE 1)
          [] OTHER -> set_sign(Rounded(Magnitude(sum), 1), IF sum < 0 THEN -1 ELSE 1)

HostProduct(a, b) == set_sign(Rounded(a.size * b.size, 2), a.sign * b.sign)

HostQuotient(a, b) ==
    set_sign(IF is_zero(b) THEN Infinite ELSE Rounded(2 * a.size, b.size), a.sign * b.sign)

-----------------------------------------------------------------------------
(* Arithmetic *)

\* A NaN among the operands is the result, the first one of two.
NaNOr(a, b, number) == IF is_nan(a) THEN a ELSE IF is_nan(b) THEN b ELSE number

BothInf(a, b) == is_inf(a) /\ is_inf(b)

do_fadd(a, b) ==
    NaNOr(a, b, IF BothInf(a, b)
                THEN IF a.sign = b.sign THEN a ELSE get_nan
                ELSE IF is_inf(a) THEN a ELSE IF is_inf(b) THEN b ELSE HostSum(a, b))

\* Mutant of do_fsub: infinities are compared as for a sum.
do_fsubAsSum(a, b) ==
    NaNOr(a, b, IF BothInf(a, b)
                THEN IF a.sign = b.sign THEN a ELSE get_nan
                ELSE HostSum(a, Negated(b)))

do_fsub(a, b) ==
    NaNOr(a, b, IF BothInf(a, b)
                THEN IF a.sign # b.sign THEN a ELSE get_nan
                ELSE HostSum(a, Negated(b)))

do_fmul(a, b) ==
    LET sign == a.sign * b.sign
    IN  NaNOr(a, b, IF (is_inf(a) /\ is_zero(b)) \/ (is_zero(a) /\ is_inf(b)) THEN get_nan
                    ELSE IF is_inf(a) \/ is_inf(b) THEN set_sign(Infinite, sign)
                    ELSE IF is_zero(a) \/ is_zero(b) THEN set_sign(0, sign)
                    ELSE HostProduct(a, b))

do_fdiv(a, b) ==
    LET sign == a.sign * b.sign
    IN  NaNOr(a, b, IF BothInf(a, b) \/ (is_zero(a) /\ is_zero(b)) THEN get_nan
                    ELSE IF is_inf(a) THEN set_sign(Infinite, sign)
                    ELSE IF is_inf(b) \/ is_zero(a) THEN set_sign(0, sign)
                    ELSE HostQuotient(a, b))

-----------------------------------------------------------------------------
(* Comparison and conversion *)

\* What the host's == and < compare.
Number(v) == v.sign * v.size

\* A NaN makes FCMPE trap, and with a compiler that can tell a signaling one
\* makes FCMP trap too; the trap, which has no handler, is ignored.
compare_floating(a, b) ==
    IF is_nan(a) \/ is_nan(b) THEN "U"
    ELSE IF Number(a) = Number(b) THEN "E"
    ELSE IF Number(a) < Number(b) THEN "L" ELSE "G"

\* Mutant of fconditions: no relation is unordered.
fconditionsOrdered ==
    << {"L", "G"}, {"L", "G"}, {"L"}, {"L"}, {"G"}, {"G"}, {} >>

\* The codes that conditions 1 to 7 are met by; 8 to 15 are met by the others.
fconditions ==
    << {"L", "G", "U"}, {"L", "G"}, {"U", "L"}, {"L"}, {"U", "G"}, {"G"}, {"U"} >>

check_fcondition(cond, code) ==
    CASE cond = 0 -> FALSE
      [] cond \in 1..7 -> code \in fconditions[cond]
      [] cond = 8 -> TRUE
      [] cond \in 9..15 -> code \notin fconditions[cond - 8]

\* Mutant of saturate_int32: the ends of the range are taken to be alike.
saturate_int32Alike(d) ==
    LET trunc == d.sign * (d.size \div 2)
    IN  IF is_nan(d) \/ trunc >= IntLimit THEN IntLimit - 1
        ELSE IF trunc <= -IntLimit THEN -(IntLimit - 1) ELSE trunc

\* The integer a number is cut to.  Sizes are halves.
saturate_int32(d) ==
    LET trunc == d.sign * (d.size \div 2)
    IN  IF is_nan(d) \/ trunc > IntLimit - 1 THEN IntLimit - 1
        ELSE IF trunc < -IntLimit THEN -IntLimit ELSE trunc

-----------------------------------------------------------------------------
(* The instructions *)

Idle == [name |-> "none"]

Init == fcc = "E" /\ op = Idle

Computes(name, a, b, result) ==
    /\ op' = [name |-> name, a |-> a, b |-> b, result |-> result]
    /\ UNCHANGED fcc

Arithmetic(a, b) ==
    \/ Computes("fadd", a, b, do_fadd(a, b))
    \/ Computes("fsub", a, b, do_fsub(a, b))
    \/ Computes("fmul", a, b, do_fmul(a, b))
    \/ Computes("fdiv", a, b, do_fdiv(a, b))

Fcmp(a, b) ==
    /\ fcc' = compare_floating(a, b)
    /\ op' = [name |-> "fcmp", a |-> a, b |-> b]

ToInteger(d) == op' = [name |-> "ftoi", a |-> d, result |-> saturate_int32(d)] /\ UNCHANGED fcc

\* fmovs, fnegs and fabss change no more than the sign of a NaN, too.
Moves(v) ==
    \E sign \in {v.sign, -v.sign, 1} :
        op' = [name |-> "fmov", a |-> v, result |-> set_sign(v.size, sign)] /\ UNCHANGED fcc

Instruction ==
    \/ \E a, b \in Value : Arithmetic(a, b) \/ Fcmp(a, b)
    \/ \E v \in Value : ToInteger(v) \/ Moves(v)

\* The next instruction has operands of its own.
Retire == op # Idle /\ op' = Idle /\ UNCHANGED fcc

Next == (op = Idle /\ Instruction) \/ Retire

Spec == Init /\ [][Next]_vars

-----------------------------------------------------------------------------
(***************************************************************************)
(* Properties.                                                             *)
(***************************************************************************)

\* Fractions near a number: what is infinite may be any large number and what
\* is zero any small one, so that an operation on them has a result if it is
\* the same for all.
Huge == 2 * Infinite * Infinite
Sizes(v) ==
    CASE is_inf(v)  -> {<<Huge, 1>>, <<Huge * Huge, 1>>}
      [] is_zero(v) -> {<<1, Huge>>, <<1, Huge * Huge>>}
      [] OTHER      -> {<<v.size, 1>>}
Near(v) == {<<v.sign * p[1], p[2]>> : p \in Sizes(v)}

\* The exact result of an operation on two fractions, a fraction.
Exact(name, p, q) ==
    CASE name = "fadd" -> <<p[1] * q[2] + q[1] * p[2], p[2] * q[2]>>
      [] name = "fsub" -> <<p[1] * q[2] - q[1] * p[2], p[2] * q[2]>>
      [] name = "fmul" -> <<p[1] * q[1], 2 * p[2] * q[2]>>
      [] name = "fdiv" -> <<2 * p[1] * q[2] * (IF q[1] < 0 THEN -1 ELSE 1), p[2] * Magnitude(q[1])>>

ExactResults(name, a, b) == {Exact(name, p, q) : p \in Near(a), q \in Near(b)}
SizeOf(x) == Rounded(Magnitude(x[1]), x[2])

\* Sums, differences, products and quotients are those of IEEE 754 for every
\* pair of operands, infinite, zero, of either sign, or no numbers at all
\* (do_fadd to do_fdiv, sparc.cxx:785-871).
ArithmeticIsIEEE ==
    op.name \in {"fadd", "fsub", "fmul", "fdiv"} =>
        IF is_nan(op.a) \/ is_nan(op.b) THEN is_nan(op.result)
        ELSE LET exact == ExactResults(op.name, op.a, op.b)
             IN  IF \E x1, x2 \in exact : SizeOf(x1) # SizeOf(x2) THEN is_nan(op.result)
                 ELSE /\ \A x \in exact : SizeOf(x) = op.result.size
                      /\ op.result.sign = (IF \A x \in exact : x[1] < 0 THEN -1 ELSE 1)

\* After an fcmp the sixteen conditions compare its operands as numbers, both
\* zeroes being one, and of NaNs none is true that says how they are ordered
\* (check_fcondition, sparc.cxx:144-168; compare_floating, sparc.cxx:719-752).
FloatConditionsCompare ==
    op.name = "fcmp" =>
        LET ordered == ~is_nan(op.a) /\ ~is_nan(op.b)
            less == ordered /\ Number(op.a) < Number(op.b)
            greater == ordered /\ Number(op.a) > Number(op.b)
            Tests(cond, truth) == (check_fcondition(cond, fcc) <=> truth)
        IN  /\ Tests(4, less) /\ Tests(6, greater) /\ Tests(7, ~ordered)
            /\ Tests(1, less \/ greater \/ ~ordered) /\ Tests(2, less \/ greater)
            /\ Tests(3, less \/ ~ordered) /\ Tests(5, greater \/ ~ordered)
            /\ \A cond \in 0..7 : Tests(cond + 8, ~check_fcondition(cond, fcc))

\* An integer made of a number is the number without its fraction, if that is
\* an integer at all, or the integer nearest to it (sparc.cxx:873-885).
ConversionTruncates ==
    op.name = "ftoi" /\ ~is_nan(op.a) =>
        LET number == Number(op.a)
            Distance(i) == Magnitude(number - 2 * i)
            TowardsZero(i) == Magnitude(2 * i) <= Magnitude(number) /\ 2 * i * number >= 0
        IN  /\ op.result \in Integer
            /\ TowardsZero(op.result)
            /\ \A i \in Integer : TowardsZero(i) => Distance(op.result) <= Distance(i)
=============================================================================
