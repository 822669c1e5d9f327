--------------------------- MODULE MCInstructions ---------------------------
(***************************************************************************)
(* The instructions that only compute, load and store, on a small          *)
(* instance: an integer instruction after another, a routine made of them, *)
(* floating-point instructions, or an access to memory.  Each behaviour is *)
(* one of the four; what the others would do is left as it is.             *)
(***************************************************************************)
EXTENDS AluInstructions

CONSTANTS Largest, IntLimit, Radix, Bytes, Values

ASSUME LargestAssumption == Largest \in Nat \ {0}
ASSUME IntLimitAssumption == IntLimit \in Nat \ {0}
\* A byte has a sign bit; registers hold words of four bytes.
ASSUME RadixAssumption == Radix \in Nat \ {0} /\ Radix % 2 = 0
ASSUME MemoryAssumption ==
    Bytes \in Nat /\ Values \subseteq 0..(Radix * Radix * Radix * Radix - 1)

VARIABLES
    routine, a, b, step, hi, lo,   \* of AluRoutines, which has y and icc too
    fcc, op,                       \* of FloatingPoint
    mem, r, f, fsr, access         \* of MemoryAccess

Routines == INSTANCE AluRoutines
Floats == INSTANCE FloatingPoint
Memory == INSTANCE MemoryAccess

routines == <<routine, a, b, step, hi, lo>>
floats == <<fcc, op>>
memory == <<mem, r, f, fsr, access>>

NoRoutine == routine = "none" /\ a = 0 /\ b = 0 /\ step = 0 /\ hi = 0 /\ lo = 0
NoFloats == fcc = "none" /\ op = Floats!Idle
NoMemory == mem = << >> /\ r = << >> /\ f = << >> /\ fsr = 0 /\ access = Memory!Idle

MCInit ==
    \/ Init /\ NoRoutine /\ NoFloats /\ NoMemory
    \/ last = Idle /\ halted = FALSE /\ Routines!Init /\ NoFloats /\ NoMemory
    \/ Init /\ NoRoutine /\ Floats!Init /\ NoMemory
    \/ Init /\ NoRoutine /\ NoFloats /\ Memory!Init

MCNext ==
    \/ NoRoutine /\ NoFloats /\ NoMemory /\ Next /\ UNCHANGED <<routines, floats, memory>>
    \/ ~NoRoutine /\ Routines!Next /\ UNCHANGED <<last, halted, floats, memory>>
    \/ ~NoFloats /\ Floats!Next /\ UNCHANGED <<vars, routines, memory>>
    \/ ~NoMemory /\ Memory!Next /\ UNCHANGED <<vars, routines, floats>>

MCSpec == MCInit /\ [][MCNext]_<<vars, routines, floats, memory>>

\* The properties of the other three modules (see there).
DoubleWordsAreExact == Routines!DoubleWordsAreExact
PartialProductIsExact == Routines!PartialProductIsExact
ArithmeticIsIEEE == Floats!ArithmeticIsIEEE
FloatConditionsCompare == Floats!FloatConditionsCompare
ConversionTruncates == Floats!ConversionTruncates
MemoryIsBigEndian == Memory!MemoryIsBigEndian
=============================================================================
