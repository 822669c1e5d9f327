------------------------- MODULE MemoryLayoutProofs -------------------------
(***************************************************************************)
(* The loader and brk, for every file a linker makes, every command line   *)
(* and every size of the memory's parts: the stack pointer is aligned, the *)
(* break keeps to its limits, what the loader writes lies where it should  *)
(* and stays as it was written, and a program finds all it starts with.    *)
(*                                                                         *)
(* LayoutInv is about the numbers, MemoryInv about the cells written.      *)
(***************************************************************************)
EXTENDS MemoryLayout, SequenceTheorems, WellFoundedInduction, TLAPS

\* What the loader knows when it is done with the headers, and keeps.
Numbers ==
    /\ phase \in {"scan", "stopped", "read", "arguments", "environment",
                  "usage", "overrun", "run"}
    /\ headers \in Image
    /\ at \in Nat /\ base \in Nat /\ size \in Nat
    /\ endOfData \in Nat /\ bottomOfStack \in Nat /\ topOfAux \in Nat /\ mmapOffset \in Nat
    /\ brk \in Nat /\ highwater \in Nat
    /\ arguments \in Arguments /\ environment \in Environment
    /\ next \in Nat /\ argv \in Seq(Nat) /\ env \in Seq(Nat)

\* A header that moves base moves size at least as far.
BaseIsBelowSize == base <= size

\* The parts are stacked in 16s, and the whole memory is above them.
PartsAreStacked ==
    LaidOut => /\ endOfData % 16 = 0
               /\ bottomOfStack = endOfData + BrkCommit
               /\ topOfAux = bottomOfStack + StackCommit
               /\ topOfAux <= mmapOffset /\ mmapOffset <= size

SpIsBelowTheWords ==
    phase = "run" => sp = base + (topOfAux - 4 * StartupWords(Len(argv) + Len(env))) - 64

LayoutInv ==
    Numbers /\ (phase = "scan" => BaseIsBelowSize) /\ PartsAreStacked /\ SpIsBelowTheWords
    /\ BreakIsInTheHeap

-----------------------------------------------------------------------------
(* Arithmetic *)

LEMMA CommitsAreNumbers ==
    /\ ArgCommit \in Nat /\ MmapCommit \in Nat /\ Page \in Nat /\ Page > 0
    /\ StackCommit \in Nat /\ BrkCommit \in Nat
  BY CommitAssumption

LEMMA CommitsAreMultiples == StackCommit % 16 = 0 /\ BrkCommit % 16 = 0
  BY CommitAssumption

LEMMA SumIsNat == ASSUME NEW a \in Nat, NEW b \in Nat PROVE a + b \in Nat /\ a <= a + b
  OBVIOUS

LEMMA RoundUpBounds ==
    ASSUME NEW n \in Nat, NEW to \in Nat, to > 0
    PROVE  RoundUp(n, to) \in Nat /\ n <= RoundUp(n, to)
  BY DEF RoundUp

LEMMA RoundUpTo16 ==
    ASSUME NEW n \in Nat PROVE RoundUp(n, 16) \in Nat /\ RoundUp(n, 16) % 16 = 0
  BY DEF RoundUp

\* The filler makes the words even in number.
LEMMA StartupWordsAreEven ==
    ASSUME NEW n \in Nat PROVE StartupWords(n) \in Nat /\ StartupWords(n) % 2 = 0
  BY DEF StartupWords, Filler, AuxWords, AuxRecords

LEMMA OffsetIsWord ==
    ASSUME NEW ask \in Ask, base \in Nat
    PROVE  /\ Offset(ask) \in Nat
           /\ base <= Size /\ ask >= base => Offset(ask) = ask - base
           /\ base <= Size /\ ask < base => Offset(ask) = ask - base + Size
  BY SizeAssumption, CommitAssumption DEF Offset

LEMMA HeaderIsNumbers ==
    ASSUME Numbers, NEW i \in 1..Len(headers)
    PROVE  /\ Physical(headers[i]) \in Nat
           /\ headers[i].memory \in Nat
<1> DEFINE Header == [type : Nat, virtual : Nat, physical : Nat, file : Nat, memory : Nat]
<1>1. headers \in Seq(Header)
  BY ImageAssumption DEF Numbers
<1>2. headers[i] \in Header
  BY <1>1, ElementOfSeq
<1>3. headers[i].virtual \in Nat /\ headers[i].physical \in Nat /\ headers[i].memory \in Nat
  BY <1>2
<1>4. QED
  BY <1>3 DEF Physical

\* The bytes of a string that is there to be copied.
LEMMA StringAtIsNat ==
    ASSUME Numbers
    PROVE  /\ at < Len(arguments) => arguments[at + 1] \in Nat
           /\ at < Len(environment) => environment[at + 1] \in Nat
<1>1. arguments \in Seq(Nat) /\ environment \in Seq(Nat)
  BY StringsAssumption DEF Numbers
<1>2. QED
  BY <1>1 DEF Numbers

-----------------------------------------------------------------------------
(* The invariant *)

LEMMA InitLayoutInv == Init => LayoutInv
  BY DEF Init, LayoutInv, Numbers, BaseIsBelowSize, PartsAreStacked, SpIsBelowTheWords,
         BreakIsInTheHeap, LaidOut

LEMMA ScanHeaderLayoutInv == LayoutInv /\ ScanHeader => LayoutInv'
<1> SUFFICES ASSUME LayoutInv, ScanHeader PROVE LayoutInv'
  OBVIOUS
<1> DEFINE header == headers[at + 1]
           physical == Physical(header)
<1>1. Numbers /\ BaseIsBelowSize /\ phase = "scan" /\ at < Len(headers)
  BY DEF LayoutInv, ScanHeader
<1>2. at + 1 \in 1..Len(headers)
  <2>1. Len(headers) \in Nat
    BY <1>1, ImageAssumption DEF Numbers
  <2>2. QED
    BY <1>1, <2>1 DEF Numbers
<1>3. physical \in Nat /\ header.memory \in Nat
  BY <1>1, <1>2, HeaderIsNumbers
<1>4. CASE header.type = 2
  BY <1>1, <1>4 DEF ScanHeader, LayoutInv, Numbers, BaseIsBelowSize, PartsAreStacked,
     SpIsBelowTheWords, BreakIsInTheHeap, LaidOut, inputs, layout, limits, strings
<1>5. CASE header.type # 2
  <2> HIDE DEF physical
  <2>1. /\ at' = at + 1
        /\ size' = Larger(size, physical + header.memory)
        /\ base' = IF physical # 0 /\ (base = 0 \/ base > physical) THEN physical ELSE base
        /\ phase' = phase
        /\ UNCHANGED <<inputs, elfBase, layout, limits, memory, strings, sp, o0>>
    BY <1>5 DEF ScanHeader, physical
  <2>2. size' \in Nat /\ base' \in Nat /\ base' <= size'
    BY <1>1, <1>3, <2>1, SMTT(20) DEF Larger, Numbers, BaseIsBelowSize
  <2>3. Numbers'
    BY <1>1, <2>1, <2>2 DEF Numbers, inputs, layout, limits, strings
  <2>4. QED
    BY <1>1, <2>1, <2>2, <2>3 DEF LayoutInv, BaseIsBelowSize, PartsAreStacked,
       SpIsBelowTheWords, BreakIsInTheHeap, LaidOut
<1>6. QED
  BY <1>4, <1>5

LEMMA LayOutLayoutInv == LayoutInv /\ LayOut => LayoutInv'
<1> SUFFICES ASSUME LayoutInv, LayOut PROVE LayoutInv'
  OBVIOUS
<1>1. Numbers /\ base <= size /\ phase = "scan"
  BY DEF LayoutInv, LayOut, BaseIsBelowSize
<1>2. base' \in Nat /\ size - base' \in Nat
  BY <1>1 DEF LayOut, StartOfMemory, Numbers
<1>3. endOfData' \in Nat
  BY <1>2, RoundUpTo16 DEF LayOut
<1>4. endOfData' % 16 = 0
  BY <1>2, RoundUpTo16 DEF LayOut
<1>5. bottomOfStack' \in Nat /\ bottomOfStack' = endOfData' + BrkCommit
  <2>1. endOfData' + BrkCommit \in Nat
    BY <1>3, CommitsAreNumbers, SumIsNat, Zenon
  <2>2. bottomOfStack' = endOfData' + BrkCommit
    BY DEF LayOut
  <2>3. QED
    BY <2>1, <2>2, Zenon
<1>6. topOfAux' \in Nat /\ topOfAux' = bottomOfStack' + StackCommit
  <2>1. bottomOfStack' + StackCommit \in Nat
    BY <1>5, CommitsAreNumbers, SumIsNat, Zenon
  <2>2. topOfAux' = bottomOfStack' + StackCommit
    BY DEF LayOut
  <2>3. QED
    BY <2>1, <2>2, Zenon
<1>7. mmapOffset' \in Nat /\ topOfAux' + ArgCommit <= mmapOffset'
  <2>1. topOfAux' + ArgCommit \in Nat /\ Page \in Nat /\ Page > 0
    BY <1>6, CommitsAreNumbers
  <2>2. mmapOffset' = RoundUp(topOfAux' + ArgCommit, Page)
    BY DEF LayOut
  <2> DEFINE start == topOfAux' + ArgCommit
  <2> HIDE DEF start
  <2>3. RoundUp(start, Page) \in Nat /\ start <= RoundUp(start, Page)
    BY <2>1, RoundUpBounds DEF start
  <2>4. QED
    BY <2>2, <2>3 DEF start
<1>8. size' \in Nat /\ mmapOffset' <= size'
  <2>1. mmapOffset' + MmapCommit \in Nat /\ mmapOffset' <= mmapOffset' + MmapCommit
    BY <1>7, CommitsAreNumbers, SumIsNat, Zenon
  <2>2. size' = mmapOffset' + MmapCommit
    BY DEF LayOut
  <2>3. QED
    BY <2>1, <2>2, Zenon
<1>9. brk' = endOfData' /\ highwater' = endOfData' /\ phase' = "read" /\ at' = 0
  BY DEF LayOut
<1>10. Numbers'
  BY <1>1, <1>2, <1>3, <1>5, <1>6, <1>7, <1>8, <1>9 DEF Numbers, LayOut, inputs, strings
<1>11. PartsAreStacked'
  <2>1. topOfAux' <= mmapOffset'
    BY <1>7, <1>6, CommitsAreNumbers
  <2>2. QED
    BY <1>4, <1>5, <1>6, <1>8, <2>1, Zenon DEF PartsAreStacked
<1>12. BreakIsInTheHeap'
  BY <1>3, <1>9 DEF BreakIsInTheHeap
<1>13. QED
  BY <1>9, <1>10, <1>11, <1>12 DEF LayoutInv, SpIsBelowTheWords

\* The steps that copy the image and the strings, and leave the rest alone.
LEMMA CopyLayoutInv ==
    ASSUME LayoutInv,
           \/ ReadSegment \/ CopyName \/ CopyArgument \/ CopyOs
           \/ CopyVariable \/ RefuseVariable \/ CopyVariablePastArray
    PROVE  LayoutInv'
<1>1. /\ UNCHANGED <<inputs, extent, layout, limits, sp>>
      /\ phase \in {"read", "arguments", "environment"}
      /\ phase' \in {"read", "arguments", "environment", "usage", "overrun"}
      /\ at' \in Nat
  BY DEF LayoutInv, Numbers, ReadSegment, CopyName, CopyArgument, CopyOs,
         CopyVariable, RefuseVariable, CopyVariablePastArray, AtVariable
<1>2. next' \in Nat /\ argv' \in Seq(Nat) /\ env' \in Seq(Nat)
  <2>1. CASE ReadSegment
    BY <2>1 DEF ReadSegment, strings, LayoutInv, Numbers
  <2>2. CASE CopyName
    BY <2>2, StringsAssumption DEF CopyName, LayoutInv, Numbers
  <2>3. CASE CopyArgument
    BY <2>3, StringAtIsNat DEF CopyArgument, CopyString, LayoutInv, Numbers
  <2>4. CASE CopyOs
    BY <2>4, StringsAssumption DEF CopyOs, LayoutInv, Numbers
  <2>5. CASE CopyVariable
    BY <2>5, StringAtIsNat DEF CopyVariable, AtVariable, CopyString, LayoutInv, Numbers
  <2>6. CASE RefuseVariable
    BY <2>6 DEF RefuseVariable, strings, LayoutInv, Numbers
  <2>7. CASE CopyVariablePastArray
    BY <2>7, StringAtIsNat DEF CopyVariablePastArray, AtVariable, CopyString, LayoutInv, Numbers
  <2>8. QED
    BY <2>1, <2>2, <2>3, <2>4, <2>5, <2>6, <2>7
<1>3. Numbers'
  BY <1>1, <1>2 DEF LayoutInv, Numbers, inputs, extent, layout, limits
<1>4. QED
  BY <1>1, <1>3 DEF LayoutInv, PartsAreStacked, SpIsBelowTheWords, BreakIsInTheHeap, LaidOut,
     extent, layout, limits

LEMMA BuildStackLayoutInv == LayoutInv /\ BuildStack => LayoutInv'
<1> SUFFICES ASSUME LayoutInv, BuildStack PROVE LayoutInv'
  OBVIOUS
<1>1. /\ UNCHANGED <<inputs, at, extent, layout, limits, argv, env>>
      /\ phase = "environment" /\ phase' = "run"
  BY DEF BuildStack
<1>2. next' \in Nat
  BY StringsAssumption, SMTT(20) DEF BuildStack, Cell, LayoutInv, Numbers
<1>3. sp' = base + (topOfAux - 4 * StartupWords(Len(argv) + Len(env))) - 64
  BY DEF BuildStack
<1>4. Numbers' /\ SpIsBelowTheWords'
  BY <1>1, <1>2, <1>3 DEF LayoutInv, Numbers, SpIsBelowTheWords, inputs, extent, layout, limits
<1>5. QED
  BY <1>1, <1>4 DEF LayoutInv, PartsAreStacked, BreakIsInTheHeap, LaidOut, extent, layout, limits

LEMMA BrkLayoutInv ==
    ASSUME LayoutInv, NEW ask \in Ask, SYS_brk(ask) PROVE LayoutInv'
<1>1. /\ UNCHANGED <<phase, inputs, at, extent, layout, memory, strings, sp>>
      /\ phase = "run"
  BY DEF SYS_brk
<1>2. Offset(ask) \in Nat
  BY OffsetIsWord DEF LayoutInv, Numbers
<1>3. brk' \in Nat /\ highwater' \in Nat /\ BreakIsInTheHeap'
  BY <1>1, <1>2 DEF SYS_brk, SetsBreak, Larger, limits, layout, LayoutInv, Numbers,
     BreakIsInTheHeap, LaidOut
<1>4. QED
  BY <1>1, <1>3 DEF LayoutInv, Numbers, PartsAreStacked, SpIsBelowTheWords, LaidOut,
     inputs, extent, layout, strings

LEMMA NextLayoutInv == LayoutInv /\ [Next]_vars => LayoutInv'
<1> SUFFICES ASSUME LayoutInv, [Next]_vars PROVE LayoutInv'
  OBVIOUS
<1>1. CASE UNCHANGED vars
  BY <1>1 DEF vars, inputs, extent, layout, limits, strings, LayoutInv, Numbers, BaseIsBelowSize,
     PartsAreStacked, SpIsBelowTheWords, BreakIsInTheHeap, LaidOut
<1>2. QED
  BY <1>1, ScanHeaderLayoutInv, LayOutLayoutInv, CopyLayoutInv, BuildStackLayoutInv, BrkLayoutInv
     DEF Next

LEMMA LayoutInvAlways == Spec => []LayoutInv
  BY InitLayoutInv, NextLayoutInv, PTL DEF Spec

-----------------------------------------------------------------------------
\* Whatever the number of arguments and of variables, a program starts with
\* a stack pointer it can use ldd and std on.
THEOREM SpAlwaysAligned == Spec => []SpIsAligned
<1>1. LayoutInv => SpIsAligned
  <2> SUFFICES ASSUME LayoutInv, phase = "run", base % 8 = 0 PROVE sp % 8 = 0
    BY DEF SpIsAligned
  <2> DEFINE words == StartupWords(Len(argv) + Len(env))
  <2>1. words \in Nat /\ words % 2 = 0
    <3>1. Len(argv) + Len(env) \in Nat
      BY LenProperties DEF LayoutInv, Numbers
    <3>2. QED
      BY <3>1, StartupWordsAreEven
  <2>2. base \in Nat /\ topOfAux \in Nat /\ topOfAux % 16 = 0
    <3>1. /\ base \in Nat /\ topOfAux \in Nat /\ endOfData \in Nat
          /\ topOfAux = endOfData + BrkCommit + StackCommit /\ endOfData % 16 = 0
      BY DEF LayoutInv, Numbers, PartsAreStacked, LaidOut
    <3>2. QED
      BY <3>1, CommitsAreNumbers, CommitsAreMultiples
  <2>3. sp = base + (topOfAux - 4 * words) - 64
    BY DEF LayoutInv, SpIsBelowTheWords
  <2> HIDE DEF words
  <2>4. QED
    BY <2>1, <2>2, <2>3
<1>2. QED
  BY <1>1, LayoutInvAlways, PTL

\* The break never leaves the heap.
THEOREM BreakAlwaysInTheHeap == Spec => []BreakIsInTheHeap
<1>1. LayoutInv => BreakIsInTheHeap
  BY DEF LayoutInv
<1>2. QED
  BY <1>1, LayoutInvAlways, PTL

\* What brk returns is where the break is.
THEOREM BrkAlwaysReturnsTheBreak == Spec => BrkReturnsTheBreak
<1>1. LayoutInv /\ [Next]_vars => [phase = "run" /\ base + size <= Size => o0' = base + brk']_vars
  <2> SUFFICES ASSUME LayoutInv, Next, phase = "run", base + size <= Size
               PROVE  o0' = base + brk'
    OBVIOUS
  <2>1. PICK ask \in Ask : SYS_brk(ask)
    BY DEF Next, ScanHeader, LayOut, ReadSegment, CopyName, CopyArgument, CopyOs, CopyVariable,
       RefuseVariable, CopyVariablePastArray, AtVariable, BuildStack
  <2>2. /\ Offset(ask) \in Nat
        /\ ask >= base => Offset(ask) = ask - base
        /\ ask < base => Offset(ask) = ask - base + Size
    BY OffsetIsWord, SizeAssumption DEF LayoutInv, Numbers
  <2>3. ask \in Nat /\ base \in Nat /\ size \in Nat /\ bottomOfStack \in Nat /\ brk \in Nat
    BY CommitAssumption DEF LayoutInv, Numbers
  <2>4. bottomOfStack <= size
    BY <2>3, CommitAssumption DEF LayoutInv, Numbers, PartsAreStacked, LaidOut
  <2>5. SetsBreak(ask) => ask >= base
    BY <2>2, <2>3, <2>4, SizeAssumption DEF SetsBreak
  <2>6. QED
    BY <2>1, <2>2, <2>3, <2>5 DEF SYS_brk, limits
<1>2. QED
  BY <1>1, LayoutInvAlways, PTL DEF Spec, BrkReturnsTheBreak

\* Induction over a set of naturals.
LEMMA Induction ==
    ASSUME NEW S \in SUBSET Nat, 0 \in S, \A n \in S : n + 1 \in S
    PROVE  S = Nat
<1> DEFINE R == OpToRel(<, Nat)
           Missing == Nat \ S
<1>1. IsWellFoundedOn(R, Nat)
  BY NatLessThanWellFounded
<1>2. \A m, n \in Nat : m < n => <<m, n>> \in R
  BY DEF OpToRel
<1>3. Missing \subseteq Nat /\ (Missing = {} => S = Nat)
  OBVIOUS
<1>4. \A n \in Missing : n # 0 /\ n - 1 \in Missing
  <2> SUFFICES ASSUME NEW n \in Nat, n \notin S PROVE n # 0 /\ n - 1 \in Nat /\ n - 1 \notin S
    OBVIOUS
  <2>1. n # 0
    OBVIOUS
  <2>2. n - 1 \in Nat /\ (n - 1) + 1 = n
    BY <2>1
  <2>3. QED
    BY <2>1, <2>2
<1> HIDE DEF R, Missing
<1>5. SUFFICES ASSUME Missing # {} PROVE FALSE
  BY <1>3
<1>6. PICK n \in Missing : \A m \in Missing : ~ (<<m, n>> \in R)
  BY <1>1, <1>3, <1>5, WFMin, Zenon
<1>7. n - 1 \in Nat /\ n \in Nat /\ n - 1 < n
  BY <1>3, <1>4
<1>8. QED
  BY <1>2, <1>4, <1>6, <1>7

\* A function may be defined by its first value and each next one by the last.
LEMMA Recursion ==
    ASSUME NEW first \in Nat, NEW add \in [Nat \X Nat -> Nat], NEW N \in Nat
    PROVE  \E g \in [0..N -> Nat] :
               \A i \in 0..N : g[i] = IF i = 0 THEN first ELSE add[<<i, g[i - 1]>>]
<1> DEFINE Made(n, g) == /\ g \in [0..n -> Nat]
                         /\ \A i \in 0..n : g[i] = IF i = 0 THEN first ELSE add[<<i, g[i - 1]>>]
           Defined == {n \in Nat : \E g : Made(n, g)}
<1>1. 0 \in Defined
  <2>1. Made(0, [i \in 0..0 |-> first])
    OBVIOUS
  <2>2. QED
    BY <2>1
<1>2. ASSUME NEW n \in Defined PROVE n + 1 \in Defined
  <2>1. PICK g : Made(n, g)
    BY <1>2
  <2> DEFINE h == [i \in 0..(n + 1) |-> IF i = n + 1 THEN add[<<n + 1, g[n]>>] ELSE g[i]]
  <2>2. add[<<n + 1, g[n]>>] \in Nat
    BY <2>1
  <2>3. h \in [0..(n + 1) -> Nat]
    BY <2>1, <2>2
  <2>4. ASSUME NEW i \in 0..(n + 1)
        PROVE  h[i] = IF i = 0 THEN first ELSE add[<<i, h[i - 1]>>]
    <3>1. CASE i = n + 1
      <4>1. i # 0 /\ i - 1 = n /\ n \in 0..(n + 1) /\ n # n + 1
        BY <3>1
      <4>2. h[n] = g[n] /\ h[n + 1] = add[<<n + 1, g[n]>>]
        BY <4>1
      <4> HIDE DEF h
      <4>3. QED
        BY <3>1, <4>1, <4>2
    <3>2. CASE i # n + 1
      <4>1. i \in 0..n /\ (i # 0 => i - 1 \in 0..n)
        BY <3>2
      <4>2. h[i] = g[i] /\ (i # 0 => h[i - 1] = g[i - 1])
        BY <4>1
      <4>3. QED
        BY <2>1, <4>1, <4>2
    <3>3. QED
      BY <3>1, <3>2
  <2>5. Made(n + 1, h)
    BY <2>3, <2>4
  <2> HIDE DEF Made
  <2>6. QED
    BY <2>5
<1>3. Defined = Nat
  <2> HIDE DEF Defined
  <2>1. Defined \in SUBSET Nat
    BY DEF Defined
  <2>2. QED
    BY <1>1, <1>2, <2>1, Induction
<1>4. QED
  BY <1>3

\* The bytes of strings are added up one by one.
LEMMA BytesAddUp ==
    ASSUME NEW s \in Seq(Nat)
    PROVE  /\ Bytes(s, 0) = 0
           /\ \A n \in 0..Len(s) : Bytes(s, n) \in Nat
           /\ \A n \in 0..(Len(s) - 1) : Bytes(s, n + 1) = Bytes(s, n) + s[n + 1]
           /\ \A n \in 0..Len(s) : Bytes(s, n) <= Bytes(s, Len(s))
<1> DEFINE Sums(g) == g = [i \in 0..Len(s) |-> IF i = 0 THEN 0 ELSE g[i - 1] + s[i]]
           add == [p \in Nat \X Nat |-> p[2] + IF p[1] \in 1..Len(s) THEN s[p[1]] ELSE 0]
           upTo == CHOOSE g : Sums(g)
<1>1. Len(s) \in Nat /\ \A i \in 1..Len(s) : s[i] \in Nat
  OBVIOUS
<1>2. add \in [Nat \X Nat -> Nat]
  BY <1>1
<1>3. \A i \in 1..Len(s), v \in Nat : add[<<i, v>>] = v + s[i]
  BY <1>1
<1> HIDE DEF add
<1>4. PICK g \in [0..Len(s) -> Nat] :
          \A i \in 0..Len(s) : g[i] = IF i = 0 THEN 0 ELSE add[<<i, g[i - 1]>>]
  <2> DEFINE zero == 0
             length == Len(s)
  <2>1. zero \in Nat /\ length \in Nat
    BY <1>1
  <2> HIDE DEF zero, length
  <2>2. \E g \in [0..length -> Nat] :
            \A i \in 0..length : g[i] = IF i = 0 THEN zero ELSE add[<<i, g[i - 1]>>]
    BY <1>2, <2>1, Recursion, ZenonT(40)
  <2>3. QED
    BY <2>2 DEF zero, length
<1>5. ASSUME NEW i \in 0..Len(s) PROVE g[i] = IF i = 0 THEN 0 ELSE g[i - 1] + s[i]
  <2>1. i # 0 => i \in 1..Len(s) /\ i - 1 \in 0..Len(s)
    BY <1>1
  <2>2. i # 0 => g[i - 1] \in Nat
    BY <2>1
  <2>3. i # 0 => add[<<i, g[i - 1]>>] = g[i - 1] + s[i]
    BY <1>3, <2>1, <2>2
  <2>4. QED
    BY <1>4, <2>3
<1>6. Sums(g)
  BY <1>4, <1>5
<1>7. Sums(upTo)
  <2> HIDE DEF Sums
  <2>1. QED
    BY <1>6
<1>8. \A n : Bytes(s, n) = upTo[n]
  BY DEF Bytes
<1> HIDE DEF upTo
<1>9. \A n \in 0..Len(s) : upTo[n] = IF n = 0 THEN 0 ELSE upTo[n - 1] + s[n]
  BY <1>7
<1> DEFINE Known == {n \in Nat : n \in 0..Len(s) => upTo[n] \in Nat}
<1>10. 0 \in Known
  BY <1>1, <1>9
<1>11. ASSUME NEW n \in Known PROVE n + 1 \in Known
  <2>1. SUFFICES ASSUME n + 1 \in 0..Len(s) PROVE upTo[n + 1] \in Nat
    OBVIOUS
  <2>2. n \in 0..Len(s) /\ n + 1 # 0 /\ (n + 1) - 1 = n /\ n + 1 \in 1..Len(s)
    BY <1>1, <2>1
  <2>3. QED
    BY <1>1, <1>9, <1>11, <2>1, <2>2, SMTT(30)
<1>12. \A n \in 0..Len(s) : upTo[n] \in Nat
  <2> HIDE DEF Known
  <2>1. Known = Nat
    <3>1. Known \in SUBSET Nat
      BY DEF Known
    <3>2. QED
      BY <1>10, <1>11, <3>1, Induction
  <2>2. QED
    BY <1>1, <2>1 DEF Known
<1>13. \A n \in 0..(Len(s) - 1) : upTo[n + 1] = upTo[n] + s[n + 1]
  BY <1>1, <1>9
<1> DEFINE Below == {m \in Nat : m \in 0..Len(s) => upTo[Len(s) - m] <= upTo[Len(s)]}
<1>14. 0 \in Below
  BY <1>1, <1>12
<1>15. ASSUME NEW m \in Below PROVE m + 1 \in Below
  <2>1. SUFFICES ASSUME m + 1 \in 0..Len(s) PROVE upTo[Len(s) - (m + 1)] <= upTo[Len(s)]
    OBVIOUS
  <2> DEFINE n == Len(s) - (m + 1)
  <2>2. m \in 0..Len(s) /\ n \in 0..(Len(s) - 1) /\ n + 1 = Len(s) - m
    BY <1>1, <2>1
  <2>3. upTo[n + 1] <= upTo[Len(s)]
    BY <1>15, <2>2
  <2>4. n \in 0..Len(s) /\ n + 1 \in 1..Len(s) /\ Len(s) \in 0..Len(s)
    BY <1>1, <2>2
  <2> HIDE DEF n
  <2>5. upTo[n + 1] = upTo[n] + s[n + 1] /\ s[n + 1] \in Nat /\ upTo[n] \in Nat /\ upTo[Len(s)] \in Nat
    BY <1>1, <1>12, <1>13, <2>2, <2>4
  <2>6. upTo[n] <= upTo[Len(s)]
    BY <2>3, <2>5
  <2>7. QED
    BY <2>6 DEF n
<1>16. \A n \in 0..Len(s) : upTo[n] <= upTo[Len(s)]
  <2> HIDE DEF Below
  <2>1. Below = Nat
    <3>1. Below \in SUBSET Nat
      BY DEF Below
    <3>2. QED
      BY <1>14, <1>15, <3>1, Induction
  <2>2. ASSUME NEW n \in 0..Len(s) PROVE upTo[n] <= upTo[Len(s)]
    <3>1. Len(s) - n \in Nat /\ Len(s) - n \in 0..Len(s) /\ Len(s) - (Len(s) - n) = n
      BY <1>1
    <3>2. QED
      BY <2>1, <3>1 DEF Below
  <2>3. QED
    BY <2>2
<1>17. upTo[0] = 0
  BY <1>1, <1>9
<1> HIDE DEF Known, Below, Sums
<1>18. Bytes(s, 0) = 0
  BY <1>8, <1>17
<1>19. \A n \in 0..Len(s) : Bytes(s, n) \in Nat
  BY <1>8, <1>12
<1>20. \A n \in 0..(Len(s) - 1) : Bytes(s, n + 1) = Bytes(s, n) + s[n + 1]
  BY <1>8, <1>13
<1>21. \A n \in 0..Len(s) : Bytes(s, n) <= Bytes(s, Len(s))
  BY <1>8, <1>16
<1>22. QED
  BY <1>18, <1>19, <1>20, <1>21
\* What the headers before the one at hand say of base and size.
Scanned ==
    /\ at \in 0..Len(headers)
    /\ \A i \in 1..at :
          /\ headers[i].type # 2
          /\ Physical(headers[i]) + headers[i].memory <= size
          /\ Physical(headers[i]) # 0 => base # 0 /\ base <= Physical(headers[i])

\* There is room for the image, and for the word at 0.
ImageFits ==
    LaidOut =>
        /\ \A i \in DOMAIN headers :
              IsSegment(headers[i]) =>
                  /\ base <= Physical(headers[i])
                  /\ Physical(headers[i]) + headers[i].file <= base + endOfData
        /\ base = 0 => 4 <= endOfData

SegmentCell(i) == Cell(Physical(headers[i]) - base, headers[i].file, "segment", i)

IsImage(c) == \E i \in DOMAIN headers : IsSegment(headers[i]) /\ c = SegmentCell(i)
IsLowest(c) == base = 0 /\ c = Cell(0, 4, "word", elfBase)
IsString(c) ==
    /\ c.kind \in {"argument", "variable", "execfn", "platform"}
    /\ c.first \in Nat /\ c.past \in Nat
    /\ topOfAux <= c.first /\ c.first < c.past /\ c.past <= next
IsStack(c) ==
    /\ c.kind = "word"
    /\ c.first \in Nat /\ c.past = c.first + 4
    /\ bottomOfStack <= c.first /\ c.past <= topOfAux

\* Where all that is written lies, and that none of it overlaps.
Placed ==
    /\ phase \in {"scan", "stopped"} => memory = {}
    /\ phase = "read" => \A c \in memory : IsImage(c)
    /\ phase \in {"arguments", "environment", "usage", "overrun"} =>
           \A c \in memory : IsImage(c) \/ IsLowest(c) \/ IsString(c)
    /\ phase = "run" => \A c \in memory : IsImage(c) \/ IsLowest(c) \/ IsString(c) \/ IsStack(c)

Apart == \A c, d \in memory : c = d \/ ~Overlap(c, d)

\* How far the strings have come.
Copied ==
    /\ phase \in {"scan", "read"} => at \in 0..Len(headers)
    /\ phase = "arguments" =>
           /\ at \in 0..Len(arguments)
           /\ Len(argv) = at + 1 /\ Len(argv) <= MaxArgs
           /\ next = topOfAux + NameLength + Bytes(arguments, at)
    /\ phase = "environment" => Len(env) = at + 1 /\ Len(env) <= MaxArgs
    /\ phase \in {"environment", "usage", "overrun"} =>
           /\ at \in 0..Len(environment)
           /\ next <= topOfAux + NameLength + Bytes(arguments, Len(arguments)) + 1 + OsLength
                      + Bytes(environment, at)
    /\ phase = "run" =>
           /\ Len(env) = Len(environment) + 1 /\ Len(env) <= MaxArgs
           /\ next <= topOfAux + StringBytes
    /\ phase \in {"environment", "run"} =>
           Len(argv) = IF Len(arguments) < MaxArgs THEN Len(arguments) + 1 ELSE MaxArgs
    /\ phase \in {"arguments", "environment", "usage", "overrun", "run"} => topOfAux <= next

\* There is a string of that kind for each pointer, in their order.
Points(pointers, low, cells, kind) ==
    \A i \in DOMAIN pointers :
        \E c \in cells : c.kind = kind /\ c.value = i - 1 /\ c.first = pointers[i] - low

\* What has been written is there.
Present ==
    /\ phase = "read" => \A i \in 1..at : IsSegment(headers[i]) => SegmentCell(i) \in memory
    /\ phase \in {"arguments", "environment", "run"} =>
           /\ \A i \in DOMAIN headers : IsSegment(headers[i]) => SegmentCell(i) \in memory
           /\ Points(argv, base, memory, "argument")
    /\ phase \in {"environment", "run"} =>
           Points(env, base, memory, "variable")

\* The words of the stack are those of Startup and Random, and no others.
StackHolds(execfn, platform) ==
    LET aux == Aux(base + topOfAux - 16, base + execfn.first, base + platform.first)
        first == topOfAux - 4 * StartupWords(Len(argv) + Len(env))
        words == Words(topOfAux - 16, Random) \cup Words(first, Startup(aux))
    IN  /\ execfn \in memory /\ execfn.kind = "execfn" /\ execfn.value = 0
        /\ platform \in memory /\ platform.kind = "platform" /\ platform.value = 0
        /\ words \subseteq memory
        /\ \A c \in memory : c.kind = "word" => c \in words \/ IsLowest(c)

Started == phase = "run" => \E execfn, platform \in memory : StackHolds(execfn, platform)

Values == elfBase \in Nat /\ sp \in Int /\ o0 \in Nat
Roomy == LaidOut =>
    /\ topOfAux + ArgCommit <= mmapOffset

MemoryInv ==
    /\ phase = "scan" => Scanned
    /\ ImageFits /\ Roomy /\ Values /\ Copied /\ Placed /\ Apart /\ Present /\ Started
-----------------------------------------------------------------------------
(* Headers and cells *)

\* What is known of the header of a file at i.
LEMMA SegmentFacts ==
    ASSUME Numbers, NEW i \in DOMAIN headers
    PROVE  /\ i \in 1..Len(headers)
           /\ Physical(headers[i]) \in Nat /\ headers[i].memory \in Nat /\ headers[i].file \in Nat
           /\ IsSegment(headers[i]) =>
                  /\ 4 <= Physical(headers[i])
                  /\ headers[i].file > 0 /\ headers[i].file <= headers[i].memory
<1> DEFINE Header == [type : Nat, virtual : Nat, physical : Nat, file : Nat, memory : Nat]
<1>1. headers \in Seq(Header) /\ headers \in Image
  BY ImageAssumption DEF Numbers
<1>2. i \in 1..Len(headers) /\ headers[i] \in Header
  BY <1>1, ElementOfSeq, LenProperties
<1>3. Physical(headers[i]) \in Nat /\ headers[i].memory \in Nat
  BY <1>2, HeaderIsNumbers
<1>4. headers[i].file \in Nat
  BY <1>2
<1>5. IsSegment(headers[i]) => 4 <= Physical(headers[i]) /\ headers[i].file <= headers[i].memory
  BY <1>1, <1>3, LinkedAssumption
<1>6. IsSegment(headers[i]) => headers[i].file > 0
  BY <1>4 DEF IsSegment
<1>7. QED
  BY <1>2, <1>3, <1>4, <1>5, <1>6

LEMMA HeadersAreCounted ==
    ASSUME Numbers PROVE Len(headers) \in Nat /\ DOMAIN headers = 1..Len(headers)
  BY ImageAssumption, LenProperties DEF Numbers

LEMMA SegmentsAreApart ==
    ASSUME Numbers, NEW i \in DOMAIN headers, NEW j \in DOMAIN headers, i # j,
           IsSegment(headers[i]), IsSegment(headers[j])
    PROVE  \/ Physical(headers[i]) + headers[i].file <= Physical(headers[j])
           \/ Physical(headers[j]) + headers[j].file <= Physical(headers[i])
  BY LinkedAssumption, Zenon DEF Numbers

LEMMA CellParts ==
    ASSUME NEW first, NEW bytes, NEW kind, NEW value
    PROVE  /\ Cell(first, bytes, kind, value).first = first
           /\ Cell(first, bytes, kind, value).past = first + bytes
           /\ Cell(first, bytes, kind, value).kind = kind
           /\ Cell(first, bytes, kind, value).value = value
  BY DEF Cell

\* A segment's cell is in the image.
LEMMA ImageCells ==
    ASSUME Numbers, ImageFits, LaidOut, NEW c, IsImage(c)
    PROVE  /\ c.first \in Nat /\ c.past \in Nat /\ c.first < c.past /\ c.past <= endOfData
           /\ c.kind = "segment" /\ (base = 0 => 4 <= c.first)
<1>1. PICK i \in DOMAIN headers : IsSegment(headers[i]) /\ c = SegmentCell(i)
  BY DEF IsImage
<1>2. /\ Physical(headers[i]) \in Nat /\ headers[i].file \in Nat
      /\ 4 <= Physical(headers[i]) /\ headers[i].file > 0
  BY <1>1, SegmentFacts
<1>3. /\ base \in Nat /\ endOfData \in Nat /\ base <= Physical(headers[i])
      /\ Physical(headers[i]) + headers[i].file <= base + endOfData
  BY <1>1 DEF ImageFits, Numbers
<1>4. /\ c.first = Physical(headers[i]) - base /\ c.kind = "segment"
      /\ c.past = (Physical(headers[i]) - base) + headers[i].file
  BY <1>1, CellParts DEF SegmentCell
<1>5. QED
  BY <1>2, <1>3, <1>4

LEMMA LowestCell ==
    ASSUME NEW c, IsLowest(c)
    PROVE  base = 0 /\ c.first = 0 /\ c.past = 4 /\ c.kind = "word"
  BY DEF IsLowest, Cell

\* What is written is there, and what was there and is not written over.
LEMMA WrittenCells ==
    ASSUME NEW cells, Apart, memory' = Written(cells),
           \A c, d \in cells : c = d \/ ~Overlap(c, d)
    PROVE  /\ Apart'
           /\ cells \subseteq memory' /\ memory' \subseteq memory \cup cells
           /\ \A c \in memory : (\A d \in cells : ~Overlap(c, d)) => c \in memory'
<1>1. \A c, d : Overlap(c, d) <=> Overlap(d, c)
  BY Zenon DEF Overlap
<1>2. \A c : c \in memory' <=> c \in cells \/ (c \in memory /\ \A d \in cells : ~Overlap(c, d))
  BY DEF Written
<1>3. Apart'
  BY <1>1, <1>2, Zenon DEF Apart
<1>4. QED
  BY <1>2, <1>3

\* One cell, and nothing in its way.
LEMMA WrittenCell ==
    ASSUME NEW cell, Apart, memory' = Written({cell}), \A c \in memory : c = cell \/ ~Overlap(c, cell)
    PROVE  Apart' /\ memory' = memory \cup {cell}
<1>1. \A c, d \in {cell} : c = d \/ ~Overlap(c, d)
  OBVIOUS
<1>2. /\ Apart' /\ {cell} \subseteq memory' /\ memory' \subseteq memory \cup {cell}
      /\ \A c \in memory : (\A d \in {cell} : ~Overlap(c, d)) => c \in memory'
  BY <1>1, WrittenCells
<1>3. QED
  BY <1>2

\* Where the parts of the memory are.
LEMMA Sides ==
    ASSUME LayoutInv, LaidOut
    PROVE  /\ base \in Nat /\ endOfData \in Nat /\ bottomOfStack \in Nat /\ topOfAux \in Nat
           /\ endOfData <= bottomOfStack /\ bottomOfStack + StackCommit = topOfAux
           /\ topOfAux % 16 = 0 /\ next \in Nat
<1>1. /\ base \in Nat /\ endOfData \in Nat /\ bottomOfStack \in Nat /\ topOfAux \in Nat
      /\ bottomOfStack = endOfData + BrkCommit /\ topOfAux = bottomOfStack + StackCommit
      /\ endOfData % 16 = 0 /\ next \in Nat
  BY DEF LayoutInv, Numbers, PartsAreStacked
<1>2. QED
  BY <1>1, CommitsAreNumbers, CommitsAreMultiples

-----------------------------------------------------------------------------
(* The headers *)

LEMMA InitMemoryInv == Init => MemoryInv
<1> SUFFICES ASSUME Init PROVE MemoryInv
  OBVIOUS
<1>1. at = 0 /\ memory = {} /\ phase = "scan"
  BY DEF Init
<1>2. Len(headers) \in Nat
  BY ImageAssumption DEF Init
<1>3. Scanned
  BY <1>1, <1>2 DEF Scanned
<1>4. ImageFits /\ Roomy /\ Values /\ Copied /\ Placed /\ Apart /\ Present /\ Started
  BY <1>1, <1>2 DEF Init, ImageFits, Roomy, Values, Copied, Placed, Apart, Present, Started, LaidOut
<1>5. QED
  BY <1>3, <1>4 DEF MemoryInv

LEMMA ScanHeaderMemoryInv ==
    ASSUME LayoutInv, MemoryInv, ScanHeader PROVE MemoryInv'
<1> DEFINE header == headers[at + 1]
           physical == Physical(header)
<1>1. /\ phase = "scan" /\ at < Len(headers) /\ memory = {} /\ Numbers /\ Scanned /\ Values
      /\ UNCHANGED <<inputs, elfBase, layout, limits, memory, strings, sp, o0>>
  BY DEF ScanHeader, MemoryInv, Placed, LayoutInv
<1>2. phase' \in {"scan", "stopped"}
  BY <1>1 DEF ScanHeader
<1>3. ImageFits' /\ Roomy' /\ Values' /\ Placed' /\ Apart' /\ Present' /\ Started'
  BY <1>1, <1>2 DEF ImageFits, Roomy, Values, Placed, Apart, Present, Started, LaidOut
<1>4. phase' = "scan" => Scanned'
  <2> SUFFICES ASSUME phase' = "scan" PROVE Scanned'
    OBVIOUS
  <2>1. Len(headers) \in Nat /\ at \in 0..Len(headers) /\ at + 1 \in 1..Len(headers)
    <3>1. Len(headers) \in Nat
      BY <1>1, HeadersAreCounted
    <3>2. at \in 0..Len(headers)
      BY <1>1 DEF Scanned
    <3>3. QED
      BY <1>1, <3>1, <3>2
  <2>2. at + 1 \in DOMAIN headers
    BY <1>1, <2>1, HeadersAreCounted
  <2>3. physical \in Nat /\ header.memory \in Nat
    BY <1>1, <2>2, SegmentFacts
  <2> HIDE DEF physical
  <2>4. /\ header.type # 2 /\ at' = at + 1 /\ headers' = headers
        /\ size' = Larger(size, physical + header.memory)
        /\ base' = IF physical # 0 /\ (base = 0 \/ base > physical) THEN physical ELSE base
    BY <1>1 DEF ScanHeader, physical, inputs
  <2>5. size \in Nat /\ base \in Nat
    BY <1>1 DEF Numbers
  <2>6. size <= size' /\ physical + header.memory <= size' /\ size' \in Nat
    BY <2>3, <2>4, <2>5 DEF Larger
  <2>7. base' \in Nat /\ (base # 0 => base' # 0 /\ base' <= base)
        /\ (physical # 0 => base' # 0 /\ base' <= physical)
    BY <2>3, <2>4, <2>5
  <2>8. ASSUME NEW i \in 1..(at + 1)
        PROVE  /\ headers[i].type # 2
               /\ Physical(headers[i]) + headers[i].memory <= size'
               /\ Physical(headers[i]) # 0 => base' # 0 /\ base' <= Physical(headers[i])
    <3>1. CASE i = at + 1
      BY <2>4, <2>6, <2>7, <3>1 DEF physical
    <3>2. CASE i # at + 1
      <4>1. i \in 1..at /\ i \in DOMAIN headers
        BY <1>1, <2>1, <3>2, ImageAssumption DEF Numbers
      <4>2. Physical(headers[i]) \in Nat /\ headers[i].memory \in Nat
        BY <1>1, <4>1, SegmentFacts
      <4>3. /\ headers[i].type # 2
            /\ Physical(headers[i]) + headers[i].memory <= size
            /\ Physical(headers[i]) # 0 => base # 0 /\ base <= Physical(headers[i])
        BY <1>1, <4>1 DEF Scanned
      <4>4. QED
        BY <2>5, <2>6, <2>7, <4>2, <4>3
    <3>3. QED
      BY <3>1, <3>2
  <2>9. at' \in 0..Len(headers')
    BY <2>1, <2>4
  <2>10. QED
    BY <2>4, <2>8, <2>9, Zenon DEF Scanned
<1>5. Copied'
  BY <1>1, <1>2, <1>4 DEF Copied, Scanned
<1>6. QED
  BY <1>3, <1>4, <1>5 DEF MemoryInv

LEMMA LayOutMemoryInv ==
    ASSUME LayoutInv, LayoutInv', MemoryInv, LayOut PROVE MemoryInv'
<1> DEFINE low == StartOfMemory
           end == RoundUp(size - low, 16)
<1>1. /\ phase = "scan" /\ phase' = "read" /\ at = Len(headers) /\ at' = 0 /\ memory = {}
      /\ Numbers /\ Scanned /\ Values /\ base <= size
      /\ UNCHANGED <<inputs, memory, strings, sp, o0>>
      /\ elfBase' = base /\ base' = low /\ endOfData' = end
      /\ mmapOffset' = RoundUp(topOfAux' + ArgCommit, Page)
  BY DEF LayOut, MemoryInv, Placed, LayoutInv, BaseIsBelowSize
<1>2. base \in Nat /\ size \in Nat /\ LowAddress \in Nat /\ headers \in Image
  BY <1>1, CommitAssumption DEF Numbers
<1>3. low \in Nat /\ low <= base
  BY <1>2 DEF StartOfMemory
<1> HIDE DEF low
<1>4. end \in Nat /\ size <= low + end
  <2> DEFINE room == size - low
  <2>1. room \in Nat
    BY <1>1, <1>2, <1>3
  <2> HIDE DEF room
  <2>2. RoundUp(room, 16) \in Nat /\ room <= RoundUp(room, 16)
    BY <2>1, RoundUpBounds
  <2>3. end \in Nat /\ size - low <= end
    BY <2>2 DEF room
  <2> HIDE DEF end
  <2>4. QED
    BY <1>2, <1>3, <2>3
<1>5. end % 16 = 0
  <2> DEFINE room == size - low
  <2>1. room \in Nat
    BY <1>1, <1>2, <1>3
  <2> HIDE DEF room
  <2>2. RoundUp(room, 16) % 16 = 0
    BY <2>1, RoundUpTo16
  <2>3. QED
    BY <2>2 DEF room
<1> HIDE DEF end
<1>6. topOfAux' + ArgCommit <= mmapOffset'
  <2>1. PICK top : top = topOfAux'
    OBVIOUS
  <2> DEFINE start == top + ArgCommit
  <2>2. topOfAux' \in Nat
    BY DEF LayoutInv, Numbers
  <2>3. start \in Nat /\ Page \in Nat /\ Page > 0
    <3>1. top \in Nat
      BY <2>1, <2>2, Zenon
    <3>2. QED
      BY <3>1, CommitsAreNumbers
  <2>4. start = topOfAux' + ArgCommit
    BY <2>1, Zenon
  <2> HIDE DEF start
  <2>5. start <= RoundUp(start, Page)
    BY <2>3, RoundUpBounds
  <2>6. mmapOffset' = RoundUp(start, Page)
    BY <1>1, <2>4, Zenon
  <2>7. QED
    BY <2>4, <2>5, <2>6, Zenon
<1>7. ASSUME NEW i \in DOMAIN headers, IsSegment(headers[i])
      PROVE  low <= Physical(headers[i]) /\ Physical(headers[i]) + headers[i].file <= low + end
  <2>1. /\ i \in 1..at /\ Physical(headers[i]) \in Nat /\ headers[i].memory \in Nat
        /\ headers[i].file \in Nat /\ 4 <= Physical(headers[i])
        /\ headers[i].file <= headers[i].memory
    BY <1>1, <1>7, SegmentFacts
  <2>2. base <= Physical(headers[i]) /\ Physical(headers[i]) + headers[i].memory <= size
    BY <1>1, <2>1 DEF Scanned
  <2>3. QED
    BY <1>2, <1>3, <1>4, <2>1, <2>2
<1>8. low = 0 => 4 <= end
  <2>1. PICK i \in DOMAIN headers : headers[i].memory > 0
    BY <1>2, LinkedAssumption
  <2>2. i \in 1..at /\ Physical(headers[i]) \in Nat /\ headers[i].memory \in Nat
    BY <1>1, SegmentFacts
  <2>3. Physical(headers[i]) + headers[i].memory <= size
    BY <1>1, <2>2 DEF Scanned
  <2>4. size > 0
    BY <1>2, <2>1, <2>2, <2>3
  <2>5. low = 0 => end > 0
    BY <1>2, <1>4, <2>4
  <2>6. QED
    BY <1>4, <1>5, <2>5
<1>9. ImageFits' /\ Roomy'
  <2>1. headers' = headers
    BY <1>1 DEF inputs
  <2>2. QED
    BY <1>1, <1>6, <1>7, <1>8, <2>1, Zenon DEF ImageFits, Roomy
<1>10. Values'
  BY <1>1, <1>2 DEF Values
<1>11. Copied'
  <2>1. Len(headers) \in Nat
    BY <1>2, ImageAssumption
  <2>2. QED
    BY <1>1, <2>1 DEF Copied, inputs
<1>12. Placed' /\ Apart' /\ Present' /\ Started'
  BY <1>1 DEF Placed, Apart, Present, Started
<1>13. QED
  BY <1>1, <1>9, <1>10, <1>11, <1>12 DEF MemoryInv
-----------------------------------------------------------------------------
(* The image and the strings *)

\* A step that moves no part of the memory.
LEMMA Unmoved ==
    ASSUME UNCHANGED <<inputs, extent, layout>>
    PROVE  /\ headers' = headers /\ arguments' = arguments /\ environment' = environment
           /\ base' = base /\ elfBase' = elfBase /\ endOfData' = endOfData
           /\ bottomOfStack' = bottomOfStack /\ topOfAux' = topOfAux /\ mmapOffset' = mmapOffset
           /\ \A i : SegmentCell(i)' = SegmentCell(i)
           /\ \A c : IsImage(c) => IsImage(c)'
           /\ \A c : IsLowest(c) => IsLowest(c)'
<1>1. /\ headers' = headers /\ arguments' = arguments /\ environment' = environment
      /\ base' = base /\ elfBase' = elfBase /\ endOfData' = endOfData
      /\ bottomOfStack' = bottomOfStack /\ topOfAux' = topOfAux /\ mmapOffset' = mmapOffset
  BY DEF inputs, extent, layout
<1>2. \A i : SegmentCell(i)' = SegmentCell(i)
  BY <1>1, Zenon DEF SegmentCell
<1>3. ASSUME NEW c, IsImage(c) PROVE IsImage(c)'
  BY <1>1, <1>2, <1>3, Zenon DEF IsImage
<1>4. ASSUME NEW c, IsLowest(c) PROVE IsLowest(c)'
  BY <1>1, <1>4, Zenon DEF IsLowest
<1>5. QED
  BY <1>1, <1>2, <1>3, <1>4, Zenon

\* Such a step keeps what is said of the parts.
LEMMA UnmovedParts ==
    ASSUME MemoryInv, UNCHANGED <<inputs, extent, layout>>, LaidOut, LaidOut', sp' \in Int, o0' \in Nat
    PROVE  ImageFits' /\ Roomy' /\ Values'
  BY Unmoved, Zenon DEF MemoryInv, ImageFits, Roomy, Values

LEMMA ReadSegmentMemoryInv ==
    ASSUME LayoutInv, MemoryInv, ReadSegment PROVE MemoryInv'
<1> DEFINE cell == SegmentCell(at + 1)
<1>1. /\ phase = "read" /\ phase' = "read" /\ at < Len(headers) /\ at' = at + 1
      /\ UNCHANGED <<inputs, extent, layout>> /\ sp' = sp /\ o0' = o0
      /\ memory' = IF IsSegment(headers[at + 1]) THEN Written({cell}) ELSE memory
  BY DEF ReadSegment, SegmentCell
<1>2. /\ Numbers /\ ImageFits /\ Apart /\ LaidOut /\ LaidOut' /\ at \in 0..Len(headers)
      /\ \A c \in memory : IsImage(c)
      /\ \A i \in 1..at : IsSegment(headers[i]) => SegmentCell(i) \in memory
  BY <1>1 DEF LayoutInv, MemoryInv, LaidOut, Copied, Placed, Present
<1>3. Len(headers) \in Nat /\ DOMAIN headers = 1..Len(headers)
  BY <1>2, ImageAssumption DEF Numbers
<1>4. at + 1 \in DOMAIN headers
  BY <1>1, <1>2, <1>3
<1>5. ImageFits' /\ Roomy' /\ Values'
  BY <1>1, <1>2, UnmovedParts DEF MemoryInv, Values
<1>6. Copied'
  <2>1. at' \in 0..Len(headers')
    BY <1>1, <1>2, <1>3, Unmoved
  <2>2. QED
    BY <1>1, <2>1 DEF Copied
<1>7. /\ Apart' /\ memory \subseteq memory'
      /\ IF IsSegment(headers[at + 1]) THEN memory' = memory \cup {cell} ELSE memory' = memory
  <2>1. CASE ~IsSegment(headers[at + 1])
    BY <1>1, <1>2, <2>1 DEF Apart
  <2>2. CASE IsSegment(headers[at + 1])
    <3>1. ASSUME NEW c \in memory PROVE c = cell \/ ~Overlap(c, cell)
      <4>1. PICK i \in DOMAIN headers : IsSegment(headers[i]) /\ c = SegmentCell(i)
        BY <1>2 DEF IsImage
      <4>2. CASE i = at + 1
        BY <4>1, <4>2
      <4>3. CASE i # at + 1
        <5>1. \/ Physical(headers[i]) + headers[i].file <= Physical(headers[at + 1])
              \/ Physical(headers[at + 1]) + headers[at + 1].file <= Physical(headers[i])
          BY <1>2, <1>4, <2>2, <4>1, <4>3, SegmentsAreApart
        <5>2. /\ Physical(headers[i]) \in Nat /\ headers[i].file \in Nat
              /\ Physical(headers[at + 1]) \in Nat /\ headers[at + 1].file \in Nat /\ base \in Nat
          BY <1>2, <1>4, <4>1, SegmentFacts DEF Numbers
        <5>3. /\ c.first = Physical(headers[i]) - base
              /\ c.past = (Physical(headers[i]) - base) + headers[i].file
              /\ cell.first = Physical(headers[at + 1]) - base
              /\ cell.past = (Physical(headers[at + 1]) - base) + headers[at + 1].file
          BY <4>1, CellParts DEF SegmentCell
        <5> HIDE DEF cell
        <5>4. QED
          BY <5>1, <5>2, <5>3 DEF Overlap
      <4>4. QED
        BY <4>2, <4>3
    <3>2. memory' = Written({cell})
      BY <1>1, <2>2
    <3> HIDE DEF cell
    <3>3. Apart' /\ memory' = memory \cup {cell}
      BY <1>2, <3>1, <3>2, WrittenCell
    <3>4. QED
      BY <2>2, <3>3
  <2>3. QED
    BY <2>1, <2>2
<1>8. \A c \in memory' : IsImage(c)'
  <2> SUFFICES ASSUME NEW c \in memory' PROVE IsImage(c)
    BY <1>1, Unmoved
  <2>1. CASE c \in memory
    BY <1>2, <2>1
  <2>2. CASE c = cell /\ IsSegment(headers[at + 1])
    BY <1>4, <2>2 DEF IsImage
  <2>3. QED
    BY <1>7, <2>1, <2>2
<1>9. \A i \in 1..at' : IsSegment(headers'[i]) => SegmentCell(i)' \in memory'
  <2> SUFFICES ASSUME NEW i \in 1..(at + 1), IsSegment(headers[i]) PROVE SegmentCell(i) \in memory'
    BY <1>1, Unmoved
  <2>1. CASE i = at + 1
    BY <1>7, <2>1
  <2>2. CASE i # at + 1
    <3>1. i \in 1..at
      BY <1>2, <1>3, <2>2
    <3>2. QED
      BY <1>2, <1>7, <3>1
  <2>3. QED
    BY <2>1, <2>2
<1>10. Placed' /\ Present' /\ Started'
  BY <1>1, <1>8, <1>9, Zenon DEF Placed, Present, Started
<1>11. QED
  BY <1>1, <1>5, <1>6, <1>7, <1>10 DEF MemoryInv

\* All that is written before the stack ends where the strings do, or earlier.
LEMMA WrittenBelow ==
    ASSUME LayoutInv, MemoryInv, phase \in {"arguments", "environment"}, NEW c \in memory
    PROVE  c.first \in Nat /\ c.past \in Nat /\ c.first < c.past /\ c.past <= next
<1>1. /\ Numbers /\ ImageFits /\ LaidOut /\ topOfAux <= next
      /\ IsImage(c) \/ IsLowest(c) \/ IsString(c)
  BY DEF LayoutInv, MemoryInv, LaidOut, Copied, Placed
<1>2. /\ endOfData \in Nat /\ topOfAux \in Nat /\ next \in Nat /\ endOfData <= topOfAux
  <2>1. /\ endOfData \in Nat /\ bottomOfStack \in Nat /\ topOfAux \in Nat /\ next \in Nat
        /\ endOfData <= bottomOfStack /\ bottomOfStack + StackCommit = topOfAux
    BY <1>1, Sides
  <2>2. QED
    BY <2>1, CommitsAreNumbers
<1>3. CASE IsImage(c)
  <2>1. /\ c.first \in Nat /\ c.past \in Nat /\ c.first < c.past /\ c.past <= endOfData
    BY <1>1, <1>3, ImageCells
  <2>2. QED
    BY <1>1, <1>2, <2>1
<1>4. CASE IsLowest(c)
  <2>1. base = 0 /\ c.first = 0 /\ c.past = 4
    BY <1>4, LowestCell
  <2>2. 4 <= endOfData
    BY <1>1, <2>1 DEF ImageFits
  <2>3. QED
    BY <1>1, <1>2, <2>1, <2>2
<1>5. CASE IsString(c)
  BY <1>5 DEF IsString
<1>6. QED
  BY <1>1, <1>3, <1>4, <1>5

\* One string more.
LEMMA CopiesAString ==
    ASSUME LayoutInv, MemoryInv, phase \in {"arguments", "environment"},
           UNCHANGED <<inputs, extent, layout>>,
           NEW from \in Nat, NEW bytes \in Nat \ {0}, next <= from, next' = from + bytes,
           NEW kind \in {"argument", "variable"}, NEW value,
           memory' = Written({Cell(from, bytes, kind, value)})
    PROVE  /\ Apart' /\ memory' = memory \cup {Cell(from, bytes, kind, value)}
           /\ \A c \in memory' : IsImage(c)' \/ IsLowest(c)' \/ IsString(c)'
           /\ \A i \in DOMAIN headers' : IsSegment(headers'[i]) => SegmentCell(i)' \in memory'
<1> DEFINE cell == Cell(from, bytes, kind, value)
<1>1. /\ Apart /\ topOfAux <= next /\ LaidOut
      /\ \A c \in memory : IsImage(c) \/ IsLowest(c) \/ IsString(c)
      /\ \A i \in DOMAIN headers : IsSegment(headers[i]) => SegmentCell(i) \in memory
  BY DEF MemoryInv, Copied, Placed, Present, LaidOut
<1>2. next \in Nat /\ topOfAux \in Nat
  BY <1>1, Sides
<1>3. cell.first = from /\ cell.past = from + bytes /\ cell.kind = kind /\ memory' = Written({cell})
  BY CellParts
<1> HIDE DEF cell
<1>4. \A c \in memory : c = cell \/ ~Overlap(c, cell)
  <2> SUFFICES ASSUME NEW c \in memory PROVE ~Overlap(c, cell)
    OBVIOUS
  <2>1. c.past \in Nat /\ c.past <= next
    BY WrittenBelow
  <2>2. QED
    BY <1>2, <1>3, <2>1 DEF Overlap
<1>5. Apart' /\ memory' = memory \cup {cell}
  BY <1>1, <1>3, <1>4, WrittenCell
<1>6. ASSUME NEW c, IsString(c) PROVE IsString(c)'
  <2>1. /\ c.kind \in {"argument", "variable", "execfn", "platform"}
        /\ c.first \in Nat /\ c.past \in Nat
        /\ topOfAux <= c.first /\ c.first < c.past /\ c.past <= next
    BY <1>6 DEF IsString
  <2>2. c.past <= from + bytes
    BY <1>2, <2>1
  <2>3. topOfAux' = topOfAux /\ c.past <= next'
    BY <2>2, Unmoved, Zenon
  <2>4. QED
    BY <2>1, <2>3, Zenon DEF IsString
<1>7. IsString(cell)'
  <2>1. cell.first \in Nat /\ cell.past \in Nat /\ topOfAux <= cell.first /\ cell.first < cell.past
    BY <1>1, <1>2, <1>3
  <2>2. topOfAux' = topOfAux /\ cell.past <= next'
    <3>1. cell.past <= from + bytes
      BY <1>3
    <3>2. QED
      BY <3>1, Unmoved, Zenon
  <2>3. QED
    BY <1>3, <2>1, <2>2 DEF IsString
<1>8. \A c \in memory' : IsImage(c)' \/ IsLowest(c)' \/ IsString(c)'
  <2> SUFFICES ASSUME NEW c \in memory' PROVE IsImage(c)' \/ IsLowest(c)' \/ IsString(c)'
    OBVIOUS
  <2>1. c \in memory \/ c = cell
    BY <1>5
  <2>2. QED
    BY <1>1, <1>6, <1>7, <2>1, Unmoved, Zenon
<1>9. \A i \in DOMAIN headers' : IsSegment(headers'[i]) => SegmentCell(i)' \in memory'
  BY <1>1, <1>5, Unmoved
<1>10. QED
  BY <1>5, <1>8, <1>9 DEF cell
LEMMA StringLengths ==
    ASSUME Numbers
    PROVE  /\ NameLength \in Nat \ {0} /\ OsLength \in Nat \ {0}
           /\ ExecLength \in Nat \ {0} /\ PlatformLength \in Nat \ {0}
           /\ arguments \in Seq(Nat) /\ environment \in Seq(Nat)
           /\ \A i \in 1..Len(arguments) : arguments[i] \in Nat \ {0}
           /\ \A i \in 1..Len(environment) : environment[i] \in Nat
           /\ Len(arguments) \in Nat /\ Len(environment) \in Nat
           /\ MaxArgs \in Nat \ {0}
<1>1. arguments \in Seq(Nat \ {0}) /\ environment \in Seq(Nat)
  BY StringsAssumption DEF Numbers
<1>2. /\ arguments \in Seq(Nat) /\ environment \in Seq(Nat)
      /\ \A i \in 1..Len(arguments) : arguments[i] \in Nat \ {0}
      /\ \A i \in 1..Len(environment) : environment[i] \in Nat
      /\ Len(arguments) \in Nat /\ Len(environment) \in Nat
  BY <1>1
<1>3. MaxArgs \in Nat \ {0}
  BY CommitAssumption
<1>4. /\ NameLength \in Nat \ {0} /\ OsLength \in Nat \ {0}
      /\ ExecLength \in Nat \ {0} /\ PlatformLength \in Nat \ {0}
  BY StringsAssumption
<1>5. QED
  BY <1>2, <1>3, <1>4

LEMMA CopyNameMemoryInv ==
    ASSUME LayoutInv, MemoryInv, CopyName PROVE MemoryInv'
<1> DEFINE name == Cell(topOfAux, NameLength, "argument", 0)
           lowest == Cell(0, 4, "word", elfBase)
           cells == {name} \cup IF base = 0 THEN {lowest} ELSE {}
<1>1. /\ phase = "read" /\ phase' = "arguments" /\ at = Len(headers) /\ at' = 0
      /\ UNCHANGED <<inputs, extent, layout>> /\ sp' = sp /\ o0' = o0
      /\ memory' = Written(cells)
      /\ argv' = <<base + topOfAux>> /\ next' = topOfAux + NameLength
  BY DEF CopyName
<1>2. /\ Numbers /\ ImageFits /\ Apart /\ LaidOut /\ LaidOut'
      /\ \A c \in memory : IsImage(c)
      /\ \A i \in 1..at : IsSegment(headers[i]) => SegmentCell(i) \in memory
  BY <1>1 DEF LayoutInv, MemoryInv, LaidOut, Placed, Present
<1>3. /\ base \in Nat /\ endOfData \in Nat /\ topOfAux \in Nat /\ endOfData <= topOfAux
      /\ NameLength \in Nat \ {0} /\ (base = 0 => 4 <= endOfData)
  <2>1. /\ base \in Nat /\ endOfData \in Nat /\ bottomOfStack \in Nat /\ topOfAux \in Nat
        /\ endOfData <= bottomOfStack /\ bottomOfStack + StackCommit = topOfAux
    BY <1>2, Sides
  <2>2. endOfData <= topOfAux
    BY <2>1, CommitsAreNumbers
  <2>3. QED
    BY <1>2, <2>1, <2>2, StringLengths DEF ImageFits
<1>4. /\ name.first = topOfAux /\ name.past = topOfAux + NameLength
      /\ name.kind = "argument" /\ name.value = 0
      /\ lowest.first = 0 /\ lowest.past = 4 /\ lowest.kind = "word"
  <2>1. 0 + 4 = 4
    OBVIOUS
  <2>2. QED
    BY <2>1, CellParts
<1>5. \A c : c \in cells <=> c = name \/ (base = 0 /\ c = lowest)
  OBVIOUS
<1>6. IsLowest(lowest) <=> base = 0
  BY DEF IsLowest
<1> HIDE DEF name, lowest, cells
<1>7. \A c, d \in cells : c = d \/ ~Overlap(c, d)
  <2>1. base = 0 => ~Overlap(name, lowest) /\ ~Overlap(lowest, name)
    BY <1>3, <1>4 DEF Overlap
  <2>2. QED
    BY <1>5, <2>1
<1>8. \A c \in memory, d \in cells : ~Overlap(c, d)
  <2> SUFFICES ASSUME NEW c \in memory, NEW d \in cells PROVE ~Overlap(c, d)
    OBVIOUS
  <2>1. /\ c.first \in Nat /\ c.past \in Nat /\ c.past <= endOfData
        /\ (base = 0 => 4 <= c.first)
    BY <1>2, ImageCells
  <2>2. CASE d = name
    BY <1>3, <1>4, <2>1, <2>2 DEF Overlap
  <2>3. CASE base = 0 /\ d = lowest
    BY <1>3, <1>4, <2>1, <2>3 DEF Overlap
  <2>4. QED
    BY <1>5, <2>2, <2>3
<1>9. Apart' /\ cells \subseteq memory' /\ memory' \subseteq memory \cup cells /\ memory \subseteq memory'
  <2>1. /\ Apart' /\ cells \subseteq memory' /\ memory' \subseteq memory \cup cells
        /\ \A c \in memory : (\A d \in cells : ~Overlap(c, d)) => c \in memory'
    BY <1>1, <1>2, <1>7, WrittenCells
  <2>2. QED
    BY <1>8, <2>1
<1>10. ImageFits' /\ Roomy' /\ Values'
  BY <1>1, <1>2, UnmovedParts DEF MemoryInv, Values
<1>11. Copied'
  <2>1. Bytes(arguments, 0) = 0 /\ Len(arguments) \in Nat /\ MaxArgs \in Nat \ {0}
    BY <1>2, StringLengths, BytesAddUp
  <2>2. Len(argv') = 1
    BY <1>1
  <2>3. /\ at' \in 0..Len(arguments') /\ Len(argv') = at' + 1 /\ Len(argv') <= MaxArgs
        /\ next' = topOfAux' + NameLength + Bytes(arguments', at')
    <3>1. topOfAux + NameLength = topOfAux + NameLength + Bytes(arguments, 0)
      BY <1>3, <2>1
    <3>2. next' = topOfAux' + NameLength + Bytes(arguments', at')
      BY <1>1, <3>1, Unmoved, Zenon
    <3>3. QED
      BY <1>1, <2>1, <2>2, <3>2, Unmoved
  <2>4. topOfAux' <= next'
    <3>1. topOfAux <= topOfAux + NameLength
      BY <1>3
    <3>2. QED
      BY <1>1, <3>1, Unmoved, Zenon
  <2>5. QED
    BY <1>1, <2>3, <2>4 DEF Copied
<1>12. \A c \in memory' : IsImage(c)' \/ IsLowest(c)' \/ IsString(c)'
  <2> SUFFICES ASSUME NEW c \in memory' PROVE IsImage(c)' \/ IsLowest(c)' \/ IsString(c)'
    OBVIOUS
  <2>1. CASE c \in memory
    BY <1>2, <2>1, Unmoved, <1>1
  <2>2. CASE base = 0 /\ c = lowest
    BY <1>1, <1>6, <2>2, Unmoved
  <2>3. CASE c = name
    <3>1. /\ name.first \in Nat /\ name.past \in Nat /\ topOfAux <= name.first
          /\ name.first < name.past /\ name.past <= topOfAux + NameLength
      BY <1>3, <1>4
    <3>2. topOfAux' = topOfAux
      BY <1>1, Unmoved
    <3>3. QED
      BY <1>1, <1>4, <2>3, <3>1, <3>2 DEF IsString
  <2>4. QED
    BY <1>5, <1>9, <2>1, <2>2, <2>3
<1>13. \A i \in DOMAIN headers' : IsSegment(headers'[i]) => SegmentCell(i)' \in memory'
  <2>1. DOMAIN headers = 1..at
    BY <1>1, <1>2, ImageAssumption DEF Numbers
  <2>2. QED
    BY <1>1, <1>2, <1>9, <2>1, Unmoved
<1>14. Points(argv', base', memory', "argument")
  <2>1. DOMAIN argv' = {1} /\ argv'[1] - base = topOfAux /\ 1 - 1 = 0
    BY <1>1, <1>3
  <2>2. name \in memory' /\ base' = base
    BY <1>1, <1>5, <1>9, Unmoved
  <2>3. QED
    BY <1>4, <2>1, <2>2 DEF Points
<1>15. Placed' /\ Present' /\ Started'
  BY <1>1, <1>12, <1>13, <1>14, Zenon DEF Placed, Present, Started
<1>16. QED
  BY <1>1, <1>9, <1>10, <1>11, <1>15 DEF MemoryInv

\* A pointer more to a string that has just been written.
LEMMA PointsAtIt ==
    ASSUME NEW pointers \in Seq(Nat), NEW low \in Nat, NEW from \in Nat, NEW bytes, NEW kind,
           NEW cells, NEW more, NEW n, n = Len(pointers),
           more = cells \cup {Cell(from, bytes, kind, n)},
           Points(pointers, low, cells, kind)
    PROVE  Points(Append(pointers, low + from), low, more, kind)
<1> DEFINE all == Append(pointers, low + from)
<1>1. /\ low + from \in Nat /\ Len(pointers) \in Nat
      /\ DOMAIN all = 1..(Len(pointers) + 1) /\ DOMAIN pointers = 1..Len(pointers)
      /\ \A i \in DOMAIN pointers : all[i] = pointers[i]
      /\ all[Len(pointers) + 1] = low + from
  OBVIOUS
<1> HIDE DEF all
<1> SUFFICES ASSUME NEW i \in DOMAIN all
             PROVE  \E c \in more : c.kind = kind /\ c.value = i - 1 /\ c.first = all[i] - low
  BY DEF all, Points
<1>2. CASE i \in DOMAIN pointers
  <2>1. PICK c \in cells : c.kind = kind /\ c.value = i - 1 /\ c.first = pointers[i] - low
    BY <1>2 DEF Points
  <2>2. QED
    BY <1>1, <1>2, <2>1
<1>3. CASE i = Len(pointers) + 1
  <2> DEFINE cell == Cell(from, bytes, kind, n)
  <2>1. cell \in more /\ cell.kind = kind /\ cell.value = n /\ cell.first = from
    BY CellParts
  <2>2. n = i - 1 /\ from = all[i] - low
    BY <1>1, <1>3
  <2> HIDE DEF cell
  <2>3. QED
    BY <2>1, <2>2
<1>4. QED
  BY <1>1, <1>2, <1>3
LEMMA CopyArgumentMemoryInv ==
    ASSUME LayoutInv, MemoryInv, CopyArgument PROVE MemoryInv'
<1> DEFINE bytes == arguments[at + 1]
           cell == Cell(next, bytes, "argument", at + 1)
<1>1. /\ phase = "arguments" /\ phase' = "arguments" /\ at < Len(arguments) /\ at' = at + 1
      /\ Len(argv) < MaxArgs
      /\ UNCHANGED <<inputs, extent, layout>> /\ sp' = sp /\ o0' = o0
      /\ memory' = Written({cell}) /\ next' = next + bytes
      /\ argv' = Append(argv, base + next)
  BY DEF CopyArgument, CopyString
<1>2. /\ Numbers /\ LaidOut /\ LaidOut'
      /\ at \in 0..Len(arguments) /\ Len(argv) = at + 1
      /\ next = topOfAux + NameLength + Bytes(arguments, at) /\ topOfAux <= next
      /\ Points(argv, base, memory, "argument")
  BY <1>1 DEF LayoutInv, MemoryInv, LaidOut, Copied, Present
<1>3. /\ base \in Nat /\ topOfAux \in Nat /\ next \in Nat /\ argv \in Seq(Nat)
      /\ Len(arguments) \in Nat /\ MaxArgs \in Nat /\ NameLength \in Nat
  BY <1>2, Sides, StringLengths DEF Numbers
<1>4. bytes \in Nat \ {0} /\ at + 1 \in 0..Len(arguments)
  <2>1. at + 1 \in 1..Len(arguments) /\ at + 1 \in 0..Len(arguments)
    BY <1>1, <1>2, <1>3
  <2>2. QED
    BY <1>2, <2>1, StringLengths
<1> HIDE DEF bytes
<1>5. /\ Apart' /\ memory' = memory \cup {cell}
      /\ \A c \in memory' : IsImage(c)' \/ IsLowest(c)' \/ IsString(c)'
      /\ \A i \in DOMAIN headers' : IsSegment(headers'[i]) => SegmentCell(i)' \in memory'
  <2>1. next <= next /\ next + bytes = next + bytes
    BY <1>3
  <2>2. QED
    BY <1>1, <1>3, <1>4, <2>1, CopiesAString
<1>6. ImageFits' /\ Roomy' /\ Values'
  BY <1>1, <1>2, UnmovedParts DEF MemoryInv, Values
<1>7. Copied'
  <2>1. Len(Append(argv, base + next)) = (at + 1) + 1 /\ (at + 1) + 1 <= MaxArgs
    BY <1>1, <1>2, <1>3
  <2>2. Len(argv') = at' + 1 /\ Len(argv') <= MaxArgs
    BY <1>1, <2>1, Zenon
  <2>3. next + bytes = topOfAux + NameLength + Bytes(arguments, at + 1) /\ topOfAux <= next + bytes
    <3>1. at \in 0..(Len(arguments) - 1) /\ at \in 0..Len(arguments)
      BY <1>1, <1>2, <1>3
    <3>2. Bytes(arguments, at + 1) = Bytes(arguments, at) + bytes /\ Bytes(arguments, at) \in Nat
      BY <1>2, <3>1, StringLengths, BytesAddUp DEF bytes
    <3>3. QED
      BY <1>2, <1>3, <1>4, <3>2
  <2>4. next' = topOfAux' + NameLength + Bytes(arguments', at') /\ topOfAux' <= next'
    BY <1>1, <2>3, Unmoved, Zenon
  <2>5. at' \in 0..Len(arguments')
    BY <1>1, <1>4, Unmoved, Zenon
  <2>6. QED
    BY <1>1, <2>2, <2>4, <2>5 DEF Copied
<1>8. Points(argv', base', memory', "argument")
  <2>1. Points(Append(argv, base + next), base, memory', "argument")
    <3>1. PICK n, more : n = at + 1 /\ more = memory'
      OBVIOUS
    <3>2. n = Len(argv) /\ more = memory \cup {Cell(next, bytes, "argument", n)}
      BY <1>2, <1>5, <3>1, Zenon DEF cell
    <3> HIDE DEF cell
    <3>3. Points(Append(argv, base + next), base, more, "argument")
      BY <1>2, <1>3, <3>2, PointsAtIt
    <3>4. QED
      BY <3>1, <3>3, Zenon
  <2>2. QED
    BY <1>1, <2>1, Unmoved, Zenon
<1>9. Placed' /\ Present' /\ Started'
  BY <1>1, <1>5, <1>8, Zenon DEF Placed, Present, Started
<1>10. QED
  BY <1>1, <1>5, <1>6, <1>7, <1>9 DEF MemoryInv

LEMMA CopyOsMemoryInv ==
    ASSUME LayoutInv, MemoryInv, CopyOs PROVE MemoryInv'
<1> DEFINE from == next + 1
           cell == Cell(from, OsLength, "variable", 0)
<1>1. /\ phase = "arguments" /\ phase' = "environment" /\ at' = 0
      /\ at = Len(arguments) \/ Len(argv) = MaxArgs
      /\ UNCHANGED <<inputs, extent, layout>> /\ sp' = sp /\ o0' = o0 /\ argv' = argv
      /\ memory' = Written({cell}) /\ next' = from + OsLength
      /\ env' = <<base + next + 1>>
  BY DEF CopyOs
<1>2. /\ Numbers /\ LaidOut /\ LaidOut'
      /\ at \in 0..Len(arguments) /\ Len(argv) = at + 1 /\ Len(argv) <= MaxArgs
      /\ next = topOfAux + NameLength + Bytes(arguments, at) /\ topOfAux <= next
      /\ Points(argv, base, memory, "argument")
  BY <1>1 DEF LayoutInv, MemoryInv, LaidOut, Copied, Present
<1>3. /\ base \in Nat /\ topOfAux \in Nat /\ next \in Nat
      /\ Len(arguments) \in Nat /\ MaxArgs \in Nat \ {0} /\ NameLength \in Nat
      /\ OsLength \in Nat \ {0}
  BY <1>2, Sides, StringLengths
<1>4. from \in Nat /\ next <= from
  BY <1>3
<1> HIDE DEF from
<1>5. /\ Apart' /\ memory' = memory \cup {cell}
      /\ \A c \in memory' : IsImage(c)' \/ IsLowest(c)' \/ IsString(c)'
      /\ \A i \in DOMAIN headers' : IsSegment(headers'[i]) => SegmentCell(i)' \in memory'
  BY <1>1, <1>3, <1>4, CopiesAString
<1>6. ImageFits' /\ Roomy' /\ Values'
  BY <1>1, <1>2, UnmovedParts DEF MemoryInv, Values
<1>7. Copied'
  <2>1. Len(argv) = IF Len(arguments) < MaxArgs THEN Len(arguments) + 1 ELSE MaxArgs
    BY <1>1, <1>2, <1>3
  <2>2. Len(argv') = IF Len(arguments') < MaxArgs THEN Len(arguments') + 1 ELSE MaxArgs
    BY <1>1, <2>1, Unmoved, Zenon
  <2> DEFINE all == Bytes(arguments, Len(arguments))
             none == Bytes(environment, 0)
  <2>3. Bytes(arguments, at) \in Nat /\ all \in Nat /\ Bytes(arguments, at) <= all /\ none = 0
    <3>1. Len(arguments) \in 0..Len(arguments)
      BY <1>3
    <3>2. QED
      BY <1>2, <3>1, StringLengths, BytesAddUp
  <2> HIDE DEF all, none
  <2>4. from + OsLength <= topOfAux + NameLength + all + 1 + OsLength + none
    BY <1>2, <1>3, <2>3 DEF from
  <2>5. topOfAux <= from + OsLength
    BY <1>2, <1>3, <1>4
  <2>6. /\ next' <= topOfAux' + NameLength + Bytes(arguments', Len(arguments')) + 1 + OsLength
                    + Bytes(environment', at')
        /\ topOfAux' <= next'
    BY <1>1, <2>4, <2>5, Unmoved, Zenon DEF all, none
  <2>7. Len(env') = at' + 1 /\ Len(env') <= MaxArgs /\ at' \in 0..Len(environment')
    <3>1. Len(environment) \in Nat
      BY <1>2, StringLengths
    <3>2. /\ 0 \in 0..Len(environment)
          /\ Len(<<base + next + 1>>) = 0 + 1 /\ Len(<<base + next + 1>>) <= MaxArgs
      BY <1>3, <3>1
    <3>3. QED
      BY <1>1, <3>2, Unmoved, Zenon
  <2>8. QED
    BY <1>1, <2>2, <2>6, <2>7 DEF Copied
<1>8. Points(argv', base', memory', "argument")
  <2>1. Points(argv, base, memory', "argument")
    BY <1>2, <1>5 DEF Points
  <2>2. QED
    BY <1>1, <2>1, Unmoved, Zenon
<1>9. Points(env', base', memory', "variable")
  <2>1. DOMAIN env' = {1} /\ env'[1] - base = from /\ 1 - 1 = 0
    BY <1>1, <1>3 DEF from
  <2>2. cell \in memory' /\ cell.kind = "variable" /\ cell.value = 0 /\ cell.first = from
    BY <1>5, CellParts
  <2>3. base' = base
    BY <1>1, Unmoved
  <2> HIDE DEF cell
  <2>4. QED
    BY <2>1, <2>2, <2>3 DEF Points
<1>10. Placed' /\ Present' /\ Started'
  BY <1>1, <1>5, <1>8, <1>9, Zenon DEF Placed, Present, Started
<1>11. QED
  BY <1>1, <1>5, <1>6, <1>7, <1>10 DEF MemoryInv

\* Where the strings are once one more variable is copied.
LEMMA VariableIsCounted ==
    ASSUME LayoutInv, MemoryInv, AtVariable, WellFormed
    PROVE  /\ environment[at + 1] \in Nat \ {0} /\ at + 1 \in 0..Len(environment)
           /\ next + environment[at + 1] <=
                  topOfAux + NameLength + Bytes(arguments, Len(arguments)) + 1 + OsLength
                  + Bytes(environment, at + 1)
           /\ topOfAux <= next + environment[at + 1]
<1> DEFINE bytes == environment[at + 1]
           before == topOfAux + NameLength + Bytes(arguments, Len(arguments)) + 1 + OsLength
<1>1. phase = "environment" /\ at < Len(environment) /\ bytes # 0
  BY DEF AtVariable, WellFormed
<1>2. /\ Numbers /\ at \in 0..Len(environment)
      /\ next <= before + Bytes(environment, at) /\ topOfAux <= next
  BY <1>1 DEF LayoutInv, MemoryInv, Copied
<1>3. /\ topOfAux \in Nat /\ next \in Nat /\ Len(environment) \in Nat /\ before \in Nat
  <2>1. Len(arguments) \in Nat /\ Bytes(arguments, Len(arguments)) \in Nat
    <3>1. Len(arguments) \in Nat
      BY <1>2, StringLengths
    <3>2. Len(arguments) \in 0..Len(arguments)
      BY <3>1
    <3>3. QED
      BY <1>2, <3>1, <3>2, StringLengths, BytesAddUp
  <2>2. /\ topOfAux \in Nat /\ next \in Nat
        /\ Len(environment) \in Nat /\ NameLength \in Nat /\ OsLength \in Nat
    BY <1>2, Sides, StringLengths DEF Numbers
  <2>3. QED
    BY <2>1, <2>2
<1>4. bytes \in Nat \ {0} /\ at + 1 \in 0..Len(environment)
  <2>1. at + 1 \in 1..Len(environment) /\ at + 1 \in 0..Len(environment)
    BY <1>1, <1>2, <1>3
  <2>2. QED
    BY <1>1, <1>2, <2>1, StringLengths
<1>5. /\ Bytes(environment, at + 1) = Bytes(environment, at) + bytes
      /\ Bytes(environment, at) \in Nat
  <2>1. at \in 0..(Len(environment) - 1) /\ at \in 0..Len(environment)
    BY <1>1, <1>2, <1>3
  <2>2. QED
    BY <1>2, <2>1, StringLengths, BytesAddUp
<1> HIDE DEF bytes, before
<1>6. next + bytes <= before + Bytes(environment, at + 1) /\ topOfAux <= next + bytes
  BY <1>2, <1>3, <1>4, <1>5
<1>7. QED
  BY <1>4, <1>6 DEF bytes, before

LEMMA CopyVariableMemoryInv ==
    ASSUME LayoutInv, MemoryInv, CopyVariable PROVE MemoryInv'
<1> DEFINE bytes == environment[at + 1]
           cell == Cell(next, bytes, "variable", at + 1)
<1>1. /\ phase = "environment" /\ phase' = "environment" /\ at' = at + 1
      /\ UNCHANGED <<inputs, extent, layout>> /\ sp' = sp /\ o0' = o0 /\ argv' = argv
      /\ memory' = Written({cell}) /\ next' = next + bytes
      /\ env' = Append(env, base + next) /\ Len(env) # MaxArgs
  BY DEF CopyVariable, AtVariable, Full, CopyString
<1>2. /\ Numbers /\ LaidOut /\ LaidOut'
      /\ at \in 0..Len(environment) /\ Len(env) = at + 1 /\ Len(env) <= MaxArgs
      /\ Len(argv) = IF Len(arguments) < MaxArgs THEN Len(arguments) + 1 ELSE MaxArgs
      /\ Points(argv, base, memory, "argument")
      /\ Points(env, base, memory, "variable")
  BY <1>1 DEF LayoutInv, MemoryInv, LaidOut, Copied, Present
<1>3. base \in Nat /\ next \in Nat /\ env \in Seq(Nat) /\ MaxArgs \in Nat
  BY <1>2, Sides, StringLengths DEF Numbers
<1>4. /\ bytes \in Nat \ {0} /\ at + 1 \in 0..Len(environment)
      /\ next + bytes <= topOfAux + NameLength + Bytes(arguments, Len(arguments)) + 1 + OsLength
                          + Bytes(environment, at + 1)
      /\ topOfAux <= next + bytes
  BY VariableIsCounted DEF CopyVariable
<1> HIDE DEF bytes
<1>5. /\ Apart' /\ memory' = memory \cup {cell}
      /\ \A c \in memory' : IsImage(c)' \/ IsLowest(c)' \/ IsString(c)'
      /\ \A i \in DOMAIN headers' : IsSegment(headers'[i]) => SegmentCell(i)' \in memory'
  <2>1. next <= next
    BY <1>3
  <2>2. QED
    BY <1>1, <1>3, <1>4, <2>1, CopiesAString
<1>6. ImageFits' /\ Roomy' /\ Values'
  BY <1>1, <1>2, UnmovedParts DEF MemoryInv, Values
<1>7. Copied'
  <2>1. Len(Append(env, base + next)) = (at + 1) + 1 /\ (at + 1) + 1 <= MaxArgs
    BY <1>1, <1>2, <1>3
  <2>2. Len(env') = at' + 1 /\ Len(env') <= MaxArgs
    BY <1>1, <2>1, Zenon
  <2>3. /\ next' <= topOfAux' + NameLength + Bytes(arguments', Len(arguments')) + 1 + OsLength
                    + Bytes(environment', at')
        /\ topOfAux' <= next'
    BY <1>1, <1>4, Unmoved, Zenon
  <2>4. at' \in 0..Len(environment')
    BY <1>1, <1>4, Unmoved, Zenon
  <2>5. Len(argv') = IF Len(arguments') < MaxArgs THEN Len(arguments') + 1 ELSE MaxArgs
    BY <1>1, <1>2, Unmoved, Zenon
  <2>6. QED
    BY <1>1, <2>2, <2>3, <2>4, <2>5 DEF Copied
<1>8. Points(argv', base', memory', "argument")
  <2>1. Points(argv, base, memory', "argument")
    BY <1>2, <1>5 DEF Points
  <2>2. QED
    BY <1>1, <2>1, Unmoved, Zenon
<1>9. Points(env', base', memory', "variable")
  <2>1. Points(Append(env, base + next), base, memory', "variable")
    <3>1. PICK n, more : n = at + 1 /\ more = memory'
      OBVIOUS
    <3>2. n = Len(env) /\ more = memory \cup {Cell(next, bytes, "variable", n)}
      BY <1>2, <1>5, <3>1, Zenon DEF cell
    <3> HIDE DEF cell
    <3>3. Points(Append(env, base + next), base, more, "variable")
      BY <1>2, <1>3, <3>2, PointsAtIt
    <3>4. QED
      BY <3>1, <3>3, Zenon
  <2>2. QED
    BY <1>1, <2>1, Unmoved, Zenon
<1>10. Placed' /\ Present' /\ Started'
  BY <1>1, <1>5, <1>8, <1>9, Zenon DEF Placed, Present, Started
<1>11. QED
  BY <1>1, <1>5, <1>6, <1>7, <1>10 DEF MemoryInv

\* The string is copied when its pointer has no place.
LEMMA CopyVariablePastArrayMemoryInv ==
    ASSUME LayoutInv, MemoryInv, CopyVariablePastArray PROVE MemoryInv'
<1> DEFINE bytes == environment[at + 1]
           cell == Cell(next, bytes, "variable", at + 1)
<1>1. /\ phase = "environment" /\ phase' = "overrun" /\ at' = at + 1
      /\ UNCHANGED <<inputs, extent, layout>> /\ sp' = sp /\ o0' = o0
      /\ memory' = Written({cell}) /\ next' = next + bytes
  BY DEF CopyVariablePastArray, AtVariable, CopyString
<1>2. Numbers /\ LaidOut /\ LaidOut' /\ next \in Nat
  BY <1>1 DEF LayoutInv, LaidOut, Numbers
<1>3. /\ bytes \in Nat \ {0} /\ at + 1 \in 0..Len(environment)
      /\ next + bytes <= topOfAux + NameLength + Bytes(arguments, Len(arguments)) + 1 + OsLength
                          + Bytes(environment, at + 1)
      /\ topOfAux <= next + bytes
  BY VariableIsCounted DEF CopyVariablePastArray
<1> HIDE DEF bytes
<1>4. Apart' /\ \A c \in memory' : IsImage(c)' \/ IsLowest(c)' \/ IsString(c)'
  <2>1. next <= next
    BY <1>2
  <2>2. QED
    BY <1>1, <1>2, <1>3, <2>1, CopiesAString
<1>5. ImageFits' /\ Roomy' /\ Values'
  BY <1>1, <1>2, UnmovedParts DEF MemoryInv, Values
<1>6. Copied'
  <2>1. /\ next' <= topOfAux' + NameLength + Bytes(arguments', Len(arguments')) + 1 + OsLength
                    + Bytes(environment', at')
        /\ topOfAux' <= next' /\ at' \in 0..Len(environment')
    BY <1>1, <1>3, Unmoved, Zenon
  <2>2. QED
    BY <1>1, <2>1 DEF Copied
<1>7. Placed' /\ Present' /\ Started'
  BY <1>1, <1>4, Zenon DEF Placed, Present, Started
<1>8. QED
  BY <1>1, <1>4, <1>5, <1>6, <1>7 DEF MemoryInv

LEMMA RefuseVariableMemoryInv ==
    ASSUME LayoutInv, MemoryInv, RefuseVariable PROVE MemoryInv'
<1>1. /\ phase = "environment" /\ phase' = "usage" /\ at' = at /\ memory' = memory
      /\ UNCHANGED <<inputs, extent, layout>> /\ sp' = sp /\ o0' = o0 /\ next' = next
  BY DEF RefuseVariable, AtVariable, strings
<1>2. /\ Numbers /\ LaidOut /\ LaidOut' /\ Apart
      /\ \A c \in memory : IsImage(c) \/ IsLowest(c) \/ IsString(c)
  BY <1>1 DEF LayoutInv, MemoryInv, LaidOut, Placed
<1>3. ImageFits' /\ Roomy' /\ Values'
  BY <1>1, <1>2, UnmovedParts DEF MemoryInv, Values
<1>4. \A c \in memory' : IsImage(c)' \/ IsLowest(c)' \/ IsString(c)'
  <2>1. \A c : IsString(c)' <=> IsString(c)
    BY <1>1, Unmoved, Zenon DEF IsString
  <2>2. QED
    BY <1>1, <1>2, <2>1, Unmoved, Zenon
<1>5. Copied'
  <2>1. /\ at \in 0..Len(environment) /\ topOfAux <= next
        /\ next <= topOfAux + NameLength + Bytes(arguments, Len(arguments)) + 1 + OsLength
                   + Bytes(environment, at)
    BY <1>1 DEF MemoryInv, Copied
  <2>2. /\ next' <= topOfAux' + NameLength + Bytes(arguments', Len(arguments')) + 1 + OsLength
                    + Bytes(environment', at')
        /\ topOfAux' <= next' /\ at' \in 0..Len(environment')
    BY <1>1, <2>1, Unmoved, Zenon
  <2>3. QED
    BY <1>1, <2>2 DEF Copied
<1>6. Placed' /\ Apart' /\ Present' /\ Started'
  BY <1>1, <1>2, <1>4, Zenon DEF Placed, Apart, Overlap, Present, Started
<1>7. QED
  BY <1>1, <1>3, <1>5, <1>6 DEF MemoryInv
-----------------------------------------------------------------------------
(* The stack *)

\* Words one after the other.
LEMMA WordsAreThese ==
    ASSUME NEW first \in Nat, NEW n \in Nat, NEW values, DOMAIN values = 1..n,
           NEW c \in Words(first, values)
    PROVE  \E i \in 1..n :
               /\ c = Cell(first + 4 * (i - 1), 4, "word", values[i])
               /\ c.kind = "word" /\ c.first = first + 4 * (i - 1)
               /\ c.past = (first + 4 * (i - 1)) + 4 /\ c.value = values[i]
<1>1. PICK i \in 1..n : c = Cell(first + 4 * (i - 1), 4, "word", values[i])
  BY DEF Words
<1>2. QED
  BY <1>1, CellParts

LEMMA WordsAreBetween ==
    ASSUME NEW first \in Nat, NEW n \in Nat, NEW values, DOMAIN values = 1..n,
           NEW past, past = first + 4 * n, NEW c \in Words(first, values)
    PROVE  /\ c.kind = "word" /\ c.first \in Nat /\ c.past \in Nat /\ c.past = c.first + 4
           /\ first <= c.first /\ c.past <= past
<1>1. PICK i \in 1..n : /\ c.kind = "word" /\ c.first = first + 4 * (i - 1)
                        /\ c.past = (first + 4 * (i - 1)) + 4
  BY WordsAreThese, SMTT(30)
<1>2. QED
  BY <1>1

LEMMA WordsAreApart ==
    ASSUME NEW first \in Nat, NEW n \in Nat, NEW values, DOMAIN values = 1..n,
           NEW c \in Words(first, values), NEW d \in Words(first, values)
    PROVE  c = d \/ ~Overlap(c, d)
<1>1. PICK i \in 1..n : /\ c = Cell(first + 4 * (i - 1), 4, "word", values[i])
                        /\ c.first = first + 4 * (i - 1) /\ c.past = (first + 4 * (i - 1)) + 4
  BY WordsAreThese
<1>2. PICK j \in 1..n : /\ d = Cell(first + 4 * (j - 1), 4, "word", values[j])
                        /\ d.first = first + 4 * (j - 1) /\ d.past = (first + 4 * (j - 1)) + 4
  BY WordsAreThese
<1>3. CASE i = j
  BY <1>1, <1>2, <1>3
<1>4. CASE i # j
  BY <1>1, <1>2, <1>4 DEF Overlap
<1>5. QED
  BY <1>3, <1>4

LEMMA Joined ==
    ASSUME NEW S, NEW s \in Seq(S), NEW t \in Seq(S)
    PROVE  /\ s \o t \in Seq(S) /\ Len(s \o t) = Len(s) + Len(t)
           /\ Len(s) \in Nat /\ Len(t) \in Nat
           /\ \A i \in 1..Len(s) : (s \o t)[i] = s[i]
           /\ \A i \in 1..Len(t) : (s \o t)[Len(s) + i] = t[i]
<1>1. \A i \in 1..Len(t) : (s \o t)[Len(s) + i] = t[i]
  OBVIOUS
<1>2. QED
  BY <1>1

\* What a program starts with, word by word.
LEMMA StartupParts ==
    ASSUME NEW random, NEW execfn, NEW platform, argv \in Seq(Nat), env \in Seq(Nat)
    PROVE  LET aux == Aux(random, execfn, platform)
               words == Startup(aux)
               args == Len(argv)
               variables == Len(env)
           IN  /\ args \in Nat /\ variables \in Nat
               /\ DOMAIN words = 1..(25 + args + variables)
               /\ words[1] = args
               /\ \A i \in 1..args : words[1 + i] = argv[i]
               /\ words[args + 2] = 0
               /\ \A i \in 1..variables : words[args + 2 + i] = env[i]
               /\ words[args + variables + 3] = 0
               /\ \A i \in 1..22 : words[args + variables + 3 + i] = aux[i]
<1> DEFINE aux == Aux(random, execfn, platform)
           args == Len(argv)
           n == Len(env)
           Contents == Nat \cup {random, execfn, platform, Page}
           a == <<args>>
           b == a \o argv
           c == b \o <<0>>
           d == c \o env
           e == d \o <<0>>
           words == e \o aux
<1>1. args \in Nat /\ n \in Nat
  OBVIOUS
<1>2. aux \in Seq(Contents) /\ Len(aux) = 22
  <2>1. /\ Len(aux) = 22 /\ DOMAIN aux = 1..22
    BY DEF Aux
  <2>2. aux \in Seq(Contents)
    BY DEF Aux, AT_NULL, AT_PAGESZ, AT_PLATFORM, AT_RANDOM, AT_EXECFN
  <2>3. QED
    BY <2>1, <2>2
<1>3. words = Startup(aux)
  BY DEF Startup
<1> HIDE DEF aux
<1>4. a \in Seq(Contents) /\ <<0>> \in Seq(Contents) /\ argv \in Seq(Contents) /\ env \in Seq(Contents)
      /\ Len(a) = 1 /\ a[1] = args /\ Len(<<0>>) = 1 /\ <<0>>[1] = 0
  BY <1>1
<1> HIDE DEF Contents, args, n
<1>5. b \in Seq(Contents) /\ Len(b) = 1 + args /\ b[1] = args /\ \A i \in 1..args : b[1 + i] = argv[i]
  BY <1>1, <1>4 DEF args
<1> HIDE DEF a, b
<1>6. /\ c \in Seq(Contents) /\ Len(c) = 2 + args
      /\ c[1] = args /\ (\A i \in 1..args : c[1 + i] = argv[i]) /\ c[args + 2] = 0
  BY <1>1, <1>4, <1>5
<1> HIDE DEF c
<1>7. /\ d \in Seq(Contents) /\ Len(d) = 2 + args + n
      /\ d[1] = args /\ (\A i \in 1..args : d[1 + i] = argv[i]) /\ d[args + 2] = 0
      /\ \A i \in 1..n : d[args + 2 + i] = env[i]
  <2>1. /\ c \o env \in Seq(Contents) /\ Len(c \o env) = (2 + args) + n
        /\ \A i \in 1..(2 + args) : (c \o env)[i] = c[i]
        /\ \A i \in 1..n : (c \o env)[(2 + args) + i] = env[i]
    <3>1. /\ c \o env \in Seq(Contents) /\ Len(c \o env) = Len(c) + Len(env)
          /\ \A i \in 1..Len(c) : (c \o env)[i] = c[i]
          /\ \A i \in 1..Len(env) : (c \o env)[Len(c) + i] = env[i]
      <4>1. c \in Seq(Contents) /\ env \in Seq(Contents)
        BY <1>4, <1>6
      <4>2. QED
        BY ONLY <4>1, Joined
    <3>2. Len(c) = 2 + args /\ Len(env) = n
      BY <1>6 DEF n
    <3>3. QED
      BY <3>1, <3>2, Zenon
  <2> HIDE DEF d
  <2>2. /\ d \in Seq(Contents) /\ Len(d) = (2 + args) + n
        /\ \A i \in 1..(2 + args) : d[i] = c[i]
        /\ \A i \in 1..n : d[(2 + args) + i] = env[i]
    BY <2>1, Zenon DEF d
  <2>3. \A i \in 1..n : (2 + args) + i = args + 2 + i
    BY <1>1
  <2>4. /\ 1 \in 1..(2 + args) /\ args + 2 \in 1..(2 + args)
        /\ \A i \in 1..args : 1 + i \in 1..(2 + args)
    BY <1>1
  <2>5. QED
    BY <1>6, <2>2, <2>3, <2>4
<1> HIDE DEF d
<1>8. /\ e \in Seq(Contents) /\ Len(e) = 3 + args + n
      /\ e[1] = args /\ (\A i \in 1..args : e[1 + i] = argv[i]) /\ e[args + 2] = 0
      /\ (\A i \in 1..n : e[args + 2 + i] = env[i]) /\ e[args + n + 3] = 0
  BY <1>1, <1>4, <1>7
<1> HIDE DEF e
<1>9. /\ words \in Seq(Contents) /\ Len(words) = 25 + args + n
      /\ words[1] = args /\ (\A i \in 1..args : words[1 + i] = argv[i]) /\ words[args + 2] = 0
      /\ (\A i \in 1..n : words[args + 2 + i] = env[i]) /\ words[args + n + 3] = 0
      /\ \A i \in 1..22 : words[args + n + 3 + i] = aux[i]
  <2> DEFINE long == 3 + args + n
  <2>1. /\ e \o aux \in Seq(Contents) /\ Len(e \o aux) = long + 22
        /\ \A i \in 1..long : (e \o aux)[i] = e[i]
        /\ \A i \in 1..22 : (e \o aux)[long + i] = aux[i]
    <3>1. /\ e \o aux \in Seq(Contents) /\ Len(e \o aux) = Len(e) + Len(aux)
          /\ \A i \in 1..Len(e) : (e \o aux)[i] = e[i]
          /\ \A i \in 1..Len(aux) : (e \o aux)[Len(e) + i] = aux[i]
      <4>1. e \in Seq(Contents) /\ aux \in Seq(Contents)
        BY <1>2, <1>8
      <4>2. QED
        BY ONLY <4>1, Joined
    <3>2. Len(e) = long /\ Len(aux) = 22
      BY <1>2, <1>8
    <3>3. QED
      BY <3>1, <3>2, Zenon
  <2>2. /\ words \in Seq(Contents) /\ Len(words) = long + 22
        /\ \A i \in 1..long : words[i] = e[i]
        /\ \A i \in 1..22 : words[long + i] = aux[i]
    BY <2>1, Zenon
  <2> HIDE DEF words
  <2>3. \A i \in 1..22 : long + i = args + n + 3 + i
    BY <1>1
  <2>4. /\ 1 \in 1..long /\ args + 2 \in 1..long /\ args + n + 3 \in 1..long
        /\ (\A i \in 1..args : 1 + i \in 1..long) /\ (\A i \in 1..n : args + 2 + i \in 1..long)
        /\ long + 22 = 25 + args + n
    BY <1>1
  <2> HIDE DEF long
  <2>5. QED
    BY <1>8, <2>2, <2>3, <2>4
<1>10. DOMAIN words = 1..(25 + args + n)
  <2> HIDE DEF words
  <2>1. QED
    BY <1>1, <1>9
<1>11. QED
  BY <1>1, <1>3, <1>9, <1>10, Zenon DEF aux, args, n
\* The words have room in the stack, below the bytes of AT_RANDOM.
LEMMA StackHasRoom ==
    ASSUME LayoutInv, MemoryInv, phase \in {"environment", "run"},
           phase = "environment" => at = Len(environment)
    PROVE  LET pointers == Len(argv) + Len(env)
               first == topOfAux - 4 * StartupWords(pointers)
           IN  /\ Len(argv) \in Nat /\ Len(env) \in Nat
               /\ first \in Nat /\ bottomOfStack <= first
               /\ first + 4 * (25 + pointers) <= topOfAux - 16
<1> DEFINE pointers == Len(argv) + Len(env)
           words == StartupWords(pointers)
<1>1. Numbers /\ LaidOut /\ Copied
  BY DEF LayoutInv, MemoryInv, LaidOut
<1>2. /\ Len(environment) \in Nat /\ Len(arguments) \in Nat /\ MaxArgs \in Nat \ {0}
  BY <1>1, StringLengths
<1>3. /\ Len(env) = Len(environment) + 1 /\ Len(env) <= MaxArgs
      /\ Len(argv) = IF Len(arguments) < MaxArgs THEN Len(arguments) + 1 ELSE MaxArgs
  BY <1>1 DEF Copied
<1>4. Len(argv) \in Nat /\ Len(env) \in Nat /\ pointers \in Nat /\ pointers <= 2 * MaxArgs
  <2>1. Len(argv) \in Nat /\ Len(argv) <= MaxArgs
    BY <1>2, <1>3
  <2>2. Len(env) \in Nat /\ Len(env) <= MaxArgs
    BY <1>2, <1>3
  <2>3. QED
    BY <1>2, <2>1, <2>2
<1> HIDE DEF pointers
<1>5. words \in Nat /\ 95 + pointers <= words /\ words <= 96 + pointers
  BY <1>4 DEF StartupWords, Filler, AuxWords, AuxRecords
<1>6. StartupWords(2 * MaxArgs) = 96 + 2 * MaxArgs
  BY <1>2 DEF StartupWords, Filler, AuxWords, AuxRecords
<1> HIDE DEF words
<1>7. StackCommit >= 4 * (96 + 2 * MaxArgs) /\ StackCommit \in Nat
  BY <1>6, StackAssumption, CommitsAreNumbers
<1>8. bottomOfStack \in Nat /\ topOfAux \in Nat /\ bottomOfStack + StackCommit = topOfAux
  BY <1>1, Sides
<1>9. /\ topOfAux - 4 * words \in Nat /\ bottomOfStack <= topOfAux - 4 * words
      /\ (topOfAux - 4 * words) + 4 * (25 + pointers) <= topOfAux - 16
  BY <1>2, <1>4, <1>5, <1>7, <1>8
<1>10. QED
  BY <1>4, <1>9 DEF words, pointers

LEMMA BuildStackMemoryInv ==
    ASSUME LayoutInv, LayoutInv', MemoryInv, BuildStack PROVE MemoryInv'
<1> DEFINE execfn == Cell(next, ExecLength, "execfn", 0)
           platform == Cell(execfn.past, PlatformLength, "platform", 0)
           aux == Aux(base + topOfAux - 16, base + execfn.first, base + platform.first)
           pointers == Len(argv) + Len(env)
           first == topOfAux - 4 * StartupWords(pointers)
           last == topOfAux - 16
           random == Words(last, Random)
           startup == Words(first, Startup(aux))
           words == random \cup startup
           cells == {execfn, platform} \cup random \cup startup
<1>1. /\ phase = "environment" /\ phase' = "run" /\ at = Len(environment) /\ at' = at
      /\ UNCHANGED <<inputs, extent, layout>> /\ o0' = o0 /\ argv' = argv /\ env' = env
      /\ memory' = Written(cells) /\ next' = platform.past
      /\ sp' = base + first - 64
  BY DEF BuildStack
<1>2. /\ Numbers /\ ImageFits /\ Apart /\ LaidOut /\ LaidOut' /\ Copied /\ Present
      /\ \A c \in memory : IsImage(c) \/ IsLowest(c) \/ IsString(c)
  BY <1>1 DEF LayoutInv, MemoryInv, LaidOut, Placed
<1>3. /\ base \in Nat /\ endOfData \in Nat /\ bottomOfStack \in Nat /\ topOfAux \in Nat
      /\ next \in Nat /\ endOfData <= bottomOfStack /\ bottomOfStack <= topOfAux
      /\ topOfAux <= next /\ (base = 0 => 4 <= endOfData)
  <2>1. bottomOfStack + StackCommit = topOfAux /\ StackCommit \in Nat
    BY <1>2, Sides, CommitsAreNumbers
  <2>2. /\ base \in Nat /\ endOfData \in Nat /\ bottomOfStack \in Nat /\ topOfAux \in Nat
        /\ next \in Nat /\ endOfData <= bottomOfStack
    BY <1>2, Sides
  <2>3. topOfAux <= next /\ (base = 0 => 4 <= endOfData)
    BY <1>1, <1>2 DEF Copied, ImageFits
  <2>4. QED
    BY <2>1, <2>2, <2>3
<1>4. ExecLength \in Nat \ {0} /\ PlatformLength \in Nat \ {0}
  BY <1>2, StringLengths
<1>5. /\ execfn.first = next /\ execfn.past = next + ExecLength
      /\ execfn.kind = "execfn" /\ execfn.value = 0
      /\ platform.first = next + ExecLength /\ platform.past = (next + ExecLength) + PlatformLength
      /\ platform.kind = "platform" /\ platform.value = 0
  BY CellParts
<1>6. /\ Len(argv) \in Nat /\ Len(env) \in Nat /\ first \in Nat /\ bottomOfStack <= first
      /\ first + 4 * (25 + pointers) <= last
  BY <1>1, StackHasRoom
<1>7. last \in Nat /\ last + 4 * 4 = topOfAux /\ pointers \in Nat
  BY <1>3, <1>6
<1>8. DOMAIN Startup(aux) = 1..(25 + pointers)
  <2> DEFINE lowRandom == base + topOfAux - 16
             lowExecfn == base + execfn.first
             lowPlatform == base + platform.first
  <2>1. argv \in Seq(Nat) /\ env \in Seq(Nat)
    BY <1>2 DEF Numbers
  <2> HIDE DEF lowRandom, lowExecfn, lowPlatform
  <2>2. DOMAIN Startup(Aux(lowRandom, lowExecfn, lowPlatform)) = 1..(25 + Len(argv) + Len(env))
    BY <2>1, StartupParts
  <2>3. 25 + Len(argv) + Len(env) = 25 + pointers
    BY <1>6
  <2>4. QED
    BY <2>2, <2>3, Zenon DEF lowRandom, lowExecfn, lowPlatform
<1>9. DOMAIN Random = 1..4
  BY DEF Random
<1> DEFINE room == 25 + pointers
<1>10. room \in Nat
  BY <1>7
<1> HIDE DEF execfn, platform, aux, first, last, room
<1>11. /\ \A c \in random : /\ c.kind = "word" /\ c.first \in Nat /\ c.past \in Nat
                            /\ c.past = c.first + 4 /\ last <= c.first /\ c.past <= topOfAux
       /\ \A c, d \in random : c = d \/ ~Overlap(c, d)
  <2> DEFINE four == 4
  <2>1. four \in Nat /\ DOMAIN Random = 1..four /\ topOfAux = last + 4 * four
    BY <1>7, <1>9
  <2> HIDE DEF four
  <2>2. ASSUME NEW c \in random
        PROVE  /\ c.kind = "word" /\ c.first \in Nat /\ c.past \in Nat
               /\ c.past = c.first + 4 /\ last <= c.first /\ c.past <= topOfAux
    BY <1>7, <2>1, <2>2, WordsAreBetween
  <2>3. ASSUME NEW c \in random, NEW d \in random PROVE c = d \/ ~Overlap(c, d)
    BY <1>7, <2>1, <2>3, WordsAreApart
  <2>4. QED
    BY <2>2, <2>3
<1>12. /\ \A c \in startup : /\ c.kind = "word" /\ c.first \in Nat /\ c.past \in Nat
                             /\ c.past = c.first + 4 /\ first <= c.first /\ c.past <= last
       /\ \A c, d \in startup : c = d \/ ~Overlap(c, d)
  <2>1. DOMAIN Startup(aux) = 1..room /\ first + 4 * room <= last /\ first \in Nat /\ last \in Nat
    BY <1>6, <1>7, <1>8 DEF room
  <2>2. ASSUME NEW c \in startup
        PROVE  /\ c.kind = "word" /\ c.first \in Nat /\ c.past \in Nat
               /\ c.past = c.first + 4 /\ first <= c.first /\ c.past <= last
    <3>1. PICK past : past = first + 4 * room
      OBVIOUS
    <3>2. /\ c.kind = "word" /\ c.first \in Nat /\ c.past \in Nat
          /\ c.past = c.first + 4 /\ first <= c.first /\ c.past <= past
      BY <1>10, <2>1, <2>2, <3>1, WordsAreBetween
    <3> HIDE DEF startup
    <3>3. QED
      BY <1>10, <2>1, <3>1, <3>2
  <2>3. ASSUME NEW c \in startup, NEW d \in startup PROVE c = d \/ ~Overlap(c, d)
    BY <1>10, <2>1, <2>3, WordsAreApart
  <2>4. QED
    BY <2>2, <2>3
<1>13. \A c : c \in cells <=> c = execfn \/ c = platform \/ c \in random \/ c \in startup
  OBVIOUS
<1>14. words \subseteq cells /\ execfn \in cells /\ platform \in cells
       /\ \A c : c \in words <=> c \in random \/ c \in startup
  OBVIOUS
<1> HIDE DEF random, startup, words, cells
<1>15. \A c, d \in cells : c = d \/ ~Overlap(c, d)
  <2>1. ~Overlap(execfn, platform) /\ ~Overlap(platform, execfn)
    BY <1>3, <1>4, <1>5 DEF Overlap
  <2>2. ASSUME NEW c \in words
        PROVE  /\ ~Overlap(c, execfn) /\ ~Overlap(execfn, c)
               /\ ~Overlap(c, platform) /\ ~Overlap(platform, c)
    <3>1. c.first \in Nat /\ c.past \in Nat /\ c.past <= topOfAux
      BY <1>3, <1>7, <1>11, <1>12, <1>14
    <3>2. QED
      BY <1>3, <1>4, <1>5, <3>1 DEF Overlap
  <2>3. ASSUME NEW c \in random, NEW d \in startup
        PROVE  ~Overlap(c, d) /\ ~Overlap(d, c)
    BY <1>7, <1>11, <1>12 DEF Overlap
  <2>4. QED
    BY <1>11, <1>12, <1>13, <1>14, <2>1, <2>2, <2>3
<1>16. \A c \in memory, d \in cells : ~Overlap(c, d)
  <2> SUFFICES ASSUME NEW c \in memory, NEW d \in cells PROVE ~Overlap(c, d)
    OBVIOUS
  <2>1. c.first \in Nat /\ c.past \in Nat /\ c.first < c.past /\ c.past <= next
    BY <1>1, WrittenBelow
  <2>2. c.past <= endOfData \/ topOfAux <= c.first
    <3>1. IsImage(c) => c.past <= endOfData
      BY <1>2, ImageCells
    <3>2. IsLowest(c) => c.past <= endOfData
      BY <1>3, LowestCell
    <3>3. QED
      BY <1>2, <3>1, <3>2 DEF IsString
  <2>3. CASE d \in words
    <3>1. d.first \in Nat /\ d.past \in Nat /\ bottomOfStack <= d.first /\ d.past <= topOfAux
      BY <1>3, <1>6, <1>7, <1>11, <1>12, <1>14, <2>3
    <3>2. QED
      BY <1>3, <2>1, <2>2, <3>1 DEF Overlap
  <2>4. CASE d = execfn \/ d = platform
    BY <1>3, <1>4, <1>5, <2>1, <2>4 DEF Overlap
  <2>5. QED
    BY <1>13, <1>14, <2>3, <2>4
<1>17. /\ Apart' /\ cells \subseteq memory' /\ memory' \subseteq memory \cup cells
       /\ memory \subseteq memory'
  <2>1. /\ Apart' /\ cells \subseteq memory' /\ memory' \subseteq memory \cup cells
        /\ \A c \in memory : (\A d \in cells : ~Overlap(c, d)) => c \in memory'
    BY <1>1, <1>2, <1>15, WrittenCells
  <2>2. QED
    BY <1>16, <2>1
<1>18. ImageFits' /\ Roomy' /\ Values'
  <2>1. sp' \in Int /\ o0' \in Nat
    <3>1. base + first - 64 \in Int
      BY <1>3, <1>6
    <3>2. QED
      BY <1>1, <3>1 DEF MemoryInv, Values
  <2>2. QED
    BY <1>1, <1>2, <2>1, UnmovedParts
<1>19. platform.past \in Nat /\ next <= platform.past
  BY <1>3, <1>4, <1>5
<1>20. Copied'
  <2> DEFINE before == topOfAux + NameLength + Bytes(arguments, Len(arguments)) + 1 + OsLength
             more == Bytes(environment, Len(environment))
  <2>1. /\ Len(env) = Len(environment) + 1 /\ Len(env) <= MaxArgs /\ next <= before + more
        /\ Len(argv) = IF Len(arguments) < MaxArgs THEN Len(arguments) + 1 ELSE MaxArgs
    BY <1>1, <1>2 DEF Copied
  <2>2. /\ Len(arguments) \in Nat /\ Len(environment) \in Nat
        /\ Bytes(arguments, Len(arguments)) \in Nat /\ more \in Nat
    <3>1. Len(arguments) \in Nat /\ Len(environment) \in Nat
      BY <1>2, StringLengths
    <3>2. Len(arguments) \in 0..Len(arguments) /\ Len(environment) \in 0..Len(environment)
      BY <3>1
    <3>3. QED
      BY <1>2, <3>1, <3>2, StringLengths, BytesAddUp
  <2>3. platform.past <= topOfAux + StringBytes
    <3>1. NameLength \in Nat /\ OsLength \in Nat
      BY <1>2, StringLengths
    <3> DEFINE some == Bytes(arguments, Len(arguments))
    <3>2. /\ next <= topOfAux + NameLength + some + 1 + OsLength + more
          /\ StringBytes = NameLength + some + 1 + OsLength + more + ExecLength + PlatformLength
          /\ some \in Nat /\ more \in Nat
      BY <2>1, <2>2 DEF StringBytes
    <3> HIDE DEF some, more
    <3>3. QED
      BY <1>3, <1>4, <1>5, <3>1, <3>2
  <2>4. next' <= topOfAux' + StringBytes'
    <3>1. StringBytes' = StringBytes
      BY <1>1, Unmoved, Zenon DEF StringBytes
    <3>2. QED
      BY <1>1, <2>3, <3>1, Unmoved, Zenon
  <2>5. /\ Len(env') = Len(environment') + 1 /\ Len(env') <= MaxArgs
        /\ Len(argv') = IF Len(arguments') < MaxArgs THEN Len(arguments') + 1 ELSE MaxArgs
    BY <1>1, <2>1, Unmoved, Zenon
  <2>6. topOfAux' <= next'
    <3>1. topOfAux <= platform.past
      BY <1>3, <1>19
    <3>2. QED
      BY <1>1, <3>1, Unmoved, Zenon
  <2>7. QED
    BY <1>1, <2>4, <2>5, <2>6 DEF Copied
<1>21. \A c \in memory' : IsImage(c)' \/ IsLowest(c)' \/ IsString(c)' \/ IsStack(c)'
  <2> SUFFICES ASSUME NEW c \in memory'
               PROVE  IsImage(c)' \/ IsLowest(c)' \/ IsString(c)' \/ IsStack(c)'
    OBVIOUS
  <2>1. ASSUME c.kind \in {"argument", "variable", "execfn", "platform"},
               c.first \in Nat, c.past \in Nat,
               topOfAux <= c.first, c.first < c.past, c.past <= platform.past
        PROVE  IsString(c)'
    <3>1. topOfAux' <= c.first /\ c.past <= next'
      BY <1>1, <2>1, Unmoved, Zenon
    <3>2. QED
      BY <2>1, <3>1, Zenon DEF IsString
  <2>2. CASE c \in memory
    <3>1. IsString(c) => IsString(c)'
      <4> SUFFICES ASSUME IsString(c) PROVE IsString(c)'
        OBVIOUS
      <4>1. /\ c.kind \in {"argument", "variable", "execfn", "platform"}
            /\ c.first \in Nat /\ c.past \in Nat
            /\ topOfAux <= c.first /\ c.first < c.past /\ c.past <= next
        BY DEF IsString
      <4>2. c.past <= platform.past
        BY <1>3, <1>19, <4>1
      <4>3. QED
        BY <2>1, <4>1, <4>2
    <3>2. QED
      BY <1>1, <1>2, <2>2, <3>1, Unmoved, Zenon
  <2>3. CASE c = execfn \/ c = platform
    <3>1. /\ c.kind \in {"argument", "variable", "execfn", "platform"}
          /\ c.first \in Nat /\ c.past \in Nat
          /\ topOfAux <= c.first /\ c.first < c.past /\ c.past <= platform.past
      BY <1>3, <1>4, <1>5, <2>3
    <3>2. QED
      BY <2>1, <3>1
  <2>4. CASE c \in words
    <3>1. /\ c.kind = "word" /\ c.first \in Nat /\ c.past = c.first + 4
          /\ bottomOfStack <= c.first /\ c.past <= topOfAux
      BY <1>3, <1>6, <1>7, <1>11, <1>12, <1>14, <2>4
    <3>2. bottomOfStack' <= c.first /\ c.past <= topOfAux'
      BY <1>1, <3>1, Unmoved, Zenon
    <3>3. QED
      BY <3>1, <3>2, Zenon DEF IsStack
  <2>5. QED
    BY <1>13, <1>14, <1>17, <2>2, <2>3, <2>4
<1>22. Present'
  <2>1. /\ \A i \in DOMAIN headers : IsSegment(headers[i]) => SegmentCell(i) \in memory'
        /\ Points(argv, base, memory', "argument") /\ Points(env, base, memory', "variable")
    BY <1>1, <1>2, <1>17 DEF Present, Points
  <2>2. QED
    BY <1>1, <2>1, Unmoved, Zenon DEF Present
<1>23. PICK x, y : x = execfn /\ y = platform
  OBVIOUS
<1>24. StackHolds(x, y)'
  <2>1. /\ words \subseteq memory' /\ execfn \in memory' /\ platform \in memory'
        /\ \A c \in memory' : c.kind = "word" => c \in words \/ IsLowest(c)
    <3>1. ASSUME NEW c \in memory', c.kind = "word" PROVE c \in words \/ IsLowest(c)
      <4>1. CASE c \in memory
        <5>1. ~IsImage(c) /\ ~IsString(c)
          BY <1>2, <3>1, ImageCells DEF IsString
        <5>2. QED
          BY <1>2, <4>1, <5>1
      <4>2. QED
        BY <1>5, <1>13, <1>14, <1>17, <3>1, <4>1
    <3>2. QED
      BY <1>14, <1>17, <3>1
  <2>2. \A c \in memory' : c.kind = "word" => c \in words \/ IsLowest(c)'
    BY <1>1, <2>1, Unmoved, Zenon
  <2>3. words = Words(topOfAux - 16, Random) \cup
                Words(topOfAux - 4 * StartupWords(Len(argv) + Len(env)),
                      Startup(Aux(base + topOfAux - 16, base + x.first, base + y.first)))
    BY <1>23, Zenon DEF words, random, startup, first, last, aux
  <2>4. PICK all : all = words
    OBVIOUS
  <2>5. all = (Words(topOfAux - 16, Random) \cup
               Words(topOfAux - 4 * StartupWords(Len(argv) + Len(env)),
                     Startup(Aux(base + topOfAux - 16, base + x.first, base + y.first))))'
    BY <1>1, <2>3, <2>4, Unmoved, Zenon DEF Startup
  <2>6. /\ all \subseteq memory' /\ x \in memory' /\ y \in memory'
        /\ x.kind = "execfn" /\ x.value = 0 /\ y.kind = "platform" /\ y.value = 0
        /\ \A c \in memory' : c.kind = "word" => c \in all \/ IsLowest(c)'
    BY <1>5, <1>23, <2>1, <2>2, <2>4, Zenon
  <2>7. QED
    BY <2>5, <2>6, Zenon DEF StackHolds
<1>25. Placed' /\ Started'
  <2>1. x \in memory' /\ y \in memory'
    BY <1>14, <1>17, <1>23
  <2>2. Started'
    BY <1>24, <2>1, Zenon DEF Started
  <2>3. Placed'
    BY <1>1, <1>21, Zenon DEF Placed
  <2>4. QED
    BY <2>2, <2>3
<1>26. QED
  BY <1>1, <1>17, <1>18, <1>20, <1>22, <1>25 DEF MemoryInv
-----------------------------------------------------------------------------
(* brk, and all steps *)

LEMMA BrkMemoryInv ==
    ASSUME LayoutInv, MemoryInv, NEW ask \in Ask, SYS_brk(ask) PROVE MemoryInv'
<1>1. /\ UNCHANGED <<phase, inputs, at, extent, layout, memory, strings, sp>>
      /\ phase = "run" /\ (o0' = ask \/ o0' = base + brk)
  BY DEF SYS_brk
<1>2. o0' \in Nat
  <2>1. ask \in Nat /\ base + brk \in Nat
    BY CommitAssumption, SizeAssumption DEF LayoutInv, Numbers
  <2>2. QED
    BY <1>1, <2>1
<1>3. /\ phase' = phase /\ at' = at /\ memory' = memory /\ next' = next /\ argv' = argv /\ env' = env
      /\ sp' = sp /\ headers' = headers /\ arguments' = arguments /\ environment' = environment
      /\ base' = base /\ elfBase' = elfBase /\ endOfData' = endOfData
      /\ bottomOfStack' = bottomOfStack /\ topOfAux' = topOfAux /\ mmapOffset' = mmapOffset
  BY <1>1, Unmoved DEF strings
<1>4. /\ \A c : IsImage(c)' <=> IsImage(c)
      /\ \A c : IsLowest(c)' <=> IsLowest(c)
      /\ \A c : IsString(c)' <=> IsString(c)
      /\ \A c : IsStack(c)' <=> IsStack(c)
      /\ \A i : SegmentCell(i)' = SegmentCell(i)
  BY <1>3, Zenon DEF IsImage, IsLowest, IsString, IsStack, SegmentCell
<1>5. Placed' /\ Apart' /\ Present'
  BY <1>3, <1>4, Zenon DEF MemoryInv, Placed, Apart, Present
<1>6. Started'
  <2>1. PICK x \in memory, y \in memory : StackHolds(x, y)
    BY <1>1 DEF MemoryInv, Started
  <2>2. StackHolds(x, y)'
    BY <1>3, <1>4, <2>1, Zenon DEF StackHolds, Startup
  <2>3. QED
    BY <1>3, <2>2, Zenon DEF Started
<1>7. ImageFits' /\ Roomy' /\ Copied'
  BY <1>3, Zenon DEF MemoryInv, ImageFits, Roomy, Copied, LaidOut, StringBytes
<1>8. Values'
  BY <1>2, <1>3 DEF MemoryInv, Values
<1>9. QED
  BY <1>1, <1>3, <1>5, <1>6, <1>7, <1>8 DEF MemoryInv

LEMMA StutterMemoryInv ==
    ASSUME MemoryInv, UNCHANGED vars PROVE MemoryInv'
<1>1. /\ phase' = phase /\ at' = at /\ memory' = memory /\ next' = next /\ argv' = argv /\ env' = env
      /\ sp' = sp /\ o0' = o0 /\ size' = size
      /\ headers' = headers /\ arguments' = arguments /\ environment' = environment
      /\ base' = base /\ elfBase' = elfBase /\ endOfData' = endOfData
      /\ bottomOfStack' = bottomOfStack /\ topOfAux' = topOfAux /\ mmapOffset' = mmapOffset
  BY DEF vars, inputs, extent, layout, strings
<1>2. /\ \A c : IsImage(c)' <=> IsImage(c)
      /\ \A c : IsLowest(c)' <=> IsLowest(c)
      /\ \A c : IsString(c)' <=> IsString(c)
      /\ \A c : IsStack(c)' <=> IsStack(c)
      /\ \A i : SegmentCell(i)' = SegmentCell(i)
  BY <1>1, Zenon DEF IsImage, IsLowest, IsString, IsStack, SegmentCell
<1>3. Placed' /\ Apart' /\ Present'
  BY <1>1, <1>2, Zenon DEF MemoryInv, Placed, Apart, Present
<1>4. Started'
  <2>1. phase = "run" => \E x, y \in memory : StackHolds(x, y)
    BY DEF MemoryInv, Started
  <2>2. \A x, y : StackHolds(x, y) => StackHolds(x, y)'
    BY <1>1, <1>2, Zenon DEF StackHolds, Startup
  <2>3. QED
    BY <1>1, <2>1, <2>2, Zenon DEF Started
<1>5. ImageFits' /\ Roomy' /\ Copied' /\ Values'
  BY <1>1, Zenon DEF MemoryInv, ImageFits, Roomy, Copied, LaidOut, StringBytes, Values
<1>6. phase' = "scan" => Scanned'
  BY <1>1, Zenon DEF MemoryInv, Scanned
<1>7. QED
  BY <1>3, <1>4, <1>5, <1>6 DEF MemoryInv

LEMMA NextMemoryInv == LayoutInv /\ LayoutInv' /\ MemoryInv /\ [Next]_vars => MemoryInv'
<1> SUFFICES ASSUME LayoutInv, LayoutInv', MemoryInv, [Next]_vars PROVE MemoryInv'
  OBVIOUS
<1>1. CASE UNCHANGED vars
  BY <1>1, StutterMemoryInv
<1>2. CASE Next
  BY <1>2, ScanHeaderMemoryInv, LayOutMemoryInv, ReadSegmentMemoryInv, CopyNameMemoryInv,
     CopyArgumentMemoryInv, CopyOsMemoryInv, CopyVariableMemoryInv, RefuseVariableMemoryInv,
     CopyVariablePastArrayMemoryInv, BuildStackMemoryInv, BrkMemoryInv DEF Next
<1>3. QED
  BY <1>1, <1>2

LEMMA MemoryInvAlways == Spec => []MemoryInv
  BY InitMemoryInv, NextMemoryInv, LayoutInvAlways, PTL DEF Spec

-----------------------------------------------------------------------------
\* For every file a linker makes and every command line, each thing the
\* loader writes lies in the part of the memory that is set aside for it.
THEOREM RegionsAreAlwaysApart == Spec => []RegionsAreApart
<1>1. LayoutInv /\ MemoryInv => RegionsAreApart
  <2> SUFFICES ASSUME LayoutInv, MemoryInv PROVE RegionsAreApart
    OBVIOUS
  <2>1. Numbers /\ Values /\ ImageFits /\ Roomy /\ Copied /\ Placed
    BY DEF LayoutInv, MemoryInv
  <2>2. ASSUME NEW c \in memory
        PROVE  /\ c.first \in Nat /\ c.past \in Nat /\ LaidOut
               /\ \/ Between(c, 0, endOfData) /\ c.kind \in {"segment", "word"}
                  \/ Between(c, bottomOfStack, topOfAux) /\ c.kind = "word"
                  \/ /\ c.first >= topOfAux
                     /\ c.kind \in {"argument", "variable", "execfn", "platform"}
                     /\ c.past <= mmapOffset \/ StringBytes > ArgCommit
    <3>1. LaidOut /\ (IsImage(c) \/ IsLowest(c) \/ IsString(c) \/ (phase = "run" /\ IsStack(c)))
      BY <2>1, <2>2 DEF Placed, LaidOut, Numbers
    <3>2. /\ topOfAux \in Nat /\ mmapOffset \in Nat /\ next \in Nat /\ ArgCommit \in Nat
          /\ bottomOfStack \in Nat
      BY <2>1, CommitsAreNumbers DEF Numbers
    <3>3. CASE IsImage(c)
      <4>1. c.first \in Nat /\ c.past \in Nat /\ c.past <= endOfData /\ c.kind = "segment"
        BY <2>1, <3>1, <3>3, ImageCells
      <4>2. QED
        BY <3>1, <4>1 DEF Between
    <3>4. CASE IsLowest(c)
      <4>1. base = 0 /\ c.first = 0 /\ c.past = 4 /\ c.kind = "word"
        BY <3>4, LowestCell
      <4>2. 4 <= endOfData
        BY <2>1, <3>1, <4>1 DEF ImageFits
      <4>3. QED
        BY <3>1, <4>1, <4>2 DEF Between
    <3>5. CASE IsStack(c)
      BY <3>1, <3>5 DEF IsStack, Between
    <3>6. CASE IsString(c)
      <4>1. /\ c.kind \in {"argument", "variable", "execfn", "platform"}
            /\ c.first \in Nat /\ c.past \in Nat
            /\ topOfAux <= c.first /\ c.past <= next
        BY <3>6 DEF IsString
      <4>2. /\ phase \in {"arguments", "environment", "usage", "overrun", "run"}
            /\ topOfAux + ArgCommit <= mmapOffset
        <5>1. ~IsImage(c) /\ ~IsLowest(c) /\ ~IsStack(c)
          BY <2>1, <3>1, <4>1, ImageCells, LowestCell DEF IsStack
        <5>2. QED
          BY <2>1, <2>2, <3>1, <5>1 DEF Roomy, Placed, LaidOut, Numbers
      <4>3. next <= topOfAux + StringBytes /\ StringBytes \in Nat
        <5> DEFINE args(n) == Bytes(arguments, n)
                   variables(n) == Bytes(environment, n)
                   allArgs == args(Len(arguments))
                   allVars == variables(Len(environment))
        <5>1. /\ Len(arguments) \in Nat /\ Len(environment) \in Nat
              /\ NameLength \in Nat /\ OsLength \in Nat /\ ExecLength \in Nat /\ PlatformLength \in Nat
              /\ arguments \in Seq(Nat) /\ environment \in Seq(Nat)
          BY <2>1, StringLengths
        <5>2. /\ allArgs \in Nat /\ allVars \in Nat
              /\ phase = "arguments" => args(at) \in Nat /\ args(at) <= allArgs
              /\ phase \in {"environment", "usage", "overrun"} =>
                     variables(at) \in Nat /\ variables(at) <= allVars
          <6>1. Len(arguments) \in 0..Len(arguments) /\ Len(environment) \in 0..Len(environment)
            BY <5>1
          <6>2. /\ phase = "arguments" => at \in 0..Len(arguments)
                /\ phase \in {"environment", "usage", "overrun"} => at \in 0..Len(environment)
            BY <2>1 DEF Copied
          <6>3. QED
            BY <5>1, <6>1, <6>2, BytesAddUp
        <5>3. /\ phase = "arguments" => next = topOfAux + NameLength + args(at)
              /\ phase \in {"environment", "usage", "overrun"} =>
                     next <= topOfAux + NameLength + allArgs + 1 + OsLength + variables(at)
              /\ phase = "run" => next <= topOfAux + StringBytes
          BY <2>1 DEF Copied
        <5>4. StringBytes = NameLength + allArgs + 1 + OsLength + allVars + ExecLength + PlatformLength
          BY DEF StringBytes
        <5> HIDE DEF args, variables, allArgs, allVars
        <5>5. QED
          BY <3>2, <4>2, <5>1, <5>2, <5>3, <5>4
      <4>4. c.past <= mmapOffset \/ StringBytes > ArgCommit
        BY <3>2, <4>1, <4>2, <4>3
      <4>5. QED
        BY <3>1, <3>2, <4>1, <4>4
    <3>7. QED
      BY <3>1, <3>3, <3>4, <3>5, <3>6
  <2>3. TypeOK
    BY <2>1, <2>2 DEF TypeOK, Numbers, Values
  <2>4. QED
    BY <2>2, <2>3, Zenon DEF RegionsAreApart
<1>2. QED
  BY <1>1, LayoutInvAlways, MemoryInvAlways, PTL

\* For every file a linker makes and every command line, what the loader has
\* written is all there when the program starts, and while it runs.
THEOREM NothingIsEverOverwritten == Spec => []NothingIsOverwritten
<1>1. MemoryInv => NothingIsOverwritten
  <2> SUFFICES ASSUME MemoryInv, phase = "run" PROVE NothingIsOverwritten
    BY DEF NothingIsOverwritten
  <2>1. /\ \A i \in DOMAIN headers : IsSegment(headers[i]) => SegmentCell(i) \in memory
        /\ Points(argv, base, memory, "argument") /\ Points(env, base, memory, "variable")
    BY DEF MemoryInv, Present
  <2>2. QED
    BY <2>1, Zenon DEF NothingIsOverwritten, SegmentCell, Points
<1>2. QED
  BY <1>1, MemoryInvAlways, PTL
-----------------------------------------------------------------------------
(* What the program finds on its stack *)

LEMMA WordsAreFourBytes ==
    ASSUME LayoutInv, MemoryInv, phase = "run", NEW c \in memory, c.kind = "word"
    PROVE  c.first \in Nat /\ c.past = c.first + 4
<1>1. Numbers /\ Placed /\ ImageFits /\ LaidOut
  BY DEF LayoutInv, MemoryInv, LaidOut
<1>2. IsImage(c) \/ IsLowest(c) \/ IsString(c) \/ IsStack(c)
  BY <1>1 DEF Placed
<1>3. CASE IsImage(c)
  BY <1>1, <1>3, ImageCells
<1>4. CASE IsLowest(c)
  BY <1>4, LowestCell
<1>5. CASE IsString(c) \/ IsStack(c)
  BY <1>5 DEF IsString, IsStack
<1>6. QED
  BY <1>2, <1>3, <1>4, <1>5

LEMMA OthersAreNotEmpty ==
    ASSUME LayoutInv, MemoryInv, phase = "run", NEW c \in memory, c.kind # "word"
    PROVE  c.first \in Nat /\ c.past \in Nat /\ c.first < c.past
<1>1. Numbers /\ Placed /\ ImageFits /\ LaidOut
  BY DEF LayoutInv, MemoryInv, LaidOut
<1>2. IsImage(c) \/ IsLowest(c) \/ IsString(c) \/ IsStack(c)
  BY <1>1 DEF Placed
<1>3. CASE IsImage(c)
  BY <1>1, <1>3, ImageCells
<1>4. CASE IsLowest(c)
  BY <1>4, LowestCell
<1>5. CASE IsString(c) \/ IsStack(c)
  BY <1>5 DEF IsString, IsStack
<1>6. QED
  BY <1>2, <1>3, <1>4, <1>5

LEMMA WordIs ==
    ASSUME LayoutInv, MemoryInv, phase = "run",
           NEW c \in memory, c.kind = "word", NEW a, a - base = c.first
    PROVE  WordAt(a) = c.value
<1> DEFINE found == {d \in memory : d.kind = "word" /\ d.first = a - base}
<1>1. c \in found
  OBVIOUS
<1>2. ASSUME NEW d \in found PROVE d = c
  <2>1. d \in memory /\ d.kind = "word" /\ d.first = c.first
    BY <1>2
  <2>2. c.first \in Nat /\ c.past = c.first + 4 /\ d.past = d.first + 4
    BY <2>1, WordsAreFourBytes
  <2>3. Overlap(d, c)
    BY <2>1, <2>2 DEF Overlap
  <2>4. QED
    BY <2>1, <2>3 DEF MemoryInv, Apart
<1>3. (CHOOSE d \in found : TRUE) = c
  BY <1>1, <1>2
<1>4. WordAt(a) = IF found = {} THEN 0 ELSE (CHOOSE d \in found : TRUE).value
  BY DEF WordAt
<1> HIDE DEF found
<1>5. QED
  BY <1>1, <1>3, <1>4

LEMMA StringIs ==
    ASSUME LayoutInv, MemoryInv, phase = "run",
           NEW c \in memory, c.kind # "word", NEW a, a - base = c.first
    PROVE  StringAt(a) = <<c.kind, c.value>>
<1> DEFINE found == {d \in memory : d.kind # "word" /\ d.first = a - base}
<1>1. c \in found
  OBVIOUS
<1>2. ASSUME NEW d \in found PROVE d = c
  <2>1. d \in memory /\ d.kind # "word" /\ d.first = c.first
    BY <1>2
  <2>2. /\ c.first \in Nat /\ c.past \in Nat /\ c.first < c.past
        /\ d.past \in Nat /\ d.first < d.past
    BY <2>1, OthersAreNotEmpty
  <2>3. Overlap(d, c)
    BY <2>1, <2>2 DEF Overlap
  <2>4. QED
    BY <2>1, <2>3 DEF MemoryInv, Apart
<1>3. (CHOOSE d \in found : TRUE) = c
  BY <1>1, <1>2
<1>4. StringAt(a) = IF found = {} THEN <<"none", 0>>
                    ELSE LET d == CHOOSE d \in found : TRUE IN <<d.kind, d.value>>
  BY DEF StringAt
<1> HIDE DEF found
<1>5. QED
  BY <1>1, <1>3, <1>4

\* The guest finds the words that were put one after the other.
LEMMA WordsAreFound ==
    ASSUME LayoutInv, MemoryInv, phase = "run",
           NEW first \in Nat, NEW values, Words(first, values) \subseteq memory,
           NEW i \in Nat, i \in DOMAIN values
    PROVE  WordAt((base + first) + 4 * (i - 1)) = values[i]
<1> DEFINE c == Cell(first + 4 * (i - 1), 4, "word", values[i])
<1>1. c \in memory
  BY DEF Words
<1>2. c.kind = "word" /\ c.first = first + 4 * (i - 1) /\ c.value = values[i]
  BY CellParts
<1>3. ((base + first) + 4 * (i - 1)) - base = first + 4 * (i - 1)
  BY DEF LayoutInv, Numbers
<1> HIDE DEF c
<1>4. QED
  BY <1>1, <1>2, <1>3, WordIs

LEMMA FirstZeroIs ==
    ASSUME NEW address, NEW step, NEW n \in 0..(2 * MaxArgs + AuxRecords),
           WordAt(address + step * n) = 0, \A j \in 0..(n - 1) : WordAt(address + step * j) # 0
    PROVE  FirstZero(address, step) = n
<1> DEFINE First(i) == /\ WordAt(address + step * i) = 0
                       /\ \A j \in 0..(i - 1) : WordAt(address + step * j) # 0
           S == 0..(2 * MaxArgs + AuxRecords)
<1>1. First(n)
  OBVIOUS
<1>2. ASSUME NEW i \in S, First(i) PROVE i = n
  <2>1. i \in Int /\ n \in Int /\ 0 <= i /\ 0 <= n
    OBVIOUS
  <2>2. CASE i < n
    <3>1. i \in 0..(n - 1)
      BY <2>1, <2>2
    <3>2. QED
      BY <1>1, <1>2, <3>1
  <2>3. CASE n < i
    <3>1. n \in 0..(i - 1)
      BY <2>1, <2>3
    <3>2. QED
      BY <1>1, <1>2, <3>1
  <2>4. QED
    BY <2>1, <2>2, <2>3
<1>3. FirstZero(address, step) = CHOOSE i \in S : First(i)
  BY Zenon DEF FirstZero
<1>4. n \in S
  OBVIOUS
<1> HIDE DEF First, S
<1>5. QED
  BY <1>1, <1>2, <1>3, <1>4

\* A pointer points to the string it is for, and is not the end of the list.
LEMMA PointersAreFollowed ==
    ASSUME LayoutInv, MemoryInv, phase = "run", NEW pointers \in Seq(Nat), NEW kind,
           kind \in {"argument", "variable"},
           Points(pointers, base, memory, kind), NEW i \in 1..Len(pointers)
    PROVE  StringAt(pointers[i]) = <<kind, i - 1>> /\ pointers[i] # 0
<1>1. PICK c \in memory : c.kind = kind /\ c.value = i - 1 /\ c.first = pointers[i] - base
  BY DEF Points
<1>2. StringAt(pointers[i]) = <<kind, i - 1>>
  BY <1>1, StringIs
<1>3. Numbers /\ Placed /\ LaidOut /\ ImageFits
  BY DEF LayoutInv, MemoryInv, LaidOut
<1>4. IsString(c)
  BY <1>1, <1>3, ImageCells, LowestCell DEF Placed, IsStack
<1>5. topOfAux \in Nat /\ base \in Nat /\ topOfAux > 0
  <2>1. /\ topOfAux - 4 * StartupWords(Len(argv) + Len(env)) \in Nat
        /\ Len(argv) + Len(env) \in Nat
        /\ topOfAux - 4 * StartupWords(Len(argv) + Len(env)) + 4 * (25 + (Len(argv) + Len(env)))
             <= topOfAux - 16
    BY StackHasRoom, <1>3 DEF Numbers
  <2>2. topOfAux \in Nat /\ base \in Nat
    BY <1>3 DEF Numbers
  <2> DEFINE p == Len(argv) + Len(env)
             f == topOfAux - 4 * StartupWords(p)
  <2>3. f \in Nat /\ p \in Nat /\ f + 4 * (25 + p) <= topOfAux - 16
    BY <2>1
  <2> HIDE DEF p, f
  <2>4. QED
    BY <2>2, <2>3
<1>6. topOfAux <= c.first /\ c.first \in Nat
  BY <1>4 DEF IsString
<1>7. pointers[i] \in Nat
  OBVIOUS
<1>8. QED
  BY <1>1, <1>2, <1>5, <1>6, <1>7
\* The words above the register frame are those of Startup, and AT_RANDOM's
\* are the last of the stack.
StartupFound(x, y) ==
    LET aux == Aux(base + topOfAux - 16, base + x.first, base + y.first)
        argc == Len(argv)
        count == Len(env)
        word(j) == WordAt((sp + 64) + 4 * j)
    IN  /\ argc \in Nat /\ count \in Nat
        /\ word(0) = argc
        /\ \A i \in 1..argc : word(i) = argv[i]
        /\ word(argc + 1) = 0
        /\ \A i \in 1..count : word(argc + 1 + i) = env[i]
        /\ word(argc + count + 2) = 0
        /\ \A i \in 1..22 : word(argc + count + 2 + i) = aux[i]
        /\ \A i \in 0..3 : WordAt((base + topOfAux - 16) + 4 * i) # 0
        /\ sp \in Int

LEMMA StartupIsFound ==
    ASSUME LayoutInv, MemoryInv, phase = "run", NEW x, NEW y, StackHolds(x, y)
    PROVE  StartupFound(x, y)
<1> DEFINE lowRandom == base + topOfAux - 16
           lowExecfn == base + x.first
           lowPlatform == base + y.first
           aux == Aux(lowRandom, lowExecfn, lowPlatform)
           words == Startup(aux)
           argc == Len(argv)
           count == Len(env)
           first == topOfAux - 4 * StartupWords(argc + count)
           last == topOfAux - 16
<1>1. /\ Words(first, words) \subseteq memory /\ Words(last, Random) \subseteq memory
  BY DEF StackHolds
<1>2. /\ argc \in Nat /\ count \in Nat /\ first \in Nat
      /\ first + 4 * (25 + (argc + count)) <= last
      /\ topOfAux \in Nat /\ base \in Nat
      /\ sp = base + first - 64 /\ argv \in Seq(Nat) /\ env \in Seq(Nat)
  BY StackHasRoom DEF LayoutInv, Numbers, SpIsBelowTheWords
<1>3. /\ DOMAIN words = 1..(25 + argc + count)
      /\ words[1] = argc
      /\ \A i \in 1..argc : words[1 + i] = argv[i]
      /\ words[argc + 2] = 0
      /\ \A i \in 1..count : words[argc + 2 + i] = env[i]
      /\ words[argc + count + 3] = 0
      /\ \A i \in 1..22 : words[argc + count + 3 + i] = aux[i]
  <2>1. argv \in Seq(Nat) /\ env \in Seq(Nat)
    BY <1>2
  <2> HIDE DEF lowRandom, lowExecfn, lowPlatform
  <2>2. QED
    BY ONLY <2>1, StartupParts DEF aux, words, argc, count
<1> HIDE DEF words, aux, argc, count, first, lowRandom, lowExecfn, lowPlatform
<1>4. ASSUME NEW j \in Nat, j < 25 + argc + count
      PROVE  WordAt((sp + 64) + 4 * j) = words[j + 1]
  <2>1. j + 1 \in DOMAIN words /\ j + 1 \in Nat
    BY <1>2, <1>3, <1>4
  <2>2. WordAt((base + first) + 4 * ((j + 1) - 1)) = words[j + 1]
    BY <1>1, <1>2, <2>1, WordsAreFound
  <2>3. (base + first) + 4 * ((j + 1) - 1) = (sp + 64) + 4 * j
    BY <1>2
  <2>4. QED
    BY <2>2, <2>3, Zenon
<1> DEFINE word(j) == WordAt((sp + 64) + 4 * j)
<1>5. \A j \in Nat : j < 25 + argc + count => word(j) = words[j + 1]
  BY <1>4
<1> HIDE DEF word
<1>6. word(0) = argc
  BY <1>2, <1>3, <1>5
<1>7. \A i \in 1..argc : word(i) = argv[i]
  <2> SUFFICES ASSUME NEW i \in 1..argc PROVE word(i) = argv[i]
    OBVIOUS
  <2>1. i \in Nat /\ i < 25 + argc + count /\ i + 1 = 1 + i
    BY <1>2
  <2>2. QED
    BY <1>3, <1>5, <2>1
<1>8. word(argc + 1) = 0
  <2>1. argc + 1 \in Nat /\ argc + 1 < 25 + argc + count /\ (argc + 1) + 1 = argc + 2
    BY <1>2
  <2>2. QED
    BY <1>3, <1>5, <2>1
<1>9. \A i \in 1..count : word(argc + 1 + i) = env[i]
  <2> SUFFICES ASSUME NEW i \in 1..count PROVE word(argc + 1 + i) = env[i]
    OBVIOUS
  <2>1. /\ argc + 1 + i \in Nat /\ argc + 1 + i < 25 + argc + count
        /\ (argc + 1 + i) + 1 = argc + 2 + i
    BY <1>2
  <2>2. QED
    BY <1>3, <1>5, <2>1
<1>10. word(argc + count + 2) = 0
  <2>1. /\ argc + count + 2 \in Nat /\ argc + count + 2 < 25 + argc + count
        /\ (argc + count + 2) + 1 = argc + count + 3
    BY <1>2
  <2>2. QED
    BY <1>3, <1>5, <2>1
<1>11. \A i \in 1..22 : word(argc + count + 2 + i) = aux[i]
  <2> SUFFICES ASSUME NEW i \in 1..22 PROVE word(argc + count + 2 + i) = aux[i]
    OBVIOUS
  <2>1. /\ argc + count + 2 + i \in Nat /\ argc + count + 2 + i < 25 + argc + count
        /\ (argc + count + 2 + i) + 1 = argc + count + 3 + i
    BY <1>2
  <2>2. QED
    BY <1>3, <1>5, <2>1
<1>12. \A i \in 0..3 : WordAt(lowRandom + 4 * i) # 0
  <2> SUFFICES ASSUME NEW i \in 0..3 PROVE WordAt(lowRandom + 4 * i) # 0
    OBVIOUS
  <2>1. last \in Nat
    BY <1>2
  <2>2. i + 1 \in DOMAIN Random /\ i + 1 \in Nat /\ Random[i + 1] # 0
    BY DEF Random
  <2>3. WordAt((base + last) + 4 * ((i + 1) - 1)) = Random[i + 1]
    BY <1>1, <2>1, <2>2, WordsAreFound
  <2>4. (base + last) + 4 * ((i + 1) - 1) = lowRandom + 4 * i
    BY <1>2 DEF lowRandom
  <2>5. QED
    BY <2>2, <2>3, <2>4
<1>13. sp \in Int
  BY <1>2
<1>14. QED
  BY <1>2, <1>6, <1>7, <1>8, <1>9, <1>10, <1>11, <1>12, <1>13, Zenon
     DEF StartupFound, word, aux, argc, count, lowRandom, lowExecfn, lowPlatform

\* For every file a linker makes and every command line, arguments over
\* MaxArgs dropped, and every list of variables that aenv has room for, _start
\* finds all of argc, argv, the variables and the auxiliary records by walking
\* up from sp.
THEOREM StartupIsAlwaysWalkable == Spec => []StartupIsWalkable
<1>1. ASSUME LayoutInv, MemoryInv, phase = "run" PROVE StartupIsWalkable
  <2>1. PICK x \in memory, y \in memory : StackHolds(x, y)
    BY <1>1 DEF MemoryInv, Started
  <2> DEFINE aux == Aux(base + topOfAux - 16, base + x.first, base + y.first)
             args == Len(argv)
             n == Len(env)
             word(j) == WordAt((sp + 64) + 4 * j)
             argc == WordAt(sp + 64)
             argvAt == sp + 68
             envAt == argvAt + 4 * (argc + 1)
             count == FirstZero(envAt, 4)
             auxAt == envAt + 4 * (count + 1)
             ends == FirstZero(auxAt, 8)
             records == {<<WordAt(auxAt + 8 * i), WordAt(auxAt + 8 * i + 4)>> : i \in 0..(ends - 1)}
             Value(type) == (CHOOSE r \in records : r[1] = type)[2]
             random == base + topOfAux - 16
             execfn == base + x.first
             platform == base + y.first
  <2>2. /\ args \in Nat /\ n \in Nat /\ sp \in Int
        /\ word(0) = args
        /\ \A i \in 1..args : word(i) = argv[i]
        /\ word(args + 1) = 0
        /\ \A i \in 1..n : word(args + 1 + i) = env[i]
        /\ word(args + n + 2) = 0
        /\ \A i \in 1..22 : word(args + n + 2 + i) = aux[i]
        /\ \A i \in 0..3 : WordAt(random + 4 * i) # 0
    <3>1. StartupFound(x, y)
      BY <1>1, <2>1, StartupIsFound
    <3>2. QED
      BY <3>1, Zenon DEF StartupFound
  <2>3. /\ x.kind = "execfn" /\ x.value = 0 /\ y.kind = "platform" /\ y.value = 0
    BY <2>1 DEF StackHolds
  <2>4. /\ Numbers /\ LaidOut /\ Copied /\ Present
        /\ argv \in Seq(Nat) /\ env \in Seq(Nat) /\ base \in Nat
    BY <1>1 DEF LayoutInv, MemoryInv, Numbers, LaidOut
  <2>5. /\ args = IF Len(arguments) < MaxArgs THEN Len(arguments) + 1 ELSE MaxArgs
        /\ n = Len(environment) + 1 /\ n <= MaxArgs
    BY <1>1, <2>4 DEF Copied
  <2>6. /\ Points(argv, base, memory, "argument") /\ Points(env, base, memory, "variable")
    BY <1>1, <2>4 DEF Present
  <2>7. /\ args \in 0..(2 * MaxArgs + AuxRecords) /\ n \in 0..(2 * MaxArgs + AuxRecords)
        /\ 10 \in 0..(2 * MaxArgs + AuxRecords)
    <3>1. /\ Len(environment) \in Nat /\ Len(arguments) \in Nat /\ MaxArgs \in Nat \ {0}
      BY <2>4, StringLengths
    <3>2. QED
      BY <2>2, <2>5, <3>1 DEF AuxRecords
  <2>8. /\ \A i \in 1..args : StringAt(argv[i]) = <<"argument", i - 1>> /\ argv[i] # 0
        /\ \A i \in 1..n : StringAt(env[i]) = <<"variable", i - 1>> /\ env[i] # 0
    BY <1>1, <2>4, <2>6, PointersAreFollowed
  <2>9. /\ StringAt(execfn) = <<"execfn", 0>> /\ StringAt(platform) = <<"platform", 0>>
    <3>1. x.first \in Nat /\ y.first \in Nat
      BY <1>1, <2>3, OthersAreNotEmpty
    <3>2. execfn - base = x.first /\ platform - base = y.first
      BY <2>4, <3>1
    <3>3. QED
      BY <1>1, <2>3, <3>2, StringIs
  <2>10. /\ aux[1] = AT_RANDOM /\ aux[2] = random /\ aux[3] = AT_PAGESZ /\ aux[4] = Page
         /\ aux[5] = 16 /\ aux[7] = 26 /\ aux[9] = 11 /\ aux[11] = 12 /\ aux[13] = 13
         /\ aux[15] = 14 /\ aux[17] = AT_EXECFN /\ aux[18] = execfn
         /\ aux[19] = AT_PLATFORM /\ aux[20] = platform /\ aux[21] = AT_NULL
    BY DEF Aux
  <2> HIDE DEF aux, random, execfn, platform, args, n
  <2>11. argc = args
    <3>1. (sp + 64) + 4 * 0 = sp + 64
      BY <2>2
    <3>2. QED
      BY <2>2, <3>1
  <2>12. /\ \A i \in 0..(args - 1) : WordAt(argvAt + 4 * i) = argv[i + 1]
         /\ WordAt(argvAt + 4 * args) = 0
    <3>1. ASSUME NEW i \in 0..(args - 1) PROVE WordAt(argvAt + 4 * i) = argv[i + 1]
      <4>1. i + 1 \in 1..args /\ argvAt + 4 * i = (sp + 64) + 4 * (i + 1)
        BY <2>2
      <4>2. QED
        BY <2>2, <4>1
    <3>2. argvAt + 4 * args = (sp + 64) + 4 * (args + 1)
      BY <2>2
    <3>3. QED
      BY <2>2, <3>1, <3>2
  <2>13. \A i \in 0..(args - 1) : i + 1 \in 1..args /\ (i + 1) - 1 = i
    BY <2>2
  <2> HIDE DEF argvAt
  <2>14. FirstZero(argvAt, 4) = args
    <3>1. \A i \in 0..(args - 1) : WordAt(argvAt + 4 * i) # 0
      BY <2>8, <2>12, <2>13
    <3>2. QED
      BY <2>7, <2>12, <3>1, FirstZeroIs, Zenon
  <2>15. \A i \in 0..(args - 1) : StringAt(WordAt(argvAt + 4 * i)) = <<"argument", i>>
    BY <2>8, <2>12, <2>13
  <2>16. /\ \A i \in 0..(n - 1) : WordAt(envAt + 4 * i) = env[i + 1]
         /\ WordAt(envAt + 4 * n) = 0
    <3>1. envAt = sp + 68 + 4 * (args + 1)
      BY <2>11 DEF argvAt
    <3> HIDE DEF envAt
    <3>2. ASSUME NEW i \in 0..(n - 1) PROVE WordAt(envAt + 4 * i) = env[i + 1]
      <4>1. i + 1 \in 1..n /\ envAt + 4 * i = (sp + 64) + 4 * (args + 1 + (i + 1))
        BY <2>2, <3>1
      <4>2. QED
        BY <2>2, <4>1
    <3>3. envAt + 4 * n = (sp + 64) + 4 * (args + n + 2)
      BY <2>2, <3>1
    <3>4. QED
      BY <2>2, <3>2, <3>3
  <2>17. \A i \in 0..(n - 1) : i + 1 \in 1..n /\ (i + 1) - 1 = i
    BY <2>2
  <2>18. envAt = sp + 68 + 4 * (args + 1)
    BY <2>11 DEF argvAt
  <2> HIDE DEF envAt
  <2>19. count = n
    <3>1. \A i \in 0..(n - 1) : WordAt(envAt + 4 * i) # 0
      BY <2>8, <2>16, <2>17
    <3>2. QED
      BY <2>7, <2>16, <3>1, FirstZeroIs, Zenon
  <2>20. \A i \in 0..(n - 1) : StringAt(WordAt(envAt + 4 * i)) = <<"variable", i>>
    BY <2>8, <2>16, <2>17
  <2>21. auxAt = (sp + 64) + 4 * (args + n + 3)
    <3>1. auxAt = envAt + 4 * (n + 1)
      BY <2>19
    <3> HIDE DEF auxAt
    <3>2. QED
      BY <2>2, <2>18, <3>1
  <2> HIDE DEF count, auxAt
  <2>22. ASSUME NEW i \in 0..10
         PROVE  /\ WordAt(auxAt + 8 * i) = aux[2 * i + 1]
                /\ WordAt(auxAt + 8 * i + 4) = aux[2 * i + 2]
    <3>1. /\ 2 * i + 1 \in 1..22 /\ 2 * i + 2 \in 1..22
          /\ auxAt + 8 * i = (sp + 64) + 4 * (args + n + 2 + (2 * i + 1))
          /\ auxAt + 8 * i + 4 = (sp + 64) + 4 * (args + n + 2 + (2 * i + 2))
      BY <2>2, <2>21
    <3>2. QED
      BY <2>2, <3>1
  <2> DEFINE keys == [i \in 0..9 |-> WordAt(auxAt + 8 * i)]
             values == [i \in 0..9 |-> WordAt(auxAt + 8 * i + 4)]
  <2>23. /\ keys[0] = 25 /\ keys[1] = 6 /\ keys[2] = 16 /\ keys[3] = 26 /\ keys[4] = 11
         /\ keys[5] = 12 /\ keys[6] = 13 /\ keys[7] = 14 /\ keys[8] = 31 /\ keys[9] = 15
         /\ values[0] = random /\ values[1] = Page /\ values[8] = execfn /\ values[9] = platform
    BY <2>10, <2>22 DEF AT_RANDOM, AT_PAGESZ, AT_EXECFN, AT_PLATFORM
  <2>24. WordAt(auxAt + 8 * 10) = 0 /\ \A i \in 0..(10 - 1) : WordAt(auxAt + 8 * i) # 0
    <3>1. WordAt(auxAt + 8 * 10) = 0
      BY <2>10, <2>22 DEF AT_NULL
    <3>2. ASSUME NEW i \in 0..(10 - 1) PROVE WordAt(auxAt + 8 * i) # 0
      <4>1. i \in 0..9 /\ keys[i] # 0
        BY <2>23
      <4>2. QED
        BY <4>1
    <3>3. QED
      BY <3>1, <3>2
  <2>25. ends = 10
    BY <2>7, <2>24, FirstZeroIs
  <2>26. records = {<<keys[i], values[i]>> : i \in 0..9}
    <3>1. 0..(ends - 1) = 0..9
      BY <2>25
    <3>2. \A i \in 0..9 : keys[i] = WordAt(auxAt + 8 * i) /\ values[i] = WordAt(auxAt + 8 * i + 4)
      OBVIOUS
    <3> HIDE DEF keys, values, ends
    <3>3. QED
      BY <3>1, <3>2
  <2>27. ASSUME NEW k \in 0..9 PROVE Value(keys[k]) = values[k]
    <3>1. \A i \in 0..9 : keys[i] = keys[k] => i = k
      BY <2>23
    <3> HIDE DEF keys, values, records
    <3>2. <<keys[k], values[k]>> \in records
      BY <2>26, <2>27
    <3>3. \A r \in records : r[1] = keys[k] => r = <<keys[k], values[k]>>
      BY <2>26, <3>1
    <3>4. (CHOOSE r \in records : r[1] = keys[k]) = <<keys[k], values[k]>>
      BY <3>2, <3>3
    <3>5. <<keys[k], values[k]>>[2] = values[k]
      OBVIOUS
    <3>6. QED
      BY <3>4, <3>5, Zenon
  <2> HIDE DEF keys, values, records
  <2>28. /\ Value(AT_RANDOM) = random /\ Value(AT_PAGESZ) = Page
         /\ Value(AT_EXECFN) = execfn /\ Value(AT_PLATFORM) = platform
    <3>1. 0 \in 0..9 /\ 1 \in 0..9 /\ 8 \in 0..9 /\ 9 \in 0..9
      OBVIOUS
    <3>2. /\ Value(keys[0]) = values[0] /\ Value(keys[1]) = values[1]
          /\ Value(keys[8]) = values[8] /\ Value(keys[9]) = values[9]
      BY <2>27, <3>1, Zenon
    <3>3. /\ keys[0] = AT_RANDOM /\ keys[1] = AT_PAGESZ
          /\ keys[8] = AT_EXECFN /\ keys[9] = AT_PLATFORM
      BY <2>23 DEF AT_RANDOM, AT_PAGESZ, AT_EXECFN, AT_PLATFORM
    <3>4. QED
      BY <2>23, <3>2, <3>3, Zenon
  <2>29. \A i \in 0..3 : WordAt(Value(AT_RANDOM) + 4 * i) # 0
    BY <2>2, <2>28, Zenon
  <2>30. /\ argc = IF Len(arguments) < MaxArgs THEN Len(arguments) + 1 ELSE MaxArgs
         /\ \A i \in 0..(argc - 1) : StringAt(WordAt(argvAt + 4 * i)) = <<"argument", i>>
         /\ FirstZero(argvAt, 4) = argc
         /\ count = Len(environment) + 1
         /\ \A i \in 0..(count - 1) : StringAt(WordAt(envAt + 4 * i)) = <<"variable", i>>
         /\ Value(AT_PAGESZ) = Page
         /\ \A i \in 0..3 : WordAt(Value(AT_RANDOM) + 4 * i) # 0
         /\ StringAt(Value(AT_EXECFN)) = <<"execfn", 0>>
         /\ StringAt(Value(AT_PLATFORM)) = <<"platform", 0>>
    BY <2>5, <2>9, <2>11, <2>14, <2>15, <2>19, <2>20, <2>28, <2>29, Zenon
  <2>31. QED
    BY <2>30, Zenon DEF StartupIsWalkable, records, ends, auxAt, count, envAt, argvAt
<1>2. LayoutInv /\ MemoryInv => StartupIsWalkable
  BY <1>1 DEF StartupIsWalkable
<1>3. QED
  BY <1>2, LayoutInvAlways, MemoryInvAlways, PTL
=============================================================================
