----------------------------- MODULE SymbolTable -----------------------------
(***************************************************************************)
(* my_qsort and my_bsearch of sparcos.cxx, and what is done with them: the *)
(* symbols of the ELF file, which load_image32 sorts and gives sizes, and  *)
(* emulator_symbol_lookup finds by an address, for traces.                 *)
(***************************************************************************)
EXTENDS Integers, SequencesExt

CONSTANTS
    Size,      \* 2^32
    Count,     \* bound: symbols in a file
    Value,     \* bound: their values
    Bytes,     \* bound: their sizes, 0 for none
    ElfBase,   \* elf_base_address
    Past,      \* the end of the program, g_base_address + memory_size
    End        \* the end of the memory, heap and stack included

ASSUME ProgramAssumption ==
    /\ {Size, Count, ElfBase, Past, End} \subseteq Nat
    /\ Value \subseteq 0..(Size - 1) /\ Bytes \subseteq 0..(Size - 1)
    /\ 0 < ElfBase /\ ElfBase <= Past /\ Past <= End /\ End < Size

VARIABLES
    phase,      \* of load_image32
    file,       \* the symbols as the ELF file has them
    symbols,    \* g_symbols32
    part,       \* the call of my_qsort at work: its range and its pointers
    calls,      \* the ranges of the calls that are still to be made
    answer      \* of the last emulator_symbol_lookup

vars == <<phase, file, symbols, part, calls, answer>>

-----------------------------------------------------------------------------
(* load_image32: one step for each of its loops over the symbols *)

\* A symbol's name is its place in the file, or 0: none, or one with a $.
Files ==
    {f \in [1..Count -> [name : 0..Count, value : Value, size : Bytes]] :
        \A i \in 1..Count : f[i].name \in {0, i}}

NoAnswer == [address |-> 0, name |-> 0, offset |-> 0]

Call(base, max) ==
    [base |-> base, max |-> max, first |-> base, last |-> max,
     key |-> base + ((max - base + 1) \div 2)]

Init ==
    /\ phase = "read"
    /\ file \in Files
    /\ symbols = file
    /\ part = Call(1, 0) /\ calls = {}
    /\ answer = NoAnswer

VoidUnnamed ==
    /\ phase = "read" /\ phase' = "voided"
    /\ symbols' = [i \in DOMAIN symbols |->
                      IF symbols[i].name = 0 THEN [symbols[i] EXCEPT !.value = 0] ELSE symbols[i]]
    /\ UNCHANGED <<file, part, calls, answer>>

-----------------------------------------------------------------------------
(* my_qsort, by value: a step for each turn of its loop, and one for each  *)
(* of its calls                                                            *)

SortSymbols ==
    /\ phase = "voided" /\ phase' = "sorting"
    /\ part' = Call(1, Len(symbols))
    /\ UNCHANGED <<file, symbols, calls, answer>>

Swapped(t, i, j) == [t EXCEPT ![i] = t[j], ![j] = t[i]]

\* Mutant of Follow: the pivot is taken to stay where it was chosen.
StaysPut(key, first, last) == key

\* Where the pivot is after a swap.
Follow(key, first, last) == IF key = first THEN last ELSE IF key = last THEN first ELSE key

\* What is below the pivot comes before what is above it.  Nothing keeps the
\* two scans in the range of the call.
Partition ==
    /\ phase = "sorting" /\ part.first <= part.last
    /\ LET pivot == symbols[part.key].value
           i == Min({n \in part.first..Len(symbols) : symbols[n].value >= pivot})
           j == Max({n \in 1..part.last : symbols[n].value <= pivot})
       IN  IF i > j
           THEN /\ part' = [part EXCEPT !.first = i, !.last = j]
                /\ UNCHANGED symbols
           ELSE /\ part' = [part EXCEPT !.first = i + 1, !.last = j - 1,
                                        !.key = Follow(part.key, i, j)]
                /\ symbols' = Swapped(symbols, i, j)
    /\ UNCHANGED <<phase, file, calls, answer>>

\* A call makes two, unless they are for a symbol or none, the lower one first;
\* those it makes in turn come before the upper one.
Pending ==
    calls \cup {r \in {[base |-> part.base, max |-> part.last], [base |-> part.first, max |-> part.max]} :
                  r.base < r.max}

Recurse ==
    /\ phase = "sorting" /\ part.first > part.last
    /\ Pending # {}
    /\ LET lowest == CHOOSE r \in Pending : \A s \in Pending : r.base <= s.base
       IN  /\ part' = Call(lowest.base, lowest.max)
           /\ calls' = Pending \ {lowest}
    /\ UNCHANGED <<phase, file, symbols, answer>>

Sorted ==
    /\ phase = "sorting" /\ part.first > part.last
    /\ Pending = {}
    /\ phase' = "sorted"
    /\ UNCHANGED <<file, symbols, part, calls, answer>>

-----------------------------------------------------------------------------
(* load_image32 again *)

\* Mutant of EraseLow: a symbol at the start is taken to be below it.
ErasesFirst ==
    /\ phase = "sorted" /\ phase' = "erased"
    /\ LET kept == {i \in DOMAIN symbols : symbols[i].value > ElfBase}
       IN  symbols' = IF kept = {} THEN << >> ELSE SubSeq(symbols, Min(kept), Len(symbols))
    /\ UNCHANGED <<file, part, calls, answer>>

\* Those below the program are the first.
EraseLow ==
    /\ phase = "sorted" /\ phase' = "erased"
    /\ LET kept == {i \in DOMAIN symbols : symbols[i].value >= ElfBase}
       IN  symbols' = IF kept = {} THEN << >> ELSE SubSeq(symbols, Min(kept), Len(symbols))
    /\ UNCHANGED <<file, part, calls, answer>>

\* The next value there is, or the last.
NextValue(i) ==
    LET last  == Len(symbols)
        above == {n \in (i + 1)..(last - 1) : symbols[n].value # symbols[i].value} \cup {last}
    IN  symbols[Min(above)].value

SetSizes ==
    /\ phase = "erased" /\ phase' = "loaded"
    /\ symbols' = [i \in DOMAIN symbols |->
          IF symbols[i].size # 0 THEN symbols[i]
          ELSE [symbols[i] EXCEPT !.size =
                   ((IF i < Len(symbols) THEN NextValue(i) ELSE Past) - symbols[i].value) % Size]]
    /\ UNCHANGED <<file, part, calls, answer>>

-----------------------------------------------------------------------------
(* emulator_symbol_lookup *)

\* Mutant of symbol_find_compare32: the byte past the end is in.
EndsLate(address, s) ==
    IF address >= s.value /\ address <= (s.value + s.size) % Size THEN 0
    ELSE IF address > s.value THEN 1 ELSE -1

symbol_find_compare32(address, s) ==
    IF \/ address = s.value
       \/ address > s.value /\ address < (s.value + s.size) % Size THEN 0
    ELSE IF address > s.value THEN 1 ELSE -1

Ended(range) == range.lo > range.hi \/ range.found # 0

\* One turn of the loop; the comparison is an argument of the code.
Turn(key, table, range) ==
    LET k   == (range.lo + range.hi) \div 2
        cmp == symbol_find_compare32(key, table[k])
    IN  IF Ended(range) THEN range
        ELSE IF cmp = 0 THEN [range EXCEPT !.found = k]
        ELSE IF cmp < 0 THEN [range EXCEPT !.hi = k - 1]
        ELSE [range EXCEPT !.lo = k + 1]

\* The first of the entries that compare equal, or 0; no search takes more
\* turns than there are entries.
my_bsearch(key, table) ==
    LET n == Len(table)
        range[turns \in 0..n] ==
            IF turns = 0 THEN [lo |-> 1, hi |-> n, found |-> 0] ELSE Turn(key, table, range[turns - 1])
        found == range[n].found
    IN  IF found = 0 THEN 0
        ELSE Min({i \in 1..found :
                     \A j \in i..found : symbol_find_compare32(key, table[j]) = 0})

\* The guard is against the whole memory.
emulator_symbol_lookup(address) ==
    /\ phase = "loaded"
    /\ LET found == IF symbols = << >> THEN 0
                    ELSE my_bsearch(address, symbols)
       IN  answer' = IF address > End \/ found = 0
                     THEN [NoAnswer EXCEPT !.address = address]
                     ELSE [address |-> address, name |-> symbols[found].name,
                           offset |-> address - symbols[found].value]
    /\ UNCHANGED <<phase, file, symbols, part, calls>>

Next ==
    \/ VoidUnnamed \/ SortSymbols \/ Partition \/ Recurse \/ Sorted \/ EraseLow \/ SetSizes
    \/ \E address \in 0..(End + 1) : emulator_symbol_lookup(address)

Spec == Init /\ [][Next]_vars

-----------------------------------------------------------------------------
(***************************************************************************)
(* Properties.                                                             *)
(***************************************************************************)

TypeOK ==
    /\ phase \in {"read", "voided", "sorting", "sorted", "erased", "loaded"}
    /\ file \in Files
    /\ symbols \in Seq([name : 0..Count, value : Nat, size : 0..(Size - 1)])
    /\ part \in [base : Nat, max : Nat, first : Nat, last : Nat, key : Nat]
    /\ calls \subseteq [base : Nat, max : Nat]
    /\ answer \in [address : Nat, name : 0..Count, offset : Nat]

Named == {file[i] : i \in {n \in DOMAIN file : file[n].name # 0}}
InProgram == {s \in Named : s.value >= ElfBase}

\* The symbols of the program are all there once, in order of their values,
\* for every order in the file and any number of equal values: the pivot that
\* moves while the array is partitioned is followed (sparcos.cxx:2002-2038,
\* 8956-8983).
SymbolsAreSorted ==
    /\ TypeOK
    /\ phase \in {"erased", "loaded"} =>
           /\ \A i, j \in DOMAIN symbols : i < j => /\ symbols[i].value <= symbols[j].value
                                                 /\ symbols[i].name # symbols[j].name
           /\ {<<symbols[i].name, symbols[i].value>> : i \in DOMAIN symbols}
                  = {<<s.name, s.value>> : s \in InProgram}

Sized(s) == CHOOSE i \in DOMAIN symbols : symbols[i].name = s

\* A symbol that is found is one the address is in, and the offset is right.
LookupIsSound ==
    answer.name # 0 =>
        LET s == symbols[Sized(answer.name)]
        IN  /\ s.value + answer.offset = answer.address
            /\ answer.offset = 0 \/ answer.offset < s.size

Asked == phase = "loaded" /\ answer # NoAnswer

Covers(s, address) ==
    s.value <= address /\ (address < s.value + s.size \/ address = s.value)

HasSizes == \A s \in InProgram : s.size > 0 /\ s.value + s.size < Size
Overlap == \E s, t \in InProgram : s # t /\ Covers(s, t.value)
HasNoSizes == \A s \in InProgram : s.size = 0 /\ s.value < Past

\* If the file gives its symbols sizes, they end in the address space and do not overlap, an address in
\* one of them finds it.  If it gives them none, they are made to cover the
\* program: an address from the first to the program's end finds a symbol,
\* with the highest value there is at or below the address, and of the symbols
\* with that value the first, whatever the address; but any of them if it is
\* the last value of all (sparcos.cxx:1962-1986, 6348-6454, 8985-9002).
SymbolsAreFound ==
    Asked =>
        /\ HasSizes /\ ~Overlap =>
               \A s \in InProgram :
                   Covers(s, answer.address) /\ answer.address <= End => answer.name = s.name
        /\ HasNoSizes =>
               LET below   == {i \in DOMAIN symbols : symbols[i].value <= answer.address}
                   highest == {i \in below : symbols[i].value = symbols[Max(below)].value}
               IN  below # {} /\ answer.address < Past =>
                       IF Max(below) = Len(symbols)
                       THEN answer.name \in {symbols[i].name : i \in highest}
                       ELSE answer.name = symbols[Min(highest)].name

=============================================================================
