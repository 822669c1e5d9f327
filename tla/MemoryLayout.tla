---------------------------- MODULE MemoryLayout ----------------------------
(***************************************************************************)
(* load_image32 of sparcos.cxx, which gives a SPARC program its memory:    *)
(* the image of the ELF file, the heap that brk moves, the stack with what *)
(* Linux puts on it, the strings of the command line, and the region mmap  *)
(* hands out; and the system call brk, which works on the result.          *)
(*                                                                         *)
(* Addresses inside the memory are offsets from its start, as in the code; *)
(* the guest's are base more.  What is written is a set of cells, each a   *)
(* word, a string or a segment, with its value or its number; the rest of  *)
(* the memory is zero.                                                     *)
(***************************************************************************)
EXTENDS Integers, SequencesExt

CONSTANTS
    Size,         \* 2^32
    LowAddress,   \* 0x20000: what starts below it has its memory start at 0
    Page,         \* 4096
    ArgCommit,    \* g_arg_data_commit, 1024
    StackCommit, BrkCommit, MmapCommit,   \* the options -s, -h, -m, or what they default to
    MaxArgs,      \* 40
    Image,        \* bound: what ELF files there are, as their program headers
    Arguments,    \* bound: what command lines, as the bytes of each argument
    Environment,  \* bound: what lists of variables (-e), as the bytes of each, 0 if malformed
    NameLength, OsLength, ExecLength, PlatformLength,   \* bytes of strings of the emulator's
    Ask           \* bound: what the guest asks of brk

ASSUME SizeAssumption == Size \in Nat /\ Size % 16 = 0
ASSUME CommitAssumption ==
    /\ Page \in Nat /\ Page > 0 /\ Page % 16 = 0
    /\ ArgCommit \in Nat /\ MmapCommit \in Nat /\ MaxArgs \in Nat /\ MaxArgs > 0
    /\ StackCommit \in Nat /\ StackCommit % 16 = 0
    /\ BrkCommit \in Nat /\ BrkCommit % 16 = 0
    /\ LowAddress \in Nat
    /\ Ask \subseteq 0..(Size - 1)
ASSUME ImageAssumption ==
    Image \subseteq Seq([type : Nat, virtual : Nat, physical : Nat, file : Nat, memory : Nat])
ASSUME StringsAssumption ==
    /\ {NameLength, OsLength, ExecLength, PlatformLength} \subseteq Nat \ {0}
    /\ Arguments \subseteq Seq(Nat \ {0})
    /\ Environment \subseteq Seq(Nat)

VARIABLES
    phase,                            \* of load_image32, then "run", or how it ended
    headers, arguments, environment,  \* the file, the command line, the -e option
    at,                               \* program headers done, strings done
    base, elfBase, size,              \* g_base_address, elf_base_address, memory_size
    endOfData, bottomOfStack, topOfAux, mmapOffset,
    brk, highwater,                   \* g_brk_offset, g_highwater_brk
    memory,                           \* the cells written
    next,                             \* pargs, penv_cur: where the next string goes
    argv, env,                        \* aargs, aenv: guest addresses
    sp,                               \* g_top_of_stack
    o0                                \* what brk returned

inputs == <<headers, arguments, environment>>
extent == <<base, elfBase, size>>
layout == <<endOfData, bottomOfStack, topOfAux, mmapOffset>>
limits == <<brk, highwater>>
strings == <<next, argv, env>>
vars == <<phase, inputs, at, extent, layout, limits, memory, strings, sp, o0>>

Init ==
    /\ phase = "scan"
    /\ headers \in Image /\ arguments \in Arguments /\ environment \in Environment
    /\ at = 0
    /\ base = 0 /\ elfBase = 0 /\ size = 0
    /\ endOfData = 0 /\ bottomOfStack = 0 /\ topOfAux = 0 /\ mmapOffset = 0
    /\ brk = 0 /\ highwater = 0
    /\ memory = {} /\ next = 0 /\ argv = <<>> /\ env = <<>>
    /\ sp = 0 /\ o0 = 0

-----------------------------------------------------------------------------
(* Cells *)

Cell(first, bytes, kind, value) ==
    [first |-> first, past |-> first + bytes, kind |-> kind, value |-> value]
Overlap(a, b) == a.first < b.past /\ b.first < a.past

\* What is written replaces what was there.
Written(cells) ==
    {c \in memory : \A new \in cells : ~Overlap(c, new)} \cup cells

\* Words from an offset up.
Words(first, values) == {Cell(first + 4 * (i - 1), 4, "word", values[i]) : i \in DOMAIN values}

-----------------------------------------------------------------------------
(* The size of the memory *)

\* Some linkers leave the physical address 0.
Physical(header) == IF header.physical = 0 THEN header.virtual ELSE header.physical

IsSegment(header) == header.type = 1 /\ header.file # 0

\* What a linker sees to: there is something to run, a segment has the bytes
\* of the file in its memory, and none is where another one is or at 0, where
\* the loader puts a word of its own.
ASSUME LinkedAssumption ==
    \A image \in Image :
        /\ \E i \in DOMAIN image : image[i].memory > 0
        /\ \A i \in DOMAIN image :
              IsSegment(image[i]) => Physical(image[i]) >= 4 /\ image[i].file <= image[i].memory
        /\ \A i, j \in DOMAIN image :
              i # j /\ IsSegment(image[i]) /\ IsSegment(image[j]) =>
                  \/ Physical(image[i]) + image[i].file <= Physical(image[j])
                  \/ Physical(image[j]) + image[j].file <= Physical(image[i])

Larger(a, b) == IF a > b THEN a ELSE b
RoundUp(n, to) == ((n + to - 1) \div to) * to

ScanHeader ==
    /\ phase = "scan" /\ at < Len(headers)
    /\ LET header == headers[at + 1]
           physical == Physical(header)
       IN  IF header.type = 2
           THEN phase' = "stopped" /\ UNCHANGED <<at, base, size>>
           ELSE /\ at' = at + 1
                /\ size' = Larger(size, physical + header.memory)
                /\ base' = IF physical # 0 /\ (base = 0 \/ base > physical) THEN physical ELSE base
                /\ UNCHANGED phase
    /\ UNCHANGED <<inputs, elfBase, layout, limits, memory, strings, sp, o0>>

\* Below a program that starts low there is room for the vector table.
StartOfMemory == IF base < LowAddress THEN 0 ELSE base

\* Mutant of LayOut: the strings are given no room.
LaysOutNoStrings ==
    /\ phase = "scan" /\ at = Len(headers)
    /\ elfBase' = base
    /\ base' = StartOfMemory
    /\ endOfData' = RoundUp(size - base', 16)
    /\ brk' = endOfData' /\ highwater' = endOfData'
    /\ bottomOfStack' = endOfData' + BrkCommit
    /\ topOfAux' = bottomOfStack' + StackCommit
    /\ mmapOffset' = RoundUp(topOfAux', Page)
    /\ size' = mmapOffset' + MmapCommit
    /\ phase' = "read" /\ at' = 0
    /\ UNCHANGED <<inputs, memory, strings, sp, o0>>

LayOut ==
    /\ phase = "scan" /\ at = Len(headers)
    /\ elfBase' = base
    /\ base' = StartOfMemory
    /\ endOfData' = RoundUp(size - base', 16)
    /\ brk' = endOfData' /\ highwater' = endOfData'
    /\ bottomOfStack' = endOfData' + BrkCommit
    /\ topOfAux' = bottomOfStack' + StackCommit
    /\ mmapOffset' = RoundUp(topOfAux' + ArgCommit, Page)
    /\ size' = mmapOffset' + MmapCommit
    /\ phase' = "read" /\ at' = 0
    /\ UNCHANGED <<inputs, memory, strings, sp, o0>>

-----------------------------------------------------------------------------
(* What is written: the image, the strings, the stack *)

ReadSegment ==
    /\ phase = "read" /\ at < Len(headers)
    /\ LET header == headers[at + 1]
       IN  memory' = IF IsSegment(header)
                     THEN Written({Cell(Physical(header) - base, header.file, "segment", at + 1)})
                     ELSE memory
    /\ at' = at + 1
    /\ UNCHANGED <<phase, inputs, extent, layout, limits, strings, sp, o0>>

\* Mutant of CopyName: the word at 0 is always written.
NamesAndSupervises ==
    /\ phase = "read" /\ at = Len(headers)
    /\ memory' = Written({Cell(topOfAux, NameLength, "argument", 0), Cell(0, 4, "word", elfBase)})
    /\ argv' = <<base + topOfAux>>
    /\ next' = topOfAux + NameLength
    /\ phase' = "arguments" /\ at' = 0
    /\ UNCHANGED <<inputs, extent, layout, limits, env, sp, o0>>

\* The word at 0 is a stack for the supervisor.
CopyName ==
    /\ phase = "read" /\ at = Len(headers)
    /\ memory' = Written({Cell(topOfAux, NameLength, "argument", 0)}
                         \cup IF base = 0 THEN {Cell(0, 4, "word", elfBase)} ELSE {})
    /\ argv' = <<base + topOfAux>>
    /\ next' = topOfAux + NameLength
    /\ phase' = "arguments" /\ at' = 0
    /\ UNCHANGED <<inputs, extent, layout, limits, env, sp, o0>>

CopyString(kind, bytes) ==
    /\ memory' = Written({Cell(next, bytes, kind, at + 1)})
    /\ next' = next + bytes

CopyArgument ==
    /\ phase = "arguments" /\ at < Len(arguments) /\ Len(argv) < MaxArgs
    /\ CopyString("argument", arguments[at + 1])
    /\ argv' = Append(argv, base + next)
    /\ at' = at + 1
    /\ UNCHANGED <<phase, inputs, extent, layout, limits, env, sp, o0>>

\* The first variable names the emulator.  A byte is left free before it.
CopyOs ==
    /\ phase = "arguments" /\ (at = Len(arguments) \/ Len(argv) = MaxArgs)
    /\ memory' = Written({Cell(next + 1, OsLength, "variable", 0)})
    /\ env' = <<base + next + 1>>
    /\ next' = next + 1 + OsLength
    /\ phase' = "environment" /\ at' = 0
    /\ UNCHANGED <<inputs, extent, layout, limits, argv, sp, o0>>

\* A variable has an equal sign; it may come when aenv is full.
AtVariable == phase = "environment" /\ at < Len(environment)
WellFormed == environment[at + 1] # 0
Full(pointers) == Len(pointers) = MaxArgs

\* usage() ends the emulator.
RefuseVariable ==
    /\ AtVariable /\ ~WellFormed
    /\ phase' = "usage"
    /\ UNCHANGED <<inputs, at, extent, layout, limits, memory, strings, sp, o0>>

CopyVariable ==
    /\ AtVariable /\ WellFormed /\ ~Full(env)
    /\ CopyString("variable", environment[at + 1])
    /\ env' = Append(env, base + next)
    /\ at' = at + 1
    /\ UNCHANGED <<phase, inputs, extent, layout, limits, argv, sp, o0>>

\* Nothing keeps the pointer inside aenv: it is stored past the array, in the
\* emulator's own stack.  What the emulator does from there on is undefined,
\* and nothing is said of it.
CopyVariablePastArray ==
    /\ AtVariable /\ WellFormed /\ Full(env)
    /\ CopyString("variable", environment[at + 1])
    /\ at' = at + 1
    /\ phase' = "overrun"
    /\ UNCHANGED <<inputs, extent, layout, limits, argv, env, sp, o0>>

AuxRecords == 11
AuxWords == 8 * AuxRecords   \* eight words to a record, of which two are used

\* 16 bytes for AT_RANDOM.
Random == <<84281096, 16909060, 84281096, 16909060>>

AT_NULL == 0
AT_PAGESZ == 6
AT_PLATFORM == 15
AT_RANDOM == 25
AT_EXECFN == 31

\* Between them AT_HWCAP, AT_HWCAP2, and AT_UID to AT_EGID.
Aux(random, execfn, platform) ==
    << AT_RANDOM, random, AT_PAGESZ, Page, 16, 2561, 26, 0,
       11, 543254892, 12, 1768580441, 13, 1700882531, 14, 1852401779,
       AT_EXECFN, execfn, AT_PLATFORM, platform, AT_NULL, 0 >>

\* One word more if the pointers are even in number.
Filler(pointers) == IF pointers % 2 = 0 THEN 1 ELSE 0

\* Mutant of StartupWords: the filler is for the odd numbers.
FillsTheOdd(pointers) == 4 + (1 - Filler(pointers)) + AuxWords + 1 + pointers + 1 + 1

\* Words from argc to the top of the stack.
StartupWords(pointers) == 4 + Filler(pointers) + AuxWords + 1 + pointers + 1 + 1

\* -s 0 is no stack, but the least that -s takes besides, a kilobyte, will do.
ASSUME StackAssumption == StackCommit >= 4 * StartupWords(2 * MaxArgs)

\* Mutant of Startup: argv has no end.
StartupWithoutEnd(aux) == <<Len(argv)>> \o argv \o env \o <<0>> \o <<0>> \o aux

Startup(aux) == <<Len(argv)>> \o argv \o <<0>> \o env \o <<0>> \o aux

\* Below argc a frame is left for the trap handler.
BuildStack ==
    /\ phase = "environment" /\ at = Len(environment)
    /\ LET execfn   == Cell(next, ExecLength, "execfn", 0)
           platform == Cell(execfn.past, PlatformLength, "platform", 0)
           aux      == Aux(base + topOfAux - 16, base + execfn.first, base + platform.first)
           first    == topOfAux - 4 * StartupWords(Len(argv) + Len(env))
       IN  /\ memory' = Written({execfn, platform} \cup Words(topOfAux - 16, Random)
                                \cup Words(first, Startup(aux)))
           /\ next' = platform.past
           /\ sp' = base + first - 64
    /\ phase' = "run"
    /\ UNCHANGED <<inputs, at, extent, layout, limits, argv, env, o0>>

-----------------------------------------------------------------------------
(* brk *)

\* REG_TYPE is unsigned.
Offset(address) == (address - base) % Size

\* Mutant of SetsBreak: the limit is the address of the stack.
SetsAnyBreak(ask) == ask # 0 /\ Offset(ask) >= endOfData /\ ask <= base + bottomOfStack

SetsBreak(ask) == ask # 0 /\ Offset(ask) >= endOfData /\ Offset(ask) < bottomOfStack

\* Mutant of SYS_brk: the break is returned as an offset.
ReturnsOffset(ask) ==
    /\ phase = "run"
    /\ IF SetsBreak(ask)
       THEN /\ brk' = Offset(ask)
            /\ highwater' = Larger(highwater, brk')
            /\ o0' = ask
       ELSE /\ UNCHANGED limits
            /\ o0' = brk
    /\ UNCHANGED <<phase, inputs, at, extent, layout, memory, strings, sp>>

\* o0 is ask already if the break is set.
SYS_brk(ask) ==
    /\ phase = "run"
    /\ IF SetsBreak(ask)
       THEN /\ brk' = Offset(ask)
            /\ highwater' = Larger(highwater, brk')
            /\ o0' = ask
       ELSE /\ UNCHANGED limits
            /\ o0' = base + brk
    /\ UNCHANGED <<phase, inputs, at, extent, layout, memory, strings, sp>>

Next ==
    \/ ScanHeader \/ LayOut
    \/ ReadSegment \/ CopyName \/ CopyArgument \/ CopyOs
    \/ CopyVariable \/ RefuseVariable \/ CopyVariablePastArray \/ BuildStack
    \/ \E ask \in Ask : SYS_brk(ask)

Spec == Init /\ [][Next]_vars

-----------------------------------------------------------------------------
(***************************************************************************)
(* Properties.                                                             *)
(***************************************************************************)

TypeOK ==
    /\ phase \in {"scan", "stopped", "read", "arguments", "environment",
                  "usage", "overrun", "run"}
    /\ headers \in Image /\ arguments \in Arguments /\ environment \in Environment
    /\ {at, base, elfBase, size, endOfData, bottomOfStack, topOfAux, mmapOffset} \subseteq Nat
    /\ {brk, highwater, next, o0} \subseteq Nat /\ sp \in Int
    /\ argv \in Seq(Nat) /\ env \in Seq(Nat)
    /\ \A c \in memory : c.first \in Nat /\ c.past \in Nat

LaidOut == phase \notin {"scan", "stopped"}

\* The bytes of the first n strings.
Bytes(lengths, n) ==
    LET upTo[i \in 0..Len(lengths)] == IF i = 0 THEN 0 ELSE upTo[i - 1] + lengths[i]
    IN  upTo[n]

StringBytes ==
    NameLength + Bytes(arguments, Len(arguments)) + 1 + OsLength
    + Bytes(environment, Len(environment)) + ExecLength + PlatformLength

Between(c, first, past) == first <= c.first /\ c.past <= past

\* What the loader writes lies where the memory map says (sparcos.cxx:
\* 9010-9047): the image below the heap, the startup words in the stack, and
\* the strings above it and below the pages mmap hands out, if they are no
\* more than g_arg_data_commit.  What brk and mmap give away is not in use.
RegionsAreApart ==
    /\ TypeOK
    /\ LaidOut =>
           \A c \in memory :
               \/ Between(c, 0, endOfData) /\ c.kind \in {"segment", "word"}
               \/ Between(c, bottomOfStack, topOfAux) /\ c.kind = "word"
               \/ /\ c.first >= topOfAux /\ c.kind \in {"argument", "variable", "execfn", "platform"}
                  /\ c.past <= mmapOffset \/ StringBytes > ArgCommit

\* Nothing the loader writes is overwritten by what it writes after it: each
\* segment is in memory as the file has it, and each string it copied
\* (sparcos.cxx:9068-9090, 9098-9219).
NothingIsOverwritten ==
    phase = "run" =>
        /\ \A i \in DOMAIN headers :
              IsSegment(headers[i]) =>
                  Cell(Physical(headers[i]) - base, headers[i].file, "segment", i) \in memory
        /\ \A i \in DOMAIN argv :
              \E c \in memory : c.kind = "argument" /\ c.value = i - 1 /\ c.first = argv[i] - base
        /\ \A i \in DOMAIN env :
              \E c \in memory : c.kind = "variable" /\ c.value = i - 1 /\ c.first = env[i] - base

\* What the guest reads at an address: a word that is not written is 0.
WordAt(address) ==
    LET found == {c \in memory : c.kind = "word" /\ c.first = address - base}
    IN  IF found = {} THEN 0 ELSE (CHOOSE c \in found : TRUE).value

StringAt(address) ==
    LET found == {c \in memory : c.kind # "word" /\ c.first = address - base}
    IN  IF found = {} THEN <<"none", 0>> ELSE LET c == CHOOSE c \in found : TRUE IN <<c.kind, c.value>>

\* The first i for which the word at address + step * i is 0.
FirstZero(address, step) ==
    CHOOSE i \in 0..(2 * MaxArgs + AuxRecords) :
        /\ WordAt(address + step * i) = 0
        /\ \A j \in 0..(i - 1) : WordAt(address + step * j) # 0

\* _start finds, from sp up, a register frame, argc, as many pointers to
\* arguments, 0, pointers to variables to the next 0, and the auxiliary
\* records to AT_NULL, and all it points to is there: for every number of
\* arguments, those over MaxArgs dropped, and as many variables as aenv has
\* room for after the emulator's own (sparcos.cxx:9225-9327).  The loader
\* does not see to it that there are no more (9145-9158).
StartupIsWalkable ==
    phase = "run" /\ Len(environment) < MaxArgs =>
        LET argc     == WordAt(sp + 64)
            argvAt   == sp + 68
            envAt    == argvAt + 4 * (argc + 1)
            count    == FirstZero(envAt, 4)
            auxAt    == envAt + 4 * (count + 1)
            records  == {<<WordAt(auxAt + 8 * i), WordAt(auxAt + 8 * i + 4)>> :
                            i \in 0..(FirstZero(auxAt, 8) - 1)}
            Value(type) == (CHOOSE r \in records : r[1] = type)[2]
        IN  /\ argc = IF Len(arguments) < MaxArgs THEN Len(arguments) + 1 ELSE MaxArgs
            /\ \A i \in 0..(argc - 1) : StringAt(WordAt(argvAt + 4 * i)) = <<"argument", i>>
            /\ FirstZero(argvAt, 4) = argc
            /\ count = Len(environment) + 1
            /\ \A i \in 0..(count - 1) : StringAt(WordAt(envAt + 4 * i)) = <<"variable", i>>
            /\ Value(AT_PAGESZ) = Page
            /\ \A i \in 0..3 : WordAt(Value(AT_RANDOM) + 4 * i) # 0
            /\ StringAt(Value(AT_EXECFN)) = <<"execfn", 0>>
            /\ StringAt(Value(AT_PLATFORM)) = <<"platform", 0>>

\* sp and the stack's double words are aligned as SPARC needs it, however
\* many pointers there are, if the start of the memory is (sparcos.cxx:
\* 9252-9257, 9324-9327): std and ldd of a register frame do not trap.
SpIsAligned == phase = "run" /\ base % 8 = 0 => sp % 8 = 0

\* The break stays in the memory set aside for it, whatever the guest asks:
\* an address below its own memory, in the stack, or one that wraps
\* (sparcos.cxx:3640-3644).
BreakIsInTheHeap ==
    LaidOut => /\ endOfData <= brk /\ brk <= highwater
               /\ highwater < bottomOfStack \/ highwater = endOfData

\* brk returns the break as it is after the call: one that does not return
\* what was asked has not moved it, and sbrk() counts on that, if the memory
\* ends where addresses do or before (sparcos.cxx:3634, 3648, 3654).
BrkReturnsTheBreak ==
    [][phase = "run" /\ base + size <= Size => o0' = base + brk']_vars

=============================================================================
