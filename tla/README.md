# A verification project for sparcos

`sparcos` runs Linux programs for the 32-bit SPARC V8 on another machine. It interprets the
guest's instructions (`src/sparc.cxx`, `src/sparc.hxx`) and carries out its system calls on the
host (`src/sparcos.cxx` with the `djl_*.hxx` headers). This directory holds TLA+ models of its
parts, the TLC configurations that check them on small instances, and proofs, checked by TLAPS,
that hold for every value of the constants.

1. [The system](#1-the-system): components, state, operations, interactions, what is hard
2. [The modules and the code](#2-the-modules-and-the-code)
3. [The runs](#3-the-runs): what each checks, bounds, fairness
4. [What is proved](#4-what-is-proved)
5. [Where the code and its documents disagree](#5-where-the-code-and-its-documents-disagree)
6. [What is not modelled](#6-what-is-not-modelled)
7. [What could follow](#7-what-could-follow)

## 1. The system

One process, one thread. `main` (sparcos.cxx:10480) parses the command line, `load_image32`
(8775-9366) reads a static ELF file into one array of bytes, lays out arguments, environment,
stack, heap and the mmap region in it, and `Sparc::run` (sparc.cxx:887-1483) executes instructions
until `exit`, a signal or `emulator_hard_termination`. `sparcos.cxx` is also the source of sibling
emulators (M68 with CP/M, x86, RISC-V, ARM): what `SPARCOS` does not compile is no part of this
system, nor are the branches for Windows and macOS.

| component | code | state | operations | correct when |
|---|---|---|---|---|
| Register windows | sparc.hxx:130-185, sparc.cxx:589-637, 1340-1360, sparcos.cxx:5718-5780 | `cwp`, `wim`, the ring of windows, the save areas in guest memory | SAVE, RESTORE, window overflow (trap 5) and underflow (trap 6), quiet traps | the guest sees an unbounded stack of frames; no spill or fill loses a register |
| Sequencing | sparc.cxx:887-986, 1320-1360 | `pc`, `npc`, `delay_instruction`, the end flag | every control transfer, Tcc, the second execution of a SAVE or RESTORE that trapped, exit | it is the architecture's PC and nPC |
| Integer unit | sparc.cxx:112-134, 1000-1260 | `y`, the condition codes | add, subtract, logic, shift, multiply, divide, `mulscc`, tagged forms, the conditions of Bicc and Tcc | results and codes are those of integer arithmetic |
| Floating point | sparc.cxx:145-170, 776-886, 1262-1319 | 32 registers, `fsr` | arithmetic, compare, convert, quad in software | IEEE results and condition codes |
| Memory access | sparc.cxx:1364-1477, sparc.hxx, djl_os.hxx | the guest's memory | loads, stores, swaps, byte order | big-endian values at the right width and sign |
| mmap region | djl_mmap.hxx | the sorted list of mappings, `peak` | `allocate`, `free`, `resize`, `binary_search` | calls change the pages they name and no others |
| brk | sparcos.cxx:3629-3659 | `g_brk_offset` and its high water mark | brk | the heap stays below the stack and keeps its contents |
| System calls | sparcos.cxx:2283-2369, 2430-5712 | errno, the carry bit, the host's descriptors | the 53 calls `SparcToRiscV` lists; `svc` has the code of more, which a SPARC guest cannot reach | carry is set just when the call failed, with the error number of that call |
| Directories | sparcos.cxx:3244-3630 | one static `DIR` and the descriptor it is for | getdents, close, lseek | each descriptor enumerates its own directory once |
| Console input | djl_con.hxx:625-718, 772-795, sparcos.cxx:3094-3132, 5401-5422 | `s_kbhitPeekByte`, `look_ahead` | pselect6, read of descriptor 0 | the guest reads the text, and a byte said to be ready is there |
| Terminal modes | sparcos.cxx:5500-5662 | `g_termios`, the host's termios | TCGETS, TCSETS and other ioctl calls | the guest reads what it set, the host does it |
| Loader | sparcos.cxx:8775-9366 | memory layout, first `sp`, auxiliary vector | `load_image32`: passes over the headers, segments, strings, the startup words | what is loaded stays whole, `_start` finds it, sp is aligned |
| Sort, search, symbols | sparcos.cxx:1962-2038, 6348-6466 | the symbol table | `my_qsort`, `my_bsearch`, symbol lookup | sorted, and the entry at or below an address |
| Tracing | djltrace.hxx, `trace_instructions` | a log file | none the guest sees | |

Interactions. `run` fetches, executes and calls `handle_trap` for SAVE, RESTORE and Tcc.
`handle_trap` (sparc.cxx:589) ignores four traps, enters a handler the guest installed, or calls
back sparcos.cxx, where `emulator_invoke_sparc_trap5` spills a window,
`emulator_invoke_sparc_trap6` fills one and `emulator_invoke_svc` is the system calls (trap 0x90).
These work on the guest's registers and memory, on CMMap for mmap, munmap and mremap, and on
ConsoleConfiguration for descriptor 0. All calls are synchronous; the world outside (files, pipes,
the terminal) moves on between any two of them.

What is hard. Nothing runs in parallel in the emulator, so its hazards are those of long sequences
and of state kept in two places: `wim` against the contents of the windows; the retry of an
instruction against the delay slot it stands in; an index into a list that was changed since; two
one-byte caches before one file; a carry bit set by one instruction for the next but two; static
variables that outlive the descriptor they belong to; settings of the terminal kept three times. `PROJECT.json` lists each at its line, with
the properties that would catch it, or why there is none yet.

## 2. The modules and the code

| module | what it is |
|---|---|
| `CallFrames` | abstract: procedure frames on a stack without a limit |
| `RegisterWindows` | the windows, `wim`, and the two trap handlers |
| `RegisterWindowsProofs` | its theorems |
| `DelayedTransfer` | abstract: PC and nPC of SPARC V8 |
| `Sequencer` | `pc`, `npc`, `delay_instruction` of `run` |
| `SequencerProofs` | its theorems |
| `AddressSpace` | abstract: mapped pages and what they hold |
| `MMap` | CMMap and the three system calls on it |
| `MMapProofs` | its theorems |
| `Alu` | the integer instructions as operators |
| `AluInstructions` | one instruction with any operands, any `y`, any codes |
| `AluRoutines` | double-word sums and comparisons, the v7 multiplication loop |
| `InstructionProofs` | theorems about the four modules of `MCInstructions` |
| `FloatingPoint` | floating-point operations, comparisons and conversions, where the host does not do them |
| `MemoryAccess` | loads and stores, byte order |
| `MCInstructions` | the last four together, for TLC |
| `ConsoleInput` | the two one-byte caches before redirected input |
| `DescriptorTable` | abstract: POSIX's descriptors, and directories read name by name |
| `SystemCalls` | the system calls: result, carry, errno, descriptors, the one `DIR` |
| `SystemCallsProofs` | its theorems |
| `MemoryLayout`, `MCMemoryLayout` | `load_image32` and brk; small files and command lines for TLC |
| `MemoryLayoutProofs` | its theorems |
| `SymbolTable` | `my_qsort`, `my_bsearch`, the symbols from the file to a lookup |
| `SymbolTableProofs` | its theorems |
| `Terminal` | the settings of the terminal |
| `MCConsole` | `ConsoleInput` and `Terminal` together; two settings for TLC |
| `ConsoleProofs` | theorems about the two modules of `MCConsole` |

The `map` of `PROJECT.json` names the lines each definition stands for. A variable called history
or interface is one the code does not have: no guard looks at it, and the properties do.

### Register windows

`regs[w]` is the locals and ins of window `w`; the outs of `w` are the ins of `w-1`, as
`Sparc_reg` aliases them. One local, one in and `i6` (the frame pointer) stand for the sixteen
registers, which spills and fills copy in one loop each. `wim` is the set of its 1 bits. An
address is the number of 64-byte save areas below the top of the stack. `sps`, the stack pointers
of the live frames, is a history variable. `redo` is the SAVE or RESTORE that is executed again,
as `run` does without anything in between.

The handlers are taken whole. `OverflowTrap` finds the window two below the current one, stops the
emulator if its `sp` is 0, and otherwise copies it to its save area, zeroes it in a debug build,
and rotates `wim` right. `UnderflowTrap` does the reverse. `halted` stands for
`emulator_hard_termination`.

The guest keeps the calling convention: SAVE moves `sp` down, `fp` is not written, and a frame's
save area holds nothing else. Without these a spill overwrites what the guest put there, on
hardware as well.

`CallFrames` knows no windows. `Frames` is the refinement mapping: a frame is in its window if it
is among the newest `Resident`, otherwise in its save area.

### Sequencing

A state is the top of `run`'s loop. The loop keeps the address of an instruction it has executed
in `pc`, the next in `npc`, and a `delay_instruction` of 0, 1 or 2, so the architecture's PC is
computed: `Pc` and `Npc` are what the first lines of the loop make of the three. An action is one
instruction: plain, call or jmpl, a branch taken or not with its annul bit, a window trap with the
return to the top of the loop, a trap to an installed handler, exit, hard termination. `executed`
is the interface: what completed, where, and what it left in the link or saved registers. A
control transfer in the delay slot of another is left out by a guard.

### mmap

`entries` is the list of CMMap, `pages` the memory, in pages. `call` is the interface: the call
just made and its result. Each path of `allocate`, `free` and `resize` is an action, with the
`memset` and `memcpy` that go with it. `binary_search` is written as turns of its loop, on 0-based
unsigned indices, and every action goes by what it finds (`Matches`, `SearchIsWild`), in lists in
order and in others. `PastEnd` is what `entries[ match + 1 ]` can read as for the last entry: a slot
of the vector's buffer that is not in use, or memory after it. Differences are unsigned as in the
code: a gap between mappings that overlap is more than any length (`AtMost`). `wild` is set when the
code leaves the list, or clears or copies what is not in the region; nothing is promised from then on.

The guest may pass any page of the region and any length but 0, as old length of mremap too; the
code checks none of these, and neither does the model. How it behaves is in two history variables:

- `strayed`. A guest that unmaps pieces of a mapping and remaps whole mappings gets an address space
  (`AddressSpace`). One that names pages it has not mapped, unmaps several mappings at a time, or
  remaps the head of a mapping or more than one, has strayed, and that promise ends.
- `overran`. `resize` takes an mremap for one that shrinks when the new length is not more than the
  old one the guest gives (djl_mmap.hxx:237), and does not compare the old one with the mapping's. An
  old length that goes past the mapping so makes it longer, over the next one. Until that has
  happened, whether the guest has strayed or not, `Validate` and `SearchIsExact` hold; after it they
  do not, and calls go on on a list that is no longer sorted (section 5).

`MaxEntries` bounds the lists that are followed after that: overlapping mappings can be made without
end. `ListView` leaves out of a state what no step and no property of it looks at: `peak`, the last
call, and the contents of the pages once the guest has strayed.

### Integer unit, floating point, memory access

`Alu` has an operator for each group of instructions: operands, condition codes and `y` to `[rd,
icc, y]`. Carry and overflow are computed as the code does, by signs and by comparisons with the
cut result. Words have `Width` bits; nothing in the definitions knows that it is 32. That register
0 reads as 0 and is not written is in `MemoryAccess` for loads and left out of `Alu`.

`FloatingPoint` has the numbers as signs and sizes, multiples of one half up to `Largest`, then
infinity, a quiet and a signaling NaN. What `do_fadd`, `do_fmul` and `do_fdiv` and their kind
decide themselves (infinities, zeroes, NaNs and their signs) is as in the code; what they leave to
the host is the nearest such number. The reference the results are compared with is written from
IEEE's cases, not from the code's.

`MemoryAccess` has bytes of `Radix` values, a memory of `Bytes` of them, and every load and store
with the getters, setters and `flip_endian` they go through, on a little-endian host. One access to
any memory and registers is compared with a big-endian memory: its value, its sign, and that
nothing else has changed.

`MCInstructions` puts these and `AluRoutines` into one instance: a behaviour is of one of the four.

### Console input

A state has the bytes written to the pipe so far, those not yet taken from it, and the two caches:
`peek` of `portable_kbhit` and `look` of `redirected_getch`. `told` is the last readiness answer.
A call that would block is an action that is not enabled; as the emulator has one thread and the
guest waits, nothing sees it half done. (A readiness check of an open, empty pipe blocks too: it
is a `read`.) Two bytes have a fate of their own, in the model as in the code: a final CR is
delivered twice, and 0xff is the end of the input where char is signed (`Returns`).

### System calls

`SystemCalls` has an action for each call that `SparcToRiscV` lists, or for a few whose paths are
the same; calls that are not listed are one more (`Unknown`). Each action is the whole call: the
host's answer, which is any it may give, errno, `o0` and carry through `update_result_errno` where
the code goes through it and directly where it does not, the descriptors, and the one `DIR`.
`open` is the host's table of descriptors; `findFirst` holds the number of names that `readdir`
has buffered, for it reads more than it returns, and that is why a seek on the descriptor does not
move the enumeration. The words have `Size` values, so that a position that looks like an error
is among the ones in the run.

`last` and `astray` are history variables: what the host really did, and whether the guest has
made one of five calls the emulator has no good answer to (a second directory before the first
is closed, a seek inside an enumeration, a buffer too small for a name, close of -1, a position
that looks like an error). `Table` is the refinement mapping to `DescriptorTable`: what
the guest sees as the position of a directory is the host's less what is buffered.

### Memory layout

Each pass of `load_image32` over the program headers, and each copy of a string, is a step:
`ScanHeader` and `LayOut` for the size and the limits, `ReadSegment`, `CopyName`, `CopyArgument`,
`CopyOs`, `CopyVariable`, and `BuildStack` for the startup words. Addresses inside the memory are
offsets, as in the code. What is written is a set of cells, each a word, a string or a segment;
what a later write covers goes. `SYS_brk` is the system call on the result, with the offset
computed in unsigned words, for any address.

The loop over the arguments stops when the array of their pointers is full; the one over the variables
of `-e` does not (sparcos.cxx:9145-9158). A variable more than `aenv` has room for has its pointer
written past the array, into the emulator's own stack: `CopyVariablePastArray`, after which the phase
is `overrun` and nothing more is said, since what the emulator then does is undefined. A variable
without an equal sign ends the emulator (`RefuseVariable`). The environments of the run are of any
length, and so are those of the proofs.

### Symbols

The C library's interface of `my_qsort` and `my_bsearch` is abstracted to a table of records with
values. `load_image32`'s loops over the symbols (which ones to void, which to drop, the sizes of those
that have none) are a step each. The sort between them is a step for each turn of its loop
(`Partition`) and one for each of its calls (`Recurse`): `part` is the call at work, its range, its
two pointers and the pivot's place, and `calls` the ranges of the calls still to be made. A call
makes the one for the lower part first, and all that come of it, so the next call is always the one
for the lowest range. The two scans look beyond the range of the call, as nothing in the code keeps
them from it. `my_bsearch` is written as turns of its loop, and a lookup is one step.

### Terminal

`host` is the terminal, `g_termios` the copy `read` goes by, `buffer` the guest's structure,
`orig_termios` what is restored. Flags are kept as those of the low and the high byte, so that
`swap_endianness` is what it is; control characters are those of the six places that one of the two
maps moves, and one that stays. The host may refuse any change. The three descriptors are a
terminal or not, in any mix.

## 3. The runs

| run | question | bounds |
|---|---|---|
| `windows_small` | Do the windows implement call frames? Does every retry complete? | 3 windows, 4 save areas, 2 values, debug build |
| `sequencer` | Do `pc`, `npc`, `delay_instruction` implement PC and nPC? | code at 0..5 |
| `mmap` | Do the calls change the pages they name and no others? Is the list sorted, disjoint and searchable until an mremap makes a mapping longer by its old length? | a region of 5 pages at 2, 2 contents, calls of up to 3 pages, lists of up to 3 mappings after such an mremap, the slot past the end reads as 0 or the region's end |
| `mmap_past_end` | Does the list stay in the region? (it does not) | the same, the slot may read as 9 |
| `instructions` | Is each instruction exact? Sequences of them? Do conditions compare? Is memory big-endian? | 4-bit words: all operands, codes and y; floating-point sizes up to 3, integers -2..1; 8 bytes of memory, each a bit |
| `console_input` | Is any byte lost, doubled or overtaken? Is ready right? Does the guest get the text, to its end? | 4 bytes of CR, LF, 0xff and two others |
| `console_peek` | Does a read after a check return the byte the check found? (not always) | 4 bytes |
| `system_calls` | Does carry mean failure, with the right error? Are descriptors POSIX's? Does the `DIR` belong to an open directory? | 3-bit words, 2 error numbers, 2 descriptors and a fake one, a file, a pipe, 2 directories of 2 names |
| `layout` | Is what is loaded whole and in place? Can `_start` walk the stack? Does the break keep to the heap? | 5 files of up to 3 headers, 5 command lines, 6 environments, room for 3 arguments and 3 variables, brk of 63 addresses |
| `terminal` | Is the copy in step? Does the guest read back what it set? Is the terminal restored? | 1 flag, 2 characters, 2 initial settings, any of the 3 descriptors a terminal |
| `terminal_round_trip` | Does setting what was read change nothing? (it does) | the same |
| `symbols` | Does the sort sort? Is what a lookup finds right, and is it found? | every table of 4 symbols with values 1, 2, 4, 7, named or not, with a size or not |

Why the bounds are enough. Three windows are the fewest the code allows, and every mechanism is
there: one window is invalid, one is current, and a third call spills. Four frames go round that
ring. That the shipped ring of eight and the release build behave the same is proved (section 4).
Data is copied, never looked at: two values tell a lost word from a kept one. Six addresses hold a
branch, its slot, a target before and one after it, and the two instructions an annulled slot is
skipped for. Five pages hold three mappings with a gap, which is what it takes for an insertion to
shift an index on either side and for a search to have a middle, a low and a high half. Four bits
hold both signs, zero, the extremes, the two tag bits and a carry across; the double words of
`AluRoutines` take it into a second word. Sizes up to 3 hold a product that is finite, one that
overflows and one that has to be rounded. Eight bytes hold a pair of words. Four bytes of input
hold a CR, what is after it, and one byte for each cache. Two descriptors let a number be closed
and given out again while the other is open, and two directories let an enumeration be taken over;
two names leave one to be lost. The files start low, start high, come out of order, are not
aligned, and lack physical addresses, which are the cases of `LayOut`; the number of arguments
and variables has both parities, each goes one over the limit, and a malformed variable comes before
and at it; one argument is longer than its area.
Four symbols leave the partition with two on either side, and two equal values among others.

Deadlock is not checked: the guest may exit or be terminated, the input ends, a routine is over, a
file is refused.

Fairness. `RetryCompletes` is checked under `WF_vars(Next)` of RegisterWindows: `run` is a loop
without a wait, and it executes whatever instruction it is at. `ReadsToTheEnd` is checked under
`WF_vars(Getch)`: the guest of that property goes on reading, and a read that does not block
returns. Neither the writer nor the readiness checks are assumed to go on. No other part of the
system has a promise about what must happen: every other call returns by itself.

The constants that are bounds: `StackSlots`, `Word`, `MaxAddress`, `Length`, `Content`, `MaxLen`, `MaxEntries`,
`Width`, `Half` (of `Alu` and `SystemCalls`), `Largest`, `IntLimit`, `Radix`, `Bytes`, `Values`,
`Other`, `MaxInput`, `File`, `Directory`, `Names`, `MaxFd`, `MaxErrno`, `Position`, `Image`,
`Arguments`, `Environment`, `Ask` and the sizes of MemoryLayout, `Count`, `Value`, `Flag`, `Char`,
`HostModes`.

Mutants. Each property of a passing run has a definition that changes the model as a plausible bug
would change the code (a rotation the wrong way, an index not looked up again, a search that stops
early, a delay slot forgotten, a descriptor kept after its directory is closed, a pivot not
followed), under which TLC finds the property violated.

## 4. What is proved

**Register windows.** For every number of windows from 3 to 32, every stack size, every set of
register values, every set of quiet traps and both builds (the `ASSUME`s of RegisterWindows):

- `TypeCorrect`: `Spec => []TypeOK`.
- `Invariant`: `Spec => []Inv`, and `Safety`, its parts: one window is invalid and holds no frame,
  the save areas are found where the callee's frame pointer says, a retry does not trap, the
  emulator ends only at the bottom of the call chain.
- `WindowsImplementCallFrames`: `Spec => ImplementsCallFrames`. The windows are, to the guest, a
  stack of frames without a limit.

The argument. `SpChain` is the heart: the spill goes by the `sp` of a window near the far end of
the ring and the fill by the out register of another, and the two meet in the same save area only
because each live frame's `i6`, wherever it is kept, is its caller's `sp`. This is not inductive
without `OneInvalid`, which bounds the frames in windows by the distance from `cwp` to the invalid
window, nor without the last two conjuncts of `Inv`, which say that a retried instruction is one
the guest could execute: a RESTORE that trapped has a frame to return to. The proof goes through
what a step does to `Frames`: `SaveFrames`, `RestoreFrames`, `OverflowFrames`, `UnderflowFrames`,
`WriteFrames` and `WriteOutFrames` each say which frames change and which are equal, and the
invariant and the refinement are both read off them. A spill and a fill leave `Frames` as it is:
they are stuttering steps of `CallFrames`. Modular arithmetic is kept out by `Ring`, `Rotation`
and `Layout`.

**Sequencing.** For code of any size, with the handler at any address:

- `SequencerTypeCorrect`: `delay_instruction` stays in 0..2, as `run` asserts.
- `SequencerImplementsDelayedTransfer`: `~Installed` and `Spec` imply `ImplementsDelayedTransfer`.
  With handlers of its own for window traps the guest does not get that (section 5).

**Instructions.** For words of every width (`Half` the weight of the top bit), and floating-point
numbers of every size:

- `SumsAreAlwaysExact`, `DifferencesAreAlwaysExact`, `ConditionsAlwaysCompare`: add and subtract, with
  and without carry, tagged and not, their carry and overflow, and the sixteen conditions after a
  subcc, signed and unsigned. From an invariant about the last instruction alone, by `SumFlags`,
  `DifferenceFlags` and `ConditionTable`; they need no more than that `Size` is twice `Half`.
- `QuotientsAreAlwaysExact`: udiv and sdiv of the double word in `y` and `rs1`, with the overflow and
  the quotient that stands for one too large. That `y` is a word at all is an invariant of every
  instruction (`YIsWord`), and for those that work on bits it is that the weights of distinct bits
  add up to less than `Size` (`OfBitsIsWord`). `TruncatedIsQuotient` has the quotient of naturals
  and the rule of signs against the definition that multiplies back.
- `DoubleWordsAreAlwaysExact`: addcc and addxcc add two double words, subcc and subxcc compare them.
  `DoubleInv` ties the codes after the low words to what the high ones make of them.
- `PartialProductsAreAlwaysExact`: the loop of `mulscc` and its correction. `MultiplyInv` says after
  every step that the sum so far and the bits of `y` used up are the product of `a` and as many bits
  of `b`; the sum has one bit more than its word, which is `icc.n` xor `icc.v` (`SumOf`). `OneStep`
  keeps it, `FirstStep` and `LastStep` are its ends.
- `FloatConditionsAlwaysCompare`, `ConversionsAlwaysTruncate`: the conditions after fcmp for any two
  numbers, NaNs included, and a conversion to an integer, for any range of integers.
- `ArithmeticIsAlwaysIEEE`: sums, differences, products and quotients, with infinities, zeroes of
  either sign and NaNs in any place. An operand stands for fractions near it, an infinity for two
  large ones far apart and a zero for two small ones: `ProductOf`, `QuotientOf`, `SumOfFractions` and
  `DifferenceOf` say what arithmetic makes of two fractions. Where all agree the code's result has to
  be theirs, and where they do not, a NaN (`SumIsIEEE`, `DifferenceIsIEEE`, `ProductIsIEEE`,
  `QuotientIsIEEE`, one case for each kind of operand). `Huge` is large enough for every `Largest`.
- `MemoryIsAlwaysBigEndian`: loads and stores of every width, of a memory and registers that hold
  anything, for bytes of every even number of values. `BytesOfJoined` and `WordOfBytes`: bytes and
  the word they make determine each other; so what the host puts together, turns round and takes
  apart is the number with its first byte the highest (`GetIsPart`, `SetIsPart`). The second store
  of a pair leaves the first alone (`SetPairIsPart`), and a sign extended above a word leaves the
  remainder (`ExtendedIs`, for which a byte has a sign bit). Then one lemma for each instruction.

`Weight` and the sum of a word's bits are recursive functions. That such a function exists and has
its values comes from `Recursion`, and what it is at every place from `Induction`: a set of naturals
that has 0 and the successors of its members has all, since what it lacked would have a least
element. The other modules do the same where they need induction.

**mmap.** For regions and mappings of any length and any contents, from `PastEndIsInside`, that the
slot past the vector's end reads as no address past the region (`mmap_past_end` shows what happens
without it):

- `MappingsAreAlwaysValid`: `Spec => []Validate`: the list is sorted, its mappings disjoint and in
  the region, after any calls, those that have strayed included, up to an mremap that makes a mapping
  longer by an old length that goes past it. The invariant, `IInv`, is `ListInv` until then, and that
  such a guest has strayed. `ListInv` has the order for every pair of entries (`InOrder`), since the
  neighbours that `validate` compares are not enough after an entry is taken out. Inserting,
  removing, replacing and appending keep it under the conditions that `InsertKeepsOrder`,
  `RemoveKeepsOrder`, `ReplaceKeepsOrder`, `AppendKeepsOrder` give; what is left for each call is to
  meet them. For `allocate` that is `GapFacts`: the first gap that is long enough is one between all
  entries, and in a list in order it does not wrap around. An unmapping in the middle removes one
  entry and inserts two (`AroundIsOne`). For a move, the second search finds the mapping that is to be
  erased (`MremapToGapErases`), since the list with the new mapping in it is in order too.
- `CallsImplementAddressSpace`: `Spec => ImplementsAddressSpace`. `CoveredByInsert`,
  `CoveredByRemove`, `CoveredByReplace` and `CoveredByAppend` say which pages an operation on the
  list adds and takes away; that a list is still in order afterwards means that the pages added
  were in no mapping before. For a guest that has not gone astray, `PieceFacts` and `WholeFacts`
  give the one mapping its address is in, and that the search does not leave the list.
  `MapsPages`, `UnmapsPages`, `RemapsPages` and `MovesPages` then make each path of the code a step
  of `AddressSpace`; growing in place and moving are the same step, with and without a new address.
- `SearchIsAlwaysExact`: `binary_search` finds the mapping at an address just when there is one, and
  leaves the list just when the address is below all of it, in every list such calls have made. `Searched` is the invariant of its
  turns: what is sought is in the part of the list that is left, and that part has shrunk.

**System calls.** For words of every size, any number of descriptors, files, directories and
names, and a host that answers anything:

- `CarryAlwaysMeansFailure`, `ErrorIsAlwaysItsOwn`: each call is `Honest` about itself, whatever
  the state before it, so that there is nothing to carry from call to call. What has to be shown is
  that no result a call returns in success is one of -4095..-1.
- `DirAlwaysHasItsDescriptor`: from `Descriptors`, after any calls at all, the confusing ones too.
- `CallsImplementDescriptorTable`: `Spec => ImplementsDescriptorTable`. It needs
  `BufferIsTheRest`: as long as the guest has not gone astray, what `readdir` has buffered is what
  is left of the directory, and the host's position is at its end. Without it a close and a new
  enumeration could return a name twice. `TableFacts` and `TableOfOthers` say what a call that is
  about one descriptor does to `Table`; then each action is one of `DescriptorTable`'s.

**Memory layout.** For every file, command line, environment and size of the parts:

- `SpAlwaysAligned`: the first `sp` is a multiple of 8 if the memory starts at one. The bottom of
  the chain is that the limits are multiples of 16 (`RoundUpTo16`) and the words below the
  auxiliary area an even number (`StartupWordsAreEven`).
- `BreakAlwaysInTheHeap`, `BrkAlwaysReturnsTheBreak`: what brk does with any address, unsigned
  wrap-around included (`OffsetIsWord`).
- `RegionsAreAlwaysApart`: each thing written lies in the part of the memory set aside for it.
  `NothingIsEverOverwritten`: it is all still there when the program starts. `StartupIsAlwaysWalkable`:
  `_start` finds argc, argv, the variables and the auxiliary records by walking up from `sp`.

The last three are one induction, `MemoryInv`: none holds without the others. `Placed` says where
every cell lies, `Apart` that no two overlap, and `Present` that what the steps so far wrote is
there; a write keeps what it does not overlap, so that `Present` needs `Placed`, and `Placed` needs
the bounds the passes over the headers have found (`Scanned`, `ImageFits`) and how far the strings
have come (`Copied`). `BytesAddUp` says that the strings take as much as their lengths add up to,
which is what `LayOut` has set aside, by induction over them. Then `StackHolds` describes the words
that `BuildStack` writes, and `WordsAreApart`, that they are disjoint.

They rest on what a linker and the constants of the code guarantee: segments of a file do not
overlap and take no more in the file than in memory (`LinkedAssumption`); the stack, whatever `-s`
says, has room for the startup words, of which `MaxArgs` bounds the number (`StackAssumption`);
every string has its terminating 0, so that none is empty (`StringsAssumption`). Of the number of
variables nothing is assumed: `StackHasRoom` needs that they are no more than `MaxArgs`, and has it from
the guard of `CopyVariable`, as `CopyVariablePastArray` does not lead to a start of the program. What
`StartupIsAlwaysWalkable` says is for the lists that fit, which is the hypothesis of
`StartupIsWalkable`.

**Console input.** For inputs of any length and of any bytes, a host with signed or unsigned chars,
and a terminal that maps CR to LF or does not:

- `ReadyAlwaysMeansByte`: after a readiness check that said yes the next read is not told that the
  input ended, unless the byte is a 0xff that is taken for the end.
- `EveryByteIsAlwaysSomewhere`: what was delivered, then the byte in `look_ahead`, the one in
  `s_kbhitPeekByte` and the file's rest make up what was written, but for CR, LF and 0xff. `ByteInv`
  says it of the plain bytes of `Rest`; each way through `redirected_getch` takes one or two bytes
  off the front of that (`GetchTakes`), and a readiness check only moves one (`KbhitMoves`).
- `AlwaysDeliversTheText`: a guest that has read to the end has got the text, if no two CRs are in a
  row and none is the last. `TextInv` says how far the guest is in it: `Reached(p)`, that `p` bytes
  are behind it, that they made the text delivered, and that the rest is what is still to come. It
  has to leave out inputs with two CRs in a row as soon as they are written, not when they are read.

What is filtered out of a list and what is left is `Keeps`, with the laws of appending a byte
(`WithoutOneMore`, `PlainBytesOfMore`, `TextOfMore`).

**Terminal.** For any flags, characters and settings (0 is a character, and the terminal starts with
settings made of these: `SettingsAssumption` of `MCConsole`): `CopyIsAlwaysInStep`, `TerminalIsAlwaysRestored`, `AlwaysReadsBackWhatItSet`. The
three hold each other up (`TerminalInv`): that the terminal is restored needs what was saved to be
the original until the end, and that a guest reads back what it set needs the host's settings to be
what the last change made of the structure, through two maps that are not inverse (`ThereAndBack` is
what is left).

**Symbols.** For tables of any length, with any values and sizes:

- `SymbolsAreAlwaysSorted`: the list has every symbol of the program once, in the order of values. The
  sort has no bound on its two scans, and so the proof is also that it stays in its range. The
  invariant of the call at work, `Divided`, has for each scan an entry that will stop it: the pivot
  at first, then what the last swap put there. For the sort as a whole (`Sorts`) it is `Ordered`,
  any two entries are in order already or both in the range of a call, at work or to be made, and
  `Waiting`, those ranges are apart: when no call is left all are in order. A swap keeps both, since
  what it moves stays in the range at work (`SwapSorts`, `MeetingSorts`, `RestSorts`, `CallSorts`).
  `Held`, that the table holds the file's symbols, each named one once, is carried along.
- `LookupIsAlwaysSound`, `SymbolsAreAlwaysFound`: what a search finds compares equal, and it finds
  something if there is an entry that the comparisons with all others lead to (`IsTarget`,
  `Searched`). Sizes made for a table without any reach to the next value, so that one of them, the
  last with the highest value at or below the address, is such an entry (`ToNext`, `ReachFacts`,
  `HighestIsFound`); sizes of the file make the one that covers the address the target, if no symbol
  reaches into another (`Disjoint`). That symbols of a file with sizes end inside the address space
  is part of the property's hypothesis: the code computes the end in 32 bits.

Only model-checked is liveness (`RetryCompletes`, `ReadsToTheEnd`), which the prover does not do.
Every other property of a run that passes is the subject of a theorem.

## 5. Where the code and its documents disagree

Three are runs for which TLC finds a counterexample.

- `mmap_past_end`. Growing the last mapping reads `entries[ match + 1 ]` (djl_mmap.hxx:248) and
  may leave the region, which `validate` asserts it does not (57).
- `console_peek`. After a readiness check the next read returns "exactly that byte"
  (djl_con.hxx:640): not if `look_ahead` holds an older one. The reverse happens too: with a byte
  in `look_ahead` at the end of the file the check says that nothing is ready.
- `terminal_round_trip`. The maps between the orders of control characters (sparcos.cxx:1479-1524)
  give the guest `vmin` in the place of `veof`, and the host both of them what the guest has there:
  a program that gets the settings and sets them unchanged has changed the end-of-file character.

Others were met while modelling. They are in the models, as exceptions in a property or as a call
that leads astray, and need no run of their own to be seen:

- Trap 0x83, the flush of windows, does nothing, "because this is for free in the emulator"
  (sparc.cxx:615); a guest that flushes to read its callers' save areas reads old contents.
- A handler for a window trap "could also be written in sparc assembly and installed"
  (sparc.cxx:602); `run` overwrites the `npc` that `handle_trap` set, and it never runs.
- futex (sparcos.cxx:4367, 4374) answers errors without a carry, and so do calls that are not
  listed (5695): carry is cleared for every call (2444) and only `update_result_errno` sets it.
- The list of mappings is "sorted by address" (djl_mmap.hxx:14), and `validate` asserts that no
  mapping reaches over the next (53-54). mremap with an old length that goes past its mapping and a
  new one that is not more (237-242) makes it reach over: with mappings of one page at 2 and 3,
  mremap(2, 2, 2) leaves one of two pages at 2 and the one at 3. The gap between them is then -1,
  unsigned (137), so that the next mmap of one page inserts a mapping at 4 before the one at 3, which
  the search no longer finds. Linux accepts such a call. It is in the model (`Overruns`), and an
  exception of `Validate` and `SearchIsExact`.
- munmap below the first mapping is to be refused (djl_mmap.hxx:220); `mid - 1` wraps (33). munmap
  over several mappings frees one. `peak`, which main reports as "highwater mmap heap"
  (sparcos.cxx:10687), misses growth in place and falls.
- The stack is to be "16-byte aligned" (sparcos.cxx:9252); the pad word gives 8, which is all
  SPARC asks for.
- In CR CR LF no CR is skipped, and a CR at the end of a file is delivered twice (`OddCR`); 0xff,
  widened from a signed char, is taken for EOF (`Skipped`, `TakesFF`).
- Strings longer than `g_arg_data_commit` run into the mmap region: nothing compares them. The
  pointers of variables, with the emulator's own, have an array of 40 (sparcos.cxx:9130), and nothing
  keeps the loop over `-e` inside it (9155), as the loop over the arguments is kept (9115): from the
  fortieth variable on it writes over the emulator's stack.

## 6. What is not modelled

- Rounding, square roots, conversions between precisions: the host's arithmetic. Quads, for
  which it is quadmath's.
- Of the integer unit, tagged traps beyond their condition; of the sequencing, control transfers in
  delay slots of control transfers; memory faults; guests that break the calling convention.
- What system calls store in the guest's memory (stat, times, names): copies of the host's answers
  in another byte order. Code of `emulator_invoke_svc` no SPARC guest reaches, because
  `SparcToRiscV` does not map to it: getdents64, stat and its kind, fork, execve and wait, poll,
  writev, mprotect.
- Terminals as standard input, echo, and the throttled readiness check: a terminal has no bytes of
  its own to account for. Of ioctl, the window size, which is the host's, and TCFLSH, which is
  behind a condition that excludes it. A signal, after which the terminal is not restored.
- The checks of the ELF header, each an exit; malformed files.
- Tracing and disassembly (`trace_instructions`, djltrace.hxx, djl_os.hxx): a log, no state the
  guest sees.
- Sibling emulators: sparcos.cxx, 10,700 lines, is also the source of five others, and most of
  what is mapped nowhere in it is not compiled into this one. linuxem.h is the numbers and structures of all their
  Linuxes.
- The test programs: some 27,000 lines of guests (a BASIC compiler of 13,800 lines among them)
  whose output is compared with files. They are what the emulator runs, not how it works.

Two thirds of the repository's lines are in the last three items. Of what the emulator is made of
the models stand for about a quarter of the lines; the rest is tables of names, formatting, option
parsing and calls that only copy.

## 7. What could follow

- Sequencer and RegisterWindows in one module: a window trap in the delay slot of a return, with the
  windows it needs. Each has the other's half as an action now.
