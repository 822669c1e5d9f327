-------------------------- MODULE RegisterWindows --------------------------
(***************************************************************************)
(* The SPARC register windows of sparc.hxx and sparc.cxx, and the window   *)
(* overflow (trap 5) and underflow (trap 6) handlers of sparcos.cxx, which *)
(* the emulator runs itself when the guest installed none.                 *)
(*                                                                         *)
(* The out registers of window w are the in registers of window w-1, as    *)
(* Sparc_reg lays them out, and wim (the window invalid mask) is the set   *)
(* of its 1 bits.  The guest obeys the calling convention: a SAVE moves sp *)
(* down, fp is not written, a frame's save area holds nothing else.        *)
(***************************************************************************)
EXTENDS Integers, Sequences

CONSTANTS
    NWINDOWS,    \* 3..32 windows; the shipped build has 8
    StackSlots,  \* bound: 64-byte save areas the stack has room for
    Word,        \* bound: the values of a register other than sp and fp
    Quiet,       \* the traps handle_trap ignores: 8, 0x2a, 0x82 and 0x83
    Debug        \* built without NDEBUG: trap 5 zeroes what it spilled

ASSUME WindowsAssumption == NWINDOWS \in 3..32
ASSUME StackAssumption == StackSlots \in Nat \ {0}
ASSUME WordAssumption == 0 \in Word
ASSUME DebugAssumption == Debug \in BOOLEAN
ASSUME QuietAssumption == Quiet \subseteq {8, 42, 130, 131}

Windows == 0..(NWINDOWS - 1)
Addr == 0..StackSlots
Registers == [l0 : Word, i0 : Word, i6 : Addr]
Zeroed == [l0 |-> 0, i0 |-> 0, i6 |-> 0]

VARIABLES
    cwp,         \* the current window pointer of psr
    wim,         \* the window invalid mask, as a set of windows
    regs,        \* the locals and ins of every window
    stack,       \* the save areas in the guest's memory
    tbr,         \* the trap number in the trap base register
    redo,        \* the instruction run() is about to execute again, or "none"
    halted,      \* emulator_hard_termination was called
    sps          \* history: the stack pointer of every live frame

vars == <<cwp, wim, regs, stack, tbr, redo, halted, sps>>

next_save_cwp(w) == IF w = 0 THEN NWINDOWS - 1 ELSE w - 1
next_restore_cwp(w) == IF w = NWINDOWS - 1 THEN 0 ELSE w + 1

\* Registers o0 and o6 (sp) of window w.
Outs(w) == [o0 |-> regs[next_save_cwp(w)].i0, o6 |-> regs[next_save_cwp(w)].i6]
Sp == Outs(cwp).o6

TypeOK ==
    /\ cwp \in Windows
    /\ wim \subseteq Windows
    /\ regs \in [Windows -> Registers]
    /\ stack \in [1..StackSlots -> Registers]
    /\ tbr \in 0..255
    /\ redo \in {"none", "save", "restore"}
    /\ halted \in BOOLEAN
    /\ sps \in Seq(1..StackSlots)

\* reset() zeroes the cpu and sets o6 to the top of the stack; main() sets
\* wim to 2, that is to window 1 alone.
Init ==
    /\ cwp = 0
    /\ wim = {1}
    /\ regs = [w \in Windows |-> IF w = NWINDOWS - 1 THEN [Zeroed EXCEPT !.i6 = 1]
                                                     ELSE Zeroed]
    /\ stack = [a \in 1..StackSlots |-> Zeroed]
    /\ tbr = 0
    /\ redo = "none"
    /\ halted = FALSE
    /\ sps = <<1>>

\* The next instruction can be `op`: nothing else is to be executed again.
CanExecute(op) == ~halted /\ redo \in {"none", op}

-----------------------------------------------------------------------------
(* SAVE and RESTORE *)

\* Mutant of Save: the sum goes to the old window.
SaveIntoOldWindow(n) ==
    /\ CanExecute("save")
    /\ Sp + n <= StackSlots
    /\ next_save_cwp(cwp) \notin wim
    /\ cwp' = next_save_cwp(cwp)
    /\ regs' = [regs EXCEPT ![next_save_cwp(cwp)].i6 = Sp + n]
    /\ sps' = Append(sps, Sp + n)
    /\ redo' = "none"
    /\ UNCHANGED <<wim, stack, tbr, halted>>

\* SAVE %sp, -n, %sp without a trap: the sum is of the old window's
\* registers and goes to the new one.
Save(n) ==
    /\ CanExecute("save")
    /\ LET new == next_save_cwp(cwp)
           sum == Sp + n
       IN  /\ sum <= StackSlots
           /\ new \notin wim
           /\ cwp' = new
           /\ regs' = [regs EXCEPT ![next_save_cwp(new)].i6 = sum]
           /\ sps' = Append(sps, sum)
    /\ redo' = "none"
    /\ UNCHANGED <<wim, stack, tbr, halted>>

\* RESTORE without a trap: plain, or with destination o0 and the old
\* window's o0 as operand.
Restore(toO0) ==
    /\ CanExecute("restore")
    /\ LET new == next_restore_cwp(cwp)
       IN  /\ new \notin wim
           /\ cwp' = new
           /\ regs' = IF toO0 THEN [regs EXCEPT ![next_save_cwp(new)].i0 = Outs(cwp).o0]
                              ELSE regs
    /\ sps' = SubSeq(sps, 1, Len(sps) - 1)
    /\ redo' = "none"
    /\ UNCHANGED <<wim, stack, tbr, halted>>

\* The window trap 5 spills: one below the window the trap handler would run in.
Spilled == next_save_cwp(next_save_cwp(cwp))

\* emulator_hard_termination ends the process in the middle of the handler;
\* the frames are no more, so what it leaves in cwp does not matter.
Terminate(trap) ==
    /\ tbr' = trap
    /\ halted' = TRUE
    /\ UNCHANGED <<cwp, wim, regs, stack, redo, sps>>

\* Mutants of WimRight and WimLeft: the bit does not wrap around, is not
\* rotated, and is not cleared where it was.
WimRightNoWrap == {w - 1 : w \in wim}
WimRightNot == wim
WimLeftKeeps == wim \cup {next_restore_cwp(w) : w \in wim}

\* The wim after it is rotated right, or left, by one.
WimRight == {next_save_cwp(w) : w \in wim}
WimLeft == {next_restore_cwp(w) : w \in wim}

\* A SAVE into an invalid window: trap 5 spills the oldest frame in the
\* windows to its save area and makes its window the invalid one.
OverflowTrap ==
    /\ CanExecute("save")
    /\ Sp < StackSlots
    /\ next_save_cwp(cwp) \in wim
    /\ LET sp == Outs(Spilled).o6
       IN  IF sp = 0
           THEN Terminate(5)
           ELSE
              /\ stack' = [stack EXCEPT ![sp] = regs[Spilled]]
              /\ regs' = IF Debug THEN [regs EXCEPT ![Spilled] = Zeroed] ELSE regs
              /\ wim' = WimRight
              /\ tbr' = 5
              /\ redo' = "save"
              /\ UNCHANGED <<cwp, halted, sps>>

\* Mutant of UnderflowTrap: the window is filled from the callee's sp.
UnderflowTrapFromCallee ==
    /\ CanExecute("restore")
    /\ next_restore_cwp(cwp) \in wim
    /\ IF Outs(next_restore_cwp(cwp)).o6 = 0
       THEN Terminate(6)
       ELSE /\ regs' = [regs EXCEPT ![next_restore_cwp(cwp)] = stack[Sp]]
            /\ wim' = WimLeft
            /\ tbr' = 6
            /\ redo' = "restore"
            /\ UNCHANGED <<cwp, stack, halted, sps>>

\* A RESTORE into an invalid window: trap 6 fills that window from the save
\* area its sp points to and makes the window above it the invalid one.
UnderflowTrap ==
    /\ CanExecute("restore")
    /\ next_restore_cwp(cwp) \in wim
    /\ LET w == next_restore_cwp(cwp)
           sp == Outs(w).o6
       IN  IF sp = 0
           THEN Terminate(6)
           ELSE
              /\ regs' = [regs EXCEPT ![w] = stack[sp]]
              /\ wim' = WimLeft
              /\ tbr' = 6
              /\ redo' = "restore"
              /\ UNCHANGED <<cwp, stack, halted, sps>>

-----------------------------------------------------------------------------
(* The rest of the instruction set, as far as windows are concerned *)

\* An instruction that writes a local, an in or an out of the current window.
WriteLocal(v) ==
    /\ CanExecute("none")
    /\ regs' = [regs EXCEPT ![cwp].l0 = v]
    /\ UNCHANGED <<cwp, wim, stack, tbr, redo, halted, sps>>

WriteIn(v) ==
    /\ CanExecute("none")
    /\ regs' = [regs EXCEPT ![cwp].i0 = v]
    /\ UNCHANGED <<cwp, wim, stack, tbr, redo, halted, sps>>

WriteOut(v) ==
    /\ CanExecute("none")
    /\ regs' = [regs EXCEPT ![next_save_cwp(cwp)].i0 = v]
    /\ UNCHANGED <<cwp, wim, stack, tbr, redo, halted, sps>>

\* ADD %sp, n, %sp (alloca and its release): sp stays below the caller's.
MoveSp(sp) ==
    /\ CanExecute("none")
    /\ sp > regs[cwp].i6
    /\ regs' = [regs EXCEPT ![next_save_cwp(cwp)].i6 = sp]
    /\ sps' = [sps EXCEPT ![Len(sps)] = sp]
    /\ UNCHANGED <<cwp, wim, stack, tbr, redo, halted>>

\* Trap 0x90: the system call's result replaces o0.
Syscall(v) ==
    /\ CanExecute("none")
    /\ tbr' = 144
    /\ regs' = [regs EXCEPT ![next_save_cwp(cwp)].i0 = v]
    /\ UNCHANGED <<cwp, wim, stack, redo, halted, sps>>

\* A trap handle_trap returns from at once.
QuietTrap(t) ==
    /\ CanExecute("none")
    /\ tbr' = t
    /\ UNCHANGED <<cwp, wim, regs, stack, redo, halted, sps>>

SaveInstruction == OverflowTrap \/ \E n \in 1..StackSlots : Save(n)
RestoreInstruction == UnderflowTrap \/ \E toO0 \in BOOLEAN : Restore(toO0)

Next ==
    \/ SaveInstruction
    \/ RestoreInstruction
    \/ \E v \in Word : WriteLocal(v) \/ WriteIn(v) \/ WriteOut(v) \/ Syscall(v)
    \/ \E sp \in 1..StackSlots : MoveSp(sp)
    \/ \E t \in Quiet : QuietTrap(t)

Spec == Init /\ [][Next]_vars

\* run() loops for ever: it executes the instruction it is at, whatever it
\* is, until the guest halts.
FairSpec == Spec /\ WF_vars(Next)

-----------------------------------------------------------------------------
(* Where the live frames are.  Frame 1 is the oldest, Len(sps) the current. *)

Depth == Len(sps)

\* The window of the i-th frame, if it is in a window.
WindowOf(i) == LET w == cwp + (Depth - i) IN IF w < NWINDOWS THEN w ELSE w - NWINDOWS

\* The number of windows from the current one up to the invalid one: those
\* that hold frames.
Invalid == CHOOSE w \in Windows : wim = {w}
Resident == IF Invalid > cwp THEN Invalid - cwp ELSE Invalid + NWINDOWS - cwp

InWindow(i) == Depth - i < Resident
Frame(i) == IF InWindow(i) THEN regs[WindowOf(i)] ELSE stack[sps[i]]

Frames == [i \in 1..Depth |-> Frame(i)]

\* The frames the calling convention promises, wherever they are kept.
Calls == INSTANCE CallFrames WITH frames <- Frames, outs <- Outs(cwp)

\* Every SAVE and RESTORE, whether it spills or fills or does neither, and
\* every other instruction, does to the frames of the calls in progress what
\* the calling convention promises: no spill, fill, rotation of wim or reuse
\* of a window loses or changes a register of a suspended frame (handle_trap,
\* traps 5 and 6, save and restore).
ImplementsCallFrames == Calls!Spec

\* One window is invalid at any time, never the current one and never one
\* that a frame of the chain still occupies: the two rotations of wim keep
\* step with the spills and fills.
OneInvalid ==
    /\ \E w \in Windows : wim = {w}
    /\ cwp \notin wim
    /\ Resident <= Depth

\* The stack pointers the spills and fills go by are those of the frames: the
\* i6 of a frame, in a window or spilled, is the sp of its caller.
SpChain ==
    /\ Sp = sps[Depth]
    /\ \A i \in 1..(Depth - 1) : Frame(i + 1).i6 = sps[i]
    /\ Frame(1).i6 = 0
    /\ \A i, j \in 1..Depth : i < j => sps[i] < sps[j]

\* "re-execute and this time there will be no trap" (run(), save and restore):
\* the window a SAVE or RESTORE traps for is valid once the trap returns.
RetryDoesNotTrap ==
    /\ redo = "save"    => next_save_cwp(cwp) \notin wim
    /\ redo = "restore" => next_restore_cwp(cwp) \notin wim

\* The two hard terminations in the trap handlers ("sp is 0 in overflow trap",
\* "sp is 0 in underflow trap") are met by no guest that keeps to the calling
\* convention, but for one that returns from its first frame.
HaltsOnlyAtTheBottom == halted => Depth = 1 /\ tbr = 6

\* All of these at any time, and what makes them inductive: an instruction
\* that is executed again is one the guest could execute, a SAVE with room on
\* the stack or a RESTORE with a frame to go back to (sparc.cxx:1340-1360,
\* sparcos.cxx:5718-5780).
Inv ==
    /\ OneInvalid
    /\ SpChain
    /\ RetryDoesNotTrap
    /\ HaltsOnlyAtTheBottom
    /\ redo = "save" => Sp < StackSlots
    /\ redo = "restore" => Depth > 1

\* A SAVE or RESTORE that trapped is completed: the emulator does not trap
\* for ever on one instruction.
RetryCompletes == redo # "none" ~> redo = "none"

=============================================================================
