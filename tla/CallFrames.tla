----------------------------- MODULE CallFrames -----------------------------
(***************************************************************************)
(* What the SPARC calling convention promises a guest program: procedure   *)
(* frames on a stack without a limit on its depth.  A SAVE pushes a frame  *)
(* whose ins are the caller's outs, a RESTORE pops it and gives the ins    *)
(* back as the caller's outs, and no instruction disturbs the registers of *)
(* a suspended frame.  Nothing is said here of windows, of the window      *)
(* invalid mask or of spilling.                                            *)
(*                                                                         *)
(* One local (l0), one in (i0) and the frame pointer (i6) stand for the    *)
(* sixteen registers of a frame.  A stack address is the number of 64-byte *)
(* save areas from the top of the stack down to it, so a deeper address is *)
(* a greater number; 0 is the null address.                                *)
(***************************************************************************)
EXTENDS Integers, Sequences

CONSTANTS
    Word,        \* the values a register other than a stack pointer holds
    StackSlots   \* the number of save areas the guest's stack has room for

Addr == 0..StackSlots

Frame == [l0 : Word, i0 : Word, i6 : Addr]
OutRegs == [o0 : Word, o6 : Addr]

VARIABLES
    frames,      \* the frames of the calls in progress, the oldest first
    outs,        \* the out registers of the newest frame; o6 is its sp
    halted       \* the guest was terminated

vars == <<frames, outs, halted>>

Top == frames[Len(frames)]

Init ==
    /\ \E zero \in Word : /\ frames = << [l0 |-> zero, i0 |-> zero, i6 |-> 0] >>
                          /\ outs = [o0 |-> zero, o6 |-> 1]
    /\ halted = FALSE

\* SAVE %sp, n, %sp: the new frame's locals and outs are undefined, but for sp.
Call ==
    /\ ~halted
    /\ \E l, o \in Word, sp \in (outs.o6 + 1)..StackSlots :
          /\ frames' = Append(frames, [l0 |-> l, i0 |-> outs.o0, i6 |-> outs.o6])
          /\ outs' = [o0 |-> o, o6 |-> sp]
    /\ UNCHANGED halted

\* RESTORE, plain (the callee's i0 is the result) or with a destination o0
\* whose operand was the callee's o0.
Return ==
    /\ ~halted
    /\ Len(frames) > 1
    /\ \E result \in {Top.i0, outs.o0} : outs' = [o0 |-> result, o6 |-> Top.i6]
    /\ frames' = SubSeq(frames, 1, Len(frames) - 1)
    /\ UNCHANGED halted

\* Any instruction or system call that writes a register of the newest frame.
Write ==
    /\ ~halted
    /\ \E v \in Word : \/ /\ frames' = [frames EXCEPT ![Len(frames)].l0 = v]
                          /\ UNCHANGED outs
                       \/ /\ frames' = [frames EXCEPT ![Len(frames)].i0 = v]
                          /\ UNCHANGED outs
                       \/ /\ outs' = [outs EXCEPT !.o0 = v]
                          /\ UNCHANGED frames
    /\ UNCHANGED halted

\* alloca and its release: the newest frame moves its sp, below its caller's.
MoveSp ==
    /\ ~halted
    /\ \E sp \in (Top.i6 + 1)..StackSlots : outs' = [outs EXCEPT !.o6 = sp]
    /\ UNCHANGED <<frames, halted>>

\* The guest is terminated for returning from its first frame, and for
\* nothing else.
FallOff ==
    /\ ~halted
    /\ Len(frames) = 1
    /\ halted' = TRUE
    /\ UNCHANGED <<frames, outs>>

Next == Call \/ Return \/ Write \/ MoveSp \/ FallOff

Spec == Init /\ [][Next]_vars
=============================================================================
