----------------------- MODULE RegisterWindowsProofs -----------------------
(***************************************************************************)
(* Theorems about RegisterWindows, for every number of windows, every      *)
(* stack, every set of register values, and both builds.                   *)
(***************************************************************************)
EXTENDS RegisterWindows, TLAPS

USE WindowsAssumption, StackAssumption, WordAssumption, DebugAssumption,
    QuietAssumption

\* The two ring operators stay on the ring and are inverse to each other.
LEMMA Ring ==
    ASSUME NEW w \in Windows
    PROVE  /\ next_save_cwp(w) \in Windows
           /\ next_restore_cwp(w) \in Windows
           /\ next_save_cwp(next_restore_cwp(w)) = w
           /\ next_restore_cwp(next_save_cwp(w)) = w
           /\ next_save_cwp(w) # w
           /\ next_restore_cwp(w) # w
           /\ next_save_cwp(next_save_cwp(w)) # w
BY DEF Windows, next_save_cwp, next_restore_cwp

\* The wim with one bit, rotated, has one bit, the neighbouring one.
LEMMA Rotation ==
    ASSUME NEW b \in Windows, wim = {b}
    PROVE  /\ WimRight = {next_save_cwp(b)}
           /\ WimLeft = {next_restore_cwp(b)}
BY DEF WimRight, WimLeft

\* Invalid names the window whose bit is set.
LEMMA InvalidWindow ==
    ASSUME NEW b \in Windows
    PROVE  /\ wim = {b} => Invalid = b
           /\ wim' = {b} => Invalid' = b
<1>1. \A w \in Windows : {b} = {w} => w = b
  OBVIOUS
<1>2. (CHOOSE w \in Windows : {b} = {w}) = b
  BY <1>1
<1>. QED
  BY <1>2 DEF Invalid

\* What a well-typed state with one invalid window looks like: the windows
\* from the current one up to the invalid one hold distinct frames.
LEMMA Layout ==
    ASSUME TypeOK, OneInvalid
    PROVE  /\ Invalid \in Windows /\ wim = {Invalid} /\ Invalid # cwp
           /\ Resident \in 1..(NWINDOWS - 1)
           /\ Resident <= Depth
           /\ WindowOf(Depth) = cwp
           /\ \A i \in 1..Depth : InWindow(i) => /\ WindowOf(i) \in Windows
                                                 /\ WindowOf(i) # Invalid
           /\ \A i, j \in 1..Depth : InWindow(i) /\ InWindow(j) /\ i # j
                                        => WindowOf(i) # WindowOf(j)
<1>1. PICK b \in Windows : wim = {b}
  BY DEF OneInvalid
<1>2. Invalid = b
  BY <1>1, InvalidWindow
<1>3. cwp \in 0..(NWINDOWS - 1) /\ b \in 0..(NWINDOWS - 1) /\ b # cwp
  BY <1>1 DEF TypeOK, Windows, OneInvalid
<1>4. Depth \in Nat
  BY DEF TypeOK, Depth
<1>5. Resident \in 1..(NWINDOWS - 1)
  BY <1>2, <1>3 DEF Resident
<1>6. Resident <= Depth
  BY DEF OneInvalid
<1>7. \A i \in 1..Depth : InWindow(i) => WindowOf(i) \in Windows /\ WindowOf(i) # Invalid
  BY <1>2, <1>3, <1>4, <1>5 DEF Resident, InWindow, WindowOf, Windows
<1>8. \A i, j \in 1..Depth : InWindow(i) /\ InWindow(j) /\ i # j => WindowOf(i) # WindowOf(j)
  BY <1>2, <1>3, <1>4, <1>5 DEF InWindow, WindowOf, Windows
<1>9. WindowOf(Depth) = cwp
  BY <1>3, <1>4 DEF WindowOf
<1>. QED
  BY <1>1, <1>2, <1>3, <1>5, <1>6, <1>7, <1>8, <1>9

-----------------------------------------------------------------------------
(* Type correctness *)

LEMMA RegistersOfWindow ==
    ASSUME TypeOK, NEW w \in Windows
    PROVE  /\ regs[w] \in Registers
           /\ Outs(w) = [o0 |-> regs[next_save_cwp(w)].i0, o6 |-> regs[next_save_cwp(w)].i6]
           /\ Outs(w).o0 \in Word
           /\ Outs(w).o6 \in Addr
BY Ring DEF TypeOK, Registers, Outs

LEMMA UpdateTypes ==
    ASSUME TypeOK, NEW w \in Windows
    PROVE  /\ \A v \in Word : /\ [regs EXCEPT ![w].l0 = v] \in [Windows -> Registers]
                             /\ [regs EXCEPT ![w].i0 = v] \in [Windows -> Registers]
           /\ \A a \in Addr : [regs EXCEPT ![w].i6 = a] \in [Windows -> Registers]
<1>1. regs \in [Windows -> Registers] /\ regs[w] \in Registers
  BY DEF TypeOK
<1>2. ASSUME NEW v \in Word
      PROVE  /\ [regs[w] EXCEPT !.l0 = v] \in Registers
             /\ [regs[w] EXCEPT !.i0 = v] \in Registers
  BY <1>1 DEF Registers
<1>3. ASSUME NEW a \in Addr PROVE [regs[w] EXCEPT !.i6 = a] \in Registers
  BY <1>1 DEF Registers
<1>. QED
  BY <1>1, <1>2, <1>3

LEMMA ZeroedType == Zeroed \in Registers
BY DEF Zeroed, Registers, Addr

LEMMA InitTypeOK == Init => TypeOK
<1> SUFFICES ASSUME Init PROVE TypeOK
  OBVIOUS
<1>1. cwp = 0 /\ wim = {1} /\ tbr = 0 /\ redo = "none" /\ halted = FALSE
  BY DEF Init
<1>2. cwp \in Windows /\ wim \subseteq Windows
  BY <1>1 DEF Windows
<1>3. regs \in [Windows -> Registers]
  BY ZeroedType DEF Init, Registers, Addr, Zeroed
<1>4. stack \in [1..StackSlots -> Registers]
  BY ZeroedType DEF Init
<1>5. sps \in Seq(1..StackSlots)
  BY DEF Init
<1>. QED
  BY <1>1, <1>2, <1>3, <1>4, <1>5 DEF TypeOK

\* Every instruction, trap or not, leaves the state well typed.
LEMMA NextTypeOK == TypeOK /\ [Next]_vars => TypeOK'
<1> SUFFICES ASSUME TypeOK, [Next]_vars PROVE TypeOK'
  OBVIOUS
<1> DEFINE prev == next_save_cwp(cwp)
           next == next_restore_cwp(cwp)
<1>0. /\ cwp \in Windows /\ prev \in Windows /\ next \in Windows
      /\ next_save_cwp(prev) \in Windows /\ next_save_cwp(next) \in Windows
      /\ Len(sps) \in Nat
  BY Ring DEF TypeOK
<1>1. \A w \in Windows : Outs(w).o0 \in Word /\ Outs(w).o6 \in Addr
  BY RegistersOfWindow
<1>2. ASSUME NEW n \in 1..StackSlots, Save(n) PROVE TypeOK'
  <2>1. Sp + n \in Addr /\ Sp + n \in 1..StackSlots
    BY <1>0, <1>1, <1>2 DEF Save, Sp, Addr
  <2>2. regs' \in [Windows -> Registers]
    BY <1>0, <1>2, <2>1, UpdateTypes, WordAssumption DEF Save
  <2>3. sps' \in Seq(1..StackSlots)
    BY <1>2, <2>1 DEF Save, TypeOK
  <2>. QED
    BY <1>0, <1>2, <2>2, <2>3 DEF Save, TypeOK
<1>3. ASSUME NEW toO0 \in BOOLEAN, Restore(toO0) PROVE TypeOK'
  <2>1. regs' \in [Windows -> Registers]
    BY <1>0, <1>1, <1>3, UpdateTypes DEF Restore, TypeOK, Addr
  <2>2. sps' \in Seq(1..StackSlots)
    BY <1>0, <1>3 DEF Restore, TypeOK
  <2>. QED
    BY <1>0, <1>3, <2>1, <2>2 DEF Restore, TypeOK
<1>4. CASE OverflowTrap
  <2>1. Spilled \in Windows
    BY <1>0 DEF Spilled
  <2>2. WimRight \subseteq Windows
    BY Ring DEF WimRight, TypeOK
  <2>3. CASE Terminate(5)
    BY <2>3 DEF Terminate, TypeOK
  <2>4. CASE ~Terminate(5)
    <3>1. Outs(Spilled).o6 \in 1..StackSlots
      BY <1>1, <1>4, <2>1, <2>4 DEF OverflowTrap, Addr
    <3>2. stack' \in [1..StackSlots -> Registers] /\ regs' \in [Windows -> Registers]
      BY <1>4, <2>1, <2>4, <3>1, ZeroedType, SMTT(20) DEF OverflowTrap, TypeOK
    <3>. QED
      BY <1>4, <2>2, <2>4, <3>2 DEF OverflowTrap, TypeOK
  <2>. QED
    BY <2>3, <2>4
<1>5. CASE UnderflowTrap
  <2>1. WimLeft \subseteq Windows
    BY Ring DEF WimLeft, TypeOK
  <2>2. CASE Terminate(6)
    BY <2>2 DEF Terminate, TypeOK
  <2>3. CASE ~Terminate(6)
    <3>1. Outs(next).o6 \in 1..StackSlots
      BY <1>0, <1>1, <1>5, <2>3 DEF UnderflowTrap, Addr
    <3>2. regs' \in [Windows -> Registers]
      BY <1>0, <1>5, <2>3, <3>1 DEF UnderflowTrap, TypeOK
    <3>. QED
      BY <1>5, <2>1, <2>3, <3>2 DEF UnderflowTrap, TypeOK
  <2>. QED
    BY <2>2, <2>3
<1>6. ASSUME NEW v \in Word, WriteLocal(v) \/ WriteIn(v) \/ WriteOut(v) \/ Syscall(v)
      PROVE  TypeOK'
  <2>1. regs' \in [Windows -> Registers]
    <3>1. \/ regs' = [regs EXCEPT ![cwp].l0 = v]
          \/ regs' = [regs EXCEPT ![cwp].i0 = v]
          \/ regs' = [regs EXCEPT ![prev].i0 = v]
      BY <1>6 DEF WriteLocal, WriteIn, WriteOut, Syscall
    <3>2. /\ [regs EXCEPT ![cwp].l0 = v] \in [Windows -> Registers]
          /\ [regs EXCEPT ![cwp].i0 = v] \in [Windows -> Registers]
          /\ [regs EXCEPT ![prev].i0 = v] \in [Windows -> Registers]
      BY <1>0, UpdateTypes
    <3>. QED
      BY <3>1, <3>2, Zenon
  <2>. QED
    BY <1>6, <2>1 DEF WriteLocal, WriteIn, WriteOut, Syscall, TypeOK
<1>7. ASSUME NEW sp \in 1..StackSlots, MoveSp(sp) PROVE TypeOK'
  <2>1. regs' \in [Windows -> Registers]
    BY <1>0, <1>7, UpdateTypes DEF MoveSp, Addr
  <2>2. sps' \in Seq(1..StackSlots)
    <3>1. sps \in Seq(1..StackSlots) /\ sps' = [sps EXCEPT ![Len(sps)] = sp]
      BY <1>7 DEF MoveSp, TypeOK
    <3>2. sps \in [1..Len(sps) -> 1..StackSlots]
      BY <3>1
    <3>3. sps' \in [1..Len(sps) -> 1..StackSlots]
      BY <3>1, <3>2
    <3>. QED
      BY <1>0, <3>3
  <2>. QED
    BY <1>7, <2>1, <2>2 DEF MoveSp, TypeOK
<1>8. ASSUME NEW t \in Quiet, QuietTrap(t) PROVE TypeOK'
  BY <1>8 DEF QuietTrap, TypeOK
<1>9. CASE UNCHANGED vars
  BY <1>9 DEF vars, TypeOK
<1>. QED
  BY <1>2, <1>3, <1>4, <1>5, <1>6, <1>7, <1>8, <1>9
     DEF Next, SaveInstruction, RestoreInstruction

\* The registers, the windows and the save areas hold only what their types
\* allow, in every state of every guest (reset, handle_trap, traps 5 and 6).
THEOREM TypeCorrect == Spec => []TypeOK
BY InitTypeOK, NextTypeOK, PTL DEF Spec


-----------------------------------------------------------------------------
(* What each instruction does to the frames, wherever they are kept *)

\* SAVE keeps every frame and adds one: its ins are the outs of its caller.
LEMMA SaveFrames ==
    ASSUME TypeOK, OneInvalid, NEW n \in 1..StackSlots, Save(n)
    PROVE  /\ OneInvalid'
           /\ Depth' = Depth + 1
           /\ \A i \in 1..Depth : Frame(i)' = Frame(i) /\ sps'[i] = sps[i]
           /\ sps'[Depth + 1] = Sp + n
           /\ \A i \in Nat : i = Depth + 1 => Frame(i)' = regs[next_save_cwp(cwp)]
           /\ Outs(cwp)'.o0 = regs[next_save_cwp(next_save_cwp(cwp))].i0
           /\ Outs(cwp)'.o6 = Sp + n
<1> DEFINE b == Invalid
           new == next_save_cwp(cwp)
           below == next_save_cwp(new)
<1>1. /\ b \in 0..(NWINDOWS - 1) /\ wim = {b} /\ b # cwp
      /\ Resident \in 1..(NWINDOWS - 1) /\ Resident <= Depth
      /\ cwp \in 0..(NWINDOWS - 1) /\ Depth \in Nat
      /\ \A i \in 1..Depth : InWindow(i) => WindowOf(i) \in Windows
  BY Layout DEF TypeOK, Windows, Depth
<1>2. /\ new \in 0..(NWINDOWS - 1) /\ below \in 0..(NWINDOWS - 1)
      /\ new # b /\ new # below /\ cwp # new
  BY <1>1, Ring DEF Save, Windows
<1>3. cwp' = new /\ wim' = {b} /\ Invalid' = b
  BY <1>1, InvalidWindow DEF Save, Windows
<1>4. Depth' = Depth + 1 /\ Resident' = Resident + 1
  <2>1. Depth' = Depth + 1
    BY DEF Save, Depth, TypeOK
  <2>2. Resident' = Resident + 1
    BY <1>1, <1>2, <1>3 DEF Resident, next_save_cwp
  <2>. QED
    BY <2>1, <2>2
<1>5. \A i \in 1..Depth : InWindow(i)' <=> InWindow(i)
  BY <1>1, <1>4 DEF InWindow
<1>6. \A i \in 1..Depth : InWindow(i) => WindowOf(i)' = WindowOf(i) /\ WindowOf(i) # below
  BY <1>1, <1>2, <1>3, <1>4 DEF InWindow, WindowOf, next_save_cwp, Resident
<1>7. \A w \in Windows \ {below} : regs'[w] = regs[w]
  BY <1>2 DEF Save, TypeOK, Windows
<1>8. \A i \in 1..Depth : sps'[i] = sps[i]
  BY DEF Save, TypeOK, Depth
<1>9. \A i \in 1..Depth : Frame(i)' = Frame(i)
  <2> TAKE i \in 1..Depth
  <2>1. CASE InWindow(i)
    BY <1>1, <1>5, <1>6, <1>7, <2>1 DEF Frame
  <2>2. CASE ~InWindow(i)
    BY <1>5, <1>8, <2>2 DEF Frame, Save
  <2>. QED
    BY <2>1, <2>2
<1>10. ASSUME NEW i \in Nat, i = Depth + 1 PROVE Frame(i)' = regs[new]
  <2>1. InWindow(i)'
    BY <1>1, <1>4, <1>10 DEF InWindow
  <2>2. WindowOf(i)' = new
    BY <1>1, <1>2, <1>3, <1>4, <1>10 DEF WindowOf
  <2>. QED
    BY <1>2, <1>7, <2>1, <2>2 DEF Frame, Windows
<1>11. Outs(cwp)'.o0 = regs[below].i0 /\ Outs(cwp)'.o6 = Sp + n
  <2>1. regs[below] \in Registers /\ regs \in [Windows -> Registers]
    BY <1>2 DEF TypeOK, Windows
  <2>2. regs' = [regs EXCEPT ![below].i6 = Sp + n]
    BY DEF Save
  <2>3. regs'[below].i0 = regs[below].i0 /\ regs'[below].i6 = Sp + n
    BY <1>2, <2>1, <2>2 DEF Registers, Windows
  <2>. QED
    BY <1>3, <2>3 DEF Outs
<1>12. OneInvalid'
  BY <1>1, <1>2, <1>3, <1>4 DEF OneInvalid, Windows
<1>. QED
  BY <1>4, <1>8, <1>9, <1>10, <1>11, <1>12 DEF Save, TypeOK, Depth


\* RESTORE keeps every frame but the newest, whose ins become outs again.
LEMMA RestoreFrames ==
    ASSUME TypeOK, OneInvalid, NEW toO0 \in BOOLEAN, Restore(toO0)
    PROVE  /\ OneInvalid'
           /\ Depth > 1 /\ Depth' = Depth - 1
           /\ \A i \in 1..(Depth - 1) : Frame(i)' = Frame(i) /\ sps'[i] = sps[i]
           /\ Frame(Depth) = regs[cwp]
           /\ Outs(cwp)'.o0 \in {Frame(Depth).i0, Outs(cwp).o0}
           /\ Outs(cwp)'.o6 = Frame(Depth).i6
<1> DEFINE b == Invalid
           new == next_restore_cwp(cwp)
<1>1. /\ b \in 0..(NWINDOWS - 1) /\ wim = {b} /\ b # cwp
      /\ Resident \in 1..(NWINDOWS - 1) /\ Resident <= Depth
      /\ cwp \in 0..(NWINDOWS - 1) /\ Depth \in Nat
      /\ WindowOf(Depth) = cwp
      /\ \A i \in 1..Depth : InWindow(i) => WindowOf(i) \in Windows
      /\ \A i, j \in 1..Depth : InWindow(i) /\ InWindow(j) /\ i # j
                                   => WindowOf(i) # WindowOf(j)
  BY Layout DEF TypeOK, Windows, Depth
<1>2. new \in 0..(NWINDOWS - 1) /\ new # b /\ next_save_cwp(new) = cwp
  BY <1>1, Ring DEF Restore, Windows
<1>3. cwp' = new /\ wim' = {b} /\ Invalid' = b
  BY <1>1, InvalidWindow DEF Restore, Windows
<1>4. Resident > 1 /\ Depth > 1
  BY <1>1, <1>2 DEF Resident, next_restore_cwp
<1>5. Depth' = Depth - 1 /\ Resident' = Resident - 1
  <2>1. Depth' = Depth - 1
    BY <1>4 DEF Restore, Depth, TypeOK
  <2>2. Resident' = Resident - 1
    BY <1>1, <1>2, <1>3 DEF Resident, next_restore_cwp
  <2>. QED
    BY <2>1, <2>2
<1>6. \A i \in 1..(Depth - 1) : InWindow(i)' <=> InWindow(i)
  BY <1>1, <1>5 DEF InWindow
<1>7. \A i \in 1..(Depth - 1) : InWindow(i) => WindowOf(i)' = WindowOf(i)
  BY <1>1, <1>2, <1>3, <1>5 DEF InWindow, WindowOf, next_restore_cwp, Resident
<1>8. InWindow(Depth)
  BY <1>1 DEF InWindow
<1>9. \A w \in Windows \ {cwp} : regs'[w] = regs[w]
  BY <1>2 DEF Restore, TypeOK, Windows
<1>10. \A i \in 1..(Depth - 1) : sps'[i] = sps[i]
  BY <1>4 DEF Restore, TypeOK, Depth
<1>11. \A i \in 1..(Depth - 1) : Frame(i)' = Frame(i)
  <2> TAKE i \in 1..(Depth - 1)
  <2>1. CASE InWindow(i)
    <3>1. WindowOf(i) \in Windows \ {cwp}
      BY <1>1, <1>4, <1>8, <2>1
    <3>. QED
      BY <1>6, <1>7, <1>9, <2>1, <3>1 DEF Frame
  <2>2. CASE ~InWindow(i)
    BY <1>6, <1>10, <2>2 DEF Frame, Restore
  <2>. QED
    BY <2>1, <2>2
<1>12. Frame(Depth) = regs[cwp]
  BY <1>1, <1>8 DEF Frame
<1>13. /\ Outs(cwp)'.o0 \in {regs[cwp].i0, Outs(cwp).o0}
       /\ Outs(cwp)'.o6 = regs[cwp].i6
  <2>1. regs[cwp] \in Registers /\ regs \in [Windows -> Registers]
    BY DEF TypeOK
  <2>2. \/ regs' = regs
        \/ regs' = [regs EXCEPT ![cwp].i0 = Outs(cwp).o0]
    BY <1>2 DEF Restore
  <2>3. ASSUME NEW v, regs' = [regs EXCEPT ![cwp].i0 = v]
        PROVE  regs'[cwp].i0 = v /\ regs'[cwp].i6 = regs[cwp].i6
    BY <1>1, <2>1, <2>3 DEF Registers, Windows
  <2>4. regs'[cwp].i0 \in {regs[cwp].i0, Outs(cwp).o0} /\ regs'[cwp].i6 = regs[cwp].i6
    BY <2>2, <2>3
  <2>. QED
    BY <1>2, <1>3, <2>4 DEF Outs
<1>14. OneInvalid'
  BY <1>1, <1>2, <1>3, <1>5 DEF OneInvalid, Windows
<1>. QED
  BY <1>4, <1>5, <1>10, <1>11, <1>12, <1>13, <1>14

\* Trap 5 finds the save area of the oldest frame in the windows, which is no
\* other frame's, and frees the window the retried SAVE needs.
LEMMA OverflowFrames ==
    ASSUME TypeOK, OneInvalid, SpChain, OverflowTrap
    PROVE  /\ OneInvalid'
           /\ redo' = "save" /\ halted' = halted
           /\ sps' = sps /\ Depth' = Depth /\ Sp' = Sp /\ Sp < StackSlots
           /\ \A i \in 1..Depth : Frame(i)' = Frame(i)
           /\ Outs(cwp)' = Outs(cwp)
           /\ next_save_cwp(cwp)' \notin wim'
<1> DEFINE b == next_save_cwp(cwp)
           old == Depth - (NWINDOWS - 2)
           area == Outs(Spilled).o6
<1>1. /\ b \in 0..(NWINDOWS - 1) /\ wim = {b} /\ b # cwp /\ Invalid = b
      /\ Resident \in 1..(NWINDOWS - 1) /\ Resident <= Depth
      /\ cwp \in 0..(NWINDOWS - 1) /\ Depth \in Nat
      /\ \A i \in 1..Depth : InWindow(i) => WindowOf(i) \in Windows
      /\ \A i, j \in 1..Depth : InWindow(i) /\ InWindow(j) /\ i # j
                                   => WindowOf(i) # WindowOf(j)
  BY Layout DEF TypeOK, Windows, Depth, OverflowTrap
<1>2. /\ Spilled \in 0..(NWINDOWS - 1) /\ Spilled # b /\ Spilled # cwp
      /\ Spilled = next_save_cwp(b)
  BY <1>1 DEF Spilled, next_save_cwp
<1>3. Resident = NWINDOWS - 1
  BY <1>1 DEF Resident, next_save_cwp
<1>4. /\ old \in 1..(Depth - 1)
      /\ InWindow(old) /\ WindowOf(old) = Spilled
      /\ InWindow(old + 1) /\ WindowOf(old + 1) = next_save_cwp(Spilled)
  <2>1. old \in 1..(Depth - 1) /\ InWindow(old) /\ InWindow(old + 1)
    BY <1>1, <1>3 DEF InWindow
  <2>2. WindowOf(old) = Spilled
    BY <1>1, <2>1 DEF WindowOf, Spilled, next_save_cwp
  <2>3. WindowOf(old + 1) = next_save_cwp(Spilled)
    BY <1>1, <2>1 DEF WindowOf, Spilled, next_save_cwp
  <2>. QED
    BY <2>1, <2>2, <2>3
<1>5. area = sps[old] /\ sps[old] \in 1..StackSlots
  <2>1. area = Frame(old + 1).i6
    BY <1>4 DEF Outs, Frame
  <2>2. Frame(old + 1).i6 = sps[old]
    BY <1>4 DEF SpChain
  <2>3. sps[old] \in 1..StackSlots
    BY <1>4, <1>1, SMTT(20) DEF TypeOK, Depth
  <2>. QED
    BY <2>1, <2>2, <2>3
<1>6. /\ stack' = [stack EXCEPT ![sps[old]] = regs[Spilled]]
      /\ regs' = IF Debug THEN [regs EXCEPT ![Spilled] = Zeroed] ELSE regs
      /\ wim' = WimRight /\ redo' = "save" /\ UNCHANGED <<cwp, halted, sps>>
  BY <1>5 DEF OverflowTrap
<1>7. wim' = {Spilled} /\ Invalid' = Spilled /\ Depth' = Depth
  BY <1>1, <1>2, <1>6, Rotation, InvalidWindow DEF Windows, Depth
<1>8. Resident' = NWINDOWS - 2
  BY <1>1, <1>2, <1>6, <1>7 DEF Resident, Spilled, next_save_cwp
<1>9. \A w \in Windows \ {Spilled} : regs'[w] = regs[w]
  BY <1>6 DEF TypeOK
<1>10. \A i \in 1..Depth : Frame(i)' = Frame(i)
  <2> TAKE i \in 1..Depth
  <2>0. WindowOf(i)' = WindowOf(i) /\ (InWindow(i)' <=> Depth - i < NWINDOWS - 2)
    BY <1>6, <1>7, <1>8 DEF WindowOf, InWindow
  <2>1. CASE i > old
    <3>1. InWindow(i) /\ InWindow(i)'
      BY <1>1, <1>3, <2>0, <2>1 DEF InWindow
    <3>2. WindowOf(i) \in Windows \ {Spilled}
      BY <1>1, <1>4, <2>1, <3>1
    <3>. QED
      BY <1>9, <2>0, <3>1, <3>2 DEF Frame
  <2>2. CASE i = old
    <3>1. ~InWindow(i)'
      BY <1>1, <2>0, <2>2
    <3>2. Frame(i)' = stack'[sps[i]]
      BY <1>6, <3>1 DEF Frame
    <3>3. stack'[sps[old]] = regs[Spilled]
      BY <1>5, <1>6 DEF TypeOK
    <3>4. Frame(old) = regs[Spilled]
      BY <1>4 DEF Frame
    <3>. QED
      BY <2>2, <3>2, <3>3, <3>4
  <2>3. CASE i < old
    <3>1. ~InWindow(i)' /\ ~InWindow(i)
      <4>1. Depth - i >= NWINDOWS - 1
        BY <1>1, <2>3
      <4>. QED
        BY <1>1, <1>3, <2>0, <4>1 DEF InWindow
    <3>2. sps[i] # sps[old] /\ sps[i] \in 1..StackSlots
      <4>1. sps[i] < sps[old]
        BY <1>1, <1>4, <2>3 DEF SpChain
      <4>2. sps[i] \in 1..StackSlots
        BY DEF TypeOK, Depth
      <4>. QED
        BY <1>5, <4>1, <4>2
    <3>3. stack'[sps[i]] = stack[sps[i]]
      BY <1>5, <1>6, <3>2 DEF TypeOK
    <3>. QED
      BY <1>6, <3>1, <3>3 DEF Frame
  <2>. QED
    BY <1>1, <1>4, <2>1, <2>2, <2>3
<1>11. Outs(cwp)' = Outs(cwp)
  BY <1>1, <1>2, <1>6, <1>9 DEF Outs, Windows
<1>12. OneInvalid'
  BY <1>1, <1>2, <1>3, <1>6, <1>7, <1>8 DEF OneInvalid, Windows
<1>13. next_save_cwp(cwp)' \notin wim'
  BY <1>2, <1>6, <1>7
<1>14. Sp' = Sp /\ Sp < StackSlots
  BY <1>6, <1>11 DEF Sp, OverflowTrap
<1>. QED
  BY <1>6, <1>7, <1>10, <1>11, <1>12, <1>13, <1>14

\* Trap 6 fills the window the retried RESTORE needs with its own frame; a
\* guest is terminated only when it has no such frame.
LEMMA UnderflowFrames ==
    ASSUME TypeOK, OneInvalid, SpChain, UnderflowTrap
    PROVE  \/ /\ Depth = 1
              /\ tbr' = 6 /\ halted' = TRUE
              /\ UNCHANGED <<cwp, wim, regs, stack, redo, sps>>
           \/ /\ OneInvalid'
              /\ redo' = "restore" /\ halted' = halted
              /\ sps' = sps /\ Depth' = Depth /\ Depth > 1
              /\ \A i \in 1..Depth : Frame(i)' = Frame(i)
              /\ Outs(cwp)' = Outs(cwp)
              /\ next_restore_cwp(cwp)' \notin wim'
<1> DEFINE b == next_restore_cwp(cwp)
           area == Outs(b).o6
<1>1. /\ b \in 0..(NWINDOWS - 1) /\ wim = {b} /\ b # cwp /\ Invalid = b
      /\ Resident \in 1..(NWINDOWS - 1) /\ Resident <= Depth
      /\ cwp \in 0..(NWINDOWS - 1) /\ Depth \in Nat
      /\ WindowOf(Depth) = cwp
      /\ \A i \in 1..Depth : InWindow(i) => /\ WindowOf(i) \in Windows
                                            /\ WindowOf(i) # b
  BY Layout DEF TypeOK, Windows, Depth, UnderflowTrap
<1>2. /\ next_save_cwp(b) = cwp /\ next_save_cwp(cwp) # b
      /\ next_restore_cwp(b) \in Windows
      /\ next_restore_cwp(b) # b /\ next_restore_cwp(b) # cwp
  BY <1>1 DEF next_save_cwp, next_restore_cwp, Windows
<1>3. Resident = 1
  BY <1>1 DEF Resident, next_restore_cwp
<1>4. InWindow(Depth) /\ \A i \in 1..(Depth - 1) : ~InWindow(i)
  BY <1>1, <1>3 DEF InWindow
<1>5. area = Frame(Depth).i6
  BY <1>1, <1>2, <1>4 DEF Outs, Frame
<1>6. CASE Depth = 1
  <2>1. area = 0
    BY <1>5, <1>6 DEF SpChain
  <2>2. Terminate(6)
    BY <2>1 DEF UnderflowTrap
  <2>. QED
    BY <1>6, <2>2 DEF Terminate
<1>7. CASE Depth > 1
  <2>1. area = sps[Depth - 1] /\ sps[Depth - 1] \in 1..StackSlots
    <3>1. Frame((Depth - 1) + 1).i6 = sps[Depth - 1]
      BY <1>1, <1>7 DEF SpChain
    <3>2. sps[Depth - 1] \in 1..StackSlots
      BY <1>1, <1>7 DEF TypeOK, Depth
    <3>. QED
      BY <1>1, <1>5, <3>1, <3>2
  <2>2. /\ regs' = [regs EXCEPT ![b] = stack[sps[Depth - 1]]]
        /\ wim' = WimLeft /\ redo' = "restore"
        /\ UNCHANGED <<cwp, stack, halted, sps>>
    BY <2>1 DEF UnderflowTrap
  <2>3. /\ wim' = {next_restore_cwp(b)} /\ Invalid' = next_restore_cwp(b)
        /\ Depth' = Depth
    BY <1>1, <1>2, <2>2, Rotation, InvalidWindow DEF Windows, Depth
  <2>4. Resident' = 2
    BY <1>1, <1>2, <2>2, <2>3 DEF Resident, next_restore_cwp
  <2>5. \A w \in Windows \ {b} : regs'[w] = regs[w]
    BY <2>2 DEF TypeOK
  <2>6. ASSUME NEW i \in 1..Depth PROVE Frame(i)' = Frame(i)
    <3>1. WindowOf(i)' = WindowOf(i) /\ (InWindow(i)' <=> Depth - i < 2)
      BY <2>2, <2>3, <2>4 DEF WindowOf, InWindow
    <3>2. CASE i = Depth
      BY <1>1, <1>4, <2>5, <3>1, <3>2 DEF Frame, Windows
    <3>3. CASE i = Depth - 1
      <4>1. InWindow(i)' /\ ~InWindow(i)
        BY <1>1, <1>4, <1>7, <3>1, <3>3
      <4>2. WindowOf(i) = b
        BY <1>1, <3>3 DEF WindowOf, next_restore_cwp
      <4>3. regs'[b] = stack[sps[i]]
        BY <1>1, <2>2, <3>3 DEF TypeOK, Windows
      <4>. QED
        BY <3>1, <4>1, <4>2, <4>3 DEF Frame
    <3>4. CASE i < Depth - 1
      <4>1. ~InWindow(i)' /\ ~InWindow(i)
        BY <1>1, <1>4, <3>1, <3>4
      <4>. QED
        BY <2>2, <4>1 DEF Frame
    <3>. QED
      BY <1>1, <3>2, <3>3, <3>4
  <2>7. Outs(cwp)' = Outs(cwp)
    <3>1. next_save_cwp(cwp) \in Windows \ {b}
      BY <1>1, <1>2, Ring DEF Windows
    <3>. QED
      BY <2>2, <2>5, <3>1 DEF Outs
  <2>8. OneInvalid'
    BY <1>1, <1>2, <1>7, <2>2, <2>3, <2>4 DEF OneInvalid
  <2>9. next_restore_cwp(cwp)' \notin wim'
    BY <1>2, <2>2, <2>3
  <2>. QED
    BY <1>7, <2>2, <2>3, <2>6, <2>7, <2>8, <2>9
<1>8. Depth = 1 \/ Depth > 1
  BY <1>1
<1>. QED
  BY <1>6, <1>7, <1>8

\* An instruction that writes l0 or i0 of the current window writes them in
\* the newest frame and nowhere else.
LEMMA WriteFrames ==
    ASSUME TypeOK, OneInvalid, NEW r \in Registers,
           regs' = [regs EXCEPT ![cwp] = r], UNCHANGED <<cwp, wim, stack, sps>>
    PROVE  /\ OneInvalid' /\ Depth' = Depth
           /\ \A i \in 1..(Depth - 1) : Frame(i)' = Frame(i)
           /\ Frame(Depth) = regs[cwp]
           /\ \A i \in Nat : i = Depth => Frame(i)' = r
           /\ Outs(cwp)' = Outs(cwp)
<1>1. /\ Resident \in 1..(NWINDOWS - 1) /\ Resident <= Depth
      /\ cwp \in Windows /\ Depth \in Nat
      /\ WindowOf(Depth) = cwp
      /\ \A i \in 1..Depth : InWindow(i) => WindowOf(i) \in Windows
      /\ \A i, j \in 1..Depth : InWindow(i) /\ InWindow(j) /\ i # j
                                   => WindowOf(i) # WindowOf(j)
  BY Layout DEF TypeOK, Depth
<1>2. /\ Depth' = Depth /\ OneInvalid' /\ Resident' = Resident
      /\ \A i : WindowOf(i)' = WindowOf(i) /\ (InWindow(i)' <=> InWindow(i))
  BY DEF Depth, OneInvalid, Resident, Invalid, WindowOf, InWindow
<1>3. InWindow(Depth)
  BY <1>1 DEF InWindow
<1>4. regs'[cwp] = r /\ \A w \in Windows \ {cwp} : regs'[w] = regs[w]
  BY <1>1 DEF TypeOK
<1>5. \A i \in 1..(Depth - 1) : Frame(i)' = Frame(i)
  <2> TAKE i \in 1..(Depth - 1)
  <2>1. InWindow(i) => WindowOf(i) \in Windows \ {cwp}
    BY <1>1, <1>3
  <2>. QED
    BY <1>2, <1>4, <2>1 DEF Frame
<1>6. Frame(Depth) = regs[cwp] /\ \A i \in Nat : i = Depth => Frame(i)' = r
  BY <1>1, <1>2, <1>3, <1>4 DEF Frame
<1>7. Outs(cwp)' = Outs(cwp)
  <2>1. next_save_cwp(cwp) \in Windows \ {cwp}
    BY <1>1, Ring
  <2>. QED
    BY <1>4, <2>1 DEF Outs
<1>. QED
  BY <1>2, <1>5, <1>6, <1>7

\* An instruction or system call that writes an out of the current window
\* writes no register of a frame: the window below holds none.
LEMMA WriteOutFrames ==
    ASSUME TypeOK, OneInvalid, NEW r \in Registers,
           regs' = [regs EXCEPT ![next_save_cwp(cwp)] = r],
           UNCHANGED <<cwp, wim, stack>>, Depth' = Depth,
           \A i \in 1..(Depth - 1) : sps'[i] = sps[i]
    PROVE  /\ OneInvalid'
           /\ \A i \in 1..Depth : Frame(i)' = Frame(i)
           /\ Outs(cwp)' = [o0 |-> r.i0, o6 |-> r.i6]
<1> DEFINE below == next_save_cwp(cwp)
<1>1. /\ Resident \in 1..(NWINDOWS - 1) /\ Resident <= Depth
      /\ cwp \in Windows /\ below \in Windows /\ Depth \in Nat
      /\ Invalid \in Windows /\ Invalid # cwp
      /\ \A i \in 1..Depth : InWindow(i) => /\ WindowOf(i) \in Windows
                                            /\ WindowOf(i) # Invalid
  BY Layout, Ring DEF TypeOK, Depth
<1>2. /\ OneInvalid' /\ Resident' = Resident
      /\ \A i : WindowOf(i)' = WindowOf(i) /\ (InWindow(i)' <=> InWindow(i))
  BY DEF OneInvalid, Resident, Invalid, WindowOf, InWindow
<1>3. regs'[below] = r /\ \A w \in Windows \ {below} : regs'[w] = regs[w]
  BY <1>1 DEF TypeOK
<1>4. \A i \in 1..Depth : InWindow(i) => WindowOf(i) # below
  BY <1>1 DEF InWindow, WindowOf, Resident, next_save_cwp, Windows
<1>5. InWindow(Depth)
  BY <1>1 DEF InWindow
<1>6. \A i \in 1..Depth : Frame(i)' = Frame(i)
  <2> TAKE i \in 1..Depth
  <2>1. CASE InWindow(i)
    BY <1>1, <1>2, <1>3, <1>4, <2>1 DEF Frame
  <2>2. CASE ~InWindow(i)
    <3>1. i \in 1..(Depth - 1)
      BY <1>1, <1>5, <2>2
    <3>. QED
      BY <1>2, <2>2, <3>1 DEF Frame
  <2>. QED
    BY <2>1, <2>2
<1>7. Outs(cwp)' = [o0 |-> r.i0, o6 |-> r.i6]
  BY <1>3 DEF Outs
<1>. QED
  BY <1>2, <1>6, <1>7

-----------------------------------------------------------------------------
(* The invariant *)

LEMMA InitInv == Init => Inv
<1> SUFFICES ASSUME Init PROVE Inv
  OBVIOUS
<1>0. cwp = 0 /\ wim = {1} /\ redo = "none" /\ halted = FALSE /\ sps = <<1>>
  BY DEF Init
<1>1. /\ cwp = 0 /\ wim = {1} /\ redo = "none" /\ halted = FALSE
      /\ sps = <<1>> /\ Depth = 1 /\ sps[1] = 1
      /\ 0 \in Windows /\ 1 \in Windows /\ NWINDOWS - 1 \in Windows
  BY <1>0 DEF Depth, Windows
<1>2. Invalid = 1 /\ Resident = 1
  BY <1>1, InvalidWindow DEF Resident
<1>3. regs[NWINDOWS - 1] = [Zeroed EXCEPT !.i6 = 1] /\ regs[0] = Zeroed
  BY <1>1 DEF Init, Windows
<1>4. Frame(1) = Zeroed
  BY <1>1, <1>2, <1>3 DEF Frame, InWindow, WindowOf
<1>5. Sp = 1
  BY <1>1, <1>3 DEF Sp, Outs, next_save_cwp, Zeroed
<1>6. SpChain
  BY <1>1, <1>4, <1>5 DEF SpChain, Zeroed
<1>7. OneInvalid
  BY <1>1, <1>2 DEF OneInvalid
<1>. QED
  BY <1>1, <1>6, <1>7 DEF Inv, RetryDoesNotTrap, HaltsOnlyAtTheBottom

\* Every instruction preserves the invariant.
LEMMA NextInv == TypeOK /\ Inv /\ [Next]_vars => Inv'
<1> SUFFICES ASSUME TypeOK, Inv, [Next]_vars PROVE Inv'
  OBVIOUS
<1>0. /\ OneInvalid /\ SpChain /\ RetryDoesNotTrap /\ HaltsOnlyAtTheBottom
      /\ redo = "save" => Sp < StackSlots
      /\ redo = "restore" => Depth > 1
      /\ Depth \in Nat /\ Depth > 0
  <2>1. Depth \in Nat /\ Resident >= 1 /\ Resident <= Depth
    BY Layout DEF Inv, TypeOK, Depth
  <2>. QED
    BY <2>1, Layout DEF Inv
<1>1. ASSUME NEW n \in 1..StackSlots, Save(n) PROVE Inv'
  <2>1. SpChain'
    <3>1. Sp' = sps'[Depth']
      BY <1>0, <1>1, SaveFrames DEF Sp
    <3>2. ASSUME NEW i \in 1..(Depth' - 1) PROVE Frame(i + 1)'.i6 = sps'[i]
      <4>1. i \in 1..Depth /\ sps'[i] = sps[i] /\ i + 1 \in Nat
        BY <1>0, <1>1, SaveFrames
      <4>2. CASE i < Depth
        <5>1. i \in 1..(Depth - 1) /\ i + 1 \in 1..Depth
          BY <1>0, <4>1, <4>2
        <5>2. Frame(i + 1).i6 = sps[i]
          BY <1>0, <5>1 DEF SpChain
        <5>. QED
          BY <1>0, <1>1, <4>1, <5>1, <5>2, SaveFrames
      <4>3. CASE i = Depth
        <5>1. Frame(i + 1)' = regs[next_save_cwp(cwp)]
          BY <1>0, <1>1, <4>1, <4>3, SaveFrames
        <5>2. regs[next_save_cwp(cwp)].i6 = sps[Depth]
          BY <1>0 DEF SpChain, Sp, Outs
        <5>. QED
          BY <4>1, <4>3, <5>1, <5>2
      <4>. QED
        BY <1>0, <4>1, <4>2, <4>3
    <3>3. Frame(1)'.i6 = 0
      BY <1>0, <1>1, SaveFrames DEF SpChain
    <3>4. ASSUME NEW i \in 1..Depth', NEW j \in 1..Depth', i < j
          PROVE  sps'[i] < sps'[j]
      <4>1. i \in 1..Depth /\ sps'[i] = sps[i] /\ sps[i] \in 1..StackSlots
        BY <1>0, <1>1, <3>4, SaveFrames DEF TypeOK, Depth
      <4>2. CASE j = Depth + 1
        <5>1. sps'[j] = sps[Depth] + n
          BY <1>0, <1>1, <4>2, SaveFrames DEF SpChain
        <5>2. sps[Depth] \in 1..StackSlots
          BY <1>0 DEF TypeOK, Depth
        <5>3. i < Depth => sps[i] < sps[Depth]
          BY <1>0, <4>1 DEF SpChain
        <5>4. i = Depth \/ i < Depth
          BY <1>0, <4>1
        <5>. QED
          BY <4>1, <5>1, <5>2, <5>3, <5>4
      <4>3. CASE j # Depth + 1
        BY <1>0, <1>1, <3>4, <4>1, <4>3, SaveFrames DEF SpChain
      <4>. QED
        BY <4>2, <4>3
    <3>. QED
      BY <3>1, <3>2, <3>3, <3>4 DEF SpChain
  <2>2. OneInvalid' /\ redo' = "none" /\ halted' = FALSE
    BY <1>0, <1>1, SaveFrames DEF Save, CanExecute, TypeOK
  <2>. QED
    BY <2>1, <2>2 DEF Inv, RetryDoesNotTrap, HaltsOnlyAtTheBottom
<1>2. ASSUME NEW toO0 \in BOOLEAN, Restore(toO0) PROVE Inv'
  <2>1. SpChain'
    <3>0. /\ Depth > 1 /\ Depth' = Depth - 1
          /\ \A i \in 1..(Depth - 1) : Frame(i)' = Frame(i) /\ sps'[i] = sps[i]
          /\ Outs(cwp)'.o6 = Frame(Depth).i6
      BY <1>0, <1>2, RestoreFrames
    <3>1. Sp' = sps'[Depth']
      <4>1. Frame((Depth - 1) + 1).i6 = sps[Depth - 1]
        BY <1>0, <3>0 DEF SpChain
      <4>. QED
        BY <1>0, <3>0, <4>1 DEF Sp
    <3>2. ASSUME NEW i \in 1..(Depth' - 1) PROVE Frame(i + 1)'.i6 = sps'[i]
      <4>1. i \in 1..(Depth - 1) /\ i + 1 \in 1..(Depth - 1)
        BY <1>0, <3>0
      <4>. QED
        BY <1>0, <3>0, <4>1 DEF SpChain
    <3>3. Frame(1)'.i6 = 0
      BY <1>0, <3>0 DEF SpChain
    <3>4. \A i, j \in 1..Depth' : i < j => sps'[i] < sps'[j]
      BY <1>0, <3>0 DEF SpChain
    <3>. QED
      BY <3>1, <3>2, <3>3, <3>4 DEF SpChain
  <2>2. OneInvalid' /\ redo' = "none" /\ halted' = FALSE
    BY <1>0, <1>2, RestoreFrames DEF Restore, CanExecute, TypeOK
  <2>. QED
    BY <2>1, <2>2 DEF Inv, RetryDoesNotTrap, HaltsOnlyAtTheBottom
<1>3. ASSUME OneInvalid', Outs(cwp)' = Outs(cwp), Depth' = Depth, sps' = sps,
             \A i \in 1..Depth : Frame(i)' = Frame(i)
      PROVE  SpChain'
  BY <1>0, <1>3 DEF SpChain, Sp
<1>4. CASE OverflowTrap
  <2>1. SpChain' /\ OneInvalid' /\ redo' = "save" /\ Sp' < StackSlots
    BY <1>0, <1>3, <1>4, OverflowFrames
  <2>2. next_save_cwp(cwp') \notin wim'
    BY <1>0, <1>4, OverflowFrames
  <2>3. halted' = FALSE
    BY <1>0, <1>4, OverflowFrames DEF OverflowTrap, CanExecute, TypeOK
  <2>. QED
    BY <2>1, <2>2, <2>3 DEF Inv, RetryDoesNotTrap, HaltsOnlyAtTheBottom
<1>5. CASE UnderflowTrap
  <2>1. CASE UNCHANGED <<cwp, wim, regs, stack, redo, sps>> /\ Depth = 1 /\ tbr' = 6
    <3>1. OneInvalid'
      BY <1>0, <2>1 DEF OneInvalid, Resident, Invalid, Depth
    <3>2. Depth' = Depth /\ Outs(cwp)' = Outs(cwp)
      BY <2>1 DEF Depth, Outs
    <3>3. \A i : Frame(i)' = Frame(i)
      BY <2>1 DEF Frame, InWindow, WindowOf, Resident, Invalid, Depth
    <3>4. SpChain'
      BY <1>3, <2>1, <3>1, <3>2, <3>3
    <3>5. RetryDoesNotTrap' /\ Sp' = Sp
      BY <1>0, <2>1, <3>2 DEF RetryDoesNotTrap, Sp
    <3>. QED
      BY <1>0, <2>1, <3>1, <3>2, <3>4, <3>5 DEF Inv, HaltsOnlyAtTheBottom
  <2>2. CASE /\ OneInvalid' /\ redo' = "restore" /\ halted' = halted
             /\ sps' = sps /\ Depth' = Depth /\ Depth > 1
             /\ \A i \in 1..Depth : Frame(i)' = Frame(i)
             /\ Outs(cwp)' = Outs(cwp)
             /\ next_restore_cwp(cwp)' \notin wim'
    <3>1. SpChain'
      BY <1>3, <2>2
    <3>2. halted' = FALSE
      BY <1>5, <2>2 DEF UnderflowTrap, CanExecute, TypeOK
    <3>. QED
      BY <2>2, <3>1, <3>2 DEF Inv, RetryDoesNotTrap, HaltsOnlyAtTheBottom
  <2>. QED
    BY <1>0, <1>5, <2>1, <2>2, UnderflowFrames
<1>6. ASSUME NEW r \in Registers, r.i6 = regs[cwp].i6,
             regs' = [regs EXCEPT ![cwp] = r], UNCHANGED <<cwp, wim, stack, sps>>
      PROVE  OneInvalid' /\ SpChain'
  <2>1. /\ OneInvalid' /\ Depth' = Depth /\ Outs(cwp)' = Outs(cwp)
        /\ \A i \in 1..(Depth - 1) : Frame(i)' = Frame(i)
        /\ Frame(Depth) = regs[cwp]
        /\ \A i \in Nat : i = Depth => Frame(i)' = r
    BY <1>0, <1>6, WriteFrames
  <2>2. \A i \in 1..Depth : Frame(i)'.i6 = Frame(i).i6
    <3> TAKE i \in 1..Depth
    <3>1. i \in Nat /\ (i = Depth \/ i \in 1..(Depth - 1))
      BY <1>0
    <3>. QED
      BY <1>6, <2>1, <3>1
  <2>3. Sp' = sps'[Depth']
    BY <1>0, <1>6, <2>1 DEF Sp, SpChain
  <2>4. ASSUME NEW i \in 1..(Depth' - 1) PROVE Frame(i + 1)'.i6 = sps'[i]
    <3>1. i \in 1..(Depth - 1) /\ i + 1 \in 1..Depth
      BY <1>0, <2>1
    <3>. QED
      BY <1>0, <1>6, <2>2, <3>1 DEF SpChain
  <2>5. Frame(1)'.i6 = 0
    BY <1>0, <2>2 DEF SpChain
  <2>6. \A i, j \in 1..Depth' : i < j => sps'[i] < sps'[j]
    BY <1>0, <1>6, <2>1 DEF SpChain
  <2>. QED
    BY <2>1, <2>3, <2>4, <2>5, <2>6 DEF SpChain
<1>7. ASSUME NEW r \in Registers, regs' = [regs EXCEPT ![next_save_cwp(cwp)] = r],
             UNCHANGED <<cwp, wim, stack>>, Depth' = Depth,
             \A i \in 1..(Depth - 1) : sps'[i] = sps[i],
             sps'[Depth] = r.i6,
             \A i \in 1..(Depth - 1) : sps[i] < r.i6
      PROVE  OneInvalid' /\ SpChain'
  <2>1. /\ OneInvalid' /\ \A i \in 1..Depth : Frame(i)' = Frame(i)
        /\ Outs(cwp)' = [o0 |-> r.i0, o6 |-> r.i6]
    BY <1>0, <1>7, WriteOutFrames
  <2>2. Sp' = sps'[Depth']
    BY <1>7, <2>1 DEF Sp
  <2>3. ASSUME NEW i \in 1..(Depth' - 1) PROVE Frame(i + 1)'.i6 = sps'[i]
    <3>1. i \in 1..(Depth - 1) /\ i + 1 \in 1..Depth
      BY <1>0, <1>7
    <3>. QED
      BY <1>0, <1>7, <2>1, <3>1 DEF SpChain
  <2>4. Frame(1)'.i6 = 0
    BY <1>0, <2>1 DEF SpChain
  <2>5. ASSUME NEW i \in 1..Depth', NEW j \in 1..Depth', i < j PROVE sps'[i] < sps'[j]
    <3>1. i \in 1..(Depth - 1) /\ (j = Depth \/ j \in 1..(Depth - 1))
      BY <1>0, <1>7, <2>5
    <3>2. CASE j = Depth
      BY <1>7, <3>1, <3>2
    <3>3. CASE j \in 1..(Depth - 1)
      BY <1>0, <1>7, <2>5, <3>1, <3>3 DEF SpChain
    <3>. QED
      BY <3>1, <3>2, <3>3
  <2>. QED
    BY <2>1, <2>2, <2>3, <2>4, <2>5 DEF SpChain
<1>8. ASSUME NEW v \in Word, WriteLocal(v) \/ WriteIn(v) PROVE Inv'
  <2>0. cwp \in Windows /\ regs[cwp] \in Registers
    BY DEF TypeOK
  <2>1. PICK r \in Registers : r.i6 = regs[cwp].i6 /\ regs' = [regs EXCEPT ![cwp] = r]
    <3>1. CASE WriteLocal(v)
      <4>1. /\ [regs[cwp] EXCEPT !.l0 = v] \in Registers
            /\ [regs[cwp] EXCEPT !.l0 = v].i6 = regs[cwp].i6
        BY <2>0 DEF Registers
      <4>2. regs' = [regs EXCEPT ![cwp] = [regs[cwp] EXCEPT !.l0 = v]]
        BY <3>1 DEF WriteLocal
      <4>. QED
        BY <4>1, <4>2
    <3>2. CASE WriteIn(v)
      <4>1. /\ [regs[cwp] EXCEPT !.i0 = v] \in Registers
            /\ [regs[cwp] EXCEPT !.i0 = v].i6 = regs[cwp].i6
        BY <2>0 DEF Registers
      <4>2. regs' = [regs EXCEPT ![cwp] = [regs[cwp] EXCEPT !.i0 = v]]
        BY <3>2 DEF WriteIn
      <4>. QED
        BY <4>1, <4>2
    <3>. QED
      BY <1>8, <3>1, <3>2
  <2>2. UNCHANGED <<cwp, wim, stack, tbr, redo, halted, sps>> /\ CanExecute("none")
    BY <1>8 DEF WriteLocal, WriteIn
  <2>3. OneInvalid' /\ SpChain'
    BY <1>6, <2>1, <2>2
  <2>4. redo' = "none" /\ halted' = FALSE
    BY <2>2 DEF CanExecute, TypeOK
  <2>. QED
    BY <2>3, <2>4 DEF Inv, RetryDoesNotTrap, HaltsOnlyAtTheBottom
<1>9. ASSUME NEW v \in Word, WriteOut(v) \/ Syscall(v) PROVE Inv'
  <2> DEFINE below == next_save_cwp(cwp)
             r == [regs[below] EXCEPT !.i0 = v]
  <2>0. below \in Windows /\ regs[below] \in Registers /\ sps \in Seq(1..StackSlots)
    BY Ring DEF TypeOK
  <2>1. /\ r \in Registers /\ r.i6 = regs[below].i6
        /\ regs' = [regs EXCEPT ![below] = r]
        /\ UNCHANGED <<cwp, wim, stack, redo, halted, sps>> /\ CanExecute("none")
    <3>1. r \in Registers /\ r.i6 = regs[below].i6
      BY <2>0 DEF Registers
    <3>2. regs' = [regs EXCEPT ![below] = r]
      BY <1>9 DEF WriteOut, Syscall
    <3>3. UNCHANGED <<cwp, wim, stack, redo, halted, sps>> /\ CanExecute("none")
      BY <1>9 DEF WriteOut, Syscall
    <3>. QED
      BY <3>1, <3>2, <3>3
  <2>2. r.i6 = sps[Depth] /\ Depth' = Depth
    BY <1>0, <2>1 DEF SpChain, Sp, Outs, Depth
  <2>3. \A i \in 1..(Depth - 1) : sps[i] < r.i6
    BY <1>0, <2>2 DEF SpChain
  <2>4. OneInvalid' /\ SpChain'
    <3> HIDE DEF r
    <3>. QED
      BY <1>7, <2>1, <2>2, <2>3
  <2>5. redo' = "none" /\ halted' = FALSE
    BY <2>1 DEF CanExecute, TypeOK
  <2>. QED
    BY <2>4, <2>5 DEF Inv, RetryDoesNotTrap, HaltsOnlyAtTheBottom
<1>10. ASSUME NEW sp \in 1..StackSlots, MoveSp(sp) PROVE Inv'
  <2> DEFINE below == next_save_cwp(cwp)
             r == [regs[below] EXCEPT !.i6 = sp]
  <2>0. below \in Windows /\ regs[below] \in Registers /\ sps \in Seq(1..StackSlots)
    BY Ring DEF TypeOK
  <2>1. r \in Registers /\ r.i6 = sp /\ regs' = [regs EXCEPT ![below] = r]
    <3>1. r \in Registers /\ r.i6 = sp
      BY <2>0 DEF Registers, Addr
    <3>2. regs' = [regs EXCEPT ![below] = r]
      BY <1>10 DEF MoveSp
    <3>. QED
      BY <3>1, <3>2
  <2>2. /\ UNCHANGED <<cwp, wim, stack, tbr, redo, halted>> /\ CanExecute("none")
        /\ sps' = [sps EXCEPT ![Depth] = sp] /\ sp > regs[cwp].i6
    BY <1>10 DEF MoveSp, Depth
  <2>3. /\ Depth' = Depth /\ sps'[Depth] = sp
        /\ \A i \in 1..(Depth - 1) : sps'[i] = sps[i]
    BY <1>0, <2>0, <2>2 DEF Depth
  <2>4. \A i \in 1..(Depth - 1) : sps[i] < sp
    <3>1. Frame(Depth) = regs[cwp]
      <4>1. InWindow(Depth) /\ WindowOf(Depth) = cwp
        BY <1>0, Layout DEF InWindow
      <4>. QED
        BY <4>1 DEF Frame
    <3>2. CASE Depth > 1
      <4>1. Frame((Depth - 1) + 1).i6 = sps[Depth - 1] /\ sps[Depth - 1] \in 1..StackSlots
        BY <1>0, <3>2 DEF SpChain, TypeOK, Depth
      <4>2. sps[Depth - 1] < sp
        BY <1>0, <2>2, <3>1, <4>1
      <4>3. ASSUME NEW i \in 1..(Depth - 1) PROVE sps[i] < sp
        <5>1. sps[i] \in 1..StackSlots
          BY <1>0 DEF TypeOK, Depth
        <5>2. i < Depth - 1 => sps[i] < sps[Depth - 1]
          BY <1>0, <3>2 DEF SpChain
        <5>3. i < Depth - 1 \/ i = Depth - 1
          BY <1>0
        <5>. QED
          BY <4>1, <4>2, <5>1, <5>2, <5>3
      <4>. QED
        BY <4>3
    <3>. QED
      BY <1>0, <3>2
  <2>5. OneInvalid' /\ SpChain'
    <3> HIDE DEF r
    <3>. QED
      BY <1>7, <2>1, <2>2, <2>3, <2>4
  <2>6. redo' = "none" /\ halted' = FALSE
    BY <2>2 DEF CanExecute, TypeOK
  <2>. QED
    BY <2>5, <2>6 DEF Inv, RetryDoesNotTrap, HaltsOnlyAtTheBottom
<1>11. ASSUME UNCHANGED <<cwp, wim, regs, stack, redo, halted, sps>>,
              halted => tbr' = tbr
       PROVE  Inv'
  <2>1. /\ Depth' = Depth /\ Outs(cwp)' = Outs(cwp) /\ OneInvalid'
        /\ Sp' = Sp /\ RetryDoesNotTrap'
    BY <1>0, <1>11
       DEF Depth, Outs, Sp, OneInvalid, Resident, Invalid, RetryDoesNotTrap
  <2>2. \A i : Frame(i)' = Frame(i)
    BY <1>11 DEF Frame, InWindow, WindowOf, Resident, Invalid, Depth
  <2>3. SpChain'
    BY <1>3, <1>11, <2>1, <2>2
  <2>4. HaltsOnlyAtTheBottom'
    BY <1>0, <1>11, <2>1 DEF HaltsOnlyAtTheBottom
  <2>. QED
    BY <1>0, <1>11, <2>1, <2>3, <2>4 DEF Inv
<1>12. ASSUME NEW t \in Quiet, QuietTrap(t) PROVE Inv'
  BY <1>11, <1>12 DEF QuietTrap, CanExecute
<1>13. CASE UNCHANGED vars
  BY <1>11, <1>13 DEF vars
<1>. QED
  BY <1>1, <1>2, <1>4, <1>5, <1>8, <1>9, <1>10, <1>12, <1>13
     DEF Next, SaveInstruction, RestoreInstruction

\* The invariant, for every number of windows and every depth of calls.
THEOREM Invariant == Spec => []Inv
BY InitInv, NextInv, InitTypeOK, NextTypeOK, PTL DEF Spec

\* Each part of the invariant, for the reader who looks for a property that
\* the runs check: the two rotations of wim keep step with spills and fills,
\* the chain of stack pointers leads to every frame, a retried SAVE or RESTORE
\* does not trap, and no guest but one that falls off its stack is terminated.
THEOREM Safety ==
    Spec => [](OneInvalid /\ SpChain /\ RetryDoesNotTrap /\ HaltsOnlyAtTheBottom)
<1>1. Inv => OneInvalid /\ SpChain /\ RetryDoesNotTrap /\ HaltsOnlyAtTheBottom
  BY DEF Inv
<1>. QED
  BY <1>1, Invariant, PTL

-----------------------------------------------------------------------------
(* The register windows implement the call frames *)

\* The frames, in windows and save areas, are a sequence of registers.
LEMMA FramesAreSequence ==
    ASSUME TypeOK, OneInvalid
    PROVE  /\ Frames \in Seq(Registers) /\ Len(Frames) = Depth
           /\ Depth \in Nat /\ Depth >= 1
           /\ \A i \in 1..Depth : Frames[i] = Frame(i)
<1>1. Depth \in Nat /\ Depth >= 1 /\ \A i \in 1..Depth : sps[i] \in 1..StackSlots
  BY Layout DEF TypeOK, Depth
<1>2. \A i \in 1..Depth : Frame(i) \in Registers
  BY <1>1, Layout DEF Frame, TypeOK
<1>3. Frames \in [1..Depth -> Registers]
  BY <1>2 DEF Frames
<1>. QED
  BY <1>1, <1>3 DEF Frames

LEMMA InitImplements == Init => Calls!Init
<1> SUFFICES ASSUME Init PROVE Calls!Init
  OBVIOUS
<1>0. cwp = 0 /\ wim = {1} /\ halted = FALSE /\ sps = <<1>>
  BY DEF Init
<1>1. Depth = 1 /\ 0 \in Windows /\ 1 \in Windows /\ NWINDOWS - 1 \in Windows
  BY <1>0 DEF Depth, Windows
<1>2. Invalid = 1 /\ Resident = 1
  BY <1>0, <1>1, InvalidWindow DEF Resident
<1>3. regs[NWINDOWS - 1] = [Zeroed EXCEPT !.i6 = 1] /\ regs[0] = Zeroed
  BY <1>1 DEF Init, Windows
<1>4. Frame(1) = Zeroed
  BY <1>0, <1>1, <1>2, <1>3 DEF Frame, InWindow, WindowOf
<1>5. Frames = << Zeroed >>
  BY <1>1, <1>4 DEF Frames
<1>6. Outs(cwp) = [o0 |-> 0, o6 |-> 1]
  BY <1>0, <1>3 DEF Outs, next_save_cwp, Zeroed
<1>. QED
  BY <1>0, <1>5, <1>6 DEF Calls!Init, Zeroed

\* Every step of the windows is a step of the frames or leaves them alone.
LEMMA StepImplements ==
    ASSUME TypeOK, Inv, TypeOK', Inv', [Next]_vars
    PROVE  [Calls!Next]_(Calls!vars)
<1>0. /\ OneInvalid /\ SpChain /\ OneInvalid'
      /\ Frames \in Seq(Registers) /\ Len(Frames) = Depth
      /\ Depth \in Nat /\ Depth >= 1
      /\ \A i \in 1..Depth : Frames[i] = Frame(i)
      /\ cwp \in Windows /\ regs \in [Windows -> Registers]
  BY FramesAreSequence DEF Inv, TypeOK
<1>1. Frames' = [i \in 1..Depth' |-> Frame(i)']
  BY DEF Frames
<1>2. ASSUME Depth' = Depth, \A i \in 1..Depth : Frame(i)' = Frame(i)
      PROVE  Frames' = Frames
  BY <1>1, <1>2 DEF Frames
<1>3. ASSUME NEW n \in 1..StackSlots, Save(n) PROVE Calls!Call
  <2> DEFINE new == next_save_cwp(cwp)
             below == next_save_cwp(new)
             sp == Sp + n
             e == [l0 |-> regs[new].l0, i0 |-> Outs(cwp).o0, i6 |-> Outs(cwp).o6]
  <2>1. /\ Depth' = Depth + 1
        /\ \A i \in 1..Depth : Frame(i)' = Frame(i)
        /\ \A i \in Nat : i = Depth + 1 => Frame(i)' = regs[new]
        /\ Outs(cwp)'.o0 = regs[below].i0 /\ Outs(cwp)'.o6 = sp
    BY <1>0, <1>3, SaveFrames
  <2>2. new \in Windows /\ below \in Windows
    BY <1>0, Ring
  <2>3. /\ regs[new] \in Registers /\ regs[new] = e
        /\ regs[new].l0 \in Word /\ regs[below].i0 \in Word
    <3>1. regs[new] \in Registers /\ regs[below] \in Registers
      BY <1>0, <2>2
    <3>2. e = [l0 |-> regs[new].l0, i0 |-> regs[new].i0, i6 |-> regs[new].i6]
      BY DEF Outs
    <3>. QED
      BY <3>1, <3>2 DEF Registers
  <2>4. Outs(cwp)' = [o0 |-> regs[below].i0, o6 |-> sp]
    <3>1. Outs(cwp)' = [o0 |-> Outs(cwp)'.o0, o6 |-> Outs(cwp)'.o6]
      BY DEF Outs
    <3>. QED
      BY <2>1, <3>1
  <2>5. sp \in (Outs(cwp).o6 + 1)..StackSlots
    <3>1. sp <= StackSlots /\ Outs(cwp).o6 \in Nat
      BY <1>0, <1>3, RegistersOfWindow DEF Save, Addr
    <3>. QED
      BY <3>1 DEF Sp
  <2>6. Frames' = Append(Frames, e)
    <3>1. Frames' = [i \in 1..(Depth + 1) |-> Frame(i)']
      BY <1>1, <2>1
    <3>2. \A i \in 1..(Depth + 1) : Frame(i)' = IF i = Depth + 1 THEN e ELSE Frames[i]
      BY <1>0, <2>1, <2>3
    <3>3. Append(Frames, e) = [i \in 1..(Depth + 1) |-> IF i = Depth + 1 THEN e ELSE Frames[i]]
      BY <1>0
    <3> HIDE DEF e
    <3>. QED
      BY <3>1, <3>2, <3>3
  <2>7. ~halted /\ halted' = halted
    BY <1>3 DEF Save, CanExecute
  <2>. QED
    <3>1. \E l, o \in Word, s \in (Outs(cwp).o6 + 1)..StackSlots :
              /\ Frames' = Append(Frames, [l0 |-> l, i0 |-> Outs(cwp).o0, i6 |-> Outs(cwp).o6])
              /\ Outs(cwp)' = [o0 |-> o, o6 |-> s]
      BY <2>3, <2>4, <2>5, <2>6
    <3>. QED
      BY <2>7, <3>1 DEF Calls!Call
<1>4. ASSUME NEW toO0 \in BOOLEAN, Restore(toO0) PROVE Calls!Return
  <2>1. /\ Depth > 1 /\ Depth' = Depth - 1
        /\ \A i \in 1..(Depth - 1) : Frame(i)' = Frame(i)
        /\ Outs(cwp)'.o0 \in {Frame(Depth).i0, Outs(cwp).o0}
        /\ Outs(cwp)'.o6 = Frame(Depth).i6
    BY <1>0, <1>4, RestoreFrames
  <2>2. Calls!Top = Frame(Depth)
    BY <1>0 DEF Calls!Top
  <2>3. Outs(cwp)' = [o0 |-> Outs(cwp)'.o0, o6 |-> Calls!Top.i6]
    <3>1. Outs(cwp)' = [o0 |-> Outs(cwp)'.o0, o6 |-> Outs(cwp)'.o6]
      BY DEF Outs
    <3>. QED
      BY <2>1, <2>2, <3>1
  <2>4. Frames' = SubSeq(Frames, 1, Len(Frames) - 1)
    <3>1. Frames' = [i \in 1..(Depth - 1) |-> Frame(i)']
      BY <1>1, <2>1
    <3>2. SubSeq(Frames, 1, Depth - 1) = [i \in 1..(Depth - 1) |-> Frames[i]]
      BY <1>0, <2>1
    <3>. QED
      BY <1>0, <2>1, <3>1, <3>2
  <2>5. ~halted /\ halted' = halted
    BY <1>4 DEF Restore, CanExecute
  <2>. QED
    <3>1. \E result \in {Calls!Top.i0, Outs(cwp).o0} :
              Outs(cwp)' = [o0 |-> result, o6 |-> Calls!Top.i6]
      BY <2>1, <2>2, <2>3
    <3>. QED
      BY <1>0, <2>1, <2>4, <2>5, <3>1 DEF Calls!Return
<1>5. CASE OverflowTrap
  <2>1. Frames' = Frames /\ Outs(cwp)' = Outs(cwp) /\ halted' = halted
    BY <1>0, <1>2, <1>5, OverflowFrames
  <2>. QED
    BY <2>1 DEF Calls!vars
<1>6. CASE UnderflowTrap
  <2>1. CASE Depth = 1 /\ halted' = TRUE /\ UNCHANGED <<cwp, wim, regs, stack, sps>>
    <3>1. Outs(cwp)' = Outs(cwp) /\ Depth' = Depth
      BY <2>1 DEF Outs, Depth
    <3>2. \A i : Frame(i)' = Frame(i)
      BY <2>1 DEF Frame, InWindow, WindowOf, Resident, Invalid, Depth
    <3>3. Frames' = Frames
      BY <1>2, <3>1, <3>2
    <3>4. ~halted
      BY <1>6 DEF UnderflowTrap, CanExecute
    <3>5. Calls!FallOff
      BY <1>0, <2>1, <3>1, <3>3, <3>4 DEF Calls!FallOff
    <3>. QED
      BY <3>5 DEF Calls!Next
  <2>2. CASE /\ Depth' = Depth /\ \A i \in 1..Depth : Frame(i)' = Frame(i)
             /\ Outs(cwp)' = Outs(cwp) /\ halted' = halted
    BY <1>2, <2>2 DEF Calls!vars
  <2>. QED
    BY <1>0, <1>6, <2>1, <2>2, UnderflowFrames
<1>7. ASSUME NEW v \in Word, WriteLocal(v) \/ WriteIn(v) PROVE Calls!Write
  <2> DEFINE r == IF WriteLocal(v) THEN [regs[cwp] EXCEPT !.l0 = v]
                                   ELSE [regs[cwp] EXCEPT !.i0 = v]
  <2>1. /\ r \in Registers /\ regs' = [regs EXCEPT ![cwp] = r]
        /\ UNCHANGED <<cwp, wim, stack, halted, sps>> /\ CanExecute("none")
    <3>1. r \in Registers
      BY <1>0 DEF Registers
    <3>2. regs' = [regs EXCEPT ![cwp] = r]
      BY <1>7 DEF WriteLocal, WriteIn
    <3>3. UNCHANGED <<cwp, wim, stack, halted, sps>> /\ CanExecute("none")
      BY <1>7 DEF WriteLocal, WriteIn
    <3>. QED
      BY <3>1, <3>2, <3>3
  <2>2. /\ Depth' = Depth /\ Outs(cwp)' = Outs(cwp)
        /\ \A i \in 1..(Depth - 1) : Frame(i)' = Frame(i)
        /\ Frame(Depth) = regs[cwp]
        /\ \A i \in Nat : i = Depth => Frame(i)' = r
    <3> HIDE DEF r
    <3>. QED
      BY <1>0, <2>1, WriteFrames
  <2>3. Frames' = [Frames EXCEPT ![Len(Frames)] = r]
    <3>1. \A i \in 1..Depth : Frame(i)' = IF i = Depth THEN r ELSE Frames[i]
      BY <1>0, <2>2
    <3> HIDE DEF r
    <3>2. Frames' = [i \in 1..Depth |-> IF i = Depth THEN r ELSE Frames[i]]
      BY <1>1, <2>2, <3>1
    <3>3. Frames = [i \in 1..Depth |-> Frames[i]]
      BY DEF Frames
    <3>. QED
      BY <1>0, <3>2, <3>3
  <2>4. Frames[Len(Frames)] = regs[cwp]
    BY <1>0, <2>2
  <2>5. \/ Frames' = [Frames EXCEPT ![Len(Frames)].l0 = v]
        \/ Frames' = [Frames EXCEPT ![Len(Frames)].i0 = v]
    <3>1. CASE r = [regs[cwp] EXCEPT !.l0 = v]
      BY <2>3, <2>4, <3>1
    <3>2. CASE r = [regs[cwp] EXCEPT !.i0 = v]
      BY <2>3, <2>4, <3>2
    <3>. QED
      BY <3>1, <3>2
  <2>. QED
    <3>1. ~halted /\ UNCHANGED <<Outs(cwp), halted>>
      BY <2>1, <2>2 DEF CanExecute
    <3>. QED
      BY <2>5, <3>1 DEF Calls!Write
<1>8. ASSUME NEW r \in Registers, regs' = [regs EXCEPT ![next_save_cwp(cwp)] = r],
             UNCHANGED <<cwp, wim, stack>>, Depth' = Depth,
             \A i \in 1..(Depth - 1) : sps'[i] = sps[i]
      PROVE  Frames' = Frames /\ Outs(cwp)' = [o0 |-> r.i0, o6 |-> r.i6]
  BY <1>0, <1>2, <1>8, WriteOutFrames
<1>9. ASSUME NEW v \in Word, WriteOut(v) \/ Syscall(v) PROVE Calls!Write
  <2> DEFINE below == next_save_cwp(cwp)
             r == [regs[below] EXCEPT !.i0 = v]
  <2>0. below \in Windows /\ regs[below] \in Registers
    BY <1>0, Ring
  <2>1. r \in Registers /\ r.i0 = v /\ r.i6 = regs[below].i6
    BY <2>0 DEF Registers
  <2>2. /\ regs' = [regs EXCEPT ![below] = r]
        /\ UNCHANGED <<cwp, wim, stack, halted, sps>> /\ CanExecute("none")
    BY <1>9 DEF WriteOut, Syscall
  <2>3. Frames' = Frames /\ Outs(cwp)' = [o0 |-> v, o6 |-> Outs(cwp).o6]
    <3>1. Depth' = Depth /\ Outs(cwp).o6 = regs[below].i6
      BY <2>2 DEF Depth, Outs
    <3> HIDE DEF r
    <3>. QED
      BY <1>8, <2>1, <2>2, <3>1
  <2>4. [Outs(cwp) EXCEPT !.o0 = v] = [o0 |-> v, o6 |-> Outs(cwp).o6]
    BY DEF Outs
  <2>. QED
    <3>1. ~halted /\ halted' = halted
      BY <2>2 DEF CanExecute
    <3>2. Outs(cwp)' = [Outs(cwp) EXCEPT !.o0 = v]
      BY <2>3, <2>4
    <3>. QED
      BY <2>3, <3>1, <3>2 DEF Calls!Write
<1>10. ASSUME NEW sp \in 1..StackSlots, MoveSp(sp) PROVE Calls!MoveSp
  <2> DEFINE below == next_save_cwp(cwp)
             r == [regs[below] EXCEPT !.i6 = sp]
  <2>0. below \in Windows /\ regs[below] \in Registers /\ sps \in Seq(1..StackSlots)
    BY <1>0, Ring DEF TypeOK
  <2>1. r \in Registers /\ r.i6 = sp /\ r.i0 = regs[below].i0
    BY <2>0 DEF Registers, Addr
  <2>2. /\ regs' = [regs EXCEPT ![below] = r]
        /\ UNCHANGED <<cwp, wim, stack, halted>> /\ CanExecute("none")
        /\ sps' = [sps EXCEPT ![Depth] = sp] /\ sp > regs[cwp].i6
    BY <1>10 DEF MoveSp, Depth
  <2>3. Depth' = Depth /\ \A i \in 1..(Depth - 1) : sps'[i] = sps[i]
    BY <1>0, <2>0, <2>2 DEF Depth
  <2>4. Frames' = Frames /\ Outs(cwp)' = [o0 |-> Outs(cwp).o0, o6 |-> sp]
    <3>1. Outs(cwp).o0 = regs[below].i0
      BY DEF Outs
    <3> HIDE DEF r
    <3>. QED
      BY <1>8, <2>1, <2>2, <2>3, <3>1
  <2>5. [Outs(cwp) EXCEPT !.o6 = sp] = [o0 |-> Outs(cwp).o0, o6 |-> sp]
    BY DEF Outs
  <2>6. Calls!Top = regs[cwp]
    <3>1. InWindow(Depth) /\ WindowOf(Depth) = cwp
      BY <1>0, Layout DEF InWindow
    <3>2. Frame(Depth) = regs[cwp]
      BY <3>1 DEF Frame
    <3>. QED
      BY <1>0, <3>2 DEF Calls!Top
  <2>7. sp \in (Calls!Top.i6 + 1)..StackSlots
    <3>1. regs[cwp].i6 \in Nat
      BY <1>0 DEF Registers, Addr
    <3>. QED
      BY <2>2, <2>6, <3>1
  <2>. QED
    <3>1. ~halted /\ halted' = halted
      BY <2>2 DEF CanExecute
    <3>2. Outs(cwp)' = [Outs(cwp) EXCEPT !.o6 = sp]
      BY <2>4, <2>5
    <3>. QED
      BY <2>4, <2>7, <3>1, <3>2 DEF Calls!MoveSp
<1>11. ASSUME UNCHANGED <<cwp, wim, regs, stack, halted, sps>> PROVE UNCHANGED Calls!vars
  <2>1. Outs(cwp)' = Outs(cwp) /\ Depth' = Depth
    BY <1>11 DEF Outs, Depth
  <2>2. \A i : Frame(i)' = Frame(i)
    BY <1>11 DEF Frame, InWindow, WindowOf, Resident, Invalid, Depth
  <2>. QED
    BY <1>2, <1>11, <2>1, <2>2 DEF Calls!vars
<1>12. ASSUME NEW t \in Quiet, QuietTrap(t) PROVE UNCHANGED Calls!vars
  BY <1>11, <1>12 DEF QuietTrap
<1>13. CASE UNCHANGED vars
  BY <1>11, <1>13 DEF vars
<1>. QED
  BY <1>3, <1>4, <1>5, <1>6, <1>7, <1>9, <1>10, <1>12, <1>13
     DEF Next, SaveInstruction, RestoreInstruction, Calls!Next

\* A guest cannot tell the register windows, however few, from call frames on
\* an unlimited stack: every step of the emulator does to the registers of
\* the calls in progress what the calling convention promises, or nothing.
THEOREM WindowsImplementCallFrames == Spec => ImplementsCallFrames
<1>1. Init => Calls!Init
  BY InitImplements
<1>2. TypeOK /\ Inv /\ TypeOK' /\ Inv' /\ [Next]_vars => [Calls!Next]_(Calls!vars)
  BY StepImplements
<1>. QED
  BY <1>1, <1>2, TypeCorrect, Invariant, PTL DEF Spec, Calls!Spec, ImplementsCallFrames

=============================================================================
