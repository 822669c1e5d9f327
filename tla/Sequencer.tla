----------------------------- MODULE Sequencer -----------------------------
(***************************************************************************)
(* How Sparc::run() of sparc.cxx finds the next instruction: pc, npc and   *)
(* delay_instruction, for every kind of instruction that changes them, and *)
(* for the SAVE or RESTORE that is executed again after a window trap.     *)
(*                                                                         *)
(* A state is run() at the top of its loop.  Addresses are in words, and   *)
(* an instruction is what decides where the next one is.  Control          *)
(* transfers do not stand in the delay slot of another one, and the window *)
(* trap of an instruction is taken once (RetryDoesNotTrap of module        *)
(* RegisterWindows).                                                       *)
(***************************************************************************)
EXTENDS Integers

CONSTANTS
    MaxAddress,  \* bound: the guest's code is at 0..MaxAddress
    Handler,     \* the address tbr gives an installed trap handler
    Installed    \* the guest installed handlers for the window traps

ASSUME AddressAssumption == MaxAddress \in Nat /\ Handler \in 0..MaxAddress
ASSUME InstalledAssumption == Installed \in BOOLEAN

VARIABLES
    pc, npc,
    delay,       \* delay_instruction: 1 is "execute the delay slot at pc"
    executed,    \* interface: the last instruction completed
    status       \* "running", "retrying" the instruction that took a window
                 \* trap, "ending": stateEndEmulation is set, "stopped"

vars == <<pc, npc, delay, executed, status>>

Address == 0..MaxAddress

TypeOK ==
    /\ pc \in Nat
    /\ npc \in Nat
    /\ delay \in 0..2
    /\ executed.op \in {"none", "plain", "link", "branch", "trap"}
    /\ status \in {"running", "retrying", "ending", "stopped"}

Init ==
    /\ \E start \in Address : pc = start /\ npc = start
    /\ delay = 0
    /\ executed = [op |-> "none"]
    /\ status = "running"

\* What the top of the loop makes of pc, npc and delay_instruction: in a
\* delay slot it leaves the first two alone.
Pc == IF delay = 1 THEN pc ELSE npc
Npc == IF delay = 1 THEN npc ELSE npc + 1

\* Mutant of Delay: counted wherever it is not 0, and never reset.
DelayNeverReset == IF delay = 0 THEN 0 ELSE delay + 1

\* delay_instruction while the instruction is executed.
Delay == IF delay = 1 THEN 2 ELSE 0

\* The instruction at Pc is executed to its end.
Executes(instruction) ==
    /\ Pc \in Address
    /\ executed' = instruction

\* One that moves none of the counters, a SAVE or RESTORE that does not trap
\* and a trap that handle_trap returns from among them.
Plain ==
    /\ status \in {"running", "retrying"}
    /\ Executes([op |-> "plain", at |-> Pc])
    /\ pc' = Pc /\ npc' = Npc /\ delay' = Delay
    /\ status' = "running"

\* To the delay slot, and then to target.
Transfer(target) ==
    /\ npc' = target
    /\ delay' = 1
    /\ pc' = Pc + 1

\* A CTI, outside any delay slot.
ControlTransfer ==
    /\ status = "running"
    /\ Delay = 0
    /\ UNCHANGED status

\* call and jmpl
Link(target) ==
    /\ ControlTransfer
    /\ Executes([op |-> "link", at |-> Pc, link |-> Pc, target |-> target])
    /\ Transfer(target)

Branches(taken, always, annul, target) ==
    /\ ControlTransfer
    /\ Executes([op |-> "branch", at |-> Pc, taken |-> taken, always |-> always,
                 annul |-> annul, target |-> target])

\* A Bicc or FBfcc whose condition holds.
BranchTaken(always, annul, target) ==
    /\ Branches(TRUE, always, annul, target)
    /\ IF always /\ annul
         THEN npc' = target /\ pc' = Pc /\ delay' = Delay
         ELSE Transfer(target)

BranchNotTaken(annul, target) ==
    /\ Branches(FALSE, FALSE, annul, target)
    /\ npc' = IF annul THEN Pc + 2 ELSE Npc
    /\ pc' = Pc /\ delay' = Delay

\* Mutant of WindowTrap: delay_instruction is not put back for the retry.
WindowTrapForgetsSlot ==
    /\ status = "running" /\ Pc \in Address
    /\ pc' = Pc /\ npc' = Pc /\ delay' = Delay
    /\ status' = "retrying"
    /\ UNCHANGED executed

\* SAVE or RESTORE into the window wim marks: handle_trap, then the same
\* instruction again.  Of a handler the guest installed, what is left is that
\* handle_trap moved npc, where it is used at all: it does not run.
WindowTrap ==
    /\ status = "running" /\ Pc \in Address
    /\ LET after == IF Installed THEN Handler ELSE Npc   \* of handle_trap
       IN  IF Delay = 2 THEN delay' = 1 /\ npc' = after
                        ELSE delay' = Delay /\ npc' = Pc
    /\ pc' = Pc
    /\ status' = "retrying"
    /\ UNCHANGED executed

\* A Tcc with a handler: handle_trap saves pc and npc in r17 and r18.
InstalledTrap ==
    /\ status = "running"
    /\ Executes([op |-> "trap", at |-> Pc, saved |-> <<Pc, Npc>>, target |-> Handler])
    /\ npc' = Handler
    /\ pc' = Pc /\ delay' = Delay
    /\ UNCHANGED status

\* The exit system call, and the loop that sees it after its next fetch.
Exit ==
    /\ status = "running"
    /\ Executes([op |-> "plain", at |-> Pc])
    /\ pc' = Pc /\ npc' = Npc /\ delay' = Delay
    /\ status' = "ending"

Stops ==
    /\ status' = "stopped"
    /\ pc' = Pc /\ npc' = Npc /\ delay' = Delay
    /\ UNCHANGED executed

EndEmulation == status = "ending" /\ Stops

\* emulator_hard_termination: an opcode it does not know, code elsewhere.
HardTermination == status \in {"running", "retrying"} /\ Stops

Next ==
    \/ Plain
    \/ \E target \in Address : Link(target)
    \/ \E annul \in BOOLEAN, always \in BOOLEAN, target \in Address :
          BranchTaken(always, annul, target)
    \/ \E annul \in BOOLEAN, target \in Address : BranchNotTaken(annul, target)
    \/ WindowTrap
    \/ InstalledTrap
    \/ Exit
    \/ EndEmulation
    \/ HardTermination

Spec == Init /\ [][Next]_vars

-----------------------------------------------------------------------------
(***************************************************************************)
(* Properties.                                                             *)
(***************************************************************************)

Counters == INSTANCE DelayedTransfer WITH
    PC <- IF status = "stopped" THEN pc ELSE Pc,
    nPC <- IF status = "stopped" THEN npc ELSE Npc

\* Between them pc, npc, delay_instruction and the two ways to execute a SAVE
\* or RESTORE again are the PC and nPC of the architecture: each delay slot
\* is executed once, before the target, unless it is annulled; a window trap
\* in a delay slot loses neither the slot nor the target; a trap handler gets
\* the two addresses it must return to (sparc.cxx:914-922, 947-965, 1345-1350).
ImplementsDelayedTransfer == Counters!Spec

=============================================================================
