-------------------------- MODULE SequencerProofs --------------------------
(***************************************************************************)
(* The run loop's pc, npc and delay_instruction implement the program      *)
(* counters of the architecture, for code of every size and every handler, *)
(* as long as the window traps are left to the emulator.                   *)
(***************************************************************************)
EXTENDS Sequencer, TLAPS

\* What TypeOK needs besides itself: the counters are numbers wherever run()
\* is, the addresses among them.
LEMMA CountersAreNumbers ==
    ASSUME TypeOK
    PROVE  /\ Pc \in Nat /\ Npc \in Nat /\ Delay \in {0, 2}
           /\ delay # 1 => Pc = npc /\ Npc = npc + 1 /\ Delay = 0
           /\ delay = 1 => Pc = pc /\ Npc = npc /\ Delay = 2
  BY DEF TypeOK, Pc, Npc, Delay

LEMMA AddressesAreNumbers == Address \subseteq Nat /\ Handler \in Address
  BY AddressAssumption DEF Address

LEMMA InitTypeOK == Init => TypeOK
  BY AddressesAreNumbers DEF Init, TypeOK

\* A step writes numbers to the counters and 0, 1 or 2 to delay_instruction.
LEMMA NextTypeOK == TypeOK /\ [Next]_vars => TypeOK'
<1> SUFFICES ASSUME TypeOK, [Next]_vars PROVE TypeOK'
  OBVIOUS
<1> USE CountersAreNumbers, AddressesAreNumbers
<1>1. CASE Plain
  BY <1>1 DEF Plain, Executes, TypeOK
<1>2. ASSUME NEW target \in Address, Link(target) PROVE TypeOK'
  BY <1>2 DEF Link, ControlTransfer, Executes, Transfer, TypeOK
<1>3. ASSUME NEW annul \in BOOLEAN, NEW always \in BOOLEAN, NEW target \in Address,
             BranchTaken(always, annul, target)
      PROVE  TypeOK'
  BY <1>3 DEF BranchTaken, Branches, ControlTransfer, Executes, Transfer, TypeOK
<1>4. ASSUME NEW annul \in BOOLEAN, NEW target \in Address, BranchNotTaken(annul, target)
      PROVE  TypeOK'
  BY <1>4 DEF BranchNotTaken, Branches, ControlTransfer, Executes, TypeOK
<1>5. CASE WindowTrap
  BY <1>5 DEF WindowTrap, TypeOK
<1>6. CASE InstalledTrap
  BY <1>6 DEF InstalledTrap, Executes, TypeOK
<1>7. CASE Exit
  BY <1>7 DEF Exit, Executes, TypeOK
<1>8. CASE EndEmulation \/ HardTermination
  BY <1>8 DEF EndEmulation, HardTermination, Stops, TypeOK
<1>9. CASE UNCHANGED vars
  BY <1>9 DEF vars, TypeOK
<1>10. QED
  BY <1>1, <1>2, <1>3, <1>4, <1>5, <1>6, <1>7, <1>8, <1>9 DEF Next

\* The type invariant.
THEOREM SequencerTypeCorrect == Spec => []TypeOK
  BY InitTypeOK, NextTypeOK, PTL DEF Spec

-----------------------------------------------------------------------------
\* The run loop starts where the architecture does.
LEMMA InitRefines == Init => Counters!Init
  BY AddressesAreNumbers DEF Init, Counters!Init, Pc, Npc, Address, Counters!Address

\* Every step of the run loop executes one instruction as the architecture
\* does, or changes nothing the architecture can see.
LEMMA NextRefines ==
    ~Installed /\ TypeOK /\ [Next]_vars => [Counters!Next]_(Counters!vars)
<1> SUFFICES ASSUME ~Installed, TypeOK, [Next]_vars
             PROVE  Counters!Next \/ UNCHANGED Counters!vars
  OBVIOUS
<1> USE CountersAreNumbers, AddressesAreNumbers
<1> USE DEF Counters!Next, Counters!Advance, Counters!Completes
<1>1. CASE Plain
  <2>1. Counters!Plain
    BY <1>1 DEF Plain, Executes, Counters!Plain, Pc, Npc
  <2>2. QED
    BY <2>1
<1>2. ASSUME NEW target \in Address, Link(target) PROVE Counters!Link
  BY <1>2 DEF Link, ControlTransfer, Executes, Transfer, Counters!Link, Pc, Npc
<1>3. ASSUME NEW annul \in BOOLEAN, NEW always \in BOOLEAN, NEW target \in Address,
             BranchTaken(always, annul, target)
      PROVE  Counters!BranchTaken \/ Counters!BranchAlwaysAnnulled
  BY <1>3 DEF BranchTaken, Branches, ControlTransfer, Executes, Transfer,
              Counters!BranchTaken, Counters!BranchAlwaysAnnulled, Pc, Npc
<1>4. ASSUME NEW annul \in BOOLEAN, NEW target \in Address, BranchNotTaken(annul, target)
      PROVE  Counters!BranchNotTaken
  BY <1>4 DEF BranchNotTaken, Branches, ControlTransfer, Executes,
              Counters!BranchNotTaken, Pc, Npc
<1>5. CASE WindowTrap
  BY <1>5 DEF WindowTrap, Counters!vars, Pc, Npc
<1>6. CASE InstalledTrap
  <2>1. Counters!Trap
    BY <1>6 DEF InstalledTrap, Executes, Counters!Trap, Pc, Npc
  <2>2. QED
    BY <2>1
<1>7. CASE Exit
  <2>1. Counters!Plain
    BY <1>7 DEF Exit, Executes, Counters!Plain, Pc, Npc
  <2>2. QED
    BY <2>1
<1>8. CASE EndEmulation \/ HardTermination
  BY <1>8 DEF EndEmulation, HardTermination, Stops, Counters!vars
<1>9. CASE UNCHANGED vars
  BY <1>9 DEF vars, Counters!vars, Pc, Npc
<1>10. QED
  BY <1>1, <1>2, <1>3, <1>4, <1>5, <1>6, <1>7, <1>8, <1>9 DEF Next

\* With no window trap handler installed by the guest, the run loop implements
\* the delayed transfers of the architecture.
THEOREM SequencerImplementsDelayedTransfer ==
    ASSUME ~Installed PROVE Spec => ImplementsDelayedTransfer
<1>1. Init => Counters!Init
  BY InitRefines
<1>2. TypeOK /\ [Next]_vars => [Counters!Next]_(Counters!vars)
  BY NextRefines
<1>3. QED
  BY <1>1, <1>2, SequencerTypeCorrect, PTL DEF Spec, ImplementsDelayedTransfer, Counters!Spec
=============================================================================
