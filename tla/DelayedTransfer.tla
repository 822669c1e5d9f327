-------------------------- MODULE DelayedTransfer --------------------------
(***************************************************************************)
(* The SPARC V8 program counters: PC is the address of the instruction to  *)
(* be executed, nPC that of the one after it.  A control transfer changes  *)
(* nPC, so that the instruction after it, in its delay slot, is executed   *)
(* before the target, unless it is annulled.  Addresses are in words.      *)
(***************************************************************************)
EXTENDS Integers

CONSTANT MaxAddress

VARIABLES
    PC, nPC,
    executed     \* the last instruction completed, and where it was

vars == <<PC, nPC, executed>>

Address == 0..MaxAddress

Init == PC \in Address /\ nPC = PC + 1 /\ executed = [op |-> "none"]

Completes(op) == executed'.op = op /\ executed'.at = PC
Advance(to, next) == PC' = to /\ nPC' = next

Plain == Completes("plain") /\ Advance(nPC, nPC + 1)

\* CALL and JMPL: the delay slot, then the target; the link is their address.
Link == Completes("link") /\ executed'.link = PC /\ Advance(nPC, executed'.target)

\* Bicc and FBfcc.  The annul bit of a branch that is taken counts only for
\* branch always, that of one that is not taken skips the delay slot.
BranchTaken ==
    /\ Completes("branch")
    /\ executed'.taken
    /\ ~(executed'.always /\ executed'.annul)
    /\ Advance(nPC, executed'.target)

BranchAlwaysAnnulled ==
    /\ Completes("branch")
    /\ executed'.taken /\ executed'.always /\ executed'.annul
    /\ Advance(executed'.target, executed'.target + 1)

BranchNotTaken ==
    /\ Completes("branch")
    /\ ~executed'.taken
    /\ IF executed'.annul THEN Advance(nPC + 1, nPC + 2) ELSE Advance(nPC, nPC + 1)

\* A trap whose handler the guest installed: both counters are saved.
Trap ==
    /\ Completes("trap")
    /\ executed'.saved = <<PC, nPC>>
    /\ Advance(executed'.target, executed'.target + 1)

Next == Plain \/ Link \/ BranchTaken \/ BranchAlwaysAnnulled \/ BranchNotTaken \/ Trap

Spec == Init /\ [][Next]_vars
=============================================================================
