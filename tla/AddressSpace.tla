---------------------------- MODULE AddressSpace ----------------------------
(***************************************************************************)
(* What mmap, munmap and mremap promise a guest: the pages it has mapped   *)
(* and what they hold.  A call changes the pages it names and those it     *)
(* returns, and no other page; a new mapping is made of pages that were    *)
(* not mapped and reads as zeroes; a mapping that moves takes its contents *)
(* along.  How the emulator keeps track of the pages is not said here.     *)
(***************************************************************************)
EXTENDS Integers

CONSTANTS
    Pages,       \* the page numbers of the region set aside for mmap
    Content      \* what a page holds; 0 is the page of zeroes

VARIABLES
    mapped,      \* the pages the guest has mapped, with what they hold
    call         \* the call just made and its result; result 0 is a failure

vars == <<mapped, call>>

Span(a, n) == a..(a + n - 1)

\* f without the pages of S, and f with the pages of g.
Without(f, S) == [p \in DOMAIN f \ S |-> f[p]]
With(f, g) == [p \in DOMAIN f \cup DOMAIN g |-> IF p \in DOMAIN g THEN g[p] ELSE f[p]]

Init == mapped = << >> /\ call = [op |-> "none"]

Store ==
    \E p \in DOMAIN mapped, v \in Content :
        /\ mapped' = [mapped EXCEPT ![p] = v]
        /\ call' = [op |-> "store"]

Fail == UNCHANGED mapped /\ call'.result = 0

Mmap ==
    /\ call'.op = "mmap"
    /\ \/ Fail
       \/ LET new == Span(call'.result, call'.len)
          IN  /\ new \subseteq Pages \ DOMAIN mapped
              /\ mapped' = With(mapped, [p \in new |-> 0])

\* MAP_FIXED over what is mapped already: the pages are kept.
MmapFixed ==
    /\ call'.op = "mmap_fixed"
    /\ call'.result = call'.addr
    /\ UNCHANGED mapped

Munmap ==
    /\ call'.op = "munmap"
    /\ mapped' = Without(mapped, Span(call'.addr, call'.len))

\* A mapping of `old` pages becomes one of `new` pages.  Pages added in place
\* hold anything; those added to a mapping that moved hold zeroes.
Mremap ==
    /\ call'.op = "mremap"
    /\ \/ Fail
       \/ LET from == Span(call'.addr, call'.old)
              to == Span(call'.result, call'.new)
              rest == Without(mapped, from)
          IN  /\ to \subseteq Pages \ DOMAIN rest
              /\ \E content \in [to -> Content] :
                    /\ \A p \in to :
                          LET k == p - call'.result
                          IN  /\ k < call'.old => content[p] = mapped[call'.addr + k]
                              /\ k >= call'.old /\ call'.result # call'.addr => content[p] = 0
                    /\ mapped' = With(rest, content)

Next == Store \/ Mmap \/ MmapFixed \/ Munmap \/ Mremap

Spec == Init /\ [][Next]_vars
=============================================================================
