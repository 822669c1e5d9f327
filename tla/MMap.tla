-------------------------------- MODULE MMap --------------------------------
(***************************************************************************)
(* CMMap of djl_mmap.hxx, and the system calls of sparcos.cxx that use it: *)
(* mmap, munmap and mremap on the region set aside above the guest's other *)
(* memory.  Addresses and lengths are in pages.                            *)
(*                                                                         *)
(* A guest unmaps part or all of one mapping and remaps whole mappings; or *)
(* it strays: it names pages it has not mapped, unmaps more than one       *)
(* mapping at a time, remaps a head or more than a mapping, which Linux    *)
(* puts up with.  What it sees of the region is specified until it strays, *)
(* and the list until it overruns: resize() takes an old length that goes  *)
(* past the mapping at its word, and a mapping then reaches over the next. *)
(***************************************************************************)
EXTENDS Integers, SequencesExt

CONSTANTS
    Base,        \* the first page of the region (g_mmap_offset)
    Length,      \* the pages of the region (g_mmap_commit)
    Content,     \* bound: what a page can hold, 0 among them
    MaxLen,      \* bound: the longest mapping asked for
    MaxEntries,  \* bound: the longest list followed once the guest has overrun
    PastEnd      \* the addresses the slot past the last entry may read as

ASSUME RegionAssumption == Base \in Nat \ {0} /\ Length \in Nat \ {0}
ASSUME ContentAssumption == 0 \in Content
ASSUME MaxLenAssumption == MaxLen \in Nat \ {0}
ASSUME MaxEntriesAssumption == MaxEntries \in Nat
ASSUME PastEndAssumption == PastEnd \subseteq Nat /\ PastEnd # {}

Pages == Base..(Base + Length - 1)

VARIABLES
    entries,     \* the mappings, sorted by address
    pages,       \* what the pages of the region hold
    peak,        \* what peak_usage() reports
    call,        \* interface: the call just made and its result
    wild,        \* a call went outside of entries or the region: all can happen
    strayed,     \* history: the guest has made a call of the second kind
    overran      \* history: mremap has lengthened a mapping by its old length

vars == <<entries, pages, peak, call, wild, strayed, overran>>

\* What tells states apart: no step reads what the last call was or what peak
\* is, and no property what the pages hold once the guest has strayed.
ListView == <<entries, IF strayed THEN << >> ELSE pages, wild, strayed, overran>>

Entry == [address : Nat, length : Nat]

TypeOK ==
    /\ entries \in Seq(Entry)
    /\ pages \in [Pages -> Content]
    /\ peak \in Nat
    /\ wild \in BOOLEAN /\ strayed \in BOOLEAN /\ overran \in BOOLEAN

Init ==
    /\ entries = << >>
    /\ pages = [p \in Pages |-> 0]
    /\ peak = 0
    /\ call = [op |-> "none"]
    /\ wild = FALSE /\ strayed = FALSE /\ overran = FALSE

Span(a, n) == a..(a + n - 1)
End(e) == e.address + e.length

\* memset of the pages of S to 0.
Zero(S) == [p \in Pages |-> IF p \in S THEN 0 ELSE pages[p]]

-----------------------------------------------------------------------------
(* binary_search *)

\* One turn of the loop, on 0-based indices.  What is found is an index, -1 as
\* long as there is none, or -2 once an entry would be read that is not there:
\* `high = mid - 1` wraps around at mid = 0 and the loop goes on outside of
\* the list.
At(range) == range.low + ((range.high - range.low) \div 2)
Ended(range) == range.low > range.high \/ range.found # -1

\* Mutant of Turn: the loop ends before a single candidate is read.
TurnStopsEarly(list, a, range) ==
    LET mid == At(range)
        address == list[mid + 1].address
    IN  IF Ended(range) \/ range.low = range.high THEN range
        ELSE IF address = a THEN [range EXCEPT !.found = mid]
        ELSE IF address < a THEN [range EXCEPT !.low = mid + 1]
        ELSE IF mid = 0 THEN [range EXCEPT !.found = -2]
        ELSE [range EXCEPT !.high = mid - 1]

Turn(list, a, range) ==
    LET mid == At(range)
        address == list[mid + 1].address
    IN  IF Ended(range) THEN range
        ELSE IF address = a THEN [range EXCEPT !.found = mid]
        ELSE IF address < a THEN [range EXCEPT !.low = mid + 1]
        ELSE IF mid = 0 THEN [range EXCEPT !.found = -2]
        ELSE [range EXCEPT !.high = mid - 1]

\* No search takes more turns than there are entries.
binary_search(list, a) ==
    LET n == Len(list)
        range[turns \in 0..n] ==
            IF turns = 0 THEN [low |-> 0, high |-> n - 1, found |-> -1]
            ELSE Turn(list, a, range[turns - 1])
    IN  range[n].found

\* The entry that the search for address a finds: one or none.
Matches(a) == {i \in DOMAIN entries : i - 1 = binary_search(entries, a)}
SearchIsWild(a) == binary_search(entries, a) = -2

-----------------------------------------------------------------------------
(* mmap *)

\* A system call that returns to the guest.
Returns(c) == ~wild /\ call' = c /\ UNCHANGED wild

\* One that need not: it reads or writes what is not the guest's memory, and
\* nothing is said of what comes after.
Strays(c) == ~wild /\ call' = c /\ wild' = TRUE /\ UNCHANGED <<entries, pages, peak>>

New(a, n) == [address |-> a, length |-> n]
Gap(i) == entries[i + 1].address - End(entries[i])

\* n <= difference, for a difference of unsigned numbers: one below zero wraps
\* around to more than any n.  Only an overrun guest's mappings overlap.
AtMost(n, difference) == difference < 0 \/ n <= difference

\* The gaps between entries with room for n pages, at or above a hint.
Gaps(n, hint) == {i \in 1..(Len(entries) - 1) : AtMost(n, Gap(i)) /\ End(entries[i]) >= hint}

\* There is room for n pages, and one to spare, after the last entry.
FreeOffset == End(entries[Len(entries)])
RoomAtEnd(n) == AtMost(n + 1, Length - (FreeOffset - Base))

\* Where n pages would go, if anywhere, and whether all of them are there.
HasHome(n, hint) == entries # << >> /\ (Gaps(n, hint) # {} \/ RoomAtEnd(n))
Home(n, hint) == IF Gaps(n, hint) # {} THEN End(entries[Min(Gaps(n, hint))]) ELSE FreeOffset
Inside(a, n) == Span(a, n) \subseteq Pages

Mapped(n, r) == [op |-> "mmap", len |-> n, result |-> r]

\* The first mapping, or the first since all were unmapped.
MmapFirst(n) ==
    /\ entries = << >>
    /\ n <= Length
    /\ entries' = << New(Base, n) >>
    /\ pages' = Zero(Span(Base, n))
    /\ peak' = n
    /\ Returns(Mapped(n, Base))

MmapInGap(hint, n) ==
    /\ Gaps(n, hint) # {}
    /\ LET i == Min(Gaps(n, hint))
           a == End(entries[i])
       IN  /\ Inside(a, n)
           /\ entries' = InsertAt(entries, i + 1, New(a, n))
           /\ pages' = Zero(Span(a, n))
           /\ Returns(Mapped(n, a))
    /\ UNCHANGED peak

MmapAtEnd(hint, n) ==
    /\ entries # << >>
    /\ Gaps(n, hint) = {}
    /\ RoomAtEnd(n)
    /\ Inside(FreeOffset, n)
    /\ entries' = Append(entries, New(FreeOffset, n))
    /\ pages' = Zero(Span(FreeOffset, n))
    /\ peak' = FreeOffset - Base + n
    /\ Returns(Mapped(n, FreeOffset))

\* The new mapping's pages go past the region, and so does the memset of them.
MmapStrays(hint, n) ==
    /\ HasHome(n, hint)
    /\ ~Inside(Home(n, hint), n)
    /\ Strays(Mapped(n, 0))

MmapFails(hint, n) ==
    /\ IF entries = << >> THEN n > Length ELSE Gaps(n, hint) = {} /\ ~RoomAtEnd(n)
    /\ Returns(Mapped(n, 0))
    /\ UNCHANGED <<entries, pages, peak>>

\* MAP_FIXED returns the address asked for, mapped or not.
MmapFixed(a) ==
    LET c == [op |-> "mmap_fixed", addr |-> a, result |-> a]
    IN  \/ SearchIsWild(a) /\ Strays(c)
        \/ ~SearchIsWild(a) /\ Returns(c) /\ UNCHANGED <<entries, pages, peak>>

-----------------------------------------------------------------------------
(* munmap *)

Unmapped(a, n, ok) == [op |-> "munmap", addr |-> a, len |-> n, ok |-> ok]

\* From the start of an entry: the entry loses its first n pages, or all.
MunmapHead(a, n) ==
    /\ ~SearchIsWild(a)
    /\ \E i \in Matches(a) :
          LET e == entries[i]
          IN  entries' = IF n < e.length
                         THEN [entries EXCEPT ![i] = New(a + n, e.length - n)]
                         ELSE RemoveAt(entries, i)
    /\ Returns(Unmapped(a, n, TRUE))
    /\ UNCHANGED <<pages, peak>>

\* The entries with the n pages from a further in than their first page.
Around(a, n) ==
    {i \in DOMAIN entries : entries[i].address < a /\ a < End(entries[i]) /\ a + n <= End(entries[i])}

\* The entry keeps what is before the hole; what is left after it becomes an
\* entry of its own.
Punched(i, a, n) ==
    LET e == entries[i]
        head == [entries EXCEPT ![i] = New(e.address, a - e.address)]
    IN  IF a + n < End(e) THEN InsertAt(head, i + 1, New(a + n, End(e) - (a + n))) ELSE head

MunmapHole(a, n) ==
    /\ ~SearchIsWild(a)
    /\ Matches(a) = {}
    /\ Around(a, n) # {}
    /\ entries' = Punched(Max(Around(a, n)), a, n)
    /\ Returns(Unmapped(a, n, TRUE))
    /\ UNCHANGED <<pages, peak>>

\* EINVAL, when the search comes to an end.
MunmapUnknown(a, n) ==
    \/ SearchIsWild(a) /\ Strays(Unmapped(a, n, FALSE))
    \/ /\ ~SearchIsWild(a)
       /\ Matches(a) = {}
       /\ Around(a, n) = {}
       /\ Returns(Unmapped(a, n, FALSE))
       /\ UNCHANGED <<entries, pages, peak>>

-----------------------------------------------------------------------------
(* mremap *)

Remapped(a, old, new, r) ==
    [op |-> "mremap", addr |-> a, old |-> old, new |-> new, result |-> r]

\* Mutant of GrowsInPlace: the last entry's length alone is compared.
GrowsInPlaceNoAddress(i, new, past) ==
    LET last == i = Len(entries)
    IN  \/ last /\ new <= Length
        \/ entries[i].address + new < IF last THEN past ELSE entries[i + 1].address

\* Entry i can grow where it is: for the last one its new end as an address
\* is compared with the length of the region, and then, as for any entry,
\* with the next entry's address.  For the last entry that is whatever the
\* slot past the end of the vector holds.
GrowsInPlace(i, new, past) ==
    LET end == entries[i].address + new
        last == i = Len(entries)
    IN  \/ last /\ end <= Length
        \/ end < IF last THEN past ELSE entries[i + 1].address

MremapInPlace(a, old, new, past) ==
    /\ ~SearchIsWild(a)
    /\ \E i \in Matches(a) :
          /\ new <= old \/ GrowsInPlace(i, new, past)
          /\ entries' = [entries EXCEPT ![i] = New(a, new)]
    /\ Returns(Remapped(a, old, new, a))
    /\ UNCHANGED <<pages, peak>>

MustMove(i, old, new, past) == new > old /\ ~GrowsInPlace(i, new, past)

\* memcpy of entry e to a, and memset of the pages after it.
Copied(e, a, new) ==
    [p \in Pages |-> IF p \in Span(a, e.length) THEN pages[e.address + (p - a)]
                     ELSE IF p \in Span(a, new) THEN 0 ELSE pages[p]]

\* The memcpy and the memset stay inside, and what is copied and its copy do
\* not overlap.  The length of the memset, `new_l - entries[ match ].length`,
\* is unsigned: it wraps around if the guest gave less than the entry's length
\* as its old one and asks for less than that too.
CanCopy(e, a, new) ==
    /\ e.length <= new
    /\ Inside(e.address, e.length) /\ Inside(a, new)
    /\ Span(e.address, e.length) \cap Span(a, e.length) = {}

\* The list with a mapping of n pages in the first gap with room for them.
InsertedInGap(n) ==
    LET g == Min(Gaps(n, 0)) IN InsertAt(entries, g + 1, New(End(entries[g]), n))

\* Mutant of MremapToGap: the old entry's index is not looked up again.
MremapToGapStaleIndex(a, old, new, past) ==
    /\ ~SearchIsWild(a)
    /\ Gaps(new, 0) # {}
    /\ \E i \in Matches(a) :
          /\ MustMove(i, old, new, past)
          /\ CanCopy(entries[i], Home(new, 0), new)
          /\ entries' = RemoveAt(InsertedInGap(new), i)
          /\ pages' = Copied(entries[i], Home(new, 0), new)
    /\ Returns(Remapped(a, old, new, Home(new, 0)))
    /\ UNCHANGED peak

\* The mapping's new home goes into the first gap with room for it, and the
\* old one, looked up again as it may have moved, is erased.
MremapToGap(a, old, new, past) ==
    /\ ~SearchIsWild(a)
    /\ Gaps(new, 0) # {}
    /\ \E i \in Matches(a) :
          LET match == binary_search(InsertedInGap(new), a)
          IN  /\ MustMove(i, old, new, past)
              /\ CanCopy(entries[i], Home(new, 0), new)
              /\ match >= 0
              /\ entries' = RemoveAt(InsertedInGap(new), match + 1)
              /\ pages' = Copied(entries[i], Home(new, 0), new)
    /\ Returns(Remapped(a, old, new, Home(new, 0)))
    /\ UNCHANGED peak

MremapToEnd(a, old, new, past) ==
    /\ ~SearchIsWild(a)
    /\ Gaps(new, 0) = {}
    /\ \E i \in Matches(a) :
          /\ MustMove(i, old, new, past)
          /\ RoomAtEnd(new)
          /\ CanCopy(entries[i], FreeOffset, new)
          /\ entries' = RemoveAt(Append(entries, New(FreeOffset, new)), i)
          /\ pages' = Copied(entries[i], FreeOffset, new)
          /\ Returns(Remapped(a, old, new, FreeOffset))
    /\ peak' = FreeOffset - Base + new

\* The search, the copy or the second search goes astray.
MremapStrays(a, old, new, may_move, past) ==
    /\ \/ SearchIsWild(a)
       \/ \E i \in Matches(a) :
             /\ may_move
             /\ MustMove(i, old, new, past)
             /\ HasHome(new, 0)
             /\ \/ ~CanCopy(entries[i], Home(new, 0), new)
                \/ Gaps(new, 0) # {} /\ binary_search(InsertedInGap(new), a) < 0
    /\ Strays(Remapped(a, old, new, 0))

\* ENOMEM: no such entry, or it cannot move, or there is no room.
MremapFails(a, old, new, may_move, past) ==
    /\ ~SearchIsWild(a)
    /\ \A i \in Matches(a) :
          /\ MustMove(i, old, new, past)
          /\ ~may_move \/ (Gaps(new, 0) = {} /\ ~RoomAtEnd(new))
    /\ Returns(Remapped(a, old, new, 0))
    /\ UNCHANGED <<entries, pages, peak>>

Mremap(a, old, new, may_move, past) ==
    \/ MremapInPlace(a, old, new, past)
    \/ may_move /\ MremapToGap(a, old, new, past)
    \/ may_move /\ MremapToEnd(a, old, new, past)
    \/ MremapStrays(a, old, new, may_move, past)
    \/ MremapFails(a, old, new, may_move, past)

-----------------------------------------------------------------------------
(* The guest *)

Covered == Pages \cap UNION {Span(entries[i].address, entries[i].length) : i \in DOMAIN entries}

\* A store to a page the guest has mapped.
Store(p, v) ==
    /\ pages' = [pages EXCEPT ![p] = v]
    /\ Returns([op |-> "store"])
    /\ UNCHANGED <<entries, peak>>

\* Addresses and lengths the guest passes to munmap and mremap: those of a
\* piece of a mapping, or any pages of the region and any length but 0, which
\* Linux refuses.
Lengths == 1..MaxLen
Piece(a, n) == \E i \in DOMAIN entries : Span(a, n) \subseteq Span(entries[i].address, entries[i].length)
Whole(a, n) == \E i \in DOMAIN entries : entries[i] = New(a, n)

\* resize() takes the mapping to shrink, as new <= old, and it becomes longer.
Overruns(a, old, new) == \E i \in Matches(a) : entries[i].length < new /\ new <= old

\* The guest makes a call of the first kind, or not.
Proper(yes) == strayed' = (strayed \/ ~yes)
History(yes, over) == Proper(yes) /\ overran' = (overran \/ over)

\* Once the guest has overrun, calls are followed to lists of MaxEntries at most.
WithinBound == overran => Len(entries') <= MaxEntries

Call ==
    \/ \E n \in Lengths : MmapFirst(n) /\ History(TRUE, FALSE)
    \/ \E n \in Lengths, hint \in {0} \cup Pages :
          /\ MmapInGap(hint, n) \/ MmapAtEnd(hint, n) \/ MmapFails(hint, n) \/ MmapStrays(hint, n)
          /\ History(TRUE, FALSE)
    \/ \E a \in Pages : MmapFixed(a) /\ History(Matches(a) # {}, FALSE)
    \/ \E a \in Pages, n \in Lengths :
          /\ MunmapHead(a, n) \/ MunmapHole(a, n) \/ MunmapUnknown(a, n)
          /\ History(Piece(a, n), FALSE)
    \/ \E a \in Pages, old, new \in Lengths, may_move \in BOOLEAN, past \in PastEnd :
          Mremap(a, old, new, may_move, past) /\ History(Whole(a, old), Overruns(a, old, new))
    \/ \E p \in Covered, v \in Content : Store(p, v) /\ History(TRUE, FALSE)

Next == Call /\ WithinBound

Spec == Init /\ [][Next]_vars

-----------------------------------------------------------------------------
(* Properties *)

\* What validate() asserts in a debug build, for as long as no mremap has
\* lengthened a mapping by an old length that goes past it: the entries are in
\* order, do not overlap, and the last one ends within the region
\* (djl_mmap.hxx:45-59).
Validate ==
    ~overran =>
        /\ TypeOK
        /\ \A i \in 1..(Len(entries) - 1) :
              /\ entries[i].address < entries[i + 1].address
              /\ End(entries[i]) <= entries[i + 1].address
        /\ entries # << >> => FreeOffset <= Base + Length

\* The binary search finds an entry by its address if there is one, whatever
\* insertions and erasures made the list, for as long as no mremap has
\* lengthened a mapping by an old length that goes past it; and it leaves the
\* list for an address below the first entry, and for no other.
SearchIsExact ==
    ~overran =>
        \A a \in Pages :
            LET r == binary_search(entries, a)
            IN  /\ r = -2 <=> entries # << >> /\ a < entries[1].address
                /\ r >= 0 => entries[r + 1].address = a
                /\ r = -1 => \A i \in DOMAIN entries : entries[i].address # a

\* The guest's view of the region: each call does to the pages what mmap,
\* munmap and mremap promise, to the pages named in the call and no others.
View == INSTANCE AddressSpace WITH mapped <- [p \in Covered |-> pages[p]]

ImplementsAddressSpace ==
    View!Init /\ [][~strayed' => View!Next]_<<[p \in Covered |-> pages[p]], call>>

=============================================================================
