---------------------------- MODULE MCMemoryLayout ----------------------------
(***************************************************************************)
(* Values for a small MemoryLayout: 64 in place of 0x20000, pages of 32    *)
(* bytes, 3 in place of 40 arguments.                                      *)
(***************************************************************************)
EXTENDS MemoryLayout

Header(type, virtual, physical, file, bytes) ==
    [type |-> type, virtual |-> virtual, physical |-> physical, file |-> file, memory |-> bytes]

Load(address, file, bytes) == Header(1, address, address, file, bytes)
Note(address) == Header(4, address, address, 4, 4)
Stack == Header(6, 0, 0, 0, 0)

\* One that starts low; one with text and data apart, of a linker that sets
\* no physical address; one whose first segment is not at the lowest address;
\* one not aligned; one that is dynamically linked.
SmallImages ==
    { << Load(16, 8, 8), Load(32, 8, 20), Stack >>,
      << Header(1, 96, 0, 12, 12), Header(1, 128, 0, 4, 21) >>,
      << Note(84), Load(128, 16, 16), Load(80, 4, 4) >>,
      << Load(100, 8, 13) >>,
      << Load(96, 8, 8), Header(2, 100, 100, 4, 4) >> }

\* No argument, one, as many as there is room for, too many; and one that is
\* too long.
CommandLines == { << >>, <<2>>, <<3, 2>>, <<2, 1, 3>>, <<40, 3>> }

\* No variable, one, as many as there is room for, one too many; and lists
\* with one that is malformed.
Lists == { << >>, <<4>>, <<4, 5>>, <<4, 5, 2>>, <<4, 0, 2>>, <<4, 5, 0>> }

Asks == {a \in 0..320 : a % 16 \in {0, 1, 15}} \cup {Size - 1, Size - 90}
=============================================================================
