--------------------------- MODULE DescriptorTable ---------------------------
(***************************************************************************)
(* What a program expects of its descriptors: each has a file and a        *)
(* position of its own, a directory read through it gives each name once,  *)
(* and a call on a descriptor that is not open fails with EBADF and does   *)
(* nothing else.                                                           *)
(***************************************************************************)
EXTENDS Integers

CONSTANTS
    File,        \* what is read and written: files and pipes
    Directory,   \* directories
    Names,       \* the number of names in a directory
    Fd,          \* the descriptors the host can give
    EBADF        \* the error number

VARIABLES
    table,       \* the object and the position of each descriptor
    reply        \* the call that returned last, and what it returned

Closed == [object |-> "none", pos |-> 0]
Start(object) == [object |-> object, pos |-> 0]
Open(fd) == fd \in Fd /\ table[fd] # Closed
Lowest(fd) == fd \in Fd /\ ~Open(fd) /\ \A lower \in Fd : lower < fd => Open(lower)

Returned(call, fd, value) == reply' = [call |-> call, fd |-> fd, ok |-> TRUE, value |-> value]

Init ==
    /\ table = [fd \in Fd |-> Closed]
    /\ reply = [call |-> "none", fd |-> -1, ok |-> TRUE, value |-> 0]

\* The lowest free descriptor is given to a new file, at its start.
Opens ==
    \E object \in File \cup Directory, fd \in Fd :
        /\ Lowest(fd)
        /\ table' = [table EXCEPT ![fd] = Start(object)]
        /\ Returned("open", -1, fd)

\* The two lowest ones are a pipe's.
Pipes ==
    \E object \in File, first, second \in Fd :
        /\ Lowest(first)
        /\ first < second /\ ~Open(second)
        /\ \A fd \in Fd : fd < second => fd = first \/ Open(fd)
        /\ table' = [table EXCEPT ![first] = Start(object), ![second] = Start(object)]
        /\ Returned("pipe", -1, 0)

Closes ==
    \E fd \in Fd :
        /\ Open(fd)
        /\ table' = [table EXCEPT ![fd] = Closed]
        /\ Returned("close", fd, 0)

\* read and write move the position by what they return.
Transfers ==
    \E fd \in Fd, call \in {"read", "write"}, n \in {0, 1} :
        /\ Open(fd) /\ table[fd].object \in File
        /\ table' = [table EXCEPT ![fd].pos = @ + n]
        /\ Returned(call, fd, n)

\* lseek returns the new position.
Seeks ==
    \E fd \in Fd :
        /\ Open(fd)
        /\ table' = [table EXCEPT ![fd].pos = table'[fd].pos]
        /\ Returned("lseek", fd, table'[fd].pos)

\* The next name, or nothing at the end.
Lists ==
    \E fd \in Fd :
        /\ Open(fd) /\ table[fd].object \in Directory
        /\ LET more == table[fd].pos < Names
           IN  /\ table' = [table EXCEPT ![fd].pos = IF more THEN @ + 1 ELSE @]
               /\ Returned("getdents", fd, IF more THEN 1 ELSE 0)

\* A call that fails leaves the descriptors as they are, and on one that is
\* not open has no answer but EBADF.
Fails ==
    /\ ~reply'.ok
    /\ reply'.call \in {"close", "read", "write", "lseek", "getdents"} /\ ~Open(reply'.fd)
           => reply'.value = EBADF
    /\ UNCHANGED table

\* A call that is not about these descriptors.
Other == reply'.call \in {"other", "lies"} /\ UNCHANGED table

Next == Opens \/ Pipes \/ Closes \/ Transfers \/ Seeks \/ Lists \/ Fails \/ Other

=============================================================================
