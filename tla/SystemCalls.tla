----------------------------- MODULE SystemCalls -----------------------------
(***************************************************************************)
(* emulator_invoke_svc of sparcos.cxx: the system calls a SPARC program    *)
(* can reach (those SparcToRiscV lists) but for brk, the terminal and what *)
(* mmap does to memory, which have modules of their own.  It is about the  *)
(* result register and the carry bit, by which the guest is told, and the  *)
(* descriptors, which are the host's, with one DIR for all of them.        *)
(* exit is an action of Sequencer.                                         *)
(*                                                                         *)
(* The world outside is the host: a call that is passed on to it does what *)
(* POSIX says or fails with any error number.  Reads and writes are of a   *)
(* byte; what calls store in the guest's memory is left out.               *)
(***************************************************************************)
EXTENDS Integers, SequencesExt

CONSTANTS
    Half,        \* 2^31
    MaxErrno,    \* the results -MaxErrno..-1 are errors, 4095
    EBADF, EINVAL, EACCES, ENOENT, ENOMEM, ENOTTY,   \* error numbers
    File,        \* bound: what can be read and written
    Directory,   \* bound: directories
    Names,       \* bound: the number of names in a directory
    Pipe,        \* one of File
    MaxFd,       \* bound: the highest descriptor of the host
    Fake,        \* what openat gives for two /proc files, no host's descriptor
    Position     \* bound: the positions a file can be at

Size == 2 * Half

ASSUME WordAssumption == Half \in Nat /\ MaxErrno \in 1..(Half - 1)
ASSUME ErrorsAssumption == {EBADF, EINVAL, EACCES, ENOENT, ENOMEM, ENOTTY} \subseteq 1..MaxErrno
ASSUME ObjectsAssumption == File \cap Directory = {} /\ Pipe \in File /\ "none" \notin File \cup Directory
ASSUME NamesAssumption == Names \in Nat
\* No descriptor looks like an error.
ASSUME DescriptorsAssumption ==
    /\ MaxFd \in Nat /\ 3 <= MaxFd /\ MaxFd < Size - MaxErrno
    /\ Fake \subseteq (MaxFd + 1)..(Size - MaxErrno - 1)
ASSUME PositionAssumption == 0 \in Position /\ Position \subseteq Nat

Word == 0..(Size - 1)
Errno == 0..MaxErrno
Fd == 3..MaxFd
None == <<>>
Unset == -1

VARIABLES
    o0, carry,   \* the result register and the carry bit
    errno,       \* the host's
    open,        \* the object and the position of each descriptor of the host
    findFirst,   \* g_FindFirst: none, or the names readdir() has buffered
    findFirstDescriptor,   \* g_FindFirstDescriptor, -1 if there is none
    last,        \* history: the call that returned last, and the truth about it
    astray       \* history: the guest made a call the emulator has no good answer to

vars == <<o0, carry, errno, open, findFirst, findFirstDescriptor, last, astray>>
directory == <<findFirst, findFirstDescriptor>>

Closed == [object |-> "none", pos |-> 0]
Start(object) == [object |-> object, pos |-> 0]
IsOpen(fd) == fd \in Fd /\ open[fd] # Closed

TypeOK ==
    /\ o0 \in Word /\ carry \in BOOLEAN /\ errno \in Errno
    /\ open \in [Fd -> [object : {"none"} \cup File \cup Directory, pos : Nat]]
    /\ findFirst = None \/ (Len(findFirst) = 1 /\ findFirst[1] \in Nat)
    /\ findFirstDescriptor \in {-1} \cup Fd
    /\ last.failed \in BOOLEAN /\ last.error \in -1..MaxErrno
    /\ astray \in BOOLEAN

Init ==
    /\ o0 = 0 /\ carry = FALSE /\ errno = 0
    /\ open = [fd \in Fd |-> Closed]
    /\ findFirst = None /\ findFirstDescriptor = -1
    /\ last = [call |-> "none", fd |-> -1, failed |-> FALSE, error |-> Unset]
    /\ astray = FALSE

-----------------------------------------------------------------------------
(* Results *)

\* A C long cut to SIGNED_REG_TYPE.
Cut(result) == LET w == result % Size IN IF w >= Half THEN w - Size ELSE w

\* Mutants of update_result_errno: the carry of an earlier call stays; errno
\* is read before the call.
KeepsCarry(result, e) ==
    LET fits == Cut(result) >= 0 \/ Cut(result) < -MaxErrno
    IN  /\ o0' = IF fits THEN result % Size ELSE e
        /\ carry' = (carry \/ ~fits)
        /\ errno' = e

ReadsOldErrno(result, e) ==
    LET fits == Cut(result) >= 0 \/ Cut(result) < -MaxErrno
    IN  /\ o0' = IF fits THEN result % Size ELSE errno
        /\ carry' = ~fits
        /\ errno' = e

\* e is errno as the call left it; emulator_invoke_svc has cleared carry.
update_result_errno(result, e) ==
    LET fits == Cut(result) >= 0 \/ Cut(result) < -MaxErrno
    IN  /\ o0' = IF fits THEN result % Size ELSE e
        /\ carry' = ~fits
        /\ errno' = e

\* Results that are set without it.
Answers(result) == o0' = result % Size /\ carry' = FALSE /\ UNCHANGED errno

Truth(call, fd, failed, error) ==
    last' = [call |-> call, fd |-> fd, failed |-> failed, error |-> error]

Succeeds(call, fd, result) ==
    update_result_errno(result, errno) /\ Truth(call, fd, FALSE, Unset)

\* The call fails with errno e, set by the host or by the emulator.
Fails(call, fd, e) == update_result_errno(-1, e) /\ Truth(call, fd, TRUE, e)

\* One that fails with whatever errno was.
FailsUnset == update_result_errno(-1, errno) /\ Truth("other", -1, TRUE, Unset)

KeepsDescriptors == UNCHANGED <<open, directory, astray>>

\* A call that is passed on to the host, which does it or does not.
HostDoes(results) ==
    /\ \/ \E r \in results : Succeeds("other", -1, r)
       \/ \E e \in 1..MaxErrno : Fails("other", -1, e)
    /\ KeepsDescriptors

Pretends(result) == Succeeds("other", -1, result) /\ KeepsDescriptors
Refuses(e) == Fails("other", -1, e) /\ KeepsDescriptors
Says(result) == Answers(result) /\ Truth("other", -1, FALSE, Unset) /\ KeepsDescriptors

-----------------------------------------------------------------------------
(* open, close, read, write, lseek *)

Lowest(fd) == fd \in Fd /\ ~IsOpen(fd) /\ \A lower \in Fd : lower < fd => IsOpen(lower)

SYS_open ==
    \/ /\ \E fd \in Fd, object \in (File \ {Pipe}) \cup Directory :
             /\ Lowest(fd)
             /\ open' = [open EXCEPT ![fd] = Start(object)]
             /\ Succeeds("open", -1, fd)
       /\ UNCHANGED <<directory, astray>>
    \/ /\ \E e \in 1..MaxErrno : Fails("open", -1, e)
       /\ KeepsDescriptors

\* openat has an answer of its own for two files.
SYS_openat == SYS_open \/ \E fake \in Fake : Pretends(fake)

SYS_pipe2 ==
    \/ /\ \E first, second \in Fd :
             /\ Lowest(first) /\ first < second /\ ~IsOpen(second)
             /\ \A fd \in Fd : fd < second => fd = first \/ IsOpen(fd)
             /\ open' = [open EXCEPT ![first] = Start(Pipe), ![second] = Start(Pipe)]
       /\ Succeeds("pipe", -1, 0)
       /\ UNCHANGED <<directory, astray>>
    \/ /\ \E e \in 1..MaxErrno : Fails("pipe", -1, e)
       /\ KeepsDescriptors

\* The standard descriptors stay open.
CloseStandard == Says(0)

\* Mutant of CloseEnumerated: the descriptor is not forgotten.
CloseKeepsDescriptor(fd) ==
    /\ fd = findFirstDescriptor
    /\ findFirst' = None /\ UNCHANGED findFirstDescriptor
    /\ open' = [f \in Fd |-> IF f = fd /\ findFirst # None THEN Closed ELSE open[f]]
    /\ astray' = (astray \/ fd = -1)
    /\ Succeeds("close", fd, 0)

\* closedir closes the descriptor.  With no enumeration, -1 is the descriptor.
CloseEnumerated(fd) ==
    /\ fd = findFirstDescriptor
    /\ findFirst' = None /\ findFirstDescriptor' = -1
    /\ open' = [f \in Fd |-> IF f = fd /\ findFirst # None THEN Closed ELSE open[f]]
    /\ astray' = (astray \/ fd = -1)
    /\ Succeeds("close", fd, 0)

CloseOther(fd) ==
    /\ fd # findFirstDescriptor
    /\ IF IsOpen(fd) THEN open' = [open EXCEPT ![fd] = Closed] /\ Succeeds("close", fd, 0)
                     ELSE UNCHANGED open /\ Fails("close", fd, EBADF)
    /\ UNCHANGED <<directory, astray>>

SYS_close(fd) == CloseEnumerated(fd) \/ CloseOther(fd)

\* A transfer of up to one byte.
Transfers(call, fd) ==
    \/ /\ IsOpen(fd) /\ open[fd].object \in File
       /\ \E n \in {0, 1} : /\ open[fd].pos + n \in Position
                            /\ open' = [open EXCEPT ![fd].pos = @ + n]
                            /\ Succeeds(call, fd, n)
       /\ UNCHANGED <<directory, astray>>
    \/ /\ \E e \in 1..MaxErrno : Fails(call, fd, IF IsOpen(fd) THEN e ELSE EBADF)
       /\ KeepsDescriptors

\* Descriptor 0 is the console's, which never fails: 0 at its end.
ReadStandard == \E n \in {0, 1} : Says(n)

\* All of one of the two files, into a buffer for 8 bytes.
ReadFake == Pretends(1)

SYS_read(fd) == Transfers("read", fd)

WriteStandardInput == Refuses(EACCES)
WriteStandard == HostDoes({0, 1})
SYS_write(fd) == Transfers("write", fd)

\* The positions whose value in o0 is that of an error, or of another position.
TooFar(pos) == pos >= Size - MaxErrno

CanSeekTo(fd, pos) ==
    IF open[fd].object \in Directory THEN pos <= Names
                                     ELSE open[fd].object # Pipe

Buffered(fd) == fd = findFirstDescriptor /\ findFirst \notin {None, <<0>>}

\* The host moves the descriptor's position, not the names DIR has buffered.
SYS_lseek(fd) ==
    \/ /\ IsOpen(fd)
       /\ \E pos \in Position :
             /\ CanSeekTo(fd, pos)
             /\ open' = [open EXCEPT ![fd].pos = pos]
             /\ Succeeds(IF TooFar(pos) THEN "lies" ELSE "lseek", fd, pos)
             /\ astray' = (astray \/ TooFar(pos) \/ Buffered(fd))
       /\ UNCHANGED directory
    \/ /\ \E e \in 1..MaxErrno : Fails("lseek", fd, IF IsOpen(fd) THEN e ELSE EBADF)
       /\ KeepsDescriptors

\* With the offset in two words; the new one is in the guest's memory as well.
emulator_sys__llseek(fd) == SYS_lseek(fd)

-----------------------------------------------------------------------------
(* getdents *)

IsDirectory(fd) == IsOpen(fd) /\ open[fd].object \in Directory

\* closedir of the DIR there is, if it is for another descriptor.
CloseStale(fd) ==
    [f \in Fd |-> IF f = findFirstDescriptor /\ f # fd /\ findFirst # None THEN Closed ELSE open[f]]

\* The names readdir finds: those it has, or all that follow the descriptor's
\* position.
NamesLeft(fd) ==
    IF Buffered(fd) THEN findFirst[1]
    ELSE IF IsDirectory(fd) THEN Names - open[fd].pos ELSE 0

HasDir(fd) == IF fd = findFirstDescriptor THEN findFirst # None ELSE IsDirectory(fd)

\* One name per call.  A name that does not fit in the guest's buffer is gone.
GetdentsReads(fd, fits) ==
    /\ HasDir(fd)
    /\ LET left == NamesLeft(fd)
       IN  /\ findFirst' = <<IF left > 0 THEN left - 1 ELSE 0>>
           /\ findFirstDescriptor' = fd
           /\ open' = IF Buffered(fd) THEN CloseStale(fd)
                      ELSE [CloseStale(fd) EXCEPT ![fd].pos = @ + left]
           /\ IF left > 0 /\ ~fits THEN Fails("getdents", fd, EINVAL)
                                   ELSE Succeeds("getdents", fd, IF left > 0 THEN 1 ELSE 0)
           /\ astray' = \/ astray
                        \/ left > 0 /\ ~fits
                        \/ findFirst # None /\ findFirstDescriptor # fd

\* Mutant of GetdentsFails: the descriptor is kept although it has no DIR.
GetdentsKeepsDescriptor(fd) ==
    /\ ~HasDir(fd)
    /\ findFirst' = None /\ findFirstDescriptor' = IF fd \in Fd THEN fd ELSE -1
    /\ open' = CloseStale(fd)
    /\ astray' = (astray \/ (findFirst # None /\ findFirstDescriptor # fd))
    /\ Fails("getdents", fd, EBADF)

GetdentsFails(fd) ==
    /\ ~HasDir(fd)
    /\ findFirst' = None /\ findFirstDescriptor' = -1
    /\ open' = CloseStale(fd)
    /\ astray' = (astray \/ (findFirst # None /\ findFirstDescriptor # fd))
    /\ Fails("getdents", fd, EBADF)

-----------------------------------------------------------------------------
(* The other calls, in the order of the code *)

\* access, and the C library's getcwd: the length with its 0.
access == HostDoes({0})
getcwd == HostDoes({2})

\* Three operations have an answer, the rest fail with the errno there is.
fcntl == (\E r \in {1, 0, 2} : Pretends(r)) \/ (FailsUnset /\ KeepsDescriptors)

clock_nanosleep == Pretends(0)

\* munmap and mremap and mmap fail with an errno of the emulator's.
munmap == Pretends(0) \/ Refuses(EINVAL)
mremap == Pretends(2) \/ Refuses(ENOMEM)
mmap == Pretends(2) \/ Refuses(ENOMEM)

trace_instructions == \E was \in {0, 1} : Says(was)
sysinfo == HostDoes({0})
chdirOrMkdir == HostDoes({0})

\* What is no directory is unlinked: the second call's errno is reported.
rmdir ==
    /\ \/ Succeeds("other", -1, 0)
       \/ \E removed \in BOOLEAN, e \in 1..MaxErrno :
             IF removed THEN update_result_errno(0, e) /\ Truth("other", -1, FALSE, Unset)
                        ELSE Fails("other", -1, e)
    /\ KeepsDescriptors

unlink == HostDoes({0})
unameOrGetrusage == Pretends(0)

\* FUTEX_WAIT and FUTEX_WAKE say 0, or EAGAIN without a carry; so is the -1
\* of another operation.
futex ==
    \/ Says(0)
    \/ \E e \in 1..MaxErrno : Answers(e) /\ Truth("lies", -1, TRUE, e) /\ KeepsDescriptors
    \/ Answers(-1) /\ Truth("lies", -1, TRUE, Unset) /\ KeepsDescriptors

clock_gettime == HostDoes({0})
fsync == HostDoes({0})
sigaction == Pretends(0)

\* The ticks since boot, of which a word is kept.
times ==
    /\ \E ticks \in Word : Succeeds(IF TooFar(ticks) THEN "lies" ELSE "other", -1, ticks)
    /\ KeepsDescriptors

rt_sigprocmask == update_result_errno(0, 0) /\ Truth("other", -1, FALSE, Unset) /\ KeepsDescriptors
getpidOrGettid == Says(1)
renameat == HostDoes({0})
getrandom == HostDoes({0, 1})
statx == Refuses(EINVAL) \/ HostDoes({0})

\* pselect6 and _newselect: 1 if descriptor 0 has a byte.
select == \E ready \in {0, 1} : Says(ready)

\* realpath fails with an errno, a buffer too short for its result with none.
readlink == HostDoes({2}) \/ (FailsUnset /\ KeepsDescriptors)

\* Of what is no terminal.
ioctl == Refuses(ENOTTY)

set_tid_address == Pretends(1)

\* set_robust_list and prlimit64: o0 stays the first argument.
Ignored == \E arg0 \in Word : Says(arg0)

\* A call that is not listed: so is its o0, after two messages.
Unknown ==
    \E arg0 \in Word : Answers(arg0) /\ Truth("lies", -1, TRUE, Unset) /\ KeepsDescriptors

OtherCalls ==
    \/ access \/ getcwd \/ fcntl \/ clock_nanosleep \/ munmap \/ mremap \/ mmap
    \/ trace_instructions \/ sysinfo \/ chdirOrMkdir \/ rmdir \/ unlink
    \/ unameOrGetrusage \/ futex \/ clock_gettime \/ fsync \/ sigaction \/ times
    \/ rt_sigprocmask \/ getpidOrGettid \/ renameat \/ getrandom \/ statx \/ select
    \/ readlink \/ ioctl \/ set_tid_address \/ Ignored \/ Unknown
    \/ CloseStandard \/ ReadStandard \/ ReadFake \/ WriteStandardInput \/ WriteStandard

Descriptor == {-1} \cup Fd \cup Fake

Next ==
    \/ SYS_openat
    \/ SYS_pipe2
    \/ \E fd \in Descriptor :
          \/ SYS_close(fd)
          \/ SYS_read(fd)
          \/ SYS_write(fd)
          \/ SYS_lseek(fd)
          \/ emulator_sys__llseek(fd)
          \/ \E fits \in BOOLEAN : GetdentsReads(fd, fits)
          \/ GetdentsFails(fd)
    \/ OtherCalls

Spec == Init /\ [][Next]_vars

-----------------------------------------------------------------------------
(***************************************************************************)
(* Properties.                                                             *)
(***************************************************************************)

\* The DIR and its descriptor come and go together, and the descriptor is
\* open, on a directory: no order of opens, closes and enumerations, however
\* confused, makes readdir or closedir work on a descriptor that is closed or
\* that is another file's by now (sparcos.cxx:3276-3285, 3403-3420).
DirHasItsDescriptor ==
    /\ TypeOK
    /\ findFirst = None <=> findFirstDescriptor = -1
    /\ findFirst # None => IsDirectory(findFirstDescriptor)

\* The carry bit tells a failure from a success, whatever the calls before
\* left of it (sparcos.cxx:2351-2369, 2444); exceptions are futex, calls that
\* are not listed, and numbers that look like an error.
CarryMeansFailure ==
    last.call # "lies" => (carry <=> last.failed)

\* A failure is reported with the error number of this call, not with what an
\* earlier one left in errno, when the call has set one.
ErrorIsItsOwn == carry /\ last.failed /\ last.error # Unset => o0 = last.error

\* What the guest sees of its descriptors.
Table ==
    [fd \in Fd |-> IF fd = findFirstDescriptor /\ findFirst # None
                   THEN [open[fd] EXCEPT !.pos = @ - findFirst[1]]
                   ELSE open[fd]]

Reply == [call |-> last.call, fd |-> last.fd, ok |-> ~carry, value |-> o0]

View == INSTANCE DescriptorTable WITH table <- Table, reply <- Reply

\* Descriptors are what POSIX makes of them, and a directory's names come
\* once each, in any interleaving of calls, until the guest enumerates a
\* second directory before it closes the first, seeks within one, gives it
\* too small a buffer, closes -1, or comes to a position o0 cannot hold.
ImplementsDescriptorTable == View!Init /\ [][~astray' => View!Next]_<<Table, Reply>>

=============================================================================
