------------------------- MODULE SystemCallsProofs -------------------------
(***************************************************************************)
(* What the guest is told of a system call, and its descriptors, for words *)
(* of every width, any number of descriptors, files and directories.       *)
(***************************************************************************)
EXTENDS SystemCalls, TLAPS

Object == {"none"} \cup File \cup Directory

\* What readdir has not given yet is what the descriptor's position has
\* passed already, and no directory's position is past its names.
BufferIsTheRest ==
    /\ ~astray /\ Buffered(findFirstDescriptor) => open[findFirstDescriptor].pos = Names
    /\ \A fd \in Fd : open[fd].object \in Directory => open[fd].pos <= Names

Descriptors ==
    /\ open \in [Fd -> [object : Object, pos : Nat]]
    /\ findFirst = None \/ \E n \in Nat : findFirst = <<n>>
    /\ findFirstDescriptor \in {-1} \cup Fd
    /\ astray \in BOOLEAN
    /\ findFirst = None <=> findFirstDescriptor = -1
    /\ findFirst # None => IsDirectory(findFirstDescriptor)

Registers ==
    /\ o0 \in Word /\ carry \in BOOLEAN /\ errno \in Errno
    /\ last.failed \in BOOLEAN /\ last.error \in -1..MaxErrno

DescriptorInv == Registers /\ Descriptors /\ BufferIsTheRest

-----------------------------------------------------------------------------
(* Results *)

LEMMA WordBounds ==
    /\ Half \in Nat /\ Size \in Nat /\ MaxErrno \in Nat
    /\ 0 < MaxErrno /\ MaxErrno < Half /\ Size = Half + Half /\ Size > 0
  BY WordAssumption DEF Size

LEMMA ModBelow == ASSUME NEW a \in Nat, NEW n \in Nat, a < n PROVE a % n = a
  OBVIOUS

LEMMA ModMinusOne == ASSUME NEW n \in Nat, n > 0 PROVE (-1) % n = n - 1
  OBVIOUS

\* A result that does not look like an error is the guest's, with carry clear.
LEMMA ResultIsGiven ==
    ASSUME NEW result \in 0..(Size - MaxErrno - 1), NEW e, update_result_errno(result, e)
    PROVE  o0' = result /\ o0' \in Word /\ carry' = FALSE /\ errno' = e
<1>1. result \in Nat /\ result < Size /\ result % Size = result
  BY WordBounds, ModBelow
<1>2. Cut(result) >= 0 \/ Cut(result) < -MaxErrno
  <2>1. CASE result < Half
    BY <1>1, <2>1, WordBounds DEF Cut
  <2>2. CASE result >= Half
    BY <1>1, <2>2, WordBounds DEF Cut
  <2>3. QED
    BY <1>1, <2>1, <2>2, WordBounds
<1>3. o0' = result /\ carry' = FALSE /\ errno' = e
  BY <1>1, <1>2, Zenon DEF update_result_errno
<1>4. result \in Word
  BY <1>1, WordBounds DEF Word
<1>5. QED
  BY <1>3, <1>4

\* -1 is reported as errno, with carry set.
LEMMA FailureIsReported ==
    ASSUME NEW e, update_result_errno(-1, e)
    PROVE  o0' = e /\ carry' = TRUE /\ errno' = e
<1>1. Cut(-1) = -1
  BY WordBounds, ModMinusOne DEF Cut
<1>2. ~(Cut(-1) >= 0 \/ Cut(-1) < -MaxErrno)
  BY <1>1, WordBounds
<1>3. QED
  BY <1>2 DEF update_result_errno

\* Any word.
LEMMA WordIsGiven ==
    ASSUME NEW result \in Int, NEW e \in Errno, update_result_errno(result, e)
    PROVE  o0' \in Word /\ carry' \in BOOLEAN /\ errno' = e
<1>1. result % Size \in Word /\ e \in Word
  BY WordBounds DEF Word, Errno
<1>2. QED
  BY <1>1 DEF update_result_errno

\* What each step says of its result: the truth, but for the liars.
Honest ==
    /\ last'.call # "lies" => (carry' <=> last'.failed)
    /\ carry' /\ last'.failed /\ last'.error # Unset => o0' = last'.error
    /\ o0' \in Word /\ carry' \in BOOLEAN /\ errno' \in Errno
    /\ last'.failed \in BOOLEAN /\ last'.error \in -1..MaxErrno

LEMMA UnsetIsNoError == Unset \in -1..MaxErrno
  BY WordBounds DEF Unset

LEMMA SucceedsIsHonest ==
    ASSUME NEW call, NEW fd, NEW result \in Int, errno \in Errno,
           result \in 0..(Size - MaxErrno - 1) \/ call = "lies",
           Succeeds(call, fd, result)
    PROVE  Honest
<1>1. update_result_errno(result, errno) /\ last' = [call |-> call, fd |-> fd, failed |-> FALSE, error |-> Unset]
  BY DEF Succeeds, Truth
<1>2. o0' \in Word /\ carry' \in BOOLEAN /\ errno' \in Errno
  BY <1>1, WordIsGiven
<1>3. call # "lies" => carry' = FALSE
  BY <1>1, ResultIsGiven
<1>4. last'.call = call /\ last'.failed = FALSE /\ last'.error = Unset
  BY <1>1
<1>5. QED
  BY <1>2, <1>3, <1>4, UnsetIsNoError, Zenon DEF Honest

LEMMA FailsIsHonest ==
    ASSUME NEW call, NEW fd, NEW e \in 1..MaxErrno, Fails(call, fd, e)
    PROVE  Honest /\ carry' = TRUE /\ o0' = e
<1>1. update_result_errno(-1, e) /\ last' = [call |-> call, fd |-> fd, failed |-> TRUE, error |-> e]
  BY DEF Fails, Truth
<1>2. o0' = e /\ carry' = TRUE /\ errno' = e
  BY <1>1, FailureIsReported
<1>3. last'.call = call /\ last'.failed = TRUE /\ last'.error = e
  BY <1>1
<1>4. e \in Word /\ e \in Errno /\ e \in -1..MaxErrno
  BY WordBounds DEF Word, Errno
<1>5. QED
  BY <1>2, <1>3, <1>4 DEF Honest

LEMMA FailsUnsetIsHonest ==
    ASSUME errno \in Errno, FailsUnset PROVE Honest /\ last'.call = "other"
<1>1. update_result_errno(-1, errno) /\ last' = [call |-> "other", fd |-> -1, failed |-> TRUE, error |-> Unset]
  BY DEF FailsUnset, Truth
<1>2. o0' = errno /\ carry' = TRUE /\ errno' = errno
  BY <1>1, FailureIsReported
<1>3. last'.call = "other" /\ last'.failed = TRUE /\ last'.error = Unset
  BY <1>1
<1>4. errno \in Word
  BY WordBounds DEF Word, Errno
<1>5. QED
  BY <1>2, <1>3, <1>4, UnsetIsNoError, Zenon DEF Honest

LEMMA AnswersIsHonest ==
    ASSUME NEW call, NEW fd, NEW result \in Int, NEW failed \in BOOLEAN, NEW e \in -1..MaxErrno,
           errno \in Errno, failed => call = "lies",
           Answers(result), Truth(call, fd, failed, e)
    PROVE  Honest /\ carry' = FALSE
<1>1. o0' = result % Size /\ carry' = FALSE /\ errno' = errno
  BY DEF Answers
<1>2. result % Size \in Word
  BY WordBounds DEF Word
<1>3. last'.call = call /\ last'.failed = failed /\ last'.error = e
  BY DEF Truth
<1>4. QED
  BY <1>1, <1>2, <1>3 DEF Honest

-----------------------------------------------------------------------------
(* The calls that are not about descriptors *)

Quiet == Honest /\ KeepsDescriptors /\ last'.call \in {"other", "lies"}

LEMMA SmallResults ==
    /\ 0 \in 0..2 /\ 1 \in 0..2 /\ 0..2 \subseteq 0..(Size - MaxErrno - 1)
    /\ 0..(Size - MaxErrno - 1) \subseteq Int
  BY WordBounds

LEMMA SaysIsQuiet ==
    ASSUME NEW result \in Int, errno \in Errno, Says(result) PROVE Quiet
<1>1. Answers(result) /\ Truth("other", -1, FALSE, Unset) /\ KeepsDescriptors
  BY DEF Says
<1>2. Honest
  BY <1>1, UnsetIsNoError, AnswersIsHonest
<1>3. last'.call = "other"
  BY <1>1 DEF Truth
<1>4. QED
  BY <1>1, <1>2, <1>3 DEF Quiet

LEMMA PretendsIsQuiet ==
    ASSUME NEW result \in 0..(Size - MaxErrno - 1), errno \in Errno, Pretends(result) PROVE Quiet
<1>1. Succeeds("other", -1, result) /\ KeepsDescriptors
  BY DEF Pretends
<1>2. Honest
  BY <1>1, SucceedsIsHonest
<1>3. last'.call = "other"
  BY <1>1 DEF Succeeds, Truth
<1>4. QED
  BY <1>1, <1>2, <1>3 DEF Quiet

LEMMA RefusesIsQuiet ==
    ASSUME NEW e \in 1..MaxErrno, Refuses(e) PROVE Quiet
<1>1. Fails("other", -1, e) /\ KeepsDescriptors
  BY DEF Refuses
<1>2. Honest
  BY <1>1, FailsIsHonest
<1>3. last'.call = "other"
  BY <1>1 DEF Fails, Truth
<1>4. QED
  BY <1>1, <1>2, <1>3 DEF Quiet

LEMMA HostDoesIsQuiet ==
    ASSUME NEW results \in SUBSET (0..2), errno \in Errno, HostDoes(results) PROVE Quiet
<1>1. CASE \E r \in results : Succeeds("other", -1, r) /\ KeepsDescriptors
  BY <1>1, SmallResults, PretendsIsQuiet DEF Pretends
<1>2. CASE \E e \in 1..MaxErrno : Fails("other", -1, e) /\ KeepsDescriptors
  BY <1>2, RefusesIsQuiet DEF Refuses
<1>3. QED
  BY <1>1, <1>2 DEF HostDoes

LEMMA FailsUnsetIsQuiet ==
    ASSUME errno \in Errno, FailsUnset, KeepsDescriptors PROVE Quiet
  BY FailsUnsetIsHonest DEF Quiet

LEMMA LiesAreQuiet ==
    ASSUME NEW result \in Int, NEW e \in -1..MaxErrno, errno \in Errno,
           Answers(result), Truth("lies", -1, TRUE, e), KeepsDescriptors
    PROVE  Quiet
<1>1. Honest
  BY AnswersIsHonest
<1>2. last'.call = "lies"
  BY DEF Truth
<1>3. QED
  BY <1>1, <1>2 DEF Quiet

LEMMA rmdirIsQuiet == ASSUME errno \in Errno, rmdir PROVE Quiet
<1>1. CASE Succeeds("other", -1, 0) /\ KeepsDescriptors
  BY <1>1, SmallResults, PretendsIsQuiet DEF Pretends
<1>2. CASE /\ \E e \in 1..MaxErrno : update_result_errno(0, e) /\ Truth("other", -1, FALSE, Unset)
           /\ KeepsDescriptors
  <2>1. PICK e \in 1..MaxErrno : update_result_errno(0, e) /\ Truth("other", -1, FALSE, Unset)
    BY <1>2
  <2>2. o0' = 0 /\ o0' \in Word /\ carry' = FALSE /\ errno' = e
    <3>1. 0 \in 0..(Size - MaxErrno - 1)
      BY SmallResults
    <3>2. QED
      BY <2>1, <3>1, ResultIsGiven, Zenon
  <2>3. e \in Errno
    BY WordBounds DEF Errno
  <2>4. last'.call = "other" /\ last'.failed = FALSE /\ last'.error = Unset
    BY <2>1 DEF Truth
  <2>5. Honest
    BY <2>2, <2>3, <2>4, UnsetIsNoError, Zenon DEF Honest
  <2>6. QED
    BY <1>2, <2>4, <2>5 DEF Quiet
<1>3. CASE \E e \in 1..MaxErrno : Fails("other", -1, e) /\ KeepsDescriptors
  BY <1>3, RefusesIsQuiet DEF Refuses
<1>4. QED
  BY <1>1, <1>2, <1>3 DEF rmdir

LEMMA timesIsQuiet == ASSUME errno \in Errno, times PROVE Quiet
<1>1. PICK ticks \in Word : Succeeds(IF TooFar(ticks) THEN "lies" ELSE "other", -1, ticks)
  BY DEF times
<1>2. ~TooFar(ticks) => ticks \in 0..(Size - MaxErrno - 1)
  BY WordBounds DEF TooFar, Word
<1>3. ticks \in Int
  BY WordBounds DEF Word
<1>4. Honest
  BY <1>1, <1>2, <1>3, SucceedsIsHonest
<1>5. last'.call \in {"other", "lies"}
  BY <1>1 DEF Succeeds, Truth
<1>6. QED
  BY <1>4, <1>5 DEF Quiet, times

LEMMA OtherCallsAreQuiet == ASSUME errno \in Errno, OtherCalls PROVE Quiet
<1> USE SmallResults, ErrorsAssumption
<1>1. CASE access \/ getcwd \/ sysinfo \/ chdirOrMkdir \/ unlink \/ clock_gettime \/ fsync
           \/ renameat \/ getrandom \/ WriteStandard
  <2>1. \E results \in SUBSET (0..2) : HostDoes(results)
    BY <1>1 DEF access, getcwd, sysinfo, chdirOrMkdir, unlink, clock_gettime, fsync, renameat,
                getrandom, WriteStandard
  <2>2. QED
    BY <2>1, HostDoesIsQuiet
<1>2. CASE fcntl \/ clock_nanosleep \/ munmap \/ mremap \/ mmap \/ unameOrGetrusage \/ sigaction
           \/ ioctl \/ set_tid_address \/ ReadFake \/ WriteStandardInput
  <2>1. \/ \E r \in 0..2 : Pretends(r)
        \/ \E e \in 1..MaxErrno : Refuses(e)
        \/ FailsUnset /\ KeepsDescriptors
    BY <1>2 DEF fcntl, clock_nanosleep, munmap, mremap, mmap, unameOrGetrusage, sigaction, ioctl,
                set_tid_address, ReadFake, WriteStandardInput
  <2>2. QED
    BY <2>1, PretendsIsQuiet, RefusesIsQuiet, FailsUnsetIsQuiet
<1>3. CASE trace_instructions \/ getpidOrGettid \/ select \/ Ignored \/ CloseStandard \/ ReadStandard
  <2>1. \E result \in Int : Says(result)
    BY <1>3, WordBounds DEF trace_instructions, getpidOrGettid, select, Ignored, CloseStandard,
                ReadStandard, Word
  <2>2. QED
    BY <2>1, SaysIsQuiet
<1>4. CASE statx \/ readlink
  <2>1. \/ \E results \in SUBSET (0..2) : HostDoes(results)
        \/ \E e \in 1..MaxErrno : Refuses(e)
        \/ FailsUnset /\ KeepsDescriptors
    BY <1>4 DEF statx, readlink
  <2>2. QED
    BY <2>1, HostDoesIsQuiet, RefusesIsQuiet, FailsUnsetIsQuiet
<1>5. CASE futex
  <2>1. CASE Says(0)
    BY <2>1, SaysIsQuiet
  <2>2. CASE \E e \in 1..MaxErrno : Answers(e) /\ Truth("lies", -1, TRUE, e) /\ KeepsDescriptors
    <3>1. 1..MaxErrno \subseteq -1..MaxErrno /\ 1..MaxErrno \subseteq Int
      BY WordBounds
    <3>2. QED
      BY <2>2, <3>1, LiesAreQuiet
  <2>3. CASE Answers(-1) /\ Truth("lies", -1, TRUE, Unset) /\ KeepsDescriptors
    <3>1. -1 \in Int
      OBVIOUS
    <3>2. QED
      BY <2>3, <3>1, UnsetIsNoError, LiesAreQuiet, Zenon
  <2>4. QED
    BY <1>5, <2>1, <2>2, <2>3 DEF futex
<1>6. CASE Unknown
  <2>1. Word \subseteq Int
    BY WordBounds DEF Word
  <2>2. QED
    BY <1>6, <2>1, UnsetIsNoError, LiesAreQuiet DEF Unknown
<1>7. CASE rt_sigprocmask
  <2>1. update_result_errno(0, 0) /\ Truth("other", -1, FALSE, Unset) /\ KeepsDescriptors
    BY <1>7 DEF rt_sigprocmask
  <2>2. o0' = 0 /\ o0' \in Word /\ carry' = FALSE /\ errno' = 0
    <3>1. 0 \in 0..(Size - MaxErrno - 1)
      BY SmallResults
    <3>2. QED
      BY <2>1, <3>1, ResultIsGiven, Zenon
  <2>3. last'.call = "other" /\ last'.failed = FALSE /\ last'.error = Unset
    BY <2>1 DEF Truth
  <2>4. 0 \in Errno
    BY WordBounds DEF Errno
  <2>5. Honest
    BY <2>2, <2>3, <2>4, UnsetIsNoError, Zenon DEF Honest
  <2>6. QED
    BY <2>1, <2>3, <2>5 DEF Quiet
<1>8. CASE rmdir \/ times
  BY <1>8, rmdirIsQuiet, timesIsQuiet
<1>9. QED
  BY <1>1, <1>2, <1>3, <1>4, <1>5, <1>6, <1>7, <1>8 DEF OtherCalls

-----------------------------------------------------------------------------
(* The calls that are *)

LEMMA FdBounds ==
    /\ Fd \subseteq 0..(Size - MaxErrno - 1) /\ Fd \subseteq Nat /\ -1 \notin Fd
    /\ Fake \subseteq 0..(Size - MaxErrno - 1)
  BY DescriptorsAssumption, WordBounds DEF Fd

LEMMA EbadfIsError == EBADF \in 1..MaxErrno /\ EINVAL \in 1..MaxErrno
  BY ErrorsAssumption

LEMMA CallsAreHonest == ASSUME errno \in Errno, Next PROVE Honest
<1> USE SmallResults, FdBounds, EbadfIsError
<1>1. CASE SYS_openat
  <2>1. \/ \E fd \in Fd : Succeeds("open", -1, fd)
        \/ \E e \in 1..MaxErrno : Fails("open", -1, e)
        \/ \E fake \in Fake : Pretends(fake)
    BY <1>1 DEF SYS_openat, SYS_open
  <2>2. CASE \E fd \in Fd : Succeeds("open", -1, fd)
    BY <2>2, SucceedsIsHonest
  <2>3. CASE \E e \in 1..MaxErrno : Fails("open", -1, e)
    BY <2>3, FailsIsHonest
  <2>4. CASE \E fake \in Fake : Pretends(fake)
    BY <2>4, PretendsIsQuiet DEF Quiet
  <2>5. QED
    BY <2>1, <2>2, <2>3, <2>4
<1>2. CASE SYS_pipe2
  <2>1. Succeeds("pipe", -1, 0) \/ \E e \in 1..MaxErrno : Fails("pipe", -1, e)
    BY <1>2 DEF SYS_pipe2
  <2>2. QED
    BY <2>1, SucceedsIsHonest, FailsIsHonest
<1>3. ASSUME NEW fd \in Descriptor, SYS_close(fd) PROVE Honest
  <2>1. Succeeds("close", fd, 0) \/ Fails("close", fd, EBADF)
    BY <1>3 DEF SYS_close, CloseEnumerated, CloseOther
  <2>2. QED
    BY <2>1, SucceedsIsHonest, FailsIsHonest
<1>4. ASSUME NEW fd \in Descriptor, NEW call, Transfers(call, fd) PROVE Honest
  <2>1. \/ \E n \in {0, 1} : Succeeds(call, fd, n)
        \/ \E e \in 1..MaxErrno : Fails(call, fd, e)
    BY <1>4 DEF Transfers
  <2>2. QED
    BY <2>1, SucceedsIsHonest, FailsIsHonest
<1>5. ASSUME NEW fd \in Descriptor, SYS_lseek(fd) PROVE Honest
  <2>1. CASE \E e \in 1..MaxErrno : Fails("lseek", fd, IF IsOpen(fd) THEN e ELSE EBADF)
    BY <2>1, FailsIsHonest
  <2>2. CASE \E pos \in Position : Succeeds(IF TooFar(pos) THEN "lies" ELSE "lseek", fd, pos)
    <3>1. PICK pos \in Position : Succeeds(IF TooFar(pos) THEN "lies" ELSE "lseek", fd, pos)
      BY <2>2
    <3>2. pos \in Int /\ (~TooFar(pos) => pos \in 0..(Size - MaxErrno - 1))
      BY PositionAssumption, WordBounds DEF TooFar
    <3>3. QED
      BY <3>1, <3>2, SucceedsIsHonest
  <2>3. QED
    BY <1>5, <2>1, <2>2 DEF SYS_lseek
<1>6. ASSUME NEW fd \in Descriptor, NEW fits \in BOOLEAN, GetdentsReads(fd, fits) PROVE Honest
  <2>1. Fails("getdents", fd, EINVAL) \/ \E n \in {0, 1} : Succeeds("getdents", fd, n)
    BY <1>6 DEF GetdentsReads
  <2>2. QED
    BY <2>1, SucceedsIsHonest, FailsIsHonest
<1>7. ASSUME NEW fd \in Descriptor, GetdentsFails(fd) PROVE Honest
  BY <1>7, FailsIsHonest DEF GetdentsFails
<1>8. CASE OtherCalls
  BY <1>8, OtherCallsAreQuiet DEF Quiet
<1>9. QED
  BY <1>1, <1>2, <1>3, <1>4, <1>5, <1>6, <1>7, <1>8
     DEF Next, SYS_read, SYS_write, emulator_sys__llseek

\* A step that opens what was closed, or closes or moves what is not
\* enumerated, or leaves everything as it is.
LEMMA OthersKeepDescriptors ==
    ASSUME Descriptors, BufferIsTheRest,
           open' \in [Fd -> [object : Object, pos : Nat]],
           UNCHANGED directory, astray' = astray \/ astray' = TRUE,
           IsOpen(findFirstDescriptor) =>
               open'[findFirstDescriptor] = open[findFirstDescriptor],
           \A fd \in Fd : open'[fd].object \in Directory =>
               open'[fd].pos = open[fd].pos \/ open'[fd].pos <= Names,
           \A fd \in Fd : open'[fd].object \in Directory /\ open'[fd].pos = open[fd].pos
               => open[fd].object \in Directory \/ open'[fd].pos <= Names
    PROVE  Descriptors' /\ BufferIsTheRest'
<1>1. findFirst' = findFirst /\ findFirstDescriptor' = findFirstDescriptor /\ astray' \in BOOLEAN
  BY DEF directory, Descriptors
<1>2. IsDirectory(findFirstDescriptor) => IsDirectory(findFirstDescriptor)'
  BY <1>1 DEF IsDirectory, IsOpen
<1>3. Descriptors'
  BY <1>1, <1>2 DEF Descriptors
<1>4. \A fd \in Fd : open'[fd].object \in Directory => open'[fd].pos <= Names
  BY DEF BufferIsTheRest
<1>5. ASSUME ~astray', Buffered(findFirstDescriptor)'
      PROVE  open'[findFirstDescriptor'].pos = Names
  <2>1. ~astray
    BY <1>5
  <2>2. Buffered(findFirstDescriptor)
    BY <1>1, <1>5 DEF Buffered
  <2>3. IsOpen(findFirstDescriptor)
    BY <2>2 DEF Buffered, Descriptors, IsDirectory
  <2>4. QED
    BY <1>1, <2>1, <2>2, <2>3 DEF BufferIsTheRest
<1>6. QED
  BY <1>3, <1>4, <1>5 DEF BufferIsTheRest

LEMMA ObjectFacts ==
    /\ "none" \notin Directory /\ "none" \notin File /\ Pipe \in File /\ Pipe \notin Directory
    /\ Closed \in [object : Object, pos : Nat] /\ Closed.object = "none"
    /\ \A object \in File \cup Directory :
          Start(object) \in [object : Object, pos : Nat] /\ Start(object).object = object
          /\ Start(object).pos = 0
    /\ \A x \in File : x \notin Directory
    /\ Names \in Nat
  BY ObjectsAssumption, NamesAssumption DEF Closed, Start, Object

LEMMA OpenKeepsDescriptors == ASSUME Descriptors, BufferIsTheRest, SYS_open PROVE Descriptors' /\ BufferIsTheRest'
<1> USE ObjectFacts
<1>1. CASE UNCHANGED <<open, directory, astray>>
  BY <1>1, OthersKeepDescriptors DEF Descriptors, BufferIsTheRest
<1>2. CASE /\ \E fd \in Fd, object \in (File \ {Pipe}) \cup Directory :
                 Lowest(fd) /\ open' = [open EXCEPT ![fd] = Start(object)]
           /\ UNCHANGED <<directory, astray>>
  <2>1. PICK fd \in Fd, object \in File \cup Directory :
            Lowest(fd) /\ open' = [open EXCEPT ![fd] = Start(object)]
    BY <1>2
  <2>2. IsOpen(findFirstDescriptor) => open'[findFirstDescriptor] = open[findFirstDescriptor]
    BY <2>1 DEF Lowest, IsOpen, Descriptors
  <2>3. open' \in [Fd -> [object : Object, pos : Nat]]
    BY <2>1 DEF Descriptors
  <2>4. \A f \in Fd : open'[f].object \in Directory => open'[f].pos <= Names
    BY <2>1 DEF Descriptors, BufferIsTheRest
  <2>5. QED
    BY <1>2, <2>2, <2>3, <2>4, OthersKeepDescriptors
<1>3. QED
  BY <1>1, <1>2 DEF SYS_open, KeepsDescriptors

LEMMA PipeKeepsDescriptors == ASSUME Descriptors, BufferIsTheRest, SYS_pipe2 PROVE Descriptors' /\ BufferIsTheRest'
<1> USE ObjectFacts
<1>1. CASE UNCHANGED <<open, directory, astray>>
  BY <1>1, OthersKeepDescriptors DEF Descriptors, BufferIsTheRest
<1>2. CASE /\ \E first, second \in Fd :
                 /\ ~IsOpen(first) /\ ~IsOpen(second)
                 /\ open' = [open EXCEPT ![first] = Start(Pipe), ![second] = Start(Pipe)]
           /\ UNCHANGED <<directory, astray>>
  <2>1. PICK first \in Fd, second \in Fd :
            /\ ~IsOpen(first) /\ ~IsOpen(second)
            /\ open' = [open EXCEPT ![first] = Start(Pipe), ![second] = Start(Pipe)]
    BY <1>2
  <2>2. IsOpen(findFirstDescriptor) => open'[findFirstDescriptor] = open[findFirstDescriptor]
    BY <2>1 DEF IsOpen, Descriptors
  <2>3. open' \in [Fd -> [object : Object, pos : Nat]]
    BY <2>1 DEF Descriptors
  <2>4. \A f \in Fd : open'[f].object \in Directory => open'[f].pos <= Names
    BY <2>1 DEF Descriptors, BufferIsTheRest
  <2>5. QED
    BY <1>2, <2>2, <2>3, <2>4, OthersKeepDescriptors
<1>3. QED
  BY <1>1, <1>2 DEF SYS_pipe2, KeepsDescriptors, Lowest

\* Closing what is enumerated, by the guest or by getdents.
LEMMA NoDirKeepsDescriptors ==
    ASSUME Descriptors, BufferIsTheRest, findFirst' = None, findFirstDescriptor' = -1,
           astray' \in BOOLEAN,
           NEW closed \in SUBSET Fd,
           open' = [fd \in Fd |-> IF fd \in closed THEN Closed ELSE open[fd]]
    PROVE  Descriptors' /\ BufferIsTheRest'
<1>1. open' \in [Fd -> [object : Object, pos : Nat]]
  BY ObjectFacts DEF Descriptors
<1>2. Descriptors'
  BY <1>1 DEF Descriptors
<1>3. \A fd \in Fd : open'[fd].object \in Directory => open'[fd].pos <= Names
  BY ObjectFacts DEF BufferIsTheRest
<1>4. ~Buffered(findFirstDescriptor)'
  BY DEF Buffered
<1>5. QED
  BY <1>2, <1>3, <1>4 DEF BufferIsTheRest

LEMMA CloseKeepsDescriptors ==
    ASSUME Descriptors, BufferIsTheRest, NEW fd \in Descriptor, SYS_close(fd)
    PROVE  Descriptors' /\ BufferIsTheRest'
<1> USE ObjectFacts
<1>1. CASE CloseEnumerated(fd)
  <2> DEFINE closed == {f \in Fd : f = fd /\ findFirst # None}
  <2>1. open' = [f \in Fd |-> IF f \in closed THEN Closed ELSE open[f]]
    BY <1>1 DEF CloseEnumerated
  <2>2. findFirst' = None /\ findFirstDescriptor' = -1 /\ astray' \in BOOLEAN
    BY <1>1 DEF CloseEnumerated, Descriptors
  <2>3. closed \in SUBSET Fd
    OBVIOUS
  <2> HIDE DEF closed
  <2>4. QED
    BY <2>1, <2>2, <2>3, NoDirKeepsDescriptors
<1>2. CASE CloseOther(fd)
  <2>1. UNCHANGED <<directory, astray>> /\ fd # findFirstDescriptor
    BY <1>2 DEF CloseOther
  <2>2. CASE open' = open
    BY <2>1, <2>2, OthersKeepDescriptors DEF Descriptors, BufferIsTheRest
  <2>3. CASE IsOpen(fd) /\ open' = [open EXCEPT ![fd] = Closed]
    <3>1. open' \in [Fd -> [object : Object, pos : Nat]]
      BY <2>3 DEF Descriptors
    <3>2. \A f \in Fd : open'[f].object \in Directory => open'[f].pos <= Names
      BY <2>3 DEF Descriptors, BufferIsTheRest
    <3>3. IsOpen(findFirstDescriptor) => open'[findFirstDescriptor] = open[findFirstDescriptor]
      BY <2>1, <2>3 DEF Descriptors, IsOpen
    <3>4. QED
      BY <2>1, <3>1, <3>2, <3>3, OthersKeepDescriptors
  <2>4. QED
    BY <1>2, <2>2, <2>3 DEF CloseOther
<1>3. QED
  BY <1>1, <1>2 DEF SYS_close

\* Bytes are not transferred through a descriptor that is enumerated.
LEMMA TransferKeepsDescriptors ==
    ASSUME Descriptors, BufferIsTheRest, NEW fd \in Descriptor, NEW call, Transfers(call, fd)
    PROVE  Descriptors' /\ BufferIsTheRest'
<1> USE ObjectFacts
<1>1. CASE UNCHANGED <<open, directory, astray>>
  BY <1>1, OthersKeepDescriptors DEF Descriptors, BufferIsTheRest
<1>2. CASE /\ IsOpen(fd) /\ open[fd].object \in File
           /\ \E n \in {0, 1} : open' = [open EXCEPT ![fd].pos = @ + n]
           /\ UNCHANGED <<directory, astray>>
  <2>1. PICK n \in {0, 1} : open' = [open EXCEPT ![fd].pos = @ + n]
    BY <1>2
  <2>2. fd \in Fd /\ fd # findFirstDescriptor
    BY <1>2, FdBounds DEF IsOpen, Descriptors, IsDirectory
  <2>3. open' \in [Fd -> [object : Object, pos : Nat]]
    BY <2>1, <2>2 DEF Descriptors
  <2>4. \A f \in Fd : f # fd => open'[f] = open[f]
    BY <2>1 DEF Descriptors
  <2>5. open'[fd].object = open[fd].object
    <3>1. open'[fd] = [open[fd] EXCEPT !.pos = open[fd].pos + n]
      BY <2>1, <2>2 DEF Descriptors
    <3>2. open[fd] \in [object : Object, pos : Nat]
      BY <2>2 DEF Descriptors
    <3>3. QED
      BY <3>1, <3>2
  <2>6. IsOpen(findFirstDescriptor) => open'[findFirstDescriptor] = open[findFirstDescriptor]
    BY <2>2, <2>4 DEF IsOpen
  <2>7. \A f \in Fd : open'[f].object \in Directory => open'[f].pos <= Names
    BY <1>2, <2>4, <2>5 DEF BufferIsTheRest
  <2>8. QED
    BY <1>2, <2>3, <2>6, <2>7, OthersKeepDescriptors
<1>3. QED
  BY <1>1, <1>2 DEF Transfers, KeepsDescriptors

LEMMA SeekKeepsDescriptors ==
    ASSUME Descriptors, BufferIsTheRest, NEW fd \in Descriptor, SYS_lseek(fd)
    PROVE  Descriptors' /\ BufferIsTheRest'
<1> USE ObjectFacts
<1>1. CASE UNCHANGED <<open, directory, astray>>
  BY <1>1, OthersKeepDescriptors DEF Descriptors, BufferIsTheRest
<1>2. CASE IsOpen(fd) /\ UNCHANGED directory
           /\ \E pos \in Position : /\ CanSeekTo(fd, pos)
                                    /\ open' = [open EXCEPT ![fd].pos = pos]
                                    /\ astray' = (astray \/ TooFar(pos) \/ Buffered(fd))
  <2>1. PICK pos \in Position : /\ CanSeekTo(fd, pos)
                                /\ open' = [open EXCEPT ![fd].pos = pos]
                                /\ astray' = (astray \/ TooFar(pos) \/ Buffered(fd))
    BY <1>2
  <2>2. fd \in Fd /\ pos \in Nat /\ open[fd] \in [object : Object, pos : Nat]
    BY <1>2, PositionAssumption DEF IsOpen, Descriptors
  <2>3. open'[fd] = [open[fd] EXCEPT !.pos = pos]
    BY <2>1, <2>2 DEF Descriptors
  <2>4. open'[fd].object = open[fd].object /\ open'[fd].pos = pos
    BY <2>2, <2>3
  <2>5. open' \in [Fd -> [object : Object, pos : Nat]]
    BY <2>1, <2>2 DEF Descriptors
  <2>6. \A f \in Fd : f # fd => open'[f] = open[f]
    BY <2>1 DEF Descriptors
  <2>7. \A f \in Fd : open'[f].object \in Directory => open'[f].pos <= Names
    BY <2>1, <2>2, <2>4, <2>6 DEF BufferIsTheRest, CanSeekTo
  <2>8. astray' \in BOOLEAN /\ (~astray' => ~astray /\ ~Buffered(fd))
    BY <2>1 DEF Descriptors
  <2>9. findFirst' = findFirst /\ findFirstDescriptor' = findFirstDescriptor
    BY <1>2 DEF directory
  <2>10. IsDirectory(findFirstDescriptor) => IsDirectory(findFirstDescriptor)'
    BY <2>4, <2>6, <2>9 DEF IsDirectory, IsOpen
  <2>11. Descriptors'
    BY <2>5, <2>8, <2>9, <2>10 DEF Descriptors
  <2>12. ASSUME ~astray', Buffered(findFirstDescriptor)'
         PROVE  open'[findFirstDescriptor'].pos = Names
    <3>1. Buffered(findFirstDescriptor)
      BY <2>9, <2>12 DEF Buffered
    <3>2. findFirstDescriptor # fd /\ ~astray
      BY <2>8, <2>12, <3>1
    <3>3. findFirstDescriptor \in Fd
      BY <3>1 DEF Buffered, Descriptors, IsDirectory, IsOpen
    <3>4. QED
      BY <2>6, <2>9, <3>1, <3>2, <3>3 DEF BufferIsTheRest
  <2>13. QED
    BY <2>7, <2>11, <2>12 DEF BufferIsTheRest
<1>3. QED
  BY <1>1, <1>2 DEF SYS_lseek, KeepsDescriptors

\* The names readdir has not given: a number, that of the table if the guest
\* did not lead the emulator astray.
LEMMA NamesLeftFacts ==
    ASSUME Descriptors, BufferIsTheRest, NEW fd, HasDir(fd)
    PROVE  /\ fd \in Fd /\ IsDirectory(fd)
           /\ NamesLeft(fd) \in Nat
           /\ ~Buffered(fd) => open[fd].pos + NamesLeft(fd) = Names
<1>1. IsDirectory(fd)
  BY DEF HasDir, Descriptors
<1>2. fd \in Fd /\ open[fd].object \in Directory
  BY <1>1 DEF IsDirectory, IsOpen
<1>3. open[fd].pos \in Nat /\ open[fd].pos <= Names
  BY <1>2 DEF Descriptors, BufferIsTheRest
<1>4. CASE Buffered(fd)
  <2>1. \E n \in Nat : findFirst = <<n>>
    BY <1>4 DEF Buffered, Descriptors
  <2>2. findFirst[1] \in Nat
    BY <2>1
  <2>3. QED
    BY <1>1, <1>2, <1>4, <2>2 DEF NamesLeft
<1>5. CASE ~Buffered(fd)
  BY <1>1, <1>2, <1>3, <1>5, ObjectFacts DEF NamesLeft
<1>6. QED
  BY <1>4, <1>5

LEMMA GetdentsKeepsDescriptors ==
    ASSUME Descriptors, BufferIsTheRest, NEW fd \in Descriptor, NEW fits \in BOOLEAN,
           GetdentsReads(fd, fits)
    PROVE  Descriptors' /\ BufferIsTheRest'
<1> USE ObjectFacts
<1> DEFINE left == NamesLeft(fd)
           others == CloseStale(fd)
<1>1. fd \in Fd /\ IsDirectory(fd) /\ left \in Nat /\ (~Buffered(fd) => open[fd].pos + left = Names)
  BY NamesLeftFacts DEF GetdentsReads
<1>2. others \in [Fd -> [object : Object, pos : Nat]] /\ others[fd] = open[fd]
      /\ \A f \in Fd : others[f] = open[f] \/ others[f] = Closed
  BY <1>1 DEF CloseStale, Descriptors
<1>3. /\ findFirst' = <<IF left > 0 THEN left - 1 ELSE 0>>
      /\ findFirstDescriptor' = fd
      /\ open' = IF Buffered(fd) THEN others ELSE [others EXCEPT ![fd].pos = @ + left]
      /\ astray' \in BOOLEAN
  <2>1. astray' \in BOOLEAN
    BY Zenon DEF GetdentsReads
  <2>2. QED
    BY <2>1 DEF GetdentsReads
<1>4. PICK n \in Nat : findFirst' = <<n>>
  <2>1. (IF left > 0 THEN left - 1 ELSE 0) \in Nat
    BY <1>1
  <2>2. QED
    BY <1>3, <2>1
<1>5. findFirst' # None
  BY <1>4 DEF None
<1> HIDE DEF left, others
<1> DEFINE moved == [open[fd] EXCEPT !.pos = open[fd].pos + left]
<1>6. /\ moved \in [object : Object, pos : Nat]
      /\ moved.object = open[fd].object /\ moved.pos = open[fd].pos + left
      /\ open[fd] \in [object : Object, pos : Nat]
  BY <1>1 DEF Descriptors
<1>7. open' = IF Buffered(fd) THEN others ELSE [others EXCEPT ![fd] = moved]
  BY <1>2, <1>3
<1> HIDE DEF moved
<1>8. /\ open' \in [Fd -> [object : Object, pos : Nat]]
      /\ open'[fd].object = open[fd].object
      /\ open'[fd].pos = IF Buffered(fd) THEN open[fd].pos ELSE Names
      /\ \A f \in Fd : f # fd => open'[f] = open[f] \/ open'[f] = Closed
  <2>1. CASE Buffered(fd)
    BY <1>1, <1>2, <1>7, <2>1
  <2>2. CASE ~Buffered(fd)
    BY <1>1, <1>2, <1>6, <1>7, <2>2
  <2>3. QED
    BY <2>1, <2>2
<1>9. IsDirectory(fd)'
  BY <1>1, <1>8, ObjectFacts DEF IsDirectory, IsOpen
<1>10. Descriptors'
  BY <1>1, <1>3, <1>4, <1>5, <1>8, <1>9, FdBounds DEF Descriptors
<1>11. \A f \in Fd : open'[f].object \in Directory => open'[f].pos <= Names
  BY <1>8, ObjectFacts DEF BufferIsTheRest
<1>12. ASSUME ~astray' PROVE open'[fd].pos = Names
  <2>1. CASE Buffered(fd)
    <3>1. fd = findFirstDescriptor /\ ~astray
      BY <1>12, <2>1 DEF Buffered, GetdentsReads
    <3>2. QED
      BY <1>8, <2>1, <3>1 DEF BufferIsTheRest
  <2>2. QED
    BY <1>8, <2>1
<1>13. QED
  BY <1>3, <1>10, <1>11, <1>12 DEF BufferIsTheRest

LEMMA GetdentsFailsKeepsDescriptors ==
    ASSUME Descriptors, BufferIsTheRest, NEW fd \in Descriptor, GetdentsFails(fd)
    PROVE  Descriptors' /\ BufferIsTheRest'
<1> DEFINE closed == {f \in Fd : f = findFirstDescriptor /\ f # fd /\ findFirst # None}
<1>1. open' = [f \in Fd |-> IF f \in closed THEN Closed ELSE open[f]]
  BY DEF GetdentsFails, CloseStale
<1>2. findFirst' = None /\ findFirstDescriptor' = -1 /\ astray' \in BOOLEAN
  BY DEF GetdentsFails, Descriptors
<1>3. closed \in SUBSET Fd
  OBVIOUS
<1> HIDE DEF closed
<1>4. QED
  BY <1>1, <1>2, <1>3, NoDirKeepsDescriptors

LEMMA StepKeepsDescriptors ==
    ASSUME Registers, Descriptors, BufferIsTheRest, Next PROVE Descriptors' /\ BufferIsTheRest'
<1>1. CASE UNCHANGED <<open, directory, astray>>
  BY <1>1, OthersKeepDescriptors DEF Descriptors, BufferIsTheRest
<1>2. CASE SYS_openat
  <2>1. SYS_open \/ UNCHANGED <<open, directory, astray>>
    BY <1>2 DEF SYS_openat, Pretends, KeepsDescriptors
  <2>2. QED
    BY <1>1, <2>1, OpenKeepsDescriptors
<1>3. CASE OtherCalls
  BY <1>1, <1>3, OtherCallsAreQuiet DEF Quiet, KeepsDescriptors, Registers
<1>4. QED
  BY <1>2, <1>3, PipeKeepsDescriptors, CloseKeepsDescriptors, TransferKeepsDescriptors,
     SeekKeepsDescriptors, GetdentsKeepsDescriptors, GetdentsFailsKeepsDescriptors
     DEF Next, SYS_read, SYS_write, emulator_sys__llseek

-----------------------------------------------------------------------------
(* The invariants *)

CallInv == DescriptorInv /\ CarryMeansFailure /\ ErrorIsItsOwn

LEMMA InitCallInv == ASSUME Init PROVE CallInv
<1>1. Registers
  <2>1. 0 \in Word /\ 0 \in Errno
    BY WordBounds DEF Word, Errno
  <2>2. QED
    BY <2>1, UnsetIsNoError DEF Init, Registers
<1>2. open \in [Fd -> [object : Object, pos : Nat]] /\ \A fd \in Fd : open[fd] = Closed
  BY ObjectFacts DEF Init
<1>3. Descriptors
  BY <1>2 DEF Init, Descriptors
<1>4. BufferIsTheRest
  BY <1>2, ObjectFacts DEF Init, BufferIsTheRest, Buffered
<1>5. CarryMeansFailure /\ ErrorIsItsOwn
  BY Zenon DEF Init, CarryMeansFailure, ErrorIsItsOwn
<1>6. QED
  BY <1>1, <1>3, <1>4, <1>5 DEF CallInv, DescriptorInv

LEMMA NextCallInv == ASSUME CallInv, [Next]_vars PROVE CallInv'
<1>1. CASE Next
  <2>1. errno \in Errno
    BY DEF CallInv, DescriptorInv, Registers
  <2>2. Honest
    BY <1>1, <2>1, CallsAreHonest
  <2>3. Descriptors' /\ BufferIsTheRest'
    BY <1>1, StepKeepsDescriptors DEF CallInv, DescriptorInv
  <2>4. Registers' /\ CarryMeansFailure' /\ ErrorIsItsOwn'
    BY <2>2, Zenon DEF Honest, Registers, CarryMeansFailure, ErrorIsItsOwn
  <2>5. QED
    BY <2>3, <2>4 DEF CallInv, DescriptorInv
<1>2. CASE UNCHANGED vars
  BY <1>2 DEF vars, CallInv, DescriptorInv, Registers, Descriptors, BufferIsTheRest, Buffered,
              IsDirectory, IsOpen, CarryMeansFailure, ErrorIsItsOwn
<1>3. QED
  BY <1>1, <1>2

LEMMA CallInvMeans == ASSUME CallInv PROVE DirHasItsDescriptor
<1>1. findFirst = None \/ (Len(findFirst) = 1 /\ findFirst[1] \in Nat)
  <2>1. findFirst = None \/ \E n \in Nat : findFirst = <<n>>
    BY DEF CallInv, DescriptorInv, Descriptors
  <2>2. QED
    BY <2>1
<1>2. QED
  BY <1>1 DEF CallInv, DescriptorInv, Descriptors, Registers, DirHasItsDescriptor, TypeOK, Object

\* The invariant the theorems below follow from.
THEOREM CallInvariant == Spec => []CallInv
<1>1. Init => CallInv
  BY InitCallInv
<1>2. CallInv /\ [Next]_vars => CallInv'
  BY NextCallInv
<1>3. QED
  BY <1>1, <1>2, PTL DEF Spec

\* Whatever the guest calls, the one DIR belongs to a descriptor that is open
\* on a directory, and there is a descriptor for it just when there is a DIR.
THEOREM DirAlwaysHasItsDescriptor == Spec => []DirHasItsDescriptor
<1>1. CallInv => DirHasItsDescriptor
  BY CallInvMeans
<1>2. QED
  BY <1>1, CallInvariant, PTL

\* The carry bit is set just when the call failed, whatever the calls before.
THEOREM CarryAlwaysMeansFailure == Spec => []CarryMeansFailure
<1>1. CallInv => CarryMeansFailure
  BY DEF CallInv
<1>2. QED
  BY <1>1, CallInvariant, PTL

\* The error number of a failure is the one this call had.
THEOREM ErrorIsAlwaysItsOwn == Spec => []ErrorIsItsOwn
<1>1. CallInv => ErrorIsItsOwn
  BY DEF CallInv
<1>2. QED
  BY <1>1, CallInvariant, PTL

-----------------------------------------------------------------------------
(* The descriptors are POSIX's *)

Enumerated(fd) == fd = findFirstDescriptor /\ findFirst # None

LEMMA TableFacts ==
    ASSUME DescriptorInv, NEW fd \in Fd
    PROVE  /\ ~Enumerated(fd) => Table[fd] = open[fd]
           /\ Enumerated(fd) =>
                 /\ IsDirectory(fd)
                 /\ findFirst[1] \in Nat
                 /\ Table[fd] = [open[fd] EXCEPT !.pos = open[fd].pos - findFirst[1]]
           /\ Table[fd].object = open[fd].object
           /\ View!Open(fd) <=> IsOpen(fd)
<1>1. Table[fd] = IF Enumerated(fd) THEN [open[fd] EXCEPT !.pos = open[fd].pos - findFirst[1]]
                                    ELSE open[fd]
  BY DEF Table, Enumerated
<1>2. open[fd] \in [object : Object, pos : Nat]
  BY DEF DescriptorInv, Descriptors
<1>3. ASSUME Enumerated(fd) PROVE findFirst[1] \in Nat /\ IsDirectory(fd)
  <2>1. \E n \in Nat : findFirst = <<n>>
    BY <1>3 DEF Enumerated, DescriptorInv, Descriptors
  <2>2. QED
    BY <1>3, <2>1 DEF Enumerated, DescriptorInv, Descriptors
<1>4. Table[fd].object = open[fd].object
  BY <1>1, <1>2
<1>5. View!Open(fd) <=> Table[fd] # Closed
  BY DEF View!Open, View!Closed, Closed
<1>6. View!Open(fd) <=> IsOpen(fd)
  <2>1. CASE Enumerated(fd)
    <3>1. IsOpen(fd) /\ open[fd].object \in Directory
      BY <1>3, <2>1 DEF IsDirectory
    <3>2. Table[fd] # Closed
      BY <1>4, <3>1, ObjectFacts
    <3>3. QED
      BY <1>5, <3>1, <3>2
  <2>2. CASE ~Enumerated(fd)
    BY <1>1, <1>5, <2>2 DEF IsOpen
  <2>3. QED
    BY <2>1, <2>2
<1>7. QED
  BY <1>1, <1>3, <1>4, <1>6

LEMMA TableOfOthers ==
    ASSUME UNCHANGED directory, open' \in [Fd -> [object : Object, pos : Nat]],
           Enumerated(findFirstDescriptor) =>
               open'[findFirstDescriptor] = open[findFirstDescriptor]
    PROVE  Table' = [fd \in Fd |-> IF Enumerated(fd) THEN Table[fd] ELSE open'[fd]]
  BY DEF directory, Table, Enumerated

LEMMA SuccessIsReturned ==
    ASSUME NEW call, NEW fd, NEW result \in 0..(Size - MaxErrno - 1), Succeeds(call, fd, result)
    PROVE  View!Returned(call, fd, result)
<1>1. update_result_errno(result, errno) /\ last'.call = call /\ last'.fd = fd
  BY DEF Succeeds, Truth
<1>2. o0' = result /\ carry' = FALSE
  BY <1>1, ResultIsGiven
<1>3. QED
  BY <1>1, <1>2, Zenon DEF Reply, View!Returned

LEMMA FailureIsPosix ==
    ASSUME DescriptorInv, NEW call, NEW fd, NEW e \in 1..MaxErrno, Fails(call, fd, e),
           \/ call \notin {"close", "read", "write", "lseek", "getdents"}
           \/ IsOpen(fd)
           \/ e = EBADF,
           Table' = Table
    PROVE  View!Fails
<1>1. o0' = e /\ carry' = TRUE /\ last'.call = call /\ last'.fd = fd
  BY FailsIsHonest DEF Fails, Truth
<1>2. Reply'.ok = ~TRUE /\ Reply'.call = call /\ Reply'.fd = fd /\ Reply'.value = e
  BY <1>1, Zenon DEF Reply
<1>3. IsOpen(fd) => View!Open(fd)
  BY TableFacts DEF IsOpen
<1>4. QED
  BY <1>2, <1>3 DEF View!Fails

LEMMA QuietIsOther == ASSUME Quiet PROVE View!Other
<1>1. Reply'.call \in {"other", "lies"}
  BY DEF Quiet, Reply
<1>2. Table' = Table
  BY DEF Quiet, KeepsDescriptors, directory, Table
<1>3. QED
  BY <1>1, <1>2 DEF View!Other

LEMMA LowestInTable ==
    ASSUME DescriptorInv, NEW fd \in Fd, Lowest(fd)
    PROVE  View!Lowest(fd) /\ ~Enumerated(fd)
<1>1. View!Lowest(fd)
  BY TableFacts DEF Lowest, View!Lowest
<1>2. ~Enumerated(fd)
  BY TableFacts DEF Lowest, IsDirectory
<1>3. QED
  BY <1>1, <1>2

LEMMA OpenIsPosix == ASSUME DescriptorInv, SYS_open PROVE View!Opens \/ View!Fails
<1>1. CASE \E e \in 1..MaxErrno : Fails("open", -1, e) /\ KeepsDescriptors
  <2>1. Table' = Table
    BY <1>1 DEF KeepsDescriptors, directory, Table
  <2>2. QED
    BY <1>1, <2>1, FailureIsPosix
<1>2. ASSUME NEW fd \in Fd, NEW object \in File \cup Directory, Lowest(fd),
             open' = [open EXCEPT ![fd] = Start(object)], Succeeds("open", -1, fd),
             UNCHANGED directory
      PROVE  View!Opens
  <2>1. View!Lowest(fd) /\ ~Enumerated(fd)
    BY <1>2, LowestInTable
  <2>2. open' \in [Fd -> [object : Object, pos : Nat]]
    BY <1>2, ObjectFacts DEF DescriptorInv, Descriptors
  <2>3. Table' = [f \in Fd |-> IF Enumerated(f) THEN Table[f] ELSE open'[f]]
    BY <1>2, <2>1, <2>2, TableOfOthers DEF DescriptorInv, Descriptors, Enumerated
  <2>4. Table' = [Table EXCEPT ![fd] = View!Start(object)]
    BY <1>2, <2>1, <2>3, TableFacts DEF Table, Start, View!Start, DescriptorInv, Descriptors
  <2>5. View!Returned("open", -1, fd)
    BY <1>2, FdBounds, SuccessIsReturned
  <2>6. QED
    BY <2>1, <2>4, <2>5 DEF View!Opens
<1>3. QED
  BY <1>1, <1>2 DEF SYS_open

LEMMA PipeIsPosix == ASSUME DescriptorInv, SYS_pipe2 PROVE View!Pipes \/ View!Fails
<1>1. CASE \E e \in 1..MaxErrno : Fails("pipe", -1, e) /\ KeepsDescriptors
  <2>1. Table' = Table
    BY <1>1 DEF KeepsDescriptors, directory, Table
  <2>2. QED
    BY <1>1, <2>1, FailureIsPosix
<1>2. ASSUME NEW first \in Fd, NEW second \in Fd, Lowest(first), first < second, ~IsOpen(second),
             \A fd \in Fd : fd < second => fd = first \/ IsOpen(fd),
             open' = [open EXCEPT ![first] = Start(Pipe), ![second] = Start(Pipe)],
             Succeeds("pipe", -1, 0), UNCHANGED directory
      PROVE  View!Pipes
  <2>1. View!Lowest(first) /\ ~Enumerated(first)
    BY <1>2, LowestInTable
  <2>2. ~View!Open(second) /\ ~Enumerated(second)
    BY <1>2, TableFacts DEF IsDirectory
  <2>3. open' \in [Fd -> [object : Object, pos : Nat]]
    BY <1>2, ObjectFacts DEF DescriptorInv, Descriptors
  <2>4. Table' = [f \in Fd |-> IF Enumerated(f) THEN Table[f] ELSE open'[f]]
    BY <1>2, <2>1, <2>2, <2>3, TableOfOthers DEF DescriptorInv, Descriptors, Enumerated
  <2>5. Table' = [Table EXCEPT ![first] = View!Start(Pipe), ![second] = View!Start(Pipe)]
    <3>1. View!Start(Pipe) = Start(Pipe)
      BY DEF Start, View!Start
    <3>2. Table = [f \in Fd |-> Table[f]]
      BY DEF Table
    <3>3. \A f \in Fd : ~Enumerated(f) => Table[f] = open[f]
      BY TableFacts
    <3> HIDE DEF Start, Table, Enumerated
    <3>4. open' = [f \in Fd |-> IF f = second THEN Start(Pipe) ELSE IF f = first THEN Start(Pipe) ELSE open[f]]
      BY <1>2 DEF DescriptorInv, Descriptors
    <3>5. Table' = [f \in Fd |-> IF f = second THEN Start(Pipe) ELSE IF f = first THEN Start(Pipe) ELSE Table[f]]
      BY <2>1, <2>2, <2>4, <3>3, <3>4
    <3>6. Table' = [Table EXCEPT ![first] = Start(Pipe), ![second] = Start(Pipe)]
      BY <3>2, <3>5
    <3>7. QED
      BY <3>1, <3>6
  <2>6. View!Returned("pipe", -1, 0)
    BY <1>2, SmallResults, SuccessIsReturned
  <2>7. \A fd \in Fd : fd < second => fd = first \/ View!Open(fd)
    BY <1>2, TableFacts
  <2>8. \E object \in File : Table' = [Table EXCEPT ![first] = View!Start(object), ![second] = View!Start(object)]
    BY <2>5, ObjectFacts
  <2>9. QED
    BY <1>2, <2>1, <2>2, <2>6, <2>7, <2>8 DEF View!Pipes
<1>3. QED
  BY <1>1, <1>2 DEF SYS_pipe2

LEMMA CloseIsPosix ==
    ASSUME DescriptorInv, NEW fd \in Descriptor, SYS_close(fd), ~astray'
    PROVE  View!Closes \/ View!Fails
<1>1. CASE CloseEnumerated(fd)
  <2>1. fd = findFirstDescriptor /\ fd # -1
    BY <1>1 DEF CloseEnumerated
  <2>2. fd \in Fd /\ Enumerated(fd)
    BY <2>1 DEF Enumerated, DescriptorInv, Descriptors
  <2>3. View!Open(fd)
    BY <2>2, TableFacts DEF IsDirectory
  <2>4. findFirst' = None /\ open' = [f \in Fd |-> IF f = fd THEN Closed ELSE open[f]]
    BY <1>1, <2>2 DEF CloseEnumerated, Enumerated
  <2>5. Table' = [f \in Fd |-> IF f = fd THEN Closed ELSE open[f]]
    BY <2>4 DEF Table
  <2>6. Table' = [Table EXCEPT ![fd] = View!Closed]
    BY <2>1, <2>5 DEF Table, Closed, View!Closed
  <2>7. View!Returned("close", fd, 0)
    BY <1>1, SmallResults, SuccessIsReturned DEF CloseEnumerated
  <2>8. QED
    BY <2>2, <2>3, <2>6, <2>7 DEF View!Closes
<1>2. CASE CloseOther(fd) /\ ~IsOpen(fd)
  <2>1. UNCHANGED <<open, directory>> /\ Fails("close", fd, EBADF)
    BY <1>2 DEF CloseOther
  <2>2. Table' = Table
    BY <2>1 DEF directory, Table
  <2>3. QED
    BY <2>1, <2>2, EbadfIsError, FailureIsPosix
<1>3. CASE CloseOther(fd) /\ IsOpen(fd)
  <2>1. /\ fd # findFirstDescriptor /\ UNCHANGED directory
        /\ open' = [open EXCEPT ![fd] = Closed] /\ Succeeds("close", fd, 0)
    BY <1>3 DEF CloseOther
  <2>2. fd \in Fd /\ View!Open(fd) /\ ~Enumerated(fd)
    BY <1>3, <2>1, TableFacts DEF IsOpen, Enumerated
  <2>3. open' \in [Fd -> [object : Object, pos : Nat]]
    BY <2>1, ObjectFacts DEF DescriptorInv, Descriptors
  <2>4. Table' = [f \in Fd |-> IF Enumerated(f) THEN Table[f] ELSE open'[f]]
    BY <2>1, <2>3, TableOfOthers DEF DescriptorInv, Descriptors, Enumerated
  <2>5. Table' = [Table EXCEPT ![fd] = View!Closed]
    BY <2>1, <2>2, <2>4, TableFacts, ZenonT(40) DEF Table, Closed, View!Closed, DescriptorInv, Descriptors
  <2>6. View!Returned("close", fd, 0)
    BY <2>1, SmallResults, SuccessIsReturned
  <2>7. QED
    BY <2>2, <2>5, <2>6 DEF View!Closes
<1>4. QED
  BY <1>1, <1>2, <1>3 DEF SYS_close

\* A change of the position of what is not enumerated is one in the table.
LEMMA MoveIsMove ==
    ASSUME DescriptorInv, NEW fd \in Fd, ~Enumerated(fd), NEW pos \in Nat, UNCHANGED directory,
           open' = [open EXCEPT ![fd].pos = pos]
    PROVE  Table' = [Table EXCEPT ![fd].pos = pos]
<1>1. open[fd] \in [object : Object, pos : Nat] /\ open \in [Fd -> [object : Object, pos : Nat]]
  BY DEF DescriptorInv, Descriptors
<1> DEFINE moved == [open[fd] EXCEPT !.pos = pos]
<1>2. moved \in [object : Object, pos : Nat]
  BY <1>1
<1>3. open' = [open EXCEPT ![fd] = moved]
  OBVIOUS
<1>4. Table[fd] = open[fd]
  BY TableFacts
<1> SUFFICES Table' = [Table EXCEPT ![fd] = moved]
  BY <1>4
<1> HIDE DEF moved
<1>5. open' \in [Fd -> [object : Object, pos : Nat]]
  BY <1>1, <1>2, <1>3
<1>6. Table' = [f \in Fd |-> IF Enumerated(f) THEN Table[f] ELSE open'[f]]
  BY <1>1, <1>3, <1>5, TableOfOthers DEF Enumerated, DescriptorInv, Descriptors
<1>7. Table = [f \in Fd |-> Table[f]] /\ \A f \in Fd : ~Enumerated(f) => Table[f] = open[f]
  BY TableFacts DEF Table
<1> HIDE DEF Table, Enumerated
<1>8. Table' = [f \in Fd |-> IF f = fd THEN moved ELSE Table[f]]
  BY <1>1, <1>3, <1>6, <1>7
<1>9. QED
  BY <1>7, <1>8

LEMMA TransferIsPosix ==
    ASSUME DescriptorInv, NEW fd \in Descriptor, NEW call \in {"read", "write"}, Transfers(call, fd)
    PROVE  View!Transfers \/ View!Fails
<1>1. ASSUME NEW e \in 1..MaxErrno, Fails(call, fd, IF IsOpen(fd) THEN e ELSE EBADF), KeepsDescriptors
      PROVE  View!Fails
  <2>1. Table' = Table
    BY <1>1 DEF KeepsDescriptors, directory, Table
  <2>2. QED
    BY <1>1, <2>1, EbadfIsError, FailureIsPosix
<1>2. ASSUME IsOpen(fd), open[fd].object \in File, UNCHANGED directory, NEW n \in {0, 1},
             open' = [open EXCEPT ![fd].pos = @ + n], Succeeds(call, fd, n)
      PROVE  View!Transfers
  <2>1. fd \in Fd /\ ~Enumerated(fd)
    BY <1>2, TableFacts, ObjectFacts DEF IsOpen, IsDirectory
  <2>2. View!Open(fd) /\ Table[fd] = open[fd] /\ open[fd].pos \in Nat
    BY <1>2, <2>1, TableFacts DEF DescriptorInv, Descriptors
  <2>3. Table' = [Table EXCEPT ![fd].pos = open[fd].pos + n]
    <3> DEFINE pos == open[fd].pos + n
    <3>1. pos \in Nat /\ open' = [open EXCEPT ![fd].pos = pos]
      BY <1>2, <2>2
    <3> HIDE DEF pos
    <3>2. Table' = [Table EXCEPT ![fd].pos = pos]
      BY <1>2, <2>1, <3>1, MoveIsMove
    <3>3. QED
      BY <3>2 DEF pos
  <2>4. Table' = [Table EXCEPT ![fd].pos = @ + n]
    BY <2>2, <2>3
  <2>5. View!Returned(call, fd, n)
    BY <1>2, SmallResults, SuccessIsReturned
  <2>6. QED
    BY <1>2, <2>1, <2>2, <2>4, <2>5 DEF View!Transfers
<1>3. QED
  BY <1>1, <1>2 DEF Transfers

LEMMA SeekIsPosix ==
    ASSUME DescriptorInv, NEW fd \in Descriptor, SYS_lseek(fd), ~astray'
    PROVE  View!Seeks \/ View!Fails
<1>1. ASSUME NEW e \in 1..MaxErrno, Fails("lseek", fd, IF IsOpen(fd) THEN e ELSE EBADF), KeepsDescriptors
      PROVE  View!Fails
  <2>1. Table' = Table
    BY <1>1 DEF KeepsDescriptors, directory, Table
  <2>2. QED
    BY <1>1, <2>1, EbadfIsError, FailureIsPosix
<1>2. ASSUME IsOpen(fd), UNCHANGED directory, NEW pos \in Position,
             open' = [open EXCEPT ![fd].pos = pos], ~TooFar(pos), ~Buffered(fd),
             Succeeds("lseek", fd, pos)
      PROVE  View!Seeks
  <2>1. fd \in Fd /\ pos \in 0..(Size - MaxErrno - 1) /\ pos \in Nat
    BY <1>2, PositionAssumption, WordBounds DEF IsOpen, TooFar
  <2>2. View!Returned("lseek", fd, pos)
    BY <1>2, <2>1, SuccessIsReturned
  <2>3. View!Open(fd) /\ open[fd] \in [object : Object, pos : Nat]
    BY <1>2, <2>1, TableFacts DEF DescriptorInv, Descriptors
  <2>4. Table' = [Table EXCEPT ![fd].pos = pos]
    <3>1. CASE Enumerated(fd)
      <4>1. findFirst = <<0>>
        BY <1>2, <3>1 DEF Buffered, Enumerated
      <4>2. \A f \in Fd : [open[f] EXCEPT !.pos = open[f].pos - findFirst[1]] = open[f]
        BY <4>1 DEF DescriptorInv, Descriptors
      <4>3. Table = open
        BY <4>2 DEF Table, DescriptorInv, Descriptors
      <4>4. open' \in [Fd -> [object : Object, pos : Nat]] /\ findFirst' = <<0>>
        BY <1>2, <2>1, <4>1 DEF directory, DescriptorInv, Descriptors
      <4>5. \A f \in Fd : [open'[f] EXCEPT !.pos = open'[f].pos - findFirst'[1]] = open'[f]
        BY <4>4
      <4>6. Table' = open'
        BY <4>4, <4>5 DEF Table
      <4>7. QED
        BY <1>2, <4>3, <4>6
    <3>2. CASE ~Enumerated(fd)
      BY <1>2, <2>1, <3>2, MoveIsMove
    <3>3. QED
      BY <3>1, <3>2
  <2>5. Table'[fd].pos = pos
    BY <2>1, <2>3, <2>4, TableFacts DEF Table
  <2>6. QED
    BY <2>1, <2>2, <2>3, <2>4, <2>5 DEF View!Seeks
<1>3. QED
  BY <1>1, <1>2 DEF SYS_lseek

LEMMA GetdentsIsPosix ==
    ASSUME DescriptorInv, NEW fd \in Descriptor, NEW fits \in BOOLEAN, GetdentsReads(fd, fits),
           ~astray'
    PROVE  View!Lists
<1> DEFINE left == NamesLeft(fd)
           at(pos) == [open[fd] EXCEPT !.pos = pos]
           next == IF left > 0 THEN left - 1 ELSE 0
<1>1. /\ fd \in Fd /\ IsDirectory(fd) /\ left \in Nat
      /\ ~Buffered(fd) => open[fd].pos + left = Names
  BY NamesLeftFacts DEF GetdentsReads, DescriptorInv
<1>2. ~astray /\ ~(left > 0 /\ ~fits) /\ ~(findFirst # None /\ findFirstDescriptor # fd)
  BY Zenon DEF GetdentsReads
<1>3. open \in [Fd -> [object : Object, pos : Nat]] /\ Names \in Nat
  BY NamesAssumption DEF DescriptorInv, Descriptors
<1>4. CloseStale(fd) = open
  BY <1>2, <1>3 DEF CloseStale
<1>5. /\ findFirst' = <<next>> /\ findFirstDescriptor' = fd
      /\ open' = IF Buffered(fd) THEN open ELSE [open EXCEPT ![fd].pos = @ + left]
  BY <1>4 DEF GetdentsReads
<1>6. Buffered(fd) => open[fd].pos = Names /\ Enumerated(fd) /\ left = findFirst[1]
  BY <1>2 DEF Buffered, Enumerated, DescriptorInv, BufferIsTheRest, NamesLeft
<1>7. ~Buffered(fd) /\ Enumerated(fd) => findFirst[1] = 0
  BY DEF Buffered, Enumerated
<1>8. open[fd] \in [object : Object, pos : Nat]
  BY <1>1, <1>3
<1> HIDE DEF left
<1>9. Table[fd] = at(Names - left)
  <2>1. CASE Buffered(fd)
    BY <1>1, <1>6, <2>1, TableFacts
  <2>2. CASE ~Buffered(fd)
    <3>1. Names - left = open[fd].pos
      BY <1>1, <1>3, <1>8, <2>2
    <3>2. at(open[fd].pos) = open[fd] /\ at(open[fd].pos - 0) = open[fd]
      BY <1>8
    <3>3. Table[fd] = open[fd]
      BY <1>1, <1>7, <2>2, <3>2, TableFacts
    <3>4. QED
      BY <3>1, <3>2, <3>3
  <2>3. QED
    BY <2>1, <2>2
<1>10. /\ open' \in [Fd -> [object : Object, pos : Nat]] /\ open'[fd] = at(Names)
       /\ \A f \in Fd : f # fd => open'[f] = open[f]
  <2>1. CASE Buffered(fd)
    BY <1>3, <1>5, <1>6, <1>8, <2>1
  <2>2. CASE ~Buffered(fd)
    <3>1. at(Names) \in [object : Object, pos : Nat] /\ open' = [open EXCEPT ![fd] = at(Names)]
      BY <1>1, <1>3, <1>5, <1>8, <2>2
    <3> HIDE DEF at
    <3>2. QED
      BY <1>1, <1>3, <3>1
  <2>3. QED
    BY <2>1, <2>2
<1>11. Table' = [f \in Fd |-> IF f = fd THEN at(Names - next) ELSE open[f]]
  <2>1. findFirst' # None /\ findFirst'[1] = next
    BY <1>5 DEF None
  <2>2. [at(Names) EXCEPT !.pos = Names - next] = at(Names - next)
    BY <1>8
  <2>3. [open'[fd] EXCEPT !.pos = open'[fd].pos - next] = at(Names - next)
    BY <1>8, <1>10, <2>2
  <2> HIDE DEF at, next
  <2>4. \A f \in Fd : Table'[f] = IF f = fd THEN at(Names - next) ELSE open[f]
    BY <1>5, <1>10, <2>1, <2>3 DEF Table
  <2>5. Table' = [f \in Fd |-> Table'[f]]
    BY DEF Table
  <2>6. QED
    BY <2>4, <2>5
<1>12. \A f \in Fd : f # fd => Table[f] = open[f]
  BY <1>2, TableFacts DEF Enumerated
<1> DEFINE more == Table[fd].pos < Names
<1>13. /\ (more <=> left > 0) /\ Table[fd].pos = Names - left
       /\ Names - next = IF more THEN Table[fd].pos + 1 ELSE Table[fd].pos
  BY <1>1, <1>3, <1>8, <1>9
<1>14. Table' = [Table EXCEPT ![fd].pos = IF more THEN @ + 1 ELSE @]
  <2>1. [Table[fd] EXCEPT !.pos = Names - next] = at(Names - next)
    BY <1>8, <1>9
  <2>2. [Table[fd] EXCEPT !.pos = IF more THEN @ + 1 ELSE @] = at(Names - next)
    BY <1>13, <2>1
  <2>3. Table = [f \in Fd |-> Table[f]]
    BY DEF Table
  <2> HIDE DEF at, next, more
  <2>4. Table' = [Table EXCEPT ![fd] = at(Names - next)]
    BY <1>1, <1>11, <1>12, <2>3
  <2>5. QED
    BY <2>2, <2>4
<1>15. View!Returned("getdents", fd, IF more THEN 1 ELSE 0)
  <2>1. Succeeds("getdents", fd, IF left > 0 THEN 1 ELSE 0)
    BY <1>2 DEF GetdentsReads, left
  <2>2. QED
    BY <1>13, <2>1, SmallResults, SuccessIsReturned
<1>16. View!Open(fd) /\ Table[fd].object \in Directory
  BY <1>1, TableFacts DEF IsDirectory
<1>17. QED
  BY <1>1, <1>14, <1>15, <1>16 DEF View!Lists

LEMMA GetdentsFailsIsPosix ==
    ASSUME DescriptorInv, NEW fd \in Descriptor, GetdentsFails(fd), ~astray'
    PROVE  View!Fails
<1>1. ~(findFirst # None /\ findFirstDescriptor # fd)
  BY Zenon DEF GetdentsFails
<1>2. findFirst = None
  BY <1>1 DEF GetdentsFails, HasDir
<1>3. open' = open /\ findFirst' = None
  BY <1>2 DEF GetdentsFails, CloseStale, DescriptorInv, Descriptors
<1>4. Table' = Table
  BY <1>2, <1>3 DEF Table
<1>5. Fails("getdents", fd, EBADF)
  BY DEF GetdentsFails
<1>6. QED
  BY <1>4, <1>5, EbadfIsError, FailureIsPosix

LEMMA StepIsPosix ==
    ASSUME CallInv, [Next]_vars
    PROVE  [~astray' => View!Next]_<<Table, Reply>>
<1> USE DEF CallInv
<1>1. CASE UNCHANGED vars
  BY <1>1 DEF vars, Table, Reply
<1>2. CASE SYS_openat
  <2>1. CASE SYS_open
    BY <2>1, OpenIsPosix DEF View!Next
  <2>2. ASSUME NEW fake \in Fake, Pretends(fake) PROVE View!Next
    <3>1. Quiet
      BY <2>2, FdBounds, PretendsIsQuiet DEF DescriptorInv, Registers
    <3>2. QED
      BY <3>1, QuietIsOther DEF View!Next
  <2>3. QED
    BY <1>2, <2>1, <2>2 DEF SYS_openat
<1>3. CASE SYS_pipe2
  BY <1>3, PipeIsPosix DEF View!Next
<1>4. CASE OtherCalls
  <2>1. Quiet
    BY <1>4, OtherCallsAreQuiet DEF DescriptorInv, Registers
  <2>2. QED
    BY <2>1, QuietIsOther DEF View!Next
<1>5. ASSUME NEW fd \in Descriptor, ~astray',
             \/ SYS_close(fd) \/ SYS_read(fd) \/ SYS_write(fd) \/ SYS_lseek(fd)
             \/ \E fits \in BOOLEAN : GetdentsReads(fd, fits)
             \/ GetdentsFails(fd)
      PROVE  View!Next
  BY <1>5, CloseIsPosix, TransferIsPosix, SeekIsPosix, GetdentsIsPosix, GetdentsFailsIsPosix
     DEF SYS_read, SYS_write, View!Next
<1>6. QED
  BY <1>1, <1>2, <1>3, <1>4, <1>5 DEF Next, emulator_sys__llseek

LEMMA InitIsPosix == ASSUME Init PROVE View!Init
<1>1. Table = [fd \in Fd |-> View!Closed]
  BY DEF Init, Table, Closed, View!Closed
<1>2. carry = FALSE /\ o0 = 0 /\ last.call = "none" /\ last.fd = -1
  BY DEF Init
<1>3. Reply = [call |-> "none", fd |-> -1, ok |-> TRUE, value |-> 0]
  BY <1>2, Zenon DEF Reply
<1>4. QED
  BY <1>1, <1>3 DEF View!Init

\* The descriptors and the enumeration of directories are POSIX's, for as
\* long as the guest does none of the things the emulator has no answer to.
THEOREM CallsImplementDescriptorTable == Spec => ImplementsDescriptorTable
<1>1. Init => View!Init
  BY InitIsPosix
<1>2. CallInv /\ [Next]_vars => [~astray' => View!Next]_<<Table, Reply>>
  BY StepIsPosix
<1>3. QED
  BY <1>1, <1>2, CallInvariant, PTL DEF Spec, ImplementsDescriptorTable

=============================================================================
