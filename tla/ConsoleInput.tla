---------------------------- MODULE ConsoleInput ----------------------------
(***************************************************************************)
(* Redirected standard input: portable_kbhit and redirected_getch of       *)
(* djl_con.hxx, as the read and the pselect6 system calls of sparcos.cxx   *)
(* call them.  Each of the two keeps a byte it had to take from the file   *)
(* or pipe before it was asked for.                                        *)
(*                                                                         *)
(* A call that would block is an action that is not enabled: the emulator  *)
(* has one thread, so that nothing sees it half done.  The guest asks for  *)
(* a byte at a time, as read() of descriptor 0 always answers with one.    *)
(***************************************************************************)
EXTENDS Integers, Sequences

CONSTANTS
    CR, LF,      \* the bytes 13 and 10
    EOF,         \* what a getch at the end of the input returns, -1
    Other,       \* bound: other bytes
    ByteFF,      \* the byte 0xff, one of them or not
    SignedChar,  \* a char of the host is signed
    ICRNL,       \* the guest's terminal mode maps CR to LF
    MaxInput     \* bound: its length

ASSUME BytesAssumption ==
    /\ CR # LF /\ {CR, LF} \cap (Other \cup {ByteFF}) = {}
    /\ EOF \notin Other \cup {CR, LF}
ASSUME ModeAssumption == SignedChar \in BOOLEAN /\ ICRNL \in BOOLEAN

Byte == Other \cup {CR, LF}
None == <<>>

VARIABLES
    written,     \* history: all that was written to the pipe
    input,       \* the part of it that was not read from descriptor 0
    closed,      \* nothing more will be written
    peek,        \* s_kbhitPeekByte, empty or a byte
    look,        \* look_ahead, empty or a byte
    delivered,   \* history: the bytes the guest read
    told,        \* the answer to pselect6 since the last read
    result       \* what the last read returned

vars == <<written, input, closed, peek, look, delivered, told, result>>

TypeOK ==
    /\ written \in Seq(Byte) /\ input \in Seq(Byte)
    /\ closed \in BOOLEAN
    /\ peek \in {None} \cup {<<c>> : c \in Byte}
    /\ look \in {None} \cup {<<c>> : c \in Byte}
    /\ delivered \in Seq(Byte)
    /\ told \in {"nothing", "ready", "not ready"}
    /\ result \in Byte \cup {EOF, None}

Init ==
    /\ written = <<>> /\ input = <<>> /\ closed = FALSE
    /\ peek = None /\ look = None
    /\ delivered = <<>> /\ told = "nothing" /\ result = None

-----------------------------------------------------------------------------
(* The other end of the pipe *)

Write(c) ==
    /\ ~closed /\ Len(written) < MaxInput
    /\ written' = Append(written, c)
    /\ input' = Append(input, c)
    /\ UNCHANGED <<closed, peek, look, delivered, told, result>>

Close ==
    /\ ~closed
    /\ closed' = TRUE
    /\ UNCHANGED <<written, input, peek, look, delivered, told, result>>

-----------------------------------------------------------------------------
(* portable_kbhit *)

Answers(answer) == told' = answer /\ UNCHANGED <<written, closed, look, delivered, result>>

KbhitCached == peek # None /\ Answers("ready") /\ UNCHANGED <<input, peek>>

KbhitReads ==
    /\ peek = None /\ input # <<>>
    /\ peek' = <<Head(input)>>
    /\ input' = Tail(input)
    /\ Answers("ready")

\* Mutant of KbhitAtEnd: the sticky flag of the file, not yet set, is asked.
KbhitSaysReady ==
    /\ peek = None /\ input = <<>> /\ closed
    /\ Answers("ready")
    /\ UNCHANGED <<input, peek>>

KbhitAtEnd ==
    /\ peek = None /\ input = <<>> /\ closed
    /\ Answers("not ready")
    /\ UNCHANGED <<input, peek>>

Kbhit == KbhitCached \/ KbhitReads \/ KbhitAtEnd

-----------------------------------------------------------------------------
(* redirected_getch *)

\* The guest reads byte c: a char is widened to an int, -1 of which means EOF,
\* and the system call maps CR.
Returns(c) ==
    LET r == CASE c = ByteFF /\ SignedChar -> EOF
               [] c = CR /\ ICRNL          -> LF
               [] OTHER                    -> c
    IN  /\ result' = r
        /\ delivered' = IF r = EOF THEN delivered ELSE Append(delivered, r)
        /\ told' = "nothing"
        /\ UNCHANGED <<written, closed>>

\* Mutant of GetchLookAhead: the flag stays set.
LookAheadStays ==
    /\ look # None
    /\ Returns(look[1])
    /\ UNCHANGED <<look, input, peek>>

GetchLookAhead ==
    /\ look # None
    /\ look' = None
    /\ Returns(look[1])
    /\ UNCHANGED <<input, peek>>

\* Mutant of Fetched: the byte of portable_kbhit is not looked at.
FetchedFromInput == input

\* The bytes redirected_getch may fetch: portable_kbhit's, then the file's.
Fetched == peek \o input

\* What is left once it fetched n of them.
Fetches(n) ==
    /\ look = None
    /\ Len(Fetched) >= n
    /\ peek' = None
    /\ input' = SubSeq(Fetched, n + 1, Len(Fetched))

GetchByte ==
    /\ Fetches(1)
    /\ Fetched[1] # CR
    /\ Returns(Fetched[1])
    /\ UNCHANGED look

\* A CR: the byte after it is fetched as well, and is kept if it is no LF.

\* Mutant of GetchCRLF: it keeps the LF and returns the CR.
CRLFIsKept ==
    /\ Fetches(2)
    /\ Fetched[1] = CR /\ Fetched[2] = LF
    /\ look' = <<LF>>
    /\ Returns(CR)

GetchCRLF ==
    /\ Fetches(2)
    /\ Fetched[1] = CR /\ Fetched[2] = LF
    /\ Returns(LF)
    /\ UNCHANGED look

GetchCR ==
    /\ Fetches(2)
    /\ Fetched[1] = CR /\ Fetched[2] # LF
    /\ look' = <<Fetched[2]>>
    /\ Returns(CR)

\* At the end of the file look_ahead is set to 13.
GetchLastCR ==
    /\ Fetches(1)
    /\ Fetched = <<CR>> /\ closed
    /\ look' = <<CR>>
    /\ Returns(CR)

GetchAtEnd ==
    /\ look = None /\ Fetched = <<>> /\ closed
    /\ result' = EOF
    /\ told' = "nothing"
    /\ UNCHANGED <<written, input, closed, peek, look, delivered>>

Getch ==
    \/ GetchLookAhead
    \/ GetchByte
    \/ GetchCRLF
    \/ GetchCR
    \/ GetchLastCR
    \/ GetchAtEnd

Next ==
    \/ \E c \in Byte : Write(c)
    \/ Close
    \/ Kbhit
    \/ Getch

Spec == Init /\ [][Next]_vars

\* The guest goes on reading; pselect6 and the writer may stop.
FairSpec == Spec /\ WF_vars(Getch)

-----------------------------------------------------------------------------
(***************************************************************************)
(* Properties.                                                             *)
(***************************************************************************)

\* s without what is at some places.
Without(s, places) ==
    LET upTo[n \in 0..Len(s)] ==
            IF n = 0 THEN <<>>
            ELSE IF n \in places THEN upTo[n - 1] ELSE Append(upTo[n - 1], s[n])
    IN  upTo[Len(s)]

Plain == Other \ {ByteFF}
PlainBytes(s) == Without(s, {i \in 1..Len(s) : s[i] \notin Plain})

\* No byte but CR, LF and 0xff is lost, doubled or overtaken, whatever checks
\* and reads the guest mixes: what was delivered and then what look_ahead, the
\* byte of portable_kbhit and the file hold is what was written
\* (djl_con.hxx:642-651, 674-696).
EveryByteIsSomewhere ==
    /\ TypeOK
    /\ PlainBytes(delivered) \o PlainBytes(look) \o PlainBytes(peek) \o PlainBytes(input)
           = PlainBytes(written)

\* What a file is as text: each CR before an LF is skipped, and so is 0xff,
\* which a host with signed chars takes for EOF.
Skipped(s, i) ==
    \/ s[i] = CR /\ i < Len(s) /\ s[i + 1] = LF
    \/ s[i] = ByteFF /\ SignedChar

Text(s) ==
    Without([i \in 1..Len(s) |-> IF s[i] = CR /\ ICRNL THEN LF ELSE s[i]],
            {i \in 1..Len(s) : Skipped(s, i)})

\* The CRs redirected_getch makes something else of: one after a CR is
\* returned without a look at the next byte, and the last byte of a file twice.
OddCR(s) == \E i \in 1..Len(s) : s[i] = CR /\ (i = Len(s) \/ s[i + 1] = CR)

AtEnd == closed /\ look = None /\ Fetched = <<>>

\* "for files with CR/LF, skip the CR" (djl_con.hxx:696): the guest that read
\* to the end has got the text, whatever it checked in between, with each other
\* CR and nothing else.
DeliversTheText == AtEnd /\ ~OddCR(written) => delivered = Text(written)

TakesFF == LET ahead == look \o Fetched IN ahead # <<>> /\ Head(ahead) = ByteFF

\* After pselect6 said that a byte is ready, a read that returns does not say
\* that the input is at its end, unless it took 0xff for it
\* (djl_con.hxx:642-653, sparcos.cxx:3106-3112).
ReadyMeansByte ==
    [][told = "ready" /\ Getch => result' # EOF \/ TakesFF]_vars

\* "returns exactly that byte next rather than a different (or no) one"
\* (djl_con.hxx:640): a read after a check returns the byte the check fetched,
\* if it is neither CR, LF nor 0xff.
ReturnsThatByte == [][\A c \in Plain : peek = <<c>> /\ Getch => result' = c]_vars

\* A guest that goes on reading a file that has an end gets all of it and is
\* told so, whatever the two kept bytes were.
ReadsToTheEnd == closed ~> (AtEnd /\ result = EOF)

=============================================================================
