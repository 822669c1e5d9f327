------------------------------ MODULE Terminal ------------------------------
(***************************************************************************)
(* The settings of the terminal: those of the host, the copy the emulator  *)
(* keeps for its own reads (g_termios), and the guest's structure that     *)
(* ioctl fills and reads.  From sparcos.cxx: the ioctls TCGETS and TCSETS  *)
(* and their kind, and the maps between the control characters of Linux on *)
(* SPARC and of Linux; from djl_con.hxx: saving and restoring the terminal.*)
(*                                                                         *)
(* Of the mode flags the two that matter to reads are kept, and what the   *)
(* same bits are with the bytes of the word in the other order.            *)
(***************************************************************************)
EXTENDS Integers

CONSTANTS
    Flag,       \* bound: the mode flags, "echo" among them
    Char,       \* bound: the values of a control character
    HostModes   \* bound: the settings the terminal can start with

\* The control characters that have a place of their own in one of the two
\* orders, and one that has the same place in both.
Slot == {0, 4, 5, 6, 11, 16}

Settings == [low : SUBSET Flag, high : SUBSET Flag, cc : [Slot -> Char]]

VARIABLES
    tty,           \* the standard descriptors that are the terminal
    host,          \* its settings
    original,      \* history: those it had when the emulator was started
    orig_termios, inputEstablished,   \* of ConsoleConfiguration
    g_termios,
    buffer,        \* the guest's structure, its flags as the guest reads them
    phase,         \* of the emulator
    asked,         \* history: the settings the guest last set
    refused,       \* history: the host has not done the last change
    fresh          \* history: the buffer is what TCGETS last put there

vars == <<tty, host, original, orig_termios, inputEstablished, g_termios, buffer, phase, asked, refused, fresh>>
console == <<orig_termios, inputEstablished>>
history == <<asked, refused, fresh>>

Zero == [low |-> {}, high |-> {}, cc |-> [s \in Slot |-> 0]]

Init ==
    /\ tty \in SUBSET {0, 1, 2}
    /\ host \in HostModes /\ original = host
    /\ orig_termios = Zero /\ inputEstablished = FALSE
    /\ g_termios = Zero /\ buffer = Zero
    /\ phase = "starting"
    /\ asked = {} /\ refused = FALSE /\ fresh = FALSE

-----------------------------------------------------------------------------
(* Settings *)

swap_endianness(s) == [s EXCEPT !.low = s.high, !.high = s.low]

\* Mutant of map_c_cc_sparc_to_linux: the order is taken to be the same.
MapsNothing(cc) == cc

\* Places 4 and 5 hold two characters each.
map_c_cc_sparc_to_linux(cc) == [cc EXCEPT ![6] = cc[4], ![11] = cc[5], ![16] = cc[6]]

map_c_cc_linux_to_sparc(cc) == [cc EXCEPT ![4] = cc[6], ![6] = cc[16]]

-----------------------------------------------------------------------------
(* The emulator's start and end *)

\* g_consoleConfig is constructed, then main initializes g_termios from the
\* first of the standard descriptors that is a terminal.
Start ==
    /\ phase = "starting" /\ phase' = "running"
    /\ inputEstablished' = (0 \in tty)
    /\ orig_termios' = IF 0 \in tty THEN host ELSE orig_termios
    /\ g_termios' = IF tty # {} THEN host ELSE g_termios
    /\ UNCHANGED <<tty, host, original, buffer, history>>

\* Mutant of Restored: only what read() goes by is undone.
RestoresFlags == [host EXCEPT !.low = orig_termios.low, !.high = orig_termios.high]

Restored == orig_termios

\* main returns, or usage or emulator_hard_termination exits: RestoreConsole.
\* Nothing looks at whether the host has done it.
End ==
    /\ phase = "running" /\ phase' = "over"
    /\ inputEstablished' = FALSE
    /\ \E done \in BOOLEAN :
          /\ host' = IF inputEstablished /\ done THEN Restored ELSE host
          /\ refused' = ~done
    /\ UNCHANGED <<tty, original, orig_termios, g_termios, buffer, asked, fresh>>

-----------------------------------------------------------------------------
(* The guest *)

\* The guest writes a structure of its own, or changes some of one.
GuestWrites ==
    /\ phase = "running"
    /\ \E low \in SUBSET Flag, places \in {{}, {4}, {5, 6}}, c \in Char :
          buffer' = [low |-> low, high |-> {},
                     cc |-> [s \in Slot |-> IF s \in places THEN c ELSE buffer.cc[s]]]
    /\ fresh' = FALSE
    /\ UNCHANGED <<tty, host, original, console, g_termios, phase, asked, refused>>

\* Mutant of Queried: the copy is not brought up to date.
KeepsItsCopy == g_termios

Queried == host

\* The copy is made before the characters are put in the guest's order.
TCGETS(fd) ==
    /\ phase = "running" /\ fd \in tty
    /\ g_termios' = Queried
    /\ buffer' = [host EXCEPT !.cc = map_c_cc_linux_to_sparc(host.cc)]
    /\ refused' = FALSE /\ fresh' = TRUE
    /\ UNCHANGED <<tty, host, original, console, phase, asked>>

Swapped == buffer

\* The bytes are put in the host's order in the guest's own memory and stay
\* so; the copy is made before the host is asked, which may refuse.
TCSETS(fd) ==
    /\ phase = "running" /\ fd \in tty
    /\ g_termios' = Swapped
    /\ \E done \in BOOLEAN :
          /\ host' = IF done THEN [buffer EXCEPT !.cc = map_c_cc_sparc_to_linux(buffer.cc)]
                             ELSE host
          /\ asked' = IF done THEN {buffer} ELSE asked
          /\ refused' = ~done
    /\ buffer' = swap_endianness(buffer)
    /\ fresh' = FALSE
    /\ UNCHANGED <<tty, original, console, phase>>

Next == Start \/ End \/ GuestWrites \/ \E fd \in 0..2 : TCGETS(fd) \/ TCSETS(fd)

Spec == Init /\ [][Next]_vars

-----------------------------------------------------------------------------
(***************************************************************************)
(* Properties.                                                             *)
(***************************************************************************)

\* Every variable has the values it is meant to have; the settings of
\* stdin are kept for as long as they are to be restored.
TypeOK ==
    /\ tty \subseteq {0, 1, 2}
    /\ {host, original, orig_termios, g_termios, buffer} \cup asked \subseteq Settings
    /\ {inputEstablished, refused, fresh} \subseteq BOOLEAN
    /\ inputEstablished => phase = "running"
    /\ phase \in {"starting", "running", "over"}

\* What read() goes by, the flags in g_termios, is what the terminal is set
\* to, but for the time after the host refused a change that the copy has
\* already (sparcos.cxx:5563, 5582, 5608; read at 3115-3121).
CopyIsInStep ==
    /\ TypeOK
    /\ phase = "running" /\ tty # {} /\ ~refused =>
           g_termios.low = host.low /\ g_termios.high = host.high

\* A program that set the terminal and reads the settings again finds those
\* it set, though three of the control characters move to other places and
\* back (sparcos.cxx:1479-1524).
ReadsBackWhatItSet ==
    [][\A fd \in 0..2, set \in asked : TCGETS(fd) =>
           buffer'.low = set.low /\ \A s \in {0, 4, 5, 6} : buffer'.cc[s] = set.cc[s]]_vars

\* A terminal on stdin is left as it was found, whatever the program set and
\* by whichever of the three descriptors (djl_con.hxx:447, 541-553).
TerminalIsRestored ==
    phase = "over" /\ 0 \in tty /\ ~refused => host = original

\* The end of file's character is in place 4 in both orders, says the table of
\* control characters (sparcos.cxx:1456), if also the minimum of a read is
\* in SPARC's: a program that sets what it got leaves the terminal as it was.
UnchangedSettingsStay ==
    [][\A fd \in 0..2 : TCSETS(fd) /\ fresh => host' = host]_vars
=============================================================================
