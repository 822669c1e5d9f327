----------------------------- MODULE MCConsole -----------------------------
(***************************************************************************)
(* The console: what is read from it (ConsoleInput) and the modes that     *)
(* the guest gives it (Terminal).  The modes are run on their own, with    *)
(* nothing read, on a small instance: a terminal as a shell leaves it, and *)
(* one that some other program has set.                                    *)
(***************************************************************************)
EXTENDS ConsoleInput

CONSTANTS Flag, Char, HostModes

VARIABLES
    tty, host, original, orig_termios, inputEstablished, g_termios,
    buffer, phase, asked, refused, fresh   \* of Terminal

Modes == INSTANCE Terminal

ASSUME SettingsAssumption == 0 \in Char /\ HostModes \subseteq Modes!Settings

ModesSpec == Init /\ Modes!Init /\ [][Modes!Next /\ UNCHANGED vars]_<<vars, Modes!vars>>

\* A character for the end of file, and one for the minimum that differs.
Places == {0, 4, 5, 6, 11, 16}
Shell == [low |-> {"echo"}, high |-> {}, cc |-> [s \in Places |-> IF s = 4 THEN 1 ELSE 0]]
Raw == [low |-> {}, high |-> {}, cc |-> [s \in Places |-> 1]]
MCHostModes == {Shell, Raw}

\* The properties of Terminal (see there).
CopyIsInStep == Modes!CopyIsInStep
TerminalIsRestored == Modes!TerminalIsRestored
ReadsBackWhatItSet == Modes!ReadsBackWhatItSet
UnchangedSettingsStay == Modes!UnchangedSettingsStay
=============================================================================
