----------------------------- MODULE MCTerminal -----------------------------
(* TerminalHistory for TLC: a shell and a program that it starts.          *)
EXTENDS TerminalHistory

CONSTANTS shell, program

\* One value that a field cannot hold.
SomeLongs == {0, 1, 2}

=============================================================================
