----------------------------- MODULE MCEditline -----------------------------
(* An instance of Editline for TLC.                                        *)
EXTENDS Editline

CONSTANTS a, newline, eof, nul, zero

\* A word, a line as editline_read returns it, and a string with a byte of zero.
SomeTexts == {<<a>>, <<a, newline>>, <<a, nul>>}

\* None to complete with, one, and one too many.
SomeCompletions == {<<>>, <<<<a, nul>>>>, <<<<a, newline>>>>, <<<<a>>, <<a>>>>}

=============================================================================
