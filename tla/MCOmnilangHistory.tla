------------------------ MODULE MCOmnilangHistory ------------------------
(* An instance of OmnilangHistory for TLC: short codes, parsed one after   *)
(* the other, that may end in the middle of a string or of a PHP block.    *)
EXTENDS OmnilangHistory, OmnilangTrees

Pieces == {"VARIABLE", "SEMICOLON", "single_quote", "php_open", "php_close", "unknown"}

LongestCode == 2

IsShort(code) == Len(code) <= LongestCode

=============================================================================
