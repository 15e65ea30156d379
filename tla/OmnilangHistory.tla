-------------------------- MODULE OmnilangHistory --------------------------
(***************************************************************************)
(* Omnilang with two parses remembered: the last one that returned, and    *)
(* one from any time before.                                               *)
(***************************************************************************)
EXTENDS Omnilang

VARIABLES
  last,       \* the last parse that returned
  witness     \* this one, or an earlier one

historyVars == <<last, witness>>

\* A parse: what it read of its code, whether that was all of it, and what the
\* script can tell of the outcome.
Parse(code, whole, outcome, error) ==
  [code |-> code, whole |-> whole, outcome |-> outcome, error |-> error]

HInit ==
  /\ Init
  /\ last = Parse(<<>>, FALSE, Nothing, NoMessage)
  /\ witness = last

\* The end of yyparse.
Remember ==
  /\ last' = Parse(read, lookahead.symbol \in EndTokens, result',
                   IF has_error' THEN error_string' ELSE NoMessage)
  /\ witness' \in {witness, last'}

HNext ==
  /\ Next
  /\ IF Parsing /\ result' # Pending THEN Remember ELSE UNCHANGED historyVars

HSpec == HInit /\ [][HNext]_<<vars, historyVars>>

-----------------------------------------------------------------------------
\* Whatever was parsed in between, and whether it failed in the middle of a
\* string or of a PHP block, the same code gives the same tree, or the same
\* error: nothing of an earlier parse is left in the lexer's start condition, in
\* has_error or in ast_root.
Repeatable ==
  last.code = witness.code /\ last.whole = witness.whole => last = witness

\* omnilang_get_error returns a string if and only if the last parse failed.
ErrorOfLastParse ==
  /\ result.kind = "string" => last.outcome = False
  /\ result.kind = "null" => last.outcome.kind \in {"nothing", "tree"}

=============================================================================
