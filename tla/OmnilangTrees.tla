---------------------------- MODULE OmnilangTrees ----------------------------
(***************************************************************************)
(* The trees that Omnilang builds: the constants of that module as         *)
(* parser.y and bison define them, and what is promised of the trees, of   *)
(* the tables that lead to them, and of the messages where there is none.  *)
(***************************************************************************)
EXTENDS OmnilangShapes, Lalr

\* The state in which the code has been accepted.
Final == Goto[Goto[Start]["root"]]["$end"]

\* The grammar and its tables, by names that TLC looks up and does not compute again.
ParserRules  == Productions
ParserTables == Tables
ParserFinal  == Final

\* The array that a node becomes for the script, and its children with it.
RECURSIVE process_node(_)
process_node(node) ==
  [type |-> node.type, original |-> node.original, data |-> PhpData(node.data),
   children |-> [i \in DOMAIN node.children |-> process_node(node.children[i])]]

-----------------------------------------------------------------------------
(* Properties.                                                             *)

\* "%expect 0": in no state that the parser gets to does a token leave it a
\* choice that the declarations of precedence do not make.
NoConflicts ==
  \A token \in Tokens :
    /\ Cardinality(Entries.reduce[token]) <= 1
    /\ Entries.reduce[token] # {} => token \notin Entries.shift

\* Would the parser, with s on its stack, get to shift the token?
RECURSIVE WillShift(_, _)
WillShift(s, symbol) ==
  LET r == Decision(yytable[Top(s)], symbol)
  IN  \/ symbol \in yytable[Top(s)].shift
      \/ r # NoRule /\ WillShift(Reduction(s, r), symbol)

\* Each token that a message says was expected would really have been taken,
\* although the tables merge states and the list is made after reductions by
\* default.
ExpectationsAreReal ==
  Parsing /\ lookahead # None /\ Decision(Entries, lookahead.symbol) = NoRule =>
    \A symbol \in yysyntax_error(Entries, lookahead.symbol).expected : WillShift(stack, symbol)

\* A newline between the mapping of foreach and its brace.
AfterMapping(i) ==
  LET before == SelectSeq(SubSeq(read, 1, i - 1), LAMBDA l : l # "comment")
      n      == Len(before)
  IN  /\ read[i] \in {"WHITESPACE", "TERMINATING_NEWLINE"}
      /\ n > 2
      /\ SubSeq(before, n - 1, n) = <<"DOLLAR", "VARIABLE">>
      /\ \E j \in DOMAIN before :
           before[j] = "KEYWORD_AS" /\ "BEGIN_BRACE" \notin ToSet(SubSeq(before, j, n))

\* All of what was read is in the text, once and in order, but for comments
\* and the newline that the rules for mappings leave out.
Complements(text) ==
  /\ \A i, j \in DOMAIN text : i < j => text[i] < text[j]
  /\ \A i \in DOMAIN read \ ToSet(text) : read[i] = "comment" \/ AfterMapping(i)

\* The text that the tree keeps as "original" is the code: what a node spells
\* is a piece of what the whole tree spells, and the symbols on the stack spell
\* together what has been read.
Inside(text, whole) ==
  \E i \in 0..(Len(whole) - Len(text)) : SubSeq(whole, i + 1, i + Len(text)) = text

OriginalsAreTheCode ==
  /\ \A tree \in Trees : \A n \in Nodes({tree}) : Inside(n.original, tree.original)
  /\ Parsing /\ lookahead = None /\ mode = "INITIAL" =>
       Complements(FlattenSeq([i \in DOMAIN stack |-> stack[i].value.original]))
  /\ result.kind = "tree" /\ read # <<>> => Complements(result.tree.original)

=============================================================================
