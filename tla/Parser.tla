------------------------------- MODULE Parser -------------------------------
(***************************************************************************)
(* What the lexer, the grammar and the parser have in common: the values   *)
(* of symbols, how the actions of rules build them, and the numbers of     *)
(* rules that mean something else.                                         *)
(*                                                                         *)
(* The value of a symbol is a node of the syntax tree (ast.h) or a token,  *)
(* both [type, data, children, original].  Text is a sequence of places in *)
(* the code.  data.kind is "none", "string" or "number", with the text of  *)
(* it, or a string that the grammar itself supplies ("foreground", "-").   *)
(***************************************************************************)
EXTENDS Naturals, Sequences, SequencesExt

Data(kind, text) == [kind |-> kind, text |-> text]

\* ast_node_create
Node(type) ==
  [type |-> type, data |-> Data("none", <<>>), children |-> <<>>, original |-> <<>>]

\* The value of an empty statement.
Null == Node("NULL")

-----------------------------------------------------------------------------
(* An action.  base: 0 to create a node of the type, i to work on that of  *)
(* $i.  kind: the data to set, its text from $text.  kids: what to append. *)
(* spells: for a child, the symbol whose text is its original.  What is    *)
(* appended is an action too, and so is what that appends, a last time.    *)

\* A child that is not appended if it is NULL.
Absent(kid, v) == kid.type = "optional" /\ v[kid.base] = Null

\* Mutated: NULL is appended.
Kids_with_null(do, v) == do.kids

\* What the action appends.  An optional child is the only one.
Kids(do, v) == IF \E k \in DOMAIN do.kids : Absent(do.kids[k], v) THEN <<>> ELSE do.kids

\* The node that an action works on, with these children appended.
Worked(do, v, kids) ==
  LET base == IF do.base = 0 THEN Node(do.type) ELSE v[do.base]
  IN  [type     |-> base.type,
       data     |-> IF do.kind = "none" THEN base.data
                    ELSE Data(do.kind, IF do.text = 0 THEN <<>> ELSE v[do.text].data.text),
       children |-> base.children \o kids,
       original |-> IF do.spells = 0 THEN base.original
                    ELSE base.original \o v[do.spells].original]

Grandkid(do, v) == Worked(do, v, <<>>)

Kid(do, v) == Worked(do, v, [k \in DOMAIN do.kids |-> Grandkid(do.kids[k], v)])

\* The node that an action makes of the values v.
Built(do, v) == Worked(do, v, [k \in DOMAIN Kids(do, v) |-> Kid(Kids(do, v)[k], v)])

\* The value of a rule's left side, for the values v of the right one: the text
\* of the symbols after the base, whose own text is there, is appended.
Reduced(rule, v) ==
  LET spelled == SubSeq(v, rule.do.base + 1, rule.spelled)
  IN  [Built(rule.do, v) EXCEPT
         !.original = @ \o FlattenSeq([k \in DOMAIN spelled |-> spelled[k].original])]

-----------------------------------------------------------------------------
\* The keywords that may stand in the middle of a word.
Keywords ==
  <<"KEYWORD_IF", "KEYWORD_ELSE", "KEYWORD_WHILE", "KEYWORD_FOR", "KEYWORD_FOREACH",
    "KEYWORD_DO", "KEYWORD_BREAK", "KEYWORD_CONTINUE", "KEYWORD_AS">>

\* The rule that bison adds, $accept: root $end.
Accepting == 0

\* No rule: to reduce it would be an error.
NoRule == 0

=============================================================================
