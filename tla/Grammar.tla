------------------------------ MODULE Grammar ------------------------------
(***************************************************************************)
(* The rules of omnilang/parser.y: for each its symbols, and what its      *)
(* action makes of their values.                                           *)
(***************************************************************************)
EXTENDS Parser

-----------------------------------------------------------------------------
(* Actions, as module Parser describes them.                               *)

Holding(type, kind, text, kids) ==
  [base |-> 0, type |-> type, kind |-> kind, text |-> text, kids |-> kids, spells |-> 0]

New(type, kids)   == Holding(type, "none", 0, kids)
Leaf(type, i)     == Holding(type, "string", i, <<>>)
Marked(i, kind, kids) == [Holding("", kind, 0, kids) EXCEPT !.base = i]
Extend(kids)      == Marked(1, "none", kids)
Child(i)          == Marked(i, "none", <<>>)
Pass              == Child(1)

\* The action appends $i only if it is not NULL.
Optional(i) == [Child(i) EXCEPT !.type = "optional"]

\* A rule whose action appends the text of its first n symbols.
RuleSpelling(n, lhs, rhs, do) == [lhs |-> lhs, rhs |-> rhs, do |-> do, spelled |-> n]

\* A rule whose action appends the text of every symbol, in order.
Rule(lhs, rhs, do) == RuleSpelling(Len(rhs), lhs, rhs, do)

-----------------------------------------------------------------------------
ow == "optional_whitespace"

RootRules ==
  << Rule("root", <<"statements">>, Pass),
     Rule("statements", <<"statement">>, New("statements", <<Optional(1)>>)),
     Rule("statements", <<"statements", "terminator", "statement">>, Extend(<<Optional(3)>>)),
     Rule("terminator", <<"TERMINATING_NEWLINE">>, Pass),
     Rule("terminator", <<"SEMICOLON">>, Pass),
     Rule(ow, <<>>, New("token", <<>>)),
     Rule(ow, <<"WHITESPACE">>, New("token", <<>>)),
     Rule(ow, <<"TERMINATING_NEWLINE">>, New("token", <<>>)) >>

StatementRules ==
  << Rule("statement", <<"pipeline", "AMPERSAND">>, Marked(1, "background", <<>>)),
     Rule("statement", <<"pipeline">>, Marked(1, "foreground", <<>>)),
     Rule("statement", <<"assignment">>, Pass),
     Rule("statement", <<"COLON", "expression">>, New("expression", <<Child(2)>>)),
     Rule("statement",
          <<"KEYWORD_IF", ow, "fragment", ow, "BEGIN_BRACE", "statements", "END_BRACE",
            "KEYWORD_ELSE", "BEGIN_BRACE", "statements", "END_BRACE">>,
          New("if", <<Child(3), Child(6), Child(10)>>)),
     Rule("statement",
          <<"KEYWORD_IF", ow, "fragment", ow, "BEGIN_BRACE", "statements", "END_BRACE">>,
          New("if", <<Child(3), Child(6)>>)),
     Rule("statement",
          <<"KEYWORD_WHILE", ow, "fragment", ow, "BEGIN_BRACE", "statements", "END_BRACE">>,
          New("while", <<Child(3), Child(6)>>)),
     Rule("statement",
          <<"KEYWORD_DO", ow, "BEGIN_BRACE", "statements", "END_BRACE",
            "KEYWORD_WHILE", ow, "fragment">>,
          New("do", <<Child(8), Child(4)>>)),
     Rule("statement",
          <<"KEYWORD_FOREACH", ow, "fragment", ow, "KEYWORD_AS", ow, "mapping",
            "BEGIN_BRACE", "statements", "END_BRACE">>,
          New("foreach", <<Child(3), Child(7), Child(9)>>)),
     Rule("statement", <<"KEYWORD_RETURN", "WHITESPACE", "expression">>,
          New("return", <<Child(3)>>)),
     Rule("statement", <<>>, New("NULL", <<>>)) >>

\* Mutated: the second name of a mapping is left out of its text.
MappingRules_to_the_dollar ==
  << RuleSpelling(6, "mapping",
       <<"DOLLAR", "VARIABLE", ow, "MAP", ow, "DOLLAR", "VARIABLE", ow>>,
       New("key_value", <<Leaf("fragment", 2), Leaf("fragment", 7)>>)),
     RuleSpelling(2, "mapping", <<"DOLLAR", "VARIABLE", ow>>,
       New("key_value", <<Leaf("fragment", 2)>>)) >>

MappingRules ==
  << RuleSpelling(7, "mapping",
       <<"DOLLAR", "VARIABLE", ow, "MAP", ow, "DOLLAR", "VARIABLE", ow>>,
       New("key_value", <<Leaf("fragment", 2), Leaf("fragment", 7)>>)),
     RuleSpelling(2, "mapping", <<"DOLLAR", "VARIABLE", ow>>,
       New("key_value", <<Leaf("fragment", 2)>>)) >>

Assigned == "fragments_or_function_declaration"

AssignmentRules ==
  << Rule(Assigned, <<"fragments">>, Pass),
     Rule(Assigned, <<"function_declaration">>, Pass),
     Rule("assignment", <<"DOLLAR", "VARIABLE", "EQUALS", Assigned>>,
          New("assignment", <<Leaf("variable", 2), Child(4)>>)),
     Rule("assignment", <<"COLON", "DOLLAR", "VARIABLE", "EQUALS", Assigned>>,
          New("assignment", <<Leaf("variable", 3), Child(5)>>)),
     Rule("assignment", <<"COLON", "expression", "ACCESS", "expression", "EQUALS", Assigned>>,
          Holding("access", "assign", 0, <<Child(2), Child(4), Child(6)>>)),
     Rule("assignment",
          <<"COLON", "expression", "ACCESS", "BEGIN_SQUARE", "END_SQUARE", "EQUALS", Assigned>>,
          Holding("access", "assign", 0,
                  <<Child(2), Holding("fragment", "[]", 0, <<>>), Child(7)>>)) >>

PipelineRules ==
  << Rule("pipeline", <<"instruction">>, New("pipeline", <<Child(1)>>)),
     Rule("pipeline", <<"pipeline", "PIPE", "instruction">>, Extend(<<Child(3)>>)),
     Rule("instruction", <<"command">>, New("command", <<Child(1)>>)) >>

\* A key with a value, or without one.
KeyValue(name, kids) == Holding("key_value", "string", name, kids)

KeyValuesRules ==
  << Rule("key_values", <<"key_name">>, New("key_values", <<KeyValue(1, <<>>)>>)),
     Rule("key_values", <<"key_name", "EQUALS", "fragment">>,
          New("key_values", <<KeyValue(1, <<Child(3)>>)>>)),
     Rule("key_values", <<"key_values", "COMMA", "key_name", "EQUALS", "fragment">>,
          Extend(<<KeyValue(3, <<Child(5)>>)>>)),
     Rule("key_values", <<"key_values", "COMMA", "key_name">>,
          Extend(<<KeyValue(3, <<>>)>>)),
     Rule("key_name", <<"fragment_or_variable">>, Pass),
     Rule("key_name", <<"QUESTION_MARK">>, Pass) >>

ArgumentsRules ==
  << Rule("command", <<"arguments">>, Pass),
     Rule("arguments", <<"fragments">>, New("arguments", <<Child(1)>>)),
     Rule("arguments", <<"arguments", "WHITESPACE", "fragments">>, Extend(<<Child(3)>>)),
     Rule("fragments", <<"fragment">>, New("fragments", <<Child(1)>>)),
     Rule("fragments", <<"fragments", "fragment">>, Extend(<<Child(2)>>)),
     Rule("fragments", <<"fragments", "keyword_as_string">>,
          Extend(<<[Leaf("fragment", 2) EXCEPT !.spells = 2]>>)) >>

\* A pipeline run for its output, with options.
Captured(i, options) == Marked(i, "expression", <<options>>)

FragmentRules ==
  << Rule("fragment", <<"fragment_or_variable">>, Leaf("fragment", 1)),
     Rule("fragment", <<"number">>, Pass),
     Rule("fragment", <<"MINUS">>, Holding("fragment", "-", 0, <<>>)),
     Rule("fragment", <<"PHP">>, Leaf("php", 1)),
     Rule("fragment", <<"SINGLE_QUOTED">>, Leaf("single_quoted", 1)),
     Rule("fragment", <<"DOUBLE_QUOTED">>, Leaf("double_quoted", 1)),
     Rule("fragment", <<"DOLLAR", "VARIABLE">>, Leaf("variable", 2)),
     Rule("fragment", <<"DOLLAR", "NUMBER">>, Holding("variable", "number", 2, <<>>)),
     Rule("fragment", <<"DOLLAR", "QUESTION_MARK">>, Leaf("variable", 2)),
     Rule("fragment", <<"DOLLAR", "BEGIN_PAREN", "pipeline", "END_PAREN">>,
          New("expression", <<Captured(3, New("key_values", <<>>))>>)),
     Rule("fragment",
          <<"DOLLAR", "BEGIN_SQUARE", "key_values", "END_SQUARE",
            "BEGIN_PAREN", "pipeline", "END_PAREN">>,
          New("expression", <<Captured(6, Child(3))>>)),
     Rule("fragment", <<"BEGIN_PAREN", "expression", "END_PAREN">>,
          New("expression", <<Child(2)>>)),
     Rule("fragment", <<"array_decl">>, Pass) >>

ArrayRules ==
  << Rule("array_decl", <<"AT", "BEGIN_PAREN", ow, "END_PAREN">>, New("array_decl", <<>>)),
     Rule("array_decl", <<"AT", "BEGIN_PAREN", "array_def", "END_PAREN">>,
          New("array_decl", <<Child(3)>>)),
     Rule("array_decl", <<"AT", "BEGIN_PAREN", "array_def", "COMMA", ow, "END_PAREN">>,
          New("array_decl", <<Child(3)>>)),
     Rule("array_def", <<"array_element">>, New("array_def", <<Child(1)>>)),
     Rule("array_def", <<"array_def", "COMMA", "array_element">>, Extend(<<Child(3)>>)),
     Rule("array_element", <<ow, "fragment", ow, "MAP", ow, "fragment", ow>>,
          New("array_element", <<Child(2), Child(6)>>)),
     Rule("array_element", <<ow, "fragment", ow>>, New("array_element", <<Child(2)>>)) >>

\* Mutated: a word may begin with a keyword.
WordRules_with_keywords ==
  << Rule("number", <<"NUMBER">>, Holding("number", "number", 1, <<>>)) >>
  \o [k \in DOMAIN Keywords |-> Rule("keyword_as_string", <<Keywords[k]>>, Pass)]
  \o << Rule("fragment_or_variable", <<"FRAGMENT">>, Pass),
        Rule("fragment_or_variable", <<"VARIABLE">>, Pass),
        Rule("fragment_or_variable", <<"keyword_as_string">>, Pass) >>

WordRules ==
  << Rule("number", <<"NUMBER">>, Holding("number", "number", 1, <<>>)) >>
  \o [k \in DOMAIN Keywords |-> Rule("keyword_as_string", <<Keywords[k]>>, Pass)]
  \o << Rule("fragment_or_variable", <<"FRAGMENT">>, Pass),
        Rule("fragment_or_variable", <<"VARIABLE">>, Pass) >>

ExpressionRules ==
  << Rule("expression", <<"fragment">>, Pass),
     Rule("expression", <<"expression", "ACCESS", "expression">>,
          New("access", <<Child(1), Child(3)>>)),
     Rule("expression", <<"expression", "BEGIN_PAREN", "END_PAREN">>,
          New("invocation", <<Child(1), New("arguments", <<>>)>>)),
     Rule("expression", <<"expression", "BEGIN_PAREN", "comma_arguments", "END_PAREN">>,
          New("invocation", <<Child(1), Child(3)>>)),
     Rule("expression", <<"expression", "DIVIDE", "expression">>,
          New("divide", <<Child(1), Child(3)>>)),
     Rule("expression", <<"expression", "MULTIPLY", "expression">>,
          New("multiply", <<Child(1), Child(3)>>)),
     Rule("expression", <<"expression", "ADD", "expression">>,
          New("add", <<Child(1), Child(3)>>)),
     Rule("expression", <<"expression", "WHITESPACE", "MINUS", "expression">>,
          New("minus", <<Child(1), Child(4)>>)),
     Rule("expression", <<"function_declaration">>, Pass),
     Rule("function_declaration",
          <<"BEGIN_PAREN", "END_PAREN", "MAP", "BEGIN_BRACE", "statements", "END_BRACE">>,
          New("function", <<Child(5)>>)),
     Rule("comma_arguments", <<"fragments">>, New("arguments", <<Child(1)>>)),
     Rule("comma_arguments", <<"comma_arguments", "COMMA", "fragments">>,
          Extend(<<Child(3)>>)) >>

Rules ==
  RootRules \o StatementRules \o MappingRules \o AssignmentRules \o PipelineRules
  \o KeyValuesRules \o ArgumentsRules \o FragmentRules \o ArrayRules \o WordRules
  \o ExpressionRules

-----------------------------------------------------------------------------
\* The precedence declarations, from the loosest to the tightest, and those
\* of them that associate to the left; the others do not associate.
Levels ==
  << {"PIPE"}, {"AMPERSAND"}, {"WHITESPACE"}, {"COMMA"}, {"ADD", "MINUS"},
     {"MULTIPLY", "DIVIDE"}, {"BEGIN_PAREN"}, {"ACCESS"} >>

LeftAssociative == {"ADD", "MINUS", "MULTIPLY", "DIVIDE", "BEGIN_PAREN", "ACCESS"}

=============================================================================
