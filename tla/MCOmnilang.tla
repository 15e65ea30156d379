---------------------------- MODULE MCOmnilang ----------------------------
(* Instances of Omnilang for TLC: the codes that are parsed.               *)
EXTENDS OmnilangTrees

Beginnings(codes) ==
  UNION {{SubSeq(code, 1, n) : n \in 0..Len(code)} : code \in codes}

\* A block of statements, and words in it.
v == <<"DOLLAR", "VARIABLE">>

\* Keywords in the middle of a word, with quotes between them.
Joined ==
  <<"VARIABLE">> \o
  FlattenSeq([k \in DOMAIN Keywords |-> <<"double_quote", "double_quote", Keywords[k]>>])

Sentences ==
  { <<"VARIABLE", "WHITESPACE", "FRAGMENT", "PIPE", "VARIABLE", "AMPERSAND", "comment", "VARIABLE">>,
    <<"KEYWORD_IF", "WHITESPACE">> \o v \o <<"TERMINATING_NEWLINE", "BEGIN_BRACE", "VARIABLE", "END_BRACE",
      "KEYWORD_ELSE", "BEGIN_BRACE", "END_BRACE", "SEMICOLON">>,
    <<"KEYWORD_WHILE", "WHITESPACE">> \o v \o <<"BEGIN_BRACE", "VARIABLE", "SEMICOLON", "VARIABLE", "END_BRACE">>,
    <<"KEYWORD_DO", "BEGIN_BRACE", "TERMINATING_NEWLINE", "VARIABLE", "TERMINATING_NEWLINE", "END_BRACE",
      "KEYWORD_WHILE", "WHITESPACE">> \o v,
    <<"KEYWORD_FOREACH", "WHITESPACE">> \o v \o <<"WHITESPACE", "KEYWORD_AS", "WHITESPACE">> \o v
      \o <<"MAP">> \o v \o <<"TERMINATING_NEWLINE", "BEGIN_BRACE", "VARIABLE", "END_BRACE">>,
    <<"KEYWORD_FOREACH", "WHITESPACE">> \o v \o <<"WHITESPACE", "KEYWORD_AS", "WHITESPACE">> \o v
      \o <<"TERMINATING_NEWLINE", "BEGIN_BRACE", "END_BRACE">>,
    <<"KEYWORD_RETURN", "WHITESPACE", "BEGIN_PAREN">> \o v \o <<"END_PAREN">>,
    v \o <<"EQUALS", "single_quote", "WHITESPACE", "double_quote", "single_quote", "KEYWORD_IF">>,
    Joined,
    <<"COLON", "BEGIN_PAREN", "END_PAREN", "MAP", "BEGIN_BRACE", "END_BRACE">>,
    v \o <<"EQUALS", "BEGIN_PAREN", "END_PAREN", "MAP", "BEGIN_BRACE", "VARIABLE", "END_BRACE">>,
    <<"COLON">> \o v \o <<"EQUALS", "double_quote", "comment", "double_quote">>,
    <<"COLON">> \o v \o <<"EQUALS", "double_quote", "double_quote", "NUMBER", "MINUS">>,
    <<"COLON">> \o v \o <<"ACCESS", "VARIABLE", "ACCESS", "VARIABLE", "EQUALS">> \o v,
    <<"COLON">> \o v \o <<"ACCESS", "BEGIN_SQUARE", "END_SQUARE", "EQUALS", "DOLLAR", "QUESTION_MARK">>,
    <<"COLON", "VARIABLE", "ACCESS", "VARIABLE", "BEGIN_PAREN", "VARIABLE", "COMMA", "DOLLAR", "NUMBER", "END_PAREN">>,
    <<"COLON", "VARIABLE", "BEGIN_PAREN", "END_PAREN", "ADD", "NUMBER", "WHITESPACE", "MINUS", "NUMBER", "DIVIDE", "NUMBER", "MULTIPLY", "NUMBER">>,
    <<"DOLLAR", "BEGIN_PAREN", "VARIABLE", "WHITESPACE", "VARIABLE", "END_PAREN", "php_open", "TERMINATING_NEWLINE", "single_quote", "php_close">>,
    <<"DOLLAR", "BEGIN_SQUARE", "VARIABLE", "EQUALS", "VARIABLE", "COMMA", "QUESTION_MARK", "COMMA", "VARIABLE",
      "EQUALS", "NUMBER", "END_SQUARE", "BEGIN_PAREN", "VARIABLE", "END_PAREN">>,
    <<"DOLLAR", "BEGIN_SQUARE", "FRAGMENT", "END_SQUARE", "BEGIN_PAREN", "VARIABLE", "END_PAREN">>,
    <<"AT", "BEGIN_PAREN", "TERMINATING_NEWLINE", "END_PAREN">>,
    <<"AT", "BEGIN_PAREN", "VARIABLE", "MAP", "NUMBER", "COMMA", "VARIABLE", "TERMINATING_NEWLINE", "COMMA", "TERMINATING_NEWLINE", "END_PAREN">>,
    <<"AT", "BEGIN_PAREN", "NUMBER", "END_PAREN", "CONTINUING_NEWLINE">>,
    <<"VARIABLE", "unknown">>, <<"PERCENT">>, <<"VARIABLE", "QUESTION_MARK", "unknown">> }

SentenceLexemes == UNION {ToSet(code) : code \in Sentences}

SentenceBeginnings == Beginnings(Sentences)

\* The beginnings of these sentences, with any few lexemes after them.
Continued == 2

IsCode(code) ==
  \E n \in (Len(code) - Min({Len(code), Continued}))..Len(code) :
    SubSeq(code, 1, n) \in SentenceBeginnings

\* Operators, in all orders.
OperatorLexemes ==
  {"COLON", "NUMBER", "WHITESPACE", "MINUS", "ADD", "MULTIPLY", "DIVIDE", "ACCESS",
   "BEGIN_PAREN", "END_PAREN", "EQUALS"}

LongestExpression == 8

IsExpression(code) ==
  /\ Len(code) <= LongestExpression
  /\ code # <<>> => code[1] = "COLON"

\* One parse (module OmnilangHistory is about several), which runs until it
\* returns.
FirstParse ==
  /\ Init
  /\ [][Next /\ (omnilang_parse => result = Nothing)]_vars
  /\ WF_vars(yyparse)

=============================================================================
