------------------------------ MODULE Omnilang ------------------------------
(***************************************************************************)
(* The extension omnilang: omnilang_parse and omnilang_get_error, the      *)
(* lexer (lexer.l) and the parser (parser.y) below them, and the globals   *)
(* that outlive a parse.                                                   *)
(*                                                                         *)
(* The code that a script passes is a sequence of lexemes, the pieces that *)
(* a rule of the lexer matches: those for which a rule returns a token     *)
(* have the token's name.  It is chosen lexeme by lexeme as the lexer      *)
(* reads it: a state stands for all codes with this beginning.             *)
(*                                                                         *)
(* yyparse is bison's, the same for every grammar; the rules with their    *)
(* actions, the tables that bison computes from them, and the conversion   *)
(* of trees are constants here, and modules of their own (Grammar, Lalr,   *)
(* OmnilangTrees).                                                         *)
(***************************************************************************)
EXTENDS Parser, FiniteSets, FiniteSetsExt

CONSTANTS
  Lexemes,         \* the lexemes that codes are made of
  Readable(_),     \* the sequences that may begin a code
  yyrules,         \* the left side, the right side and the action of each rule
  yytable,         \* for each state its row of the tables
  State0, YYFINAL, \* the first state, and the one in which a code has been accepted
  Converted(_),    \* the array that process_node makes of a tree
  YYINITDEPTH,     \* the size of the parser's stack to begin with
  YYMAXDEPTH       \* what it may grow to

ASSUME DepthAssumption ==
  /\ YYINITDEPTH \in Nat \ {0, 1}
  /\ YYMAXDEPTH \in Nat

Symbols == UNION {ToSet(yyrules[r].rhs) \cup {yyrules[r].lhs} : r \in DOMAIN yyrules}

LeftSymbols == {yyrules[r].lhs : r \in DOMAIN yyrules}

\* Tokens that no rule of the grammar uses.
Unexpected == {"ERROR", "UNTERMINATED_LEXING_BLOCK", "PERCENT", "CONTINUING_NEWLINE"}

\* What yylex returns at the end of the code.
EndTokens == {"$end", "UNTERMINATED_LEXING_BLOCK"}

Terminals == (Symbols \ LeftSymbols) \cup Unexpected

\* Lexemes are named for their tokens, if they become one.
ASSUME LexemeAssumption ==
  /\ Lexemes \subseteq (Terminals \ EndTokens)
       \cup {"comment", "single_quote", "double_quote", "php_open", "php_close", "unknown"}
  /\ {"SINGLE_QUOTED", "DOUBLE_QUOTED", "PHP", "$end"} \subseteq Terminals
  /\ "none" \notin Symbols /\ Unexpected \cap Symbols = {}

\* The rules have numbers, of which the first is bison's own.
ASSUME RulesAssumption ==
  /\ "root" \in LeftSymbols
  /\ \A r \in DOMAIN yyrules : r \in Nat /\ yyrules[r].rhs \in Seq(Symbols)
  /\ Accepting \in DOMAIN yyrules /\ yyrules[Accepting].rhs = <<"root", "$end">>

\* A state is a set of items <<r, d>>: the first d symbols of rule r have been
\* read.  A state that is entered on symbol X has only items with X before the
\* dot, and these come from the state before, where the rule has begun or was
\* about to: then that state can be left on the rule's left side.
FollowsFrom(s, X, t) ==
  \A item \in t :
    LET r == item[1]
        d == item[2]
    IN  /\ d \in 1..Len(yyrules[r].rhs)
        /\ yyrules[r].rhs[d] = X
        /\ \/ <<r, d - 1>> \in s
           \/ d = 1 /\ yyrules[r].lhs \in DOMAIN yytable[s].goto

\* All symbols of the rule have been read.
Complete(s, r) ==
  /\ r \in DOMAIN yyrules
  /\ \/ <<r, Len(yyrules[r].rhs)>> \in s
     \/ yyrules[r].rhs = <<>> /\ yyrules[r].lhs \in DOMAIN yytable[s].goto

ASSUME TablesAssumption ==
  /\ State0 \in DOMAIN yytable /\ ~yytable[State0].tokenless
  /\ State0 = {<<Accepting, 0>>}
  /\ \A s \in DOMAIN yytable :
       LET row == yytable[s]
       IN  /\ s \subseteq (DOMAIN yyrules) \X Nat
           /\ row.shift \subseteq (DOMAIN row.goto) \ LeftSymbols
           /\ DOMAIN row.goto \subseteq Symbols
           /\ \A X \in DOMAIN row.goto :
                row.goto[X] \in DOMAIN yytable /\ FollowsFrom(s, X, row.goto[X])
           /\ row.default # NoRule => Complete(s, row.default)
           /\ \A t \in DOMAIN row.others : row.others[t] # NoRule => Complete(s, row.others[t])
           /\ "root" \in DOMAIN row.goto => s = State0
           /\ "$end" \in DOMAIN row.goto => row.goto["$end"] = YYFINAL
  /\ <<Accepting, 2>> \in YYFINAL

VARIABLES
  \* globals of the extension
  mode,          \* the lexer's start condition
  has_error, error_string, ast_root,
  \* the parse under way, or the last one
  read,          \* what the lexer has read of the code
  yylval,        \* the value of the token that it is putting together
  lookahead,     \* the token that the parser looks at
  stack,         \* the parser's stack: symbols, their values, and states
  yystacksize,   \* how many states there is room for
  yyresult,      \* the label that yyparse returned from
  \* what the script gets
  result

lexerVars   == <<mode, read, yylval>>
parserVars  == <<lookahead, stack, yystacksize, yyresult>>
sessionVars == <<has_error, error_string, ast_root>>
vars        == <<lexerVars, parserVars, sessionVars, result>>

Answer(kind, tree) == [kind |-> kind, tree |-> tree]

Nothing == Answer("nothing", Null)
Pending == Answer("pending", Null)
False   == Answer("false", Null)

\* A message: what it says, the token it did not expect, and those it did.
Message(text, unexpected, expected) ==
  [text |-> text, unexpected |-> unexpected, expected |-> expected]

NoMessage == Message("none", "none", {})

Token(symbol, value) == [symbol |-> symbol, value |-> value]
None == Token("none", Null)

Parsing == result = Pending

-----------------------------------------------------------------------------
(* The lexer.                                                              *)

\* Blanks around these belong to them, so that no WHITESPACE stands there.
TakesBlanksBefore ==
  {"ACCESS", "MAP", "END_PAREN", "BEGIN_BRACE", "END_BRACE", "BEGIN_SQUARE", "END_SQUARE",
   "AMPERSAND", "PIPE", "EQUALS", "COMMA", "SEMICOLON", "COLON", "ADD", "MULTIPLY",
   "DIVIDE", "TERMINATING_NEWLINE"}

TakesBlanksAfter ==
  (TakesBlanksBefore \ {"END_PAREN"}) \cup {"BEGIN_PAREN", "MINUS", "CONTINUING_NEWLINE"}

Words == {"NUMBER", "VARIABLE", "FRAGMENT", "KEYWORD_RETURN"} \cup ToSet(Keywords)

\* Can l be followed by m, or would the lexer, which takes the longest match,
\* see one lexeme?  Only a word that starts with a digit ends before a slash.
Separate(l, m) ==
  /\ m = "WHITESPACE" => l \notin TakesBlanksAfter \cup {"WHITESPACE"}
  /\ l = "WHITESPACE" => m \notin TakesBlanksBefore
  /\ l \in Words /\ m \in Words => l \in {"NUMBER", "VARIABLE"} /\ m = "FRAGMENT"

\* The lexemes that hold the end of a line.
Newlines == {"TERMINATING_NEWLINE", "CONTINUING_NEWLINE", "comment"}

\* A token, or the beginning of one, whose text is the lexeme at place i.
Spelled(value, i) ==
  [Node("token") EXCEPT !.data = Data("string", value), !.original = <<i>>]

\* A value with the lexeme at place i appended: to the text, and to the data
\* unless it is the closing quote.
More(value, i)    == [value EXCEPT !.data.text = Append(@, i), !.original = Append(@, i)]
Closing(value, i) == [value EXCEPT !.original = Append(@, i)]

\* A match: the start condition after it, yylval, and the token returned, if any.
Matching(m, value)   == [mode |-> m, yylval |-> value, token |-> None]
Returning(m, token)  == [mode |-> m, yylval |-> Null, token |-> token]
Refusing(m)          == Returning(m, Token("ERROR", Null))

\* Mutated: a comment is a token.
Initial_comments_returned(l, value, i) ==
  CASE l = "single_quote" -> Matching("IN_SINGLE_STRING", Spelled(<<>>, i))
    [] l = "double_quote" -> Matching("IN_DOUBLE_STRING", Spelled(<<>>, i))
    [] l = "php_open"     -> Matching("IN_PHP", Spelled(<<i>>, i))
    [] l = "unknown"      -> Refusing("INITIAL")
    [] OTHER -> Returning("INITIAL", Token(l, Spelled(<<i>>, i)))

\* One match of a rule in INITIAL.
Initial(l, value, i) ==
  CASE l = "comment"      -> Matching("INITIAL", value)
    [] l = "single_quote" -> Matching("IN_SINGLE_STRING", Spelled(<<>>, i))
    [] l = "double_quote" -> Matching("IN_DOUBLE_STRING", Spelled(<<>>, i))
    [] l = "php_open"     -> Matching("IN_PHP", Spelled(<<i>>, i))
    [] l = "unknown"      -> Refusing("INITIAL")
    [] OTHER -> Returning("INITIAL", Token(l, Spelled(<<i>>, i)))

\* One match in a string that the given quote closes.
InString(m, quote, symbol, l, value, i) ==
  CASE l = quote       -> Returning("INITIAL", Token(symbol, Closing(value, i)))
    [] l \in Newlines  -> Refusing(m)
    [] OTHER           -> Matching(m, More(value, i))

InPhp(l, value, i) ==
  IF l = "php_close" THEN Returning("INITIAL", Token("PHP", More(value, i)))
  ELSE Matching("IN_PHP", More(value, i))

Matched(m, l, value, i) ==
  CASE m = "INITIAL"          -> Initial(l, value, i)
    [] m = "IN_SINGLE_STRING" -> InString(m, "single_quote", "SINGLE_QUOTED", l, value, i)
    [] m = "IN_DOUBLE_STRING" -> InString(m, "double_quote", "DOUBLE_QUOTED", l, value, i)
    [] m = "IN_PHP"           -> InPhp(l, value, i)

\* The lexemes in start condition m.  "?>" is one in a PHP block alone: elsewhere
\* it is a question mark and a character that no rule knows.
LexemesIn(m) == IF m = "IN_PHP" THEN Lexemes ELSE Lexemes \ {"php_close"}

\* The match of the end of the code.
MatchedEnd(m) ==
  Returning(m, Token(IF m = "INITIAL" THEN "$end" ELSE "UNTERMINATED_LEXING_BLOCK", Null))

\* What the tables say of the state on top of a stack.
Top(s)  == IF s = <<>> THEN State0 ELSE Last(s).state
Entries == yytable[Top(stack)]

\* A match, in a state that has to see a token.
Match(match, code) ==
  /\ mode' = match.mode
  /\ yylval' = match.yylval
  /\ lookahead' = match.token
  /\ read' = code

yylex ==
  /\ Parsing
  /\ lookahead = None
  /\ ~Entries.tokenless
  /\ \/ \E l \in LexemesIn(mode) :
          /\ Readable(Append(read, l))
          /\ read # <<>> => Separate(Last(read), l)
          /\ Match(Matched(mode, l, yylval, Len(read) + 1), Append(read, l))
     \/ Match(MatchedEnd(mode), read)
  /\ UNCHANGED <<sessionVars, stack, yystacksize, yyresult, result>>

-----------------------------------------------------------------------------
(* The parser.                                                             *)

yyerror(message) == has_error' = TRUE /\ error_string' = message

\* The end of yyparse, which omnilang_parse does not ask for its result, and of
\* omnilang_parse.
Return(label) ==
  /\ yyresult' = label
  /\ result' = IF has_error' THEN False ELSE Answer("tree", Converted(ast_root'))
  /\ stack' = <<>>
  /\ lookahead' = None

Pushed(s, token) ==
  Append(s, [symbol |-> token.symbol, value |-> token.value,
             state |-> yytable[Top(s)].goto[token.symbol]])

\* Mutated: the size of the stack is not compared with its limit first.
Growth_unlimited(s, size) ==
  IF Len(s) + 1 < size THEN [size |-> size, label |-> "none"]
  ELSE LET more == Min({2 * size, YYMAXDEPTH})
       IN  [size |-> more, label |-> IF Len(s) + 1 >= more THEN "abort" ELSE "none"]

\* What becomes of a stack of this size when it holds s, and state 0 below: it
\* grows when it is full, as far as it may.
Growth(s, size) ==
  IF Len(s) + 1 < size THEN [size |-> size, label |-> "none"]
  ELSE IF YYMAXDEPTH <= size THEN [size |-> size, label |-> "exhausted"]
  ELSE LET more == Min({2 * size, YYMAXDEPTH})
       IN  [size |-> more, label |-> IF Len(s) + 1 >= more THEN "abort" ELSE "none"]

\* The label that the parser goes to with s on the stack, "none" to go on.
Label(s, size) ==
  IF Growth(s, size).label = "none" /\ Top(s) = YYFINAL THEN "accept" ELSE Growth(s, size).label

Exhausted == Message("memory exhausted", "none", {})

\* The parser enters the state on top of s; next is the token it then looks at.
yynewstate(s, next) ==
  LET label == Label(s, yystacksize)
  IN  /\ yystacksize' = Growth(s, yystacksize).size
      /\ IF label = "exhausted" THEN yyerror(Exhausted) ELSE UNCHANGED <<has_error, error_string>>
      /\ IF label = "none"
         THEN stack' = s /\ lookahead' = next /\ UNCHANGED <<yyresult, result>>
         ELSE Return(label)

\* yybackup
Shift ==
  /\ Parsing
  /\ lookahead.symbol \in Entries.shift
  /\ UNCHANGED <<lexerVars, ast_root>>
  /\ yynewstate(Pushed(stack, lookahead), None)

\* Mutated: the default is taken before the tables are asked.
Decision_by_default(entries, symbol) ==
  IF entries.default # NoRule THEN entries.default
  ELSE IF symbol \in DOMAIN entries.others THEN entries.others[symbol]
  ELSE NoRule

\* What a state does with a token that it does not shift: reduce a rule, which is
\* that of the default where the tables do not speak of the token, or NoRule.
Decision(entries, symbol) ==
  IF symbol \in entries.shift THEN NoRule
  ELSE IF symbol \in DOMAIN entries.others THEN entries.others[symbol]
  ELSE entries.default

\* The stack after rule r was reduced.
Reduction(s, r) ==
  LET rule   == yyrules[r]
      kept   == Len(s) - Len(rule.rhs)
      values == [i \in DOMAIN rule.rhs |-> s[kept + i].value]
  IN  Pushed(SubSeq(s, 1, kept), Token(rule.lhs, Reduced(rule, values)))

\* yydefault, yyreduce.  (The quantifier gives a name to one value, which TLC
\* then computes once.)
Reduce ==
  /\ Parsing
  /\ lookahead = None => Entries.tokenless
  /\ Decision(Entries, lookahead.symbol) # NoRule
  /\ \E s \in {Reduction(stack, Decision(Entries, lookahead.symbol))} :
       /\ ast_root' = IF Last(s).symbol = "root" THEN Last(s).value ELSE ast_root
       /\ yynewstate(s, lookahead)
  /\ UNCHANGED lexerVars

\* The most tokens that a message names, the unexpected one included.
YYERROR_VERBOSE_ARGS_MAXIMUM == 5

\* Mutated: the search for tokens goes on into the gotos of nonterminals.
yysyntax_error_past_the_tokens(entries, symbol) ==
  LET expected == entries.shift \cup {t \in DOMAIN entries.others : entries.others[t] # NoRule}
                    \cup ((DOMAIN entries.goto) \cap LeftSymbols)
  IN  Message("syntax error", symbol,
              IF Cardinality(expected) < YYERROR_VERBOSE_ARGS_MAXIMUM THEN expected ELSE {})

\* The message about a token: what the tables have for the state that the parser
\* got to, unless that is too much to name.
yysyntax_error(entries, symbol) ==
  LET expected == entries.shift \cup {t \in DOMAIN entries.others : entries.others[t] # NoRule}
  IN  Message("syntax error", symbol,
              IF Cardinality(expected) < YYERROR_VERBOSE_ARGS_MAXIMUM THEN expected ELSE {})

\* Mutated: the parser goes on from the state below, and keeps the token.
SyntaxError_without_discarding ==
  /\ Parsing
  /\ lookahead # None
  /\ lookahead.symbol \notin Entries.shift
  /\ Decision(Entries, lookahead.symbol) = NoRule
  /\ yyerror(yysyntax_error(Entries, lookahead.symbol))
  /\ stack' = IF stack = <<>> THEN <<>> ELSE Front(stack)
  /\ UNCHANGED <<lexerVars, ast_root, lookahead, yystacksize, yyresult, result>>

\* yyerrlab, and yyerrlab1, which looks in vain for a state that takes the token
\* "error".
SyntaxError ==
  /\ Parsing
  /\ lookahead # None
  /\ lookahead.symbol \notin Entries.shift
  /\ Decision(Entries, lookahead.symbol) = NoRule
  /\ yyerror(yysyntax_error(Entries, lookahead.symbol))
  /\ Return("abort")
  /\ UNCHANGED <<lexerVars, ast_root, yystacksize>>

-----------------------------------------------------------------------------
(* The functions.                                                          *)

\* Mutated: the start condition is left as the last parse left it.
reset_to_initial_dropped == mode

\* The start condition after reset_to_initial.
reset_to_initial == "INITIAL"

\* The beginning of yyparse: state 0 is at the bottom of the stack, and no token is read.
Started ==
  /\ stack' = <<>>
  /\ yystacksize' = YYINITDEPTH
  /\ lookahead' = None
  /\ yyresult' = "none"

omnilang_parse ==
  /\ ~Parsing
  /\ has_error' = FALSE
  /\ mode' = reset_to_initial
  /\ read' = <<>>
  /\ Started
  /\ result' = Pending
  /\ UNCHANGED <<yylval, error_string, ast_root>>

\* Called with anything but a string.
RefusedParameters ==
  /\ ~Parsing
  /\ result' = False
  /\ UNCHANGED <<lexerVars, parserVars, sessionVars>>

\* Mutated: has an error ever been stored?
omnilang_get_error_of_any_parse ==
  /\ ~Parsing
  /\ result' = IF error_string # NoMessage THEN Answer("string", Null) ELSE Answer("null", Null)
  /\ UNCHANGED <<lexerVars, parserVars, sessionVars>>

omnilang_get_error ==
  /\ ~Parsing
  /\ result' = IF has_error THEN Answer("string", Null) ELSE Answer("null", Null)
  /\ UNCHANGED <<lexerVars, parserVars, sessionVars>>

Init ==
  /\ mode = "INITIAL"
  /\ has_error = FALSE
  /\ error_string = NoMessage
  /\ ast_root = Null
  /\ read = <<>>
  /\ yylval = Null
  /\ lookahead = None
  /\ stack = <<>>
  /\ yystacksize = YYINITDEPTH
  /\ yyresult = "none"
  /\ result = Nothing

\* What yyparse does.
yyparse == yylex \/ Shift \/ Reduce \/ SyntaxError

Next ==
  \/ omnilang_parse
  \/ yyparse
  \/ RefusedParameters
  \/ omnilang_get_error

Spec == Init /\ [][Next]_vars

-----------------------------------------------------------------------------
(* Properties.                                                             *)

TypeOK ==
  /\ mode \in {"INITIAL", "IN_SINGLE_STRING", "IN_DOUBLE_STRING", "IN_PHP"}
  /\ has_error \in BOOLEAN
  /\ ToSet(read) \subseteq Lexemes
  /\ lookahead.symbol \in Terminals \cup {"none"}
  /\ \A i \in DOMAIN stack :
       stack[i].symbol \in Symbols /\ stack[i].state \in DOMAIN yytable
  /\ yystacksize \in YYINITDEPTH..(YYINITDEPTH + YYMAXDEPTH)
  /\ yyresult \in {"none", "accept", "abort", "exhausted"}
  /\ result.kind \in {"nothing", "pending", "false", "null", "string", "tree"}

\* omnilang_parse does not ask yyparse for its result: an end of yyparse other
\* than by acceptance has called yyerror, or the script would be handed the tree
\* of some earlier code.
FailureIsToldOf == ~Parsing => (yyresult \in {"abort", "exhausted"} <=> has_error)

\* Every call of omnilang_parse returns.
EveryParseReturns == Parsing ~> ~Parsing

=============================================================================
