------------------------ MODULE OmnilangHistoryProofs ------------------------
(***************************************************************************)
(* What module OmnilangHistory promises, for any rules and tables that fit *)
(* together: whatever was parsed before, the same code gives the same      *)
(* outcome, and omnilang_get_error speaks of the last parse.               *)
(***************************************************************************)
EXTENDS OmnilangHistory, OmnilangProofs

-----------------------------------------------------------------------------
(* A parse as a sequence of configurations.  All that a step of yyparse    *)
(* reads is in the configuration, but for the next lexeme.                 *)

Config(m, code, value, token, s, size) ==
  [mode |-> m, read |-> code, yylval |-> value, lookahead |-> token, stack |-> s, size |-> size]

Now   == Config(mode, read, yylval, lookahead, stack, yystacksize)
Begin == Config("INITIAL", <<>>, Null, None, <<>>, YYINITDEPTH)

Row(c)   == yytable[Top(c.stack)]
Asks(c)  == c.lookahead = None /\ ~Row(c).tokenless
AtEnd(c) == c.lookahead.symbol \in EndTokens

Lexed(c, match, code) ==
  Config(match.mode, code, match.yylval, match.token, c.stack, c.size)

Reads(c, l) == Lexed(c, Matched(c.mode, l, c.yylval, Len(c.read) + 1), Append(c.read, l))
Ends(c)     == Lexed(c, MatchedEnd(c.mode), c.read)

\* What a configuration that does not ask for a token does.
Shifts(c)    == c.lookahead.symbol \in Row(c).shift
Rule(c)      == Decision(Row(c), c.lookahead.symbol)
Refuses(c)   == ~Shifts(c) /\ Rule(c) = NoRule
NextStack(c) == IF Shifts(c) THEN Pushed(c.stack, c.lookahead) ELSE Reduction(c.stack, Rule(c))
NextToken(c) == IF Shifts(c) THEN None ELSE c.lookahead
NextLabel(c) == Label(NextStack(c), c.size)
Stops(c)     == Refuses(c) \/ NextLabel(c) # "none"

Moved(c) ==
  Config(c.mode, c.read, c.yylval, NextToken(c), NextStack(c), Growth(NextStack(c), c.size).size)

Follows(c, d) ==
  \/ Asks(c) /\ \E l \in Lexemes : d = Reads(c, l)
  \/ Asks(c) /\ d = Ends(c)
  \/ ~Asks(c) /\ ~Stops(c) /\ d = Moved(c)

\* What becomes of a parse that stops.
OutcomeOf(c) ==
  IF Refuses(c) \/ NextLabel(c) = "exhausted" THEN False
  ELSE Answer("tree", Converted(c.stack[1].value))

ErrorOf(c) ==
  IF Refuses(c) THEN yysyntax_error(Row(c), c.lookahead.symbol)
  ELSE IF NextLabel(c) = "exhausted" THEN Exhausted
  ELSE NoMessage

\* What d has read is the beginning of what c has read, and all of it if d has
\* seen the end.
Towards(d, c) ==
  /\ d.read \in Seq(Lexemes) /\ c.read \in Seq(Lexemes)
  /\ Len(d.read) <= Len(c.read)
  /\ \A k \in 1..Len(d.read) : d.read[k] = c.read[k]
  /\ AtEnd(d) => AtEnd(c) /\ d.read = c.read

\* f is a parse that got to c in n steps.
Trace(f, n, c) ==
  /\ n \in Nat /\ f[0] = Begin /\ f[n] = c
  /\ \A i \in 0..n : Towards(f[i], c)
  /\ \A i \in 1..n : Follows(f[i - 1], f[i])

Reached(c) == \E n : \E f : Trace(f, n, c)

\* A parse that has read nothing is about to begin, or sees the end.
Fresh(c) == c.read = <<>> => c = Begin \/ AtEnd(c)

-----------------------------------------------------------------------------
(* Traces.                                                                 *)

LEMMA TowardsItself ==
  ASSUME NEW c, c.read \in Seq(Lexemes)
  PROVE  Towards(c, c)
BY LenProperties DEF Towards

LEMMA TowardsGoesOn ==
  ASSUME NEW c, NEW d, NEW e, Towards(c, d), Towards(d, e)
  PROVE  Towards(c, e)
<1>1. /\ c.read \in Seq(Lexemes) /\ d.read \in Seq(Lexemes) /\ e.read \in Seq(Lexemes)
      /\ Len(c.read) \in Nat /\ Len(d.read) \in Nat /\ Len(e.read) \in Nat
  BY LenProperties DEF Towards
<1> QED
  BY <1>1 DEF Towards

LEMMA TraceBegins == Reached(Begin)
<1> DEFINE f == [i \in 0..0 |-> Begin]
<1>1. f[0] = Begin /\ \A i \in 0..0 : f[i] = Begin
  OBVIOUS
<1>2. Towards(Begin, Begin)
  <2>1. Begin.read = <<>>
    BY DEF Begin, Config
  <2>2. Begin.read \in Seq(Lexemes)
    BY <2>1
  <2> QED
    BY <2>2, TowardsItself
<1> HIDE DEF f
<1>3. Trace(f, 0, Begin)
  BY <1>1, <1>2 DEF Trace
<1> QED
  BY <1>3 DEF Reached

LEMMA TraceGoesOn ==
  ASSUME NEW c, NEW d, Reached(c), Follows(c, d), Towards(c, d)
  PROVE  Reached(d)
<1>1. PICK n, f : Trace(f, n, c)
  BY DEF Reached
<1> DEFINE g == [i \in 0..(n + 1) |-> IF i = n + 1 THEN d ELSE f[i]]
<1>2. n \in Nat
  BY <1>1 DEF Trace
<1>3. g[n + 1] = d /\ \A i \in 0..n : g[i] = f[i]
  BY <1>2
<1> HIDE DEF g
<1>4. Towards(d, d)
  BY TowardsItself DEF Towards
<1>5. \A i \in 0..(n + 1) : Towards(g[i], d)
  <2> TAKE i \in 0..(n + 1)
  <2>1. CASE i = n + 1
    BY <1>3, <1>4, <2>1
  <2>2. CASE i \in 0..n
    BY <1>1, <1>3, <2>2, TowardsGoesOn DEF Trace
  <2> QED
    BY <1>2, <2>1, <2>2
<1>6. \A i \in 1..(n + 1) : Follows(g[i - 1], g[i])
  <2> TAKE i \in 1..(n + 1)
  <2>1. CASE i = n + 1
    <3>1. i - 1 = n /\ n \in 0..n
      BY <1>2, <2>1
    <3>2. g[i - 1] = c /\ g[i] = d
      BY <1>1, <1>3, <2>1, <3>1 DEF Trace
    <3> QED
      BY <3>2
  <2>2. CASE i \in 1..n
    <3>1. i - 1 \in 0..n /\ i \in 0..n
      BY <1>2, <2>2
    <3> QED
      BY <1>1, <1>3, <2>2, <3>1 DEF Trace
  <2> QED
    BY <1>2, <2>1, <2>2
<1>7. n + 1 \in Nat /\ 0 \in 0..n
  BY <1>2
<1>8. Trace(g, n + 1, d)
  BY <1>1, <1>3, <1>5, <1>6, <1>7 DEF Trace
<1> QED
  BY <1>8 DEF Reached

\* What is still to be read decides the next configuration.
LEMMA StepsAgree ==
  ASSUME NEW e, NEW a, NEW b, NEW c, NEW d,
         Follows(e, a), Follows(e, b), Towards(e, c), Towards(a, c), Towards(b, d),
         c.read = d.read
  PROVE  a = b
<1>1. CASE ~Asks(e)
  BY <1>1 DEF Follows
<1>2. CASE Asks(e)
  <2>1. e.read \in Seq(Lexemes) /\ Len(e.read) \in Nat
    BY LenProperties DEF Towards
  <2>2. ASSUME NEW x, Towards(x, c) \/ Towards(x, d), NEW l \in Lexemes, x = Reads(e, l)
        PROVE  Len(c.read) >= Len(e.read) + 1 /\ c.read[Len(e.read) + 1] = l
    <3>1. x.read = Append(e.read, l)
      BY <2>2 DEF Reads, Lexed, Config
    <3>2. Len(x.read) = Len(e.read) + 1 /\ x.read[Len(e.read) + 1] = l
      BY <2>1, <3>1, AppendProperties
    <3>3. Len(e.read) + 1 \in 1..Len(x.read)
      BY <2>1, <3>2
    <3>4. Len(c.read) \in Nat /\ d.read = c.read
      BY LenProperties DEF Towards
    <3> QED
      BY <2>1, <2>2, <3>2, <3>3, <3>4 DEF Towards
  <2>3. ASSUME NEW x, Towards(x, c) \/ Towards(x, d), x = Ends(e)
        PROVE  c.read = e.read
    <3>1. x.read = e.read /\ AtEnd(x)
      BY <2>3 DEF Ends, Lexed, Config, AtEnd, MatchedEnd, Returning, Token, EndTokens
    <3> QED
      BY <2>3, <3>1 DEF Towards
  <2>4. (\E l \in Lexemes : a = Reads(e, l)) \/ a = Ends(e)
    BY <1>2 DEF Follows
  <2>5. (\E l \in Lexemes : b = Reads(e, l)) \/ b = Ends(e)
    BY <1>2 DEF Follows
  <2>6. CASE a = Ends(e)
    <3>1. c.read = e.read
      BY <2>3, <2>6
    <3>2. ~\E l \in Lexemes : b = Reads(e, l)
      BY <2>1, <2>2, <3>1
    <3> QED
      BY <2>5, <2>6, <3>2
  <2>7. CASE \E l \in Lexemes : a = Reads(e, l)
    <3>1. PICK l \in Lexemes : a = Reads(e, l)
      BY <2>7
    <3>2. Len(c.read) >= Len(e.read) + 1 /\ c.read[Len(e.read) + 1] = l
      BY <2>2, <3>1
    <3>3. b # Ends(e)
      BY <2>1, <2>3, <3>2
    <3>4. PICK k \in Lexemes : b = Reads(e, k)
      BY <2>5, <3>3
    <3>5. k = l
      BY <2>2, <3>2, <3>4
    <3> QED
      BY <3>1, <3>4, <3>5
  <2> QED
    BY <2>4, <2>6, <2>7
<1> QED
  BY <1>1, <1>2

\* Two parses of the same code are the same as far as both go.
LEMMA TracesAgree ==
  ASSUME NEW f, NEW n, NEW c, Trace(f, n, c), NEW g, NEW m, NEW d, Trace(g, m, d),
         c.read = d.read, n <= m
  PROVE  \A i \in 0..n : f[i] = g[i]
<1> DEFINE D == {i \in 1..n : f[i] # g[i]}
<1>1. n \in Nat /\ m \in Nat /\ f[0] = g[0]
  BY DEF Trace
<1>2. SUFFICES ASSUME D # {} PROVE FALSE
  BY <1>1
<1> DEFINE i == Min(D)
<1>3. i \in D /\ \A k \in D : i <= k
  <2>1. D \in SUBSET (1..n) /\ D # {}
    BY <1>2
  <2> HIDE DEF D
  <2> QED
    BY <1>1, <2>1, MinOfBounded
<1>4. i \in 1..n /\ f[i] # g[i]
  BY <1>3
<1> HIDE DEF i
<1>5. i \in 0..n /\ i \in 1..m /\ i \in 0..m /\ i - 1 \in 0..n
  BY <1>1, <1>4
<1>6. f[i - 1] = g[i - 1]
  BY <1>1, <1>3, <1>4
<1>7. f[i] = g[i]
  <2>1. Follows(f[i - 1], f[i]) /\ Follows(g[i - 1], g[i])
    BY <1>4, <1>5 DEF Trace
  <2>2. Towards(f[i - 1], c) /\ Towards(f[i], c) /\ Towards(g[i], d)
    BY <1>5 DEF Trace
  <2> QED
    BY <1>6, <2>1, <2>2, StepsAgree
<1> QED
  BY <1>4, <1>7

\* A parse that stops has reached the same configuration as any that goes as far,
\* and none goes further.
LEMMA StopsAgree ==
  ASSUME NEW f, NEW n, NEW c, Trace(f, n, c), ~Asks(c), Stops(c),
         NEW g, NEW m, NEW d, Trace(g, m, d), c.read = d.read, n <= m
  PROVE  c = d
<1>1. n \in Nat /\ m \in Nat /\ f[n] = c /\ g[m] = d
  BY DEF Trace
<1>2. f[n] = g[n]
  BY <1>1, TracesAgree
<1>3. CASE n = m
  BY <1>1, <1>2, <1>3
<1>4. CASE n # m
  <2>1. n + 1 \in 1..m /\ (n + 1) - 1 = n
    BY <1>1, <1>4
  <2>2. Follows(g[n], g[n + 1])
    <3>1. Follows(g[(n + 1) - 1], g[n + 1])
      BY <2>1 DEF Trace
    <3> QED
      BY <2>1, <3>1
  <2> QED
    BY <1>1, <1>2, <2>2 DEF Follows
<1> QED
  BY <1>3, <1>4

\* What a script that has not called omnilang_parse yet would remember.
Unparsed == Parse(<<>>, FALSE, Nothing, NoMessage)

\* P is the record of a parse that could be made from the beginning.
Genuine(P) ==
  \/ P = Unparsed
  \/ \E c : /\ Reached(c) /\ ~Asks(c) /\ Stops(c)
            /\ c.read = <<>> => AtEnd(c)
            /\ P = Parse(c.read, AtEnd(c), OutcomeOf(c), ErrorOf(c))

LEMMA GenuineAgree ==
  ASSUME NEW P, NEW Q, Genuine(P), Genuine(Q), P.code = Q.code, P.whole = Q.whole
  PROVE  P = Q
<1>1. Unparsed.code = <<>> /\ Unparsed.whole = FALSE
  BY DEF Unparsed, Parse
<1>2. \A c : LET R == Parse(c.read, AtEnd(c), OutcomeOf(c), ErrorOf(c))
             IN  R.code = c.read /\ R.whole = AtEnd(c)
  BY DEF Parse
<1>3. CASE P = Unparsed \/ Q = Unparsed
  BY <1>1, <1>2, <1>3 DEF Genuine
<1>4. CASE P # Unparsed /\ Q # Unparsed
  <2>1. PICK c : /\ Reached(c) /\ ~Asks(c) /\ Stops(c)
                 /\ P = Parse(c.read, AtEnd(c), OutcomeOf(c), ErrorOf(c))
    BY <1>4 DEF Genuine
  <2>2. PICK d : /\ Reached(d) /\ ~Asks(d) /\ Stops(d)
                 /\ Q = Parse(d.read, AtEnd(d), OutcomeOf(d), ErrorOf(d))
    BY <1>4 DEF Genuine
  <2>3. c.read = d.read
    BY <1>2, <2>1, <2>2
  <2>4. PICK n, f : Trace(f, n, c)
    BY <2>1 DEF Reached
  <2>5. PICK m, g : Trace(g, m, d)
    BY <2>2 DEF Reached
  <2>6. n \in Nat /\ m \in Nat
    BY <2>4, <2>5 DEF Trace
  <2>7. CASE n <= m
    <3>1. c = d
      BY <2>1, <2>3, <2>4, <2>5, <2>7, StopsAgree
    <3> QED
      BY <2>1, <2>2, <3>1
  <2>8. CASE m <= n
    <3>1. d = c
      BY <2>2, <2>3, <2>4, <2>5, <2>8, StopsAgree
    <3> QED
      BY <2>1, <2>2, <3>1
  <2> QED
    BY <2>6, <2>7, <2>8
<1> QED
  BY <1>3, <1>4

-----------------------------------------------------------------------------
(* The steps of yyparse are steps between configurations.                  *)

LEMMA NowIs ==
  /\ Now.mode = mode /\ Now.read = read /\ Now.yylval = yylval /\ Now.lookahead = lookahead
  /\ Now.stack = stack /\ Now.size = yystacksize /\ Row(Now) = Entries
BY DEF Now, Config, Row, Entries

LEMMA BeginAsks == Asks(Begin)
<1>1. Begin.stack = <<>> /\ Begin.lookahead = None
  BY DEF Begin, Config
<1> QED
  BY <1>1, EmptyStack, TablesAssumption DEF Asks, Row

LEMMA LexFollows ==
  ASSUME IInv, yylex
  PROVE  /\ Follows(Now, Now') /\ Towards(Now, Now')
         /\ Fresh(Now')
         /\ UNCHANGED result
<1>1. /\ lookahead = None /\ ~Entries.tokenless
      /\ UNCHANGED <<stack, yystacksize, result>>
      /\ read \in Seq(Lexemes)
  BY DEF yylex, IInv, LexerOK
<1>2. Asks(Now) /\ ~AtEnd(Now)
  BY <1>1, NowIs, NoneIs DEF Asks, AtEnd, EndTokens
<1>3. Now' = Config(mode', read', yylval', lookahead', stack', yystacksize')
  BY DEF Now
<1>4. ASSUME NEW l \in LexemesIn(mode), Match(Matched(mode, l, yylval, Len(read) + 1), Append(read, l))
      PROVE  Follows(Now, Now') /\ Towards(Now, Now') /\ Fresh(Now')
  <2>1. Now' = Reads(Now, l) /\ l \in Lexemes
    BY <1>1, <1>3, <1>4, NowIs DEF Match, Reads, Lexed, LexemesIn
  <2>2. Now'.read = Append(read, l)
    BY <2>1, NowIs DEF Reads, Lexed, Config
  <2>3. Towards(Now, Now')
    <3>1. /\ Len(Append(read, l)) = Len(read) + 1 /\ Append(read, l) \in Seq(Lexemes)
          /\ Len(read) \in Nat /\ \A k \in 1..Len(read) : Append(read, l)[k] = read[k]
      BY <1>1, <2>1, AppendProperties, LenProperties
    <3> QED
      BY <1>1, <1>2, <2>2, <3>1, NowIs DEF Towards
  <2>4. Fresh(Now')
    <3>1. Append(read, l) # <<>>
      BY <1>1, <2>1, AppendProperties
    <3> QED
      BY <2>2, <3>1 DEF Fresh
  <2> QED
    BY <1>2, <2>1, <2>3, <2>4 DEF Follows
<1>5. ASSUME Match(MatchedEnd(mode), read)
      PROVE  Follows(Now, Now') /\ Towards(Now, Now') /\ Fresh(Now')
  <2>1. Now' = Ends(Now)
    BY <1>1, <1>3, <1>5, NowIs DEF Match, Ends, Lexed
  <2>2. Now'.read = read /\ AtEnd(Now')
    BY <2>1, NowIs DEF Ends, Lexed, Config, AtEnd, MatchedEnd, Returning, Token, EndTokens
  <2>3. Towards(Now, Now')
    <3>1. Len(read) \in Nat
      BY <1>1, LenProperties
    <3> QED
      BY <1>1, <1>2, <2>2, <3>1, NowIs DEF Towards
  <2> QED
    BY <1>2, <2>1, <2>2, <2>3 DEF Follows, Fresh
<1> QED
  BY <1>1, <1>4, <1>5 DEF yylex

\* A parse that has seen the end sees it until it returns: the end is shifted
\* into the state that accepts.
LEMMA EndStays ==
  ASSUME IInv, ~Stops(Now), AtEnd(Now)
  PROVE  AtEnd(Moved(Now))
<1>1. Top(stack) \in DOMAIN yytable /\ WellStacked(stack)
  BY TopIsAState DEF IInv, ParserOK
<1>2. ~Shifts(Now)
  <2> SUFFICES ASSUME Shifts(Now) PROVE FALSE
    OBVIOUS
  <2>1. lookahead.symbol \in yytable[Top(stack)].shift
    BY NowIs DEF Shifts, Entries
  <2>2. lookahead.symbol = "$end"
    BY <1>1, <2>1, NowIs, ShiftsAre DEF AtEnd, EndTokens
  <2>3. yytable[Top(stack)].goto[lookahead.symbol] = YYFINAL
    BY <1>1, <2>1, <2>2, RowsFit, ShiftsAre
  <2>4. Top(NextStack(Now)) = YYFINAL
    BY <1>1, <2>3, NowIs, PushedIs DEF NextStack, WellStacked
  <2> QED
    BY <2>4 DEF Stops, NextLabel, Label
<1> QED
  BY <1>2 DEF Moved, Config, NextToken, AtEnd

LEMMA MovedFollows ==
  ASSUME IInv, Fresh(Now), ~Asks(Now), ~Stops(Now)
  PROVE  Follows(Now, Moved(Now)) /\ Towards(Now, Moved(Now)) /\ Fresh(Moved(Now))
<1>1. Moved(Now).read = read /\ Now.read = read /\ read \in Seq(Lexemes) /\ Len(read) \in Nat
  BY NowIs, LenProperties DEF Moved, Config, IInv, LexerOK
<1>2. AtEnd(Now) => AtEnd(Moved(Now))
  BY EndStays
<1>3. Towards(Now, Moved(Now))
  BY <1>1, <1>2 DEF Towards
<1>4. Fresh(Moved(Now))
  BY <1>1, <1>2, BeginAsks DEF Fresh
<1> QED
  BY <1>3, <1>4 DEF Follows

\* The parse goes on with the next configuration, or it stops with its outcome.
Proceeds ==
  IF result' = Pending THEN ~Stops(Now) /\ Now' = Moved(Now)
  ELSE /\ Stops(Now)
       /\ result' = OutcomeOf(Now)
       /\ (IF has_error' THEN error_string' ELSE NoMessage) = ErrorOf(Now)

LEMMA OutcomesArePlain ==
  ASSUME NEW c
  PROVE  OutcomeOf(c) # Pending
BY DEF OutcomeOf, False, Answer, Pending

LEMMA EnteringProceeds ==
  ASSUME IInv, Parsing, ~Refuses(Now), IsSequence(NextStack(Now)),
         Len(NextStack(Now)) <= Len(stack) + 1,
         yynewstate(NextStack(Now), NextToken(Now)), UNCHANGED <<mode, read, yylval>>,
         NextLabel(Now) = "accept" => ast_root' = stack[1].value
  PROVE  Proceeds
<1> DEFINE s == NextStack(Now)
           label == Label(s, yystacksize)
<1>1. /\ Len(s) \in Nat /\ Len(stack) \in Nat /\ ~has_error /\ Len(stack) + 1 < yystacksize
      /\ yystacksize \in YYINITDEPTH..(YYINITDEPTH + YYMAXDEPTH)
  BY TopIs DEF IInv, ParserOK, GoesOn, WellStacked
<1>2. label \in {"none", "accept", "exhausted"}
  <2>1. yystacksize \in Nat /\ IsSequence(s)
    BY <1>1, DepthAssumption
  <2>2. Len(s) + 1 <= yystacksize
    <3> HIDE DEF s
    <3> QED
      BY <1>1, <2>1 DEF s
  <2> HIDE DEF s
  <2> QED
    BY <1>1, <2>1, <2>2, GrowthIs DEF Label
<1>3. /\ NextLabel(Now) = label
      /\ yystacksize' = Growth(s, yystacksize).size
      /\ IF label = "exhausted" THEN has_error' = TRUE /\ error_string' = Exhausted
         ELSE has_error' = has_error
      /\ IF label = "none"
         THEN stack' = s /\ lookahead' = NextToken(Now) /\ result' = result
         ELSE Return(label)
  BY NowIs DEF NextLabel, yynewstate, yyerror
<1> HIDE DEF s, label
<1>4. CASE label = "none"
  <2>1. result' = Pending
    BY <1>3, <1>4 DEF Parsing
  <2>2. ~Stops(Now)
    BY <1>3, <1>4 DEF Stops
  <2>3. Now' = Moved(Now)
    BY <1>3, <1>4, NowIs DEF Now, Moved, s
  <2> QED
    BY <2>1, <2>2, <2>3 DEF Proceeds
<1>5. CASE label # "none"
  <2>1. Stops(Now)
    BY <1>3, <1>5 DEF Stops
  <2>2. result' = OutcomeOf(Now)
    BY <1>1, <1>2, <1>3, <1>5, NowIs DEF Return, OutcomeOf
  <2>3. (IF has_error' THEN error_string' ELSE NoMessage) = ErrorOf(Now)
    BY <1>1, <1>2, <1>3, <1>5 DEF ErrorOf
  <2> QED
    BY <2>1, <2>2, <2>3, OutcomesArePlain DEF Proceeds
<1> QED
  BY <1>4, <1>5

LEMMA ShiftProceeds ==
  ASSUME IInv, RootKept, Shift
  PROVE  ~Asks(Now) /\ Proceeds
<1> DEFINE t == Pushed(stack, lookahead)
<1>1. WellStacked(stack) /\ Top(stack) \in DOMAIN yytable /\ Len(stack) \in Nat
  BY TopIsAState, TopIs DEF IInv, ParserOK, WellStacked
<1>2. /\ Parsing /\ lookahead.symbol \in yytable[Top(stack)].shift
      /\ UNCHANGED <<mode, read, yylval, ast_root>> /\ yynewstate(t, None)
  BY DEF Shift, Entries, lexerVars
<1>3. lookahead.symbol # "none" /\ lookahead.symbol \in DOMAIN yytable[Top(stack)].goto
  BY <1>1, <1>2, ShiftsAre
<1>4. ~Asks(Now) /\ Shifts(Now)
  BY <1>2, <1>3, NowIs, NoneIs DEF Asks, Shifts, Entries
<1>5. ~Refuses(Now) /\ NextStack(Now) = t /\ NextToken(Now) = None
  BY <1>4, NowIs DEF Refuses, NextStack, NextToken
<1>6. /\ WellStacked(t) /\ IsSequence(t) /\ Len(t) = Len(stack) + 1
      /\ \A i \in 1..Len(stack) : t[i] = stack[i]
  <2>1. WellStacked(t)
    BY <1>1, <1>3, PushKeeps
  <2>2. Len(t) = Len(stack) + 1 /\ \A i \in 1..Len(stack) : t[i] = stack[i]
    BY <1>1, PushedIs DEF WellStacked
  <2> QED
    BY <2>1, <2>2 DEF WellStacked
<1> HIDE DEF t
<1>7. NextLabel(Now) = "accept" => ast_root' = stack[1].value
  <2> SUFFICES ASSUME NextLabel(Now) = "accept" PROVE ast_root' = stack[1].value
    OBVIOUS
  <2>1. Top(t) = YYFINAL
    <3>1. Label(t, yystacksize) = "accept"
      BY <1>5, NowIs DEF NextLabel
    <3>2. Growth(t, yystacksize).label \in {"none", "exhausted", "abort"}
      BY DEF Growth
    <3> QED
      BY <3>1, <3>2 DEF Label
  <2>2. Len(t) >= 2 /\ t[Len(t) - 1].symbol = "root"
    BY <1>6, <2>1, FinalIs
  <2>3. Len(t) - 1 = Len(stack) /\ Len(stack) \in 1..Len(stack)
    BY <1>1, <1>6, <2>2
  <2>4. stack[Len(stack)].symbol = "root"
    BY <1>6, <2>2, <2>3
  <2> QED
    BY <1>2, <2>3, <2>4 DEF RootKept
<1>8. Len(t) <= Len(stack) + 1
  BY <1>1, <1>6
<1> QED
  BY <1>2, <1>4, <1>5, <1>6, <1>7, <1>8, EnteringProceeds

LEMMA ReduceProceeds ==
  ASSUME IInv, Reduce
  PROVE  ~Asks(Now) /\ Proceeds
<1> DEFINE r == Decision(Entries, lookahead.symbol)
           t == Reduction(stack, r)
           kept == Len(stack) - Len(yyrules[r].rhs)
<1>1. WellStacked(stack) /\ Top(stack) \in DOMAIN yytable
  BY TopIsAState DEF IInv, ParserOK
<1>2. r # NoRule /\ Complete(Top(stack), r)
  BY <1>1, DecisionsFit DEF Reduce, Entries
<1>3. /\ Parsing /\ UNCHANGED <<mode, read, yylval>> /\ yynewstate(t, lookahead)
      /\ lookahead = None => Entries.tokenless
  BY DEF Reduce, lexerVars
<1>4. ~Asks(Now) /\ ~Shifts(Now)
  BY <1>2, <1>3, NowIs DEF Asks, Shifts, Decision
<1>5. ~Refuses(Now) /\ NextStack(Now) = t /\ NextToken(Now) = lookahead
  BY <1>2, <1>4, NowIs DEF Refuses, Rule, NextStack, NextToken
<1> HIDE DEF r
<1>6. /\ WellStacked(t) /\ Len(stack) \in Nat
      /\ kept \in 0..Len(stack) /\ Len(t) = kept + 1
      /\ t[kept + 1].symbol = yyrules[r].lhs
  BY <1>1, <1>2, ReductionIs
<1>7. yyrules[r].lhs \in LeftSymbols
  BY <1>2 DEF Complete, LeftSymbols
<1> HIDE DEF t, kept
<1>8. Len(t) <= Len(stack) + 1 /\ IsSequence(t)
  BY <1>6 DEF WellStacked
<1>9. Top(t) # YYFINAL
  BY <1>6, <1>7, FinalIs, SymbolsAre
<1>10. NextLabel(Now) # "accept"
  <2>1. Growth(t, yystacksize).label \in {"none", "exhausted", "abort"}
    BY DEF Growth
  <2> QED
    BY <1>5, <1>9, <2>1, NowIs DEF NextLabel, Label
<1> QED
  BY <1>3, <1>4, <1>5, <1>8, <1>10, EnteringProceeds

LEMMA SyntaxErrorProceeds ==
  ASSUME IInv, SyntaxError
  PROVE  ~Asks(Now) /\ Proceeds
<1>1. /\ lookahead # None /\ lookahead.symbol \notin Entries.shift
      /\ Decision(Entries, lookahead.symbol) = NoRule
      /\ has_error' = TRUE /\ error_string' = yysyntax_error(Entries, lookahead.symbol)
      /\ result' = False
  BY DEF SyntaxError, yyerror, Return
<1>2. ~Asks(Now) /\ Refuses(Now)
  BY <1>1, NowIs DEF Asks, Refuses, Shifts, Rule
<1>3. OutcomeOf(Now) = False /\ ErrorOf(Now) = yysyntax_error(Entries, lookahead.symbol)
  BY <1>2, NowIs DEF OutcomeOf, ErrorOf
<1> QED
  BY <1>1, <1>2, <1>3, OutcomesArePlain DEF Proceeds, Stops

-----------------------------------------------------------------------------
(* The invariant.                                                          *)

\* After a parse, has_error says what came of it.
Told ==
  ~Parsing => IF has_error THEN last.outcome = False
              ELSE last.outcome.kind \in {"nothing", "tree"}

HInv ==
  /\ IInv /\ Quiet /\ RootKept
  /\ Parsing => Reached(Now) /\ Fresh(Now)
  /\ Genuine(last) /\ Genuine(witness)
  /\ Told /\ ErrorOfLastParse

LEMMA HInitially == HInit => HInv
<1> SUFFICES ASSUME HInit PROVE HInv
  OBVIOUS
<1>1. Init /\ last = Unparsed /\ witness = Unparsed
  BY DEF HInit, Unparsed
<1>2. IInv
  BY <1>1, Initially
<1>3. ~Parsing
  BY <1>1 DEF Init, Parsing, Nothing, Pending, Answer
<1>4. Quiet /\ RootKept
  BY <1>1, <1>3, EmptyStack DEF Init, Quiet, RootKept
<1>5. Genuine(last) /\ Genuine(witness)
  BY <1>1 DEF Genuine
<1>6. last.outcome = Nothing
  BY <1>1 DEF Unparsed, Parse
<1>7. Told /\ ErrorOfLastParse
  BY <1>1, <1>6 DEF Init, Told, ErrorOfLastParse, Nothing, Answer
<1> QED
  BY <1>2, <1>3, <1>4, <1>5, <1>7 DEF HInv

\* What is remembered of a parse that stops.
LEMMA Remembered ==
  ASSUME HInv, Parsing, ~Asks(Now), Proceeds, result' # Pending, Remember
  PROVE  Genuine(last') /\ Genuine(witness')
<1>1. Stops(Now)
  BY DEF Proceeds
<1>2. last' = Parse(Now.read, AtEnd(Now), OutcomeOf(Now), ErrorOf(Now))
  BY NowIs DEF Remember, AtEnd, Proceeds
<1>3. Now.read = <<>> => AtEnd(Now)
  BY BeginAsks DEF HInv, Fresh
<1>4. Genuine(last')
  BY <1>1, <1>2, <1>3 DEF Genuine, HInv
<1> QED
  BY <1>4 DEF Remember, HInv

\* has_error after a parse that stops.
LEMMA ReturnTells ==
  ASSUME IInv, Parsing, Shift \/ Reduce \/ SyntaxError, result' # Pending
  PROVE  result' = IF has_error' THEN False ELSE Answer("tree", Converted(ast_root'))
<1>1. CASE SyntaxError
  BY <1>1 DEF SyntaxError, Return
<1>2. CASE Shift \/ Reduce
  <2>1. \E s, token : yynewstate(s, token)
    BY <1>2 DEF Shift, Reduce
  <2> QED
    BY <2>1 DEF yynewstate, Return, Parsing
<1> QED
  BY <1>1, <1>2

LEMMA ParserHStep ==
  ASSUME HInv, HNext, Shift \/ Reduce \/ SyntaxError
  PROVE  HInv'
<1>1. Next /\ Parsing
  BY DEF HNext, Shift, Reduce, SyntaxError
<1>2. IInv' /\ Quiet' /\ RootKept'
  BY <1>1, NextStep, QuietStep, RootStep DEF HInv
<1>3. ~Asks(Now) /\ Proceeds
  BY ShiftProceeds, ReduceProceeds, SyntaxErrorProceeds DEF HInv
<1>4. CASE result' = Pending
  <2>1. UNCHANGED <<last, witness>> /\ Parsing'
    BY <1>4 DEF HNext, historyVars, Parsing
  <2>2. Now' = Moved(Now) /\ ~Stops(Now)
    BY <1>3, <1>4 DEF Proceeds
  <2>3. Reached(Moved(Now)) /\ Fresh(Moved(Now))
    BY <1>1, <1>3, <2>2, MovedFollows, TraceGoesOn DEF HInv
  <2>4. Reached(Now') /\ Fresh(Now')
    BY <2>2, <2>3
  <2>5. Told' /\ ErrorOfLastParse'
    BY <1>4, <2>1 DEF Told, ErrorOfLastParse, Pending, Answer
  <2> QED
    BY <1>2, <2>1, <2>4, <2>5 DEF HInv, Genuine
<1>5. CASE result' # Pending
  <2>1. Remember /\ ~Parsing'
    BY <1>1, <1>5 DEF HNext, Parsing
  <2>2. Genuine(last') /\ Genuine(witness')
    BY <1>1, <1>3, <1>5, <2>1, Remembered
  <2>3. /\ result' = IF has_error' THEN False ELSE Answer("tree", Converted(ast_root'))
        /\ last'.outcome = result'
    BY <1>1, <1>5, <2>1, ReturnTells DEF HInv, Remember, Parse
  <2>4. Told' /\ ErrorOfLastParse'
    BY <2>3 DEF Told, ErrorOfLastParse, Answer, False
  <2> QED
    BY <1>2, <2>1, <2>2, <2>4 DEF HInv, Genuine
<1> QED
  BY <1>4, <1>5

LEMMA LexHStep ==
  ASSUME HInv, HNext, yylex
  PROVE  HInv'
<1>1. Next /\ Parsing /\ UNCHANGED <<result, has_error>>
  BY DEF HNext, yylex, sessionVars
<1>2. Parsing' /\ UNCHANGED <<last, witness>>
  BY <1>1 DEF HNext, historyVars, Parsing
<1>3. IInv' /\ Quiet' /\ RootKept'
  BY <1>1, NextStep, QuietStep, RootStep DEF HInv
<1>4. Follows(Now, Now') /\ Towards(Now, Now') /\ Fresh(Now')
  BY LexFollows DEF HInv
<1>5. Reached(Now')
  <2> DEFINE d == Now'
  <2>1. Follows(Now, d) /\ Towards(Now, d) /\ Reached(Now)
    BY <1>1, <1>4 DEF HInv
  <2> HIDE DEF d
  <2>2. Reached(d)
    BY <2>1, TraceGoesOn
  <2> QED
    BY <2>2 DEF d
<1>6. Told' /\ ErrorOfLastParse'
  BY <1>1, <1>2 DEF HInv, Told, ErrorOfLastParse
<1> QED
  BY <1>2, <1>3, <1>4, <1>5, <1>6 DEF HInv, Genuine

LEMMA ParseHBegins ==
  ASSUME HInv, HNext, omnilang_parse
  PROVE  HInv'
<1>1. Next /\ ~Parsing /\ Parsing'
  BY ParseBegins DEF HNext, HInv, omnilang_parse
<1>2. UNCHANGED <<last, witness>>
  BY <1>1 DEF HNext, historyVars
<1>3. IInv' /\ Quiet' /\ RootKept'
  BY <1>1, NextStep, QuietStep, RootStep DEF HInv
<1>4. Now' = Begin
  <2>1. yylval' = Null
    BY <1>1 DEF HInv, Quiet, omnilang_parse
  <2> QED
    BY <2>1 DEF Now, Begin, omnilang_parse, reset_to_initial, Started
<1>5. Reached(Now') /\ Fresh(Now')
  BY <1>4, TraceBegins DEF Fresh
<1>6. Told' /\ ErrorOfLastParse'
  BY <1>1 DEF Told, ErrorOfLastParse, omnilang_parse, Pending, Answer
<1> QED
  BY <1>2, <1>3, <1>5, <1>6 DEF HInv, Genuine

LEMMA AnswerHStep ==
  ASSUME HInv, HNext, RefusedParameters \/ omnilang_get_error
  PROVE  HInv'
<1>1. Next /\ ~Parsing /\ ~Parsing' /\ UNCHANGED has_error
  BY AnswerStep DEF HNext, HInv, RefusedParameters, omnilang_get_error, sessionVars
<1>2. UNCHANGED <<last, witness>>
  BY <1>1 DEF HNext, historyVars
<1>3. IInv' /\ Quiet' /\ RootKept'
  BY <1>1, NextStep, QuietStep, RootStep DEF HInv
<1>4. Told'
  BY <1>1, <1>2 DEF HInv, Told
<1>5. ErrorOfLastParse'
  BY <1>1, <1>2 DEF HInv, Told, ErrorOfLastParse, RefusedParameters, omnilang_get_error, False, Answer
<1> QED
  BY <1>1, <1>2, <1>3, <1>4, <1>5 DEF HInv, Genuine

LEMMA HNextStep ==
  ASSUME HInv, [HNext]_<<vars, historyVars>>
  PROVE  HInv'
<1>1. CASE UNCHANGED <<vars, historyVars>>
  <2>1. IInv' /\ Quiet' /\ RootKept'
    BY <1>1, NextStep, QuietStep, RootStep DEF HInv
  <2>2. Parsing' = Parsing /\ Now' = Now
    BY <1>1 DEF Parsing, Now, vars, lexerVars, parserVars
  <2>3. Told' /\ ErrorOfLastParse'
    BY <1>1 DEF HInv, Told, ErrorOfLastParse, Parsing, vars, sessionVars, historyVars
  <2>4. UNCHANGED <<last, witness>>
    BY <1>1 DEF historyVars
  <2> QED
    BY <2>1, <2>2, <2>3, <2>4 DEF HInv, Genuine
<1>2. CASE HNext
  BY <1>2, LexHStep, ParserHStep, ParseHBegins, AnswerHStep DEF HNext, Next, yyparse
<1> QED
  BY <1>1, <1>2

LEMMA HInvariance == HSpec => []HInv
<1> QED
  BY HInitially, HNextStep, PTL DEF HSpec

\* The same code gives the same tree, or the same error, whatever was parsed in
\* between: for any codes, rules, actions and tables, and any depths of the stack.
THEOREM ParsesRepeat == HSpec => []Repeatable
<1>1. HInv => Repeatable
  BY GenuineAgree DEF HInv, Repeatable
<1> QED
  BY <1>1, HInvariance, PTL

\* omnilang_get_error speaks of the last parse, however the calls follow each other.
THEOREM ErrorsAreOfTheLastParse == HSpec => []ErrorOfLastParse
<1>1. HInv => ErrorOfLastParse
  BY DEF HInv
<1> QED
  BY <1>1, HInvariance, PTL

=============================================================================
