-------------------------------- MODULE Lalr --------------------------------
(***************************************************************************)
(* What bison makes of the grammar: the LALR(1) automaton, with conflicts  *)
(* resolved by precedence.  A state of the automaton is a set of items     *)
(* <<r, d>>: the parser has seen the first d symbols of rule r.            *)
(* Lookaheads are computed from the automaton's transitions on             *)
(* nonterminals, as bison does (DeRemer and Pennello).                     *)
(*                                                                         *)
(* The operators take what they depend on as parameters; what they are     *)
(* for this grammar has a name of its own, so that TLC computes it once.   *)
(***************************************************************************)
EXTENDS Grammar, FiniteSets, FiniteSetsExt

\* The rules with their numbers, and the one that bison adds.
Numbered(rules) ==
  [r \in 0..Len(rules) |->
     IF r = Accepting THEN Rule("$accept", <<rules[1].lhs, "$end">>, Pass) ELSE rules[r]]

\* The least set that includes S and what step adds to it.
RECURSIVE Saturated(_, _)
Saturated(S, step) ==
  LET T == S \cup UNION {step[x] : x \in S}
  IN  IF T = S THEN S ELSE Saturated(T, step)

\* The symbols that derive the empty text, from S on.
RECURSIVE Nullable(_, _)
Nullable(G, S) ==
  LET T == {G[r].lhs : r \in {q \in DOMAIN G : ToSet(G[q].rhs) \subseteq S}}
  IN  IF T = S THEN S ELSE Nullable(G, T)

LeftSides(G)  == {G[r].lhs : r \in DOMAIN G}
RightSides(G) == UNION {ToSet(G[r].rhs) : r \in DOMAIN G}

Productions  == Numbered(Rules)
Nonterminals == LeftSides(Productions)
Tokens       == RightSides(Productions) \ Nonterminals

-----------------------------------------------------------------------------
(* The automaton.                                                          *)

\* The symbol after the dot of an item, "" at the end of its rule.
Ahead(G, item) ==
  IF item[2] = Len(G[item[1]].rhs) THEN "" ELSE G[item[1]].rhs[item[2] + 1]

\* The nonterminals that begin a rule of A.
First(G, nonterminals) ==
  [A \in nonterminals |->
     {Ahead(G, <<r, 0>>) : r \in {q \in DOMAIN G : G[q].lhs = A}} \cap nonterminals]

\* Those that may begin the text of A, A included.
Corners(first) == [A \in DOMAIN first |-> Saturated({A}, first)]

Closure(G, corners, kernel) ==
  LET wanted == {Ahead(G, item) : item \in kernel} \cap DOMAIN corners
      begun  == UNION {corners[A] : A \in wanted}
  IN  kernel \cup {<<r, 0>> : r \in {q \in DOMAIN G : G[q].lhs \in begun}}

\* The states that follow a state, by the symbol read.
Successors(G, corners, kernel) ==
  LET closure == Closure(G, corners, kernel)
  IN  [X \in {Ahead(G, item) : item \in closure} \ {""} |->
         {<<item[1], item[2] + 1>> : item \in {i \in closure : Ahead(G, i) = X}}]

\* The states found so far with their successors, and those that are new.
RECURSIVE Explored(_, _, _, _)
Explored(G, corners, found, fresh) ==
  IF fresh = {} THEN found
  ELSE LET more == [s \in fresh |-> Successors(G, corners, s)] @@ found
           next == UNION {{more[s][X] : X \in DOMAIN more[s]} : s \in fresh}
       IN  Explored(G, corners, more, next \ DOMAIN more)

Start == {<<Accepting, 0>>}

Automaton(G, nonterminals) ==
  LET found == Explored(G, Corners(First(G, nonterminals)), <<>>, {Start})
  IN  [s \in DOMAIN found |-> [X \in DOMAIN found[s] |-> found[s][X]]]

Goto == Automaton(Productions, Nonterminals)

-----------------------------------------------------------------------------
(* Lookaheads.  The transition of state s on nonterminal A is <<s, A>>.    *)

Transitions(goto, nonterminals) ==
  UNION {{<<s, A>> : A \in DOMAIN goto[s] \cap nonterminals} : s \in DOMAIN goto}

\* The states that reading rule r from state s goes through, s first.
Path(G, goto, s, r) ==
  LET path[d \in 0..Len(G[r].rhs)] == IF d = 0 THEN s ELSE goto[path[d - 1]][G[r].rhs[d]]
  IN  path

\* Each rule with each transition that it derives, and where it leads.
Derivations(G, goto, transitions) ==
  UNION {{[of |-> t, rule |-> r, path |-> Path(G, goto, t[1], r)] :
            r \in {q \in DOMAIN G : G[q].lhs = t[2]}} : t \in transitions}

\* <<u, t>>: what may follow t may also follow u, a transition on a symbol of a
\* rule that derives t, when all after it can be empty.
Ends(G, derivations, empty) ==
  UNION {LET rhs == G[n.rule].rhs
         IN  {<<<<n.path[d - 1], rhs[d]>>, n.of>> :
                d \in {i \in DOMAIN rhs : ToSet(SubSeq(rhs, i + 1, Len(rhs))) \subseteq empty}} :
         n \in derivations}

\* The transitions whose tokens may follow t too: those on empty symbols after
\* it, and those that it ends.
Sources(goto, transitions, ends, empty) ==
  [t \in transitions |->
     LET next == goto[t[1]][t[2]]
     IN  {<<next, A>> : A \in DOMAIN goto[next] \cap empty} \cup {e[2] : e \in {f \in ends : f[1] = t}}]

\* The tokens that may follow each transition.
Follow(goto, tokens, sources) ==
  [t \in DOMAIN sources |->
     UNION {DOMAIN goto[goto[u[1]][u[2]]] \cap tokens : u \in Saturated({t}, sources)}]

\* For each state, the rules that it may reduce with the tokens before which it may.
Lookaheads(G, goto, nonterminals, tokens) ==
  LET transitions == Transitions(goto, nonterminals)
      derivations == Derivations(G, goto, transitions)
      empty       == Nullable(G, {})
      follow      == Follow(goto, tokens, Sources(goto, transitions, Ends(G, derivations, empty), empty))
  IN  [s \in DOMAIN goto |->
         UNION {{<<n.rule, token>> : token \in follow[n.of]} :
                n \in {m \in derivations : m.path[Len(G[m.rule].rhs)] = s}}]

-----------------------------------------------------------------------------
(* What the parser may do in a state, given the next token.                *)

\* The level of each token, 0 where there is no declaration.
Level(tokens, levels) ==
  [token \in tokens |-> Max({0} \cup {i \in DOMAIN levels : token \in levels[i]})]

\* The level of a rule is that of its last token.
RuleLevel(G, level) ==
  [r \in DOMAIN G |->
     LET place == Max({0} \cup {i \in DOMAIN G[r].rhs : G[r].rhs[i] \in DOMAIN level})
     IN  IF place = 0 THEN 0 ELSE level[G[r].rhs[place]]]

\* The part of the tables for one state, with its successors: the tokens that may
\* be shifted, and the rules that may be reduced before a token.  Where both
\* are possible and both have a level, the higher one wins; of equal levels,
\* %left reduces and %nonassoc does neither.
Resolved(successors, lookaheads, level, ruleLevel) ==
  LET Reducible(token)   == {l[1] : l \in {m \in lookaheads : m[2] = token}}
      Declared(token, r) == level[token] > 0 /\ ruleLevel[r] > 0
  IN  [goto   |-> successors,
       shift  |-> {token \in DOMAIN successors \cap DOMAIN level :
                     \A r \in Reducible(token) :
                       Declared(token, r) => level[token] > ruleLevel[r]},
       reduce |-> [token \in DOMAIN level |->
                     {r \in Reducible(token) :
                        token \in DOMAIN successors /\ Declared(token, r) =>
                          \/ level[token] < ruleLevel[r]
                          \/ level[token] = ruleLevel[r] /\ token \in LeftAssociative}]]

ActionsOf(G, goto, nonterminals, tokens, levels) ==
  LET lookaheads == Lookaheads(G, goto, nonterminals, tokens)
      level      == Level(tokens, levels)
      ruleLevel  == RuleLevel(G, level)
  IN  [s \in DOMAIN goto |-> Resolved(goto[s], lookaheads[s], level, ruleLevel)]

Actions == ActionsOf(Productions, Goto, Nonterminals, Tokens, Levels)

\* The rule that the state reduces before each token.  Of several that are left
\* the first one is taken, and a shift goes before all of them.
Explicit(row) ==
  [token \in DOMAIN row.reduce |->
     IF token \in row.shift \/ row.reduce[token] = {} THEN NoRule ELSE Min(row.reduce[token])]

\* The rule that the state reduces before most tokens, the first of them.
MostCommon(explicit) ==
  LET Uses(r) == Cardinality({token \in DOMAIN explicit : explicit[token] = r})
      rules   == {explicit[token] : token \in DOMAIN explicit} \ {NoRule}
  IN  IF rules = {} THEN NoRule
      ELSE Min({r \in rules : \A q \in rules : Uses(q) <= Uses(r)})

\* The row as bison packs it.  What the state reduces most often it reduces by
\* default: before every token that it neither shifts nor, by %nonassoc, refuses.
\* Where that is all it does it asks for no token.
Packed(row, explicit, default) ==
  LET refused == {token \in DOMAIN row.goto \cap DOMAIN explicit :
                    token \notin row.shift /\ row.reduce[token] = {}}
  IN  [goto     |-> row.goto,
       shift    |-> row.shift,
       reduce   |-> row.reduce,
       default  |-> default,
       others   |-> [token \in {t \in DOMAIN explicit : explicit[t] \notin {NoRule, default}}
                                 \cup (IF default = NoRule THEN {} ELSE refused) |-> explicit[token]],
       tokenless |-> /\ default # NoRule
                     /\ row.shift \cup refused = {}
                     /\ \A token \in DOMAIN explicit : explicit[token] \in {NoRule, default}]

Row(row) == Packed(row, Explicit(row), MostCommon(Explicit(row)))

\* The tables of the parser, for each state.
TablesOf(actions) == [s \in DOMAIN actions |-> Row(actions[s])]

Tables == TablesOf(Actions)

=============================================================================
