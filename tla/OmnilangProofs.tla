--------------------------- MODULE OmnilangProofs ---------------------------
(***************************************************************************)
(* What module Omnilang promises, for any rules and tables that fit        *)
(* together: the parser's stack always spells what its state says, so that *)
(* a reduction finds its symbols, and no failure stays untold.             *)
(***************************************************************************)
EXTENDS Omnilang, FiniteFacts, SequenceTheorems

-----------------------------------------------------------------------------
(* The tables.                                                             *)

\* What TablesAssumption says of one state, and of one that follows it.
LEMMA RowsFit ==
  ASSUME NEW s \in DOMAIN yytable
  PROVE  /\ s \subseteq (DOMAIN yyrules) \X Nat
         /\ yytable[s].shift \subseteq (DOMAIN yytable[s].goto) \ LeftSymbols
         /\ DOMAIN yytable[s].goto \subseteq Symbols
         /\ yytable[s].default # NoRule => Complete(s, yytable[s].default)
         /\ \A t \in DOMAIN yytable[s].others :
              yytable[s].others[t] # NoRule => Complete(s, yytable[s].others[t])
         /\ "root" \in DOMAIN yytable[s].goto => s = State0
         /\ "$end" \in DOMAIN yytable[s].goto => yytable[s].goto["$end"] = YYFINAL
BY TablesAssumption

LEMMA GotosFit ==
  ASSUME NEW s \in DOMAIN yytable, NEW X \in DOMAIN yytable[s].goto
  PROVE  /\ yytable[s].goto[X] \in DOMAIN yytable
         /\ FollowsFrom(s, X, yytable[s].goto[X])
BY TablesAssumption

\* An item of a state that is entered on X.
LEMMA ItemsFit ==
  ASSUME NEW s \in DOMAIN yytable, NEW X \in DOMAIN yytable[s].goto,
         NEW item \in yytable[s].goto[X]
  PROVE  /\ item[1] \in DOMAIN yyrules
         /\ item[2] \in Nat /\ item[2] > 0
         /\ yyrules[item[1]].rhs[item[2]] = X
         /\ \/ <<item[1], item[2] - 1>> \in s
            \/ item[2] = 1 /\ yyrules[item[1]].lhs \in DOMAIN yytable[s].goto
<1>1. yytable[s].goto[X] \in DOMAIN yytable /\ FollowsFrom(s, X, yytable[s].goto[X])
  BY GotosFit
<1>2. item \in (DOMAIN yyrules) \X Nat
  BY <1>1, RowsFit
<1>3. item[1] \in DOMAIN yyrules /\ item[2] \in Nat
  BY <1>2
<1>4. Len(yyrules[item[1]].rhs) \in Nat
  BY <1>3, RulesAssumption, LenProperties
<1>5. /\ item[2] \in 1..Len(yyrules[item[1]].rhs)
      /\ yyrules[item[1]].rhs[item[2]] = X
      /\ \/ <<item[1], item[2] - 1>> \in s
         \/ item[2] = 1 /\ yyrules[item[1]].lhs \in DOMAIN yytable[s].goto
  BY <1>1 DEF FollowsFrom
<1> QED
  BY <1>3, <1>4, <1>5

-----------------------------------------------------------------------------
(* Stacks.                                                                 *)

IsSequence(s) == s \in Seq({s[i] : i \in DOMAIN s})

LEMMA SequencesAre ==
  ASSUME NEW S, NEW s \in Seq(S)
  PROVE  IsSequence(s)
<1> DEFINE T == {s[i] : i \in DOMAIN s}
<1>1. Len(s) \in Nat /\ s \in [1..Len(s) -> S]
  BY LenProperties
<1>2. s \in [1..Len(s) -> T]
  BY <1>1
<1> QED
  BY <1>1, <1>2, SeqDef DEF IsSequence

\* The state that the first i symbols of a stack lead to.
StateAt(s, i) == IF i = 0 THEN State0 ELSE s[i].state

\* For each item of that state: the symbols before the dot are on the stack, and the
\* state below them can be left on the left side of the rule.
SpellsItems(s, i) ==
  \A item \in StateAt(s, i) :
    LET r == item[1]
        d == item[2]
    IN  /\ d <= i
        /\ \A j \in 1..d : s[i - d + j].symbol = yyrules[r].rhs[j]
        /\ r # Accepting => yyrules[r].lhs \in DOMAIN yytable[StateAt(s, i - d)].goto

WellStacked(s) ==
  /\ IsSequence(s)
  /\ \A i \in 1..Len(s) : s[i].symbol \in Symbols /\ s[i].state \in (DOMAIN yytable) \ {State0}
  /\ \A i \in 0..Len(s) : SpellsItems(s, i)

LEMMA PushedIs ==
  ASSUME NEW s, IsSequence(s), NEW token
  PROVE  LET t == Pushed(s, token)
         IN  /\ IsSequence(t)
             /\ Len(s) \in Nat /\ Len(t) = Len(s) + 1
             /\ \A i \in 1..Len(s) : t[i] = s[i]
             /\ t[Len(s) + 1] = [symbol |-> token.symbol, value |-> token.value,
                                 state |-> yytable[Top(s)].goto[token.symbol]]
             /\ Top(t) = yytable[Top(s)].goto[token.symbol]
             /\ Last(t) = t[Len(s) + 1]
<1> DEFINE S == {s[i] : i \in DOMAIN s}
           e == [symbol |-> token.symbol, value |-> token.value,
                 state |-> yytable[Top(s)].goto[token.symbol]]
           t == Append(s, e)
<1>1. s \in Seq(S \cup {e}) /\ e \in S \cup {e}
  <2>1. s \in Seq(S)
    BY DEF IsSequence
  <2> HIDE DEF S, e
  <2> QED
    BY <2>1
<1>2. e.state = yytable[Top(s)].goto[token.symbol]
  OBVIOUS
<1>3. t = Pushed(s, token)
  BY DEF Pushed
<1> HIDE DEF S, e
<1>4. /\ t \in Seq(S \cup {e}) /\ Len(s) \in Nat /\ Len(t) = Len(s) + 1
      /\ \A i \in 1..Len(s) : t[i] = s[i]
      /\ t[Len(s) + 1] = e
  BY <1>1
<1>5. t # <<>>
  BY <1>4
<1>6. Last(t) = e
  BY <1>4 DEF Last
<1>7. IsSequence(t)
  BY <1>4, SequencesAre
<1> HIDE DEF t
<1> QED
  BY <1>2, <1>3, <1>4, <1>5, <1>6, <1>7 DEF Top, e

LEMMA TopIs ==
  ASSUME NEW s, IsSequence(s)
  PROVE  Top(s) = StateAt(s, Len(s)) /\ Len(s) \in Nat
<1> DEFINE S == {s[i] : i \in DOMAIN s}
<1>1. s \in Seq(S)
  BY DEF IsSequence
<1> HIDE DEF S
<1>2. CASE s = <<>>
  BY <1>2 DEF Top, StateAt
<1>3. CASE s # <<>>
  <2>1. Len(s) \in Nat /\ Len(s) # 0
    BY <1>1, <1>3, EmptySeq, LenProperties
  <2> QED
    BY <1>3, <2>1 DEF Top, StateAt, Last
<1> QED
  BY <1>2, <1>3

LEMMA TopIsAState ==
  ASSUME NEW s, WellStacked(s)
  PROVE  Top(s) \in DOMAIN yytable
<1>1. Top(s) = StateAt(s, Len(s)) /\ Len(s) \in Nat
  BY TopIs DEF WellStacked
<1>2. CASE Len(s) = 0
  BY <1>1, <1>2, TablesAssumption DEF StateAt
<1>3. CASE Len(s) # 0
  <2>1. Len(s) \in 1..Len(s)
    BY <1>1, <1>3
  <2> QED
    BY <1>1, <1>3, <2>1 DEF StateAt, WellStacked
<1> QED
  BY <1>2, <1>3

\* A stack that is cut is one that was there before.
LEMMA CutIs ==
  ASSUME NEW s, WellStacked(s), NEW n \in 0..Len(s)
  PROVE  /\ WellStacked(SubSeq(s, 1, n))
         /\ Len(SubSeq(s, 1, n)) = n
         /\ \A i \in 1..n : SubSeq(s, 1, n)[i] = s[i]
         /\ Top(SubSeq(s, 1, n)) = StateAt(s, n)
<1> DEFINE S == {s[i] : i \in DOMAIN s}
           t == SubSeq(s, 1, n)
<1>1. s \in Seq(S)
  BY DEF WellStacked, IsSequence
<1> HIDE DEF S
<1>2. t \in Seq(S) /\ Len(s) \in Nat /\ Len(t) = n /\ \A i \in 1..n : t[i] = s[i]
  BY <1>1, LenProperties, SubSeqProperties
<1> HIDE DEF t
<1>3. IsSequence(t)
  BY <1>2, SequencesAre
<1>4. ASSUME NEW i \in 0..n
      PROVE  StateAt(t, i) = StateAt(s, i)
  BY <1>2, <1>4 DEF StateAt
<1>5. ASSUME NEW i \in 0..n
      PROVE  SpellsItems(t, i)
  <2> SUFFICES ASSUME NEW item \in StateAt(t, i)
               PROVE  /\ item[2] <= i
                      /\ \A j \in 1..item[2] : t[i - item[2] + j].symbol = yyrules[item[1]].rhs[j]
                      /\ item[1] # Accepting =>
                           yyrules[item[1]].lhs \in DOMAIN yytable[StateAt(t, i - item[2])].goto
    BY DEF SpellsItems
  <2>1. SpellsItems(s, i) /\ item \in StateAt(s, i)
    BY <1>2, <1>4 DEF WellStacked
  <2>2. StateAt(s, i) \in DOMAIN yytable
    BY <1>2, TablesAssumption DEF WellStacked, StateAt
  <2>3. item[2] \in Nat
    BY <2>1, <2>2, TablesAssumption
  <2>4. item[2] <= i
    BY <2>1 DEF SpellsItems
  <2>5. ASSUME NEW j \in 1..item[2]
        PROVE  t[i - item[2] + j] = s[i - item[2] + j]
    BY <1>2, <2>3, <2>4
  <2>6. StateAt(t, i - item[2]) = StateAt(s, i - item[2])
    BY <1>2, <1>4, <2>3, <2>4
  <2> QED
    BY <2>1, <2>4, <2>5, <2>6 DEF SpellsItems
<1>6. WellStacked(t)
  BY <1>2, <1>3, <1>5 DEF WellStacked
<1>7. Top(t) = StateAt(s, n)
  BY <1>2, <1>3, <1>4, TopIs
<1> QED
  BY <1>2, <1>6, <1>7 DEF t

LEMMA PushKeeps ==
  ASSUME NEW s, WellStacked(s), NEW token, token.symbol \in DOMAIN yytable[Top(s)].goto
  PROVE  WellStacked(Pushed(s, token))
<1> DEFINE t == Pushed(s, token)
           X == token.symbol
           next == yytable[Top(s)].goto[X]
           n == Len(s) + 1
<1>1. /\ IsSequence(t) /\ Len(s) \in Nat /\ Len(t) = n
      /\ \A i \in 1..Len(s) : t[i] = s[i]
      /\ t[n].symbol = X /\ t[n].state = next
  <2>1. /\ IsSequence(t) /\ Len(s) \in Nat /\ Len(t) = n
        /\ \A i \in 1..Len(s) : t[i] = s[i]
        /\ t[n] = [symbol |-> X, value |-> token.value, state |-> next]
    BY PushedIs DEF WellStacked
  <2> HIDE DEF t, X, next, n
  <2> QED
    BY <2>1
<1>2. Top(s) \in DOMAIN yytable /\ Top(s) = StateAt(s, Len(s))
  BY TopIsAState, TopIs DEF WellStacked
<1>3. next \in DOMAIN yytable /\ X \in Symbols
  BY <1>2, GotosFit, RowsFit
<1> HIDE DEF t, X, next
<1>4. \A i \in 0..Len(s) : StateAt(t, i) = StateAt(s, i)
  BY <1>1 DEF StateAt
<1>5. StateAt(t, n) = next
  BY <1>1 DEF StateAt
<1>6. ASSUME NEW i \in 0..Len(s), NEW item \in StateAt(s, i)
      PROVE  /\ item[1] \in DOMAIN yyrules /\ item[2] \in 0..i
             /\ \A j \in 1..item[2] : s[i - item[2] + j].symbol = yyrules[item[1]].rhs[j]
             /\ item[1] # Accepting =>
                  yyrules[item[1]].lhs \in DOMAIN yytable[StateAt(s, i - item[2])].goto
  <2>1. StateAt(s, i) \in DOMAIN yytable
    BY <1>1, TablesAssumption DEF WellStacked, StateAt
  <2>2. item[2] \in Nat /\ item[1] \in DOMAIN yyrules
    BY <2>1, TablesAssumption
  <2>3. SpellsItems(s, i)
    BY DEF WellStacked
  <2>4. item[2] <= i
    BY <2>3 DEF SpellsItems
  <2> QED
    BY <1>1, <2>2, <2>3, <2>4 DEF SpellsItems
<1>7. ASSUME NEW i \in 0..Len(s)
      PROVE  SpellsItems(t, i)
  <2> SUFFICES ASSUME NEW item \in StateAt(t, i)
               PROVE  /\ item[2] <= i
                      /\ \A j \in 1..item[2] : t[i - item[2] + j].symbol = yyrules[item[1]].rhs[j]
                      /\ item[1] # Accepting =>
                           yyrules[item[1]].lhs \in DOMAIN yytable[StateAt(t, i - item[2])].goto
    BY DEF SpellsItems
  <2>1. item \in StateAt(s, i)
    BY <1>4
  <2>2. ASSUME NEW j \in 1..item[2]
        PROVE  t[i - item[2] + j] = s[i - item[2] + j]
    BY <1>1, <1>6, <2>1
  <2>3. StateAt(t, i - item[2]) = StateAt(s, i - item[2])
    BY <1>1, <1>4, <1>6, <2>1
  <2> QED
    BY <1>6, <2>1, <2>2, <2>3
<1>8. SpellsItems(t, n)
  <2> SUFFICES ASSUME NEW item \in next
               PROVE  /\ item[2] <= n
                      /\ \A j \in 1..item[2] : t[n - item[2] + j].symbol = yyrules[item[1]].rhs[j]
                      /\ item[1] # Accepting =>
                           yyrules[item[1]].lhs \in DOMAIN yytable[StateAt(t, n - item[2])].goto
    BY <1>5 DEF SpellsItems
  <2> DEFINE r == item[1]
             d == item[2]
  <2>1. /\ r \in DOMAIN yyrules
        /\ d \in Nat /\ d > 0
        /\ yyrules[r].rhs[d] = X
        /\ \/ <<r, d - 1>> \in Top(s)
           \/ d = 1 /\ yyrules[r].lhs \in DOMAIN yytable[Top(s)].goto
    BY <1>2, ItemsFit DEF X, next
  <2>2. d \in Nat /\ d # 0
    BY <2>1
  <2> HIDE DEF r, d
  <2>3. CASE <<r, d - 1>> \in Top(s)
    <3>1. /\ d - 1 <= Len(s)
          /\ \A j \in 1..(d - 1) : s[Len(s) - (d - 1) + j].symbol = yyrules[r].rhs[j]
          /\ r # Accepting => yyrules[r].lhs \in DOMAIN yytable[StateAt(s, Len(s) - (d - 1))].goto
      <4> DEFINE before == <<r, d - 1>>
      <4>1. before[1] = r /\ before[2] = d - 1
        OBVIOUS
      <4>2. before \in StateAt(s, Len(s)) /\ Len(s) \in 0..Len(s)
        BY <1>1, <1>2, <2>3
      <4> HIDE DEF before
      <4>3. /\ before[2] <= Len(s)
            /\ \A j \in 1..before[2] : s[Len(s) - before[2] + j].symbol = yyrules[before[1]].rhs[j]
            /\ before[1] # Accepting =>
                 yyrules[before[1]].lhs \in DOMAIN yytable[StateAt(s, Len(s) - before[2])].goto
        BY <1>6, <4>2
      <4> QED
        BY <1>1, <2>2, <4>1, <4>3
    <3>2. n - d = Len(s) - (d - 1) /\ n - d \in 0..Len(s)
      <4>1. d - 1 <= Len(s) /\ Len(s) \in Nat
        BY <1>1, <3>1
      <4> QED
        BY <2>2, <4>1
    <3>3. ASSUME NEW j \in 1..d
          PROVE  t[n - d + j].symbol = yyrules[r].rhs[j]
      <4>1. CASE j = d
        BY <1>1, <2>1, <2>2, <4>1
      <4>2. CASE j # d
        <5>1. j \in 1..(d - 1) /\ n - d + j \in 1..Len(s)
          BY <1>1, <2>2, <3>2, <4>2
        <5> QED
          BY <1>1, <3>1, <3>2, <5>1
      <4> QED
        BY <4>1, <4>2
    <3>4. StateAt(t, n - d) = StateAt(s, n - d)
      BY <1>4, <3>2
    <3> QED
      BY <1>1, <2>2, <3>1, <3>2, <3>3, <3>4 DEF r, d
  <2>4. CASE d = 1 /\ yyrules[r].lhs \in DOMAIN yytable[Top(s)].goto
    <3>1. n - d = Len(s) /\ StateAt(t, n - d) = Top(s)
      BY <1>1, <1>2, <1>4, <2>4
    <3>2. \A j \in 1..d : t[n - d + j].symbol = yyrules[r].rhs[j]
      BY <1>1, <2>1, <2>4, <3>1
    <3> QED
      BY <1>1, <2>4, <3>1, <3>2 DEF r, d
  <2> QED
    BY <2>1, <2>3, <2>4
<1>9. \A i \in 1..n : t[i].symbol \in Symbols /\ t[i].state \in (DOMAIN yytable) \ {State0}
  <2>1. next # State0
    <3>1. SUFFICES ASSUME next = State0 PROVE FALSE
      OBVIOUS
    <3>2. <<Accepting, 0>> \in yytable[Top(s)].goto[X]
      BY <3>1, TablesAssumption DEF next
    <3>3. <<Accepting, 0>>[2] > 0
      BY <1>2, <3>2, ItemsFit DEF X
    <3> QED
      BY <3>3
  <2> QED
    BY <1>1, <1>3, <2>1 DEF WellStacked
<1>10. \A i \in 0..n : SpellsItems(t, i)
  BY <1>1, <1>7, <1>8
<1>11. WellStacked(t)
  BY <1>1, <1>9, <1>10 DEF WellStacked
<1> QED
  BY <1>11 DEF t

\* The symbols of rule r are on top of the stack, and the state below them can be
\* left on the rule's left side.
FindsItsSymbols(s, r) ==
  LET rhs  == yyrules[r].rhs
      kept == Len(s) - Len(rhs)
  IN  /\ r \in DOMAIN yyrules
      /\ Len(s) \in Nat /\ Len(rhs) \in Nat /\ kept \in 0..Len(s)
      /\ \A j \in 1..Len(rhs) : s[kept + j].symbol = rhs[j]
      /\ yyrules[r].lhs \in DOMAIN yytable[StateAt(s, kept)].goto

LEMMA ReductionFindsSymbols ==
  ASSUME NEW s, WellStacked(s), NEW r, r # NoRule, Complete(Top(s), r)
  PROVE  FindsItsSymbols(s, r)
<1> DEFINE rhs == yyrules[r].rhs
           kept == Len(s) - Len(rhs)
<1>1. r \in DOMAIN yyrules /\ rhs \in Seq(Symbols)
  BY RulesAssumption DEF Complete
<1>2. Len(rhs) \in Nat
  BY <1>1, LenProperties
<1>3. Top(s) = StateAt(s, Len(s)) /\ Len(s) \in Nat
  BY TopIs DEF WellStacked
<1>4. CASE <<r, Len(rhs)>> \in Top(s)
  <2> DEFINE item == <<r, Len(rhs)>>
  <2>1. item \in StateAt(s, Len(s)) /\ item[1] = r /\ item[2] = Len(rhs)
    BY <1>3, <1>4
  <2>2. SpellsItems(s, Len(s))
    BY <1>3 DEF WellStacked
  <2> HIDE DEF item
  <2>3. /\ item[2] <= Len(s)
        /\ \A j \in 1..item[2] : s[Len(s) - item[2] + j].symbol = yyrules[item[1]].rhs[j]
        /\ item[1] # Accepting =>
             yyrules[item[1]].lhs \in DOMAIN yytable[StateAt(s, Len(s) - item[2])].goto
    BY <2>1, <2>2 DEF SpellsItems
  <2>4. kept \in 0..Len(s)
    <3>1. Len(rhs) <= Len(s)
      BY <2>1, <2>3
    <3> HIDE DEF rhs
    <3> QED
      BY <1>2, <1>3, <3>1
  <2> QED
    BY <1>1, <1>2, <1>3, <2>1, <2>3, <2>4 DEF NoRule, Accepting, FindsItsSymbols
<1>5. CASE rhs = <<>> /\ yyrules[r].lhs \in DOMAIN yytable[Top(s)].goto
  <2>1. Len(rhs) = 0
    BY <1>5
  <2>2. kept = Len(s)
    <3> HIDE DEF rhs
    <3> QED
      BY <1>3, <2>1
  <2> QED
    BY <1>1, <1>3, <1>5, <2>1, <2>2 DEF FindsItsSymbols
<1> QED
  BY <1>4, <1>5 DEF Complete

LEMMA ReductionIs ==
  ASSUME NEW s, WellStacked(s), NEW r, r # NoRule, Complete(Top(s), r)
  PROVE  LET t == Reduction(s, r)
             kept == Len(s) - Len(yyrules[r].rhs)
         IN  /\ WellStacked(t)
             /\ kept \in 0..Len(s) /\ Len(s) \in Nat /\ Len(t) = kept + 1
             /\ \A i \in 1..kept : t[i] = s[i]
             /\ t[kept + 1].symbol = yyrules[r].lhs
             /\ yyrules[r].lhs \in DOMAIN yytable[StateAt(s, kept)].goto
             /\ Top(t) = yytable[StateAt(s, kept)].goto[yyrules[r].lhs]
             /\ Last(t) = t[kept + 1]
<1> DEFINE kept == Len(s) - Len(yyrules[r].rhs)
           cut == SubSeq(s, 1, kept)
           token == Token(yyrules[r].lhs,
                          Reduced(yyrules[r], [i \in DOMAIN yyrules[r].rhs |-> s[kept + i].value]))
           t == Pushed(cut, token)
<1>1. /\ kept \in 0..Len(s) /\ Len(s) \in Nat
      /\ yyrules[r].lhs \in DOMAIN yytable[StateAt(s, kept)].goto
  BY ReductionFindsSymbols DEF FindsItsSymbols
<1>2. /\ WellStacked(cut) /\ Len(cut) = kept /\ \A i \in 1..kept : cut[i] = s[i]
      /\ Top(cut) = StateAt(s, kept)
  <2> HIDE DEF kept
  <2> QED
    BY <1>1, CutIs
<1>3. token.symbol = yyrules[r].lhs
  BY DEF Token
<1>4. t = Reduction(s, r)
  BY DEF Reduction
<1> HIDE DEF kept, cut, token
<1>5. WellStacked(t)
  BY <1>1, <1>2, <1>3, PushKeeps
<1>6. /\ Len(t) = kept + 1 /\ \A i \in 1..kept : t[i] = cut[i]
      /\ t[kept + 1] = [symbol |-> token.symbol, value |-> token.value,
                        state |-> yytable[Top(cut)].goto[token.symbol]]
      /\ Top(t) = yytable[Top(cut)].goto[token.symbol]
      /\ Last(t) = t[kept + 1]
  <2>1. IsSequence(cut)
    BY <1>2 DEF WellStacked
  <2> QED
    BY <1>2, <2>1, PushedIs
<1>7. t[kept + 1].symbol = yyrules[r].lhs
  BY <1>3, <1>6
<1> HIDE DEF t
<1> QED
  BY <1>1, <1>2, <1>3, <1>4, <1>5, <1>6, <1>7 DEF kept

\* What the tables decide can be done.
LEMMA DecisionsFit ==
  ASSUME NEW s \in DOMAIN yytable, NEW X, Decision(yytable[s], X) # NoRule
  PROVE  Complete(s, Decision(yytable[s], X))
BY RowsFit DEF Decision

LEMMA EmptyStack ==
  /\ WellStacked(<<>>)
  /\ Len(<<>>) = 0
  /\ Top(<<>>) = State0
<1>1. <<>> \in Seq(Symbols) /\ Len(<<>>) = 0
  OBVIOUS
<1>2. IsSequence(<<>>)
  BY <1>1, SequencesAre
<1>3. SpellsItems(<<>>, 0)
  <2> SUFFICES ASSUME NEW item \in State0
               PROVE  item[1] = Accepting /\ item[2] = 0
    BY DEF SpellsItems, StateAt
  <2> QED
    BY TablesAssumption
<1>4. \A i \in 0..0 : i = 0
  OBVIOUS
<1> QED
  BY <1>1, <1>2, <1>3, <1>4 DEF WellStacked, Top

-----------------------------------------------------------------------------
(* The invariant.                                                          *)

Modes == {"INITIAL", "IN_SINGLE_STRING", "IN_DOUBLE_STRING", "IN_PHP"}

LexerOK ==
  /\ mode \in Modes
  /\ read \in Seq(Lexemes)
  /\ lookahead.symbol \in Terminals \cup {"none"}

ParserOK ==
  /\ WellStacked(stack)
  /\ yystacksize \in YYINITDEPTH..(YYINITDEPTH + YYMAXDEPTH)
  /\ yyresult \in {"none", "accept", "abort", "exhausted"}

SessionOK ==
  /\ has_error \in BOOLEAN
  /\ result.kind \in {"nothing", "pending", "false", "null", "string", "tree"}

\* A parse that goes on has not failed, and has room for one more symbol.
GoesOn ==
  Parsing => ~has_error /\ yyresult = "none" /\ Len(stack) + 1 < yystacksize

IInv == LexerOK /\ ParserOK /\ SessionOK /\ GoesOn /\ FailureIsToldOf

\* A stack that has no room left grows, or the parse ends with an error: the
\* abort after the growth is never reached.
LEMMA GrowthIs ==
  ASSUME NEW s, IsSequence(s), NEW size \in YYINITDEPTH..(YYINITDEPTH + YYMAXDEPTH),
         Len(s) + 1 <= size
  PROVE  /\ Growth(s, size).size \in YYINITDEPTH..(YYINITDEPTH + YYMAXDEPTH)
         /\ Growth(s, size).label \in {"none", "exhausted"}
         /\ Growth(s, size).label = "none" => Len(s) + 1 < Growth(s, size).size
<1>1. /\ YYINITDEPTH \in Nat /\ YYINITDEPTH > 1 /\ YYMAXDEPTH \in Nat
      /\ size \in Nat /\ Len(s) \in Nat
  BY DepthAssumption, TopIs
<1>2. CASE Len(s) + 1 < size
  BY <1>2 DEF Growth
<1>3. CASE ~(Len(s) + 1 < size) /\ YYMAXDEPTH <= size
  BY <1>1, <1>3 DEF Growth
<1>4. CASE ~(Len(s) + 1 < size) /\ ~(YYMAXDEPTH <= size)
  <2> DEFINE more == Min({2 * size, YYMAXDEPTH})
  <2>1. more \in {2 * size, YYMAXDEPTH} /\ more <= YYMAXDEPTH
    <3>1. {2 * size, YYMAXDEPTH} \in SUBSET (1..(2 * size + YYMAXDEPTH))
      BY <1>1, <1>4
    <3>2. 2 * size + YYMAXDEPTH \in Nat
      BY <1>1
    <3> QED
      BY <3>1, <3>2, MinOfBounded
  <2>2. Growth(s, size) = [size |-> more, label |-> IF Len(s) + 1 >= more THEN "abort" ELSE "none"]
    BY <1>4 DEF Growth
  <2> HIDE DEF more
  <2>3. more \in Nat /\ Len(s) + 1 < more /\ size < more /\ more <= YYMAXDEPTH
    BY <1>1, <1>4, <2>1
  <2> QED
    BY <1>1, <2>2, <2>3
<1> QED
  BY <1>2, <1>3, <1>4

LEMMA Initially == Init => IInv
<1> SUFFICES ASSUME Init PROVE IInv
  OBVIOUS
<1>1. LexerOK
  BY DEF Init, LexerOK, Modes, None, Token
<1>2. ParserOK
  BY EmptyStack, DepthAssumption DEF Init, ParserOK
<1>3. SessionOK
  BY DEF Init, SessionOK, Nothing, Answer
<1>4. ~Parsing
  BY DEF Init, Parsing, Nothing, Pending, Answer
<1> QED
  BY <1>1, <1>2, <1>3, <1>4 DEF IInv, GoesOn, FailureIsToldOf, Init

LEMMA MatchesFit ==
  ASSUME NEW m \in Modes, NEW l \in LexemesIn(m), NEW value, NEW i
  PROVE  /\ Matched(m, l, value, i).mode \in Modes
         /\ Matched(m, l, value, i).token.symbol \in Terminals \cup {"none"}
<1>1. {"ERROR", "SINGLE_QUOTED", "DOUBLE_QUOTED", "PHP"} \subseteq Terminals
  BY LexemeAssumption DEF Terminals, Unexpected
<1>2. CASE m = "INITIAL"
  BY <1>1, <1>2, LexemeAssumption
    DEF Matched, Initial, LexemesIn, Matching, Refusing, Returning, None, Token, Modes
<1>3. CASE m = "IN_SINGLE_STRING"
  BY <1>1, <1>3 DEF Matched, InString, Matching, Refusing, Returning, None, Token, Modes
<1>4. CASE m = "IN_DOUBLE_STRING"
  BY <1>1, <1>4 DEF Matched, InString, Matching, Refusing, Returning, None, Token, Modes
<1>5. CASE m = "IN_PHP"
  BY <1>1, <1>5 DEF Matched, InPhp, Matching, Refusing, Returning, None, Token, Modes
<1> QED
  BY <1>2, <1>3, <1>4, <1>5 DEF Modes

LEMMA LexStep ==
  ASSUME IInv, yylex
  PROVE  IInv'
<1>1. LexerOK'
  <2>1. ASSUME NEW l \in LexemesIn(mode), Match(Matched(mode, l, yylval, Len(read) + 1), Append(read, l))
        PROVE  LexerOK'
    <3>1. mode \in Modes /\ read \in Seq(Lexemes)
      BY DEF IInv, LexerOK
    <3>2. l \in Lexemes
      BY DEF LexemesIn
    <3> QED
      BY <2>1, <3>1, <3>2, MatchesFit DEF Match, LexerOK
  <2>2. ASSUME Match(MatchedEnd(mode), read)
        PROVE  LexerOK'
    <3>1. {"$end", "UNTERMINATED_LEXING_BLOCK"} \subseteq Terminals
      BY LexemeAssumption DEF Terminals, Unexpected
    <3> QED
      BY <2>2, <3>1 DEF Match, MatchedEnd, Returning, Token, IInv, LexerOK
  <2> QED
    BY <2>1, <2>2 DEF yylex
<1>2. UNCHANGED <<stack, yystacksize, yyresult, has_error, result>>
  BY DEF yylex, sessionVars
<1> QED
  BY <1>1, <1>2 DEF IInv, ParserOK, SessionOK, GoesOn, FailureIsToldOf, Parsing

\* What a return of yyparse leaves.
LEMMA ReturnStep ==
  ASSUME IInv, NEW label, Return(label), has_error' \in BOOLEAN,
         label \in {"accept", "abort", "exhausted"},
         label = "accept" <=> ~has_error',
         UNCHANGED <<mode, read>>,
         yystacksize' \in YYINITDEPTH..(YYINITDEPTH + YYMAXDEPTH)
  PROVE  IInv' /\ ~Parsing'
<1>1. LexerOK'
  BY DEF IInv, LexerOK, Return, None, Token
<1>2. ParserOK'
  BY EmptyStack DEF ParserOK, Return
<1>3. result'.kind \in {"false", "tree"} /\ SessionOK'
  BY DEF SessionOK, Return, False, Answer
<1>4. ~Parsing'
  BY <1>3 DEF Parsing, Pending, Answer
<1> QED
  BY <1>1, <1>2, <1>3, <1>4 DEF IInv, GoesOn, FailureIsToldOf, Return

LEMMA EnteringStep ==
  ASSUME IInv, Parsing, NEW s, WellStacked(s), Len(s) <= Len(stack) + 1, NEW next,
         next.symbol \in Terminals \cup {"none"}, yynewstate(s, next), UNCHANGED <<mode, read>>
  PROVE  IInv'
<1> DEFINE label == Label(s, yystacksize)
           size == Growth(s, yystacksize).size
<1>1. IsSequence(s) /\ Len(s) \in Nat /\ Len(stack) \in Nat
  BY TopIs DEF IInv, ParserOK, WellStacked
<1>2. /\ yystacksize \in YYINITDEPTH..(YYINITDEPTH + YYMAXDEPTH) /\ Len(s) + 1 <= yystacksize
      /\ ~has_error /\ yyresult = "none"
  <2>1. yystacksize \in Nat
    BY DepthAssumption DEF IInv, ParserOK
  <2> QED
    BY <1>1, <2>1 DEF IInv, ParserOK, GoesOn
<1>3. /\ size \in YYINITDEPTH..(YYINITDEPTH + YYMAXDEPTH)
      /\ label \in {"none", "accept", "exhausted"}
      /\ label = "none" => Len(s) + 1 < size
  BY <1>1, <1>2, GrowthIs DEF Label
<1>4. /\ yystacksize' = size
      /\ IF label = "exhausted" THEN has_error' = TRUE ELSE has_error' = has_error
      /\ IF label = "none"
         THEN stack' = s /\ lookahead' = next /\ yyresult' = yyresult /\ result' = result
         ELSE Return(label)
  BY DEF yynewstate, yyerror
<1> HIDE DEF label, size
<1>5. CASE label = "none"
  BY <1>2, <1>3, <1>4, <1>5
    DEF IInv, LexerOK, ParserOK, SessionOK, GoesOn, FailureIsToldOf, Parsing
<1>6. CASE label # "none"
  <2>1. label \in {"accept", "exhausted"} /\ Return(label)
    BY <1>3, <1>4, <1>6
  <2>2. has_error' \in BOOLEAN /\ (label = "accept" <=> ~has_error')
    BY <1>2, <1>4, <2>1 DEF IInv, SessionOK
  <2> QED
    BY <1>3, <1>4, <2>1, <2>2, ReturnStep
<1> QED
  BY <1>5, <1>6

LEMMA ShiftStep ==
  ASSUME IInv, Shift
  PROVE  IInv'
<1> DEFINE s == Pushed(stack, lookahead)
<1>1. WellStacked(stack) /\ Top(stack) \in DOMAIN yytable
  BY TopIsAState DEF IInv, ParserOK
<1>2. lookahead.symbol \in DOMAIN yytable[Top(stack)].goto
  BY <1>1, RowsFit DEF Shift, Entries
<1>3. WellStacked(s)
  BY <1>1, <1>2, PushKeeps
<1>4. Len(s) = Len(stack) + 1 /\ Len(stack) \in Nat
  BY <1>1, PushedIs DEF WellStacked
<1>5. yynewstate(s, None) /\ Parsing /\ UNCHANGED <<mode, read>>
  BY DEF Shift, lexerVars
<1>6. None.symbol \in Terminals \cup {"none"}
  BY DEF None, Token
<1> HIDE DEF s
<1>7. Len(s) <= Len(stack) + 1
  BY <1>4
<1> QED
  BY <1>3, <1>5, <1>6, <1>7, EnteringStep

LEMMA ReduceStep ==
  ASSUME IInv, Reduce
  PROVE  IInv'
<1> DEFINE r == Decision(Entries, lookahead.symbol)
           s == Reduction(stack, r)
<1>1. WellStacked(stack) /\ Top(stack) \in DOMAIN yytable
  BY TopIsAState DEF IInv, ParserOK
<1>2. r # NoRule /\ Complete(Top(stack), r)
  BY <1>1, DecisionsFit DEF Reduce, Entries
<1>3. yynewstate(s, lookahead) /\ Parsing /\ UNCHANGED <<mode, read>>
  BY DEF Reduce, lexerVars
<1> HIDE DEF r
<1>4. /\ WellStacked(s) /\ Len(stack) \in Nat
      /\ Len(stack) - Len(yyrules[r].rhs) \in 0..Len(stack)
      /\ Len(s) = Len(stack) - Len(yyrules[r].rhs) + 1
  BY <1>1, <1>2, ReductionIs
<1>5. Len(s) <= Len(stack) + 1
  <2> DEFINE kept == Len(stack) - Len(yyrules[r].rhs)
  <2> HIDE DEF s, kept
  <2>1. Len(stack) \in Nat /\ kept \in 0..Len(stack) /\ Len(s) = kept + 1
    BY <1>4 DEF kept
  <2> QED
    BY <2>1
<1> HIDE DEF s
<1>6. lookahead.symbol \in Terminals \cup {"none"}
  BY DEF IInv, LexerOK
<1> QED
  BY <1>3, <1>4, <1>5, <1>6, EnteringStep

LEMMA SyntaxErrorStep ==
  ASSUME IInv, SyntaxError
  PROVE  IInv'
<1>1. has_error' = TRUE /\ Return("abort") /\ UNCHANGED <<mode, read, yystacksize>>
  BY DEF SyntaxError, yyerror, lexerVars
<1>2. yystacksize' \in YYINITDEPTH..(YYINITDEPTH + YYMAXDEPTH)
  BY <1>1 DEF IInv, ParserOK
<1> QED
  BY <1>1, <1>2, ReturnStep

LEMMA ParseBegins ==
  ASSUME IInv, omnilang_parse
  PROVE  IInv' /\ Parsing'
<1>1. /\ mode' = "INITIAL" /\ read' = <<>> /\ lookahead' = None /\ stack' = <<>>
      /\ yystacksize' = YYINITDEPTH /\ yyresult' = "none" /\ has_error' = FALSE
      /\ result' = Pending
  BY DEF omnilang_parse, Started, reset_to_initial
<1>2. LexerOK'
  BY <1>1 DEF LexerOK, Modes, None, Token
<1>3. ParserOK'
  BY <1>1, EmptyStack, DepthAssumption DEF ParserOK
<1>4. SessionOK' /\ Parsing'
  BY <1>1 DEF SessionOK, Parsing, Pending, Answer
<1>5. GoesOn'
  BY <1>1, EmptyStack, DepthAssumption DEF GoesOn
<1> QED
  BY <1>2, <1>3, <1>4, <1>5 DEF IInv, FailureIsToldOf

\* The two functions that do not parse.
LEMMA AnswerStep ==
  ASSUME IInv, RefusedParameters \/ omnilang_get_error
  PROVE  IInv' /\ ~Parsing'
<1>1. /\ UNCHANGED <<mode, read, lookahead, stack, yystacksize, yyresult, has_error>>
      /\ result'.kind \in {"false", "string", "null"} /\ ~Parsing
  BY DEF RefusedParameters, omnilang_get_error, lexerVars, parserVars, sessionVars, False, Answer
<1>2. ~Parsing' /\ SessionOK'
  BY <1>1 DEF Parsing, Pending, Answer, IInv, SessionOK
<1> QED
  BY <1>1, <1>2 DEF IInv, LexerOK, ParserOK, GoesOn, FailureIsToldOf

LEMMA NextStep ==
  ASSUME IInv, [Next]_vars
  PROVE  IInv'
<1>1. CASE UNCHANGED vars
  BY <1>1 DEF vars, lexerVars, parserVars, sessionVars, IInv, LexerOK, ParserOK, SessionOK, GoesOn,
              FailureIsToldOf, Parsing
<1>2. CASE Next
  BY <1>2, LexStep, ShiftStep, ReduceStep, SyntaxErrorStep, ParseBegins, AnswerStep
    DEF Next, yyparse
<1> QED
  BY <1>1, <1>2

LEMMA Invariance == Spec => []IInv
<1> QED
  BY Initially, NextStep, PTL DEF Spec

\* The type invariant, whatever the rules and the tables: above all, every state
\* on the stack is one that the tables have a row for.
THEOREM OmnilangTypeCorrect == Spec => []TypeOK
<1>1. IInv => TypeOK
  <2> SUFFICES ASSUME IInv PROVE TypeOK
    OBVIOUS
  <2>1. ToSet(read) \subseteq Lexemes
    <3>1. read \in Seq(Lexemes)
      BY DEF IInv, LexerOK
    <3> QED
      BY <3>1 DEF ToSet
  <2>2. \A i \in DOMAIN stack : stack[i].symbol \in Symbols /\ stack[i].state \in DOMAIN yytable
    <3>1. DOMAIN stack = 1..Len(stack)
      BY DEF IInv, ParserOK, WellStacked, IsSequence
    <3> QED
      BY <3>1 DEF IInv, ParserOK, WellStacked
  <2> QED
    BY <2>1, <2>2 DEF IInv, TypeOK, LexerOK, ParserOK, SessionOK, Modes
<1> QED
  BY <1>1, Invariance, PTL

\* An end of yyparse other than by acceptance has called yyerror, for any codes,
\* rules and tables, and any depths of the stack.
THEOREM FailuresAreTold == Spec => []FailureIsToldOf
<1>1. IInv => FailureIsToldOf
  BY DEF IInv
<1> QED
  BY <1>1, Invariance, PTL

\* yyreduce pops yyr2[rule] symbols without looking at them: they are the right
\* side of the rule, whatever reductions were made by default.
ReductionsFindTheirSymbols ==
  LET r == Decision(Entries, lookahead.symbol)
  IN  r # NoRule => FindsItsSymbols(stack, r)

THEOREM ReductionsAreSound == Spec => []ReductionsFindTheirSymbols
<1>1. ASSUME IInv
      PROVE  ReductionsFindTheirSymbols
  <2>1. WellStacked(stack) /\ Top(stack) \in DOMAIN yytable
    BY <1>1, TopIsAState DEF IInv, ParserOK
  <2> QED
    BY <2>1, DecisionsFit, ReductionFindsSymbols DEF ReductionsFindTheirSymbols, Entries
<1> QED
  BY <1>1, Invariance, PTL

-----------------------------------------------------------------------------
(* Tokens and symbols.                                                     *)

LEMMA SymbolsAre ==
  /\ "$end" \notin LeftSymbols /\ "root" \in LeftSymbols
  /\ {"none", "ERROR", "UNTERMINATED_LEXING_BLOCK"} \cap Symbols = {}
  /\ EndTokens \cap Symbols \subseteq {"$end"}
<1>1. "$end" \in Terminals /\ "none" \notin Symbols /\ Unexpected \cap Symbols = {}
  BY LexemeAssumption
<1> QED
  BY <1>1, RulesAssumption DEF Terminals, Unexpected, EndTokens

\* What state s shifts.
LEMMA ShiftsAre ==
  ASSUME NEW s \in DOMAIN yytable, NEW X \in yytable[s].shift
  PROVE  /\ X \in DOMAIN yytable[s].goto /\ X \in Symbols /\ X \notin LeftSymbols
         /\ X \notin {"none", "ERROR", "UNTERMINATED_LEXING_BLOCK"}
<1>1. X \in DOMAIN yytable[s].goto /\ X \in Symbols /\ X \notin LeftSymbols
  BY RowsFit
<1> QED
  BY <1>1, SymbolsAre

\* The stack of a parse that accepts.
LEMMA FinalIs ==
  ASSUME NEW t, WellStacked(t), Top(t) = YYFINAL
  PROVE  /\ Len(t) \in Nat /\ Len(t) >= 2
         /\ t[Len(t)].symbol = "$end" /\ t[Len(t) - 1].symbol = "root"
<1> DEFINE item == <<Accepting, 2>>
<1>1. Len(t) \in Nat /\ StateAt(t, Len(t)) = YYFINAL
  BY TopIs DEF WellStacked
<1>2. item \in StateAt(t, Len(t)) /\ item[1] = Accepting /\ item[2] = 2
  BY <1>1, TablesAssumption
<1> HIDE DEF item
<1>3. SpellsItems(t, Len(t))
  BY <1>1 DEF WellStacked
<1>4. /\ item[2] <= Len(t)
      /\ \A j \in 1..item[2] : t[Len(t) - item[2] + j].symbol = yyrules[item[1]].rhs[j]
  BY <1>2, <1>3 DEF SpellsItems
<1>5. /\ 2 <= Len(t)
      /\ \A j \in 1..2 : t[Len(t) - 2 + j].symbol = yyrules[Accepting].rhs[j]
  BY <1>2, <1>4
<1>6. yyrules[Accepting].rhs[1] = "root" /\ yyrules[Accepting].rhs[2] = "$end"
  BY RulesAssumption
<1>7. Len(t) - 2 + 1 = Len(t) - 1 /\ Len(t) - 2 + 2 = Len(t)
  BY <1>1
<1>8. t[Len(t) - 2 + 1].symbol = "root" /\ t[Len(t) - 2 + 2].symbol = "$end"
  BY <1>5, <1>6
<1> QED
  BY <1>1, <1>5, <1>7, <1>8

-----------------------------------------------------------------------------
(* What the lexer and the session leave for the next parse.                *)

\* The value under way is gone when its token is returned or refused: nothing of
\* it is there when the next code begins.
Quiet ==
  /\ mode = "INITIAL" \/ lookahead # None \/ ~Parsing => yylval = Null
  /\ Parsing /\ mode # "INITIAL" =>
       \/ lookahead = None /\ ~Entries.tokenless
       \/ lookahead.symbol \in {"ERROR", "UNTERMINATED_LEXING_BLOCK"}

\* ast_root is the tree of this parse where its stack has one.
RootKept ==
  \A i \in 1..Len(stack) : stack[i].symbol = "root" => i = 1 /\ stack[i].value = ast_root

LEMMA NoneIs == None.symbol = "none"
BY DEF None, Token

LEMMA QuietStep ==
  ASSUME IInv, Quiet, [Next]_vars
  PROVE  Quiet'
<1>1. CASE UNCHANGED vars
  BY <1>1 DEF Quiet, vars, lexerVars, parserVars, Parsing, Entries
<1>2. CASE yylex
  <2>1. /\ Parsing /\ lookahead = None /\ ~Entries.tokenless
        /\ UNCHANGED <<stack, result>>
    BY <1>2 DEF yylex
  <2>2. Parsing' /\ Entries' = Entries
    BY <2>1 DEF Parsing, Entries
  <2>3. mode \in Modes /\ (mode = "INITIAL" => yylval = Null)
    BY DEF Quiet, IInv, LexerOK
  <2>4. ASSUME NEW l \in LexemesIn(mode), Match(Matched(mode, l, yylval, Len(read) + 1), Append(read, l))
        PROVE  Quiet'
    <3> DEFINE match == Matched(mode, l, yylval, Len(read) + 1)
    <3>1. /\ match.mode = "INITIAL" \/ match.token # None => match.yylval = Null
          /\ match.mode # "INITIAL" =>
               match.token = None \/ match.token.symbol = "ERROR"
      <4>1. CASE mode = "INITIAL"
        BY <2>3, <4>1 DEF Matched, Initial, Matching, Refusing, Returning, None, Token
      <4>2. CASE mode = "IN_SINGLE_STRING"
        BY <4>2 DEF Matched, InString, Matching, Refusing, Returning, None, Token
      <4>3. CASE mode = "IN_DOUBLE_STRING"
        BY <4>3 DEF Matched, InString, Matching, Refusing, Returning, None, Token
      <4>4. CASE mode = "IN_PHP"
        BY <4>4 DEF Matched, InPhp, Matching, Refusing, Returning, None, Token
      <4> QED
        BY <2>3, <4>1, <4>2, <4>3, <4>4 DEF Modes
    <3>2. mode' = match.mode /\ yylval' = match.yylval /\ lookahead' = match.token
      BY <2>4 DEF Match
    <3> HIDE DEF match
    <3> QED
      BY <2>1, <2>2, <3>1, <3>2 DEF Quiet
  <2>5. ASSUME Match(MatchedEnd(mode), read)
        PROVE  Quiet'
    BY <2>2, <2>5 DEF Match, MatchedEnd, Returning, Token, Quiet
  <2> QED
    BY <1>2, <2>4, <2>5 DEF yylex
<1>3. CASE Shift \/ Reduce \/ SyntaxError
  <2>1. Parsing /\ UNCHANGED <<mode, yylval>> /\ Top(stack) \in DOMAIN yytable
    BY <1>3, TopIsAState DEF Shift, Reduce, SyntaxError, lexerVars, IInv, ParserOK
  <2>2. lookahead # None \/ mode = "INITIAL"
    BY <1>3, <2>1, ShiftsAre, NoneIs DEF Quiet, Shift, Reduce, SyntaxError, Entries
  <2>3. yylval' = Null
    BY <2>1, <2>2 DEF Quiet
  <2>4. CASE mode = "INITIAL"
    BY <2>1, <2>3, <2>4 DEF Quiet
  <2>5. CASE mode # "INITIAL" /\ ~Shift
    <3>1. \/ ~Parsing' \/ lookahead' = lookahead
      BY <1>3, <2>5
        DEF Reduce, SyntaxError, yynewstate, Return, Parsing, Pending, False, Answer
    <3>2. lookahead.symbol \in {"ERROR", "UNTERMINATED_LEXING_BLOCK"}
      BY <2>1, <2>2, <2>5 DEF Quiet
    <3> QED
      BY <2>3, <3>1, <3>2 DEF Quiet
  <2>6. CASE mode # "INITIAL" /\ Shift
    <3>1. lookahead.symbol \in {"ERROR", "UNTERMINATED_LEXING_BLOCK"}
      BY <2>1, <2>2, <2>6 DEF Quiet
    <3> QED
      BY <2>1, <2>6, <3>1, ShiftsAre DEF Shift, Entries
  <2> QED
    BY <2>4, <2>5, <2>6
<1>4. CASE omnilang_parse
  BY <1>4 DEF Quiet, omnilang_parse, reset_to_initial
<1>5. CASE RefusedParameters \/ omnilang_get_error
  <2>1. ~Parsing /\ ~Parsing' /\ yylval' = yylval
    BY <1>5, AnswerStep DEF RefusedParameters, omnilang_get_error, lexerVars
  <2> QED
    BY <2>1 DEF Quiet
<1> QED
  BY <1>1, <1>2, <1>3, <1>4, <1>5 DEF Next, yyparse

LEMMA RootStep ==
  ASSUME IInv, RootKept, [Next]_vars
  PROVE  RootKept'
<1>1. WellStacked(stack) /\ Top(stack) \in DOMAIN yytable /\ Len(stack) \in Nat
  BY TopIsAState, TopIs DEF IInv, ParserOK, WellStacked
<1>2. ASSUME stack' = <<>>
      PROVE  RootKept'
  BY <1>2 DEF RootKept
<1>3. CASE UNCHANGED <<stack, ast_root>>
  BY <1>3 DEF RootKept
<1>4. CASE Shift
  <2> DEFINE t == Pushed(stack, lookahead)
  <2>1. UNCHANGED ast_root /\ (stack' = t \/ stack' = <<>>)
    BY <1>4 DEF Shift, yynewstate, Return
  <2>2. lookahead.symbol \notin LeftSymbols
    BY <1>1, <1>4, ShiftsAre DEF Shift, Entries
  <2>3. /\ Len(t) = Len(stack) + 1 /\ \A i \in 1..Len(stack) : t[i] = stack[i]
        /\ t[Len(stack) + 1].symbol = lookahead.symbol
    <3>1. /\ Len(t) = Len(stack) + 1 /\ \A i \in 1..Len(stack) : t[i] = stack[i]
          /\ t[Len(stack) + 1] = [symbol |-> lookahead.symbol, value |-> lookahead.value,
                                  state |-> yytable[Top(stack)].goto[lookahead.symbol]]
      BY <1>1, PushedIs DEF WellStacked
    <3> HIDE DEF t
    <3> QED
      BY <3>1
  <2> HIDE DEF t
  <2>4. ASSUME stack' = t, NEW i \in 1..Len(t), t[i].symbol = "root"
        PROVE  i = 1 /\ t[i].value = ast_root
    <3>1. i # Len(stack) + 1
      BY <2>2, <2>3, <2>4, SymbolsAre
    <3>2. i \in 1..Len(stack)
      BY <1>1, <2>3, <2>4, <3>1
    <3> QED
      BY <2>3, <2>4, <3>2 DEF RootKept
  <2> QED
    BY <1>2, <2>1, <2>4 DEF RootKept
<1>5. CASE Reduce
  <2> DEFINE r == Decision(Entries, lookahead.symbol)
             t == Reduction(stack, r)
             kept == Len(stack) - Len(yyrules[r].rhs)
  <2>1. /\ stack' = t \/ stack' = <<>>
        /\ ast_root' = IF Last(t).symbol = "root" THEN Last(t).value ELSE ast_root
    BY <1>5 DEF Reduce, yynewstate, Return
  <2>2. r # NoRule /\ Complete(Top(stack), r)
    BY <1>1, <1>5, DecisionsFit DEF Reduce, Entries
  <2> HIDE DEF r
  <2>3. /\ kept \in 0..Len(stack) /\ Len(t) = kept + 1
        /\ \A i \in 1..kept : t[i] = stack[i]
        /\ t[kept + 1].symbol = yyrules[r].lhs /\ Last(t) = t[kept + 1]
        /\ yyrules[r].lhs \in DOMAIN yytable[StateAt(stack, kept)].goto
    <3>1. kept \in 0..Len(stack) /\ Len(t) = kept + 1
      BY <1>1, <2>2, ReductionIs
    <3>2. ASSUME NEW i \in 1..kept
          PROVE  t[i] = stack[i]
      BY <1>1, <2>2, <3>2, ReductionIs
    <3>3. t[kept + 1].symbol = yyrules[r].lhs /\ Last(t) = t[kept + 1]
      BY <1>1, <2>2, ReductionIs
    <3>4. yyrules[r].lhs \in DOMAIN yytable[StateAt(stack, kept)].goto
      BY <1>1, <2>2, ReductionIs
    <3> QED
      BY <3>1, <3>2, <3>3, <3>4
  <2> HIDE DEF t, kept
  <2>4. CASE yyrules[r].lhs = "root"
    <3>1. kept = 0
      <4> SUFFICES ASSUME kept # 0 PROVE FALSE
        OBVIOUS
      <4>1. kept \in 1..Len(stack)
        BY <1>1, <2>3
      <4>2. StateAt(stack, kept) \in (DOMAIN yytable) \ {State0}
        BY <1>1, <4>1 DEF StateAt, WellStacked
      <4> QED
        BY <2>3, <2>4, <4>2, RowsFit
    <3>2. Len(t) = 1 /\ t[1].value = ast_root'
      BY <2>1, <2>3, <2>4, <3>1
    <3>3. \A i \in 1..Len(t) : i = 1
      BY <3>2
    <3> QED
      BY <1>2, <2>1, <3>2, <3>3 DEF RootKept
  <2>5. CASE yyrules[r].lhs # "root"
    <3>1. ast_root' = ast_root
      BY <2>1, <2>3, <2>5
    <3>2. ASSUME NEW i \in 1..Len(t), t[i].symbol = "root"
          PROVE  i = 1 /\ t[i].value = ast_root
      <4>1. i # kept + 1
        BY <2>3, <2>5, <3>2
      <4>2. i \in 1..kept /\ i \in 1..Len(stack)
        BY <1>1, <2>3, <4>1
      <4> QED
        BY <2>3, <3>2, <4>2 DEF RootKept
    <3> QED
      BY <1>2, <2>1, <3>1, <3>2 DEF RootKept
  <2> QED
    BY <2>4, <2>5
<1>6. CASE SyntaxError \/ omnilang_parse
  BY <1>2, <1>6 DEF SyntaxError, Return, omnilang_parse, Started
<1> QED
  BY <1>3, <1>4, <1>5, <1>6
    DEF Next, yyparse, yylex, RefusedParameters, omnilang_get_error, parserVars, sessionVars, vars

=============================================================================
