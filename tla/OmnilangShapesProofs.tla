------------------------ MODULE OmnilangShapesProofs ------------------------
(***************************************************************************)
(* What module OmnilangShapes promises of trees, for any rules and tables  *)
(* that satisfy its assumptions.  The assumptions speak of one rule, or of *)
(* one state of the parser; the theorems speak of all trees of all codes.  *)
(*                                                                         *)
(* A forest is a set of nodes that are good: each has its children in the  *)
(* set, and they are of the sorts, and bind as tightly, as its own sort    *)
(* demands.  What an action makes of good nodes is good, if its operands   *)
(* bind as they have to; that they do is what the parser's states say of   *)
(* its stack.                                                              *)
(***************************************************************************)
EXTENDS OmnilangShapes, OmnilangProofs

-----------------------------------------------------------------------------
(* Shapes.                                                                 *)

\* The elements of two sequences one after the other.
LEMMA ConcatIs ==
  ASSUME NEW S, NEW s \in Seq(S), NEW t \in Seq(S)
  PROVE  /\ s \o t \in Seq(S)
         /\ Len(s) \in Nat /\ Len(t) \in Nat /\ Len(s \o t) = Len(s) + Len(t)
         /\ \A i \in 1..Len(s) : (s \o t)[i] = s[i]
         /\ \A k \in 1..Len(t) : (s \o t)[Len(s) + k] = t[k]
<1> DEFINE c == s \o t
           l == Len(s)
           m == Len(t)
<1>1. l \in Nat /\ m \in Nat
  BY LenProperties
<1>2. /\ c \in Seq(S) /\ Len(c) = l + m
      /\ \A i \in 1..(l + m) : c[i] = IF i <= l THEN s[i] ELSE t[i - l]
  BY ConcatProperties
<1> HIDE DEF c, l, m
<1>3. ASSUME NEW i \in 1..l
      PROVE  c[i] = s[i]
  <2>1. i \in 1..(l + m) /\ i <= l
    BY <1>1
  <2> QED
    BY <1>2, <2>1
<1>4. ASSUME NEW k \in 1..m
      PROVE  c[l + k] = t[k]
  <2>1. l + k \in 1..(l + m) /\ ~(l + k <= l) /\ (l + k) - l = k
    BY <1>1
  <2> QED
    BY <1>2, <2>1
<1> QED
  BY <1>1, <1>2, <1>3, <1>4 DEF c, l, m

\* The children of a node with others appended.
LEMMA AppendedIs ==
  ASSUME NEW S, NEW n, NEW base, base.children \in Seq(S), NEW kids \in Seq(S),
         n.children = base.children \o kids
  PROVE  /\ Len(base.children) \in Nat /\ Len(kids) \in Nat
         /\ n.children \in Seq(S) /\ Len(n.children) = Len(base.children) + Len(kids)
         /\ \A i \in 1..Len(base.children) : n.children[i] = base.children[i]
         /\ \A k \in 1..Len(kids) : n.children[Len(base.children) + k] = kids[k]
<1> DEFINE b == base.children
           c == n.children
<1>1. b \in Seq(S) /\ c = b \o kids
  OBVIOUS
<1> HIDE DEF b, c
<1> QED
  BY <1>1, ConcatIs DEF b, c

\* The least number of children, by whether there is always a last one.
LEMMA LeastIs ==
  ASSUME NEW shape, Len(shape.first) \in Nat
  PROVE  /\ Least(shape) \in Nat /\ Least(shape) >= Len(shape.first)
         /\ Least(shape) <= Len(shape.first) + 1
         /\ shape.last = {} => Least(shape) = Len(shape.first)
<1> DEFINE l == Len(shape.first)
<1>1. l \in Nat /\ Least(shape) = l + (IF shape.last = {} THEN 0 ELSE 1)
  BY DEF Least
<1> HIDE DEF l
<1>2. CASE shape.last = {}
  <2>1. Least(shape) = l
    BY <1>1, <1>2
  <2>2. Least(shape) \in Nat /\ Least(shape) >= l /\ Least(shape) <= l + 1
    BY <1>1, <2>1
  <2> QED
    BY <2>1, <2>2 DEF l
<1>3. CASE shape.last # {}
  <2>1. Least(shape) = l + 1
    BY <1>1, <1>3
  <2>2. Least(shape) \in Nat /\ Least(shape) >= l /\ Least(shape) <= l + 1
    BY <1>1, <2>1
  <2> QED
    BY <1>3, <2>2 DEF l
<1> QED
  BY <1>2, <1>3

\* What Place and Least need to know of a shape.
LEMMA ShapesAre ==
  ASSUME NEW sort
  PROVE  /\ Len(Shape(sort).first) \in Nat
         /\ Least(Shape(sort)) \in Nat /\ Least(Shape(sort)) >= Len(Shape(sort).first)
         /\ Shape(sort).last = {} => Least(Shape(sort)) = Len(Shape(sort).first)
<1>1. Len(Shape(sort).first) \in Nat
  BY DEF Shape, Children
<1> QED
  BY <1>1, LeastIs

\* Ranks are comparable.
LEMMA RanksAre ==
  ASSUME NEW sort
  PROVE  /\ Rank(sort) \in 1..5
         /\ BindsRight(sort) => Rank(sort) < 5
BY DEF Rank, BindsRight

\* Tightness is comparable, and only operators have any.
LEMMA TightnessIs ==
  ASSUME NEW token
  PROVE  /\ Tightness(token) \in 0..4
         /\ Tightness(token) > 0 => token \in Operators \cup {"none"}
         /\ Tightness(token) <= Tightness("none")
BY DEF Tightness, Operators

\* A sort that is no other name of a type is one.
LEMMA PlainSorts ==
  ASSUME NEW type, NEW kind, SortOf(type, kind) \notin {"job", "captured", "assigned"}
  PROVE  SortOf(type, kind) = type
BY DEF SortOf

\* Only nodes of the type NULL are of the sort NULL.
LEMMA NullSorts ==
  ASSUME NEW type, NEW kind
  PROVE  SortOf(type, kind) = "NULL" <=> type = "NULL"
BY DEF SortOf

-----------------------------------------------------------------------------
(* Forests: sets of nodes, with all the nodes below them, that are as the  *)
(* properties ask.                                                         *)

Good(C, n) ==
  /\ n = [type |-> n.type, data |-> n.data, children |-> n.children, original |-> n.original]
  /\ n.children \in Seq(C)
  /\ HasShape(n)
  /\ OperandsBind(n)
  /\ n.type = "NULL" => n = Null

Forest(C) == \A n \in C : Good(C, n)

\* A node stays good when the set grows.
LEMMA MoreIsGood ==
  ASSUME NEW C, NEW D, C \subseteq D, NEW n, Good(C, n)
  PROVE  Good(D, n)
<1>1. n.children \in Seq(D)
  BY SeqMonotonic DEF Good
<1> QED
  BY <1>1 DEF Good

\* A forest with good nodes added is one.
LEMMA ForestGrows ==
  ASSUME NEW C, Forest(C), NEW N, \A n \in N : Good(C, n)
  PROVE  Forest(C \cup N)
BY MoreIsGood DEF Forest

\* A node with nothing below it.
LEMMA LeafIsGood ==
  ASSUME NEW C, NEW n, n.children = <<>>, n.type \in {"token", "NULL"},
         n = [type |-> n.type, data |-> n.data, children |-> n.children, original |-> n.original],
         n.type = "NULL" => n = Null
  PROVE  Good(C, n) /\ Sort(n) = n.type
<1>1. Sort(n) = n.type
  BY DEF Sort, SortOf
<1>2. Shape(Sort(n)) = Children(<<>>, {})
  BY <1>1 DEF Shape
<1>3. Len(n.children) = 0 /\ DOMAIN n.children = {} /\ n.children \in Seq(C)
  OBVIOUS
<1>4. HasShape(n)
  BY <1>2, <1>3 DEF HasShape, Least, Children
<1>5. OperandsBind(n)
  BY <1>1 DEF OperandsBind, Rank, BindsRight
<1> QED
  BY <1>1, <1>3, <1>4, <1>5 DEF Good

\* The text of a node makes no difference.
LEMMA TextIsFree ==
  ASSUME NEW C, NEW n, Good(C, n), n.type # "NULL", NEW text
  PROVE  Good(C, [n EXCEPT !.original = text]) /\ Sort([n EXCEPT !.original = text]) = Sort(n)
<1> DEFINE m == [n EXCEPT !.original = text]
<1>1. n = [type |-> n.type, data |-> n.data, children |-> n.children, original |-> n.original]
  BY DEF Good
<1>2. m = [type |-> n.type, data |-> n.data, children |-> n.children, original |-> text]
  BY <1>1
<1>3. m.type = n.type /\ m.data = n.data /\ m.children = n.children /\ m.original = text
  BY <1>2
<1> HIDE DEF m
<1>4. Sort(m) = Sort(n)
  BY <1>3 DEF Sort
<1>5. HasShape(m) /\ OperandsBind(m)
  BY <1>3, <1>4 DEF Good, HasShape, OperandsBind
<1> QED
  BY <1>2, <1>3, <1>4, <1>5 DEF Good, m

-----------------------------------------------------------------------------
(* Actions.                                                                *)

\* The values of symbols rhs, in a forest.
ValuesFit(C, v, rhs) ==
  \A i \in DOMAIN rhs : v[i] \in C /\ Sort(v[i]) \in Promised(rhs[i])

\* The children that a node has keep their places when others are appended.
LEMMA PlacesGrow ==
  ASSUME NEW before, NEW after, Len(before.first) \in Nat,
         before.last = {}, after.first = before.first, before.more \subseteq after.more,
         NEW m \in Nat, NEW n \in Nat, m <= n, after.last # {} => m < n
  PROVE  \A i \in 1..m : Place(before, i, m) \subseteq Place(after, i, n)
BY DEF Place

\* A node that children are appended to, or its data set.
LEMMA WorkedOn ==
  ASSUME NEW C, NEW rhs, NEW v, NEW do, Works(do, rhs), Forest(C), rhs \in Seq(Symbols),
         ValuesFit(C, v, rhs), do.base # 0, do.kids # <<>> \/ do.kind # "none",
         NEW kids \in Seq(C), DOMAIN kids = DOMAIN do.kids,
         \A k \in DOMAIN kids : Sort(kids[k]) \in Made(do.kids[k], rhs)
  PROVE  LET n == Worked(do, v, kids)
         IN  /\ Good(C, n)
             /\ \E sort \in Promised(rhs[do.base]) : Sort(n) = Marking(sort, do.kind)
             /\ Rank(Sort(n)) = 5 /\ n.type # "NULL"
<1> DEFINE base == v[do.base]
           sort == Sort(base)
           mark == Marking(sort, do.kind)
           before == Shape(sort)
           after == Shape(mark)
           n == Worked(do, v, kids)
           l == Len(base.children)
           m == Len(kids)
<1>1. do.base \in DOMAIN rhs /\ do.spells = 0
  BY DEF Works
<1>2. base \in C /\ sort \in Promised(rhs[do.base]) /\ Good(C, base)
  BY <1>1 DEF ValuesFit, Forest
<1>3. KeepsShape(do, rhs, sort)
  BY <1>1, <1>2 DEF Works
<1>4. /\ n.type = base.type
      /\ n.data = IF do.kind = "none" THEN base.data
                  ELSE Data(do.kind, IF do.text = 0 THEN <<>> ELSE v[do.text].data.text)
      /\ n.children = base.children \o kids
      /\ n = [type |-> n.type, data |-> n.data, children |-> n.children, original |-> n.original]
  BY <1>1 DEF Worked
<1>5. /\ base.children \in Seq(C) /\ l \in Nat /\ m \in Nat
      /\ n.children \in Seq(C) /\ Len(n.children) = l + m
      /\ \A i \in 1..l : n.children[i] = base.children[i]
      /\ \A k \in 1..m : n.children[l + k] = kids[k]
  <2>1. base.children \in Seq(C)
    BY <1>2 DEF Good
  <2>2. n.children = base.children \o kids
    BY <1>4
  <2>3. kids \in Seq(C)
    OBVIOUS
  <2> HIDE DEF base, n
  <2> QED
    <3> DEFINE b == base.children
               c == n.children
    <3>1. b \in Seq(C) /\ c = b \o kids
      BY <2>1, <2>2
    <3> HIDE DEF b, c
    <3> QED
      BY <2>3, <3>1, ConcatIs DEF b, c
<1>6. Sort(n) = mark
  <2>1. CASE do.kind = "none"
    BY <1>4, <2>1 DEF Sort, Marking
  <2>2. CASE do.kind # "none"
    <3>1. base.type = sort
      BY <1>3, <2>2, PlainSorts DEF KeepsShape, Sort
    <3>2. n.data.kind = do.kind
      BY <1>4, <2>2 DEF Data
    <3> HIDE DEF n
    <3> QED
      BY <1>4, <2>2, <3>1, <3>2 DEF Sort, Marking
  <2> QED
    BY <2>1, <2>2
<1>7. Rank(mark) = 5 /\ sort # "NULL"
  BY <1>3 DEF KeepsShape
<1>8. n.type # "NULL"
  BY <1>4, <1>7, NullSorts DEF Sort
<1>9. OperandsBind(n)
  BY <1>6, <1>7 DEF OperandsBind, BindsRight
<1> HIDE DEF n, base, sort, mark
<1>10. HasShape(n)
  <2>1. HasShape(base)
    BY <1>2 DEF Good
  <2>2. /\ l >= Least(before)
        /\ \A i \in 1..l : Sort(base.children[i]) \in Place(before, i, l)
    BY <1>5, <2>1 DEF HasShape, sort
  <2>3. /\ before.last = {} /\ after.first = before.first /\ before.more \subseteq after.more
        /\ after.last # {} => do.kids # <<>>
        /\ \A k \in DOMAIN do.kids :
             Made(do.kids[k], rhs) \subseteq
               IF after.last # {} /\ k = Len(do.kids) THEN after.last ELSE after.more
    BY <1>3 DEF KeepsShape, mark
  <2>4. /\ Len(before.first) \in Nat /\ Least(before) = Len(before.first)
        /\ Least(after) \in Nat /\ Least(after) <= Len(before.first) + 1
        /\ after.last = {} => Least(after) = Len(before.first)
    <3>1. Len(before.first) \in Nat /\ Len(after.first) = Len(before.first)
      BY <2>3, ShapesAre
    <3> HIDE DEF before, after
    <3> QED
      BY <2>3, <3>1, LeastIs
  <2>5. do.kids \in Seq(ToSet(do.kids))
    BY DEF Works
  <2>6. /\ DOMAIN do.kids = 1..m /\ DOMAIN kids = 1..m /\ Len(do.kids) = m
        /\ after.last # {} => m > 0
    <3>1. DOMAIN do.kids = 1..Len(do.kids) /\ Len(do.kids) \in Nat /\ DOMAIN kids = 1..m
      BY <2>5, LenProperties
    <3>2. 1..Len(do.kids) = 1..m /\ m \in Nat
      BY <1>5, <3>1
    <3>3. Len(do.kids) = m
      BY <3>1, <3>2
    <3>4. do.kids # <<>> => m > 0
      BY <2>5, <3>1, <3>3, EmptySeq
    <3> QED
      BY <2>3, <3>1, <3>2, <3>3, <3>4
  <2> HIDE DEF before, after, l, m
  <2>7. l + m >= Least(after)
    <3>1. l \in Nat /\ m \in Nat /\ l >= Least(before)
      BY <1>5, <2>2 DEF l, m, before
    <3> DEFINE f == Len(before.first)
               a == Least(after)
               b == Least(before)
    <3>2. f \in Nat /\ b = f /\ a \in Nat /\ a <= f + 1 /\ (after.last = {} => a = f) /\ l >= b
      BY <2>4, <3>1
    <3> HIDE DEF f, a, b
    <3>3. a <= l + m
      BY <2>6, <3>1, <3>2
    <3> QED
      BY <3>1, <3>2, <3>3 DEF a
  <2>8. ASSUME NEW i \in 1..(l + m)
        PROVE  Sort(n.children[i]) \in Place(after, i, l + m)
    <3>1. CASE i \in 1..l
      <4>1. \A j \in 1..l : Place(before, j, l) \subseteq Place(after, j, l + m)
        <5>1. l \in Nat /\ m \in Nat
          BY <1>5 DEF l, m
        <5>2. l + m \in Nat /\ l <= l + m /\ (after.last # {} => l < l + m)
          BY <2>6, <5>1
        <5> QED
          BY <2>3, <2>4, <5>1, <5>2, PlacesGrow
      <4> QED
        BY <1>5, <2>2, <3>1, <4>1
    <3>2. CASE i \notin 1..l
      <4> DEFINE k == i - l
      <4>1. k \in 1..m /\ i = l + k
        BY <1>5, <3>2
      <4> HIDE DEF k
      <4>2. Sort(kids[k]) \in Made(do.kids[k], rhs)
        BY <2>6, <4>1
      <4>3. Sort(kids[k]) \in IF after.last # {} /\ k = m THEN after.last ELSE after.more
        <5>1. Made(do.kids[k], rhs) \subseteq
                IF after.last # {} /\ k = m THEN after.last ELSE after.more
          BY <2>3, <2>6, <4>1
        <5> QED
          BY <4>2, <5>1
      <4>4. ~(i <= Len(after.first)) /\ (k = m <=> i = l + m)
        BY <1>5, <2>2, <2>3, <2>4, <4>1
      <4> QED
        BY <1>5, <4>1, <4>3, <4>4 DEF Place
    <3> QED
      BY <3>1, <3>2
  <2>9. Len(n.children) = l + m /\ DOMAIN n.children = 1..(l + m)
    BY <1>5, LenProperties DEF l, m
  <2>10. Shape(Sort(n)) = after
    BY <1>6 DEF after, mark
  <2> QED
    BY <2>7, <2>8, <2>9, <2>10 DEF HasShape
<1> QED
  BY <1>2, <1>4, <1>5, <1>6, <1>7, <1>8, <1>9, <1>10 DEF Good, mark, n

\* A function on 1..n is a sequence.
LEMMA FunctionsAreSequences ==
  ASSUME NEW S, NEW n \in Nat, NEW f \in [1..n -> S]
  PROVE  f \in Seq(S) /\ DOMAIN f = 1..n
BY SeqDef

\* A node that is created.
LEMMA CreatedIs ==
  ASSUME NEW C, NEW rhs, NEW v, NEW do, do.base = 0, do.type # "NULL",
         NEW kids \in Seq(C), NEW sort, sort = SortOf(do.type, do.kind),
         Len(kids) >= Least(Shape(sort)),
         \A k \in 1..Len(kids) : Sort(kids[k]) \in Place(Shape(sort), k, Len(kids)),
         Rank(sort) < 5 => Rank(Sort(kids[1])) >= Rank(sort) \/ Sort(kids[1]) = "invocation",
         BindsRight(sort) => Rank(Sort(kids[2])) > Rank(sort)
  PROVE  Good(C, Worked(do, v, kids)) /\ Sort(Worked(do, v, kids)) = sort
<1> DEFINE n == Worked(do, v, kids)
<1>1. /\ n = [type |-> n.type, data |-> n.data, children |-> n.children, original |-> n.original]
      /\ n.type = do.type
      /\ n.data.kind = do.kind
      /\ n.children = <<>> \o kids
  BY DEF Worked, Node, Data
<1>2. n.children = kids
  BY <1>1, ConcatEmptySeq
<1> HIDE DEF n
<1>3. Sort(n) = sort
  BY <1>1 DEF Sort
<1>4. Len(n.children) = Len(kids) /\ DOMAIN n.children = 1..Len(kids)
  BY <1>2, LenProperties
<1>5. HasShape(n)
  BY <1>2, <1>3, <1>4 DEF HasShape
<1>6. OperandsBind(n)
  BY <1>2, <1>3 DEF OperandsBind
<1> QED
  BY <1>1, <1>2, <1>3, <1>5, <1>6 DEF Good, n

\* A node that nothing is done to.
LEMMA SameIs ==
  ASSUME NEW C, NEW v, NEW do, do.base # 0, do.spells = 0, do.kind = "none",
         Good(C, v[do.base])
  PROVE  Worked(do, v, <<>>) = v[do.base]
<1> DEFINE n == v[do.base]
<1>1. /\ n = [type |-> n.type, data |-> n.data, children |-> n.children, original |-> n.original]
      /\ n.children \in Seq(C)
  BY DEF Good
<1>2. n.children \o <<>> = n.children
  BY <1>1, ConcatEmptySeq
<1>3. Worked(do, v, <<>>) = [type |-> n.type, data |-> n.data, children |-> n.children \o <<>>,
                             original |-> n.original]
  BY DEF Worked
<1> QED
  BY <1>1, <1>2, <1>3

\* The sort of a node whose data is not set.
LEMMA MarkingNone ==
  ASSUME NEW sort
  PROVE  Marking(sort, "none") = sort
BY DEF Marking

\* The node that an action works on, whatever it does.
LEMMA WorkedFits ==
  ASSUME NEW C, NEW rhs, NEW v, NEW do, Works(do, rhs), Forest(C), rhs \in Seq(Symbols),
         ValuesFit(C, v, rhs), NEW kids \in Seq(C), DOMAIN kids = DOMAIN do.kids,
         \A k \in DOMAIN kids : Sort(kids[k]) \in Made(do.kids[k], rhs),
         do.base = 0 =>
           LET sort == SortOf(do.type, do.kind)
           IN  /\ do.type # "NULL"
               /\ Rank(sort) < 5 => Rank(Sort(kids[1])) >= Rank(sort) \/ Sort(kids[1]) = "invocation"
               /\ BindsRight(sort) => Rank(Sort(kids[2])) > Rank(sort),
         do.type = "optional" => do.kids = <<>> /\ do.kind = "none" /\ ~Absent(do, v)
  PROVE  /\ Good(C, Worked(do, v, kids))
         /\ Sort(Worked(do, v, kids)) \in Made(do, rhs)
<1> DEFINE n == Worked(do, v, kids)
<1>0. /\ DOMAIN do.kids = 1..Len(kids) /\ DOMAIN kids = 1..Len(kids) /\ Len(do.kids) = Len(kids)
      /\ Len(kids) \in Nat
      /\ do.kids = <<>> => kids = <<>>
  <2>1. do.kids \in Seq(ToSet(do.kids))
    BY DEF Works
  <2>2. /\ DOMAIN do.kids = 1..Len(do.kids) /\ Len(do.kids) \in Nat
        /\ DOMAIN kids = 1..Len(kids) /\ Len(kids) \in Nat
    BY <2>1, LenProperties
  <2>3. Len(do.kids) = Len(kids)
    BY <2>2
  <2>4. do.kids = <<>> => kids = <<>>
    BY <2>3, <2>2, EmptySeq
  <2> QED
    BY <2>2, <2>3, <2>4
<1>1. CASE do.base = 0
  <2> DEFINE sort == SortOf(do.type, do.kind)
  <2>1. Made(do, rhs) = {sort}
    BY <1>1 DEF Made
  <2>2. MakesShape(do, rhs)
    BY <1>1 DEF Works
  <2>3. Len(kids) >= Least(Shape(sort))
    BY <1>0, <2>2 DEF MakesShape
  <2>4. \A k \in 1..Len(kids) : Sort(kids[k]) \in Place(Shape(sort), k, Len(kids))
    BY <1>0, <2>2 DEF MakesShape
  <2>5. /\ do.type # "NULL"
        /\ Rank(sort) < 5 => Rank(Sort(kids[1])) >= Rank(sort) \/ Sort(kids[1]) = "invocation"
        /\ BindsRight(sort) => Rank(Sort(kids[2])) > Rank(sort)
    BY <1>1
  <2> HIDE DEF sort
  <2>6. sort = SortOf(do.type, do.kind)
    BY DEF sort
  <2>7. Good(C, Worked(do, v, kids)) /\ Sort(Worked(do, v, kids)) = sort
    BY <1>1, <2>3, <2>4, <2>5, <2>6, CreatedIs
  <2> QED
    BY <2>1, <2>7
<1>2. CASE do.base # 0 /\ (do.kids # <<>> \/ do.kind # "none")
  <2>1. Made(do, rhs) = {Marking(sort, do.kind) : sort \in Promised(rhs[do.base])}
    BY <1>2 DEF Made
  <2>2. Good(C, n) /\ \E sort \in Promised(rhs[do.base]) : Sort(n) = Marking(sort, do.kind)
    BY <1>2, WorkedOn
  <2> QED
    BY <2>1, <2>2
<1>3. CASE do.base # 0 /\ do.kids = <<>> /\ do.kind = "none"
  <2>1. do.base \in DOMAIN rhs /\ do.spells = 0
    BY <1>3 DEF Works
  <2>2. v[do.base] \in C /\ Sort(v[do.base]) \in Promised(rhs[do.base]) /\ Good(C, v[do.base])
    BY <2>1 DEF ValuesFit, Forest
  <2>3. n = v[do.base]
    BY <1>0, <1>3, <2>1, <2>2, SameIs
  <2>4. CASE do.type # "optional"
    <3>1. Made(do, rhs) = {Marking(sort, "none") : sort \in Promised(rhs[do.base])}
      BY <1>3, <2>4 DEF Made
    <3>2. Marking(Sort(v[do.base]), "none") = Sort(v[do.base])
      BY MarkingNone
    <3> QED
      BY <2>2, <2>3, <3>1, <3>2
  <2>5. CASE do.type = "optional"
    <3>1. Made(do, rhs) = Promised(rhs[do.base]) \ {"NULL"}
      BY <1>3, <2>5 DEF Made
    <3>2. v[do.base].type # "NULL"
      BY <2>2, <2>5 DEF Absent, Good
    <3>3. Sort(v[do.base]) # "NULL"
      BY <3>2, NullSorts DEF Sort
    <3> QED
      BY <2>2, <2>3, <3>1, <3>3
  <2> QED
    BY <2>4, <2>5
<1> QED
  BY <1>1, <1>2, <1>3

\* What appends nothing itself.
LEMMA GrandkidFits ==
  ASSUME NEW C, NEW rhs, NEW v, NEW do, Works(do, rhs), Forest(C), rhs \in Seq(Symbols),
         ValuesFit(C, v, rhs), do.kids = <<>>,
         do.base = 0 => Rank(SortOf(do.type, do.kind)) = 5 /\ do.type # "NULL",
         do.type = "optional" => do.kind = "none" /\ ~Absent(do, v)
  PROVE  Good(C, Grandkid(do, v)) /\ Sort(Grandkid(do, v)) \in Made(do, rhs)
<1> DEFINE kids == <<>>
<1>1. kids \in Seq(C) /\ DOMAIN kids = {}
  OBVIOUS
<1>2. DOMAIN kids = DOMAIN do.kids
  OBVIOUS
<1>3. Grandkid(do, v) = Worked(do, v, kids)
  BY DEF Grandkid
<1>4. do.base = 0 => do.type # "NULL" /\ Rank(SortOf(do.type, do.kind)) = 5
                     /\ ~BindsRight(SortOf(do.type, do.kind))
  BY DEF BindsRight
<1>5. \A k \in DOMAIN kids : Sort(kids[k]) \in Made(do.kids[k], rhs)
  BY <1>1
<1>7. do.type = "optional" => do.kids = <<>> /\ do.kind = "none" /\ ~Absent(do, v)
  OBVIOUS
<1> HIDE DEF kids
<1>8. do.base = 0 =>
        LET sort == SortOf(do.type, do.kind)
        IN  /\ do.type # "NULL"
            /\ Rank(sort) < 5 => Rank(Sort(kids[1])) >= Rank(sort) \/ Sort(kids[1]) = "invocation"
            /\ BindsRight(sort) => Rank(Sort(kids[2])) > Rank(sort)
  BY <1>4
<1>6. Good(C, Worked(do, v, kids)) /\ Sort(Worked(do, v, kids)) \in Made(do, rhs)
  BY <1>1, <1>2, <1>5, <1>7, <1>8, WorkedFits
<1> QED
  BY <1>3, <1>6

\* What an action appends is good, and so is what that appends.
LEMMA KidFits ==
  ASSUME NEW C, NEW rhs, NEW v, NEW do, Works(do, rhs), Appends(do, rhs), Forest(C),
         rhs \in Seq(Symbols), ValuesFit(C, v, rhs),
         do.base = 0 => Rank(SortOf(do.type, do.kind)) = 5 /\ do.type # "NULL",
         \A j \in DOMAIN do.kids : do.kids[j].kids = <<>> /\ do.kids[j].type # "optional",
         do.type = "optional" => do.kids = <<>> /\ do.kind = "none" /\ ~Absent(do, v)
  PROVE  LET D == C \cup {Grandkid(do.kids[j], v) : j \in DOMAIN do.kids}
         IN  Forest(D) /\ Good(D, Kid(do, v)) /\ Sort(Kid(do, v)) \in Made(do, rhs)
<1> DEFINE N == {Grandkid(do.kids[j], v) : j \in DOMAIN do.kids}
           D == C \cup N
           kids == [k \in DOMAIN do.kids |-> Grandkid(do.kids[k], v)]
<1>1. \A j \in DOMAIN do.kids :
        /\ Good(C, Grandkid(do.kids[j], v))
        /\ Sort(Grandkid(do.kids[j], v)) \in Made(do.kids[j], rhs)
  BY GrandkidFits DEF Appends
<1>2. Forest(D)
  BY <1>1, ForestGrows
<1>3. do.kids \in Seq(ToSet(do.kids))
  BY DEF Works
<1>4. DOMAIN do.kids = 1..Len(do.kids) /\ Len(do.kids) \in Nat
  BY <1>3, LenProperties
<1>5. kids \in [1..Len(do.kids) -> D]
  BY <1>4
<1>6. kids \in Seq(D)
  BY <1>4, <1>5, FunctionsAreSequences
<1>7. DOMAIN kids = DOMAIN do.kids /\ \A k \in DOMAIN kids : Sort(kids[k]) \in Made(do.kids[k], rhs)
  BY <1>1
<1>8. ValuesFit(D, v, rhs)
  BY DEF ValuesFit
<1>9. Kid(do, v) = Worked(do, v, kids)
  BY DEF Kid
<1>10. do.base = 0 => ~BindsRight(SortOf(do.type, do.kind))
  BY DEF BindsRight
<1> HIDE DEF D, kids
<1>11. Good(D, Worked(do, v, kids)) /\ Sort(Worked(do, v, kids)) \in Made(do, rhs)
  BY <1>2, <1>6, <1>7, <1>8, <1>10, WorkedFits
<1> QED
  BY <1>2, <1>9, <1>11 DEF D

\* What is only $p.
LEMMA OperandIs ==
  ASSUME NEW C, NEW rhs, NEW v, NEW do, Works(do, rhs), Forest(C), rhs \in Seq(Symbols),
         ValuesFit(C, v, rhs), NEW p, IsOperand(do, rhs, p)
  PROVE  Kid(do, v) = v[p]
<1>1. do.base = p /\ do.kids = <<>> /\ do.kind = "none" /\ p \in DOMAIN rhs
  BY DEF IsOperand
<1>2. p # 0
  BY <1>1, LenProperties
<1>3. do.spells = 0 /\ Good(C, v[p])
  BY <1>1, <1>2 DEF Works, ValuesFit, Forest
<1>4. Kid(do, v) = Worked(do, v, [k \in {} |-> Grandkid(do.kids[k], v)])
  BY <1>1 DEF Kid
<1>5. [k \in {} |-> Grandkid(do.kids[k], v)] = <<>>
  OBVIOUS
<1>6. do.base # 0 /\ do.spells = 0 /\ do.kind = "none" /\ Good(C, v[do.base])
  BY <1>1, <1>2, <1>3
<1>7. Worked(do, v, <<>>) = v[do.base]
  BY <1>6, SameIs
<1> QED
  BY <1>1, <1>4, <1>5, <1>7

\* Every operator has two children at least.
LEMMA OperatorsHaveOperands ==
  ASSUME NEW sort
  PROVE  Rank(sort) < 5 => Least(Shape(sort)) >= 2
<1>1. CASE sort \in {"add", "minus", "multiply", "divide", "access", "invocation"}
  <2>1. Len(Shape(sort).first) = 2
    BY <1>1 DEF Shape, Children
  <2> DEFINE l == Len(Shape(sort).first)
             a == Least(Shape(sort))
  <2>2. l = 2 /\ a \in Nat /\ a >= l
    BY <2>1, ShapesAre
  <2> HIDE DEF l, a
  <2>3. a >= 2
    BY <2>2
  <2> QED
    BY <2>3 DEF a
<1>2. CASE sort = "assigned"
  <2>1. Len(Shape(sort).first) = 3
    BY <1>2 DEF Shape, Children
  <2> DEFINE l == Len(Shape(sort).first)
             a == Least(Shape(sort))
  <2>2. l = 3 /\ a \in Nat /\ a >= l
    BY <2>1, ShapesAre
  <2> HIDE DEF l, a
  <2>3. a >= 2
    BY <2>2
  <2> QED
    BY <2>3 DEF a
<1>3. Rank(sort) < 5 =>
        sort \in {"add", "minus", "multiply", "divide", "access", "invocation", "assigned"}
  BY DEF Rank
<1> QED
  BY <1>1, <1>2, <1>3

\* The values of the symbols of rule r are operands as the operator it creates
\* needs them.
ValuesBind(r, v) ==
  LET rhs == yyrules[r].rhs
  IN  /\ \A p \in DOMAIN rhs :
           rhs[p] = "expression" /\ p + 1 \in DOMAIN rhs =>
             Rank(Sort(v[p])) >= Tightness(rhs[p + 1]) \/ Sort(v[p]) = "invocation"
      /\ \A p \in DOMAIN rhs : RightOperand(r, p) => Rank(Sort(v[p])) > Rank(Created(r))

\* What an action makes of an action that it appends.
LEMMA AppendedFits ==
  ASSUME NEW C, NEW rhs, NEW v, NEW do, ActionFits(do, rhs), Forest(C), rhs \in Seq(Symbols),
         ValuesFit(C, v, rhs), NEW k \in DOMAIN do.kids, ~Absent(do.kids[k], v)
  PROVE  LET kid == do.kids[k]
             D   == C \cup {Grandkid(kid.kids[j], v) : j \in DOMAIN kid.kids}
         IN  Forest(D) /\ Good(D, Kid(kid, v)) /\ Sort(Kid(kid, v)) \in Made(kid, rhs)
<1> DEFINE kid == do.kids[k]
<1>1. Works(kid, rhs) /\ (kid.base = 0 => Rank(SortOf(kid.type, kid.kind)) = 5 /\ kid.type # "NULL")
  BY DEF ActionFits, Appends
<1>2. /\ Appends(kid, rhs)
      /\ \A j \in DOMAIN kid.kids : kid.kids[j].kids = <<>> /\ kid.kids[j].type # "optional"
      /\ kid.type = "optional" => kid.kids = <<>> /\ kid.kind = "none"
  BY DEF ActionFits
<1>3. ~Absent(kid, v)
  OBVIOUS
<1> HIDE DEF kid
<1>4. LET D == C \cup {Grandkid(kid.kids[j], v) : j \in DOMAIN kid.kids}
      IN  Forest(D) /\ Good(D, Kid(kid, v)) /\ Sort(Kid(kid, v)) \in Made(kid, rhs)
  BY <1>1, <1>2, <1>3, KidFits
<1> QED
  BY <1>4 DEF kid

\* The operands of the operator that a rule creates.
LEMMA CreatedBinds ==
  ASSUME NEW C, NEW r \in DOMAIN yyrules, NEW v, Forest(C),
         ValuesFit(C, v, yyrules[r].rhs), ValuesBind(r, v),
         yyrules[r].do.base = 0,
         \A k \in DOMAIN yyrules[r].do.kids :
           Sort(Kid(yyrules[r].do.kids[k], v)) \in Made(yyrules[r].do.kids[k], yyrules[r].rhs)
  PROVE  LET do   == yyrules[r].do
             rank == Rank(Created(r))
         IN  /\ rank < 5 => 1 \in DOMAIN do.kids /\ 2 \in DOMAIN do.kids
             /\ rank < 5 => \/ Rank(Sort(Kid(do.kids[1], v))) >= rank
                            \/ Sort(Kid(do.kids[1], v)) = "invocation"
             /\ BindsRight(Created(r)) => Rank(Sort(Kid(do.kids[2], v))) > rank
<1> DEFINE rhs == yyrules[r].rhs
           do  == yyrules[r].do
           sort == Created(r)
<1>1. ActionFits(do, rhs) /\ rhs \in Seq(Symbols)
  BY ActionsAssumption, RulesAssumption
<1>2. sort = SortOf(do.type, do.kind)
  BY DEF Created
<1>3. ASSUME Rank(sort) < 5
      PROVE  1 \in DOMAIN do.kids /\ 2 \in DOMAIN do.kids
  <2>1. do.kids \in Seq(ToSet(do.kids)) /\ MakesShape(do, rhs)
    BY <1>1 DEF ActionFits, Works
  <2>2. DOMAIN do.kids = 1..Len(do.kids) /\ Len(do.kids) \in Nat
    BY <2>1, LenProperties
  <2>3. Len(do.kids) >= Least(Shape(sort))
    BY <1>2, <2>1 DEF MakesShape
  <2>4. Least(Shape(sort)) >= 2 /\ Least(Shape(sort)) \in Nat
    BY <1>3, OperatorsHaveOperands, ShapesAre
  <2> DEFINE l == Len(do.kids)
             a == Least(Shape(sort))
  <2>5. l \in Nat /\ a \in Nat /\ l >= a /\ a >= 2 /\ DOMAIN do.kids = 1..l
    BY <2>2, <2>3, <2>4
  <2> HIDE DEF l, a, do, sort
  <2> QED
    BY <2>5
<1>4. \A k \in DOMAIN do.kids : Works(do.kids[k], rhs)
  BY <1>1 DEF ActionFits, Appends
<1>5. \A k \in DOMAIN do.kids : Sort(Kid(do.kids[k], v)) \in Made(do.kids[k], rhs)
  OBVIOUS
<1>6. /\ Rank(sort) < 5 =>
           \E p \in DOMAIN rhs :
             /\ IsOperand(do.kids[1], rhs, p)
             /\ p + 1 \in DOMAIN rhs /\ Tightness(rhs[p + 1]) >= Rank(sort)
      /\ BindsRight(sort) =>
           \/ \E p \in DOMAIN rhs : RightOperand(r, p)
           \/ do.kids[2].base = 0 /\ Rank(SortOf(do.kids[2].type, do.kids[2].kind)) = 5
  BY OperatorsAssumption
<1>7. /\ \A p \in DOMAIN rhs :
           rhs[p] = "expression" /\ p + 1 \in DOMAIN rhs =>
             Rank(Sort(v[p])) >= Tightness(rhs[p + 1]) \/ Sort(v[p]) = "invocation"
      /\ \A p \in DOMAIN rhs : RightOperand(r, p) => Rank(Sort(v[p])) > Rank(sort)
  BY DEF ValuesBind
<1>8. \A p \in DOMAIN rhs : RightOperand(r, p) => IsOperand(do.kids[2], rhs, p)
  BY DEF RightOperand
<1>9. ValuesFit(C, v, rhs)
  OBVIOUS
<1> HIDE DEF rhs, do, sort
<1>10. ASSUME NEW k \in DOMAIN do.kids, NEW p, IsOperand(do.kids[k], rhs, p)
       PROVE  Kid(do.kids[k], v) = v[p]
  BY <1>1, <1>4, <1>9, <1>10, OperandIs
<1>11. Rank(sort) \in 1..5 /\ (BindsRight(sort) => Rank(sort) < 5)
  BY RanksAre
<1>12. ASSUME Rank(sort) < 5
       PROVE  \/ Rank(Sort(Kid(do.kids[1], v))) >= Rank(sort)
              \/ Sort(Kid(do.kids[1], v)) = "invocation"
  <2>1. PICK p \in DOMAIN rhs :
             /\ IsOperand(do.kids[1], rhs, p)
             /\ p + 1 \in DOMAIN rhs /\ Tightness(rhs[p + 1]) >= Rank(sort)
    BY <1>6, <1>12
  <2>2. Kid(do.kids[1], v) = v[p]
    BY <1>3, <1>10, <1>12, <2>1
  <2>3. rhs[p] = "expression"
    BY <2>1 DEF IsOperand
  <2>4. Rank(Sort(v[p])) >= Tightness(rhs[p + 1]) \/ Sort(v[p]) = "invocation"
    BY <1>7, <2>1, <2>3
  <2>5. Rank(Sort(v[p])) \in Nat /\ Tightness(rhs[p + 1]) \in Nat
    BY RanksAre, TightnessIs
  <2> QED
    BY <1>11, <2>1, <2>2, <2>4, <2>5
<1>13. ASSUME BindsRight(sort)
       PROVE  Rank(Sort(Kid(do.kids[2], v))) > Rank(sort)
  <2>1. 2 \in DOMAIN do.kids
    BY <1>3, <1>11, <1>13
  <2>2. ASSUME NEW p \in DOMAIN rhs, RightOperand(r, p)
        PROVE  Rank(Sort(Kid(do.kids[2], v))) > Rank(sort)
    <3>1. Kid(do.kids[2], v) = v[p]
      BY <1>8, <1>10, <2>1, <2>2
    <3> QED
      BY <1>7, <2>2, <3>1
  <2>3. ASSUME do.kids[2].base = 0, Rank(SortOf(do.kids[2].type, do.kids[2].kind)) = 5
        PROVE  Rank(Sort(Kid(do.kids[2], v))) > Rank(sort)
    <3>1. Made(do.kids[2], rhs) = {SortOf(do.kids[2].type, do.kids[2].kind)}
      BY <2>3 DEF Made
    <3>2. Rank(Sort(Kid(do.kids[2], v))) = 5
      BY <1>5, <2>1, <2>3, <3>1
    <3> QED
      BY <1>11, <1>13, <3>2
  <2> QED
    BY <1>6, <1>13, <2>2, <2>3
<1> QED
  BY <1>3, <1>12, <1>13 DEF do, sort

\* What the action of a rule makes, with all that it appends.
LEMMA BuiltFits ==
  ASSUME NEW C, NEW r \in DOMAIN yyrules, NEW v, Forest(C),
         ValuesFit(C, v, yyrules[r].rhs), ValuesBind(r, v),
         yyrules[r].do.base = 0 => yyrules[r].do.type # "NULL"
  PROVE  \E E : /\ C \subseteq E /\ Forest(E)
                /\ Good(E, Built(yyrules[r].do, v))
                /\ Sort(Built(yyrules[r].do, v)) \in Made(yyrules[r].do, yyrules[r].rhs)
<1> DEFINE rhs == yyrules[r].rhs
           do  == yyrules[r].do
           Below(k) == {Grandkid(do.kids[k].kids[j], v) : j \in DOMAIN do.kids[k].kids}
<1>1. /\ ActionFits(do, rhs) /\ do.type # "optional" /\ rhs \in Seq(Symbols) /\ Works(do, rhs)
      /\ do.base = 0 => do.type # "NULL"
  BY ActionsAssumption, RulesAssumption DEF ActionFits
<1>2. ValuesFit(C, v, rhs)
  OBVIOUS
<1>3. do.kids \in Seq(ToSet(do.kids))
  BY <1>1 DEF Works
<1>4. DOMAIN do.kids = 1..Len(do.kids) /\ Len(do.kids) \in Nat
  BY <1>3, LenProperties
<1>5. CASE \A k \in DOMAIN do.kids : ~Absent(do.kids[k], v)
  <2> DEFINE D == C \cup UNION {Below(k) : k \in DOMAIN do.kids}
             E == D \cup {Kid(do.kids[k], v) : k \in DOMAIN do.kids}
             kids == [k \in DOMAIN do.kids |-> Kid(do.kids[k], v)]
  <2>1. ASSUME NEW k \in DOMAIN do.kids
        PROVE  /\ Forest(C \cup Below(k)) /\ Good(C \cup Below(k), Kid(do.kids[k], v))
               /\ Sort(Kid(do.kids[k], v)) \in Made(do.kids[k], rhs)
    <3>1. ~Absent(do.kids[k], v)
      BY <1>5
    <3> HIDE DEF rhs, do
    <3> QED
      BY <1>1, <1>2, <3>1, AppendedFits
  <2> HIDE DEF Below
  <2>2. \A k \in DOMAIN do.kids : C \cup Below(k) \subseteq D
    OBVIOUS
  <2>3. Forest(D)
    <3> SUFFICES ASSUME NEW n \in D PROVE Good(D, n)
      BY DEF Forest
    <3>1. CASE n \in C
      BY <3>1, MoreIsGood DEF Forest
    <3>2. CASE n \notin C
      <4>1. PICK k \in DOMAIN do.kids : n \in Below(k)
        BY <3>2
      <4>2. Good(C \cup Below(k), n)
        BY <2>1, <4>1 DEF Forest
      <4> QED
        BY <2>2, <4>2, MoreIsGood
    <3> QED
      BY <3>1, <3>2
  <2>4. ASSUME NEW k \in DOMAIN do.kids
        PROVE  Good(D, Kid(do.kids[k], v))
    <3> DEFINE n == Kid(do.kids[k], v)
    <3>1. Good(C \cup Below(k), n) /\ C \cup Below(k) \subseteq D
      BY <2>1, <2>2
    <3> HIDE DEF n, D
    <3>2. Good(D, n)
      BY <3>1, MoreIsGood
    <3> QED
      BY <3>2 DEF n
  <2>5. C \subseteq E
    OBVIOUS
  <2> HIDE DEF D
  <2>6. Forest(E)
    BY <2>3, <2>4, ForestGrows
  <2>7. kids \in Seq(E) /\ DOMAIN kids = DOMAIN do.kids
    <3>1. kids \in [1..Len(do.kids) -> E]
      BY <1>4
    <3> HIDE DEF kids, do, E
    <3>2. kids \in Seq(E) /\ DOMAIN kids = 1..Len(do.kids)
      BY <1>4, <3>1, FunctionsAreSequences
    <3> QED
      BY <1>4, <3>2
  <2>8. \A k \in DOMAIN kids : Sort(kids[k]) \in Made(do.kids[k], rhs)
    BY <2>1
  <2>9. ValuesFit(E, v, rhs)
    BY <1>2, <2>5 DEF ValuesFit
  <2>10. do.base = 0 =>
           LET sort == SortOf(do.type, do.kind)
           IN  /\ do.type # "NULL"
               /\ Rank(sort) < 5 => Rank(Sort(kids[1])) >= Rank(sort) \/ Sort(kids[1]) = "invocation"
               /\ BindsRight(sort) => Rank(Sort(kids[2])) > Rank(sort)
    <3> SUFFICES ASSUME do.base = 0
                 PROVE  LET sort == SortOf(do.type, do.kind)
                        IN  /\ Rank(sort) < 5 => \/ Rank(Sort(kids[1])) >= Rank(sort)
                                                 \/ Sort(kids[1]) = "invocation"
                            /\ BindsRight(sort) => Rank(Sort(kids[2])) > Rank(sort)
      BY <1>1
    <3> DEFINE sort == SortOf(do.type, do.kind)
    <3>1. Created(r) = sort
      BY DEF Created
    <3>2. /\ Rank(sort) < 5 => 1 \in DOMAIN do.kids /\ 2 \in DOMAIN do.kids
          /\ Rank(sort) < 5 => \/ Rank(Sort(Kid(do.kids[1], v))) >= Rank(sort)
                               \/ Sort(Kid(do.kids[1], v)) = "invocation"
          /\ BindsRight(sort) => Rank(Sort(Kid(do.kids[2], v))) > Rank(sort)
      BY <2>1, <3>1, CreatedBinds
    <3>3. BindsRight(sort) => Rank(sort) < 5
      BY RanksAre
    <3> HIDE DEF sort, do
    <3>4. Rank(sort) < 5 => kids[1] = Kid(do.kids[1], v) /\ kids[2] = Kid(do.kids[2], v)
      BY <3>2
    <3>5. /\ Rank(sort) < 5 => Rank(Sort(kids[1])) >= Rank(sort) \/ Sort(kids[1]) = "invocation"
          /\ BindsRight(sort) => Rank(Sort(kids[2])) > Rank(sort)
      BY <3>2, <3>3, <3>4
    <3> QED
      BY <3>5 DEF sort
  <2>11. Kids(do, v) = do.kids
    BY <1>5 DEF Kids
  <2>12. Built(do, v) = Worked(do, v, kids)
    BY <2>11 DEF Built
  <2> HIDE DEF E, kids, do, rhs
  <2>13. Good(E, Worked(do, v, kids)) /\ Sort(Worked(do, v, kids)) \in Made(do, rhs)
    BY <1>1, <2>6, <2>7, <2>8, <2>9, <2>10, WorkedFits
  <2> QED
    BY <2>5, <2>6, <2>12, <2>13 DEF do, rhs
<1>6. CASE \E k \in DOMAIN do.kids : Absent(do.kids[k], v)
  <2>1. PICK k \in DOMAIN do.kids : do.kids[k].type = "optional"
    BY <1>6 DEF Absent
  <2>2. do.kind = "none" /\ (do.base = 0 => Least(Shape(do.type)) = 0)
    BY <1>1, <2>1 DEF ActionFits
  <2>3. Kids(do, v) = <<>>
    BY <1>6 DEF Kids
  <2> HIDE DEF do, rhs
  <2>4. [j \in DOMAIN <<>> |-> Kid(<<>>[j], v)] = <<>>
    OBVIOUS
  <2>5. Built(do, v) = Worked(do, v, <<>>)
    BY <2>3, <2>4 DEF Built
  <2>6. CASE do.base = 0
    <3> DEFINE sort == SortOf(do.type, do.kind)
    <3>1. sort = do.type
      BY <2>2 DEF SortOf
    <3>2. Least(Shape(sort)) = 0
      BY <2>2, <2>6, <3>1
    <3>3. ~(Rank(sort) < 5) /\ ~BindsRight(sort)
      BY <3>2, OperatorsHaveOperands, RanksAre
    <3>4. /\ <<>> \in Seq(C) /\ Len(<<>>) = 0
          /\ \A j \in 1..Len(<<>>) : Sort(<<>>[j]) \in Place(Shape(sort), j, Len(<<>>))
      OBVIOUS
    <3>5. Len(<<>>) >= Least(Shape(sort))
      BY <3>2, <3>4
    <3> HIDE DEF sort
    <3>6. sort = SortOf(do.type, do.kind)
      BY DEF sort
    <3>7. Good(C, Worked(do, v, <<>>)) /\ Sort(Worked(do, v, <<>>)) = sort
      <4> DEFINE kids == <<>>
      <4>1. /\ kids \in Seq(C) /\ Len(kids) >= Least(Shape(sort))
            /\ \A j \in 1..Len(kids) : Sort(kids[j]) \in Place(Shape(sort), j, Len(kids))
        BY <3>4, <3>5
      <4> HIDE DEF kids
      <4>2. Good(C, Worked(do, v, kids)) /\ Sort(Worked(do, v, kids)) = sort
        BY <1>1, <2>6, <3>3, <3>6, <4>1, CreatedIs
      <4> QED
        BY <4>2 DEF kids
    <3>8. Made(do, rhs) = {sort}
      BY <2>6, <3>6 DEF Made
    <3>9. C \subseteq C
      OBVIOUS
    <3> QED
      BY <2>5, <3>7, <3>8, <3>9 DEF do, rhs
  <2>7. CASE do.base # 0
    <3>1. do.base \in DOMAIN rhs /\ do.spells = 0
      BY <1>1, <2>7 DEF Works
    <3>2. v[do.base] \in C /\ Sort(v[do.base]) \in Promised(rhs[do.base]) /\ Good(C, v[do.base])
      BY <1>2, <3>1 DEF ValuesFit, Forest
    <3>3. Worked(do, v, <<>>) = v[do.base]
      BY <2>2, <2>7, <3>1, <3>2, SameIs
    <3>4. Made(do, rhs) = {Marking(sort, "none") : sort \in Promised(rhs[do.base])}
      BY <1>1, <2>2, <2>7 DEF Made
    <3>5. Marking(Sort(v[do.base]), "none") = Sort(v[do.base])
      BY MarkingNone
    <3>6. Sort(Built(do, v)) \in Made(do, rhs) /\ Good(C, Built(do, v))
      BY <2>5, <3>2, <3>3, <3>4, <3>5
    <3>7. C \subseteq C
      OBVIOUS
    <3> QED
      BY <3>6, <3>7 DEF do, rhs
  <2> QED
    BY <2>6, <2>7
<1> QED
  BY <1>5, <1>6

\* The value of the left side of a rule.
LEMMA ReducedFits ==
  ASSUME NEW C, NEW r \in DOMAIN yyrules, NEW v, Forest(C),
         ValuesFit(C, v, yyrules[r].rhs), ValuesBind(r, v)
  PROVE  \E E : /\ C \subseteq E /\ Forest(E)
                /\ Reduced(yyrules[r], v) \in E
                /\ Sort(Reduced(yyrules[r], v)) \in Made(yyrules[r].do, yyrules[r].rhs)
<1> DEFINE rhs == yyrules[r].rhs
           do  == yyrules[r].do
           n   == Reduced(yyrules[r], v)
           b   == Built(do, v)
           spelled == SubSeq(v, do.base + 1, yyrules[r].spelled)
           text == b.original \o FlattenSeq([k \in DOMAIN spelled |-> spelled[k].original])
<1>1. /\ do.base # 0 => "NULL" \notin Promised(rhs[do.base])
      /\ do.base = 0 /\ do.type = "NULL" =>
           /\ rhs = <<>> /\ yyrules[r].spelled = 0
           /\ do.kind = "none" /\ do.kids = <<>> /\ do.spells = 0
      /\ do.type # "optional"
  BY ActionsAssumption
<1>2. n = [b EXCEPT !.original = text]
  BY DEF Reduced
<1>3. CASE do.base = 0 /\ do.type = "NULL"
  <2>1. Kids(do, v) = <<>>
    BY <1>1, <1>3 DEF Kids
  <2>2. b = [type |-> "NULL", data |-> Data("none", <<>>), children |-> <<>> \o <<>>, original |-> <<>>]
    <3> HIDE DEF do
    <3>1. [j \in DOMAIN <<>> |-> Kid(<<>>[j], v)] = <<>>
      OBVIOUS
    <3>2. b = Worked(do, v, <<>>)
      BY <2>1, <3>1 DEF Built
    <3> QED
      BY <1>1, <1>3, <3>2 DEF Worked, Node
  <2>3. <<>> \o <<>> = <<>>
    BY ConcatEmptySeq, EmptySeq
  <2>4. b = Null
    BY <2>2, <2>3 DEF Null, Node
  <2>5. spelled = <<>>
    <3>1. do.base + 1 = 1 /\ yyrules[r].spelled = 0
      BY <1>1, <1>3
    <3>2. spelled = SubSeq(v, 1, 0)
      BY <3>1
    <3>3. SubSeq(v, 1, 0) = <<>>
      BY SubSeqEmpty
    <3> QED
      BY <3>2, <3>3
  <2> HIDE DEF b, spelled
  <2>6. [k \in DOMAIN spelled |-> spelled[k].original] = <<>>
    BY <2>5
  <2>7. FlattenSeq(<<>>) = <<>>
    BY DEF FlattenSeq
  <2>8. text = <<>>
    BY <2>3, <2>4, <2>6, <2>7 DEF Null, Node
  <2>9. n = Null
    BY <1>2, <2>4, <2>8 DEF Null, Node
  <2> HIDE DEF n
  <2>10. Good(C, n) /\ Sort(n) = "NULL"
    BY <2>9, LeafIsGood DEF Null, Node
  <2>11. Forest(C \cup {n})
    BY <2>10, ForestGrows
  <2>12. Made(do, rhs) = {"NULL"}
    BY <1>3 DEF Made, SortOf
  <2>13. C \subseteq C \cup {n} /\ n \in C \cup {n}
    OBVIOUS
  <2> QED
    BY <2>10, <2>11, <2>12, <2>13 DEF n
<1>4. CASE ~(do.base = 0 /\ do.type = "NULL")
  <2>1. PICK E : C \subseteq E /\ Forest(E) /\ Good(E, b) /\ Sort(b) \in Made(do, rhs)
    BY <1>4, BuiltFits
  <2>2. b.type # "NULL"
    <3> SUFFICES ASSUME Sort(b) = "NULL" PROVE FALSE
      BY NullSorts DEF Sort
    <3> HIDE DEF b
    <3>1. CASE do.base = 0
      <4>1. Made(do, rhs) = {SortOf(do.type, do.kind)}
        BY <3>1 DEF Made
      <4> QED
        BY <1>4, <2>1, <3>1, <4>1, NullSorts
    <3>2. CASE do.base # 0
      <4>1. Made(do, rhs) = {Marking(sort, do.kind) : sort \in Promised(rhs[do.base])}
        BY <1>1, <3>2 DEF Made
      <4>2. PICK sort \in Promised(rhs[do.base]) : Marking(sort, do.kind) = "NULL"
        BY <2>1, <4>1
      <4>3. sort # "NULL"
        BY <1>1, <3>2, <4>2
      <4> QED
        BY <4>2, <4>3, NullSorts DEF Marking
    <3> QED
      BY <3>1, <3>2
  <2> HIDE DEF b, text, n
  <2>3. Good(E, n) /\ Sort(n) = Sort(b)
    BY <1>2, <2>1, <2>2, TextIsFree
  <2>4. Forest(E \cup {n})
    BY <2>1, <2>3, ForestGrows
  <2>5. C \subseteq E \cup {n} /\ n \in E \cup {n}
    BY <2>1
  <2> QED
    BY <2>1, <2>3, <2>4, <2>5 DEF n
<1> QED
  BY <1>3, <1>4

-----------------------------------------------------------------------------
(* The values on the stack.                                                *)

\* Each value is what its symbol promises.
ValuesOn(C, s) ==
  \A i \in 1..Len(s) : s[i].value \in C /\ Sort(s[i].value) \in Promised(s[i].symbol)

\* Each state follows from the one below it, in which a token was shifted.
Chained(s) ==
  \A i \in 1..Len(s) :
    /\ s[i].symbol \in DOMAIN yytable[StateAt(s, i - 1)].goto
    /\ s[i].state = yytable[StateAt(s, i - 1)].goto[s[i].symbol]
    /\ s[i].symbol \notin LeftSymbols => s[i].symbol \in yytable[StateAt(s, i - 1)].shift

\* The items that an item comes from are in the states below.
ItemsChained(s) ==
  \A i \in 0..Len(s) : \A item \in StateAt(s, i) :
    \A j \in 1..item[2] : <<item[1], j>> \in StateAt(s, i - item[2] + j)

\* An expression that is an operand on the right binds tighter than the operator.
BoundOnTheRight(s) ==
  \A i \in 1..Len(s) : s[i].symbol = "expression" =>
    \A item \in StateAt(s, i) :
      RightOperand(item[1], item[2]) => Rank(Sort(s[i].value)) > Rank(Created(item[1]))

Fits(C, s) == ValuesOn(C, s) /\ Chained(s) /\ ItemsChained(s) /\ BoundOnTheRight(s)

\* An expression binds as tightly as the operator after it.
BindsLikeNext(value, next) == Rank(Sort(value)) >= Tightness(next) \/ Sort(value) = "invocation"

BoundOnTheLeft(s, next) ==
  \A i \in 1..Len(s) : s[i].symbol = "expression" =>
    BindsLikeNext(s[i].value, IF i = Len(s) THEN next ELSE s[i + 1].symbol)

\* A stack that fits a set fits a larger one.
LEMMA FitsMore ==
  ASSUME NEW C, NEW D, C \subseteq D, NEW s, Fits(C, s)
  PROVE  Fits(D, s)
BY DEF Fits, ValuesOn

\* An operand binds like every operator that is looser than the next.
LEMMA LooserIsBound ==
  ASSUME NEW value, NEW X, NEW Y, BindsLikeNext(value, X), Tightness(Y) <= Tightness(X)
  PROVE  BindsLikeNext(value, Y)
BY RanksAre, TightnessIs DEF BindsLikeNext

\* What is read or reduced next does not bind tighter than a token that is yet to
\* be read.
LEMMA NextIsRead ==
  ASSUME NEW s, NEW X, NEW Y, BoundOnTheLeft(s, X), Tightness(Y) <= Tightness(X)
  PROVE  BoundOnTheLeft(s, Y)
BY LooserIsBound DEF BoundOnTheLeft

\* The stack of a parse that begins or has ended.
LEMMA EmptyFits ==
  ASSUME NEW C, NEW X
  PROVE  Fits(C, <<>>) /\ BoundOnTheLeft(<<>>, X)
<1>1. Len(<<>>) = 0
  OBVIOUS
<1>2. ItemsChained(<<>>)
  <2> SUFFICES ASSUME NEW item \in State0, NEW j \in 1..item[2] PROVE FALSE
    BY <1>1 DEF ItemsChained, StateAt
  <2>1. item[2] = 0
    BY TablesAssumption
  <2> QED
    BY <2>1
<1> QED
  BY <1>1, <1>2 DEF Fits, ValuesOn, Chained, BoundOnTheRight, BoundOnTheLeft

\* The states on a stack, and their items.
LEMMA StatesAre ==
  ASSUME NEW s, WellStacked(s), NEW i \in 0..Len(s)
  PROVE  /\ Len(s) \in Nat /\ StateAt(s, i) \in DOMAIN yytable
         /\ \A item \in StateAt(s, i) :
              /\ item[1] \in DOMAIN yyrules /\ item[2] \in 0..i
              /\ item = <<item[1], item[2]>>
<1>1. Len(s) \in Nat
  BY TopIs DEF WellStacked
<1>2. StateAt(s, i) \in DOMAIN yytable
  BY <1>1, TablesAssumption DEF WellStacked, StateAt
<1>3. ASSUME NEW item \in StateAt(s, i)
      PROVE  item[1] \in DOMAIN yyrules /\ item[2] \in 0..i /\ item = <<item[1], item[2]>>
  <2>1. item \in (DOMAIN yyrules) \X Nat
    BY <1>2, RowsFit
  <2>2. SpellsItems(s, i)
    BY DEF WellStacked
  <2>3. item[2] <= i
    BY <2>2 DEF SpellsItems
  <2> QED
    BY <2>1, <2>3
<1> QED
  BY <1>1, <1>2, <1>3

\* What fits still fits when the symbols above are gone.
LEMMA CutFits ==
  ASSUME NEW C, NEW s, WellStacked(s), Fits(C, s), NEW la, BoundOnTheLeft(s, la),
         NEW n \in 0..Len(s), NEW next, Tightness(next) = 0
  PROVE  Fits(C, SubSeq(s, 1, n)) /\ BoundOnTheLeft(SubSeq(s, 1, n), next)
<1> DEFINE t == SubSeq(s, 1, n)
<1>1. Len(t) = n /\ \A i \in 1..n : t[i] = s[i]
  BY CutIs
<1>2. Len(s) \in Nat /\ n <= Len(s)
  BY TopIs DEF WellStacked
<1> HIDE DEF t
<1>3. ASSUME NEW i \in 0..n
      PROVE  StateAt(t, i) = StateAt(s, i)
  BY <1>1, <1>3 DEF StateAt
<1>4. ValuesOn(C, t)
  BY <1>1, <1>2 DEF Fits, ValuesOn
<1>5. Chained(t)
  <2> SUFFICES ASSUME NEW i \in 1..n
               PROVE  /\ t[i].symbol \in DOMAIN yytable[StateAt(t, i - 1)].goto
                      /\ t[i].state = yytable[StateAt(t, i - 1)].goto[t[i].symbol]
                      /\ t[i].symbol \notin LeftSymbols =>
                           t[i].symbol \in yytable[StateAt(t, i - 1)].shift
    BY <1>1 DEF Chained
  <2>1. t[i] = s[i] /\ i \in 1..Len(s) /\ i - 1 \in 0..n
    BY <1>1, <1>2
  <2>2. StateAt(t, i - 1) = StateAt(s, i - 1)
    BY <1>3, <2>1
  <2> QED
    BY <2>1, <2>2 DEF Fits, Chained
<1>6. ItemsChained(t)
  <2> SUFFICES ASSUME NEW i \in 0..n, NEW item \in StateAt(t, i), NEW j \in 1..item[2]
               PROVE  <<item[1], j>> \in StateAt(t, i - item[2] + j)
    BY <1>1 DEF ItemsChained
  <2>1. i \in 0..Len(s) /\ item \in StateAt(s, i)
    BY <1>2, <1>3
  <2>2. item[2] \in 0..i
    BY <2>1, StatesAre
  <2>3. i - item[2] + j \in 0..n
    BY <2>2
  <2>4. <<item[1], j>> \in StateAt(s, i - item[2] + j)
    BY <2>1 DEF Fits, ItemsChained
  <2> QED
    BY <1>3, <2>3, <2>4
<1>7. BoundOnTheRight(t)
  <2> SUFFICES ASSUME NEW i \in 1..n, t[i].symbol = "expression", NEW item \in StateAt(t, i),
                      RightOperand(item[1], item[2])
               PROVE  Rank(Sort(t[i].value)) > Rank(Created(item[1]))
    BY <1>1 DEF BoundOnTheRight
  <2>1. t[i] = s[i] /\ i \in 1..Len(s) /\ item \in StateAt(s, i)
    BY <1>1, <1>2, <1>3
  <2> QED
    BY <2>1 DEF Fits, BoundOnTheRight
<1>8. BoundOnTheLeft(t, next)
  <2> SUFFICES ASSUME NEW i \in 1..n, t[i].symbol = "expression"
               PROVE  BindsLikeNext(t[i].value, IF i = n THEN next ELSE t[i + 1].symbol)
    BY <1>1 DEF BoundOnTheLeft
  <2>1. CASE i = n
    BY <2>1, RanksAre DEF BindsLikeNext
  <2>2. CASE i # n
    <3>1. i + 1 \in 1..n /\ i \in 1..Len(s) /\ i # Len(s)
      BY <1>2, <2>2
    <3>2. BindsLikeNext(s[i].value, s[i + 1].symbol)
      BY <1>1, <3>1 DEF BoundOnTheLeft
    <3> QED
      BY <1>1, <2>2, <3>1, <3>2
  <2> QED
    BY <2>1, <2>2
<1> QED
  BY <1>4, <1>5, <1>6, <1>7, <1>8 DEF Fits, t

\* What fits still fits with one symbol more.
LEMMA PushFits ==
  ASSUME NEW C, NEW s, WellStacked(s), Fits(C, s), NEW token, BoundOnTheLeft(s, token.symbol),
         token.symbol \in DOMAIN yytable[Top(s)].goto,
         token.symbol \notin LeftSymbols => token.symbol \in yytable[Top(s)].shift,
         token.value \in C, Sort(token.value) \in Promised(token.symbol), NEW next,
         token.symbol = "expression" =>
           /\ BindsLikeNext(token.value, next)
           /\ \A item \in yytable[Top(s)].goto[token.symbol] :
                RightOperand(item[1], item[2]) => Rank(Sort(token.value)) > Rank(Created(item[1]))
  PROVE  Fits(C, Pushed(s, token)) /\ BoundOnTheLeft(Pushed(s, token), next)
<1> DEFINE t == Pushed(s, token)
           n == Len(s) + 1
           X == token.symbol
           state == yytable[Top(s)].goto[X]
<1>1. /\ Len(s) \in Nat /\ Len(t) = n
      /\ \A i \in 1..Len(s) : t[i] = s[i]
      /\ t[n].symbol = X /\ t[n].value = token.value /\ t[n].state = state
  <2>1. /\ Len(s) \in Nat /\ Len(t) = n
        /\ \A i \in 1..Len(s) : t[i] = s[i]
        /\ t[n] = [symbol |-> X, value |-> token.value, state |-> state]
    BY PushedIs DEF WellStacked
  <2> HIDE DEF t, X, state, n
  <2> QED
    BY <2>1
<1>2. Top(s) \in DOMAIN yytable /\ Top(s) = StateAt(s, Len(s))
  BY TopIsAState, TopIs DEF WellStacked
<1> HIDE DEF t, state
<1>3. ASSUME NEW i \in 0..Len(s)
      PROVE  StateAt(t, i) = StateAt(s, i)
  BY <1>1 DEF StateAt
<1>4. StateAt(t, n) = state /\ n # 0 /\ n - 1 = Len(s) /\ n - 1 \in 0..Len(s)
  BY <1>1 DEF StateAt
<1>5. \A i \in 1..n : i = n \/ i \in 1..Len(s)
  BY <1>1
<1>6. ValuesOn(C, t)
  BY <1>1, <1>5 DEF Fits, ValuesOn
<1>7. Chained(t)
  <2> SUFFICES ASSUME NEW i \in 1..n
               PROVE  /\ t[i].symbol \in DOMAIN yytable[StateAt(t, i - 1)].goto
                      /\ t[i].state = yytable[StateAt(t, i - 1)].goto[t[i].symbol]
                      /\ t[i].symbol \notin LeftSymbols =>
                           t[i].symbol \in yytable[StateAt(t, i - 1)].shift
    BY <1>1 DEF Chained
  <2>1. CASE i = n
    <3>1. StateAt(t, i - 1) = Top(s)
      BY <1>2, <1>3, <1>4, <2>1
    <3> QED
      BY <1>1, <2>1, <3>1 DEF state
  <2>2. CASE i \in 1..Len(s)
    <3>1. i - 1 \in 0..Len(s)
      BY <1>1, <2>2
    <3>2. StateAt(t, i - 1) = StateAt(s, i - 1) /\ t[i] = s[i]
      BY <1>1, <1>3, <2>2, <3>1
    <3> QED
      BY <2>2, <3>2 DEF Fits, Chained
  <2> QED
    BY <1>5, <2>1, <2>2
<1>8. ItemsChained(t)
  <2> SUFFICES ASSUME NEW i \in 0..n, NEW item \in StateAt(t, i), NEW j \in 1..item[2]
               PROVE  <<item[1], j>> \in StateAt(t, i - item[2] + j)
    BY <1>1 DEF ItemsChained
  <2>1. CASE i \in 0..Len(s)
    <3>1. item \in StateAt(s, i)
      BY <1>3, <2>1
    <3>2. item[2] \in 0..i
      BY <2>1, <3>1, StatesAre
    <3>3. i - item[2] + j \in 0..Len(s)
      BY <1>1, <2>1, <3>2
    <3>4. <<item[1], j>> \in StateAt(s, i - item[2] + j)
      BY <2>1, <3>1 DEF Fits, ItemsChained
    <3> QED
      BY <1>3, <3>3, <3>4
  <2>2. CASE i = n
    <3> DEFINE r == item[1]
               d == item[2]
               before == <<r, d - 1>>
    <3>1. item \in yytable[Top(s)].goto[X] /\ item \in StateAt(t, n)
      BY <1>4, <2>2 DEF state
    <3>2. /\ d \in Nat /\ d > 0
          /\ before \in Top(s) \/ d = 1
      BY <1>2, <3>1, ItemsFit
    <3>3. item = <<r, d>>
      <4>1. yytable[Top(s)].goto[X] \in DOMAIN yytable
        BY <1>2, GotosFit
      <4>2. item \in (DOMAIN yyrules) \X Nat
        BY <3>1, <4>1, RowsFit
      <4> QED
        BY <4>2
    <3>4. CASE j = d
      <4>1. i - d + j = n
        BY <1>1, <2>2, <3>2, <3>4
      <4> QED
        BY <3>1, <3>3, <3>4, <4>1
    <3>5. CASE j # d
      <4>1. j \in 1..(d - 1) /\ d # 1
        BY <3>2, <3>5
      <4>2. before \in StateAt(s, Len(s)) /\ before[1] = r /\ before[2] = d - 1
        BY <1>2, <3>2, <4>1
      <4> HIDE DEF before
      <4>3. Len(s) \in 0..Len(s)
        BY <1>1
      <4>4. before[2] \in 0..Len(s)
        BY <4>2, <4>3, StatesAre
      <4>5. <<before[1], j>> \in StateAt(s, Len(s) - before[2] + j)
        BY <4>1, <4>2, <4>3 DEF Fits, ItemsChained
      <4>6. Len(s) - before[2] + j = n - d + j /\ Len(s) - before[2] + j \in 0..Len(s)
        <5> DEFINE l == Len(s)
                   e == before[2]
        <5>1. l \in Nat /\ e = d - 1 /\ d \in Nat /\ d > 0 /\ e \in 0..l /\ j \in 1..(d - 1) /\ n = l + 1
          BY <1>1, <3>2, <4>1, <4>2, <4>4
        <5> HIDE DEF l, e, d, n
        <5>2. l - e + j = n - d + j /\ l - e + j \in 0..l
          BY <5>1
        <5> QED
          BY <5>2 DEF l, e
      <4> QED
        BY <1>3, <2>2, <4>2, <4>5, <4>6
    <3> QED
      BY <3>4, <3>5
  <2> QED
    BY <1>1, <2>1, <2>2
<1>9. BoundOnTheRight(t)
  <2> SUFFICES ASSUME NEW i \in 1..n, t[i].symbol = "expression", NEW item \in StateAt(t, i),
                      RightOperand(item[1], item[2])
               PROVE  Rank(Sort(t[i].value)) > Rank(Created(item[1]))
    BY <1>1 DEF BoundOnTheRight
  <2>1. CASE i = n
    BY <1>1, <1>4, <2>1 DEF state
  <2>2. CASE i \in 1..Len(s)
    <3>1. t[i] = s[i] /\ item \in StateAt(s, i)
      <4>1. i \in 0..Len(s)
        BY <1>1, <2>2
      <4> QED
        BY <1>1, <1>3, <2>2, <4>1
    <3> QED
      BY <2>2, <3>1 DEF Fits, BoundOnTheRight
  <2> QED
    BY <1>5, <2>1, <2>2
<1>10. BoundOnTheLeft(t, next)
  <2> SUFFICES ASSUME NEW i \in 1..n, t[i].symbol = "expression"
               PROVE  BindsLikeNext(t[i].value, IF i = n THEN next ELSE t[i + 1].symbol)
    BY <1>1 DEF BoundOnTheLeft
  <2>1. CASE i = n
    BY <1>1, <2>1
  <2>2. CASE i \in 1..(Len(s) - 1)
    <3>1. i + 1 \in 1..Len(s) /\ i \in 1..Len(s) /\ i # Len(s) /\ i # n
      BY <1>1, <2>2
    <3>2. BindsLikeNext(s[i].value, s[i + 1].symbol)
      BY <1>1, <3>1 DEF BoundOnTheLeft
    <3> QED
      BY <1>1, <3>1, <3>2
  <2>3. CASE i = Len(s)
    <3>1. i \in 1..Len(s) /\ i # n /\ i + 1 = n
      BY <1>1, <2>3
    <3>2. BindsLikeNext(s[i].value, X)
      BY <1>1, <2>3, <3>1 DEF BoundOnTheLeft
    <3> QED
      BY <1>1, <3>1, <3>2
  <2> QED
    BY <1>1, <2>1, <2>2, <2>3
<1> QED
  BY <1>6, <1>7, <1>8, <1>9, <1>10 DEF Fits, t

\* The values that the action of a rule gets.
Operands(s, r) ==
  [i \in DOMAIN yyrules[r].rhs |-> s[(Len(s) - Len(yyrules[r].rhs)) + i].value]

\* The values that a reduction pops are those of its rule's symbols, and bind as its
\* operands have to.
LEMMA OperandsFit ==
  ASSUME NEW C, NEW s, WellStacked(s), Fits(C, s), NEW next, BoundOnTheLeft(s, next),
         NEW r, r # NoRule, Complete(Top(s), r)
  PROVE  ValuesFit(C, Operands(s, r), yyrules[r].rhs) /\ ValuesBind(r, Operands(s, r))
<1> DEFINE rhs == yyrules[r].rhs
           m == Len(rhs)
           l == Len(s)
           kept == l - m
           v == Operands(s, r)
<1>1. r \in DOMAIN yyrules /\ rhs \in Seq(Symbols) /\ DOMAIN rhs = 1..m /\ m \in Nat
  BY RulesAssumption, LenProperties DEF Complete
<1>2. /\ l \in Nat /\ kept \in 0..l
      /\ \A j \in 1..m : s[kept + j].symbol = rhs[j]
  <2>1. FindsItsSymbols(s, r)
    BY ReductionFindsSymbols
  <2> QED
    BY <2>1 DEF FindsItsSymbols
<1>3. v = [i \in DOMAIN rhs |-> s[kept + i].value]
  BY DEF Operands
<1>4. Top(s) = StateAt(s, l)
  BY TopIs DEF WellStacked
<1>5. <<r, m>> \in Top(s) \/ rhs = <<>>
  BY DEF Complete
<1> HIDE DEF v, rhs
<1>6. m = 0 \/ <<r, m>> \in StateAt(s, l)
  BY <1>4, <1>5
<1> HIDE DEF m
<1>7. l = kept + m
  <2> HIDE DEF l
  <2> QED
    BY <1>1, <1>2
<1> HIDE DEF l, kept
<1>8. ASSUME NEW p \in 1..m
      PROVE  /\ kept + p \in 1..l /\ s[kept + p].symbol = rhs[p] /\ v[p] = s[kept + p].value
             /\ <<r, p>> \in StateAt(s, kept + p)
  <2>1. kept + p \in 1..l /\ m # 0 /\ l \in 0..l /\ l - m + p = kept + p
    BY <1>1, <1>2, <1>7
  <2>2. <<r, p>> \in StateAt(s, kept + p)
    <3> DEFINE item == <<r, m>>
    <3>1. item \in StateAt(s, l) /\ item[1] = r /\ item[2] = m
      BY <1>6, <2>1
    <3> HIDE DEF item
    <3>2. <<item[1], p>> \in StateAt(s, l - item[2] + p)
      BY <2>1, <3>1 DEF Fits, ItemsChained, l
    <3> QED
      BY <2>1, <3>1, <3>2
  <2> QED
    BY <1>1, <1>2, <1>3, <2>1, <2>2
<1>9. ValuesFit(C, v, rhs)
  BY <1>1, <1>8 DEF ValuesFit, Fits, ValuesOn, l
<1>10. ASSUME NEW p \in DOMAIN rhs, rhs[p] = "expression", p + 1 \in DOMAIN rhs
       PROVE  Rank(Sort(v[p])) >= Tightness(rhs[p + 1]) \/ Sort(v[p]) = "invocation"
  <2>1. p \in 1..m /\ p + 1 \in 1..m /\ kept + (p + 1) = (kept + p) + 1
    BY <1>1, <1>2, <1>10
  <2>2. /\ kept + p \in 1..l /\ s[kept + p].symbol = "expression" /\ v[p] = s[kept + p].value
        /\ (kept + p) + 1 \in 1..l /\ s[(kept + p) + 1].symbol = rhs[p + 1]
    BY <1>8, <1>10, <2>1
  <2>3. kept + p # l
    BY <1>1, <1>2, <2>1, <2>2
  <2>4. BindsLikeNext(s[kept + p].value, s[(kept + p) + 1].symbol)
    BY <2>2, <2>3 DEF BoundOnTheLeft, l
  <2> QED
    BY <2>2, <2>4 DEF BindsLikeNext
<1>11. ASSUME NEW p \in DOMAIN rhs, RightOperand(r, p)
       PROVE  Rank(Sort(v[p])) > Rank(Created(r))
  <2>1. p \in 1..m /\ rhs[p] = "expression"
    BY <1>1, <1>11 DEF RightOperand, IsOperand, rhs
  <2>2. /\ kept + p \in 1..l /\ s[kept + p].symbol = "expression" /\ v[p] = s[kept + p].value
        /\ <<r, p>> \in StateAt(s, kept + p)
    BY <1>8, <2>1
  <2> DEFINE item == <<r, p>>
  <2>3. item \in StateAt(s, kept + p) /\ item[1] = r /\ item[2] = p
    BY <2>2
  <2> HIDE DEF item
  <2>4. RightOperand(item[1], item[2])
    BY <1>11, <2>3
  <2>5. Rank(Sort(s[kept + p].value)) > Rank(Created(item[1]))
    BY <2>2, <2>3, <2>4 DEF Fits, BoundOnTheRight, l
  <2> QED
    BY <2>2, <2>3, <2>5
<1> QED
  BY <1>9, <1>10, <1>11 DEF ValuesBind, v, rhs

\* What is reduced to an expression binds as tightly as the token that it was
\* reduced for, and tighter than the operator before it.
LEMMA ExpressionBinds ==
  ASSUME NEW C, NEW s, WellStacked(s), Fits(C, s), NEW next,
         next = "none" => yytable[Top(s)].tokenless,
         NEW r, r # NoRule, r = Decision(yytable[Top(s)], next), yyrules[r].lhs = "expression",
         NEW value, Sort(value) \in Made(yyrules[r].do, yyrules[r].rhs)
  PROVE  LET kept == Len(s) - Len(yyrules[r].rhs)
         IN  /\ BindsLikeNext(value, next)
             /\ \A item \in yytable[StateAt(s, kept)].goto["expression"] :
                  RightOperand(item[1], item[2]) => Rank(Sort(value)) > Rank(Created(item[1]))
<1> DEFINE rhs == yyrules[r].rhs
           do == yyrules[r].do
           m == Len(rhs)
           l == Len(s)
           kept == l - m
           state == yytable[StateAt(s, kept)].goto["expression"]
<1>1. Top(s) \in DOMAIN yytable
  BY TopIsAState
<1>2. Complete(Top(s), r) /\ next \notin yytable[Top(s)].shift
  BY <1>1, DecisionsFit DEF Decision
<1>3. r \in DOMAIN yyrules /\ rhs \in Seq(Symbols) /\ DOMAIN rhs = 1..m /\ m \in Nat
  BY <1>2, RulesAssumption, LenProperties DEF Complete
<1>4. /\ l \in Nat /\ kept \in 0..l
      /\ \A j \in 1..m : s[kept + j].symbol = rhs[j]
  <2>1. FindsItsSymbols(s, r)
    BY <1>2, ReductionFindsSymbols
  <2> QED
    BY <2>1 DEF FindsItsSymbols
<1>5. CASE \A sort \in Made(do, rhs) : Rank(sort) = 5
  <2>1. Rank(Sort(value)) = 5
    BY <1>5
  <2>2. BindsLikeNext(value, next)
    BY <2>1, TightnessIs DEF BindsLikeNext
  <2>3. ASSUME NEW item \in state, RightOperand(item[1], item[2])
        PROVE  Rank(Sort(value)) > Rank(Created(item[1]))
    BY <2>1, <2>3, RanksAre DEF RightOperand
  <2> QED
    BY <2>2, <2>3
<1>6. CASE /\ do.base = 0 /\ Len(rhs) > 1
           /\ rhs[1] = "expression" /\ rhs[2] \in Operators
           /\ Tightness(rhs[2]) = Rank(Created(r))
  <2>1. Sort(value) = Created(r)
    BY <1>6 DEF Made, Created
  <2>2. BindsLikeNext(value, next)
    <3>1. CASE BindsRight(Created(r))
      <4>1. /\ yytable[Top(s)].tokenless => Rank(Created(r)) >= Tightness("none")
            /\ \A t \in Operators : Tightness(t) > Rank(Created(r)) => t \in yytable[Top(s)].shift
        BY <1>1, <1>2, <1>3, <3>1, PrecedenceAssumption
      <4>2. Rank(Created(r)) \in Nat /\ Tightness(next) \in Nat
        BY RanksAre, TightnessIs
      <4>3. CASE next = "none"
        BY <2>1, <4>1, <4>3 DEF BindsLikeNext
      <4>4. CASE next \in Operators
        <5>1. ~(Tightness(next) > Rank(Created(r)))
          BY <1>2, <4>1, <4>4
        <5> QED
          BY <2>1, <4>2, <5>1 DEF BindsLikeNext
      <4>5. CASE next \notin Operators \cup {"none"}
        BY <2>1, <4>2, <4>5, TightnessIs DEF BindsLikeNext
      <4> QED
        BY <4>3, <4>4, <4>5
    <3>2. CASE ~BindsRight(Created(r))
      <4>1. Created(r) = "invocation" \/ Rank(Created(r)) = 5
        BY <3>2 DEF BindsRight, Rank
      <4> QED
        BY <2>1, <4>1, TightnessIs DEF BindsLikeNext
    <3> QED
      BY <3>1, <3>2
  <2>3. ASSUME NEW item \in state, RightOperand(item[1], item[2])
        PROVE  Rank(Sort(value)) > Rank(Created(item[1]))
    <3> DEFINE i == kept + 1
    <3>1. 1 \in 1..m /\ 2 \in 1..m
      BY <1>3, <1>6
    <3>2. s[kept + 1].symbol = "expression" /\ s[kept + 2].symbol = rhs[2]
      BY <1>4, <1>6, <3>1
    <3>3. i \in 1..l /\ i + 1 \in 1..l /\ i - 1 = kept /\ i + 1 = kept + 2 /\ (i + 1) - 1 = i /\ i # 0
      <4> HIDE DEF l, m
      <4>1. m > 1 /\ m <= l
        BY <1>3, <1>4, <1>6 DEF m
      <4> QED
        BY <1>3, <1>4, <4>1
    <3> HIDE DEF i, kept
    <3>4. s[i].symbol = "expression" /\ s[i + 1].symbol = rhs[2]
      BY <3>2, <3>3 DEF i
    <3>5. StateAt(s, i) = state
      BY <3>3, <3>4 DEF Fits, Chained, StateAt
    <3>6. rhs[2] \notin LeftSymbols /\ rhs[2] \in Operators
      BY <1>6, PrecedenceAssumption
    <3>7. rhs[2] \in yytable[StateAt(s, i)].shift
      BY <3>3, <3>4, <3>6 DEF Fits, Chained
    <3>8. StateAt(s, i) \in DOMAIN yytable
      BY <3>3, StatesAre
    <3>9. Tightness(rhs[2]) > Rank(Created(item[1]))
      BY <2>3, <3>5, <3>6, <3>7, <3>8, PrecedenceAssumption
    <3> QED
      BY <1>6, <2>1, <3>9
  <2> QED
    BY <2>2, <2>3
<1>7. \/ \A sort \in Made(do, rhs) : Rank(sort) = 5
      \/ /\ do.base = 0 /\ Len(rhs) > 1
         /\ rhs[1] = "expression" /\ rhs[2] \in Operators
         /\ Tightness(rhs[2]) = Rank(Created(r))
  BY <1>3, OperatorsAssumption
<1> QED
  BY <1>5, <1>6, <1>7

\* A reduction leaves a stack that fits, in a forest that has grown.
LEMMA ReductionFits ==
  ASSUME NEW C, NEW s, WellStacked(s), Forest(C), Fits(C, s), NEW next, BoundOnTheLeft(s, next),
         next = "none" => yytable[Top(s)].tokenless,
         NEW r, r # NoRule, r = Decision(yytable[Top(s)], next)
  PROVE  \E E : /\ C \subseteq E /\ Forest(E)
                /\ Fits(E, Reduction(s, r)) /\ BoundOnTheLeft(Reduction(s, r), next)
                /\ Last(Reduction(s, r)).value \in E
                /\ Sort(Last(Reduction(s, r)).value) \in Promised(Last(Reduction(s, r)).symbol)
<1> DEFINE lhs == yyrules[r].lhs
           kept == Len(s) - Len(yyrules[r].rhs)
           cut == SubSeq(s, 1, kept)
           value == Reduced(yyrules[r], Operands(s, r))
           token == Token(lhs, value)
           t == Pushed(cut, token)
<1>1. Complete(Top(s), r)
  BY TopIsAState, DecisionsFit
<1>2. r \in DOMAIN yyrules
  BY <1>1 DEF Complete
<1>3. PICK E : /\ C \subseteq E /\ Forest(E) /\ value \in E
               /\ Sort(value) \in Made(yyrules[r].do, yyrules[r].rhs)
  <2>1. ValuesFit(C, Operands(s, r), yyrules[r].rhs) /\ ValuesBind(r, Operands(s, r))
    BY <1>1, OperandsFit
  <2> QED
    BY <1>2, <2>1, ReducedFits
<1>4. /\ kept \in 0..Len(s) /\ Len(s) \in Nat /\ lhs \in DOMAIN yytable[StateAt(s, kept)].goto
      /\ t = Reduction(s, r)
  BY <1>1, ReductionFindsSymbols DEF FindsItsSymbols, Reduction, Operands
<1>5. token.symbol = lhs /\ token.value = value
  BY DEF Token
<1>6. lhs \in LeftSymbols /\ Tightness(lhs) = 0
  <2>1. lhs \in LeftSymbols /\ lhs \in Symbols
    BY <1>2 DEF LeftSymbols, Symbols
  <2>2. lhs \notin Operators /\ lhs # "none"
    BY <2>1, PrecedenceAssumption, LexemeAssumption
  <2> QED
    BY <2>1, <2>2, TightnessIs
<1>7. Sort(value) \in Promised(lhs)
  BY <1>2, <1>3, ActionsAssumption DEF NoRule, Accepting
<1>8. lhs = "expression" =>
        /\ BindsLikeNext(value, next)
        /\ \A item \in yytable[StateAt(s, kept)].goto["expression"] :
             RightOperand(item[1], item[2]) => Rank(Sort(value)) > Rank(Created(item[1]))
  BY <1>3, ExpressionBinds
<1> HIDE DEF value, kept, lhs
<1>9. /\ WellStacked(cut) /\ Top(cut) = StateAt(s, kept)
      /\ Fits(C, cut) /\ BoundOnTheLeft(cut, lhs)
  BY <1>4, <1>6, CutIs, CutFits
<1> HIDE DEF cut, token
<1>10. Fits(E, cut)
  BY <1>3, <1>9, FitsMore
<1>11. Fits(E, t) /\ BoundOnTheLeft(t, next)
  BY <1>3, <1>4, <1>5, <1>6, <1>7, <1>8, <1>9, <1>10, PushFits
<1>12. Last(t).value = value /\ Last(t).symbol = lhs
  <2>1. /\ t[Len(cut) + 1] = [symbol |-> token.symbol, value |-> token.value,
                              state |-> yytable[Top(cut)].goto[token.symbol]]
        /\ Last(t) = t[Len(cut) + 1]
    BY <1>9, PushedIs DEF WellStacked
  <2> HIDE DEF t
  <2> QED
    BY <1>5, <2>1
<1> HIDE DEF t
<1> QED
  BY <1>3, <1>4, <1>7, <1>11, <1>12

-----------------------------------------------------------------------------
(* The nodes of trees.                                                     *)

\* A set that has 0 and with every number the next one has all up to m.
LEMMA UpTo ==
  ASSUME NEW m \in Nat, NEW F, 0 \in F, \A n \in 1..m : n - 1 \in F => n \in F
  PROVE  0..m \subseteq F
<1> DEFINE D == {n \in 1..m : n \notin F}
<1>1. D = {}
  <2> SUFFICES ASSUME D # {} PROVE FALSE
    OBVIOUS
  <2>1. D \in SUBSET (1..m)
    OBVIOUS
  <2> HIDE DEF D
  <2>2. Min(D) \in D /\ \A y \in D : Min(D) <= y
    BY <2>1, MinOfBounded
  <2> DEFINE n == Min(D)
  <2>3. n \in 1..m /\ n \notin F /\ \A y \in D : n <= y
    BY <2>2 DEF D
  <2> HIDE DEF n
  <2>4. n - 1 \notin D
    BY <2>3 DEF D
  <2>5. n - 1 = 0 \/ n - 1 \in 1..m
    BY <2>3
  <2>6. n - 1 \in F
    BY <2>4, <2>5 DEF D
  <2> QED
    BY <2>3, <2>6
<1> QED
  BY <1>1

\* All the nodes of trees in a forest are in it.
LEMMA NodesAre ==
  ASSUME NEW C, Forest(C), NEW trees, trees \subseteq C
  PROVE  Nodes(trees) \subseteq C
<1> DEFINE Below(A) == A \cup UNION {ToSet(n.children) : n \in A}
           Is(f, m) == f = [k \in 0..m |-> IF k = 0 THEN trees ELSE Below(f[k - 1])]
           nodes == CHOOSE f : Is(f, TallestTree)
<1>1. ASSUME NEW A, A \subseteq C
      PROVE  Below(A) \subseteq C
  <2> SUFFICES ASSUME NEW n \in A, NEW kid \in ToSet(n.children) PROVE kid \in C
    BY <1>1
  <2>1. n.children \in Seq(C)
    BY <1>1 DEF Forest, Good
  <2> QED
    BY <2>1, LenProperties DEF ToSet
<1>2. Nodes(trees) = nodes[TallestTree]
  BY DEF Nodes
<1> HIDE DEF Below
<1>3. \E f : Is(f, TallestTree)
  <2> DEFINE F == {m \in Nat : \E f : Is(f, m)}
  <2>1. 0 \in F
    <3>1. Is([k \in 0..0 |-> trees], 0)
      OBVIOUS
    <3> QED
      BY <3>1
  <2>2. ASSUME NEW n \in 1..TallestTree, n - 1 \in F
        PROVE  n \in F
    <3>1. PICK f : Is(f, n - 1)
      BY <2>2
    <3> DEFINE g == [k \in 0..n |-> IF k = n THEN Below(f[n - 1]) ELSE f[k]]
               h == [k \in 0..n |-> IF k = 0 THEN trees ELSE Below(g[k - 1])]
    <3>2. n \in Nat /\ n > 0 /\ n - 1 \in 0..(n - 1)
      BY TallestAssumption
    <3>3. ASSUME NEW k \in 0..n
          PROVE  g[k] = h[k]
      <4>1. CASE k = n
        <5>1. g[k] = Below(f[n - 1]) /\ k # 0
          BY <3>2, <4>1
        <5>2. n - 1 \in 0..n /\ n - 1 # n
          BY <3>2
        <5>3. g[n - 1] = f[n - 1]
          BY <5>2
        <5> QED
          BY <4>1, <5>1, <5>3
      <4>2. CASE k # n
        <5>1. k \in 0..(n - 1)
          BY <3>2, <4>2
        <5>2. f[k] = IF k = 0 THEN trees ELSE Below(f[k - 1])
          BY <3>1, <5>1
        <5>3. k # 0 => k - 1 \in 0..n /\ k - 1 # n
          BY <3>2, <5>1
        <5>4. k # 0 => g[k - 1] = f[k - 1]
          BY <5>3
        <5> QED
          BY <4>2, <5>2, <5>4
      <4> QED
        BY <4>1, <4>2
    <3>4. g = h
      BY <3>3
    <3>5. Is(g, n)
      BY <3>4
    <3> QED
      BY <3>2, <3>5
  <2> HIDE DEF F
  <2>3. TallestTree \in F
    BY <2>1, <2>2, UpTo, TallestAssumption
  <2> QED
    BY <2>3 DEF F
<1>4. Is(nodes, TallestTree)
  BY <1>3
<1> HIDE DEF nodes
<1> DEFINE G == {k \in 0..TallestTree : nodes[k] \subseteq C}
<1>5. 0 \in G
  BY <1>4, TallestAssumption
<1>6. ASSUME NEW n \in 1..TallestTree, n - 1 \in G
      PROVE  n \in G
  <2>1. n \in 0..TallestTree /\ n # 0
    BY TallestAssumption
  <2>2. nodes[n] = Below(nodes[n - 1])
    BY <1>4, <2>1
  <2> QED
    BY <1>1, <1>6, <2>1, <2>2
<1> HIDE DEF G
<1>7. TallestTree \in G
  BY <1>5, <1>6, UpTo, TallestAssumption
<1> QED
  BY <1>2, <1>7 DEF G

-----------------------------------------------------------------------------
(* The arrays that the script gets.                                        *)

\* The conversion makes an array of a node and converts its children.
ConvertsNodeByNode ==
  \A T, type, original, data : \A children \in Seq(T) :
    Converted([type |-> type, data |-> data, children |-> children, original |-> original]) =
      [type |-> type, original |-> original, data |-> PhpData(data),
       children |-> [i \in DOMAIN children |-> Converted(children[i])]]

\* No node has NULL among its children.
LEMMA NoPlaceForNull ==
  ASSUME NEW sort, NEW i \in Nat \ {0}, NEW n
  PROVE  "NULL" \notin Place(Shape(sort), i, n)
<1>1. "NULL" \notin Shape(sort).last /\ "NULL" \notin Shape(sort).more
  BY DEF Shape, Children, Statements, Fragments
<1> DEFINE first == Shape(sort).first
           l == Len(first)
<1>2. l \in {0, 1, 2, 3}
  BY DEF Shape, Children
<1>3. /\ l > 0 => "NULL" \notin first[1]
      /\ l > 1 => "NULL" \notin first[2]
      /\ l > 2 => "NULL" \notin first[3]
  <2>1. l > 0 => "NULL" \notin first[1]
    BY DEF Shape, Children, Fragments, Expressions
  <2>2. l > 1 => "NULL" \notin first[2]
    BY DEF Shape, Children, Fragments, Expressions
  <2>3. l > 2 => "NULL" \notin first[3]
    BY DEF Shape, Children, Fragments, Expressions
  <2> QED
    BY <2>1, <2>2, <2>3
<1>4. i <= l => "NULL" \notin first[i]
  <2> HIDE DEF first, l
  <2>1. i <= l => i = 1 \/ i = 2 \/ i = 3
    BY <1>2
  <2> QED
    BY <1>2, <1>3, <2>1
<1> QED
  BY <1>1, <1>4 DEF Place

\* The array of a node is as good as the node.
LEMMA ConvertedFits ==
  ASSUME ConvertsNodeByNode, NEW C, Forest(C), NEW root \in C, Sort(root) # "NULL"
  PROVE  \E D : /\ C \subseteq D /\ Forest(D)
                /\ Converted(root) \in D /\ Sort(Converted(root)) = Sort(root)
<1> DEFINE Present == {n \in C : Sort(n) # "NULL"}
           N == {Converted(n) : n \in Present}
           D == C \cup N
           Arrays(n) == [i \in DOMAIN n.children |-> Converted(n.children[i])]
<1>1. ASSUME NEW n \in C
      PROVE  /\ Converted(n) = [type |-> n.type, original |-> n.original, data |-> PhpData(n.data),
                                children |-> Arrays(n)]
             /\ Sort(Converted(n)) = Sort(n)
  <2> DEFINE c == Converted(n)
  <2>1. /\ n = [type |-> n.type, data |-> n.data, children |-> n.children, original |-> n.original]
        /\ n.children \in Seq(C)
    BY DEF Forest, Good
  <2>2. c = [type |-> n.type, original |-> n.original, data |-> PhpData(n.data),
             children |-> Arrays(n)]
    <3> DEFINE m == [type |-> n.type, data |-> n.data, children |-> n.children, original |-> n.original]
    <3>1. Converted(m) = [type |-> n.type, original |-> n.original, data |-> PhpData(n.data),
                          children |-> Arrays(n)]
      BY <2>1 DEF ConvertsNodeByNode
    <3> HIDE DEF Arrays
    <3>2. m = n
      BY <2>1
    <3> HIDE DEF m
    <3> QED
      BY <3>1, <3>2
  <2> HIDE DEF c, Arrays
  <2>3. c.type = n.type /\ c.data = PhpData(n.data)
    BY <2>2
  <2>4. \/ c.data.kind = n.data.kind
        \/ n.data.kind = "none" /\ c.data.kind = "null"
        \/ n.data.kind = "number" /\ c.data.kind = "long"
    BY <2>3 DEF PhpData, Data
  <2>5. Sort(c) = Sort(n)
    BY <2>3, <2>4 DEF Sort, SortOf
  <2> QED
    BY <2>2, <2>5 DEF c
<1>2. ASSUME NEW n \in Present
      PROVE  Good(D, Converted(n))
  <2> DEFINE c == Converted(n)
             kids == Arrays(n)
             l == Len(n.children)
  <2>1. Good(C, n) /\ Sort(n) # "NULL" /\ n \in C
    BY DEF Forest
  <2>2. n.children \in Seq(C) /\ DOMAIN n.children = 1..l /\ l \in Nat
    BY <2>1, LenProperties DEF Good
  <2>3. /\ c.type = n.type /\ c.children = kids /\ Sort(c) = Sort(n)
        /\ c = [type |-> c.type, data |-> c.data, children |-> c.children, original |-> c.original]
    <3>1. /\ c = [type |-> n.type, original |-> n.original, data |-> PhpData(n.data), children |-> kids]
          /\ Sort(c) = Sort(n)
      BY <1>1, <2>1
    <3> HIDE DEF c, kids
    <3> QED
      BY <3>1
  <2>4. ASSUME NEW i \in 1..l
        PROVE  kids[i] \in D /\ Sort(kids[i]) = Sort(n.children[i])
    <3>1. n.children[i] \in C
      BY <2>2, LenProperties
    <3>2. Sort(n.children[i]) \in Place(Shape(Sort(n)), i, l)
      BY <2>1, <2>2 DEF Good, HasShape
    <3>3. Sort(n.children[i]) # "NULL"
      BY <2>2, <3>2, NoPlaceForNull
    <3>4. kids[i] = Converted(n.children[i])
      BY <2>2
    <3>5. n.children[i] \in Present
      BY <3>1, <3>3
    <3> QED
      BY <1>1, <3>1, <3>4, <3>5
  <2> HIDE DEF l
  <2>5. kids \in Seq(D) /\ DOMAIN kids = 1..l /\ Len(kids) = l
    <3>1. kids \in [1..l -> D]
      BY <2>2, <2>4
    <3> HIDE DEF kids, D
    <3>2. kids \in Seq(D) /\ DOMAIN kids = 1..l
      BY <2>2, <3>1, FunctionsAreSequences
    <3>3. Len(kids) \in Nat /\ DOMAIN kids = 1..Len(kids)
      BY <3>2, LenProperties
    <3> QED
      BY <2>2, <3>2, <3>3
  <2>6. /\ l >= Least(Shape(Sort(n)))
        /\ \A i \in 1..l : Sort(n.children[i]) \in Place(Shape(Sort(n)), i, l)
    BY <2>1, <2>2 DEF Good, HasShape, l
  <2> HIDE DEF c, kids, D
  <2>7. HasShape(c)
    BY <2>3, <2>4, <2>5, <2>6 DEF HasShape
  <2>8. OperandsBind(c)
    <3>1. OperandsBind(n)
      BY <2>1 DEF Good
    <3>2. Rank(Sort(n)) < 5 => 1 \in 1..l /\ 2 \in 1..l
      <4>1. Rank(Sort(n)) < 5 => Least(Shape(Sort(n))) >= 2
        BY OperatorsHaveOperands
      <4>2. Least(Shape(Sort(n))) \in Nat
        BY ShapesAre
      <4> QED
        BY <2>2, <2>6, <4>1, <4>2
    <3>3. BindsRight(Sort(n)) => Rank(Sort(n)) < 5
      BY RanksAre
    <3> QED
      BY <2>3, <2>4, <3>1, <3>2, <3>3 DEF OperandsBind
  <2>9. c.type # "NULL"
    BY <2>1, <2>3, NullSorts DEF Sort
  <2> QED
    BY <2>3, <2>5, <2>7, <2>8, <2>9 DEF Good, c
<1>3. Forest(D)
  <2> SUFFICES ASSUME NEW n \in D PROVE Good(D, n)
    BY DEF Forest
  <2>1. CASE n \in C
    BY <2>1, MoreIsGood DEF Forest
  <2>2. CASE n \in N
    BY <1>2, <2>2
  <2> QED
    BY <2>1, <2>2
<1>4. C \subseteq D /\ Converted(root) \in D
  OBVIOUS
<1> QED
  BY <1>1, <1>3, <1>4

-----------------------------------------------------------------------------
(* The tokens.                                                             *)

IsToken(n) ==
  n = [type |-> "token", data |-> n.data, children |-> <<>>, original |-> n.original]

\* The token under way, and the one that the parser looks at.
TokensFit ==
  /\ Parsing /\ lookahead = None /\ mode # "INITIAL" => IsToken(yylval)
  /\ lookahead.symbol \in Symbols =>
       IF lookahead.symbol = "$end" THEN lookahead.value = Null ELSE IsToken(lookahead.value)
  /\ lookahead.symbol = "none" => lookahead = None

\* A new token.
LEMMA SpelledIs ==
  ASSUME NEW value, NEW i
  PROVE  IsToken(Spelled(value, i))
<1> DEFINE d == Data("string", value)
           none == Data("none", <<>>)
           n == Node("token")
<1>1. n = [type |-> "token", data |-> none, children |-> <<>>, original |-> <<>>]
  BY DEF Node
<1>2. Spelled(value, i) = [n EXCEPT !.data = d, !.original = <<i>>]
  BY DEF Spelled
<1> HIDE DEF d, none, n
<1>3. Spelled(value, i) = [type |-> "token", data |-> d, children |-> <<>>, original |-> <<i>>]
  BY <1>1, <1>2
<1> QED
  BY <1>3 DEF IsToken

\* A token that goes on or ends.
LEMMA MoreIs ==
  ASSUME NEW value, IsToken(value), NEW i
  PROVE  IsToken(More(value, i)) /\ IsToken(Closing(value, i))
<1> DEFINE d == value.data
           o == value.original
           text == [d EXCEPT !.text = Append(@, i)]
<1>1. value = [type |-> "token", data |-> d, children |-> <<>>, original |-> o]
  BY DEF IsToken
<1>2. More(value, i) = [value EXCEPT !.data = text, !.original = Append(o, i)]
  BY <1>1 DEF More
<1>3. Closing(value, i) = [value EXCEPT !.original = Append(o, i)]
  BY <1>1 DEF Closing
<1> HIDE DEF d, o, text
<1>4. More(value, i) = [type |-> "token", data |-> text, children |-> <<>>, original |-> Append(o, i)]
  BY <1>1, <1>2
<1>5. Closing(value, i) = [type |-> "token", data |-> d, children |-> <<>>, original |-> Append(o, i)]
  BY <1>1, <1>3
<1> QED
  BY <1>4, <1>5 DEF IsToken

\* A token as a value of its symbol.
LEMMA TokenIsGood ==
  ASSUME NEW C, NEW symbol \in Symbols, symbol \notin LeftSymbols, NEW value,
         IF symbol = "$end" THEN value = Null ELSE IsToken(value)
  PROVE  Good(C, value) /\ Sort(value) \in Promised(symbol)
<1>1. CASE symbol = "$end"
  <2>1. /\ value.children = <<>> /\ value.type = "NULL" /\ value = Null
        /\ value = [type |-> value.type, data |-> value.data, children |-> value.children,
                    original |-> value.original]
    BY <1>1 DEF Null, Node
  <2>2. Good(C, value) /\ Sort(value) = "NULL"
    BY <2>1, LeafIsGood
  <2>3. Promised(symbol) = {"NULL"}
    BY <1>1 DEF Promised
  <2> QED
    BY <2>2, <2>3
<1>2. CASE symbol # "$end"
  <2>1. IsToken(value)
    BY <1>2
  <2>2. /\ value.children = <<>> /\ value.type = "token"
        /\ value = [type |-> value.type, data |-> value.data, children |-> value.children,
                    original |-> value.original]
    BY <2>1 DEF IsToken
  <2>3. Good(C, value) /\ Sort(value) = "token"
    BY <2>2, LeafIsGood
  <2>4. symbol \in Terminals \ EndTokens
    BY <1>2, SymbolsAre DEF Terminals
  <2>5. Promised(symbol) = {"token"}
    BY <2>4, ActionsAssumption
  <2> QED
    BY <2>3, <2>5
<1> QED
  BY <1>1, <1>2

\* What one match leaves: the token under way, or a token of its symbol.
MatchFits(match) ==
  /\ match.token = None /\ match.mode # "INITIAL" => IsToken(match.yylval)
  /\ match.token.symbol \in Symbols =>
       IF match.token.symbol = "$end" THEN match.token.value = Null ELSE IsToken(match.token.value)
  /\ match.token.symbol = "none" => match.token = None

\* No lexeme is the end of the code.
LEMMA LexemesAre ==
  ASSUME NEW l \in Lexemes
  PROVE  l # "$end" /\ l # "none"
BY LexemeAssumption DEF Terminals, Unexpected, EndTokens

\* The three outcomes of a match.
LEMMA MatchingFits ==
  ASSUME NEW m, NEW value, IsToken(value)
  PROVE  MatchFits(Matching(m, value))
<1>1. "none" \notin Symbols
  BY LexemeAssumption
<1> QED
  BY <1>1 DEF MatchFits, Matching, None, Token

\* A match that returns a token.
LEMMA ReturningFits ==
  ASSUME NEW m, NEW symbol, symbol # "$end", symbol # "none", NEW value, IsToken(value)
  PROVE  MatchFits(Returning(m, Token(symbol, value)))
BY DEF MatchFits, Returning, None, Token

\* A match that is refused.
LEMMA RefusingFits ==
  ASSUME NEW m
  PROVE  MatchFits(Refusing(m))
<1>1. "ERROR" \notin Symbols
  BY SymbolsAre
<1> QED
  BY <1>1 DEF MatchFits, Refusing, Returning, None, Token

\* Every match of a rule of the lexer.
LEMMA MatchedFits ==
  ASSUME NEW m \in Modes, NEW l \in LexemesIn(m), NEW value, m # "INITIAL" => IsToken(value), NEW i
  PROVE  MatchFits(Matched(m, l, value, i))
<1>1. CASE m = "INITIAL"
  <2>1. CASE l = "comment"
    <3>1. Matched(m, l, value, i) = Matching("INITIAL", value)
      BY <1>1, <2>1 DEF Matched, Initial
    <3>2. "none" \notin Symbols
      BY LexemeAssumption
    <3> QED
      BY <3>1, <3>2 DEF MatchFits, Matching, None, Token
  <2>2. CASE l = "single_quote"
    BY <1>1, <2>2, SpelledIs, MatchingFits DEF Matched, Initial
  <2>3. CASE l = "double_quote"
    BY <1>1, <2>3, SpelledIs, MatchingFits DEF Matched, Initial
  <2>4. CASE l = "php_open"
    BY <1>1, <2>4, SpelledIs, MatchingFits DEF Matched, Initial
  <2>5. CASE l = "unknown"
    BY <1>1, <2>5, RefusingFits DEF Matched, Initial
  <2>6. CASE l \notin {"comment", "single_quote", "double_quote", "php_open", "unknown"}
    <3>1. l \in Lexemes \ {"php_close"}
      BY <1>1 DEF LexemesIn
    <3>2. Matched(m, l, value, i) = Returning("INITIAL", Token(l, Spelled(<<i>>, i)))
      BY <1>1, <2>6 DEF Matched, Initial
    <3> QED
      BY <2>6, <3>1, <3>2, LexemesAre, SpelledIs, ReturningFits
  <2> QED
    BY <2>1, <2>2, <2>3, <2>4, <2>5, <2>6
<1>2. ASSUME m \in {"IN_SINGLE_STRING", "IN_DOUBLE_STRING"}, NEW quote,
             NEW symbol \in {"SINGLE_QUOTED", "DOUBLE_QUOTED"}
      PROVE  MatchFits(InString(m, quote, symbol, l, value, i))
  <2>1. IsToken(More(value, i)) /\ IsToken(Closing(value, i))
    BY <1>2, MoreIs
  <2>2. CASE l = quote /\ l \notin Newlines
    <3>1. InString(m, quote, symbol, l, value, i) = Returning("INITIAL", Token(symbol, Closing(value, i)))
      BY <2>2 DEF InString
    <3> QED
      BY <1>2, <2>1, <3>1, ReturningFits
  <2>3. CASE l # quote /\ l \in Newlines
    <3>1. InString(m, quote, symbol, l, value, i) = Refusing(m)
      BY <2>3 DEF InString
    <3> QED
      BY <3>1, RefusingFits
  <2>4. CASE l # quote /\ l \notin Newlines
    <3>1. InString(m, quote, symbol, l, value, i) = Matching(m, More(value, i))
      BY <2>4 DEF InString
    <3> QED
      BY <2>1, <3>1, MatchingFits
  <2>5. CASE l = quote /\ l \in Newlines
    BY <1>2, <2>1, <2>5, ReturningFits, RefusingFits DEF InString
  <2> QED
    BY <2>2, <2>3, <2>4, <2>5
<1>3. CASE m = "IN_SINGLE_STRING"
  BY <1>2, <1>3 DEF Matched
<1>4. CASE m = "IN_DOUBLE_STRING"
  BY <1>2, <1>4 DEF Matched
<1>5. CASE m = "IN_PHP"
  <2>1. IsToken(More(value, i))
    BY <1>5, MoreIs
  <2>2. CASE l = "php_close"
    <3>1. Matched(m, l, value, i) = Returning("INITIAL", Token("PHP", More(value, i)))
      BY <1>5, <2>2 DEF Matched, InPhp
    <3> QED
      BY <2>1, <3>1, ReturningFits
  <2>3. CASE l # "php_close"
    <3>1. Matched(m, l, value, i) = Matching("IN_PHP", More(value, i))
      BY <1>5, <2>3 DEF Matched, InPhp
    <3> QED
      BY <2>1, <3>1, MatchingFits
  <2> QED
    BY <2>2, <2>3
<1> QED
  BY <1>1, <1>3, <1>4, <1>5 DEF Modes

\* The match of the end of the code.
LEMMA MatchedEndFits ==
  ASSUME NEW m
  PROVE  MatchFits(MatchedEnd(m))
<1>1. "UNTERMINATED_LEXING_BLOCK" \notin Symbols /\ "none" \notin Symbols
  BY SymbolsAre
<1> QED
  BY <1>1 DEF MatchFits, MatchedEnd, Returning, Token, None

\* Every step keeps the tokens fitting.
LEMMA TokensStep ==
  ASSUME IInv, Quiet, TokensFit, [Next]_vars
  PROVE  TokensFit'
<1>1. "none" \notin Symbols
  BY LexemeAssumption
<1>2. CASE UNCHANGED <<mode, yylval, lookahead>> /\ (Parsing' => Parsing)
  BY <1>2 DEF TokensFit
<1>3. ASSUME lookahead' = None, Parsing' => mode' = "INITIAL"
      PROVE  TokensFit'
  BY <1>1, <1>3, NoneIs DEF TokensFit
<1>4. CASE yylex
  <2>1. ASSUME NEW match, MatchFits(match), NEW code, Match(match, code)
        PROVE  TokensFit'
    BY <2>1 DEF MatchFits, Match, TokensFit
  <2>2. mode \in Modes /\ (mode # "INITIAL" => IsToken(yylval))
    BY <1>4 DEF yylex, TokensFit, IInv, LexerOK
  <2>3. ASSUME NEW l \in LexemesIn(mode), Match(Matched(mode, l, yylval, Len(read) + 1), Append(read, l))
        PROVE  TokensFit'
    <3>1. MatchFits(Matched(mode, l, yylval, Len(read) + 1))
      BY <2>2, MatchedFits
    <3> QED
      BY <2>1, <2>3, <3>1
  <2>4. ASSUME Match(MatchedEnd(mode), read)
        PROVE  TokensFit'
    BY <2>1, <2>4, MatchedEndFits
  <2> QED
    BY <1>4, <2>3, <2>4 DEF yylex
<1>5. CASE Shift
  <2>1. lookahead' = None /\ mode' = mode
    BY <1>5 DEF Shift, yynewstate, Return, lexerVars
  <2>2. Parsing /\ lookahead.symbol \in yytable[Top(stack)].shift /\ Top(stack) \in DOMAIN yytable
    BY <1>5, TopIsAState DEF Shift, Entries, IInv, ParserOK
  <2>3. mode = "INITIAL"
    BY <2>2, ShiftsAre, NoneIs DEF Quiet
  <2> QED
    BY <1>3, <2>1, <2>3
<1>6. CASE Reduce
  <2>1. \/ lookahead' = lookahead /\ result' = result
        \/ lookahead' = None /\ result'.kind \in {"false", "tree"}
    BY <1>6 DEF Reduce, yynewstate, Return, False, Answer
  <2>2. UNCHANGED <<mode, yylval>>
    BY <1>6 DEF Reduce, lexerVars
  <2> QED
    BY <1>2, <1>3, <2>1, <2>2 DEF Parsing, Pending, Answer
<1>7. CASE SyntaxError
  <2>1. lookahead' = None /\ result'.kind \in {"false", "tree"}
    BY <1>7 DEF SyntaxError, Return, False, Answer
  <2> QED
    BY <1>3, <2>1 DEF Parsing, Pending, Answer
<1>8. CASE omnilang_parse
  <2>1. lookahead' = None /\ mode' = "INITIAL"
    BY <1>8 DEF omnilang_parse, Started, reset_to_initial
  <2> QED
    BY <1>3, <2>1
<1>9. CASE RefusedParameters \/ omnilang_get_error
  <2>1. UNCHANGED <<mode, yylval, lookahead>> /\ ~Parsing'
    BY <1>9, AnswerStep DEF RefusedParameters, omnilang_get_error, lexerVars, parserVars
  <2> QED
    BY <1>2, <2>1
<1>10. CASE UNCHANGED vars
  BY <1>2, <1>10 DEF vars, lexerVars, parserVars, Parsing
<1> QED
  BY <1>4, <1>5, <1>6, <1>7, <1>8, <1>9, <1>10 DEF Next, yyparse

-----------------------------------------------------------------------------
(* The invariant of the trees.                                             *)

\* All trees that there are belong to a forest of good ones.
ShapesOK(C) ==
  /\ Forest(C) /\ Null \in C
  /\ Fits(C, stack) /\ BoundOnTheLeft(stack, lookahead.symbol)
  /\ result.tree \in C /\ (result.kind = "tree" => Sort(result.tree) = "statements")

ShapeInv == IInv /\ Quiet /\ RootKept /\ TokensFit /\ \E C : ShapesOK(C)

\* The tree of no code.
LEMMA NullIsGood ==
  ASSUME NEW C
  PROVE  Good(C, Null)
<1>1. /\ Null.children = <<>> /\ Null.type = "NULL"
      /\ Null = [type |-> Null.type, data |-> Null.data, children |-> Null.children,
                 original |-> Null.original]
  BY DEF Null, Node
<1> QED
  BY <1>1, LeafIsGood

\* The invariant holds at first.
LEMMA ShapesBegin ==
  ASSUME Init
  PROVE  ShapeInv
<1>1. IInv
  BY Initially
<1>2. Quiet
  BY NoneIs DEF Init, Quiet, Parsing, Nothing, Pending, Answer
<1>3. RootKept
  BY DEF Init, RootKept
<1>4. TokensFit
  <2>1. "none" \notin Symbols
    BY LexemeAssumption
  <2> QED
    BY <2>1, NoneIs DEF Init, TokensFit
<1>5. ShapesOK({Null})
  <2>1. Forest({Null})
    BY NullIsGood DEF Forest
  <2>2. Fits({Null}, stack) /\ BoundOnTheLeft(stack, lookahead.symbol)
    BY EmptyFits DEF Init
  <2>3. result.tree = Null /\ result.kind = "nothing"
    BY DEF Init, Nothing, Answer
  <2> QED
    BY <2>1, <2>2, <2>3 DEF ShapesOK
<1> QED
  BY <1>1, <1>2, <1>3, <1>4, <1>5 DEF ShapeInv

\* The parser in a new state, or at the end.
LEMMA EnteringFits ==
  ASSUME IInv', NEW s, NEW next, yynewstate(s, next), NEW C, Forest(C), Null \in C, Fits(C, s),
         BoundOnTheLeft(s, next.symbol), result.tree \in C,
         result.kind = "tree" => Sort(result.tree) = "statements",
         Top(s) = YYFINAL =>
           Converted(ast_root') \in C /\ Sort(Converted(ast_root')) = "statements"
  PROVE  ShapesOK(C)'
<1> DEFINE label == Label(s, yystacksize)
<1>1. /\ label = "accept" => Top(s) = YYFINAL \/ Growth(s, yystacksize).label = "accept"
      /\ Growth(s, yystacksize).label \in {"none", "abort", "exhausted"}
  BY DEF Label, Growth
<1>2. \/ stack' = s /\ lookahead' = next /\ result' = result
      \/ Return(label) /\ label # "none"
  BY DEF yynewstate
<1> HIDE DEF label
<1>3. CASE stack' = s /\ lookahead' = next /\ result' = result
  BY <1>3 DEF ShapesOK
<1>4. CASE Return(label) /\ label # "none"
  <2>1. stack' = <<>> /\ yyresult' = label
    BY <1>4 DEF Return
  <2>2. Fits(C, stack') /\ BoundOnTheLeft(stack', lookahead'.symbol)
    BY <2>1, EmptyFits
  <2>3. CASE has_error'
    <3>1. result'.tree = Null /\ result'.kind = "false"
      BY <1>4, <2>3 DEF Return, False, Answer
    <3> QED
      BY <2>2, <3>1 DEF ShapesOK
  <2>4. CASE ~has_error'
    <3>1. result'.tree = Converted(ast_root') /\ result'.kind = "tree"
      BY <1>4, <2>4 DEF Return, Answer
    <3>2. ~Parsing'
      BY <3>1 DEF Parsing, Pending, Answer
    <3>3. label = "accept"
      BY <1>4, <2>1, <2>4, <3>2 DEF IInv, FailureIsToldOf, ParserOK
    <3>4. Top(s) = YYFINAL
      BY <1>1, <3>3
    <3> QED
      BY <2>2, <3>1, <3>4 DEF ShapesOK
  <2> QED
    BY <2>3, <2>4
<1> QED
  BY <1>2, <1>3, <1>4

\* What leaves the parser where it is, or without a stack.
LEMMA RestingFits ==
  ASSUME NEW C, ShapesOK(C), result'.tree \in {Null, result.tree},
         result'.kind = "tree" => result' = result,
         stack' = <<>> \/ UNCHANGED <<stack, lookahead>>
  PROVE  ShapesOK(C)'
BY EmptyFits DEF ShapesOK

\* A token that is read does not bind tighter than one that is yet to be read.
LEMMA ShapesAfterLexing ==
  ASSUME IInv, NEW C, ShapesOK(C), yylex
  PROVE  ShapesOK(C)'
<1>1. lookahead = None /\ UNCHANGED <<stack, result>>
  BY DEF yylex
<1>2. BoundOnTheLeft(stack, "none")
  BY <1>1, NoneIs DEF ShapesOK
<1>3. BoundOnTheLeft(stack, lookahead'.symbol)
  BY <1>2, NextIsRead, TightnessIs
<1> QED
  BY <1>1, <1>3 DEF ShapesOK

\* A shift adds a token; the last one hands over the tree of the root below it.
LEMMA ShapesAfterShift ==
  ASSUME ConvertsNodeByNode, IInv, IInv', RootKept, TokensFit, NEW C, ShapesOK(C), Shift
  PROVE  \E D : ShapesOK(D)'
<1> DEFINE value == lookahead.value
           s == Pushed(stack, lookahead)
           E == C \cup {value}
<1>1. WellStacked(stack) /\ Top(stack) \in DOMAIN yytable
  BY TopIsAState DEF IInv, ParserOK
<1>2. /\ lookahead.symbol \in yytable[Top(stack)].shift
      /\ lookahead.symbol \in DOMAIN yytable[Top(stack)].goto
      /\ lookahead.symbol \in Symbols \ LeftSymbols
  BY <1>1, ShiftsAre DEF Shift, Entries
<1>3. yynewstate(s, None) /\ ast_root' = ast_root
  BY DEF Shift
<1>4. Good(C, value) /\ Sort(value) \in Promised(lookahead.symbol)
  BY <1>2, TokenIsGood DEF TokensFit
<1> HIDE DEF value
<1>5. Forest(E)
  BY <1>4, ForestGrows DEF ShapesOK
<1>6. Fits(E, stack) /\ BoundOnTheLeft(stack, lookahead.symbol)
  BY FitsMore DEF ShapesOK
<1>7. lookahead.symbol # "expression"
  BY <1>2, PrecedenceAssumption
<1>8. lookahead.value \in E /\ Sort(lookahead.value) \in Promised(lookahead.symbol)
  BY <1>4 DEF value
<1> HIDE DEF E
<1>9. Fits(E, s) /\ BoundOnTheLeft(s, None.symbol)
  BY <1>1, <1>2, <1>6, <1>7, <1>8, PushFits
<1>10. PICK D : /\ E \subseteq D /\ Forest(D)
                /\ Top(s) = YYFINAL =>
                     Converted(ast_root) \in D /\ Sort(Converted(ast_root)) = "statements"
  <2>1. CASE Top(s) # YYFINAL
    BY <1>5, <2>1
  <2>2. CASE Top(s) = YYFINAL
    <3>1. WellStacked(s)
      BY <1>1, <1>2, PushKeeps
    <3>2. /\ Len(s) = Len(stack) + 1 /\ Len(stack) \in Nat
          /\ \A i \in 1..Len(stack) : s[i] = stack[i]
      BY <1>1, PushedIs DEF WellStacked
    <3>3. Len(s) >= 2 /\ s[Len(s) - 1].symbol = "root"
      BY <2>2, <3>1, FinalIs
    <3> HIDE DEF s
    <3>4. Len(stack) \in 1..Len(stack) /\ Len(s) - 1 = Len(stack)
      BY <3>2, <3>3
    <3>5. stack[Len(stack)].symbol = "root"
      BY <3>2, <3>3, <3>4
    <3>6. stack[Len(stack)].value = ast_root
      BY <3>4, <3>5 DEF RootKept
    <3>7. ast_root \in E /\ Sort(ast_root) \in Promised("root")
      BY <1>6, <3>4, <3>5, <3>6 DEF Fits, ValuesOn
    <3>8. Sort(ast_root) = "statements"
      BY <3>7 DEF Promised
    <3> QED
      BY <1>5, <3>7, <3>8, ConvertedFits
  <2> QED
    BY <2>1, <2>2
<1>11. Null \in D /\ result.tree \in D /\ (result.kind = "tree" => Sort(result.tree) = "statements")
  BY <1>10 DEF ShapesOK, E
<1>12. Fits(D, s)
  BY <1>9, <1>10, FitsMore
<1> HIDE DEF s
<1>13. ShapesOK(D)'
  BY <1>3, <1>9, <1>10, <1>11, <1>12, EnteringFits
<1> QED
  BY <1>13

\* A reduction adds what its action makes, and is never the last step.
LEMMA ShapesAfterReduction ==
  ASSUME IInv, IInv', TokensFit, NEW C, ShapesOK(C), Reduce
  PROVE  \E D : ShapesOK(D)'
<1> DEFINE next == lookahead.symbol
           r == Decision(yytable[Top(stack)], next)
           s == Reduction(stack, r)
<1>1. WellStacked(stack) /\ Top(stack) \in DOMAIN yytable
  BY TopIsAState DEF IInv, ParserOK
<1>2. r # NoRule /\ yynewstate(s, lookahead)
  BY DEF Reduce, Entries
<1>3. next = "none" => yytable[Top(stack)].tokenless
  BY DEF Reduce, TokensFit, Entries
<1>4. Forest(C) /\ Fits(C, stack) /\ BoundOnTheLeft(stack, next)
  BY DEF ShapesOK
<1>5. PICK E : /\ C \subseteq E /\ Forest(E)
               /\ Fits(E, s) /\ BoundOnTheLeft(s, next)
  <2> HIDE DEF next
  <2> QED
    BY <1>1, <1>2, <1>3, <1>4, ReductionFits
<1>6. Top(s) # YYFINAL
  <2>1. r # NoRule /\ Complete(Top(stack), r)
    BY <1>1, <1>2, DecisionsFit
  <2>2. r \in DOMAIN yyrules
    BY <2>1 DEF Complete
  <2> DEFINE kept == Len(stack) - Len(yyrules[r].rhs)
  <2> HIDE DEF r
  <2>3. /\ WellStacked(s) /\ kept \in 0..Len(stack) /\ Len(stack) \in Nat /\ Len(s) = kept + 1
        /\ s[kept + 1].symbol = yyrules[r].lhs
    <3>1. WellStacked(s)
      BY <1>1, <2>1, ReductionIs
    <3>2. kept \in 0..Len(stack) /\ Len(stack) \in Nat /\ Len(s) = kept + 1
      BY <1>1, <2>1, ReductionIs, TopIs DEF WellStacked
    <3>3. s[kept + 1].symbol = yyrules[r].lhs
      BY <1>1, <2>1, ReductionIs
    <3> QED
      BY <3>1, <3>2, <3>3
  <2> HIDE DEF s, kept
  <2>4. s[Len(s)].symbol \in LeftSymbols
    BY <2>2, <2>3 DEF LeftSymbols
  <2> QED
    BY <2>3, <2>4, FinalIs, SymbolsAre
<1>7. /\ Null \in E /\ result.tree \in E
      /\ result.kind = "tree" => Sort(result.tree) = "statements"
  BY <1>5 DEF ShapesOK
<1> HIDE DEF s
<1>8. ShapesOK(E)'
  BY <1>2, <1>5, <1>6, <1>7, EnteringFits
<1> QED
  BY <1>8

\* Every step keeps the invariant.
LEMMA ShapesStep ==
  ASSUME ConvertsNodeByNode, ShapeInv, [Next]_vars
  PROVE  ShapeInv'
<1>1. IInv /\ Quiet /\ RootKept /\ TokensFit
  BY DEF ShapeInv
<1>2. IInv' /\ Quiet' /\ RootKept' /\ TokensFit'
  BY <1>1, NextStep, QuietStep, RootStep, TokensStep
<1>3. PICK C : ShapesOK(C)
  BY DEF ShapeInv
<1>4. \E D : ShapesOK(D)'
  <2>1. CASE UNCHANGED vars
    BY <1>3, <2>1, RestingFits DEF vars, parserVars
  <2>2. CASE yylex
    BY <1>1, <1>3, <2>2, ShapesAfterLexing
  <2>3. CASE Shift
    BY <1>1, <1>2, <1>3, <2>3, ShapesAfterShift
  <2>4. CASE Reduce
    BY <1>1, <1>2, <1>3, <2>4, ShapesAfterReduction
  <2>5. CASE SyntaxError
    <3>1. result' = False /\ stack' = <<>>
      BY <2>5 DEF SyntaxError, Return, yyerror
    <3>2. result'.tree = Null /\ result'.kind = "false"
      BY <3>1 DEF False, Answer
    <3> QED
      BY <1>3, <3>1, <3>2, RestingFits
  <2>6. CASE omnilang_parse
    <3>1. result'.tree = Null /\ result'.kind = "pending" /\ stack' = <<>>
      BY <2>6 DEF omnilang_parse, Started, Pending, Answer
    <3> QED
      BY <1>3, <3>1, RestingFits
  <2>7. CASE RefusedParameters \/ omnilang_get_error
    <3>1. /\ result'.tree = Null /\ result'.kind \in {"false", "string", "null"}
          /\ UNCHANGED <<stack, lookahead>>
      BY <2>7 DEF RefusedParameters, omnilang_get_error, parserVars, False, Answer
    <3> QED
      BY <1>3, <3>1, RestingFits
  <2> QED
    BY <2>1, <2>2, <2>3, <2>4, <2>5, <2>6, <2>7 DEF Next, yyparse
<1> QED
  BY <1>2, <1>4 DEF ShapeInv

\* All nodes of the trees that there are are good.
LEMMA ShapesAreKept ==
  ASSUME ShapeInv
  PROVE  /\ \A n \in Nodes(Trees) : HasShape(n) /\ OperandsBind(n)
         /\ result.kind = "tree" => Sort(result.tree) = "statements"
<1>1. PICK C : ShapesOK(C)
  BY DEF ShapeInv
<1>2. Trees \subseteq C
  <2>1. DOMAIN stack = 1..Len(stack)
    BY TopIs DEF ShapeInv, IInv, ParserOK, WellStacked
  <2>2. \A i \in 1..Len(stack) : stack[i].value \in C
    BY <1>1 DEF ShapesOK, Fits, ValuesOn
  <2> QED
    BY <1>1, <2>1, <2>2 DEF Trees, ShapesOK
<1>3. Nodes(Trees) \subseteq C
  BY <1>1, <1>2, NodesAre DEF ShapesOK
<1> QED
  BY <1>1, <1>3 DEF ShapesOK, Forest, Good

\* Every tree on the parser's stack, and every array that the script gets, has
\* the children that its sort promises down to the given level, whatever the
\* code, if the actions of the rules fit what is promised for their symbols.
THEOREM TreesKeepTheirShape ==
  ASSUME ConvertsNodeByNode
  PROVE  Spec => []TreesHaveShape
<1>1. ShapeInv => TreesHaveShape
  BY ShapesAreKept DEF TreesHaveShape
<1> QED
  BY <1>1, ShapesBegin, ShapesStep, PTL DEF Spec

\* Every tree of operators is the one that precedence and association to the left
\* ask for, whatever the tables that decide so in the states where it matters.
THEOREM PrecedenceIsKept ==
  ASSUME ConvertsNodeByNode
  PROVE  Spec => []PrecedenceRespected
<1>1. ShapeInv => PrecedenceRespected
  BY ShapesAreKept DEF PrecedenceRespected
<1> QED
  BY <1>1, ShapesBegin, ShapesStep, PTL DEF Spec

=============================================================================
