----------------------------- MODULE FdProofs -----------------------------
(***************************************************************************)
(* Theorems about Fd for every set of processes and channels, every table  *)
(* size and capacity, and every workload: first the invariants and the     *)
(* contract of channels, then what fd_select promises and who takes what   *)
(* out of a channel.                                                       *)
(***************************************************************************)
EXTENDS Fd, FiniteFacts, TLAPS, FiniteSetTheorems, SequenceTheorems, WellFoundedInduction

-----------------------------------------------------------------------------
(* Numbers, sequences and buffers.                                         *)

\* The smaller of two naturals.
LEMMA MinOfTwo ==
  ASSUME NEW a \in Nat, NEW b \in Nat
  PROVE  Min({a, b}) \in {a, b} /\ Min({a, b}) <= a /\ Min({a, b}) <= b
<1>1. \E x \in {a, b} : \A y \in {a, b} : x <= y
  <2>1. CASE a <= b
    BY <2>1
  <2>2. CASE b <= a
    BY <2>2
  <2> QED
    BY <2>1, <2>2
<1> QED
  BY <1>1 DEF Min

\* What read takes of a channel that holds something is at least one byte and
\* no more than is there or was asked for; all but the last carry nothing.
LEMMA TakenRange ==
  ASSUME NEW s \in Seq(Item), s # <<>>, NEW n \in Nat \ {0}
  PROVE  /\ Taken(s, n) \in 1..Len(s)
         /\ Taken(s, n) <= n
         /\ \A i \in 1..(Taken(s, n) - 1) : s[i] = None
<1> DEFINE most == Min({n, Len(s)})
           stops == {i \in 1..most : i = most \/ s[i] # None}
<1>1. Len(s) \in Nat \ {0}
  BY EmptySeq
<1>2. most \in {n, Len(s)} /\ most <= n /\ most <= Len(s)
  BY <1>1, MinOfTwo
<1>3. most \in stops /\ stops \in SUBSET (1..most) /\ most \in Nat
  BY <1>1, <1>2
<1> HIDE DEF most
<1>4. Min(stops) \in stops /\ \A y \in stops : Min(stops) <= y
  <2>1. stops # {}
    BY <1>3
  <2> QED
    BY <2>1, <1>3, MinOfBounded
<1>5. Taken(s, n) = Min(stops)
  BY DEF Taken, most
<1>6. ASSUME NEW i \in 1..(Min(stops) - 1)
      PROVE  s[i] = None
  <2>1. i \in 1..most /\ i < Min(stops)
    BY <1>1, <1>2, <1>4
  <2>2. i \notin stops
    BY <1>1, <1>2, <1>4, <2>1
  <2> QED
    BY <2>1, <2>2
<1>7. Min(stops) \in 1..Len(s) /\ Min(stops) <= n
  BY <1>1, <1>2, <1>4
<1> QED
  BY <1>5, <1>6, <1>7

\* Purge empties channels and touches nothing else; a channel it leaves alone
\* has a reference to its read end left.
LEMMA PurgeProperties ==
  ASSUME NEW t, NEW b \in Buffers
  PROVE  /\ Purge(t, b) \in Buffers
         /\ \A c \in Chan : Purge(t, b)[c] \in {b[c], <<>>}
         /\ \A e : InFlight(Purge(t, b), e) => InFlight(b, e)
         /\ \A c \in Chan : Purge(t, b)[c] # <<>> =>
              Held(t, ReadEnd(c)) \/ InFlight(Purge(t, b), ReadEnd(c))
<1> DEFINE kept == [k \in Controls |-> IF Held(t, ReadEnd(k)) THEN b[k] ELSE <<>>]
           left == Purge(t, b)
<1>1. <<>> \in Seq(Item)
  OBVIOUS
<1>2. \A c \in Chan :
        left[c] = IF c \in Controls
                  THEN kept[c]
                  ELSE IF Held(t, ReadEnd(c)) \/ InFlight(kept, ReadEnd(c)) THEN b[c] ELSE <<>>
  BY DEF Purge
<1>3. \A k \in Controls : k \in Chan /\ left[k] = kept[k]
  BY <1>2 DEF Chan
<1>4. \A c \in Chan : left[c] \in {b[c], <<>>}
  BY <1>2
<1>5. left \in Buffers
  <2>1. left = [c \in Chan |-> left[c]]
    BY DEF Purge
  <2>2. \A c \in Chan : left[c] \in Seq(Item)
    BY <1>1, <1>4 DEF Buffers
  <2> QED
    BY <2>1, <2>2 DEF Buffers
<1>6. ASSUME NEW e
      PROVE  InFlight(left, e) <=> InFlight(kept, e)
  BY <1>3 DEF InFlight
<1>7. ASSUME NEW e, InFlight(left, e)
      PROVE  InFlight(b, e)
  <2>1. PICK k \in Controls : \E i \in DOMAIN left[k] : left[k][i] = e
    BY <1>7 DEF InFlight
  <2>2. left[k] # <<>>
    BY <2>1
  <2>3. left[k] = b[k]
    BY <1>3, <1>4, <2>2
  <2> QED
    BY <2>1, <2>3 DEF InFlight
<1>8. ASSUME NEW c \in Chan, left[c] # <<>>
      PROVE  Held(t, ReadEnd(c)) \/ InFlight(left, ReadEnd(c))
  BY <1>2, <1>6, <1>8
<1> QED
  BY <1>4, <1>5, <1>7, <1>8

\* Taking from the front of a channel.
LEMMA DrainedProperties ==
  ASSUME buf \in Buffers, NEW c \in Chan, NEW n \in 1..Len(buf[c])
  PROVE  /\ Drained(c, n) \in Buffers
         /\ \A d \in Chan \ {c} : Drained(c, n)[d] = buf[d]
         /\ Drained(c, n)[c] = SubSeq(buf[c], n + 1, Len(buf[c]))
         /\ Len(Drained(c, n)[c]) = Len(buf[c]) - n
         /\ \A e : InFlight(Drained(c, n), e) => InFlight(buf, e)
<1> DEFINE q == buf[c]
           left == Drained(c, n)
<1>1. q \in Seq(Item) /\ Len(q) \in Nat
  BY DEF Buffers
<1>2. /\ \A d \in Chan \ {c} : left[d] = buf[d]
      /\ left[c] = SubSeq(q, n + 1, Len(q))
      /\ left = [buf EXCEPT ![c] = SubSeq(q, n + 1, Len(q))]
  BY DEF Drained, Buffers
<1>3. /\ SubSeq(q, n + 1, Len(q)) \in Seq(Item)
      /\ Len(SubSeq(q, n + 1, Len(q))) = Len(q) - n
      /\ \A i \in 1..(Len(q) - n) : SubSeq(q, n + 1, Len(q))[i] = q[n + i]
  BY <1>1, SubSeqProperties
<1>4. left \in Buffers
  BY <1>2, <1>3 DEF Buffers
<1>5. ASSUME NEW e, InFlight(left, e)
      PROVE  InFlight(buf, e)
  <2> PICK k \in Controls : \E i \in DOMAIN left[k] : left[k][i] = e
    BY <1>5 DEF InFlight
  <2>1. PICK i \in DOMAIN left[k] : left[k][i] = e
    OBVIOUS
  <2>2. CASE k # c
    BY <1>2, <2>1, <2>2 DEF InFlight, Chan
  <2>3. CASE k = c
    <3>1. i \in 1..(Len(q) - n)
      BY <1>1, <1>2, <1>3, <2>1, <2>3
    <3>2. n + i \in DOMAIN q /\ q[n + i] = e
      BY <1>1, <1>2, <1>3, <2>1, <2>3, <3>1
    <3> QED
      BY <2>3, <3>2 DEF InFlight
  <2> QED
    BY <2>2, <2>3
<1> QED
  BY <1>2, <1>3, <1>4, <1>5

\* Joining items to the back of a channel.
Joined(c, more) == [buf EXCEPT ![c] = @ \o more]

LEMMA JoinedProperties ==
  ASSUME buf \in Buffers, NEW c \in Chan, NEW more \in Seq(Item)
  PROVE  /\ Joined(c, more) \in Buffers
         /\ \A d \in Chan \ {c} : Joined(c, more)[d] = buf[d]
         /\ Len(Joined(c, more)[c]) = Len(buf[c]) + Len(more)
         /\ SubSeq(Joined(c, more)[c], 1, Len(buf[c])) = buf[c]
         /\ \A e : InFlight(buf, e) => InFlight(Joined(c, more), e)
         /\ \A e : InFlight(Joined(c, more), e) =>
              InFlight(buf, e) \/ \E i \in DOMAIN more : more[i] = e
<1> DEFINE q == buf[c]
           b == Joined(c, more)
<1>1. q \in Seq(Item) /\ Len(q) \in Nat /\ Len(more) \in Nat
  BY DEF Buffers
<1>2. (\A d \in Chan \ {c} : b[d] = buf[d]) /\ b[c] = q \o more
  BY DEF Joined, Buffers
<1>3. /\ q \o more \in Seq(Item)
      /\ Len(q \o more) = Len(q) + Len(more)
      /\ \A i \in 1..(Len(q) + Len(more)) :
           (q \o more)[i] = IF i <= Len(q) THEN q[i] ELSE more[i - Len(q)]
  BY <1>1, ConcatProperties
<1>4. b \in Buffers
  BY <1>2, <1>3 DEF Joined, Buffers
<1>5. SubSeq(q \o more, 1, Len(q)) = q
  <2>1. /\ SubSeq(q \o more, 1, Len(q)) \in Seq(Item)
        /\ Len(SubSeq(q \o more, 1, Len(q))) = Len(q)
        /\ \A i \in 1..Len(q) : SubSeq(q \o more, 1, Len(q))[i] = q[i]
    BY <1>1, <1>3, SubSeqProperties
  <2> QED
    BY <1>1, <2>1, SeqEqual
<1>6. ASSUME NEW e, InFlight(buf, e)
      PROVE  InFlight(b, e)
  <2> PICK k \in Controls : \E i \in DOMAIN buf[k] : buf[k][i] = e
    BY <1>6 DEF InFlight
  <2>1. PICK i \in DOMAIN buf[k] : buf[k][i] = e
    OBVIOUS
  <2>2. i \in DOMAIN b[k] /\ b[k][i] = e
    <3>1. CASE k # c
      BY <1>2, <2>1, <3>1 DEF Chan
    <3>2. CASE k = c
      <4>1. i \in 1..Len(q)
        BY <1>1, <2>1, <3>2
      <4> QED
        BY <1>1, <1>2, <1>3, <2>1, <3>2, <4>1
    <3> QED
      BY <3>1, <3>2
  <2> QED
    BY <2>2 DEF InFlight
<1>7. ASSUME NEW e, InFlight(b, e)
      PROVE  InFlight(buf, e) \/ \E i \in DOMAIN more : more[i] = e
  <2> PICK k \in Controls : \E i \in DOMAIN b[k] : b[k][i] = e
    BY <1>7 DEF InFlight
  <2>1. PICK i \in DOMAIN b[k] : b[k][i] = e
    OBVIOUS
  <2>2. CASE k # c
    BY <1>2, <2>1, <2>2 DEF InFlight, Chan
  <2>3. CASE k = c
    <3>1. i \in 1..(Len(q) + Len(more)) /\ (q \o more)[i] = e
      BY <1>1, <1>2, <1>3, <2>1, <2>3
    <3>2. CASE i <= Len(q)
      <4>1. i \in DOMAIN q /\ q[i] = e
        BY <1>1, <1>3, <3>1, <3>2
      <4> QED
        BY <2>3, <4>1 DEF InFlight
    <3>3. CASE ~(i <= Len(q))
      <4>1. i - Len(q) \in DOMAIN more /\ more[i - Len(q)] = e
        BY <1>1, <1>3, <3>1, <3>3
      <4> QED
        BY <4>1
    <3> QED
      BY <3>2, <3>3
  <2> QED
    BY <2>2, <2>3
<1> QED
  BY <1>2, <1>3, <1>4, <1>5, <1>6, <1>7

-----------------------------------------------------------------------------
(* Ends, tables and system calls.                                          *)

\* What a system call returns: a count, or -1.
Results == Nat \cup {-1}

LEMMA EndFacts ==
  /\ Ends = ReadEnds \cup WriteEnds
  /\ None \notin Ends
  /\ PipeEnds \subseteq Ends
  /\ \A e \in Ends : e[1] \in Chan
  /\ \A e \in ReadEnds : e[1] \in Chan /\ e = ReadEnd(e[1])
  /\ \A e \in WriteEnds : e[1] \in Chan /\ e = WriteEnd(e[1])
  /\ \A c \in Chan : ReadEnd(c) \in ReadEnds /\ WriteEnd(c) \in WriteEnds
BY PosixAssumption DEF Ends, ReadEnds, WriteEnds, PipeEnds, ReadEnd, WriteEnd, Chan

LEMMA EndOfType ==
  ASSUME PosixTypeOK, NEW p \in Proc, NEW fd
  PROVE  /\ EndOf(p, fd) \in Ends \cup {None}
         /\ EndOf(p, fd) # None => fd \in FdNum /\ table[p][fd] = EndOf(p, fd)
BY DEF PosixTypeOK, EndOf

\* What read returns: a count of bytes that are there, or nothing moves.
LEMMA SysReadResult ==
  ASSUME PosixTypeOK, NEW e \in Ends \cup {None}, NEW n \in Nat
  PROVE  /\ SysRead(e, n).n \in Results
         /\ SysRead(e, n).n > 0 =>
              /\ e \in ReadEnds
              /\ SysRead(e, n).n \in 1..Len(buf[e[1]])
<1>1. CASE e \in ReadEnds /\ n # 0 /\ buf[e[1]] # <<>>
  <2>1. buf[e[1]] \in Seq(Item)
    BY <1>1, EndFacts DEF PosixTypeOK, Buffers
  <2>2. Taken(buf[e[1]], n) \in 1..Len(buf[e[1]])
    BY <1>1, <2>1, TakenRange
  <2> QED
    BY <1>1, <2>1, <2>2 DEF SysRead, Done, Results
<1>2. CASE ~(e \in ReadEnds /\ n # 0 /\ buf[e[1]] # <<>>)
  BY <1>2 DEF SysRead, Done, Failed, Results
<1> QED
  BY <1>1, <1>2

LEMMA SysRecvmsgResult ==
  ASSUME PosixTypeOK, NEW e \in Ends \cup {None}
  PROVE  /\ SysRecvmsg(e).n \in Results
         /\ SysRecvmsg(e).n > 0 => e \in ReadEnds /\ buf[e[1]] # <<>>
<1>1. CASE e \in ReadEnds /\ e[1] \in Pipes
  BY <1>1 DEF SysRecvmsg, Failed, Results
<1>2. CASE ~(e \in ReadEnds /\ e[1] \in Pipes)
  <2>1. SysRecvmsg(e) = SysRead(e, 1)
    BY <1>2 DEF SysRecvmsg
  <2>2. SysRead(e, 1).n > 0 => buf[e[1]] # <<>>
    BY DEF SysRead, Done, Failed
  <2> QED
    BY <2>1, <2>2, SysReadResult
<1> QED
  BY <1>1, <1>2

LEMMA AcceptedRange ==
  ASSUME PosixTypeOK, WithinCapacity, NEW e \in WriteEnds,
         NEW len \in Nat, NEW done \in 0..len
  PROVE  /\ Room(e[1]) \in Nat
         /\ Accepted(e, len, done) \in 0..Room(e[1])
         /\ done + Accepted(e, len, done) <= len
<1>1. e[1] \in Chan /\ buf[e[1]] \in Seq(Item)
  BY EndFacts DEF PosixTypeOK, Buffers
<1>2. Len(buf[e[1]]) \in Nat /\ Len(buf[e[1]]) <= Capacity /\ Capacity \in Nat
  BY <1>1, PosixAssumption DEF WithinCapacity
<1> QED
  BY <1>2 DEF Room, Accepted

\* What write returns: what was put in before, and what the channel takes now.
LEMMA SysWriteResult ==
  ASSUME PosixTypeOK, WithinCapacity, NEW e \in Ends \cup {None},
         NEW len \in Nat, NEW done \in 0..len
  PROVE  /\ SysWrite(e, len, done).n \in Results
         /\ SysWrite(e, len, done).n > 0 =>
              /\ e \in WriteEnds
              /\ SysWrite(e, len, done).n - done \in 0..Room(e[1])
              /\ SysWrite(e, len, done).n > done => Live(ReadEnd(e[1]))
<1>1. CASE e \notin WriteEnds
  BY <1>1 DEF SysWrite, Failed, Results
<1>2. CASE e \in WriteEnds
  <2>1. /\ Room(e[1]) \in Nat
        /\ Accepted(e, len, done) \in 0..Room(e[1])
        /\ done + Accepted(e, len, done) <= len
    BY <1>2, AcceptedRange
  <2> QED
    BY <1>2, <2>1 DEF SysWrite, Failed, Done, Results
<1> QED
  BY <1>1, <1>2

-----------------------------------------------------------------------------
(* How the steps move the tables and the channels.                         *)

\* The part of the invariant about tables and channels, and the claim that a
\* step opens no end but those of a channel it creates.
Resources == OnlyCreated /\ ReadersLeft /\ DeadHoldNothing /\ WithinCapacity

NothingReopens ==
  \A e \in Ends : Live(e)' => Live(e) \/ e[1] \in created' \ created

\* The sides of channel c that are open, as the contract sees them.
Sides(c) == {side \in {"read", "write"} : Live(<<c, side>>)}

\* What is established of every step.
GoodStep == PosixTypeOK' /\ Resources' /\ NothingReopens /\ Contract!Next

\* Only ends of pipes travel.
LEMMA RightsArePipeEnds ==
  ASSUME NEW b \in Buffers, NEW e, InFlight(b, e), e # None
  PROVE  e \in PipeEnds
<1>1. PICK k \in Controls : \E i \in DOMAIN b[k] : b[k][i] = e
  BY DEF InFlight
<1>2. b[k] \in Seq(Item)
  BY DEF Buffers, Chan
<1> QED
  BY <1>1, <1>2 DEF Item

LEMMA ControlEnds ==
  ASSUME NEW k \in Controls
  PROVE  ReadEnd(k) \notin PipeEnds \cup {None} /\ WriteEnd(k) \notin PipeEnds \cup {None}
BY PosixAssumption DEF ReadEnd, WriteEnd, PipeEnds

\* After a step that purged, a channel holds what was to be kept of it exactly
\* if its read end is open.
LEMMA PurgedChannel ==
  ASSUME NEW b \in Buffers, buf' = Purge(table', b), NEW c \in Chan
  PROVE  buf'[c] = IF Live(ReadEnd(c))' THEN b[c] ELSE <<>>
<1> DEFINE kept == [k \in Controls |-> IF Held(table', ReadEnd(k)) THEN b[k] ELSE <<>>]
<1>1. \A d \in Chan :
        buf'[d] = IF d \in Controls
                  THEN kept[d]
                  ELSE IF Held(table', ReadEnd(d)) \/ InFlight(kept, ReadEnd(d)) THEN b[d] ELSE <<>>
  BY DEF Purge
<1>2. \A k \in Controls : buf'[k] = kept[k]
  BY <1>1 DEF Chan
<1>3. InFlight(buf', ReadEnd(c)) <=> InFlight(kept, ReadEnd(c))
  BY <1>2 DEF InFlight
<1>4. c \in Controls => ~InFlight(buf', ReadEnd(c))
  <2>1. buf' \in Buffers
    BY PurgeProperties
  <2> QED
    BY <2>1, RightsArePipeEnds, ControlEnds
<1> QED
  BY <1>1, <1>3, <1>4 DEF Live

\* Steps that drop references or items: close, dup2, exit and the reads.
LEMMA DroppingStep ==
  ASSUME PosixTypeOK, Resources,
         NEW b \in Buffers,
         \A e \in Ends : InFlight(b, e) => InFlight(buf, e),
         \A c \in Chan : \/ b[c] = buf[c]
                         \/ /\ "read" \in Sides(c)
                            /\ Sides(c)' = Sides(c)
                            /\ \E n \in 1..Len(buf[c]) :
                                 b[c] = SubSeq(buf[c], n + 1, Len(buf[c])),
         table' \in [Proc -> [FdNum -> Ends \cup {None}]],
         \A e \in Ends : Held(table', e) => Live(e),
         buf' = Purge(table', b),
         alive' \subseteq alive,
         \A p \in Proc \ alive' : \A fd \in FdNum : table'[p][fd] = None,
         UNCHANGED <<created, nonblock>>
  PROVE  GoodStep
<1>1. /\ buf' \in Buffers
      /\ \A c \in Chan : buf'[c] \in {b[c], <<>>}
      /\ \A e : InFlight(buf', e) => InFlight(b, e)
      /\ \A c \in Chan : buf'[c] # <<>> =>
           Held(table', ReadEnd(c)) \/ InFlight(buf', ReadEnd(c))
  BY PurgeProperties
<1>2. PosixTypeOK'
  BY <1>1 DEF PosixTypeOK
<1>3. NothingReopens
  BY <1>1 DEF NothingReopens, Live
<1>4. OnlyCreated'
  BY <1>3 DEF NothingReopens, Resources, OnlyCreated
<1>5. ReadersLeft'
  BY <1>1 DEF ReadersLeft, Live
<1>6. WithinCapacity'
  <2> SUFFICES ASSUME NEW c \in Chan
               PROVE  Len(buf'[c]) <= Capacity
    BY DEF WithinCapacity
  <2>1. buf[c] \in Seq(Item) /\ Len(buf[c]) <= Capacity /\ Capacity \in Nat /\ Len(buf[c]) \in Nat
    BY PosixAssumption DEF PosixTypeOK, Buffers, Resources, WithinCapacity
  <2>2. Len(<<>>) <= Capacity
    BY PosixAssumption
  <2>3. \A n \in 1..Len(buf[c]) : Len(SubSeq(buf[c], n + 1, Len(buf[c]))) = Len(buf[c]) - n
    BY <2>1, SubSeqProperties
  <2>4. Len(b[c]) <= Capacity
    BY <2>1, <2>3
  <2> QED
    BY <1>1, <2>2, <2>4
<1>7. Contract!Next
  <2> SUFFICES ASSUME NEW c \in Chan
               PROVE  Contract!Get(c) \/ Contract!Close(c) \/ Contract!Rest(c)
    BY DEF Contract!Next
  <2>1. Sides(c)' \subseteq Sides(c)
    <3>1. <<c, "read">> \in Ends /\ <<c, "write">> \in Ends
      BY DEF Ends
    <3> QED
      BY <1>3, <3>1 DEF NothingReopens, Sides
  <2>2. c \in created' <=> c \in created
    OBVIOUS
  <2>3. buf'[c] = IF "read" \in Sides(c)' THEN b[c] ELSE <<>>
    BY PurgedChannel DEF Sides, ReadEnd
  <2>4. Sides(c) # {} => c \in created
    <3>1. <<c, "read">> \in Ends /\ <<c, "write">> \in Ends
      BY DEF Ends
    <3> QED
      BY <3>1 DEF Resources, OnlyCreated, Sides
  <2>5. CASE b[c] = buf[c] /\ Sides(c)' = Sides(c)
    <3>1. "read" \notin Sides(c) => buf[c] = <<>>
      BY DEF Resources, ReadersLeft, Sides, ReadEnd
    <3>2. buf'[c] = buf[c]
      BY <2>3, <2>5, <3>1
    <3> QED
      BY <2>2, <2>5, <3>2 DEF Contract!Rest, Sides
  <2>6. CASE b[c] = buf[c] /\ Sides(c)' # Sides(c)
    BY <2>1, <2>2, <2>3, <2>4, <2>6 DEF Contract!Close, Sides
  <2>7. CASE b[c] # buf[c]
    BY <2>2, <2>3, <2>4, <2>7 DEF Contract!Get, Sides
  <2> QED
    BY <2>5, <2>6, <2>7
<1> QED
  BY <1>2, <1>3, <1>4, <1>5, <1>6, <1>7 DEF GoodStep, Resources, DeadHoldNothing

\* Steps that put items into one channel, or leave all channels as they are.
LEMMA AddingStep ==
  ASSUME PosixTypeOK, Resources,
         NEW c \in Chan, NEW more \in Seq(Item),
         buf' = [buf EXCEPT ![c] = @ \o more],
         Len(more) \in 0..Room(c),
         more # <<>> => Live(ReadEnd(c)) /\ Live(WriteEnd(c)),
         \A i \in DOMAIN more : more[i] # None => Live(more[i]),
         UNCHANGED <<alive, table, created, nonblock>>
  PROVE  GoodStep
<1>1. /\ buf' \in Buffers
      /\ \A d \in Chan \ {c} : buf'[d] = buf[d]
      /\ Len(buf'[c]) = Len(buf[c]) + Len(more)
      /\ SubSeq(buf'[c], 1, Len(buf[c])) = buf[c]
      /\ \A e : InFlight(buf, e) => InFlight(buf', e)
      /\ \A e : InFlight(buf', e) =>
           InFlight(buf, e) \/ \E i \in DOMAIN more : more[i] = e
  <2>1. buf \in Buffers
    BY DEF PosixTypeOK
  <2>2. buf' = Joined(c, more)
    BY DEF Joined
  <2>3. /\ Joined(c, more) \in Buffers
        /\ \A d \in Chan \ {c} : Joined(c, more)[d] = buf[d]
        /\ Len(Joined(c, more)[c]) = Len(buf[c]) + Len(more)
        /\ SubSeq(Joined(c, more)[c], 1, Len(buf[c])) = buf[c]
        /\ \A e : InFlight(buf, e) => InFlight(Joined(c, more), e)
        /\ \A e : InFlight(Joined(c, more), e) =>
             InFlight(buf, e) \/ \E i \in DOMAIN more : more[i] = e
    BY <2>1, JoinedProperties
  <2> QED
    BY <2>2, <2>3
<1>2. \A d \in Chan : Len(buf[d]) \in Nat /\ buf[d] \in Seq(Item)
  BY DEF PosixTypeOK, Buffers
<1>3. PosixTypeOK'
  BY <1>1 DEF PosixTypeOK
<1>4. \A e \in Ends : Live(e)' <=> Live(e)
  <2> SUFFICES ASSUME NEW e \in Ends
               PROVE  Live(e)' <=> Live(e)
    OBVIOUS
  <2>1. Live(e) => Live(e)'
    BY <1>1 DEF Live
  <2>2. (\E i \in DOMAIN more : more[i] = e) => Live(e)
    BY EndFacts
  <2>3. Live(e)' => Live(e)
    BY <1>1, <2>2 DEF Live
  <2> QED
    BY <2>1, <2>3
<1>5. ReadersLeft'
  <2> SUFFICES ASSUME NEW d \in Chan, buf'[d] # <<>>
               PROVE  Live(ReadEnd(d))
    BY <1>4, EndFacts DEF ReadersLeft
  <2>1. CASE d = c /\ more # <<>>
    BY <2>1
  <2>2. CASE d # c
    BY <1>1, <2>2 DEF Resources, ReadersLeft
  <2>3. CASE d = c /\ more = <<>>
    <3>1. Len(buf[c]) = Len(buf'[c]) /\ buf'[c] \in Seq(Item)
      BY <1>1, <1>2, <2>3 DEF Buffers
    <3>2. buf[c] # <<>>
      BY <1>2, <2>3, <3>1, EmptySeq
    <3> QED
      BY <2>3, <3>2 DEF Resources, ReadersLeft
  <2> QED
    BY <2>1, <2>2, <2>3
<1>6. WithinCapacity'
  <2>1. Len(buf'[c]) <= Capacity
    BY <1>1, <1>2, PosixAssumption DEF Room
  <2> QED
    BY <1>1, <2>1 DEF Resources, WithinCapacity
<1>7. Contract!Next
  <2> SUFFICES ASSUME NEW d \in Chan
               PROVE  Contract!Put(d) \/ Contract!Rest(d)
    BY DEF Contract!Next
  <2>1. Sides(d)' = Sides(d)
    BY <1>4 DEF Sides, Ends
  <2>2. CASE d # c
    BY <1>1, <2>1, <2>2 DEF Contract!Rest, Sides
  <2>3. CASE d = c /\ more = <<>>
    <3>1. buf'[c] = buf[c]
      BY <1>2, <2>3, ConcatEmptySeq DEF PosixTypeOK, Buffers
    <3> QED
      BY <2>1, <2>3, <3>1 DEF Contract!Rest, Sides
  <2>4. CASE d = c /\ more # <<>>
    <3>1. Len(more) \in Nat \ {0}
      BY <2>4, EmptySeq
    <3>2. Len(buf'[c]) \in (Len(buf[c]) + 1)..Capacity
      BY <1>1, <1>2, <3>1, PosixAssumption DEF Room
    <3>3. Sides(c) = {"read", "write"}
      BY <2>4 DEF Sides, ReadEnd, WriteEnd
    <3>4. c \in created'
      BY <2>4, EndFacts DEF Resources, OnlyCreated, Ends, ReadEnd
    <3> QED
      BY <1>1, <2>1, <2>4, <3>2, <3>3, <3>4 DEF Contract!Put, Sides
  <2> QED
    BY <2>2, <2>3, <2>4
<1> QED
  BY <1>3, <1>4, <1>5, <1>6, <1>7
  DEF GoodStep, Resources, OnlyCreated, DeadHoldNothing, NothingReopens

\* Steps that change no table and no channel.
LEMMA QuietStep ==
  ASSUME PosixTypeOK, Resources, nonblock' \subseteq Ends,
         UNCHANGED <<alive, table, created, buf>>
  PROVE  GoodStep
<1>1. PosixTypeOK' /\ Resources' /\ NothingReopens
  BY DEF PosixTypeOK, Resources, OnlyCreated, ReadersLeft, DeadHoldNothing, WithinCapacity,
         NothingReopens, Live
<1>2. Contract!Next
  BY DEF Contract!Next, Contract!Rest, Live
<1> QED
  BY <1>1, <1>2 DEF GoodStep

\* A read of channel c, after which only ends of pipes may have closed.
LEMMA ReadingStep ==
  ASSUME PosixTypeOK, Resources,
         NEW c \in Chan, NEW n \in 1..Len(buf[c]),
         Held(table, ReadEnd(c)),
         buf' = Purge(table', Drained(c, n)),
         table' \in [Proc -> [FdNum -> Ends \cup {None}]],
         c \in Pipes => table' = table,
         \A e \in Ends \ PipeEnds : Held(table', e) <=> Held(table, e),
         \A e \in Ends : Held(table', e) => Live(e),
         \A p \in Proc \ alive : \A fd \in FdNum : table'[p][fd] = None,
         UNCHANGED <<alive, created, nonblock>>
  PROVE  GoodStep
<1> DEFINE b == Drained(c, n)
<1>1. /\ b \in Buffers
      /\ \A d \in Chan \ {c} : b[d] = buf[d]
      /\ b[c] = SubSeq(buf[c], n + 1, Len(buf[c]))
      /\ \A e : InFlight(b, e) => InFlight(buf, e)
  BY DrainedProperties DEF PosixTypeOK
<1>2. Sides(c)' = Sides(c)
  <2>1. CASE c \in Controls
    <3>1. ReadEnd(c) \in Ends \ PipeEnds /\ WriteEnd(c) \in Ends \ PipeEnds
      BY <2>1, ControlEnds, EndFacts
    <3>2. \A e \in {ReadEnd(c), WriteEnd(c)} : ~InFlight(buf, e) /\ ~InFlight(buf', e)
      <4>1. buf \in Buffers /\ buf' \in Buffers
        BY <1>1, PurgeProperties DEF PosixTypeOK
      <4> QED
        BY <2>1, <4>1, RightsArePipeEnds, ControlEnds
    <3>3. \A e \in {ReadEnd(c), WriteEnd(c)} : Live(e)' <=> Live(e)
      BY <3>1, <3>2 DEF Live
    <3> QED
      BY <3>3 DEF Sides, ReadEnd, WriteEnd
  <2>2. CASE c \in Pipes
    <3>1. ASSUME NEW k \in Controls
          PROVE  buf'[k] = buf[k]
      <4>1. k \in Chan \ {c}
        BY <2>2, PosixAssumption DEF Chan
      <4>2. buf'[k] = IF Live(ReadEnd(k))' THEN b[k] ELSE <<>>
        BY <1>1, <4>1, PurgedChannel
      <4>3. ~InFlight(buf, ReadEnd(k))
        BY RightsArePipeEnds, ControlEnds DEF PosixTypeOK
      <4>4. buf[k] # <<>> => Held(table, ReadEnd(k))
        BY <4>1, <4>3 DEF Resources, ReadersLeft, Live
      <4>5. Held(table, ReadEnd(k)) => Live(ReadEnd(k))'
        BY <2>2 DEF Live
      <4> QED
        BY <1>1, <4>1, <4>2, <4>4, <4>5
    <3>2. \A e : InFlight(buf', e) <=> InFlight(buf, e)
      BY <3>1 DEF InFlight
    <3> QED
      BY <2>2, <3>2 DEF Sides, Live
  <2> QED
    BY <2>1, <2>2 DEF Chan
<1>3. "read" \in Sides(c)
  BY DEF Sides, Live, ReadEnd
<1>4. \A d \in Chan : \/ b[d] = buf[d]
                     \/ /\ "read" \in Sides(d)
                        /\ Sides(d)' = Sides(d)
                        /\ \E i \in 1..Len(buf[d]) : b[d] = SubSeq(buf[d], i + 1, Len(buf[d]))
  BY <1>1, <1>2, <1>3
<1> HIDE DEF b
<1>5. buf' = Purge(table', b)
  BY DEF b
<1> QED
  BY <1>1, <1>4, <1>5, DroppingStep

\* A step that only drops references from tables.
LEMMA ReleasingStep ==
  ASSUME PosixTypeOK, Resources,
         table' \in [Proc -> [FdNum -> Ends \cup {None}]],
         \A e \in Ends : Held(table', e) => Held(table, e),
         buf' = Purge(table', buf),
         alive' \subseteq alive,
         \A p \in Proc \ alive' : \A fd \in FdNum : table'[p][fd] = None,
         UNCHANGED <<created, nonblock>>
  PROVE  GoodStep
<1>1. buf \in Buffers
  BY DEF PosixTypeOK
<1>2. \A e \in Ends : Held(table', e) => Live(e)
  BY DEF Live
<1> QED
  BY <1>1, <1>2, DroppingStep

\* fork: the references are those there were.
LEMMA ForkingStep ==
  ASSUME PosixTypeOK, Resources, NEW p \in Proc, NEW q \in Proc \ alive, Forked(p, q)
  PROVE  GoodStep
<1>1. table' \in [Proc -> [FdNum -> Ends \cup {None}]]
  BY DEF Forked, PosixTypeOK
<1>2. \A r \in Proc : table'[r] = IF r = q THEN table[p] ELSE table[r]
  BY DEF Forked, PosixTypeOK
<1>3. \A fd \in FdNum : table[q][fd] = None
  BY DEF Resources, DeadHoldNothing
<1>4. p # q => table'[p] = table[p]
  BY <1>2
<1>5. \A e \in Ends : Held(table', e) <=> Held(table, e)
  BY <1>2, <1>3, EndFacts DEF Held
<1>6. \A e \in Ends : Live(e)' <=> Live(e)
  BY <1>5 DEF Live, Forked
<1>7. PosixTypeOK'
  BY <1>1 DEF PosixTypeOK, Forked
<1>8. Resources'
  <2>1. OnlyCreated' /\ ReadersLeft' /\ WithinCapacity'
    BY <1>6, EndFacts
    DEF Forked, Resources, OnlyCreated, ReadersLeft, WithinCapacity, Ends, ReadEnds, ReadEnd
  <2>2. DeadHoldNothing'
    BY <1>2 DEF Forked, Resources, DeadHoldNothing
  <2> QED
    BY <2>1, <2>2 DEF Resources
<1>9. Contract!Next
  <2> SUFFICES ASSUME NEW c \in Chan
               PROVE  Contract!Rest(c)
    BY DEF Contract!Next
  <2>1. Sides(c)' = Sides(c)
    BY <1>6 DEF Sides, Ends
  <2> QED
    BY <2>1 DEF Contract!Rest, Sides, Forked
<1> QED
  BY <1>6, <1>7, <1>8, <1>9 DEF GoodStep, NothingReopens

\* pipe and socketpair.
LEMMA CreatingStep ==
  ASSUME PosixTypeOK, Resources, NEW p \in alive, NEW S \in SUBSET Chan,
         NEW r \in FdNum, NEW w \in FdNum, Allocated(p, S, r, w)
  PROVE  GoodStep
<1>1. PICK c \in S \ created :
        /\ created' = created \cup {c}
        /\ table' = [table EXCEPT ![p][r] = ReadEnd(c), ![p][w] = WriteEnd(c)]
  BY DEF Allocated
<1>2. p \in Proc /\ c \in Chan /\ r # w /\ table[p][r] = None /\ table[p][w] = None
  BY DEF PosixTypeOK, Allocated, Lowest, FreeFds
<1>3. \A q \in Proc, fd \in FdNum :
        table'[q][fd] = IF q = p /\ fd = r THEN ReadEnd(c)
                        ELSE IF q = p /\ fd = w THEN WriteEnd(c) ELSE table[q][fd]
  BY <1>1, <1>2 DEF PosixTypeOK
<1>4. table' \in [Proc -> [FdNum -> Ends \cup {None}]]
  <2>1. ReadEnd(c) \in Ends /\ WriteEnd(c) \in Ends
    BY <1>2, EndFacts
  <2> QED
    BY <1>1, <1>2, <2>1 DEF PosixTypeOK
<1>5. \A e \in Ends : Held(table', e) <=> Held(table, e) \/ e \in {ReadEnd(c), WriteEnd(c)}
  BY <1>2, <1>3, EndFacts DEF Held
<1>6. \A e \in Ends : Live(e)' <=> Live(e) \/ e \in {ReadEnd(c), WriteEnd(c)}
  BY <1>5 DEF Live, Allocated
<1>7. ReadEnd(c)[1] = c /\ WriteEnd(c)[1] = c
  BY DEF ReadEnd, WriteEnd
<1>8. PosixTypeOK'
  BY <1>1, <1>2, <1>4 DEF PosixTypeOK, Allocated
<1>9. Resources'
  <2>1. OnlyCreated'
    BY <1>1, <1>6, <1>7 DEF Resources, OnlyCreated
  <2>2. ReadersLeft' /\ WithinCapacity'
    BY <1>6, EndFacts
    DEF Allocated, Resources, ReadersLeft, WithinCapacity, Ends, ReadEnds, ReadEnd
  <2>3. DeadHoldNothing'
    BY <1>3 DEF Allocated, Resources, DeadHoldNothing
  <2> QED
    BY <2>1, <2>2, <2>3 DEF Resources
<1>10. NothingReopens
  BY <1>1, <1>6, <1>7 DEF NothingReopens
<1>11. Contract!Next
  <2> SUFFICES ASSUME NEW d \in Chan
               PROVE  Contract!Create(d) \/ Contract!Rest(d)
    BY DEF Contract!Next
  <2>1. CASE d = c
    <3>1. Sides(c)' = {"read", "write"}
      <4>1. <<c, "read">> \in Ends /\ <<c, "write">> \in Ends
        BY <1>2 DEF Ends
      <4> QED
        BY <1>6, <4>1 DEF Sides, ReadEnd, WriteEnd
    <3> QED
      BY <1>1, <2>1, <3>1 DEF Contract!Create, Sides, Allocated
  <2>2. CASE d # c
    <3>1. Sides(d)' = Sides(d)
      BY <1>6, <2>2 DEF Sides, Ends, ReadEnd, WriteEnd
    <3> QED
      BY <1>1, <2>2, <3>1 DEF Contract!Rest, Sides, Allocated
  <2> QED
    BY <2>1, <2>2
<1> QED
  BY <1>8, <1>9, <1>10, <1>11 DEF GoodStep

-----------------------------------------------------------------------------
(* The actions.                                                            *)

\* The part of the invariant about the calls, and the invariant.
Answers == Scalars \cup PipeResults \cup SelectResults

CallsOK ==
  /\ call \in [Proc -> SleepingCalls \cup {Idle}]
  /\ ret \in [Proc -> Answers]
  /\ WritesNotOverrun

IInv == PosixTypeOK /\ Resources /\ CallsOK /\ CallsAsNamed

LEMMA IInvMeaning == IInv <=> TypeOK /\ Consistent
BY DEF IInv, TypeOK, Consistent, Resources, CallsOK, Answers

LEMMA CallTypes ==
  ASSUME CallsOK, NEW p \in Proc
  PROVE  /\ call[p].op = "read" => call[p].len \in Nat /\ call[p].fd \in FdArg
         /\ call[p].op = "write" =>
              /\ call[p].len \in Nat /\ call[p].fd \in FdArg
              /\ call[p].done \in 0..call[p].len
         /\ call[p].op = "select" =>
              /\ call[p].read \in SUBSET FdArg /\ call[p].write \in SUBSET FdArg
              /\ call[p].except \in SUBSET FdArg
<1>1. call[p] \in SleepingCalls \cup {Idle}
  BY DEF CallsOK
<1>2. call[p].op = "write" => call[p].done <= call[p].len
  BY DEF CallsOK, WritesNotOverrun
<1> QED
  BY <1>1, <1>2 DEF SleepingCalls, Idle

LEMMA ScalarAnswers ==
  /\ Pending \in Answers /\ Nothing \in Answers /\ True \in Answers
  /\ False \in Answers /\ Null \in Answers
  /\ \A n \in Int : Long(n) \in Answers
  /\ \A n \in Nat \ {0} : Value("string", n) \in Answers
BY DEF Answers, Scalars, Long, Value

LEMMA PhpReadAnswer ==
  ASSUME NEW r, r.n \in Results
  PROVE  PhpRead(r) \in Answers
BY ScalarAnswers DEF PhpRead, Results

LEMMA PhpWriteAnswer ==
  ASSUME NEW r, r.n \in Results
  PROVE  PhpWrite(r) \in Answers
BY ScalarAnswers DEF PhpWrite, Results

LEMMA PhpControlReadAnswer ==
  ASSUME NEW r, r.n \in Results, NEW stored \in Int
  PROVE  PhpControlRead(ancil_recv_fd(r, stored)) \in Answers
<1>1. ancil_recv_fd(r, stored).fd \in Int
  BY DEF ancil_recv_fd, ancil_recv_fds_with_buffer
<1> QED
  BY <1>1, ScalarAnswers DEF PhpControlRead

\* A call returns, and stays the call that was answered.
LEMMA ReturnStep ==
  ASSUME CallsOK, NEW p \in Proc, NEW v \in Answers, Return(p, v), UNCHANGED call
  PROVE  CallsOK'
BY DEF CallsOK, Return, WritesNotOverrun

\* A function that does not sleep.
LEMMA AnswerStep ==
  ASSUME CallsOK, NEW p \in Proc, NEW v \in Answers,
         ret' = [ret EXCEPT ![p] = v], call' = [call EXCEPT ![p] = Idle]
  PROVE  CallsOK'
<1>1. Idle.op # "write"
  BY DEF Idle
<1>2. \A q \in Proc : call'[q] = IF q = p THEN Idle ELSE call[q]
  BY DEF CallsOK
<1> QED
  BY <1>1, <1>2 DEF CallsOK, WritesNotOverrun

LEMMA InvokeStep ==
  ASSUME IInv, NEW p \in Proc, Invoke(p)
  PROVE  GoodStep /\ CallsOK'
<1>1. GoodStep
  BY QuietStep DEF IInv, Invoke, posixVars, PosixTypeOK
<1>2. PICK c \in Workload \cap SleepingCalls : call' = [call EXCEPT ![p] = c]
  BY DEF Invoke
<1>3. c.op = "write" => c.done <= c.len
  BY WorkloadAssumption DEF SleepingCalls
<1>4. \A q \in Proc : call'[q] = IF q = p THEN c ELSE call[q]
  BY <1>2 DEF IInv, CallsOK
<1>5. WritesNotOverrun'
  BY <1>3, <1>4 DEF IInv, CallsOK, WritesNotOverrun
<1> QED
  BY <1>1, <1>2, <1>5, ScalarAnswers DEF Invoke, Return, IInv, CallsOK

LEMMA fd_readStep ==
  ASSUME IInv, NEW p \in Proc, fd_read(p)
  PROVE  GoodStep /\ CallsOK'
<1> DEFINE e == EndOf(p, call[p].fd)
           r == SysRead(e, call[p].len)
<1>1. call[p].len \in Nat
  BY CallTypes DEF fd_read, InCall, IInv
<1>2. e \in Ends \cup {None} /\ (e # None => call[p].fd \in FdNum /\ table[p][call[p].fd] = e)
  BY EndOfType DEF IInv
<1>3. r.n \in Results /\ (r.n > 0 => e \in ReadEnds /\ r.n \in 1..Len(buf[e[1]]))
  BY <1>1, <1>2, SysReadResult DEF IInv
<1>4. CallsOK'
  BY <1>3, PhpReadAnswer, ReturnStep DEF fd_read, IInv
<1>5. CASE r.n > 0
  <2>1. e[1] \in Chan /\ e = ReadEnd(e[1]) /\ e # None
    BY <1>3, <1>5, EndFacts
  <2>2. Held(table, ReadEnd(e[1]))
    BY <1>2, <2>1 DEF Held
  <2>3. buf' = Purge(table', Drained(e[1], r.n)) /\ UNCHANGED <<alive, table, created, nonblock>>
    BY <1>5 DEF fd_read
  <2>4. table' \in [Proc -> [FdNum -> Ends \cup {None}]]
    BY <2>3 DEF IInv, PosixTypeOK
  <2>5. \A x \in Ends : Held(table', x) => Live(x)
    BY <2>3 DEF Live
  <2>6. \A q \in Proc \ alive : \A fd \in FdNum : table'[q][fd] = None
    BY <2>3 DEF IInv, Resources, DeadHoldNothing
  <2> HIDE DEF e, r
  <2>7. GoodStep
    BY <1>3, <1>5, <2>1, <2>2, <2>3, <2>4, <2>5, <2>6, ReadingStep DEF IInv
  <2> QED
    BY <1>4, <2>7
<1>6. CASE ~(r.n > 0)
  BY <1>4, <1>6, QuietStep DEF fd_read, IInv, PosixTypeOK
<1> QED
  BY <1>5, <1>6

\* n plain bytes as a sequence of items.
LEMMA PlainBytes ==
  ASSUME NEW n \in Nat
  PROVE  /\ [i \in 1..n |-> None] \in Seq(Item)
         /\ Len([i \in 1..n |-> None]) = n
         /\ \A i \in DOMAIN [j \in 1..n |-> None] : [j \in 1..n |-> None][i] = None
<1>1. \A i \in 1..n : None \in Item
  BY DEF Item
<1>2. [i \in 1..n |-> None] \in [1..n -> Item]
  BY <1>1
<1> QED
  BY <1>2, SeqDef

\* Bytes enter the channel of a write end, as far as there is room.
LEMMA FillingStep ==
  ASSUME PosixTypeOK, Resources, NEW e \in WriteEnds, NEW n \in 0..Room(e[1]),
         NEW p \in Proc, NEW fd \in FdNum, table[p][fd] = e,
         n > 0 => Live(ReadEnd(e[1])),
         buf' = Filled(e[1], n),
         UNCHANGED <<alive, table, created, nonblock>>
  PROVE  GoodStep
<1> DEFINE more == [i \in 1..n |-> None]
<1>1. e[1] \in Chan /\ e = WriteEnd(e[1])
  BY EndFacts
<1>2. n \in Nat
  <2>1. Len(buf[e[1]]) \in Nat
    BY <1>1 DEF PosixTypeOK, Buffers
  <2> QED
    BY <2>1, PosixAssumption DEF Room
<1>3. more \in Seq(Item) /\ Len(more) = n /\ \A i \in DOMAIN more : more[i] = None
  BY <1>2, PlainBytes
<1>4. buf' = [buf EXCEPT ![e[1]] = @ \o more]
  BY DEF Filled
<1>5. more # <<>> => Live(ReadEnd(e[1])) /\ Live(WriteEnd(e[1]))
  <2>1. more # <<>> => n > 0
    BY <1>2, <1>3, EmptySeq
  <2>2. Live(WriteEnd(e[1]))
    BY <1>1 DEF Live, Held
  <2> QED
    BY <2>1, <2>2
<1> HIDE DEF more
<1> QED
  BY <1>1, <1>3, <1>4, <1>5, AddingStep

LEMMA fd_writeStep ==
  ASSUME IInv, NEW p \in Proc, fd_write(p)
  PROVE  GoodStep /\ CallsOK'
<1> DEFINE c == call[p]
           e == EndOf(p, c.fd)
           r == SysWrite(e, c.len, c.done)
<1>1. c.len \in Nat /\ c.done \in 0..c.len
  BY CallTypes DEF fd_write, InCall, IInv
<1>2. e \in Ends \cup {None} /\ (e # None => c.fd \in FdNum /\ table[p][c.fd] = e)
  BY EndOfType DEF IInv
<1>3. /\ r.n \in Results
      /\ r.n > 0 => /\ e \in WriteEnds
                    /\ r.n - c.done \in 0..Room(e[1])
                    /\ r.n > c.done => Live(ReadEnd(e[1]))
  BY <1>1, <1>2, SysWriteResult DEF IInv, Resources
<1>4. CallsOK'
  BY <1>3, PhpWriteAnswer, ReturnStep DEF fd_write, IInv
<1>5. CASE r.n > 0
  <2>1. buf' = Filled(e[1], r.n - c.done) /\ UNCHANGED <<alive, table, created, nonblock>>
    BY <1>5 DEF fd_write
  <2>2. e \in WriteEnds /\ e # None
    BY <1>3, <1>5, EndFacts
  <2>3. r.n - c.done > 0 => Live(ReadEnd(e[1]))
    BY <1>1, <1>3, <1>5 DEF Results
  <2> HIDE DEF c, e, r
  <2>4. GoodStep
    BY <1>2, <1>3, <1>5, <2>1, <2>2, <2>3, FillingStep DEF IInv
  <2> QED
    BY <1>4, <2>4
<1>6. CASE ~(r.n > 0)
  BY <1>4, <1>6, QuietStep DEF fd_write, IInv, PosixTypeOK
<1> QED
  BY <1>5, <1>6

LEMMA WriteProgressStep ==
  ASSUME IInv, NEW p \in Proc, WriteProgress(p)
  PROVE  GoodStep /\ CallsOK'
<1> DEFINE c == call[p]
           e == EndOf(p, c.fd)
           n == Accepted(e, c.len, c.done)
<1>1. c.len \in Nat /\ c.done \in 0..c.len /\ c.op = "write"
  BY CallTypes DEF WriteProgress, InCall, IInv
<1>2. e # None => c.fd \in FdNum /\ table[p][c.fd] = e
  BY EndOfType DEF IInv
<1>3. e \in WriteEnds /\ e # None /\ Live(ReadEnd(e[1]))
  BY EndFacts DEF WriteProgress, WriteSleeps
<1>4. /\ Room(e[1]) \in Nat
      /\ n \in 0..Room(e[1])
      /\ c.done + n <= c.len
  BY <1>1, <1>3, AcceptedRange DEF IInv, Resources
<1>5. /\ buf' = Filled(e[1], n)
      /\ call' = [call EXCEPT ![p].done = @ + n]
      /\ UNCHANGED <<alive, table, created, nonblock, ret>>
  BY DEF WriteProgress
<1>6. CallsOK'
  <2>1. c \in SleepingCalls
    BY <1>1 DEF IInv, CallsOK, Idle
  <2>2. c \in [op : {"write"}, fd : FdArg, len : Nat, done : Nat]
    BY <1>1, <2>1 DEF SleepingCalls
  <2>3. [c EXCEPT !.done = @ + n] \in [op : {"write"}, fd : FdArg, len : Nat, done : Nat]
    BY <1>1, <1>4, <2>2
  <2>4. call' = [call EXCEPT ![p] = [c EXCEPT !.done = @ + n]]
    BY <1>5
  <2> HIDE DEF n
  <2>5. call' \in [Proc -> SleepingCalls \cup {Idle}]
    BY <2>3, <2>4 DEF IInv, CallsOK, SleepingCalls
  <2>6. \A q \in Proc : call'[q] = IF q = p THEN [c EXCEPT !.done = @ + n] ELSE call[q]
    BY <2>4 DEF IInv, CallsOK
  <2>7. [c EXCEPT !.done = @ + n].done = c.done + n /\ [c EXCEPT !.done = @ + n].len = c.len
    BY <2>2
  <2>8. WritesNotOverrun'
    BY <1>4, <2>6, <2>7 DEF IInv, CallsOK, WritesNotOverrun
  <2> QED
    BY <1>5, <2>5, <2>8 DEF IInv, CallsOK
<1>7. GoodStep
  <2> HIDE DEF c, e, n
  <2> QED
    BY <1>2, <1>3, <1>4, <1>5, FillingStep DEF IInv
<1> QED
  BY <1>6, <1>7

LEMMA fd_control_writefdStep ==
  ASSUME IInv, NEW p \in Proc, fd_control_writefd(p)
  PROVE  GoodStep /\ CallsOK'
<1> DEFINE e == EndOf(p, call[p].fd)
           right == EndOf(p, call[p].send)
           r == SysSendmsg(e, right)
<1>1. /\ e # None => call[p].fd \in FdNum /\ table[p][call[p].fd] = e
      /\ right \in Ends \cup {None}
      /\ right # None => call[p].send \in FdNum /\ table[p][call[p].send] = right
  BY EndOfType DEF IInv
<1>2. CallsOK'
  BY ScalarAnswers, ReturnStep DEF fd_control_writefd, PhpControlWrite, IInv
<1>3. UNCHANGED <<alive, table, created, nonblock>> /\ buf' = Sent(e, right, r)
  BY DEF fd_control_writefd
<1>4. CASE r.n >= 0
  <2>1. e \in WriteEnds /\ e[1] \notin Pipes /\ right # None /\ Live(ReadEnd(e[1])) /\ Room(e[1]) # 0
    BY <1>4 DEF SysSendmsg, Failed
  <2>2. e # None /\ e[1] \in Chan /\ e = WriteEnd(e[1])
    BY <2>1, EndFacts
  <2>3. Live(WriteEnd(e[1])) /\ Live(right)
    BY <1>1, <2>1, <2>2 DEF Live, Held
  <2>4. right \in Item
    <3>1. UsesAsNamed(p, call[p]) /\ call[p].op = "writefd"
      BY DEF fd_control_writefd, InCall, IInv, CallsAsNamed
    <3> QED
      BY <2>1, <3>1 DEF UsesAsNamed, Item
  <2> DEFINE more == <<right>>
  <2>5. more \in Seq(Item) /\ Len(more) = 1 /\ \A i \in DOMAIN more : more[i] = right
    BY <2>4
  <2>6. buf' = [buf EXCEPT ![e[1]] = @ \o more]
    <3>1. buf[e[1]] \in Seq(Item)
      BY <2>2 DEF IInv, PosixTypeOK, Buffers
    <3>2. Append(buf[e[1]], right) = buf[e[1]] \o more
      BY <2>4, <3>1, AppendIsConcat
    <3> QED
      BY <1>3, <1>4, <3>2 DEF Sent
  <2>7. 1 \in 0..Room(e[1])
    <3>1. Len(buf[e[1]]) \in Nat /\ Len(buf[e[1]]) <= Capacity /\ Capacity \in Nat
      BY <2>2, PosixAssumption DEF IInv, PosixTypeOK, Buffers, Resources, WithinCapacity
    <3> QED
      BY <2>1, <3>1 DEF Room
  <2> HIDE DEF e, right, r, more
  <2>8. GoodStep
    BY <1>3, <2>1, <2>2, <2>3, <2>5, <2>6, <2>7, AddingStep DEF IInv
  <2> QED
    BY <1>2, <2>8
<1>5. CASE ~(r.n >= 0)
  BY <1>2, <1>3, <1>5, QuietStep DEF Sent, IInv, PosixTypeOK
<1> QED
  BY <1>4, <1>5

LEMMA fd_control_readfdStep ==
  ASSUME IInv, NEW p \in Proc, fd_control_readfd(p)
  PROVE  GoodStep /\ CallsOK'
<1> DEFINE e == EndOf(p, call[p].fd)
           r == SysRecvmsg(e)
           right == IF r.n = 1 THEN Head(buf[e[1]]) ELSE None
           left == IF r.n = 1 THEN Drained(e[1], 1) ELSE buf
<1>1. e \in Ends \cup {None} /\ (e # None => call[p].fd \in FdNum /\ table[p][call[p].fd] = e)
  BY EndOfType DEF IInv
<1>2. r.n \in Results /\ (r.n > 0 => e \in ReadEnds /\ buf[e[1]] # <<>>)
  BY <1>1, SysRecvmsgResult DEF IInv
<1>3. p \in alive /\ UNCHANGED <<alive, created, nonblock, call>> /\ buf' = Purge(table', left)
  BY DEF fd_control_readfd, InCall
<1>4. PICK fd \in FdNum \cup {-1} :
        /\ Return(p, PhpControlRead(ancil_recv_fd(r, fd)))
        /\ \/ table' = table
           \/ /\ right # None
              /\ fd \in FreeFds(p)
              /\ table' = [table EXCEPT ![p][fd] = right]
  BY DEF fd_control_readfd, FreeFds
<1>5. CallsOK'
  <2>1. fd \in Int
    BY PosixAssumption DEF FdNum
  <2> QED
    BY <1>2, <1>3, <1>4, <2>1, PhpControlReadAnswer, ReturnStep DEF IInv
<1>6. ASSUME r.n = 1
      PROVE  /\ e \in ReadEnds /\ e # None /\ e[1] \in Controls /\ e[1] \in Chan /\ e = ReadEnd(e[1])
             /\ 1 \in 1..Len(buf[e[1]])
             /\ right \in Item
             /\ right # None => InFlight(buf, right)
  <2>1. e \in ReadEnds /\ buf[e[1]] # <<>> /\ e # None /\ e[1] \in Chan /\ e = ReadEnd(e[1])
    BY <1>2, <1>6, EndFacts
  <2>2. e[1] \in Controls
    BY <1>6, <2>1 DEF SysRecvmsg, Failed, Chan
  <2>3. buf[e[1]] \in Seq(Item)
    BY <2>1 DEF IInv, PosixTypeOK, Buffers
  <2>4. Head(buf[e[1]]) \in Item /\ 1 \in 1..Len(buf[e[1]]) /\ Head(buf[e[1]]) = buf[e[1]][1]
    BY <2>1, <2>3, EmptySeq
  <2> QED
    BY <1>6, <2>1, <2>2, <2>4 DEF InFlight
<1>7. table' \in [Proc -> [FdNum -> Ends \cup {None}]]
  <2>1. right \in Ends \cup {None}
    BY <1>6, EndFacts DEF Item
  <2> HIDE DEF right
  <2> QED
    BY <1>4, <2>1 DEF IInv, PosixTypeOK
<1>8. \A x \in Ends : Held(table', x) => Live(x)
  <2>1. right # None => Live(right)
    BY <1>6 DEF Live
  <2> HIDE DEF right
  <2> QED
    BY <1>4, <2>1 DEF Held, Live, IInv, PosixTypeOK
<1>9. \A x \in Ends \ PipeEnds : Held(table', x) <=> Held(table, x)
  <2>1. right \in PipeEnds \cup {None}
    BY <1>6 DEF Item
  <2> HIDE DEF right
  <2>2. CASE table' = table
    BY <2>2
  <2>3. CASE table' # table
    <3>1. /\ table[p][fd] = None
          /\ \A q \in Proc, f \in FdNum :
               table'[q][f] = IF q = p /\ f = fd THEN right ELSE table[q][f]
      BY <1>4, <2>3 DEF IInv, PosixTypeOK, FreeFds
    <3> QED
      BY <2>1, <3>1, EndFacts DEF Held
  <2> QED
    BY <2>2, <2>3
<1>10. \A q \in Proc \ alive : \A f \in FdNum : table'[q][f] = None
  BY <1>3, <1>4 DEF IInv, Resources, DeadHoldNothing, PosixTypeOK
<1>11. CASE r.n = 1
  <2>1. e[1] \notin Pipes
    BY <1>6, <1>11, PosixAssumption
  <2>2. Held(table, ReadEnd(e[1]))
    BY <1>1, <1>6, <1>11 DEF Held
  <2>3. buf' = Purge(table', Drained(e[1], 1))
    BY <1>3, <1>11
  <2>4. 1 \in 1..Len(buf[e[1]]) /\ e[1] \in Chan
    BY <1>6, <1>11
  <2> HIDE DEF e, r, right, left
  <2>5. GoodStep
    BY <1>3, <1>7, <1>8, <1>9, <1>10, <2>1, <2>2, <2>3, <2>4, ReadingStep DEF IInv
  <2> QED
    BY <1>5, <2>5
<1>12. CASE r.n # 1
  <2>1. buf' = Purge(table', buf) /\ table' = table
    BY <1>3, <1>4, <1>12
  <2>2. \A x \in Ends : Held(table', x) => Held(table, x)
    BY <2>1
  <2>3. alive' \subseteq alive /\ \A q \in Proc \ alive' : \A f \in FdNum : table'[q][f] = None
    BY <1>3, <1>10
  <2> HIDE DEF e, r, right, left
  <2>4. GoodStep
    BY <1>3, <1>7, <2>1, <2>2, <2>3, ReleasingStep DEF IInv
  <2> QED
    BY <1>5, <2>4
<1> QED
  BY <1>11, <1>12

\* The arrays that fd_select returns hold a status for each entry.
LEMMA SelectAnswer ==
  ASSUME NEW n \in Int,
         NEW R \in SUBSET FdArg, NEW W \in SUBSET FdArg, NEW X \in SUBSET FdArg,
         NEW read \in [R -> Statuses], NEW write \in [W -> Statuses],
         NEW except \in [X -> Statuses]
  PROVE  SelectArray(n, read, write, except) \in Answers
<1>1. \A S \in SUBSET FdArg : \A f \in [S -> Statuses] : f \in StatusArrays
  BY DEF StatusArrays
<1> HIDE DEF StatusArrays
<1>2. read \in StatusArrays /\ write \in StatusArrays /\ except \in StatusArrays
  BY <1>1
<1> QED
  BY <1>2 DEF SelectArray, Answers, SelectResults

LEMMA StatusRange == \A value : ReadStatus(value) \in Statuses /\ WriteStatus(value) \in Statuses
BY DEF ReadStatus, WriteStatus, Statuses

LEMMA fd_selectStep ==
  ASSUME IInv, NEW p \in Proc, fd_select(p)
  PROVE  GoodStep /\ CallsOK'
<1> DEFINE c == call[p]
<1>1. c.read \in SUBSET FdArg /\ c.write \in SUBSET FdArg /\ c.except \in SUBSET FdArg
  BY CallTypes DEF fd_select, InCall, IInv
<1>2. GoodStep
  BY QuietStep DEF fd_select, posixVars, IInv, PosixTypeOK
<1>3. ReadyEntries(p, c) \in Int
  <2>1. IsFiniteSet(FdArg)
    <3>1. -1 \in Int /\ MaxFd + 1 \in Int
      BY PosixAssumption
    <3> QED
      BY <3>1, FS_Interval DEF FdArg
  <2>2. \A S \in SUBSET FdArg : Cardinality(S) \in Nat
    BY <2>1, FS_Subset, FS_CardinalityType
  <2>3. /\ {fd \in c.read : ReadEvents(p, fd) # {}} \in SUBSET FdArg
        /\ {fd \in c.write : WriteEvents(p, fd) # {}} \in SUBSET FdArg
        /\ {fd \in c.except : WriteEvents(p, fd) # {}} \in SUBSET FdArg
    BY <1>1
  <2> QED
    BY <2>2, <2>3 DEF ReadyEntries
<1>4. PICK v \in Answers : Return(p, v)
  <2>1. CASE Return(p, SelectArray(ReadyEntries(p, c),
                         [fd \in c.read   |-> ReadStatus(ReadEvents(p, fd))],
                         [fd \in c.write  |-> WriteStatus(WriteEvents(p, fd))],
                         [fd \in c.except |-> WriteStatus(WriteEvents(p, fd))]))
    <3>1. /\ [fd \in c.read   |-> ReadStatus(ReadEvents(p, fd))] \in [c.read -> Statuses]
          /\ [fd \in c.write  |-> WriteStatus(WriteEvents(p, fd))] \in [c.write -> Statuses]
          /\ [fd \in c.except |-> WriteStatus(WriteEvents(p, fd))] \in [c.except -> Statuses]
      BY StatusRange
    <3> QED
      BY <1>1, <1>3, <2>1, <3>1, SelectAnswer
  <2>2. CASE \E read \in [c.read -> Statuses], write \in [c.write -> Statuses \ {"ready"}],
                except \in [c.except -> Statuses \ {"ready"}] :
               Return(p, SelectArray(-1, read, write, except))
    <3>1. PICK read \in [c.read -> Statuses], write \in [c.write -> Statuses \ {"ready"}],
               except \in [c.except -> Statuses \ {"ready"}] :
                 Return(p, SelectArray(-1, read, write, except))
      BY <2>2
    <3>2. write \in [c.write -> Statuses] /\ except \in [c.except -> Statuses] /\ -1 \in Int
      OBVIOUS
    <3> QED
      BY <1>1, <3>1, <3>2, SelectAnswer
  <2> QED
    BY <2>1, <2>2 DEF fd_select
<1>5. UNCHANGED call
  BY DEF fd_select
<1> QED
  BY <1>2, <1>4, <1>5, ReturnStep DEF IInv

LEMMA InterruptStep ==
  ASSUME IInv, NEW p \in Proc, Interrupt(p)
  PROVE  GoodStep /\ CallsOK'
<1> DEFINE c == call[p]
           e == EndOf(p, c.fd)
<1>1. GoodStep
  BY QuietStep DEF Interrupt, posixVars, IInv, PosixTypeOK
<1>2. Failed("EINTR").n \in Results
  BY DEF Failed, Results
<1>3. PICK v \in Answers : Return(p, v)
  <2>1. CASE InCall(p, "read") /\ Return(p, PhpRead(Failed("EINTR")))
    BY <1>2, <2>1, PhpReadAnswer
  <2>2. CASE /\ InCall(p, "write")
             /\ Return(p, PhpWrite(IF c.done > 0 THEN Done(c.done) ELSE Failed("EINTR")))
    <3>1. c.done \in Nat
      BY <2>2, CallTypes DEF InCall, IInv
    <3>2. (IF c.done > 0 THEN Done(c.done) ELSE Failed("EINTR")).n \in Results
      BY <1>2, <3>1 DEF Done, Results
    <3> QED
      BY <2>2, <3>2, PhpWriteAnswer
  <2>3. CASE Return(p, PhpControlWrite(ancil_send_fd(Failed("EINTR"))))
    BY <2>3, ScalarAnswers DEF PhpControlWrite
  <2>4. CASE Return(p, PhpControlRead(ancil_recv_fd(Failed("EINTR"), -1)))
    BY <1>2, <2>4, PhpControlReadAnswer, -1 \in Int
  <2> QED
    BY <2>1, <2>2, <2>3, <2>4 DEF Interrupt
<1>4. UNCHANGED call
  BY DEF Interrupt
<1> QED
  BY <1>1, <1>3, <1>4, ReturnStep DEF IInv

\* A descriptor that is free after the step was refers to nothing new.
LEMMA fd_closeStep ==
  ASSUME IInv, NEW p \in Proc, fd_close(p)
  PROVE  GoodStep /\ CallsOK'
<1>1. PICK c \in Workload :
        \/ /\ Answer(p, Long(-1))
           /\ UNCHANGED <<table, buf>>
        \/ /\ EndOf(p, c.fd) # None
           /\ Answer(p, Long(0))
           /\ Closed(p, c.fd)
  BY DEF fd_close
<1>2. p \in alive /\ UNCHANGED <<alive, created, nonblock>>
  BY DEF fd_close, CanCall
<1>3. CallsOK'
  <2>1. Long(-1) \in Answers /\ Long(0) \in Answers
    BY ScalarAnswers
  <2> QED
    BY <1>1, <2>1, AnswerStep DEF Answer, Return, IInv
<1>4. CASE UNCHANGED <<table, buf>>
  BY <1>2, <1>3, <1>4, QuietStep DEF IInv, PosixTypeOK
<1>5. CASE EndOf(p, c.fd) # None /\ Closed(p, c.fd)
  <2>1. c.fd \in FdNum
    BY <1>5, EndOfType DEF IInv
  <2>2. table' = [table EXCEPT ![p][c.fd] = None] /\ buf' = Purge(table', buf)
    BY <1>5 DEF Closed
  <2>3. table' \in [Proc -> [FdNum -> Ends \cup {None}]]
    BY <2>1, <2>2 DEF IInv, PosixTypeOK
  <2>4. \A q \in Proc, f \in FdNum :
          table'[q][f] = IF q = p /\ f = c.fd THEN None ELSE table[q][f]
    BY <2>1, <2>2 DEF IInv, PosixTypeOK
  <2>5. \A x \in Ends : Held(table', x) => Held(table, x)
    BY <2>4, EndFacts DEF Held
  <2>6. alive' \subseteq alive /\ \A q \in Proc \ alive' : \A f \in FdNum : table'[q][f] = None
    BY <1>2, <2>4 DEF IInv, Resources, DeadHoldNothing
  <2>7. GoodStep
    BY <1>2, <2>2, <2>3, <2>5, <2>6, ReleasingStep DEF IInv
  <2> QED
    BY <1>3, <2>7
<1> QED
  BY <1>1, <1>4, <1>5

LEMMA fd_dup2Step ==
  ASSUME IInv, NEW p \in Proc, fd_dup2(p)
  PROVE  GoodStep /\ CallsOK'
<1>1. PICK c \in Workload :
        \/ /\ Answer(p, Long(-1))
           /\ UNCHANGED <<table, buf>>
        \/ /\ EndOf(p, c.fd) # None
           /\ c.new \in FdNum
           /\ Answer(p, Long(c.new))
           /\ table' = [table EXCEPT ![p][c.new] = EndOf(p, c.fd)]
           /\ buf' = Purge(table', buf)
  BY DEF fd_dup2
<1>2. p \in alive /\ UNCHANGED <<alive, created, nonblock>>
  BY DEF fd_dup2, CanCall
<1>3. CallsOK'
  <2>1. Long(-1) \in Answers /\ \A n \in FdNum : Long(n) \in Answers
    BY ScalarAnswers, PosixAssumption DEF FdNum
  <2> QED
    BY <1>1, <2>1, AnswerStep DEF Answer, Return, IInv
<1>4. CASE UNCHANGED <<table, buf>>
  BY <1>2, <1>3, <1>4, QuietStep DEF IInv, PosixTypeOK
<1>5. CASE /\ EndOf(p, c.fd) # None
           /\ c.new \in FdNum
           /\ table' = [table EXCEPT ![p][c.new] = EndOf(p, c.fd)]
           /\ buf' = Purge(table', buf)
  <2>1. /\ EndOf(p, c.fd) \in Ends
        /\ c.fd \in FdNum
        /\ table[p][c.fd] = EndOf(p, c.fd)
    BY <1>5, EndOfType DEF IInv
  <2>2. table' \in [Proc -> [FdNum -> Ends \cup {None}]]
    BY <1>5, <2>1 DEF IInv, PosixTypeOK
  <2>3. \A q \in Proc, f \in FdNum :
          table'[q][f] = IF q = p /\ f = c.new THEN EndOf(p, c.fd) ELSE table[q][f]
    BY <1>5, <2>1 DEF IInv, PosixTypeOK
  <2>4. \A x \in Ends : Held(table', x) => Held(table, x)
    BY <2>1, <2>3 DEF Held
  <2>5. alive' \subseteq alive /\ \A q \in Proc \ alive' : \A f \in FdNum : table'[q][f] = None
    BY <1>2, <2>3 DEF IInv, Resources, DeadHoldNothing
  <2>6. GoodStep
    BY <1>2, <1>5, <2>2, <2>4, <2>5, ReleasingStep DEF IInv
  <2> QED
    BY <1>3, <2>6
<1> QED
  BY <1>1, <1>4, <1>5

LEMMA CreateChannelStep ==
  ASSUME IInv, NEW p \in alive, NEW S \in SUBSET Chan, CreateChannel(p, S)
  PROVE  GoodStep /\ CallsOK'
<1>1. p \in Proc
  BY DEF IInv, PosixTypeOK
<1>2. CASE Answer(p, False) /\ UNCHANGED posixVars
  <2>1. GoodStep
    BY <1>2, QuietStep DEF posixVars, IInv, PosixTypeOK
  <2> QED
    BY <1>1, <1>2, <2>1, ScalarAnswers, AnswerStep DEF Answer, Return, IInv
<1>3. ASSUME NEW r \in FdNum, NEW w \in FdNum, Allocated(p, S, r, w),
             Answer(p, [kind |-> "pipe", read |-> r, write |-> w])
      PROVE  GoodStep /\ CallsOK'
  <2>1. GoodStep
    BY <1>3, CreatingStep DEF IInv
  <2>2. [kind |-> "pipe", read |-> r, write |-> w] \in Answers
    <3>1. r \in Int /\ w \in Int
      BY PosixAssumption DEF FdNum
    <3> QED
      BY <3>1 DEF Answers, PipeResults
  <2> QED
    BY <1>1, <1>3, <2>1, <2>2, AnswerStep DEF Answer, Return, IInv
<1> QED
  BY <1>2, <1>3 DEF CreateChannel

LEMMA CreationStep ==
  ASSUME IInv, NEW p \in Proc, fd_pipe(p) \/ omni_pipe(p) \/ fd_control_pipe(p)
  PROVE  GoodStep /\ CallsOK'
<1>1. p \in alive /\ Pipes \in SUBSET Chan /\ Controls \in SUBSET Chan
  BY DEF fd_pipe, omni_pipe, fd_control_pipe, Calls, CanCall, Chan
<1> QED
  BY <1>1, CreateChannelStep DEF fd_pipe, omni_pipe, fd_control_pipe

LEMMA fd_set_blockingStep ==
  ASSUME IInv, NEW p \in Proc, fd_set_blocking(p)
  PROVE  GoodStep /\ CallsOK'
<1>1. PICK c \in Workload, blocking \in BOOLEAN :
        nonblock' = IF blocking
                    THEN nonblock \ {EndOf(p, c.fd)}
                    ELSE nonblock \cup ({EndOf(p, c.fd)} \ {None})
  BY DEF fd_set_blocking
<1>2. EndOf(p, c.fd) \in Ends \cup {None}
  BY EndOfType DEF IInv
<1>3. GoodStep
  BY <1>1, <1>2, QuietStep DEF fd_set_blocking, IInv, PosixTypeOK
<1> QED
  BY <1>3, ScalarAnswers, AnswerStep DEF fd_set_blocking, Answer, Return, IInv

LEMMA ForkStep ==
  ASSUME IInv, NEW p \in Proc, Fork(p)
  PROVE  GoodStep /\ CallsOK'
<1>1. PICK q \in Proc \ alive :
        /\ Forked(p, q)
        /\ call' = [call EXCEPT ![q] = Idle]
        /\ ret' = [ret EXCEPT ![q] = Nothing]
  BY DEF Fork
<1>2. GoodStep
  BY <1>1, ForkingStep DEF IInv
<1> QED
  BY <1>1, <1>2, ScalarAnswers, AnswerStep DEF IInv

LEMMA ExitStep ==
  ASSUME IInv, NEW p \in Proc, Exit(p)
  PROVE  GoodStep /\ CallsOK'
<1>1. /\ alive' = alive \ {p}
      /\ table' = [table EXCEPT ![p] = [fd \in FdNum |-> None]]
      /\ buf' = Purge(table', buf)
      /\ UNCHANGED <<created, nonblock>>
  BY DEF Exit, Exited
<1>2. table' \in [Proc -> [FdNum -> Ends \cup {None}]]
  BY <1>1 DEF IInv, PosixTypeOK
<1>3. \A q \in Proc, f \in FdNum : table'[q][f] = IF q = p THEN None ELSE table[q][f]
  BY <1>1 DEF IInv, PosixTypeOK
<1>4. \A x \in Ends : Held(table', x) => Held(table, x)
  BY <1>3, EndFacts DEF Held
<1>5. alive' \subseteq alive /\ \A q \in Proc \ alive' : \A f \in FdNum : table'[q][f] = None
  BY <1>1, <1>3 DEF IInv, Resources, DeadHoldNothing
<1>6. GoodStep
  BY <1>1, <1>2, <1>4, <1>5, ReleasingStep DEF IInv
<1> QED
  BY <1>6, ScalarAnswers, AnswerStep DEF Exit, IInv

-----------------------------------------------------------------------------
(* What a step of one process leaves alone.                                *)

\* A process that is not the one that moves is untouched, or is a child that
\* has made no call yet.
Untouched(q) ==
  /\ table'[q] = table[q]
  /\ call'[q] = call[q]
  /\ ret'[q] = ret[q]
  /\ q \in alive' <=> q \in alive

OthersUntouched(p) ==
  \A q \in Proc \ {p} :
    Untouched(q) \/ (q \notin alive /\ ret'[q] = Nothing /\ call'[q] = Idle)

\* The process that moves keeps its table while its call is pending.
PendingKeepsTable(p) ==
  ret'[p] = Pending =>
    /\ table'[p] = table[p]
    /\ \/ UsesAsNamed(p, call'[p])
       \/ /\ p \in alive
          /\ ret[p] = Pending
          /\ call[p].op = "write"
          /\ call'[p].op = "write"
          /\ call'[p].fd = call[p].fd

\* A call that returns, or was answered at once.
LEMMA LocalAnswer ==
  ASSUME IInv, NEW p \in Proc, NEW v, v # Pending, Return(p, v),
         call' = call \/ call' = [call EXCEPT ![p] = Idle],
         \A q \in Proc \ {p} : table'[q] = table[q],
         UNCHANGED alive
  PROVE  OthersUntouched(p) /\ PendingKeepsTable(p)
<1>1. call \in [Proc -> SleepingCalls \cup {Idle}] /\ ret \in [Proc -> Answers]
  BY DEF IInv, CallsOK
<1>2. ret'[p] = v /\ \A q \in Proc \ {p} : ret'[q] = ret[q] /\ call'[q] = call[q]
  BY <1>1 DEF Return
<1> QED
  BY <1>2 DEF OthersUntouched, Untouched, PendingKeepsTable

LEMMA AnswersAreNotPending ==
  /\ \A r : PhpRead(r) # Pending
  /\ \A r : PhpWrite(r) # Pending
  /\ \A n : PhpControlWrite(n) # Pending
  /\ \A r : PhpControlRead(r) # Pending
  /\ \A n : Long(n) # Pending
  /\ False # Pending /\ Null # Pending /\ Nothing # Pending
BY DEF PhpRead, PhpWrite, PhpControlWrite, PhpControlRead, Long, Value, True, False, Null,
       Nothing, Pending

LEMMA Locality ==
  ASSUME IInv, NEW p \in Proc, Invoke(p) \/ Proceed(p) \/ Interrupt(p) \/ fd_close(p)
           \/ fd_dup2(p) \/ fd_pipe(p) \/ omni_pipe(p) \/ fd_control_pipe(p)
           \/ fd_set_blocking(p) \/ Fork(p) \/ Exit(p)
  PROVE  OthersUntouched(p) /\ PendingKeepsTable(p)
<1>0. /\ table \in [Proc -> [FdNum -> Ends \cup {None}]]
      /\ call \in [Proc -> SleepingCalls \cup {Idle}]
      /\ ret \in [Proc -> Answers]
  BY DEF IInv, PosixTypeOK, CallsOK
<1>1. CASE Invoke(p)
  <2>1. PICK c \in Workload : UsesAsNamed(p, c) /\ call' = [call EXCEPT ![p] = c]
    BY <1>1 DEF Invoke
  <2>2. UNCHANGED posixVars /\ Return(p, Pending)
    BY <1>1 DEF Invoke
  <2>3. call'[p] = c /\ \A q \in Proc \ {p} : ret'[q] = ret[q] /\ call'[q] = call[q]
    BY <1>0, <2>1, <2>2 DEF Return
  <2> QED
    BY <2>1, <2>2, <2>3 DEF posixVars, OthersUntouched, Untouched, PendingKeepsTable
<1>2. CASE fd_read(p)
  BY <1>2, LocalAnswer, AnswersAreNotPending DEF fd_read
<1>3. CASE fd_write(p)
  BY <1>3, LocalAnswer, AnswersAreNotPending DEF fd_write
<1>4. CASE WriteProgress(p)
  <2>1. \A q \in Proc \ {p} : call'[q] = call[q]
    BY <1>0, <1>4 DEF WriteProgress
  <2>2. p \in alive /\ ret[p] = Pending /\ call[p].op = "write"
    BY <1>4 DEF WriteProgress, InCall
  <2>3. call[p] \in [op : {"write"}, fd : FdArg, len : Nat, done : Nat]
    BY <1>0, <2>2 DEF SleepingCalls, Idle
  <2>4. call'[p].op = "write" /\ call'[p].fd = call[p].fd
    BY <1>0, <1>4, <2>3 DEF WriteProgress
  <2> QED
    BY <1>4, <2>1, <2>2, <2>4 DEF WriteProgress, OthersUntouched, Untouched, PendingKeepsTable
<1>5. CASE fd_control_writefd(p)
  BY <1>5, LocalAnswer, AnswersAreNotPending DEF fd_control_writefd
<1>6. CASE fd_control_readfd(p)
  <2>1. PICK v : v # Pending /\ Return(p, v)
    BY <1>6, AnswersAreNotPending DEF fd_control_readfd
  <2>2. \A q \in Proc \ {p} : table'[q] = table[q]
    BY <1>0, <1>6 DEF fd_control_readfd
  <2> QED
    BY <1>6, <2>1, <2>2, LocalAnswer DEF fd_control_readfd
<1>7. CASE fd_select(p)
  <2>1. PICK v : v # Pending /\ Return(p, v)
    BY <1>7 DEF fd_select, SelectArray, Pending, Value
  <2> QED
    BY <1>7, <2>1, LocalAnswer DEF fd_select, posixVars
<1>8. CASE Interrupt(p)
  <2>1. PICK v : v # Pending /\ Return(p, v)
    BY <1>8, AnswersAreNotPending DEF Interrupt
  <2> QED
    BY <1>8, <2>1, LocalAnswer DEF Interrupt, posixVars
<1>9. CASE fd_close(p)
  <2>1. PICK n : Return(p, Long(n)) /\ call' = [call EXCEPT ![p] = Idle]
    BY <1>9 DEF fd_close, Answer
  <2>2. \A q \in Proc \ {p} : table'[q] = table[q]
    BY <1>0, <1>9 DEF fd_close, Closed
  <2> QED
    BY <1>9, <2>1, <2>2, LocalAnswer, AnswersAreNotPending DEF fd_close
<1>10. CASE fd_dup2(p)
  <2>1. PICK n : Return(p, Long(n)) /\ call' = [call EXCEPT ![p] = Idle]
    BY <1>10 DEF fd_dup2, Answer
  <2>2. \A q \in Proc \ {p} : table'[q] = table[q]
    BY <1>0, <1>10 DEF fd_dup2
  <2> QED
    BY <1>10, <2>1, <2>2, LocalAnswer, AnswersAreNotPending DEF fd_dup2
<1>11. CASE fd_pipe(p) \/ omni_pipe(p) \/ fd_control_pipe(p)
  <2>1. PICK S : CreateChannel(p, S)
    BY <1>11 DEF fd_pipe, omni_pipe, fd_control_pipe
  <2>2. PICK v : v # Pending /\ Answer(p, v)
    BY <2>1, AnswersAreNotPending DEF CreateChannel, Pending, Value
  <2>3. UNCHANGED alive /\ \A q \in Proc \ {p} : table'[q] = table[q]
    BY <1>0, <2>1 DEF CreateChannel, Allocated, posixVars
  <2> QED
    BY <2>2, <2>3, LocalAnswer DEF Answer
<1>12. CASE fd_set_blocking(p)
  BY <1>12, LocalAnswer, AnswersAreNotPending DEF fd_set_blocking, Answer
<1>13. CASE Fork(p)
  <2>1. PICK c \in Proc \ alive :
          Forked(p, c) /\ call' = [call EXCEPT ![c] = Idle] /\ ret' = [ret EXCEPT ![c] = Nothing]
    BY <1>13 DEF Fork
  <2>2. p \in alive /\ ret[p] # Pending
    BY <1>13 DEF Fork, CanCall
  <2>3. \A q \in Proc \ {c} : Untouched(q)
    BY <1>0, <2>1 DEF Untouched, Forked
  <2>4. c \notin alive /\ ret'[c] = Nothing /\ call'[c] = Idle /\ p # c /\ ret'[p] = ret[p]
    BY <1>0, <2>1, <2>2
  <2> QED
    BY <2>2, <2>3, <2>4 DEF OthersUntouched, PendingKeepsTable
<1>14. CASE Exit(p)
  <2>1. \A q \in Proc \ {p} : Untouched(q)
    BY <1>0, <1>14 DEF Exit, Exited, Untouched
  <2>2. ret'[p] = Nothing
    BY <1>0, <1>14 DEF Exit
  <2> QED
    BY <2>1, <2>2, AnswersAreNotPending DEF OthersUntouched, PendingKeepsTable
<1> QED
  BY <1>1, <1>2, <1>3, <1>4, <1>5, <1>6, <1>7, <1>8, <1>9, <1>10, <1>11, <1>12, <1>13, <1>14
  DEF Proceed

LEMMA NamedStep ==
  ASSUME IInv, PosixTypeOK', NEW p \in Proc, OthersUntouched(p), PendingKeepsTable(p)
  PROVE  CallsAsNamed'
<1> SUFFICES ASSUME NEW q \in alive', ret'[q] = Pending
             PROVE  UsesAsNamed(q, call[q])'
  BY DEF CallsAsNamed
<1>1. q \in Proc
  BY DEF PosixTypeOK
<1>2. CASE q # p
  <2>1. Untouched(q)
    BY <1>1, <1>2, AnswersAreNotPending DEF OthersUntouched
  <2>2. UsesAsNamed(q, call[q])
    BY <2>1 DEF Untouched, IInv, CallsAsNamed
  <2> QED
    BY <2>1, <2>2 DEF Untouched, UsesAsNamed, EndOf
<1>3. CASE q = p
  <2>1. table'[p] = table[p]
    BY <1>3 DEF PendingKeepsTable
  <2>2. CASE UsesAsNamed(p, call'[p])
    BY <1>3, <2>1, <2>2 DEF UsesAsNamed, EndOf
  <2>3. CASE /\ p \in alive
             /\ ret[p] = Pending
             /\ call[p].op = "write"
             /\ call'[p].op = "write"
             /\ call'[p].fd = call[p].fd
    <3>1. UsesAsNamed(p, call[p])
      BY <2>3 DEF IInv, CallsAsNamed
    <3> QED
      BY <1>3, <2>1, <2>3, <3>1 DEF UsesAsNamed, EndOf
  <2> QED
    BY <1>3, <2>2, <2>3 DEF PendingKeepsTable
<1> QED
  BY <1>2, <1>3

-----------------------------------------------------------------------------
(* The theorems.                                                           *)

LEMMA Initially == Init => IInv
<1> SUFFICES ASSUME Init
             PROVE  IInv
  OBVIOUS
<1>1. PosixTypeOK
  <2>1. [c \in Chan |-> <<>>] \in Buffers
    BY DEF Buffers
  <2> QED
    BY <2>1, PosixAssumption DEF Init, PosixInit, PosixTypeOK
<1>2. \A e \in Ends : ~Live(e)
  BY EndFacts DEF Init, PosixInit, Live, Held, InFlight, Chan
<1>3. Resources
  BY <1>2, PosixAssumption
  DEF Init, PosixInit, Resources, OnlyCreated, ReadersLeft, DeadHoldNothing, WithinCapacity
<1>4. CallsOK
  <2>1. Idle.op # "write"
    BY DEF Idle
  <2> QED
    BY <2>1, ScalarAnswers DEF Init, CallsOK, WritesNotOverrun
<1>5. CallsAsNamed
  BY <1>1, AnswersAreNotPending DEF Init, CallsAsNamed, PosixTypeOK
<1> QED
  BY <1>1, <1>3, <1>4, <1>5 DEF IInv

\* Every step keeps the invariant, reopens nothing, and is a step of the
\* channels; a process is disturbed by its own steps alone.
LEMMA EveryStep ==
  ASSUME IInv, [Next]_vars
  PROVE  /\ IInv'
         /\ NothingReopens
         /\ [Contract!Next]_(Contract!vars)
         /\ UNCHANGED vars \/ \E p \in Proc : OthersUntouched(p) /\ PendingKeepsTable(p)
<1>1. CASE UNCHANGED vars
  <2>1. IInv'
    BY <1>1 DEF vars, IInv, PosixTypeOK, Resources, OnlyCreated, ReadersLeft, DeadHoldNothing,
      WithinCapacity, CallsOK, WritesNotOverrun, CallsAsNamed, UsesAsNamed, EndOf, Live
  <2>2. NothingReopens
    BY <1>1 DEF vars, NothingReopens, Live
  <2>3. UNCHANGED Contract!vars
    BY <1>1 DEF vars, Contract!vars, Live
  <2> QED
    BY <1>1, <2>1, <2>2, <2>3
<1>2. ASSUME NEW p \in Proc,
             Invoke(p) \/ Proceed(p) \/ Interrupt(p) \/ fd_close(p)
               \/ fd_dup2(p) \/ fd_pipe(p) \/ omni_pipe(p) \/ fd_control_pipe(p)
               \/ fd_set_blocking(p) \/ Fork(p) \/ Exit(p)
      PROVE  /\ GoodStep /\ CallsOK' /\ CallsAsNamed'
             /\ OthersUntouched(p) /\ PendingKeepsTable(p)
  <2>1. GoodStep /\ CallsOK'
    BY <1>2, InvokeStep, fd_readStep, fd_writeStep, WriteProgressStep, fd_control_writefdStep,
       fd_control_readfdStep, fd_selectStep, InterruptStep, fd_closeStep, fd_dup2Step,
       CreationStep, fd_set_blockingStep, ForkStep, ExitStep
    DEF Proceed
  <2>2. OthersUntouched(p) /\ PendingKeepsTable(p)
    BY <1>2, Locality
  <2>3. CallsAsNamed'
    BY <2>1, <2>2, NamedStep DEF GoodStep
  <2> QED
    BY <2>1, <2>2, <2>3
<1>3. CASE Next
  <2>1. PICK p \in Proc :
             Invoke(p) \/ Proceed(p) \/ Interrupt(p) \/ fd_close(p)
               \/ fd_dup2(p) \/ fd_pipe(p) \/ omni_pipe(p) \/ fd_control_pipe(p)
               \/ fd_set_blocking(p) \/ Fork(p) \/ Exit(p)
    BY <1>3 DEF Next
  <2> QED
    BY <1>2, <2>1 DEF GoodStep, IInv
<1> QED
  BY <1>1, <1>3

THEOREM Invariance == Spec => []IInv
<1>1. IInv /\ [Next]_vars => IInv'
  BY EveryStep
<1> QED
  BY <1>1, Initially, PTL DEF Spec

\* The types of module Fd hold in every state, whatever the processes, the
\* channels, the size of the tables and what the scripts call.
THEOREM TypeCorrect == Spec => []TypeOK
<1>1. IInv => TypeOK
  BY IInvMeaning
<1> QED
  BY <1>1, Invariance, PTL

\* Tables, channels and calls agree in every state.
THEOREM AlwaysConsistent == Spec => []Consistent
<1>1. IInv => Consistent
  BY IInvMeaning
<1> QED
  BY <1>1, Invariance, PTL

\* A pipe end that nothing refers to never opens again.
THEOREM NoEndReopens == Spec => ClosedStaysClosed
<1>1. IInv /\ [Next]_vars => [\A e \in Ends : e[1] \in created /\ ~Live(e) => ~Live(e)']_vars
  BY EveryStep DEF NothingReopens
<1> QED
  BY <1>1, Invariance, PTL DEF Spec, ClosedStaysClosed

\* The functions of fd.c implement the contract of module Channels.
THEOREM ContractKept == Spec => ChannelsKeepContract
<1>1. Init => Contract!Init
  BY EndFacts DEF Init, PosixInit, Contract!Init, Live, Held, InFlight, Chan, Ends
<1>2. IInv /\ [Next]_vars => [Contract!Next]_(Contract!vars)
  BY EveryStep
<1> QED
  BY <1>1, <1>2, Invariance, PTL DEF Spec, ChannelsKeepContract, Contract!Spec

-----------------------------------------------------------------------------
(* What NULL means, for as long as it can be acted on.                     *)

Step(p) ==
  Invoke(p) \/ Proceed(p) \/ Interrupt(p) \/ fd_close(p) \/ fd_dup2(p) \/ fd_pipe(p)
    \/ omni_pipe(p) \/ fd_control_pipe(p) \/ fd_set_blocking(p) \/ Fork(p) \/ Exit(p)

\* A process comes to hold NULL from a read or a write only by fd_read, which
\* found the end of the pipe, or by fd_write, which found no reader.
LEMMA NullAnswers ==
  ASSUME IInv, NEW p \in Proc, Step(p), ret'[p] = Null, call'[p].op \in {"read", "write"}
  PROVE  Untouched(p) \/ fd_read(p) \/ fd_write(p)
<1>0. /\ call \in [Proc -> SleepingCalls \cup {Idle}]
      /\ ret \in [Proc -> Answers]
      /\ Idle.op = "none"
      /\ alive \subseteq Proc
      /\ table \in [Proc -> [FdNum -> Ends \cup {None}]]
  BY DEF IInv, CallsOK, Idle, PosixTypeOK
<1>1. ~Invoke(p)
  BY <1>0, AnswersAreNotPending DEF Invoke, Return
<1>2. ~WriteProgress(p)
  BY <1>0, AnswersAreNotPending DEF WriteProgress, InCall
<1>3. ~fd_control_writefd(p) /\ ~fd_control_readfd(p) /\ ~fd_select(p)
  BY DEF fd_control_writefd, fd_control_readfd, fd_select, InCall
<1>4. ~Interrupt(p)
  <2>1. PhpRead(Failed("EINTR")) # Null /\ PhpWrite(Failed("EINTR")) # Null
    BY DEF PhpRead, PhpWrite, Failed, True, False, Null, Value
  <2>2. \A n \in Nat : PhpWrite(Done(n)) # Null
    BY DEF PhpWrite, Done, Long, Null, Value
  <2>3. call[p].op = "write" => call[p].done \in Nat
    BY CallTypes DEF IInv
  <2>4. Interrupt(p) => call' = call
    BY DEF Interrupt
  <2>5. ~(InCall(p, "read") /\ Return(p, PhpRead(Failed("EINTR"))))
    BY <1>0, <2>1 DEF Return
  <2>6. ~(/\ InCall(p, "write")
          /\ Return(p, PhpWrite(IF call[p].done > 0 THEN Done(call[p].done) ELSE Failed("EINTR"))))
    BY <1>0, <2>1, <2>2, <2>3 DEF Return, InCall
  <2> QED
    BY <2>4, <2>5, <2>6 DEF Interrupt, InCall
<1>5. ~fd_close(p) /\ ~fd_dup2(p) /\ ~fd_set_blocking(p)
  BY <1>0 DEF fd_close, fd_dup2, fd_set_blocking, Answer
<1>6. ~fd_pipe(p) /\ ~omni_pipe(p) /\ ~fd_control_pipe(p)
  BY <1>0 DEF fd_pipe, omni_pipe, fd_control_pipe, CreateChannel, Answer
<1>7. ~Exit(p)
  BY <1>0 DEF Exit
<1>8. Fork(p) => Untouched(p)
  <2> SUFFICES ASSUME Fork(p)
               PROVE  Untouched(p)
    OBVIOUS
  <2>1. PICK c \in Proc \ alive :
          Forked(p, c) /\ call' = [call EXCEPT ![c] = Idle] /\ ret' = [ret EXCEPT ![c] = Nothing]
    BY DEF Fork
  <2>2. p \in alive
    BY DEF Fork, CanCall
  <2> QED
    BY <1>0, <2>1, <2>2 DEF Forked, Untouched
<1> QED
  BY <1>1, <1>2, <1>3, <1>4, <1>5, <1>6, <1>7, <1>8 DEF Step, Proceed

LEMMA PeerFacts ==
  ASSUME NEW e \in Ends
  PROVE  /\ Peer(e) \in Ends /\ Peer(e)[1] = e[1]
         /\ Live(e) /\ Live(Peer(e)) <=> Sides(e[1]) = {"read", "write"}
<1>1. PICK c \in Chan, side \in {"read", "write"} : e = <<c, side>>
  BY DEF Ends
<1>2. Peer(e) = <<c, IF side = "read" THEN "write" ELSE "read">>
  BY <1>1 DEF Peer, ReadEnds, ReadEnd, WriteEnd
<1> QED
  BY <1>1, <1>2 DEF Ends, Sides

\* A descriptor whose other side has gone stays so, and what was not in its
\* channel then does not come.
LEMMA OrphansStay ==
  ASSUME IInv, NothingReopens, [Contract!Next]_(Contract!vars),
         NEW p \in Proc, NEW fd, Orphaned(p, fd), table'[p] = table[p]
  PROVE  /\ Orphaned(p, fd)'
         /\ buf[EndOf(p, fd)[1]] = <<>> => buf'[EndOf(p, fd)'[1]] = <<>>
<1> DEFINE e == EndOf(p, fd)
           c == e[1]
<1>1. EndOf(p, fd)' = e
  BY DEF EndOf
<1>2. e \in Ends /\ c \in Chan /\ ~Live(Peer(e)) /\ Peer(e) \in Ends /\ Peer(e)[1] = c
  BY PeerFacts, EndFacts DEF Orphaned
<1>3. Live(e) /\ c \in created
  <2>1. Held(table, e)
    BY <1>2, EndOfType, EndFacts DEF IInv, Held
  <2> QED
    BY <1>2, <2>1 DEF IInv, Resources, OnlyCreated, Live
<1>4. PICK peer \in Ends : peer = Peer(e) /\ peer[1] = c
  BY <1>2
<1>5. Orphaned(p, fd)'
  <2>1. ~Live(peer)'
    BY <1>2, <1>3, <1>4 DEF NothingReopens
  <2>2. Peer(EndOf(p, fd))' = peer
    BY <1>1, <1>4 DEF Peer
  <2> QED
    BY <1>1, <1>2, <2>1, <2>2 DEF Orphaned
<1>6. ASSUME buf[c] = <<>>
      PROVE  buf'[c] = <<>>
  <2>1. CASE UNCHANGED Contract!vars
    BY <1>6, <2>1 DEF Contract!vars
  <2>2. CASE Contract!Next
    <3>1. Sides(c) # {"read", "write"}
      BY <1>2, PeerFacts
    <3>2. ~Contract!Create(c) /\ ~Contract!Put(c)
      BY <1>2, <1>3, <3>1 DEF Contract!Create, Contract!Put, Sides
    <3>3. ~Contract!Get(c)
      BY <1>6 DEF Contract!Get
    <3>4. Contract!Close(c) \/ Contract!Rest(c)
      BY <1>2, <2>2, <3>2, <3>3 DEF Contract!Next
    <3> QED
      BY <1>6, <3>4 DEF Contract!Close, Contract!Rest
  <2> QED
    BY <2>1, <2>2
<1> QED
  BY <1>1, <1>5, <1>6

LEMMA EofStep ==
  ASSUME IInv, EofIsFinal, [Next]_vars
  PROVE  EofIsFinal'
<1>1. IInv' /\ NothingReopens /\ [Contract!Next]_(Contract!vars)
  BY EveryStep
<1> SUFFICES ASSUME NEW q \in Proc, Answered(q, "read")', ret'[q] = Null, call'[q].len > 0
             PROVE  /\ Orphaned(q, call[q].fd)'
                    /\ buf'[EndOf(q, call[q].fd)'[1]] = <<>>
  BY DEF EofIsFinal
<1>2. ASSUME Untouched(q)
      PROVE  /\ Orphaned(q, call[q].fd)'
             /\ buf'[EndOf(q, call[q].fd)'[1]] = <<>>
  <2>1. /\ Answered(q, "read") /\ ret[q] = Null /\ call[q].len > 0
        /\ table'[q] = table[q] /\ call'[q] = call[q]
    BY <1>2 DEF Untouched, Answered
  <2>2. Orphaned(q, call[q].fd) /\ buf[EndOf(q, call[q].fd)[1]] = <<>>
    BY <2>1 DEF EofIsFinal
  <2> DEFINE fd == call[q].fd
  <2>3. fd' = fd
    BY <2>1
  <2>4. Orphaned(q, fd) /\ buf[EndOf(q, fd)[1]] = <<>>
    BY <2>2
  <2> QED
    BY <1>1, <2>1, <2>3, <2>4, OrphansStay DEF Orphaned, EndOf
<1>3. ASSUME fd_read(q)
      PROVE  /\ Orphaned(q, call[q].fd)'
             /\ buf'[EndOf(q, call[q].fd)'[1]] = <<>>
  <2> DEFINE e == EndOf(q, call[q].fd)
             r == SysRead(e, call[q].len)
  <2>1. call'[q] = call[q] /\ call[q].len \in Nat
    BY <1>3, CallTypes DEF fd_read, InCall, IInv
  <2>2. e \in Ends \cup {None}
    BY EndOfType DEF IInv
  <2>3. ret'[q] = PhpRead(r)
    BY <1>3 DEF fd_read, Return, IInv, CallsOK
  <2>4. r.n \in Results /\ (r.n > 0 => e \in ReadEnds /\ r.n \in 1..Len(buf[e[1]]))
    BY <2>1, <2>2, SysReadResult DEF IInv
  <2>5. r.n = 0
    <3>1. ret'[q].kind = "null"
      BY DEF Null, Value
    <3> HIDE DEF r
    <3> QED
      BY <2>3, <2>4, <3>1 DEF PhpRead, True, False, Null, Value, Results
  <2>6. e \in ReadEnds /\ call[q].len # 0
    BY <2>1, <2>5 DEF SysRead, Failed
  <2>7. buf[e[1]] = <<>>
    <3> SUFFICES ASSUME buf[e[1]] # <<>>
                 PROVE  FALSE
      OBVIOUS
    <3>1. buf[e[1]] \in Seq(Item)
      BY <2>6, EndFacts DEF IInv, PosixTypeOK, Buffers
    <3>2. Taken(buf[e[1]], call[q].len) \in 1..Len(buf[e[1]])
      BY <2>1, <2>6, <3>1, TakenRange
    <3> QED
      BY <2>5, <2>6, <3>2 DEF SysRead, Done
  <2>8. ~Live(WriteEnd(e[1]))
    BY <2>5, <2>6, <2>7 DEF SysRead, Failed
  <2>9. UNCHANGED <<table, buf>>
    BY <1>3, <2>5 DEF fd_read
  <2>10. Orphaned(q, call[q].fd)
    BY <2>6, <2>8, EndFacts DEF Orphaned, Peer
  <2> QED
    BY <2>1, <2>7, <2>9, <2>10 DEF Orphaned, EndOf, Live
<1>4. ~fd_write(q)
  BY DEF fd_write, InCall, Answered
<1>5. CASE UNCHANGED vars
  BY <1>2, <1>5 DEF vars, Untouched
<1>6. CASE Next
  <2>1. PICK p \in Proc : Step(p)
    BY <1>6 DEF Next, Step
  <2>2. CASE q = p
    BY <1>2, <1>3, <1>4, <2>1, <2>2, NullAnswers DEF Answered
  <2>3. CASE q # p
    <3>1. OthersUntouched(p)
      BY <2>1, Locality DEF Step
    <3>2. Null # Nothing
      BY DEF Null, Nothing, Value
    <3> QED
      BY <1>2, <2>3, <3>1, <3>2 DEF OthersUntouched
  <2> QED
    BY <2>2, <2>3
<1> QED
  BY <1>5, <1>6

LEMMA BrokenPipeStep ==
  ASSUME IInv, BrokenPipeIsFinal, [Next]_vars
  PROVE  BrokenPipeIsFinal'
<1>1. IInv' /\ NothingReopens /\ [Contract!Next]_(Contract!vars)
  BY EveryStep
<1> SUFFICES ASSUME NEW q \in Proc, Answered(q, "write")', ret'[q] = Null
             PROVE  Orphaned(q, call[q].fd)'
  BY DEF BrokenPipeIsFinal
<1>2. ASSUME Untouched(q)
      PROVE  Orphaned(q, call[q].fd)'
  <2>1. /\ Answered(q, "write") /\ ret[q] = Null
        /\ table'[q] = table[q] /\ call'[q] = call[q]
    BY <1>2 DEF Untouched, Answered
  <2> DEFINE fd == call[q].fd
  <2>2. Orphaned(q, fd) /\ fd' = fd
    BY <2>1 DEF BrokenPipeIsFinal
  <2> QED
    BY <1>1, <2>1, <2>2, OrphansStay DEF Orphaned, EndOf
<1>3. ASSUME fd_write(q)
      PROVE  Orphaned(q, call[q].fd)'
  <2> DEFINE c == call[q]
             e == EndOf(q, c.fd)
             r == SysWrite(e, c.len, c.done)
  <2>1. call'[q] = c /\ c.len \in Nat /\ c.done \in 0..c.len
    BY <1>3, CallTypes DEF fd_write, InCall, IInv
  <2>2. e \in Ends \cup {None}
    BY EndOfType DEF IInv
  <2>3. ret'[q] = PhpWrite(r)
    BY <1>3 DEF fd_write, Return, IInv, CallsOK
  <2>4. r.n = -1 /\ r.errno = "EPIPE"
    <3> HIDE DEF r
    <3> QED
      BY <2>3 DEF PhpWrite, True, False, Null, Long, Value
  <2>5. e \in WriteEnds => Accepted(e, c.len, c.done) \in Nat
    <3>1. e \in WriteEnds => Accepted(e, c.len, c.done) \in 0..Room(e[1]) /\ Room(e[1]) \in Nat
      BY <2>1, AcceptedRange DEF IInv, Resources
    <3> QED
      BY <3>1
  <2>6. e \in WriteEnds /\ ~Live(ReadEnd(e[1]))
    BY <2>1, <2>4, <2>5 DEF SysWrite, Failed, Done
  <2>7. UNCHANGED <<table, buf>>
    BY <1>3, <2>4 DEF fd_write
  <2>8. Orphaned(q, call[q].fd)
    <3>1. e \in Ends /\ e \notin ReadEnds
      BY <2>6, EndFacts DEF ReadEnds, WriteEnds
    <3> QED
      BY <2>6, <3>1 DEF Orphaned, Peer
  <2> QED
    BY <2>1, <2>7, <2>8 DEF Orphaned, EndOf, Live
<1>4. ~fd_read(q)
  BY DEF fd_read, InCall, Answered
<1>5. CASE UNCHANGED vars
  BY <1>2, <1>5 DEF vars, Untouched
<1>6. CASE Next
  <2>1. PICK p \in Proc : Step(p)
    BY <1>6 DEF Next, Step
  <2>2. CASE q = p
    BY <1>2, <1>3, <1>4, <2>1, <2>2, NullAnswers DEF Answered
  <2>3. CASE q # p
    <3>1. OthersUntouched(p)
      BY <2>1, Locality DEF Step
    <3>2. Null # Nothing
      BY DEF Null, Nothing, Value
    <3> QED
      BY <1>2, <2>3, <3>1, <3>2 DEF OthersUntouched
  <2> QED
    BY <2>2, <2>3
<1> QED
  BY <1>5, <1>6

\* NULL from fd_read of at least one byte is the end of the file, for good.
THEOREM EofFinal == Spec => []EofIsFinal
<1>1. Init => EofIsFinal
  BY DEF Init, EofIsFinal, Nothing, Null, Value
<1>2. IInv /\ EofIsFinal /\ [Next]_vars => EofIsFinal'
  BY EofStep
<1> QED
  BY <1>1, <1>2, Invariance, PTL DEF Spec

\* NULL from fd_write means that no reader is left, for good.
THEOREM BrokenPipeFinal == Spec => []BrokenPipeIsFinal
<1>1. Init => BrokenPipeIsFinal
  BY DEF Init, BrokenPipeIsFinal, Nothing, Null, Value
<1>2. IInv /\ BrokenPipeIsFinal /\ [Next]_vars => BrokenPipeIsFinal'
  BY BrokenPipeStep
<1> QED
  BY <1>1, <1>2, Invariance, PTL DEF Spec

-----------------------------------------------------------------------------
(* Errors that fd_select reports.                                          *)

\* What the status "error" of an entry stands for.
Gone(p, fd) ==
  /\ Orphaned(p, fd)
  /\ EndOf(p, fd) \in ReadEnds => buf[EndOf(p, fd)[1]] = <<>>

\* The errors of poll are those of orphans, on every list.
LEMMA ErrorsAreOrphans ==
  ASSUME PosixTypeOK, NEW p \in Proc, NEW fd \in FdArg
  PROVE  /\ WriteStatus(WriteEvents(p, fd)) = "error" <=> Orphaned(p, fd)
         /\ ReadStatus(ReadEvents(p, fd)) = "error" => Gone(p, fd)
<1> DEFINE e == EndOf(p, fd)
           c == Conditions(p, fd)
<1>1. CASE e = None
  <2>1. c = {} \/ c = {"NVAL"}
    BY <1>1 DEF Conditions
  <2>2. ~Orphaned(p, fd)
    BY <1>1, EndFacts DEF Orphaned
  <2> HIDE DEF c
  <2> QED
    BY <2>1, <2>2 DEF WriteStatus, ReadStatus, WriteEvents, ReadEvents, c
<1>2. CASE e # None
  <2>1. e \in Ends /\ fd \in FdNum
    BY <1>2, EndOfType
  <2>2. ~(fd < 0)
    BY <2>1, PosixAssumption DEF FdNum
  <2>3. Peer(e) = IF e \in ReadEnds THEN WriteEnd(e[1]) ELSE ReadEnd(e[1])
    BY DEF Peer
  <2>4. c = IF e[1] \in Controls
            THEN (IF e \in ReadEnds /\ buf[e[1]] # <<>> THEN {"IN"} ELSE {})
                 \cup (IF Live(Peer(e)) THEN {} ELSE {"IN", "HUP", "RDHUP"})
            ELSE (IF e \in ReadEnds /\ buf[e[1]] # <<>> THEN {"IN"} ELSE {})
                 \cup (IF Live(Peer(e)) THEN {}
                       ELSE IF e \in ReadEnds THEN {"HUP"} ELSE {"ERR"})
    BY <1>2, <2>2, <2>3 DEF Conditions
  <2>5. Orphaned(p, fd) <=> ~Live(Peer(e))
    BY <2>1 DEF Orphaned
  <2>6. CASE Live(Peer(e))
    <3>1. c \subseteq {"IN"}
      BY <2>4, <2>6
    <3> HIDE DEF c
    <3> QED
      BY <2>5, <2>6, <3>1 DEF WriteStatus, ReadStatus, WriteEvents, ReadEvents, c
  <2>7. CASE ~Live(Peer(e))
    <3>1. c \cap {"HUP", "ERR"} # {}
      BY <2>4, <2>7
    <3>2. e \in ReadEnds /\ buf[e[1]] # <<>> => "IN" \in c
      BY <2>4, <2>7
    <3> HIDE DEF c
    <3>3. WriteStatus(WriteEvents(p, fd)) = "error"
      BY <3>1 DEF WriteStatus, WriteEvents, c
    <3>4. ReadStatus(ReadEvents(p, fd)) = "error" => "IN" \notin c
      BY DEF ReadStatus, ReadEvents, c
    <3> QED
      BY <2>5, <2>7, <3>2, <3>3, <3>4 DEF Gone
  <2> QED
    BY <2>6, <2>7
<1> QED
  BY <1>1, <1>2

\* The answer of fd_select is given by fd_select, and by no other step.
LEMMA SelectAnswers ==
  ASSUME IInv, NEW p \in Proc, Step(p), p \in alive', ret'[p] # Pending,
         call'[p].op = "select"
  PROVE  Untouched(p) \/ fd_select(p)
<1>0. /\ call \in [Proc -> SleepingCalls \cup {Idle}]
      /\ ret \in [Proc -> Answers]
      /\ Idle.op = "none"
      /\ alive \subseteq Proc
      /\ table \in [Proc -> [FdNum -> Ends \cup {None}]]
  BY DEF IInv, CallsOK, Idle, PosixTypeOK
<1>1. ~Invoke(p)
  BY <1>0 DEF Invoke, Return
<1>2. ~WriteProgress(p)
  BY <1>0 DEF WriteProgress, InCall
<1>3. ~fd_control_writefd(p) /\ ~fd_control_readfd(p) /\ ~fd_read(p) /\ ~fd_write(p)
  BY DEF fd_control_writefd, fd_control_readfd, fd_read, fd_write, InCall
<1>4. ~Interrupt(p)
  BY DEF Interrupt, InCall
<1>5. ~fd_close(p) /\ ~fd_dup2(p) /\ ~fd_set_blocking(p)
  BY <1>0 DEF fd_close, fd_dup2, fd_set_blocking, Answer
<1>6. ~fd_pipe(p) /\ ~omni_pipe(p) /\ ~fd_control_pipe(p)
  BY <1>0 DEF fd_pipe, omni_pipe, fd_control_pipe, CreateChannel, Answer
<1>7. ~Exit(p)
  BY <1>0 DEF Exit
<1>8. Fork(p) => Untouched(p)
  <2> SUFFICES ASSUME Fork(p)
               PROVE  Untouched(p)
    OBVIOUS
  <2>1. PICK c \in Proc \ alive :
          Forked(p, c) /\ call' = [call EXCEPT ![c] = Idle] /\ ret' = [ret EXCEPT ![c] = Nothing]
    BY DEF Fork
  <2>2. p \in alive
    BY DEF Fork, CanCall
  <2> QED
    BY <1>0, <2>1, <2>2 DEF Forked, Untouched
<1> QED
  BY <1>1, <1>2, <1>3, <1>4, <1>5, <1>6, <1>7, <1>8 DEF Step, Proceed

\* What fd_select returns when poll has not failed.
LEMMA SelectResult ==
  ASSUME IInv, NEW p \in Proc, fd_select(p), ret'[p].n # -1
  PROVE  /\ ret'[p].read = [fd \in call[p].read |-> ReadStatus(ReadEvents(p, fd))]
         /\ ret'[p].write = [fd \in call[p].write |-> WriteStatus(WriteEvents(p, fd))]
         /\ ret'[p].except = [fd \in call[p].except |-> WriteStatus(WriteEvents(p, fd))]
<1>0. ret \in [Proc -> Answers]
  BY DEF IInv, CallsOK
<1>1. CASE PollFails(call[p])
  <2>1. PICK read, write, except : Return(p, SelectArray(-1, read, write, except))
    BY <1>1 DEF fd_select
  <2> QED
    BY <1>0, <2>1 DEF Return, SelectArray
<1>2. CASE ~PollFails(call[p])
  BY <1>0, <1>2 DEF fd_select, Return, SelectArray
<1> QED
  BY <1>1, <1>2

LEMMA GoneStays ==
  ASSUME IInv, NothingReopens, [Contract!Next]_(Contract!vars),
         NEW p \in Proc, NEW fd, Gone(p, fd), table'[p] = table[p]
  PROVE  Gone(p, fd)'
<1>1. Orphaned(p, fd)' /\ EndOf(p, fd)' = EndOf(p, fd)
  BY OrphansStay DEF Gone, EndOf
<1>2. buf[EndOf(p, fd)[1]] = <<>> => buf'[EndOf(p, fd)'[1]] = <<>>
  BY OrphansStay DEF Gone
<1> QED
  BY <1>1, <1>2 DEF Gone

\* The errors that an answer holds, and what they stand for.
ErrorsHold(p) ==
  /\ \A fd \in DOMAIN ret[p].write : ret[p].write[fd] = "error" => Orphaned(p, fd)
  /\ \A fd \in DOMAIN ret[p].except : ret[p].except[fd] = "error" => Orphaned(p, fd)
  /\ \A fd \in DOMAIN ret[p].read : ret[p].read[fd] = "error" => Gone(p, fd)

LEMMA ErrorsHoldIsFinality ==
  SelectErrorIsFinal <=> \A p \in Proc : Answered(p, "select") /\ ret[p].n # -1 => ErrorsHold(p)
BY DEF SelectErrorIsFinal, ErrorsHold, Gone

LEMMA SelectStep ==
  ASSUME IInv, SelectErrorIsFinal, [Next]_vars
  PROVE  SelectErrorIsFinal'
<1>1. IInv' /\ NothingReopens /\ [Contract!Next]_(Contract!vars)
  BY EveryStep
<1> SUFFICES ASSUME NEW q \in Proc, Answered(q, "select")', ret'[q].n # -1
             PROVE  ErrorsHold(q)'
  BY DEF SelectErrorIsFinal, ErrorsHold, Gone
<1>2. ASSUME Untouched(q)
      PROVE  ErrorsHold(q)'
  <2>1. /\ Answered(q, "select") /\ ret[q].n # -1
        /\ table'[q] = table[q] /\ ret'[q] = ret[q]
    BY <1>2 DEF Untouched, Answered
  <2>2. ErrorsHold(q)
    BY <2>1, ErrorsHoldIsFinality
  <2>3. \A fd : Orphaned(q, fd) => Orphaned(q, fd)'
    BY <1>1, <2>1, OrphansStay
  <2>4. \A fd : Gone(q, fd) => Gone(q, fd)'
    BY <1>1, <2>1, GoneStays
  <2> QED
    BY <2>1, <2>2, <2>3, <2>4 DEF ErrorsHold
<1>3. ASSUME fd_select(q)
      PROVE  ErrorsHold(q)'
  <2>1. UNCHANGED posixVars
    BY <1>3 DEF fd_select
  <2>2. /\ call[q].read \subseteq FdArg
        /\ call[q].write \subseteq FdArg
        /\ call[q].except \subseteq FdArg
    BY <1>3, CallTypes DEF fd_select, InCall, IInv
  <2>3. \A fd \in FdArg :
          /\ WriteStatus(WriteEvents(q, fd)) = "error" => Orphaned(q, fd)
          /\ ReadStatus(ReadEvents(q, fd)) = "error" => Gone(q, fd)
    BY ErrorsAreOrphans DEF IInv
  <2>4. \A fd : (Orphaned(q, fd) => Orphaned(q, fd)') /\ (Gone(q, fd) => Gone(q, fd)')
    BY <2>1 DEF posixVars, Orphaned, Gone, EndOf, Live, Held, InFlight
  <2>5. /\ ret'[q].read = [fd \in call[q].read |-> ReadStatus(ReadEvents(q, fd))]
        /\ ret'[q].write = [fd \in call[q].write |-> WriteStatus(WriteEvents(q, fd))]
        /\ ret'[q].except = [fd \in call[q].except |-> WriteStatus(WriteEvents(q, fd))]
    BY <1>3, SelectResult
  <2>6. \A fd \in call[q].write \cup call[q].except :
          WriteStatus(WriteEvents(q, fd)) = "error" => Orphaned(q, fd)'
    BY <2>2, <2>3, <2>4
  <2>7. \A fd \in call[q].read : ReadStatus(ReadEvents(q, fd)) = "error" => Gone(q, fd)'
    BY <2>2, <2>3, <2>4
  <2> QED
    BY <2>5, <2>6, <2>7 DEF ErrorsHold
<1>4. CASE UNCHANGED vars
  BY <1>2, <1>4 DEF vars, Untouched
<1>5. CASE Next
  <2>1. PICK p \in Proc : Step(p)
    BY <1>5 DEF Next, Step
  <2>2. CASE q = p
    BY <1>2, <1>3, <2>1, <2>2, SelectAnswers DEF Answered
  <2>3. CASE q # p
    <3>1. OthersUntouched(p)
      BY <2>1, Locality DEF Step
    <3>2. Untouched(q)
      BY <2>3, <3>1 DEF OthersUntouched, Answered, Idle
    <3> QED
      BY <1>2, <3>2
  <2> QED
    BY <2>2, <2>3
<1> QED
  BY <1>4, <1>5

\* "error" from fd_select stays true for as long as the caller can act on it.
THEOREM SelectErrorFinal == Spec => []SelectErrorIsFinal
<1>1. Init => SelectErrorIsFinal
  BY DEF Init, SelectErrorIsFinal, Answered, Idle
<1>2. IInv /\ SelectErrorIsFinal /\ [Next]_vars => SelectErrorIsFinal'
  BY SelectStep
<1> QED
  BY <1>1, <1>2, Invariance, PTL DEF Spec

\* Only fd_select answers a pending select.
LEMMA SelectReturns ==
  ASSUME IInv, [Next]_vars, NEW q \in Proc, InCall(q, "select"), ret'[q] \notin {Pending, Nothing}
  PROVE  fd_select(q)
<1>1. PICK p \in Proc : Step(p)
  BY DEF Next, Step, vars, InCall
<1>2. q = p
  BY <1>1, Locality DEF Step, OthersUntouched, Untouched, InCall
<1>3. ret \in [Proc -> Answers]
  BY DEF IInv, CallsOK
<1>4. ~Exit(q)
  BY <1>3 DEF Exit
<1> QED
  BY <1>1, <1>2, <1>4 DEF Step, Proceed, InCall, CanCall, Invoke, fd_read, fd_write, WriteProgress,
     fd_control_writefd, fd_control_readfd, Interrupt, fd_close, fd_dup2, Calls, fd_pipe,
     omni_pipe, fd_control_pipe, fd_set_blocking, Fork

\* Each entry of the write list whose reader has gone is answered "error".
THEOREM ClosedPipesAreTold == Spec => TellsOfClosedPipes
<1> DEFINE Told == \A p \in Proc :
              InCall(p, "select") /\ ret'[p] \notin {Pending, Nothing} /\ ret'[p].n # -1 =>
                \A fd \in call[p].write : Orphaned(p, fd) => ret'[p].write[fd] = "error"
<1>1. ASSUME IInv, [Next]_vars
      PROVE  Told
  <2> SUFFICES ASSUME NEW q \in Proc, InCall(q, "select"), ret'[q] \notin {Pending, Nothing},
                      ret'[q].n # -1, NEW fd \in call[q].write, Orphaned(q, fd)
               PROVE  ret'[q].write[fd] = "error"
    OBVIOUS
  <2>1. fd_select(q)
    BY <1>1, SelectReturns
  <2>2. fd \in FdArg
    BY <1>1, CallTypes DEF IInv, InCall
  <2>3. WriteStatus(WriteEvents(q, fd)) = "error"
    BY <1>1, <2>2, ErrorsAreOrphans DEF IInv
  <2> QED
    BY <1>1, <2>1, <2>3, SelectResult
<1> QED
  BY <1>1, Invariance, PTL DEF Spec, TellsOfClosedPipes

\* poll's conditions make an entry of the read list "ready" where it has input.
LEMMA ReadyIsInput ==
  ASSUME NEW p \in Proc, NEW fd \in FdArg, PosixTypeOK
  PROVE  ReadStatus(ReadEvents(p, fd)) = "ready" <=> HasInput(p, fd)
<1>1. EndOf(p, fd) \in Ends \cup {None}
  BY EndOfType
<1>2. fd < 0 => EndOf(p, fd) = None
  BY PosixAssumption DEF EndOf, FdNum, FdArg
<1>3. None \notin Ends
  BY PosixAssumption DEF Ends, Chan
<1>4. ReadStatus(ReadEvents(p, fd)) = "ready" <=> "IN" \in Conditions(p, fd)
  BY DEF ReadStatus, ReadEvents, WriteStatus
<1>5. "IN" \in Conditions(p, fd) <=> HasInput(p, fd)
  BY <1>1, <1>2, <1>3 DEF Conditions, HasInput, Orphaned, Peer, ReadEnds, Ends
<1> QED
  BY <1>4, <1>5

\* When fd_select returns, "ready" is said of the entries that have input, and
\* of no others.
THEOREM InputIsTold == Spec => TellsOfInput
<1> DEFINE Told == \A p \in Proc :
              InCall(p, "select") /\ ret'[p] \notin {Pending, Nothing} /\ ret'[p].n # -1 =>
                \A fd \in call[p].read : ret'[p].read[fd] = "ready" <=> HasInput(p, fd)
<1>1. ASSUME IInv, [Next]_vars
      PROVE  Told
  <2> SUFFICES ASSUME NEW q \in Proc, InCall(q, "select"), ret'[q] \notin {Pending, Nothing},
                      ret'[q].n # -1, NEW fd \in call[q].read
               PROVE  ret'[q].read[fd] = "ready" <=> HasInput(q, fd)
    OBVIOUS
  <2>1. fd_select(q)
    BY <1>1, SelectReturns
  <2>2. fd \in FdArg
    BY <1>1, CallTypes DEF IInv, InCall
  <2>3. ret'[q].read = [x \in call[q].read |-> ReadStatus(ReadEvents(q, x))]
    BY <1>1, <2>1, SelectResult
  <2> QED
    BY <1>1, <2>2, <2>3, ReadyIsInput DEF IInv
<1> QED
  BY <1>1, Invariance, PTL DEF Spec, TellsOfInput

-----------------------------------------------------------------------------
(* What a step does to the buffer of one channel.                          *)

\* Something was put behind what the channel holds.
Added(c) ==
  \E n \in 1..Capacity :
    Len(buf'[c]) = Len(buf[c]) + n /\ SubSeq(buf'[c], 1, Len(buf[c])) = buf[c]

\* Nobody is left to read what the channel held.
Released(c) == ~Live(ReadEnd(c))'

\* fd_read takes bytes, up to the first that carries a descriptor.
TakenByRead(p, c) ==
  /\ InCall(p, "read")
  /\ EndOf(p, call[p].fd) = ReadEnd(c)
  /\ ret'[p] # Pending
  /\ \E n \in Nat \ {0} :
       buf'[c] = SubSeq(buf[c], Taken(buf[c], n) + 1, Len(buf[c]))

\* fd_control_readfd takes one byte, with the descriptor that it carries.
TakenByReadfd(p, c) ==
  /\ InCall(p, "readfd")
  /\ EndOf(p, call[p].fd) = ReadEnd(c)
  /\ ret'[p] # Pending
  /\ buf'[c] = SubSeq(buf[c], 2, Len(buf[c]))
  /\ \/ Head(buf[c]) = None
     \/ FreeFds(p) = {}
     \/ \E fd \in FdNum : ret'[p] = Long(fd) /\ table'[p][fd] = Head(buf[c])

Accounted(p, c) == Added(c) \/ Released(c) \/ TakenByRead(p, c) \/ TakenByReadfd(p, c)

LEMMA JoinedIsAdded ==
  ASSUME IInv, NEW d \in Chan, NEW more \in Seq(Item), Len(more) \in 0..Room(d),
         buf' = Joined(d, more), NEW c \in Chan, buf'[c] # buf[c]
  PROVE  Added(c)
<1>1. buf \in Buffers /\ buf[d] \in Seq(Item) /\ Len(buf[d]) \in Nat /\ Capacity \in Nat
  BY PosixAssumption DEF IInv, PosixTypeOK, Buffers
<1>2. c = d
  BY <1>1, JoinedProperties
<1>3. Len(buf'[c]) = Len(buf[c]) + Len(more) /\ SubSeq(buf'[c], 1, Len(buf[c])) = buf[c]
  BY <1>1, <1>2, JoinedProperties
<1>4. more # <<>>
  <2>1. buf'[c] = buf[c] \o more
    BY <1>1, <1>2 DEF Joined, Buffers
  <2> QED
    BY <1>1, <1>2, <2>1, ConcatEmptySeq
<1>5. Len(more) \in Nat \ {0}
  BY <1>4, EmptySeq
<1>6. Len(more) \in 1..Capacity
  BY <1>1, <1>5 DEF Room
<1> QED
  BY <1>3, <1>6 DEF Added

LEMMA FilledIsAdded ==
  ASSUME IInv, NEW e \in WriteEnds, NEW n \in 0..Room(e[1]), buf' = Filled(e[1], n),
         NEW c \in Chan, buf'[c] # buf[c]
  PROVE  Added(c)
<1> DEFINE more == [i \in 1..n |-> None]
<1>1. e[1] \in Chan
  BY EndFacts
<1>2. n \in Nat
  <2>1. Len(buf[e[1]]) \in Nat
    BY <1>1 DEF IInv, PosixTypeOK, Buffers
  <2> QED
    BY <2>1, PosixAssumption DEF Room
<1>3. more \in Seq(Item) /\ Len(more) = n
  BY <1>2, PlainBytes
<1>4. buf' = Joined(e[1], more)
  BY DEF Filled, Joined
<1> HIDE DEF more
<1> QED
  BY <1>1, <1>3, <1>4, JoinedIsAdded

\* A step that only closes ends.
LEMMA PurgeReleases ==
  ASSUME IInv, buf' = Purge(table', buf), NEW c \in Chan, buf'[c] # buf[c]
  PROVE  Released(c)
BY PurgedChannel DEF IInv, PosixTypeOK, Released

LEMMA ReadAccounts ==
  ASSUME IInv, NEW p \in Proc, fd_read(p), NEW c \in Chan, buf'[c] # buf[c]
  PROVE  Accounted(p, c)
<1> DEFINE e == EndOf(p, call[p].fd)
           r == SysRead(e, call[p].len)
<1>1. call[p].len \in Nat
  BY CallTypes DEF fd_read, InCall, IInv
<1>2. e \in Ends \cup {None}
  BY EndOfType DEF IInv
<1>3. r.n \in Results /\ (r.n > 0 => e \in ReadEnds /\ r.n \in 1..Len(buf[e[1]]))
  BY <1>1, <1>2, SysReadResult DEF IInv
<1>4. r.n > 0 /\ buf' = Purge(table', Drained(e[1], r.n)) /\ InCall(p, "read")
      /\ ret' = [ret EXCEPT ![p] = PhpRead(r)]
  BY DEF fd_read, Return
<1>5. e \in ReadEnds /\ e[1] \in Chan /\ e = ReadEnd(e[1]) /\ r.n \in 1..Len(buf[e[1]])
  BY <1>3, <1>4, EndFacts
<1>6. buf \in Buffers
  BY DEF IInv, PosixTypeOK
<1>7. /\ Drained(e[1], r.n) \in Buffers
      /\ \A d \in Chan \ {e[1]} : Drained(e[1], r.n)[d] = buf[d]
      /\ Drained(e[1], r.n)[e[1]] = SubSeq(buf[e[1]], r.n + 1, Len(buf[e[1]]))
  <2> HIDE DEF e, r
  <2> QED
    BY <1>5, <1>6, DrainedProperties
<1>8. ret'[p] # Pending
  BY <1>4, AnswersAreNotPending DEF IInv, CallsOK
<1>9. r.n = Taken(buf[e[1]], call[p].len) /\ call[p].len # 0
  BY <1>4, <1>5 DEF SysRead, Done, Failed
<1>10. buf'[c] = IF Live(ReadEnd(c))' THEN Drained(e[1], r.n)[c] ELSE <<>>
  <2> HIDE DEF e, r
  <2> QED
    BY <1>4, <1>7, PurgedChannel
<1> QED
  <2> HIDE DEF e, r
  <2>1. SUFFICES ASSUME Live(ReadEnd(c))'
                 PROVE  TakenByRead(p, c)
    BY DEF Accounted, Released
  <2>2. c = e[1] /\ buf'[c] = SubSeq(buf[c], r.n + 1, Len(buf[c]))
    BY <1>7, <1>10, <2>1
  <2> QED
    BY <1>1, <1>4, <1>5, <1>8, <1>9, <2>2 DEF TakenByRead, e

LEMMA ReadfdAccounts ==
  ASSUME IInv, NEW p \in Proc, fd_control_readfd(p), NEW c \in Chan, buf'[c] # buf[c]
  PROVE  Accounted(p, c)
<1> DEFINE e == EndOf(p, call[p].fd)
           r == SysRecvmsg(e)
           right == IF r.n = 1 THEN Head(buf[e[1]]) ELSE None
           left == IF r.n = 1 THEN Drained(e[1], 1) ELSE buf
<1>1. e \in Ends \cup {None}
  BY EndOfType DEF IInv
<1>2. r.n \in Results /\ (r.n > 0 => e \in ReadEnds /\ buf[e[1]] # <<>>)
  BY <1>1, SysRecvmsgResult DEF IInv
<1>3. InCall(p, "readfd") /\ buf' = Purge(table', left)
  BY DEF fd_control_readfd
<1>4. /\ table \in [Proc -> [FdNum -> Ends \cup {None}]]
      /\ ret \in [Proc -> Answers]
      /\ buf \in Buffers
  BY DEF IInv, PosixTypeOK, CallsOK
<1>5. CASE r.n # 1
  BY <1>3, <1>5, PurgeReleases DEF Accounted
<1>6. CASE r.n = 1
  <2>1. e \in ReadEnds /\ e[1] \in Chan /\ e = ReadEnd(e[1]) /\ 1 \in 1..Len(buf[e[1]])
    <3>1. e \in ReadEnds /\ e[1] \in Chan /\ e = ReadEnd(e[1]) /\ buf[e[1]] # <<>>
      BY <1>2, <1>6, EndFacts
    <3>2. buf[e[1]] \in Seq(Item)
      BY <1>4, <3>1 DEF Buffers
    <3> HIDE DEF e
    <3> QED
      BY <3>1, <3>2, EmptySeq
  <2>2. /\ left \in Buffers
        /\ \A d \in Chan \ {e[1]} : left[d] = buf[d]
        /\ left[e[1]] = SubSeq(buf[e[1]], 2, Len(buf[e[1]]))
    <3>1. left = Drained(e[1], 1) /\ 1 + 1 = 2
      BY <1>6
    <3> HIDE DEF e, left
    <3> QED
      BY <1>4, <2>1, <3>1, DrainedProperties
  <2>3. buf'[c] = IF Live(ReadEnd(c))' THEN left[c] ELSE <<>>
    <3> HIDE DEF left
    <3> QED
      BY <1>3, <2>2, PurgedChannel
  <2>4. SUFFICES ASSUME Live(ReadEnd(c))'
                 PROVE  TakenByReadfd(p, c)
    BY DEF Accounted, Released
  <2>5. c = e[1] /\ buf'[c] = SubSeq(buf[c], 2, Len(buf[c])) /\ right = Head(buf[c])
    <3>1. right = Head(buf[e[1]])
      BY <1>6
    <3> HIDE DEF left, e, right
    <3> QED
      BY <2>2, <2>3, <2>4, <3>1
  <2>6. ret'[p] # Pending
    BY <1>4, AnswersAreNotPending DEF fd_control_readfd, Return
  <2>7. \/ right = None
        \/ FreeFds(p) = {}
        \/ \E fd \in FdNum : ret'[p] = Long(fd) /\ table'[p][fd] = right
    <3>1. CASE right = None \/ FreeFds(p) = {}
      BY <3>1
    <3>2. ASSUME NEW fd \in FreeFds(p), Return(p, PhpControlRead(ancil_recv_fd(r, fd))),
                 table' = [table EXCEPT ![p][fd] = right]
          PROVE  \E f \in FdNum : ret'[p] = Long(f) /\ table'[p][f] = right
      <4>1. fd \in FdNum
        BY DEF FreeFds
      <4>2. PhpControlRead(ancil_recv_fd(r, fd)) = Long(fd)
        BY <1>6 DEF PhpControlRead, ancil_recv_fd, ancil_recv_fds_with_buffer
      <4> HIDE DEF right, r
      <4>3. ret'[p] = Long(fd)
        BY <1>4, <3>2, <4>2 DEF Return
      <4>4. table'[p][fd] = right
        BY <1>4, <3>2, <4>1
      <4> QED
        BY <4>1, <4>3, <4>4
    <3> QED
      BY <3>1, <3>2 DEF fd_control_readfd
  <2> QED
    <3> HIDE DEF right, left, r
    <3> QED
      BY <1>3, <2>1, <2>5, <2>6, <2>7 DEF TakenByReadfd
<1> QED
  BY <1>5, <1>6

LEMMA WritesAccount ==
  ASSUME IInv, NEW p \in Proc, fd_write(p) \/ WriteProgress(p) \/ fd_control_writefd(p),
         NEW c \in Chan, buf'[c] # buf[c]
  PROVE  Added(c)
<1>1. CASE fd_write(p)
  <2> DEFINE e == EndOf(p, call[p].fd)
             r == SysWrite(e, call[p].len, call[p].done)
  <2>1. call[p].len \in Nat /\ call[p].done \in 0..call[p].len
    BY <1>1, CallTypes DEF fd_write, InCall, IInv
  <2>2. e \in Ends \cup {None}
    BY EndOfType DEF IInv
  <2>3. r.n > 0 /\ buf' = Filled(e[1], r.n - call[p].done)
    BY <1>1 DEF fd_write
  <2>4. e \in WriteEnds /\ r.n - call[p].done \in 0..Room(e[1])
    BY <2>1, <2>2, <2>3, SysWriteResult DEF IInv, Resources
  <2> HIDE DEF e, r
  <2> QED
    BY <2>3, <2>4, FilledIsAdded
<1>2. CASE WriteProgress(p)
  <2> DEFINE e == EndOf(p, call[p].fd)
             n == Accepted(e, call[p].len, call[p].done)
  <2>1. call[p].len \in Nat /\ call[p].done \in 0..call[p].len
    BY <1>2, CallTypes DEF WriteProgress, InCall, IInv
  <2>2. e \in WriteEnds /\ buf' = Filled(e[1], n)
    BY <1>2 DEF WriteProgress, WriteSleeps
  <2>3. n \in 0..Room(e[1])
    BY <2>1, <2>2, AcceptedRange DEF IInv, Resources
  <2> HIDE DEF e, n
  <2> QED
    BY <2>2, <2>3, FilledIsAdded
<1>3. CASE fd_control_writefd(p)
  <2> DEFINE e == EndOf(p, call[p].fd)
             right == EndOf(p, call[p].send)
             r == SysSendmsg(e, right)
  <2>1. r.n >= 0 /\ buf' = [buf EXCEPT ![e[1]] = Append(@, right)]
    BY <1>3 DEF fd_control_writefd, Sent
  <2>2. e \in WriteEnds /\ right # None /\ Room(e[1]) # 0
    BY <2>1 DEF SysSendmsg, Failed
  <2>3. e[1] \in Chan
    BY <2>2, EndFacts
  <2>4. right \in Item
    <3>1. UsesAsNamed(p, call[p]) /\ call[p].op = "writefd"
      BY <1>3 DEF fd_control_writefd, InCall, IInv, CallsAsNamed
    <3> QED
      BY <2>2, <3>1 DEF UsesAsNamed, Item
  <2>5. buf[e[1]] \in Seq(Item)
    BY <2>3 DEF IInv, PosixTypeOK, Buffers
  <2>6. <<right>> \in Seq(Item) /\ Len(<<right>>) = 1
    BY <2>4
  <2>7. buf' = Joined(e[1], <<right>>)
    <3>1. Append(buf[e[1]], right) = buf[e[1]] \o <<right>>
      BY <2>4, <2>5, AppendIsConcat
    <3> QED
      BY <2>1, <3>1 DEF Joined
  <2>8. 1 \in 0..Room(e[1])
    <3>1. Len(buf[e[1]]) \in Nat /\ Len(buf[e[1]]) <= Capacity /\ Capacity \in Nat
      BY <2>3, <2>5, PosixAssumption DEF IInv, Resources, WithinCapacity
    <3> QED
      BY <2>2, <3>1 DEF Room
  <2> HIDE DEF e, right, r
  <2> QED
    BY <2>3, <2>6, <2>7, <2>8, JoinedIsAdded
<1> QED
  BY <1>1, <1>2, <1>3

\* Whatever step it is.
LEMMA StepAccounts ==
  ASSUME IInv, NEW p \in Proc, Step(p), NEW c \in Chan, buf'[c] # buf[c]
  PROVE  Accounted(p, c)
<1>1. CASE fd_close(p) \/ fd_dup2(p) \/ Exit(p)
  BY <1>1, PurgeReleases DEF fd_close, Closed, fd_dup2, Exit, Exited, Accounted
<1>2. buf' # buf
  OBVIOUS
<1>3. ~Invoke(p) /\ ~Interrupt(p) /\ ~fd_select(p)
  BY <1>2 DEF Invoke, Interrupt, fd_select, posixVars
<1>4. ~fd_set_blocking(p) /\ ~Fork(p)
  BY <1>2 DEF fd_set_blocking, Fork, Forked
<1>5. ~fd_pipe(p) /\ ~omni_pipe(p) /\ ~fd_control_pipe(p)
  BY <1>2 DEF fd_pipe, omni_pipe, fd_control_pipe, CreateChannel, Allocated, posixVars
<1> QED
  BY <1>1, <1>3, <1>4, <1>5, ReadAccounts, ReadfdAccounts, WritesAccount DEF Step, Proceed, Accounted

-----------------------------------------------------------------------------
(* Descriptors in flight.                                                  *)

\* A read that finds a descriptor first takes one byte.
LEMMA OneTaken ==
  ASSUME NEW s \in Seq(Item), s # <<>>, Head(s) # None, NEW n \in Nat \ {0}
  PROVE  Taken(s, n) = 1
<1>1. Taken(s, n) \in 1..Len(s) /\ \A i \in 1..(Taken(s, n) - 1) : s[i] = None
  BY TakenRange
<1>2. Head(s) = s[1] /\ Len(s) \in Nat
  BY EmptySeq
<1>3. 1 \notin 1..(Taken(s, n) - 1)
  BY <1>1, <1>2
<1> QED
  BY <1>1, <1>2, <1>3

\* A descriptor in flight on a control pipe is received by a process that calls
\* fd_control_readfd, unless the process has no free number for it; or it is discarded
\* by fd_read, or goes when the last reader closes.  Nothing else makes it disappear.
THEOREM RightsAreKept == Spec => RightsAreNotLost
<1>1. ASSUME IInv, [Next]_vars, NEW k \in Controls,
             buf'[k] # buf[k], buf[k] # <<>>, Head(buf[k]) # None
      PROVE  \/ Added(k)
             \/ ~Held(table', ReadEnd(k))
             \/ \E p \in alive :
                  /\ ret[p] = Pending
                  /\ EndOf(p, call[p].fd) = ReadEnd(k)
                  /\ buf'[k] = Tail(buf[k])
                  /\ \/ call[p].op = "readfd" /\ FreeFds(p) = {}
                     \/ \E fd \in FdNum : ret'[p] = Long(fd) /\ table'[p][fd] = Head(buf[k])
                     \/ call[p].op = "read"
  <2>1. k \in Chan /\ buf[k] \in Seq(Item)
    BY <1>1 DEF Chan, IInv, PosixTypeOK, Buffers
  <2>2. Next
    BY <1>1 DEF vars, posixVars
  <2>3. PICK p \in Proc : Step(p)
    BY <2>2 DEF Next, Step
  <2>4. Accounted(p, k)
    BY <1>1, <2>1, <2>3, StepAccounts
  <2>5. Released(k) => ~Held(table', ReadEnd(k))
    BY DEF Released, Live
  <2>6. SubSeq(buf[k], 2, Len(buf[k])) = Tail(buf[k])
    BY <1>1, <2>1, TailIsSubSeq
  <2>7. \A n \in Nat \ {0} : Taken(buf[k], n) + 1 = 2
    BY <1>1, <2>1, OneTaken
  <2>8. TakenByRead(p, k) => buf'[k] = Tail(buf[k])
    BY <2>6, <2>7 DEF TakenByRead
  <2> QED
    BY <1>1, <2>4, <2>5, <2>6, <2>8 DEF Accounted, TakenByRead, TakenByReadfd, InCall
<1>2. IInv /\ [Next]_vars =>
        \A k \in Controls :
          buf'[k] # buf[k] /\ buf[k] # <<>> /\ Head(buf[k]) # None =>
            \/ Added(k)
            \/ ~Held(table', ReadEnd(k))
            \/ \E p \in alive :
                 /\ ret[p] = Pending
                 /\ EndOf(p, call[p].fd) = ReadEnd(k)
                 /\ buf'[k] = Tail(buf[k])
                 /\ \/ call[p].op = "readfd" /\ FreeFds(p) = {}
                    \/ \E fd \in FdNum : ret'[p] = Long(fd) /\ table'[p][fd] = Head(buf[k])
                    \/ call[p].op = "read"
  BY <1>1
<1> QED
  BY <1>2, Invariance, PTL DEF Spec, RightsAreNotLost, Added

-----------------------------------------------------------------------------
(* What fd_select called ready.                                            *)

\* What fd_select called ready for reading can be read without sleeping, until another
\* process reads from the same end: the process that was told need not hurry.
THEOREM ReadinessHolds == Spec => ReadinessIsTakenByOthers
<1> DEFINE Lasting == \A p \in Proc :
             Answered(p, "select") /\ Answered(p, "select")' =>
               \A fd \in DOMAIN ret[p].read :
                 LET e == EndOf(p, fd)
                 IN  /\ ret[p].read[fd] = "ready"
                     /\ ~ReadSleeps(e, 1)
                     /\ ReadSleeps(e, 1)'
                     => \/ e \in nonblock
                        \/ \E q \in Proc \ {p} :
                             /\ ret[q] = Pending
                             /\ ret'[q] # Pending
                             /\ call[q].op \in {"read", "readfd"}
                             /\ EndOf(q, call[q].fd) = e
<1>1. ASSUME IInv, [Next]_vars
      PROVE  Lasting
  <2> SUFFICES ASSUME NEW p \in Proc, Answered(p, "select"), Answered(p, "select")',
                      NEW fd \in DOMAIN ret[p].read,
                      ~ReadSleeps(EndOf(p, fd), 1), ReadSleeps(EndOf(p, fd), 1)',
                      EndOf(p, fd) \notin nonblock
               PROVE  \E q \in Proc \ {p} :
                        /\ ret[q] = Pending
                        /\ ret'[q] # Pending
                        /\ call[q].op \in {"read", "readfd"}
                        /\ EndOf(q, call[q].fd) = EndOf(p, fd)
    BY Zenon
  <2>e. PICK e : e = EndOf(p, fd)
    OBVIOUS
  <2>c. PICK c : c = e[1]
    OBVIOUS
  <2>1. PICK q \in Proc : Step(q)
    <3>1. ~UNCHANGED vars
      BY DEF vars, posixVars, ReadSleeps, EndOf, Live, Held, InFlight
    <3> QED
      BY <1>1, <3>1 DEF Next, Step
  <2>2. table'[p] = table[p]
    <3>1. CASE q = p
      <4>1. Untouched(p) \/ fd_select(p)
        BY <1>1, <2>1, <3>1, SelectAnswers DEF Answered
      <4>2. ~fd_select(p)
        BY DEF Answered, fd_select, InCall
      <4> QED
        BY <4>1, <4>2 DEF Untouched
    <3>2. CASE q # p
      <4>1. OthersUntouched(q)
        BY <1>1, <2>1, Locality DEF Step
      <4> QED
        BY <3>2, <4>1 DEF OthersUntouched, Untouched, Answered, Idle
    <3> QED
      BY <3>1, <3>2
  <2>3. EndOf(p, fd)' = e
    BY <2>2, <2>e DEF EndOf
  <2>4. e \in ReadEnds /\ buf'[c] = <<>> /\ Live(WriteEnd(c))'
    BY <2>3, <2>c DEF ReadSleeps
  <2>5. c \in Chan /\ e = ReadEnd(c) /\ WriteEnd(c) \in Ends /\ WriteEnd(c)[1] = c /\ e # None
    BY <2>4, <2>c, EndFacts DEF WriteEnd
  <2>6. Held(table, e) /\ Live(e)'
    <3>1. fd \in FdNum /\ table[p][fd] = e /\ table'[p][fd] = e
      BY <1>1, <2>2, <2>5, <2>e, EndOfType DEF IInv
    <3> QED
      BY <3>1 DEF Held, Live
  <2>7. Live(WriteEnd(c))
    <3>1. c \in created
      <4>1. e \in Ends
        BY <2>4 DEF ReadEnds, Ends
      <4>2. Live(e)
        BY <2>6 DEF Live
      <4>3. OnlyCreated
        BY <1>1 DEF IInv, Resources
      <4> QED
        BY <2>c, <4>1, <4>2, <4>3 DEF OnlyCreated
    <3> QED
      BY <1>1, <2>4, <2>5, <3>1, EveryStep DEF NothingReopens
  <2>8. buf[c] # <<>>
    BY <2>4, <2>7, <2>c, <2>e DEF ReadSleeps
  <2>9. Accounted(q, c)
    BY <1>1, <2>1, <2>4, <2>5, <2>8, StepAccounts
  <2>10. ~Added(c)
    <3>1. buf[c] \in Seq(Item)
      BY <1>1, <2>5 DEF IInv, PosixTypeOK, Buffers
    <3>2. Len(buf[c]) \in Nat \ {0} /\ Len(buf'[c]) = 0
      BY <2>4, <2>8, <3>1, EmptySeq
    <3> QED
      BY <3>2 DEF Added
  <2>11. ~Released(c)
    BY <2>5, <2>6 DEF Released
  <2>12. TakenByRead(q, c) \/ TakenByReadfd(q, c)
    BY <2>9, <2>10, <2>11 DEF Accounted
  <2>13. q # p
    BY <2>12 DEF TakenByRead, TakenByReadfd, InCall, Answered
  <2> QED
    BY <2>5, <2>12, <2>13, <2>e DEF TakenByRead, TakenByReadfd, InCall
<1> QED
  BY <1>1, Invariance, PTL DEF Spec, ReadinessIsTakenByOthers

=============================================================================
