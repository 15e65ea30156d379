------------------------------ MODULE Channels ------------------------------
(***************************************************************************)
(* What the functions of fd/fd.c promise of each pipe and control pipe,    *)
(* however many processes share it and however its ends travel between     *)
(* them: a queue that is created once, whose two ends close once each, for *)
(* good, and in which nothing is left once it cannot be read.  One step of *)
(* a process may move several channels: its death closes all its ends.     *)
(***************************************************************************)
EXTENDS Naturals, Sequences

CONSTANTS
  Chan,       \* the channels
  Capacity    \* items that one holds

VARIABLES
  created,    \* the channels created so far
  open,       \* open[c]: the sides of c, "read" and "write", that are open
  q           \* q[c]: what has been written to c and not yet read

vars == <<created, open, q>>

Init ==
  /\ created = {}
  /\ open = [c \in Chan |-> {}]
  /\ q = [c \in Chan |-> <<>>]

Create(c) ==
  /\ c \notin created
  /\ c \in created'
  /\ open'[c] = {"read", "write"}
  /\ q'[c] = q[c]

\* Items enter behind those that wait, and only while both sides are open.
Put(c) ==
  /\ open[c] = {"read", "write"}
  /\ open'[c] = open[c]
  /\ Len(q'[c]) \in (Len(q[c]) + 1)..Capacity
  /\ SubSeq(q'[c], 1, Len(q[c])) = q[c]
  /\ c \in created'

\* Items leave from the front; the writers may be gone.
Get(c) ==
  /\ "read" \in open[c]
  /\ open'[c] = open[c]
  /\ \E n \in 1..Len(q[c]) : q'[c] = SubSeq(q[c], n + 1, Len(q[c]))
  /\ c \in created'

\* One side, or both at once, closes.
Close(c) ==
  /\ open'[c] \subseteq open[c]
  /\ open'[c] # open[c]
  /\ q'[c] = IF "read" \in open'[c] THEN q[c] ELSE <<>>
  /\ c \in created'

Rest(c) ==
  /\ open'[c] = open[c]
  /\ q'[c] = q[c]
  /\ c \in created' <=> c \in created

Next == \A c \in Chan : Create(c) \/ Put(c) \/ Get(c) \/ Close(c) \/ Rest(c)

Spec == Init /\ [][Next]_vars

=============================================================================
