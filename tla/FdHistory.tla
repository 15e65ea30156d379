----------------------------- MODULE FdHistory -----------------------------
(***************************************************************************)
(* Fd with a history variable: what the return values of fd_read and       *)
(* fd_write tell the scripts of the bytes in each pipe.                    *)
(***************************************************************************)
EXTENDS Fd, Functions

\* The process slots of a system are numbered.
ASSUME FiniteAssumption == IsFiniteSet(Proc)

VARIABLE moved    \* moved[c]: bytes reported written to c, less bytes read

historyVars == <<vars, moved>>

\* What the step from a pending call of p on channel c to its return, or to the
\* death of p with a write half done, adds to the books.
Entry(p, c) ==
  IF ~(p \in alive /\ ret[p] = Pending /\ call[p].op \in {"read", "write"}
       /\ EndOf(p, call[p].fd) \in {ReadEnd(c), WriteEnd(c)})
  THEN 0
  ELSE IF p \notin alive'
       THEN IF call[p].op = "write" THEN call[p].done ELSE 0
  ELSE IF ret'[p].kind = "string"
       THEN 0 - ret'[p].n
  ELSE IF ret'[p].kind = "long" THEN ret'[p].n
  ELSE 0

HistoryInit == Init /\ moved = [c \in Pipes |-> 0]

HistoryNext ==
  /\ Next
  /\ moved' = [c \in Pipes |-> moved[c] + SumFunction([p \in Proc |-> Entry(p, c)])]

HistorySpec == HistoryInit /\ [][HistoryNext]_historyVars

\* Bytes that a write still under way has put into c.
UnderWay(p, c) ==
  IF ret[p] = Pending /\ call[p].op = "write" /\ EndOf(p, call[p].fd) = WriteEnd(c)
  THEN call[p].done
  ELSE 0

\* The return values account for every byte: as long as a pipe can be read, it
\* holds what the writers were told they wrote, and what they have written of
\* calls not yet answered, less what the readers were handed.  No byte is
\* reported twice, dropped, or written by a call that reports a failure.
BooksBalance ==
  \A c \in Pipes :
    Live(ReadEnd(c)) =>
      Len(buf[c]) = moved[c] + SumFunction([p \in Proc |-> UnderWay(p, c)])

=============================================================================
