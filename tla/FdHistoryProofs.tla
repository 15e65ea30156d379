--------------------------- MODULE FdHistoryProofs ---------------------------
(***************************************************************************)
(* The books of FdHistory balance, whatever the processes and the pipes.   *)
(***************************************************************************)
EXTENDS FdHistory, FdProofs

\* The balance of one pipe, kept for those that are not created yet too.
Balanced(c) ==
  Live(ReadEnd(c)) \/ c \notin created =>
    Len(buf[c]) = moved[c] + SumFunction([p \in Proc |-> UnderWay(p, c)])

\* Only what is open for writing has been written to.
WritesToWriteEnds ==
  \A p \in alive :
    ret[p] = Pending /\ call[p].op = "write" /\ call[p].done # 0 =>
      EndOf(p, call[p].fd) \in WriteEnds

HInv ==
  /\ IInv
  /\ moved \in [Pipes -> Int]
  /\ WritesToWriteEnds
  /\ \A c \in Pipes : Balanced(c)

-----------------------------------------------------------------------------
(* What a step of p does to one pipe.                                      *)

\* What p puts in or takes out is what it is told now, or is to be told yet.
Kept(p, c) ==
  Len(buf'[c]) + UnderWay(p, c) = Len(buf[c]) + Entry(p, c) + UnderWay(p, c)'

LEMMA LengthsAreNumbers ==
  ASSUME PosixTypeOK, NEW c \in Pipes
  PROVE  c \in Chan /\ buf[c] \in Seq(Item) /\ Len(buf[c]) \in Nat
BY DEF Chan, PosixTypeOK, Buffers

LEMMA UnderWayIsANumber ==
  ASSUME IInv, NEW p \in Proc, NEW c
  PROVE  UnderWay(p, c) \in Nat
<1>1. call[p].op = "write" => call[p].done \in Nat
  BY CallTypes DEF IInv
<1> QED
  BY <1>1 DEF UnderWay

LEMMA EntryIsANumber ==
  ASSUME IInv, IInv', NEW p \in Proc, NEW c
  PROVE  Entry(p, c) \in Int
<1>1. call[p].op = "write" => call[p].done \in Nat
  BY CallTypes DEF IInv
<1>2. ret'[p] \in Answers
  BY DEF IInv, CallsOK
<1>3. ret'[p].kind \in {"string", "long"} => ret'[p].n \in Int
  BY <1>2 DEF Answers, Scalars, PipeResults, SelectResults, Pending, Nothing, True, False, Null, Value
<1> QED
  BY <1>1, <1>3 DEF Entry

\* A step that leaves what is in the pipe, of a process that is in no call on it
\* that moves bytes.
LEMMA IdleKeeps ==
  ASSUME IInv, NEW p \in Proc, NEW c \in Pipes, buf'[c] = buf[c],
         Entry(p, c) = 0, UnderWay(p, c) = 0, UnderWay(p, c)' = 0
  PROVE  Kept(p, c)
BY LengthsAreNumbers DEF Kept, IInv

\* What is closed takes nothing with it from a pipe that can be read.
LEMMA ClosingKeeps ==
  ASSUME IInv, NEW c \in Pipes, buf' = Purge(table', buf), Live(ReadEnd(c))'
  PROVE  buf'[c] = buf[c]
BY PurgedChannel, LengthsAreNumbers DEF IInv, PosixTypeOK

\* A process that is in no call, and is in none after the step.
LEMMA CallerKeeps ==
  ASSUME IInv, NEW p \in Proc, CanCall(p), NEW c \in Pipes, buf'[c] = buf[c],
         ret'[p] # Pending \/ call'[p] \in Workload
  PROVE  Kept(p, c)
<1>1. Entry(p, c) = 0 /\ UnderWay(p, c) = 0
  BY DEF CanCall, Entry, UnderWay
<1>2. UnderWay(p, c)' = 0
  BY WorkloadAssumption DEF UnderWay
<1> QED
  BY <1>1, <1>2, IdleKeeps

\* A process that is in a call of another kind.
LEMMA OtherCallKeeps ==
  ASSUME IInv, NEW p \in Proc, NEW op, InCall(p, op), op \notin {"read", "write"},
         UNCHANGED call, NEW c \in Pipes, buf'[c] = buf[c]
  PROVE  Kept(p, c)
<1>1. Entry(p, c) = 0 /\ UnderWay(p, c) = 0 /\ UnderWay(p, c)' = 0
  BY DEF InCall, Entry, UnderWay
<1> QED
  BY <1>1, IdleKeeps

LEMMA fd_readKeeps ==
  ASSUME IInv, NEW p \in Proc, fd_read(p), NEW c \in Pipes, Live(ReadEnd(c))'
  PROVE  Kept(p, c)
<1> DEFINE e == EndOf(p, call[p].fd)
           r == SysRead(e, call[p].len)
<1>1. call[p].len \in Nat
  BY CallTypes DEF fd_read, InCall, IInv
<1>2. e \in Ends \cup {None}
  BY EndOfType DEF IInv
<1>3. r.n \in Results /\ (r.n > 0 => e \in ReadEnds /\ r.n \in 1..Len(buf[e[1]]))
  BY <1>1, <1>2, SysReadResult DEF IInv
<1>4. /\ InCall(p, "read")
      /\ ret'[p] = PhpRead(r)
      /\ UNCHANGED <<alive, table, call>>
      /\ buf' = IF r.n > 0 THEN Purge(table', Drained(e[1], r.n)) ELSE buf
  BY DEF fd_read, Return, IInv, CallsOK
<1>5. UnderWay(p, c) = 0 /\ UnderWay(p, c)' = 0
  BY <1>4 DEF InCall, UnderWay
<1>6. Entry(p, c) = IF e \in {ReadEnd(c), WriteEnd(c)} /\ r.n > 0 THEN 0 - r.n ELSE 0
  <2>1. PhpRead(r).kind \in {"true", "false", "null"} \/ (r.n > 0 /\ PhpRead(r) = Value("string", r.n))
    BY <1>3 DEF PhpRead, True, False, Null, Value, Results
  <2>2. r.n > 0 => PhpRead(r) = Value("string", r.n)
    BY <1>3 DEF PhpRead, Results
  <2>3. p \in alive /\ p \in alive' /\ ret[p] = Pending /\ call[p].op = "read"
    BY <1>4 DEF InCall
  <2> HIDE DEF r
  <2> QED
    BY <1>4, <2>1, <2>2, <2>3 DEF Entry, Value
<1>7. CASE ~(r.n > 0)
  <2> HIDE DEF e, r
  <2> QED
    BY <1>4, <1>5, <1>6, <1>7, IdleKeeps
<1>8. CASE r.n > 0
  <2>1. e \in ReadEnds /\ e[1] \in Chan /\ e = ReadEnd(e[1]) /\ r.n \in 1..Len(buf[e[1]])
    BY <1>3, <1>8, EndFacts
  <2>2. buf \in Buffers /\ c \in Chan /\ Len(buf[c]) \in Nat
    BY LengthsAreNumbers DEF IInv, PosixTypeOK
  <2>3. /\ Drained(e[1], r.n) \in Buffers
        /\ \A d \in Chan \ {e[1]} : Drained(e[1], r.n)[d] = buf[d]
        /\ Len(Drained(e[1], r.n)[e[1]]) = Len(buf[e[1]]) - r.n
    <3> HIDE DEF e, r
    <3> QED
      BY <2>1, <2>2, DrainedProperties
  <2>4. buf'[c] = Drained(e[1], r.n)[c]
    <3> HIDE DEF e, r
    <3> QED
      BY <1>4, <1>8, <2>2, <2>3, PurgedChannel
  <2>5. e \in {ReadEnd(c), WriteEnd(c)} <=> e[1] = c
    <3> HIDE DEF e, r
    <3> QED
      BY <2>1 DEF ReadEnd, WriteEnd
  <2> HIDE DEF e, r
  <2> QED
    BY <1>3, <1>5, <1>6, <1>8, <2>1, <2>2, <2>3, <2>4, <2>5 DEF Kept
<1> QED
  BY <1>7, <1>8

\* Bytes that p puts in through a write end, of which n0 were there before.
LEMMA FilledLength ==
  ASSUME IInv, NEW e \in WriteEnds, NEW n \in 0..Room(e[1]), NEW c \in Pipes
  PROVE  Len(Filled(e[1], n)[c]) = Len(buf[c]) + IF e = WriteEnd(c) THEN n ELSE 0
<1> DEFINE more == [i \in 1..n |-> None]
<1>1. e[1] \in Chan /\ e = WriteEnd(e[1])
  BY EndFacts
<1>2. n \in Nat
  <2>1. Len(buf[e[1]]) \in Nat
    BY <1>1 DEF IInv, PosixTypeOK, Buffers
  <2> QED
    BY <2>1, PosixAssumption DEF Room
<1>3. more \in Seq(Item) /\ Len(more) = n
  BY <1>2, PlainBytes
<1>4. Filled(e[1], n) = Joined(e[1], more)
  BY DEF Filled, Joined
<1>5. c \in Chan /\ Len(buf[c]) \in Nat /\ buf \in Buffers
  BY LengthsAreNumbers DEF IInv, PosixTypeOK
<1>6. e = WriteEnd(c) <=> e[1] = c
  BY <1>1 DEF WriteEnd
<1> HIDE DEF more
<1>7. /\ \A d \in Chan \ {e[1]} : Joined(e[1], more)[d] = buf[d]
      /\ Len(Joined(e[1], more)[e[1]]) = Len(buf[e[1]]) + Len(more)
  BY <1>1, <1>3, <1>5, JoinedProperties
<1>8. CASE e[1] = c
  BY <1>3, <1>4, <1>6, <1>7, <1>8
<1>9. CASE e[1] # c
  <2>1. Filled(e[1], n)[c] = buf[c]
    BY <1>4, <1>5, <1>7, <1>9
  <2>2. e # WriteEnd(c)
    BY <1>6, <1>9
  <2> QED
    BY <1>5, <2>1, <2>2
<1> QED
  BY <1>8, <1>9

LEMMA fd_writeKeeps ==
  ASSUME IInv, NEW p \in Proc, fd_write(p), NEW c \in Pipes
  PROVE  Kept(p, c)
<1> DEFINE e == EndOf(p, call[p].fd)
           done == call[p].done
           len == call[p].len
           r == SysWrite(e, len, done)
<1>1. len \in Nat /\ done \in 0..len /\ done \in Nat
  BY CallTypes DEF fd_write, InCall, IInv
<1>2. e \in Ends \cup {None}
  BY EndOfType DEF IInv
<1>3. /\ r.n \in Results
      /\ r.n > 0 => e \in WriteEnds /\ r.n - done \in 0..Room(e[1])
  BY <1>1, <1>2, SysWriteResult DEF IInv, Resources
<1>4. e \in WriteEnds /\ ~(r.n > 0) => done = 0
  <2>1. e \in WriteEnds => Accepted(e, len, done) \in Nat
    <3>1. e \in WriteEnds => Accepted(e, len, done) \in 0..Room(e[1]) /\ Room(e[1]) \in Nat
      BY <1>1, AcceptedRange DEF IInv, Resources
    <3> QED
      BY <3>1
  <2> QED
    BY <1>1, <2>1 DEF SysWrite, Done, Failed
<1>5. e \notin WriteEnds => r.n = -1
  BY DEF SysWrite, Failed
<1>6. /\ p \in alive /\ p \in alive' /\ ret[p] = Pending /\ call[p].op = "write"
      /\ ret'[p] = PhpWrite(r)
      /\ buf' = IF r.n > 0 THEN Filled(e[1], r.n - done) ELSE buf
  BY DEF fd_write, InCall, Return, IInv, CallsOK
<1>7. Entry(p, c) = IF e \in {ReadEnd(c), WriteEnd(c)} /\ r.n > 0 THEN r.n ELSE 0
  <2>1. r.n = -1 \/ PhpWrite(r) = Value("long", r.n)
    BY <1>3 DEF PhpWrite, Long, Results
  <2>2. r.n = -1 => PhpWrite(r).kind \in {"true", "false", "null"}
    BY DEF PhpWrite, True, False, Null, Value
  <2> HIDE DEF r
  <2> QED
    BY <1>3, <1>6, <2>1, <2>2 DEF Entry, Value, Results
<1>8. UnderWay(p, c) = IF e = WriteEnd(c) THEN done ELSE 0
  BY <1>6 DEF UnderWay
<1>9. UnderWay(p, c)' = 0
  BY <1>6, AnswersAreNotPending DEF UnderWay
<1>10. c \in Chan /\ Len(buf[c]) \in Nat
  BY LengthsAreNumbers DEF IInv
<1>11. WriteEnd(c) \in WriteEnds /\ WriteEnd(c) # ReadEnd(c) /\ ReadEnd(c) \notin WriteEnds
  BY <1>10, EndFacts DEF ReadEnd, WriteEnd, WriteEnds
<1>12. CASE ~(r.n > 0)
  <2> HIDE DEF e, r, done, len
  <2> QED
    BY <1>4, <1>6, <1>7, <1>8, <1>9, <1>10, <1>11, <1>12 DEF Kept
<1>13. CASE r.n > 0
  <2>1. Len(buf'[c]) = Len(buf[c]) + IF e = WriteEnd(c) THEN r.n - done ELSE 0
    <3> HIDE DEF e, r, done, len
    <3> QED
      BY <1>3, <1>6, <1>13, FilledLength
  <2> HIDE DEF e, r, done, len
  <2> QED
    BY <1>1, <1>3, <1>7, <1>8, <1>9, <1>10, <1>11, <1>13, <2>1 DEF Kept, Results
<1> QED
  BY <1>12, <1>13

LEMMA WriteProgressKeeps ==
  ASSUME IInv, NEW p \in Proc, WriteProgress(p), NEW c \in Pipes
  PROVE  Kept(p, c)
<1> DEFINE e == EndOf(p, call[p].fd)
           n == Accepted(e, call[p].len, call[p].done)
<1>1. call[p].len \in Nat /\ call[p].done \in 0..call[p].len /\ call[p].op = "write"
  BY CallTypes DEF WriteProgress, InCall, IInv
<1>2. e \in WriteEnds
  BY DEF WriteProgress, WriteSleeps
<1>3. n \in 0..Room(e[1]) /\ Room(e[1]) \in Nat
  BY <1>1, <1>2, AcceptedRange DEF IInv, Resources
<1>4. /\ p \in alive /\ p \in alive' /\ ret[p] = Pending
      /\ buf' = Filled(e[1], n)
      /\ call' = [call EXCEPT ![p].done = @ + n]
      /\ UNCHANGED <<table, ret>>
  BY DEF WriteProgress, InCall
<1>5. call'[p].op = "write" /\ call'[p].fd = call[p].fd /\ call'[p].done = call[p].done + n
  <2>1. call \in [Proc -> SleepingCalls \cup {Idle}]
    BY DEF IInv, CallsOK
  <2>2. call[p] \in [op : {"write"}, fd : FdArg, len : Nat, done : Nat]
    BY <1>1, <2>1 DEF SleepingCalls, Idle
  <2> HIDE DEF n
  <2> QED
    BY <1>1, <1>4, <2>1, <2>2
<1>6. Entry(p, c) = 0
  BY <1>4 DEF Entry, Pending, Value
<1>7. UnderWay(p, c) = IF e = WriteEnd(c) THEN call[p].done ELSE 0
  BY <1>1, <1>4 DEF UnderWay
<1>8. UnderWay(p, c)' = IF e = WriteEnd(c) THEN call[p].done + n ELSE 0
  <2>1. EndOf(p, call[p].fd)' = e
    BY <1>4, <1>5 DEF EndOf
  <2> QED
    BY <1>4, <1>5, <2>1 DEF UnderWay
<1>9. Len(buf[c]) \in Nat
  BY LengthsAreNumbers DEF IInv
<1> HIDE DEF e, n
<1>10. Len(buf'[c]) = Len(buf[c]) + IF e = WriteEnd(c) THEN n ELSE 0
  BY <1>2, <1>3, <1>4, FilledLength
<1> QED
  BY <1>1, <1>3, <1>6, <1>7, <1>8, <1>9, <1>10 DEF Kept

\* A pipe is no socket: sendmsg and recvmsg leave it alone.
LEMMA fd_control_writefdKeeps ==
  ASSUME IInv, NEW p \in Proc, fd_control_writefd(p), NEW c \in Pipes
  PROVE  Kept(p, c)
<1> DEFINE e == EndOf(p, call[p].fd)
           right == EndOf(p, call[p].send)
           r == SysSendmsg(e, right)
<1>1. InCall(p, "writefd") /\ UNCHANGED call /\ buf' = Sent(e, right, r)
  BY DEF fd_control_writefd
<1>2. r.n >= 0 => e[1] # c
  BY DEF SysSendmsg, Failed
<1>3. buf'[c] = buf[c]
  BY <1>1, <1>2, LengthsAreNumbers DEF Sent, IInv, PosixTypeOK, Buffers
<1> QED
  BY <1>1, <1>3, OtherCallKeeps

LEMMA fd_control_readfdKeeps ==
  ASSUME IInv, NEW p \in Proc, fd_control_readfd(p), NEW c \in Pipes, Live(ReadEnd(c))'
  PROVE  Kept(p, c)
<1> DEFINE e == EndOf(p, call[p].fd)
           r == SysRecvmsg(e)
           left == IF r.n = 1 THEN Drained(e[1], 1) ELSE buf
<1>1. InCall(p, "readfd") /\ UNCHANGED call /\ buf' = Purge(table', left)
  BY DEF fd_control_readfd
<1>2. e \in Ends \cup {None}
  BY EndOfType DEF IInv
<1>3. r.n > 0 => e \in ReadEnds /\ buf[e[1]] # <<>>
  BY <1>2, SysRecvmsgResult DEF IInv
<1>4. buf \in Buffers /\ c \in Chan
  BY LengthsAreNumbers DEF IInv, PosixTypeOK
<1>5. left \in Buffers /\ left[c] = buf[c]
  <2>1. CASE r.n # 1
    BY <1>4, <2>1
  <2>2. CASE r.n = 1
    <3>1. e \in ReadEnds /\ e[1] \in Chan /\ buf[e[1]] # <<>>
      BY <1>3, <2>2, EndFacts
    <3>2. e[1] # c
      BY <2>2, <3>1 DEF SysRecvmsg, Failed
    <3>3. 1 \in 1..Len(buf[e[1]])
      BY <1>4, <3>1, EmptySeq DEF Buffers
    <3> HIDE DEF e, r
    <3> QED
      BY <1>4, <2>2, <3>1, <3>2, <3>3, DrainedProperties
  <2> QED
    BY <2>1, <2>2
<1> HIDE DEF e, r, left
<1>6. buf'[c] = buf[c]
  BY <1>1, <1>4, <1>5, PurgedChannel
<1> QED
  BY <1>1, <1>6, OtherCallKeeps

\* A signal finds a write that cannot go on: what it put in before is reported.
LEMMA InterruptKeeps ==
  ASSUME IInv, NEW p \in Proc, Interrupt(p), NEW c \in Pipes
  PROVE  Kept(p, c)
<1> DEFINE e == EndOf(p, call[p].fd)
           done == call[p].done
<1>1. p \in alive /\ ret[p] = Pending /\ UNCHANGED <<posixVars, call>> /\ buf'[c] = buf[c] /\ p \in alive'
  BY DEF Interrupt, InCall, posixVars
<1>2. CASE InCall(p, "read") /\ Return(p, PhpRead(Failed("EINTR")))
  <2>1. ret'[p] = False
    BY <1>2 DEF Return, PhpRead, Failed, IInv, CallsOK
  <2>2. call[p].op = "read"
    BY <1>2 DEF InCall
  <2>3. Entry(p, c) = 0 /\ UnderWay(p, c) = 0 /\ UnderWay(p, c)' = 0
    BY <1>1, <2>1, <2>2 DEF Entry, UnderWay, False, Value
  <2> QED
    BY <1>1, <2>3, IdleKeeps
<1>3. CASE /\ InCall(p, "write")
           /\ WriteSleeps(e, call[p].len, done)
           /\ Return(p, PhpWrite(IF done > 0 THEN Done(done) ELSE Failed("EINTR")))
  <2>1. done \in Nat /\ call[p].op = "write" /\ e \in WriteEnds
    BY <1>3, CallTypes DEF InCall, IInv, WriteSleeps
  <2>2. ret'[p] = IF done > 0 THEN Long(done) ELSE False
    BY <1>3, <2>1 DEF Return, PhpWrite, Done, Failed, IInv, CallsOK
  <2>3. UnderWay(p, c) = IF e = WriteEnd(c) THEN done ELSE 0
    BY <1>1, <2>1 DEF UnderWay
  <2>4. ret'[p] # Pending
    BY <2>2, AnswersAreNotPending
  <2>5. UnderWay(p, c)' = 0
    BY <2>4 DEF UnderWay
  <2>6. e # ReadEnd(c)
    BY <2>1 DEF WriteEnds, ReadEnd
  <2>7. Entry(p, c) = IF e = WriteEnd(c) THEN done ELSE 0
    BY <1>1, <2>1, <2>2, <2>6 DEF Entry, Long, False, Value
  <2>8. Len(buf[c]) \in Nat
    BY LengthsAreNumbers DEF IInv
  <2> HIDE DEF e, done
  <2> QED
    BY <1>1, <2>1, <2>3, <2>5, <2>7, <2>8 DEF Kept
<1>4. CASE InCall(p, "writefd") \/ InCall(p, "readfd")
  BY <1>1, <1>4, OtherCallKeeps
<1> QED
  BY <1>2, <1>3, <1>4 DEF Interrupt

\* The functions that never sleep, a call that is made and a fork.
LEMMA CallersKeep ==
  ASSUME IInv, NEW p \in Proc, NEW c \in Pipes, Live(ReadEnd(c))',
         Invoke(p) \/ fd_close(p) \/ fd_dup2(p) \/ fd_pipe(p) \/ omni_pipe(p)
           \/ fd_control_pipe(p) \/ fd_set_blocking(p) \/ Fork(p)
  PROVE  Kept(p, c)
<1>1. CanCall(p)
  BY DEF Invoke, fd_close, fd_dup2, fd_pipe, omni_pipe, fd_control_pipe, Calls,
    fd_set_blocking, Fork
<1>2. call \in [Proc -> SleepingCalls \cup {Idle}] /\ ret \in [Proc -> Answers]
  BY DEF IInv, CallsOK
<1>3. CASE Invoke(p)
  <2>1. buf'[c] = buf[c] /\ call'[p] \in Workload
    BY <1>2, <1>3 DEF Invoke, posixVars
  <2> QED
    BY <1>1, <2>1, CallerKeeps
<1>4. ASSUME NEW v, v # Pending, Answer(p, v), buf' = buf \/ buf' = Purge(table', buf)
      PROVE  Kept(p, c)
  <2>1. ret'[p] # Pending
    BY <1>2, <1>4 DEF Answer, Return
  <2>2. buf'[c] = buf[c]
    BY <1>4, ClosingKeeps
  <2> QED
    BY <1>1, <2>1, <2>2, CallerKeeps
<1>5. CASE fd_close(p)
  BY <1>4, <1>5, AnswersAreNotPending DEF fd_close, Closed
<1>6. CASE fd_dup2(p)
  BY <1>4, <1>6, AnswersAreNotPending DEF fd_dup2
<1>7. CASE fd_pipe(p) \/ omni_pipe(p) \/ fd_control_pipe(p)
  <2>1. PICK S : CreateChannel(p, S)
    BY <1>7 DEF fd_pipe, omni_pipe, fd_control_pipe
  <2>2. PICK v : v # Pending /\ Answer(p, v)
    BY <2>1, AnswersAreNotPending DEF CreateChannel, Pending, Value
  <2>3. buf' = buf
    BY <2>1 DEF CreateChannel, Allocated, posixVars
  <2> QED
    BY <1>4, <2>2, <2>3
<1>8. CASE fd_set_blocking(p)
  BY <1>4, <1>8, AnswersAreNotPending DEF fd_set_blocking
<1>9. CASE Fork(p)
  <2>1. PICK q \in Proc \ alive : Forked(p, q) /\ ret' = [ret EXCEPT ![q] = Nothing]
    BY <1>9 DEF Fork
  <2>2. ret'[p] # Pending /\ buf'[c] = buf[c]
    BY <1>1, <1>2, <2>1 DEF CanCall, Forked
  <2> QED
    BY <1>1, <2>2, CallerKeeps
<1> QED
  BY <1>3, <1>5, <1>6, <1>7, <1>8, <1>9

\* A process that dies in a write has put in what it has put in.
LEMMA ExitKeeps ==
  ASSUME IInv, WritesToWriteEnds, NEW p \in Proc, Exit(p), NEW c \in Pipes, Live(ReadEnd(c))'
  PROVE  Kept(p, c)
<1> DEFINE e == EndOf(p, call[p].fd)
<1>1. p \in alive /\ p \notin alive' /\ buf' = Purge(table', buf) /\ ret'[p] = Nothing
  BY DEF Exit, Exited, IInv, CallsOK
<1>2. buf'[c] = buf[c]
  BY <1>1, ClosingKeeps
<1>3. UnderWay(p, c)' = 0
  BY <1>1, AnswersAreNotPending DEF UnderWay
<1>4. ret[p] = Pending /\ call[p].op = "write" /\ e = ReadEnd(c) => call[p].done = 0
  BY <1>1, EndFacts DEF WritesToWriteEnds, ReadEnd, WriteEnds
<1>5. Entry(p, c) = UnderWay(p, c)
  <2>1. ReadEnd(c) # WriteEnd(c)
    BY DEF ReadEnd, WriteEnd
  <2> QED
    BY <1>1, <1>4, <2>1 DEF Entry, UnderWay
<1>6. Len(buf[c]) \in Nat /\ UnderWay(p, c) \in Nat
  BY LengthsAreNumbers, UnderWayIsANumber DEF IInv
<1> QED
  BY <1>2, <1>3, <1>5, <1>6 DEF Kept

LEMMA fd_selectKeeps ==
  ASSUME IInv, NEW p \in Proc, fd_select(p), NEW c \in Pipes
  PROVE  Kept(p, c)
<1>1. InCall(p, "select") /\ UNCHANGED call /\ buf'[c] = buf[c]
  BY DEF fd_select, posixVars
<1> QED
  BY <1>1, OtherCallKeeps

\* Whatever p does to a pipe that can be read after it.
LEMMA ReadableKept ==
  ASSUME IInv, WritesToWriteEnds, NEW p \in Proc, Step(p), NEW c \in Pipes, Live(ReadEnd(c))'
  PROVE  Kept(p, c)
BY CallersKeep, ExitKeeps, fd_readKeeps, fd_writeKeeps, WriteProgressKeeps, fd_selectKeeps,
   fd_control_writefdKeeps, fd_control_readfdKeeps, InterruptKeeps
DEF Step, Proceed

LEMMA NothingIsUncreated ==
  ASSUME NEW p \in Proc, Step(p)
  PROVE  created \subseteq created'
<1>1. Fork(p) => UNCHANGED created
  BY DEF Fork, Forked
<1>2. fd_pipe(p) \/ omni_pipe(p) \/ fd_control_pipe(p) => created \subseteq created'
  BY DEF fd_pipe, omni_pipe, fd_control_pipe, CreateChannel, Allocated, posixVars
<1>3. Proceed(p) => UNCHANGED created
  BY DEF Proceed, fd_read, fd_write, WriteProgress, fd_control_writefd, fd_control_readfd,
    fd_select, posixVars
<1>4. fd_close(p) \/ fd_dup2(p) \/ fd_set_blocking(p) \/ Exit(p) => UNCHANGED created
  BY DEF fd_close, fd_dup2, fd_set_blocking, Exit, Exited
<1>5. Invoke(p) \/ Interrupt(p) => UNCHANGED created
  BY DEF Invoke, Interrupt, posixVars
<1> QED
  BY <1>1, <1>2, <1>3, <1>4, <1>5 DEF Step

\* A pipe that does not exist yet.
LEMMA UncreatedKept ==
  ASSUME IInv, IInv', NEW p \in Proc, Step(p), NEW c \in Pipes, c \notin created'
  PROVE  Kept(p, c)
<1>1. c \notin created
  BY NothingIsUncreated
<1>2. /\ c \in Chan /\ ReadEnd(c) \in Ends /\ WriteEnd(c) \in Ends
      /\ ReadEnd(c)[1] = c /\ WriteEnd(c)[1] = c
  BY EndFacts, LengthsAreNumbers DEF IInv, ReadEnd, WriteEnd
<1>3. ~Live(ReadEnd(c)) /\ ~Live(WriteEnd(c)) /\ buf[c] = <<>>
  BY <1>1, <1>2 DEF IInv, Resources, OnlyCreated, ReadersLeft
<1>4. ~Live(ReadEnd(c))' /\ ~Live(WriteEnd(c))' /\ buf'[c] = <<>>
  BY <1>2 DEF IInv, Resources, OnlyCreated, ReadersLeft
<1>5. \A fd : EndOf(p, fd) \notin {ReadEnd(c), WriteEnd(c)}
  BY <1>2, <1>3, EndFacts DEF EndOf, Live, Held
<1>6. EndOf(p, call[p].fd)' # WriteEnd(c)
  BY <1>2, <1>4, EndFacts DEF EndOf, Live, Held
<1>7. Entry(p, c) = 0 /\ UnderWay(p, c) = 0 /\ UnderWay(p, c)' = 0
  BY <1>5, <1>6 DEF Entry, UnderWay
<1> QED
  BY <1>3, <1>4, <1>7, IdleKeeps

-----------------------------------------------------------------------------
(* What a step of p leaves of the books of the others.                     *)

LEMMA OthersHaveNoEntry ==
  ASSUME IInv, NEW p \in Proc, OthersUntouched(p), NEW q \in Proc \ {p}, NEW c
  PROVE  Entry(q, c) = 0
BY DEF OthersUntouched, Untouched, Entry, Pending, Value

LEMMA OthersStayUnderWay ==
  ASSUME IInv, NEW p \in Proc, OthersUntouched(p), NEW q \in Proc \ {p}, NEW c \in Pipes
  PROVE  UnderWay(q, c)' = UnderWay(q, c)
<1>1. CASE Untouched(q)
  BY <1>1 DEF Untouched, UnderWay, EndOf
<1>2. CASE q \notin alive /\ ret'[q] = Nothing
  <2>1. UnderWay(q, c)' = 0
    BY <1>2, AnswersAreNotPending DEF UnderWay
  <2>2. EndOf(q, call[q].fd) # WriteEnd(c)
    BY <1>2, EndFacts, LengthsAreNumbers DEF IInv, Resources, DeadHoldNothing, EndOf
  <2> QED
    BY <2>1, <2>2 DEF UnderWay
<1> QED
  BY <1>1, <1>2 DEF OthersUntouched

-----------------------------------------------------------------------------
(* The books.                                                              *)

LEMMA BalanceStep ==
  ASSUME IInv, IInv', NothingReopens, WritesToWriteEnds, moved \in [Pipes -> Int],
         NEW p \in Proc, Step(p), NEW c \in Pipes, Balanced(c),
         moved'[c] = moved[c] + SumFunction([q \in Proc |-> Entry(q, c)])
  PROVE  Balanced(c)'
<1> DEFINE entries == [q \in Proc |-> Entry(q, c)]
           now == [q \in Proc |-> UnderWay(q, c)]
           later == [q \in Proc |-> UnderWay(q, c)']
<1> SUFFICES ASSUME (Live(ReadEnd(c)) \/ c \notin created)'
             PROVE  Len(buf'[c]) = moved'[c] + SumFunction(later)
  BY DEF Balanced
<1>1. OthersUntouched(p)
  BY Locality DEF Step
<1>2. Kept(p, c)
  BY ReadableKept, UncreatedKept
<1>3. Len(buf[c]) = moved[c] + SumFunction(now)
  <2>1. ReadEnd(c) \in Ends /\ ReadEnd(c)[1] = c
    BY EndFacts, LengthsAreNumbers DEF IInv, ReadEnd
  <2>2. Live(ReadEnd(c)) \/ c \notin created
    BY <2>1, NothingIsUncreated DEF NothingReopens
  <2> QED
    BY <2>2 DEF Balanced
<1>4. entries \in [Proc -> Int] /\ now \in [Proc -> Int] /\ now[p] \in Nat /\ entries[p] \in Int
  BY EntryIsANumber, UnderWayIsANumber
<1>5. later \in [Proc -> Int] /\ later[p] \in Nat
  <2>1. ASSUME NEW q \in Proc
        PROVE  UnderWay(q, c)' \in Nat
    <3>1. call'[q] \in SleepingCalls \cup {Idle}
      BY DEF IInv, CallsOK
    <3>2. call'[q].op = "write" => call'[q].done \in Nat
      BY <3>1 DEF SleepingCalls, Idle
    <3> QED
      BY <3>2 DEF UnderWay
  <2> QED
    BY <2>1
<1>6. \A q \in Proc \ {p} : entries[q] = 0 /\ later[q] = now[q]
  BY <1>1, OthersHaveNoEntry, OthersStayUnderWay
<1>7. entries[p] = Entry(p, c) /\ now[p] = UnderWay(p, c) /\ later[p] = UnderWay(p, c)'
  OBVIOUS
<1>8. moved'[c] = moved[c] + SumFunction(entries) /\ moved[c] \in Int
  OBVIOUS
<1>9. Len(buf[c]) \in Nat /\ Len(buf'[c]) \in Nat
  <2>1. buf'[c] \in Seq(Item)
    BY DEF IInv, PosixTypeOK, Buffers, Chan
  <2> QED
    BY <2>1, LengthsAreNumbers DEF IInv
<1> HIDE DEF entries, now, later
<1>10. SumFunction(entries) = entries[p]
  BY <1>4, <1>6, SumOfOne, FiniteAssumption
<1>11. SumFunction(later) = SumFunction(now) + later[p] - now[p] /\ SumFunction(now) \in Int
  BY <1>4, <1>5, <1>6, SumOfUpdated, SumOfIntegers, FiniteAssumption
<1>12. Len(buf'[c]) + now[p] = Len(buf[c]) + entries[p] + later[p]
  BY <1>2, <1>7 DEF Kept
<1> DEFINE held == Len(buf[c])
           holds == Len(buf'[c])
           sum == SumFunction(now)
           entry == entries[p]
           done == now[p]
           does == later[p]
<1>13. /\ held \in Int /\ holds \in Int /\ sum \in Int /\ entry \in Int /\ done \in Int
       /\ does \in Int /\ moved[c] \in Int
  BY <1>4, <1>5, <1>8, <1>9, <1>11
<1>14. held = moved[c] + sum /\ holds + done = held + entry + does
  BY <1>3, <1>12
<1>15. moved'[c] = moved[c] + entry /\ SumFunction(later) = sum + does - done
  BY <1>8, <1>10, <1>11
<1> SUFFICES holds = moved'[c] + SumFunction(later)
  OBVIOUS
<1> HIDE DEF held, holds, sum, entry, done, does
<1> QED
  BY <1>13, <1>14, <1>15

\* Every step of a process but a call, a part of a write and a fork leaves it in
\* no call.
LEMMA NoLongerPending ==
  ASSUME IInv, NEW p \in Proc, Step(p), ~Invoke(p), ~WriteProgress(p), ~Fork(p)
  PROVE  ret'[p] # Pending
<1>0. \A v : v # Pending /\ Return(p, v) => ret'[p] # Pending
  BY DEF Return, IInv, CallsOK
<1>1. fd_read(p) \/ fd_write(p) \/ fd_control_writefd(p) => ret'[p] # Pending
  BY <1>0, AnswersAreNotPending DEF fd_read, fd_write, fd_control_writefd
<1>2. fd_control_readfd(p) \/ Interrupt(p) => ret'[p] # Pending
  BY <1>0, AnswersAreNotPending DEF fd_control_readfd, Interrupt
<1>3. fd_select(p) => ret'[p] # Pending
  <2> SUFFICES ASSUME fd_select(p)
               PROVE  ret'[p] # Pending
    OBVIOUS
  <2>1. PICK v : v # Pending /\ Return(p, v)
    BY DEF fd_select, SelectArray, Pending, Value
  <2> QED
    BY <1>0, <2>1
<1>4. fd_close(p) \/ fd_dup2(p) \/ fd_set_blocking(p) => ret'[p] # Pending
  BY <1>0, AnswersAreNotPending DEF fd_close, fd_dup2, fd_set_blocking, Answer
<1>5. fd_pipe(p) \/ omni_pipe(p) \/ fd_control_pipe(p) => ret'[p] # Pending
  <2> SUFFICES ASSUME NEW S, CreateChannel(p, S)
               PROVE  ret'[p] # Pending
    BY DEF fd_pipe, omni_pipe, fd_control_pipe
  <2>1. PICK v : v # Pending /\ Answer(p, v)
    BY AnswersAreNotPending DEF CreateChannel, Pending, Value
  <2> QED
    BY <1>0, <2>1 DEF Answer
<1>6. Exit(p) => ret'[p] # Pending
  BY AnswersAreNotPending DEF Exit, IInv, CallsOK
<1> QED
  BY <1>1, <1>2, <1>3, <1>4, <1>5, <1>6 DEF Step, Proceed

LEMMA WriteEndsStep ==
  ASSUME IInv, IInv', WritesToWriteEnds, NEW p \in Proc, Step(p)
  PROVE  WritesToWriteEnds'
<1> SUFFICES ASSUME NEW q \in alive', ret'[q] = Pending, call'[q].op = "write",
                    call'[q].done # 0
             PROVE  EndOf(q, call[q].fd)' \in WriteEnds
  BY DEF WritesToWriteEnds
<1>0. /\ q \in Proc /\ OthersUntouched(p)
      /\ call \in [Proc -> SleepingCalls \cup {Idle}] /\ ret \in [Proc -> Answers]
  BY Locality DEF Step, IInv, PosixTypeOK, CallsOK
<1>1. CASE Untouched(q)
  BY <1>1 DEF Untouched, WritesToWriteEnds, EndOf
<1>2. CASE q = p /\ Invoke(p)
  BY <1>0, <1>2, WorkloadAssumption DEF Invoke
<1>3. CASE q = p /\ WriteProgress(p)
  <2>1. EndOf(p, call[p].fd) \in WriteEnds /\ UNCHANGED table
    BY <1>3 DEF WriteProgress, WriteSleeps
  <2>2. call'[p].fd = call[p].fd
    BY <1>0, <1>3 DEF WriteProgress
  <2> QED
    BY <1>3, <2>1, <2>2 DEF EndOf
<1>4. CASE q = p /\ Fork(p)
  <2>1. ret'[p] = ret[p]
    BY <1>0, <1>4 DEF Fork, CanCall
  <2> QED
    BY <1>4, <2>1 DEF Fork, CanCall
<1>5. CASE q = p /\ ~Invoke(p) /\ ~WriteProgress(p) /\ ~Fork(p)
  BY <1>0, <1>5, NoLongerPending
<1>6. CASE q # p /\ ~Untouched(q)
  BY <1>0, <1>6, AnswersAreNotPending DEF OthersUntouched
<1> QED
  BY <1>1, <1>2, <1>3, <1>4, <1>5, <1>6

LEMMA HistoryInitially == HistoryInit => HInv
<1> SUFFICES ASSUME HistoryInit
             PROVE  HInv
  OBVIOUS
<1>1. IInv
  BY Initially DEF HistoryInit
<1>2. moved \in [Pipes -> Int] /\ \A p \in Proc : ret[p] # Pending
  BY AnswersAreNotPending DEF HistoryInit, Init
<1>3. WritesToWriteEnds
  BY <1>1, <1>2 DEF WritesToWriteEnds, IInv, PosixTypeOK
<1>4. ASSUME NEW c \in Pipes
      PROVE  Balanced(c)
  <2> DEFINE now == [p \in Proc |-> UnderWay(p, c)]
  <2>1. now \in [Proc -> Int] /\ \A p \in Proc : now[p] = 0
    BY <1>2 DEF UnderWay
  <2>2. SumFunction(now) = 0
    <3> HIDE DEF now
    <3> QED
      BY <2>1, SumOfZeros, FiniteAssumption
  <2>3. buf[c] = <<>> /\ moved[c] = 0
    BY DEF HistoryInit, Init, PosixInit, Chan
  <2> QED
    BY <2>2, <2>3 DEF Balanced
<1> QED
  BY <1>1, <1>2, <1>3, <1>4 DEF HInv

LEMMA HistoryStep ==
  ASSUME HInv, [HistoryNext]_historyVars
  PROVE  HInv'
<1>1. CASE UNCHANGED historyVars
  <2>1. UNCHANGED vars /\ UNCHANGED moved
    BY <1>1 DEF historyVars
  <2>2. IInv'
    BY <2>1, EveryStep DEF HInv
  <2>3. WritesToWriteEnds'
    BY <2>1 DEF HInv, vars, WritesToWriteEnds, EndOf
  <2>4. ASSUME NEW c \in Pipes
        PROVE  Balanced(c)'
    <3>1. Balanced(c)
      BY DEF HInv
    <3> QED
      BY <2>1, <3>1 DEF vars, Balanced, Live, UnderWay, EndOf
  <2> QED
    BY <2>1, <2>2, <2>3, <2>4 DEF HInv
<1>2. CASE HistoryNext
  <2>1. PICK p \in Proc : Step(p)
    BY <1>2 DEF HistoryNext, Next, Step
  <2>2. IInv' /\ NothingReopens
    BY <1>2, EveryStep DEF HistoryNext, HInv
  <2>3. WritesToWriteEnds'
    BY <2>1, <2>2, WriteEndsStep DEF HInv
  <2>4. /\ \A c \in Pipes : moved'[c] = moved[c] + SumFunction([q \in Proc |-> Entry(q, c)])
        /\ moved' \in [Pipes -> Int]
    <3>1. ASSUME NEW c \in Pipes
          PROVE  SumFunction([q \in Proc |-> Entry(q, c)]) \in Int
      <4> DEFINE entries == [q \in Proc |-> Entry(q, c)]
      <4>1. entries \in [Proc -> Int]
        BY <2>2, EntryIsANumber DEF HInv
      <4> HIDE DEF entries
      <4>2. SumFunction(entries) \in Int
        BY <4>1, SumOfIntegers, FiniteAssumption
      <4> QED
        BY <4>2 DEF entries
    <3> QED
      BY <1>2, <3>1 DEF HistoryNext, HInv
  <2>5. ASSUME NEW c \in Pipes
        PROVE  Balanced(c)'
    BY <2>1, <2>2, <2>4, BalanceStep DEF HInv
  <2> QED
    BY <2>2, <2>3, <2>4, <2>5 DEF HInv
<1> QED
  BY <1>1, <1>2

LEMMA HistoryInvariance == HistorySpec => []HInv
<1> QED
  BY HistoryInitially, HistoryStep, PTL DEF HistorySpec

\* What fd_read and fd_write tell the scripts accounts for every byte of every
\* pipe, for all processes, pipes, capacities and calls.
THEOREM BooksAlwaysBalance == HistorySpec => []BooksBalance
<1>1. HInv => BooksBalance
  BY DEF HInv, Balanced, BooksBalance
<1> QED
  BY <1>1, HistoryInvariance, PTL

=============================================================================
