-------------------------------- MODULE Fd --------------------------------
(***************************************************************************)
(* The functions of fd/fd.c, and omni_pipe of omni/omni.c, called by the   *)
(* processes of the shell on descriptors they share.                       *)
(*                                                                         *)
(* A function that can sleep in the kernel is two steps: Invoke, after     *)
(* which the call is pending, and an action named for the function, which  *)
(* is the system call, the translation of its result to a PHP value and    *)
(* the return.  The other functions are one step.                          *)
(***************************************************************************)
EXTENDS Posix

CONSTANT Workload     \* the calls that the scripts make

VARIABLES
  call,     \* call[p]: the call that p has pending or was last answered
  ret       \* ret[p]: Pending, or the PHP value that p got last

vars == <<alive, table, created, buf, nonblock, call, ret>>

-----------------------------------------------------------------------------
\* Descriptor arguments: those of the table, and one beyond it on each side.
FdArg == -1..(MaxFd + 1)

\* The calls that can sleep; done counts the bytes a write has put in so far.
SleepingCalls ==
  [op : {"read"}, fd : FdArg, len : Nat]
  \cup [op : {"write"}, fd : FdArg, len : Nat, done : Nat]
  \cup [op : {"writefd"}, fd : FdArg, send : FdArg]
  \cup [op : {"readfd"}, fd : FdArg]
  \cup [op : {"select"}, read : SUBSET FdArg, write : SUBSET FdArg, except : SUBSET FdArg]

ImmediateCalls ==
  [op : {"close"}, fd : FdArg]
  \cup [op : {"dup2"}, fd : FdArg, new : FdArg]
  \cup [op : {"set_blocking"}, fd : FdArg, blocking : BOOLEAN]
  \cup [op : {"pipe", "omni_pipe", "control_pipe"}]

Idle == [op |-> "none"]

ASSUME WorkloadAssumption ==
  /\ Workload \subseteq SleepingCalls \cup ImmediateCalls
  /\ \A c \in Workload : c.op = "write" => c.done = 0

-----------------------------------------------------------------------------
(* PHP values.                                                             *)

Value(kind, n) == [kind |-> kind, n |-> n]

Pending == Value("pending", 0)
Nothing == Value("nothing", 0)
True    == Value("true", 0)
False   == Value("false", 0)
Null    == Value("null", 0)
Long(n) == Value("long", n)

Statuses == {"ready", "error", "invalid", "unknown", "false"}

StatusArrays == UNION {[S -> Statuses] : S \in SUBSET FdArg}

SelectResults ==
  [kind : {"array"}, n : Int,
   read : StatusArrays, write : StatusArrays, except : StatusArrays]

Scalars ==
  {Pending, Nothing, True, False, Null}
  \cup [kind : {"long"}, n : Int]
  \cup [kind : {"string"}, n : Nat \ {0}]

PipeResults == [kind : {"pipe"}, read : Int, write : Int]

TypeOK ==
  /\ PosixTypeOK
  /\ call \in [Proc -> SleepingCalls \cup {Idle}]
  /\ ret \in [Proc -> Scalars \cup PipeResults \cup SelectResults]

-----------------------------------------------------------------------------
InCall(p, op) == p \in alive /\ ret[p] = Pending /\ call[p].op = op

CanCall(p) == p \in alive /\ ret[p] # Pending

Return(p, v) == ret' = [ret EXCEPT ![p] = v]

\* A function that never sleeps: called and answered in one step.
Answer(p, v) == Return(p, v) /\ call' = [call EXCEPT ![p] = Idle]

\* What the scripts are assumed to do, which fd.c does not test: they use the
\* ends of a control pipe as fd_control_pipe names them, and pass descriptors of
\* pipes over one.
UsesAsNamed(p, c) ==
  /\ c.op \in {"read", "readfd"} => EndOf(p, c.fd) \notin Controls \X {"write"}
  /\ c.op \in {"write", "writefd"} => EndOf(p, c.fd) \notin Controls \X {"read"}
  /\ c.op = "writefd" => EndOf(p, c.send) \in PipeEnds \cup {None}

Invoke(p) ==
  /\ CanCall(p)
  /\ \E c \in Workload \cap SleepingCalls :
       /\ UsesAsNamed(p, c)
       /\ call' = [call EXCEPT ![p] = c]
  /\ Return(p, Pending)
  /\ UNCHANGED posixVars

-----------------------------------------------------------------------------
(* fd_read                                                                 *)

PhpRead_no_eof_test(r) ==
  IF r.n = -1 THEN IF r.errno = "EAGAIN" THEN True ELSE False
  ELSE Value("string", r.n)

PhpRead_errors_are_eof(r) == IF r.n <= 0 THEN Null ELSE Value("string", r.n)

PhpRead_off_by_one(r) ==
  IF r.n = -1 THEN IF r.errno = "EAGAIN" THEN True ELSE False
  ELSE IF r.n <= 1 THEN Null
  ELSE Value("string", r.n)

PhpRead(r) ==
  IF r.n = -1 THEN IF r.errno = "EAGAIN" THEN True ELSE False
  ELSE IF r.n = 0 THEN Null
  ELSE Value("string", r.n)

fd_read(p) ==
  LET e == EndOf(p, call[p].fd)
      r == SysRead(e, call[p].len)
  IN  /\ InCall(p, "read")
      /\ ~ReadSleeps(e, call[p].len)
      /\ Return(p, PhpRead(r))
      /\ buf' = IF r.n > 0 THEN Purge(table, Drained(e[1], r.n)) ELSE buf
      /\ UNCHANGED <<alive, table, created, nonblock, call>>

-----------------------------------------------------------------------------
(* fd_write                                                                *)

PhpWrite_errors_are_broken_pipes(r) ==
  IF r.n = -1 THEN IF r.errno = "EAGAIN" THEN True ELSE Null ELSE Long(r.n)

PhpWrite(r) ==
  IF r.n = -1
  THEN IF r.errno = "EAGAIN" THEN True ELSE IF r.errno = "EPIPE" THEN Null ELSE False
  ELSE Long(r.n)

fd_write(p) ==
  LET c == call[p]
      e == EndOf(p, c.fd)
      r == SysWrite(e, c.len, c.done)
  IN  /\ InCall(p, "write")
      /\ ~WriteSleeps(e, c.len, c.done)
      /\ Return(p, PhpWrite(r))
      /\ buf' = IF r.n > 0 THEN Filled(e[1], r.n - c.done) ELSE buf
      /\ UNCHANGED <<alive, table, created, nonblock, call>>

\* A write that will sleep puts in what fits first.
WriteProgress(p) ==
  LET c == call[p]
      e == EndOf(p, c.fd)
      n == Accepted(e, c.len, c.done)
  IN  /\ InCall(p, "write")
      /\ WriteSleeps(e, c.len, c.done)
      /\ n > 0
      /\ buf' = Filled(e[1], n)
      /\ call' = [call EXCEPT ![p].done = @ + n]
      /\ UNCHANGED <<alive, table, created, nonblock, ret>>

-----------------------------------------------------------------------------
(* fd_control_writefd, fd_control_readfd and the library below them        *)

\* ancil_send_fd: one byte that carries the descriptor.
ancil_send_fd(r) == IF r.n >= 0 THEN 0 ELSE -1

PhpControlWrite(result) == IF result < 0 THEN False ELSE True

Sent_regardless(e, right, r) ==
  IF e \in WriteEnds THEN [buf EXCEPT ![e[1]] = Append(@, right)] ELSE buf

\* Mutated: sendmsg is told MSG_OOB, and the message passes those that wait.
Sent_out_of_band(e, right, r) ==
  IF r.n >= 0 THEN [buf EXCEPT ![e[1]] = <<right>> \o @] ELSE buf

\* The buffers after the message.
Sent(e, right, r) ==
  IF r.n >= 0 THEN [buf EXCEPT ![e[1]] = Append(@, right)] ELSE buf

fd_control_writefd(p) ==
  LET e     == EndOf(p, call[p].fd)
      right == EndOf(p, call[p].send)
      r     == SysSendmsg(e, right)
  IN  /\ InCall(p, "writefd")
      /\ ~SendSleeps(e, right)
      /\ Return(p, PhpControlWrite(ancil_send_fd(r)))
      /\ buf' = Sent(e, right, r)
      /\ UNCHANGED <<alive, table, created, nonblock, call>>

ancil_recv_fds_with_buffer_not_copied(r, stored) ==
  IF r.n < 0 THEN [count |-> -1, fd |-> -1] ELSE [count |-> 1, fd |-> -1]

\* ancil_recv_fds_with_buffer for one descriptor: the number of descriptors
\* is what cmsg_len says, which was set for one before the call and stays so
\* when the system stores no control message; the slot then keeps its -1.
ancil_recv_fds_with_buffer(r, stored) ==
  IF r.n < 0 THEN [count |-> -1, fd |-> -1] ELSE [count |-> 1, fd |-> stored]

ancil_recv_fd(r, stored) ==
  LET received == ancil_recv_fds_with_buffer(r, stored)
  IN  [result |-> IF received.count = 1 THEN 0 ELSE -1, fd |-> received.fd]

PhpControlRead(received) ==
  IF received.result < 0 THEN False ELSE Long(received.fd)

fd_control_readfd(p) ==
  LET e     == EndOf(p, call[p].fd)
      r     == SysRecvmsg(e)
      right == IF r.n = 1 THEN Head(buf[e[1]]) ELSE None
      left  == IF r.n = 1 THEN Drained(e[1], 1) ELSE buf
  IN  /\ InCall(p, "readfd")
      /\ ~RecvSleeps(e)
      /\ \/ /\ right = None \/ FreeFds(p) = {}
            /\ Return(p, PhpControlRead(ancil_recv_fd(r, -1)))
            /\ UNCHANGED table
         \/ /\ right # None
            /\ \E fd \in FreeFds(p) :
                 /\ Lowest(FreeFds(p), fd)
                 /\ Return(p, PhpControlRead(ancil_recv_fd(r, fd)))
                 /\ table' = [table EXCEPT ![p][fd] = right]
      /\ buf' = Purge(table', left)
      /\ UNCHANGED <<alive, created, nonblock, call>>

-----------------------------------------------------------------------------
(* fd_select                                                               *)

Entries(c) == Cardinality(c.read) + Cardinality(c.write) + Cardinality(c.except)

\* revents of an entry: POLLERR, POLLHUP and POLLNVAL hold unasked, and every
\* list asks for POLLRDHUP; POLLIN is asked for on the read list alone, and
\* POLLOUT nowhere.
ReadEvents(p, fd)  == Conditions(p, fd)

WriteEvents_no_error(p, fd) == Conditions(p, fd) \ {"IN", "ERR"}

WriteEvents(p, fd) == Conditions(p, fd) \ {"IN"}

ReadyEntries(p, c) ==
  Cardinality({fd \in c.read : ReadEvents(p, fd) # {}})
  + Cardinality({fd \in c.write : WriteEvents(p, fd) # {}})
  + Cardinality({fd \in c.except : WriteEvents(p, fd) # {}})

WriteStatus_no_error(value) ==
  IF value \cap {"HUP", "RDHUP"} # {} THEN "error"
  ELSE IF "NVAL" \in value THEN "invalid"
  ELSE IF value # {} THEN "unknown"
  ELSE "false"

WriteStatus(value) ==
  IF value \cap {"ERR", "HUP", "RDHUP"} # {} THEN "error"
  ELSE IF "NVAL" \in value THEN "invalid"
  ELSE IF value # {} THEN "unknown"
  ELSE "false"

ReadStatus_error_first(value) ==
  IF "IN" \in value /\ WriteStatus(value) # "error" THEN "ready" ELSE WriteStatus(value)

ReadStatus_ready_on_any_event(value) == IF value # {} THEN "ready" ELSE WriteStatus(value)

ReadStatus(value) == IF "IN" \in value THEN "ready" ELSE WriteStatus(value)

SelectArray(ready, read, write, except) ==
  [kind |-> "array", n |-> ready, read |-> read, write |-> write, except |-> except]

\* poll refuses more entries than RLIMIT_NOFILE.
PollFails(c) == Entries(c) > MaxFd + 1

fd_select(p) ==
  LET c == call[p]
  IN  /\ InCall(p, "select")
      /\ \/ /\ ~PollFails(c)
            /\ ReadyEntries(p, c) > 0
            /\ Return(p, SelectArray(ReadyEntries(p, c),
                           [fd \in c.read   |-> ReadStatus(ReadEvents(p, fd))],
                           [fd \in c.write  |-> WriteStatus(WriteEvents(p, fd))],
                           [fd \in c.except |-> WriteStatus(WriteEvents(p, fd))]))
         \/ \* revents is read all the same, from memory nothing was stored in
            /\ PollFails(c)
            /\ \E read \in [c.read -> Statuses], write \in [c.write -> Statuses \ {"ready"}],
                  except \in [c.except -> Statuses \ {"ready"}] :
                 Return(p, SelectArray(-1, read, write, except))
      /\ UNCHANGED <<posixVars, call>>

-----------------------------------------------------------------------------
\* A signal wakes a sleeping call before it moved anything: EINTR.  Only the
\* poll of fd_select is tried again (TEMP_FAILURE_RETRY), which changes nothing.
Interrupt(p) ==
  LET c == call[p]
      e == EndOf(p, c.fd)
  IN  /\ \/ /\ InCall(p, "read")
            /\ ReadSleeps(e, c.len)
            /\ Return(p, PhpRead(Failed("EINTR")))
         \/ /\ InCall(p, "write")
            /\ WriteSleeps(e, c.len, c.done)
            /\ Accepted(e, c.len, c.done) = 0
            /\ Return(p, PhpWrite(IF c.done > 0 THEN Done(c.done) ELSE Failed("EINTR")))
         \/ /\ InCall(p, "writefd")
            /\ SendSleeps(e, EndOf(p, c.send))
            /\ Return(p, PhpControlWrite(ancil_send_fd(Failed("EINTR"))))
         \/ /\ InCall(p, "readfd")
            /\ RecvSleeps(e)
            /\ Return(p, PhpControlRead(ancil_recv_fd(Failed("EINTR"), -1)))
      /\ UNCHANGED <<posixVars, call>>

-----------------------------------------------------------------------------
(* The functions that never sleep.                                         *)

Closed_and_discarded(p, fd) ==
  /\ table' = [table EXCEPT ![p][fd] = None]
  /\ buf' = Purge(table', [buf EXCEPT ![EndOf(p, fd)[1]] = <<>>])

\* close of an open descriptor.
Closed(p, fd) ==
  /\ table' = [table EXCEPT ![p][fd] = None]
  /\ buf' = Purge(table', buf)

fd_close(p) ==
  /\ CanCall(p)
  /\ \E c \in Workload :
       /\ c.op = "close"
       /\ \/ /\ EndOf(p, c.fd) = None
             /\ Answer(p, Long(-1))
             /\ UNCHANGED <<table, buf>>
          \/ /\ EndOf(p, c.fd) # None
             /\ Answer(p, Long(0))
             /\ Closed(p, c.fd)
  /\ UNCHANGED <<alive, created, nonblock>>

fd_dup2(p) ==
  /\ CanCall(p)
  /\ \E c \in Workload :
       /\ c.op = "dup2"
       /\ \/ /\ EndOf(p, c.fd) = None \/ c.new \notin FdNum
             /\ Answer(p, Long(-1))
             /\ UNCHANGED <<table, buf>>
          \/ /\ EndOf(p, c.fd) # None
             /\ c.new \in FdNum
             /\ Answer(p, Long(c.new))
             /\ table' = [table EXCEPT ![p][c.new] = EndOf(p, c.fd)]
             /\ buf' = Purge(table', buf)
  /\ UNCHANGED <<alive, created, nonblock>>

\* What fd_pipe, omni_pipe and fd_control_pipe share: a channel of S, or FALSE.
CreateChannel(p, S) ==
  \/ /\ NoRoomForTwo(p)
     /\ Answer(p, False)
     /\ UNCHANGED posixVars
  \/ \E r, w \in FdNum :
       /\ Allocated(p, S, r, w)
       /\ Answer(p, [kind |-> "pipe", read |-> r, write |-> w])

Calls(p, op) == CanCall(p) /\ \E c \in Workload : c.op = op

fd_pipe(p)         == Calls(p, "pipe") /\ CreateChannel(p, Pipes)
omni_pipe(p)       == Calls(p, "omni_pipe") /\ CreateChannel(p, Pipes)
fd_control_pipe(p) == Calls(p, "control_pipe") /\ CreateChannel(p, Controls)

\* blocking is an int of which the call stores one byte: TRUE always reads as
\* non-zero, FALSE as whatever the three bytes beside it make of it.
fd_set_blocking(p) ==
  /\ CanCall(p)
  /\ \E c \in Workload : \E blocking \in BOOLEAN :
       /\ c.op = "set_blocking"
       /\ c.blocking => blocking
       /\ nonblock' = IF blocking
                      THEN nonblock \ {EndOf(p, c.fd)}
                      ELSE nonblock \cup ({EndOf(p, c.fd)} \ {None})
  /\ Answer(p, Null)
  /\ UNCHANGED <<alive, table, created, buf>>

-----------------------------------------------------------------------------
(* Processes come and go outside the extension.                            *)

Fork(p) ==
  /\ CanCall(p)
  /\ \E q \in Proc \ alive :
       /\ Forked(p, q)
       /\ call' = [call EXCEPT ![q] = Idle]
       /\ ret' = [ret EXCEPT ![q] = Nothing]

Exit(p) ==
  /\ p \in alive
  /\ Exited(p)
  /\ call' = [call EXCEPT ![p] = Idle]
  /\ ret' = [ret EXCEPT ![p] = Nothing]

-----------------------------------------------------------------------------
Init ==
  /\ PosixInit
  /\ call = [p \in Proc |-> Idle]
  /\ ret = [p \in Proc |-> Nothing]

\* The steps by which a pending call gets on.
Proceed(p) ==
  \/ fd_read(p)
  \/ fd_write(p)
  \/ WriteProgress(p)
  \/ fd_control_writefd(p)
  \/ fd_control_readfd(p)
  \/ fd_select(p)

Next ==
  \E p \in Proc :
    \/ Invoke(p)
    \/ Proceed(p)
    \/ Interrupt(p)
    \/ fd_close(p)
    \/ fd_dup2(p)
    \/ fd_pipe(p)
    \/ omni_pipe(p)
    \/ fd_control_pipe(p)
    \/ fd_set_blocking(p)
    \/ Fork(p)
    \/ Exit(p)

Spec == Init /\ [][Next]_vars

\* A call whose wait is over is woken and scheduled.
Fairness == \A p \in Proc : WF_vars(Proceed(p))

FairSpec == Spec /\ Fairness

-----------------------------------------------------------------------------
(* Properties.                                                             *)

Answered(p, op) == p \in alive /\ ret[p] # Pending /\ call[p].op = op

\* What descriptor fd of p is connected to.
Peer(e)         == IF e \in ReadEnds THEN WriteEnd(e[1]) ELSE ReadEnd(e[1])
Orphaned(p, fd) == EndOf(p, fd) \in Ends /\ ~Live(Peer(EndOf(p, fd)))

\* An end that nothing refers to, in a table or on its way between processes,
\* never comes back: what fd_read, fd_write and fd_select report of a closed
\* pipe cannot be taken back.
ClosedStaysClosed ==
  [][\A e \in Ends : e[1] \in created /\ ~Live(e) => ~Live(e)']_vars

\* Tables and channels agree: only channels that were created are referred to,
\* nothing is buffered that no process could read, a process that has ended
\* holds nothing, no channel holds more than its capacity, no write has put in
\* more than it was asked to, and a pending call on a control pipe still has the
\* side of it that it had when it was made.
OnlyCreated      == \A e \in Ends : Live(e) => e[1] \in created
ReadersLeft      == \A c \in Chan : buf[c] # <<>> => Live(ReadEnd(c))
DeadHoldNothing  == \A p \in Proc \ alive : \A fd \in FdNum : table[p][fd] = None
WithinCapacity   == \A c \in Chan : Len(buf[c]) <= Capacity
WritesNotOverrun == \A p \in Proc : call[p].op = "write" => call[p].done <= call[p].len
CallsAsNamed     == \A p \in alive : ret[p] = Pending => UsesAsNamed(p, call[p])

Consistent ==
  /\ OnlyCreated
  /\ ReadersLeft
  /\ DeadHoldNothing
  /\ WithinCapacity
  /\ WritesNotOverrun
  /\ CallsAsNamed

\* NULL from fd_read of at least one byte stays true for as long as the caller
\* can act on it: the pipe is empty and nobody, not even a process that has
\* yet to receive the write end over a control pipe, can write to it.
EofIsFinal ==
  \A p \in Proc :
    Answered(p, "read") /\ ret[p] = Null /\ call[p].len > 0 =>
      /\ Orphaned(p, call[p].fd)
      /\ buf[EndOf(p, call[p].fd)[1]] = <<>>

\* NULL from fd_write (EPIPE) is final too: no process can read the pipe again.
BrokenPipeIsFinal ==
  \A p \in Proc :
    Answered(p, "write") /\ ret[p] = Null => Orphaned(p, call[p].fd)

\* "error" in the arrays of fd_select is final, and on the read list it means
\* that nothing is left to read either.
SelectErrorIsFinal ==
  \A p \in Proc :
    Answered(p, "select") /\ ret[p].n # -1 =>
      LET Errors(statuses) == {fd \in DOMAIN statuses : statuses[fd] = "error"}
      IN  /\ \A fd \in Errors(ret[p].write) \cup Errors(ret[p].except) : Orphaned(p, fd)
          /\ \A fd \in Errors(ret[p].read) :
               Orphaned(p, fd) /\ (EndOf(p, fd) \in ReadEnds => buf[EndOf(p, fd)[1]] = <<>>)

\* fd_select "will tell us about closed pipes in the write FDs list": when it
\* returns, each entry of that list whose reader has gone says "error".
TellsOfClosedPipes ==
  [][\A p \in Proc :
       InCall(p, "select") /\ ret'[p] \notin {Pending, Nothing} /\ ret'[p].n # -1 =>
         \A fd \in call[p].write : Orphaned(p, fd) => ret'[p].write[fd] = "error"]_vars

\* "ready" is true when fd_select returns it, and is said of every entry of the
\* read list of which it is true: there is a byte to read, or the other side of
\* a control pipe has gone (poll says POLLIN there; of a pipe it does not).
HasInput(p, fd) ==
  LET e == EndOf(p, fd)
  IN  \/ e \in ReadEnds /\ buf[e[1]] # <<>>
      \/ e \in Ends /\ e[1] \in Controls /\ Orphaned(p, fd)

TellsOfInput ==
  [][\A p \in Proc :
       InCall(p, "select") /\ ret'[p] \notin {Pending, Nothing} /\ ret'[p].n # -1 =>
         \A fd \in call[p].read : ret'[p].read[fd] = "ready" <=> HasInput(p, fd)]_vars

\* The answer "ready" goes stale only by another process: what made a read
\* possible is gone only when some other process reads the same end.
ReadinessIsTakenByOthers ==
  [][\A p \in Proc :
       Answered(p, "select") /\ Answered(p, "select")' =>
         \A fd \in DOMAIN ret[p].read :
           LET e == EndOf(p, fd)
           IN  /\ ret[p].read[fd] = "ready"
               /\ ~ReadSleeps(e, 1)
               /\ ReadSleeps(e, 1)'
               => \/ e \in nonblock
                  \/ \E q \in Proc \ {p} :
                       /\ ret[q] = Pending
                       /\ ret'[q] # Pending
                       /\ call[q].op \in {"read", "readfd"}
                       /\ EndOf(q, call[q].fd) = e]_vars

\* A descriptor in flight leaves its control pipe in order, and only into the
\* table of a process that reads the control pipe.  It is lost in three ways:
\* that table is full, fd_read takes its byte, nobody is left to receive it.
RightsAreNotLost ==
  [][\A k \in Controls :
       buf'[k] # buf[k] /\ buf[k] # <<>> /\ Head(buf[k]) # None =>
         \/ \E n \in 1..Capacity : Len(buf'[k]) = Len(buf[k]) + n
                               /\ SubSeq(buf'[k], 1, Len(buf[k])) = buf[k]
         \/ ~Held(table', ReadEnd(k))
         \/ \E p \in alive :
              /\ ret[p] = Pending
              /\ EndOf(p, call[p].fd) = ReadEnd(k)
              /\ buf'[k] = Tail(buf[k])
              /\ \/ call[p].op = "readfd" /\ FreeFds(p) = {}
                 \/ \E fd \in FdNum : ret'[p] = Long(fd) /\ table'[p][fd] = Head(buf[k])
                 \/ call[p].op = "read"]_vars

\* A call that waits on a channel whose other side is gone does not wait for
\* ever: the reader gets EOF, the writer EPIPE, fd_select an answer.
WaitsForAnOrphan(p) ==
  /\ p \in alive
  /\ ret[p] = Pending
  /\ IF call[p].op = "select"
     THEN \E fd \in call[p].read \cup call[p].write \cup call[p].except : Orphaned(p, fd)
     ELSE Orphaned(p, call[p].fd)

OrphansAreReleased == \A p \in Proc : WaitsForAnOrphan(p) ~> ~WaitsForAnOrphan(p)

\* The comment of fd_read on a zero result: it is the end of the file.
NullMeansEof ==
  \A p \in Proc :
    Answered(p, "read") /\ ret[p] = Null => Orphaned(p, call[p].fd)

\* libancillary's API: "In case of success, the file descriptor is stored":
\* a receive that takes a sent descriptor and does not fail returns one.
SuccessStoresDescriptor ==
  [][\A p \in Proc :
       LET e == EndOf(p, call[p].fd)
       IN  InCall(p, "readfd") /\ e \in ReadEnds /\ buf[e[1]] # <<>>
             => (Head(buf[e[1]]) # None /\ ret'[p].kind = "long" => ret'[p].n \in FdNum)]_vars

\* The processes and their tables, seen as the channels they share, keep the
\* contract of module Channels: first in first out, nothing lost, invented or
\* read twice, no end that reopens, nothing buffered that cannot be read.
Contract ==
  INSTANCE Channels WITH
    open <- [c \in Chan |-> {side \in {"read", "write"} : Live(<<c, side>>)}],
    q    <- buf

ChannelsKeepContract == Contract!Spec

=============================================================================
