------------------------------- MODULE Posix -------------------------------
(***************************************************************************)
(* The part of the operating system that fd/fd.c calls: processes with     *)
(* their descriptor tables, the open ends of pipes and of control pipes    *)
(* (socket pairs), the bytes and the descriptors in flight, and the        *)
(* answers of read, write, sendmsg, recvmsg and poll.  It is external to   *)
(* the repository and modelled only as far as fd.c relies on it.           *)
(*                                                                         *)
(* A channel is a pipe or a control pipe.  Each has a read end and a write *)
(* end, named as the arrays that fd_pipe and fd_control_pipe return name   *)
(* them.  An end is one open file description: duplicates made by dup2, by *)
(* fork and by descriptor passing are references to the same end.          *)
(*                                                                         *)
(* An operator with a lower-case suffix, here and in the other modules, is *)
(* a faulty variant of the operator after it: the properties are checked   *)
(* to tell the two apart.                                                  *)
(***************************************************************************)
EXTENDS Integers, Sequences, FiniteSets, FiniteSetsExt

CONSTANTS
  Proc,       \* process slots
  Root,       \* the process that runs first: the shell
  MaxFd,      \* the largest descriptor number a table holds (RLIMIT_NOFILE - 1)
  Pipes,      \* pipes that may be created in one behaviour
  Controls,   \* control pipes that may be created in one behaviour
  Capacity,   \* bytes a channel buffers
  PipeBuf,    \* PIPE_BUF: writes to a pipe up to this size are not split
  None        \* no end: a free table entry, a byte that carries no descriptor

ASSUME PosixAssumption ==
  /\ Root \in Proc
  /\ MaxFd \in Nat
  /\ Pipes \cap Controls = {}
  /\ Capacity \in Nat \ {0}
  /\ PipeBuf \in 1..Capacity
  /\ None \notin (Pipes \cup Controls) \X {"read", "write"}

VARIABLES
  alive,      \* the processes that are running
  table,      \* table[p][fd]: the end that descriptor fd of process p refers to
  created,    \* the channels created so far
  buf,        \* buf[c]: bytes in channel c, each the end it carries or None
  nonblock    \* the ends with O_NONBLOCK set

posixVars == <<alive, table, created, buf, nonblock>>

-----------------------------------------------------------------------------
Chan  == Pipes \cup Controls
FdNum == 0..MaxFd

ReadEnd(c)  == <<c, "read">>
WriteEnd(c) == <<c, "write">>

ReadEnds  == Chan \X {"read"}
WriteEnds == Chan \X {"write"}
Ends      == Chan \X {"read", "write"}
PipeEnds  == Pipes \X {"read", "write"}

\* What a channel buffers: bytes, each with the end it carries or None.
Item    == PipeEnds \cup {None}
Buffers == [Chan -> Seq(Item)]

EndOf(p, fd) == IF fd \in FdNum THEN table[p][fd] ELSE None

\* A table t refers to e; a descriptor for e is in flight in the buffers b.
Held(t, e)     == \E p \in Proc, fd \in FdNum : t[p][fd] = e
InFlight_uncounted(b, e) == FALSE

InFlight(b, e) == \E k \in Controls : \E i \in DOMAIN b[k] : b[k][i] = e

\* The end is open: some reference to it is left, in a table or in flight.
Live(e) == Held(table, e) \/ InFlight(buf, e)

\* What is left in the buffers b once the tables are t.  When the last
\* reference to a read end goes, the kernel frees what was buffered for it; a
\* control pipe freed that way drops the descriptors in flight in it, which
\* may close the read end of a pipe in turn.
Purge(t, b) ==
  LET kept == [k \in Controls |-> IF Held(t, ReadEnd(k)) THEN b[k] ELSE <<>>]
  IN  [c \in Chan |->
         IF c \in Controls
         THEN kept[c]
         ELSE IF Held(t, ReadEnd(c)) \/ InFlight(kept, ReadEnd(c))
              THEN b[c]
              ELSE <<>>]

FreeFds(p) == {fd \in FdNum : table[p][fd] = None}

\* fd is the lowest number of S: the one that the system allocates.
Lowest(S, fd) == fd \in S /\ \A x \in S : fd <= x

-----------------------------------------------------------------------------
PosixTypeOK ==
  /\ alive \subseteq Proc
  /\ table \in [Proc -> [FdNum -> Ends \cup {None}]]
  /\ created \subseteq Chan
  /\ buf \in Buffers
  /\ nonblock \subseteq Ends

PosixInit ==
  /\ alive = {Root}
  /\ table = [p \in Proc |-> [fd \in FdNum |-> None]]
  /\ created = {}
  /\ buf = [c \in Chan |-> <<>>]
  /\ nonblock = {}

\* fork: the child q starts with references to everything p refers to.
Forked(p, q) ==
  /\ alive' = alive \cup {q}
  /\ table' = [table EXCEPT ![q] = table[p]]
  /\ UNCHANGED <<created, buf, nonblock>>

\* The end of a process, at its own wish or by a signal.
Exited(p) ==
  /\ alive' = alive \ {p}
  /\ table' = [table EXCEPT ![p] = [fd \in FdNum |-> None]]
  /\ buf' = Purge(table', buf)
  /\ UNCHANGED <<created, nonblock>>

\* pipe and socketpair: a new channel of S, its ends at the two lowest free
\* numbers r and w.
Allocated(p, S, r, w) ==
  /\ Lowest(FreeFds(p), r)
  /\ Lowest(FreeFds(p) \ {r}, w)
  /\ \E c \in S \ created :
       /\ created' = created \cup {c}
       /\ table' = [table EXCEPT ![p][r] = ReadEnd(c), ![p][w] = WriteEnd(c)]
  /\ UNCHANGED <<alive, buf, nonblock>>

NoRoomForTwo(p) ==
  \A r, w \in FreeFds(p) : r = w

-----------------------------------------------------------------------------
(* System calls: the value returned, or -1 and errno.                      *)

Done(n)      == [n |-> n, errno |-> "none"]
Failed(code) == [n |-> -1, errno |-> code]

Room(c) == Capacity - Len(buf[c])

\* read takes bytes in order and stops after one that carries a descriptor.
Taken(q, n) ==
  LET most == Min({n, Len(q)})
  IN  Min({i \in 1..most : i = most \/ q[i] # None})

ReadSleeps(e, n) ==
  /\ e \in ReadEnds
  /\ n > 0
  /\ buf[e[1]] = <<>>
  /\ Live(WriteEnd(e[1]))
  /\ e \notin nonblock

SysRead(e, n) ==
  IF e \notin ReadEnds             THEN Failed("EBADF")
  ELSE IF n = 0                    THEN Done(0)
  ELSE IF buf[e[1]] # <<>>         THEN Done(Taken(buf[e[1]], n))
  ELSE IF ~Live(WriteEnd(e[1]))    THEN Done(0)
  ELSE                                  Failed("EAGAIN")

\* How many of the bytes left a write puts into the channel now: all of them
\* if there is room, else what fits, else none where the write may not be split.
Accepted(e, len, done) ==
  IF len - done <= Room(e[1])                 THEN len - done
  ELSE IF e[1] \in Pipes /\ len <= PipeBuf    THEN 0
  ELSE                                             Room(e[1])

WriteSleeps(e, len, done) ==
  /\ e \in WriteEnds
  /\ len > 0
  /\ Live(ReadEnd(e[1]))
  /\ done + Accepted(e, len, done) < len
  /\ e \notin nonblock

SysWrite(e, len, done) ==
  IF e \notin WriteEnds                      THEN Failed("EBADF")
  ELSE IF len = 0 /\ e[1] \in Pipes          THEN Done(0)
  ELSE IF ~Live(ReadEnd(e[1])) /\ done = 0   THEN Failed("EPIPE")
  ELSE IF ~Live(ReadEnd(e[1]))               THEN Done(done)
  ELSE IF len > 0 /\ done + Accepted(e, len, done) = 0 THEN Failed("EAGAIN")
  ELSE                                            Done(done + Accepted(e, len, done))

\* The buffers after n plain bytes entered channel c.
Filled(c, n) == [buf EXCEPT ![c] = @ \o [i \in 1..n |-> None]]

\* The buffers after the first n bytes left channel c.
Drained(c, n) == [buf EXCEPT ![c] = SubSeq(@, n + 1, Len(@))]

SendSleeps(e, right) ==
  /\ e \in WriteEnds
  /\ e[1] \in Controls
  /\ right # None
  /\ Live(ReadEnd(e[1]))
  /\ Room(e[1]) = 0
  /\ e \notin nonblock

SysSendmsg(e, right) ==
  IF e \notin WriteEnds            THEN Failed("EBADF")
  ELSE IF e[1] \in Pipes           THEN Failed("ENOTSOCK")
  ELSE IF right = None             THEN Failed("EBADF")
  ELSE IF ~Live(ReadEnd(e[1]))     THEN Failed("EPIPE")
  ELSE IF Room(e[1]) = 0           THEN Failed("EAGAIN")
  ELSE                                  Done(1)

RecvSleeps(e) == ReadSleeps(e, 1) /\ e[1] \in Controls

SysRecvmsg(e) ==
  IF e \in ReadEnds /\ e[1] \in Pipes THEN Failed("ENOTSOCK") ELSE SysRead(e, 1)

-----------------------------------------------------------------------------
(* poll: the conditions of a descriptor, of which POLLIN is reported only  *)
(* where it is asked for and the others wherever they hold.                *)

Conditions(p, fd) ==
  LET e    == EndOf(p, fd)
      peer == IF e \in ReadEnds THEN WriteEnd(e[1]) ELSE ReadEnd(e[1])
  IN  IF fd < 0 THEN {}
      ELSE IF e = None THEN {"NVAL"}
      ELSE IF e[1] \in Controls
           THEN (IF e \in ReadEnds /\ buf[e[1]] # <<>> THEN {"IN"} ELSE {})
                \cup (IF Live(peer) THEN {} ELSE {"IN", "HUP", "RDHUP"})
           ELSE (IF e \in ReadEnds /\ buf[e[1]] # <<>> THEN {"IN"} ELSE {})
                \cup (IF Live(peer) THEN {}
                      ELSE IF e \in ReadEnds THEN {"HUP"} ELSE {"ERR"})

=============================================================================
