------------------------------- MODULE MCFd -------------------------------
(* Instances of Fd for TLC: the calls that the scripts make.               *)
EXTENDS Fd

Read(fd, len)      == [op |-> "read", fd |-> fd, len |-> len]
Write(fd, len)     == [op |-> "write", fd |-> fd, len |-> len, done |-> 0]
WriteFd(fd, send)  == [op |-> "writefd", fd |-> fd, send |-> send]
ReadFd(fd)         == [op |-> "readfd", fd |-> fd]
Select(r, w, x)    == [op |-> "select", read |-> r, write |-> w, except |-> x]
Close(fd)          == [op |-> "close", fd |-> fd]
Dup2(fd, new)      == [op |-> "dup2", fd |-> fd, new |-> new]
SetBlocking(fd, b) == [op |-> "set_blocking", fd |-> fd, blocking |-> b]
Create(op)         == [op |-> op]

\* Calls on a pipe that is shared, among them a read of no bytes.
PipeWorkload ==
  {Create("pipe"), Read(0, 1), Read(0, 0), Write(1, 1), Write(1, 3),
   Close(0), Close(1), Dup2(0, 2), SetBlocking(0, FALSE), SetBlocking(1, TRUE)}

\* The shell hands the ends of a pipe to another process over a control pipe,
\* and one end travels while the other is in use.
PassingWorkload ==
  {Create("pipe"), Create("control_pipe"), WriteFd(1, 3), ReadFd(0),
   Read(2, 1), Read(0, 2), Write(3, 2), Close(0), Close(3), Dup2(2, 3)}

\* Both ends of a pipe, and plain bytes, follow each other through the control
\* pipe and the pipe; reads take less than there is, writes are cut short.
OrderWorkload ==
  {Create("pipe"), Create("control_pipe"), WriteFd(1, 2), WriteFd(1, 3), ReadFd(0),
   Read(2, 1), Write(3, 2), Close(0)}

\* Readers and writers that wait with fd_select; and the limits: a table with
\* no room for a pipe, a poll of too many entries, descriptors not open.
SelectWorkload ==
  {Create("omni_pipe"), Select({0}, {1}, {}), Select({}, {1}, {0}), Select({1}, {1}, {1}),
   Select({-1}, {}, {}), Read(0, 1), Read(0, 2), Write(1, 1), Close(0), Close(1), Dup2(0, 2), Dup2(0, 1)}

\* Calls that wait for the other side of a pipe, until a flag is set elsewhere.
LiveWorkload ==
  {Create("pipe"), Read(0, 1), Write(1, 1), Write(1, 3), Select({0}, {}, {}), Select({}, {1}, {}), Select({}, {}, {2}),
   Close(0), Close(1), Dup2(0, 2), SetBlocking(1, FALSE), SetBlocking(1, TRUE)}

=============================================================================
