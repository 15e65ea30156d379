---------------------------- MODULE MCFdHistory ----------------------------
(* FdHistory for TLC: duplicates, reads of any length, and writes longer    *)
(* than the pipe, cut short in every way.                                   *)
EXTENDS FdHistory

BooksWorkload ==
  {[op |-> "pipe"],
   [op |-> "read", fd |-> 0, len |-> 0],
   [op |-> "read", fd |-> 0, len |-> 1], [op |-> "read", fd |-> 0, len |-> 2],
   [op |-> "write", fd |-> 1, len |-> 2, done |-> 0],
   [op |-> "write", fd |-> 1, len |-> 4, done |-> 0],
   [op |-> "set_blocking", fd |-> 1, blocking |-> FALSE],
   [op |-> "set_blocking", fd |-> 0, blocking |-> TRUE],
   [op |-> "close", fd |-> 0], [op |-> "close", fd |-> 1],
   [op |-> "dup2", fd |-> 0, new |-> 2]}

=============================================================================
