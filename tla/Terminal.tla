------------------------------ MODULE Terminal ------------------------------
(***************************************************************************)
(* The extension tc: scripts of several processes read and set the modes   *)
(* of the terminal they share (tc_tcgetattr, tc_tcsetattr) and hand the    *)
(* foreground to one another (tc_tcgetpgrp, tc_tcsetpgrp).                 *)
(*                                                                         *)
(* Reading modes, changing the array that holds them and setting them are  *)
(* three steps of a script, and a set that the system makes wait (for the  *)
(* output to drain, or for the foreground) is two steps more: others read  *)
(* and set in between.  A call of the system may fail: the descriptor is   *)
(* not a terminal, there was a hangup, or a signal cut the wait short.     *)
(***************************************************************************)
EXTENDS Integers

CONSTANTS
  Process,       \* scripts, each the one process of its group
  Ignoring,      \* those that ignore SIGTTOU
  Keys,          \* the flags and speeds: entries "iflag", ... of an array
  Slots,         \* the entries of its "cc"
  Width,         \* how many values a field of struct termios has
  Longs,         \* the integers that scripts put into an array
  MaxEdits       \* how often scripts change their arrays (a bound for TLC)

ASSUME WidthAssumption == Width \in Nat \ {0}

ASSUME NamesAssumption == {"cc", "line"} \cap (Keys \cup Slots) = {}

ASSUME ScriptsAssumption ==
  /\ Longs \subseteq Int
  /\ MaxEdits \in Nat

VARIABLES
  modes,         \* the terminal's struct termios
  foreground,    \* the process whose group is in the foreground
  array,         \* the array that each script holds
  call,          \* the system call that each process is in
  answer,        \* what its last function returned, once it has
  errno,         \* does its errno hold an error?
  edits          \* how often a script has changed its array

vars == <<modes, foreground, array, call, answer, errno, edits>>

\* What an array has of the modes.
Entries == Keys \cup Slots

\* What the terminal has: the line discipline too, which no array holds.
Fields == Entries \cup {"line"}

Values == 0..(Width - 1)

Termios == [Fields -> Values]

\* An array: its entries, those of "cc" among them, and their values.
Array(has, value) == [has |-> has, value |-> value]

NoTermios == [f \in Fields |-> 0]

Call(kind, tmodes, pgid) == [kind |-> kind, tmodes |-> tmodes, pgid |-> pgid]

NoCall(p) == Call("none", NoTermios, p)

Idle(p) == call[p] = NoCall(p)

\* The function waits for the system.
Invoked(p, c) ==
  /\ call' = [call EXCEPT ![p] = c]
  /\ answer' = [answer EXCEPT ![p] = "none"]

Returned(p, value) ==
  /\ call' = [call EXCEPT ![p] = NoCall(p)]
  /\ answer' = [answer EXCEPT ![p] = value]

Failed(p) == errno' = [errno EXCEPT ![p] = TRUE]

-----------------------------------------------------------------------------
(* The modes.                                                              *)

Read(p, value) == array' = [array EXCEPT ![p] = Array(Entries \cup {"cc"}, value)]

\* What an array can show of the terminal.
Shown == [f \in Entries |-> modes[f]]

GetSucceeds(p) == Read(p, Shown) /\ errno' = errno

\* The array is filled even when tcgetattr fails, with what was on the stack.
GetFails(p) == Failed(p) /\ \E garbage \in [Entries -> Values] : Read(p, garbage)

tc_tcgetattr(p) ==
  /\ Idle(p)
  /\ GetSucceeds(p) \/ GetFails(p)
  /\ Returned(p, "value")
  /\ UNCHANGED <<modes, foreground, edits>>

\* Each key is there, and "cc".
Loadable(a) == Keys \cup {"cc"} \subseteq a.has

\* Mutated: the integers are not cut to the size of a field.
Loaded_untruncated(a) ==
  {[f \in Fields |-> IF f = "line" THEN 0 ELSE a.value[f]]}

\* Mutated: the loop stops before the last index of "cc".
Loaded_but_for_the_last(a) ==
  {tmodes \in Termios : \A f \in Keys \cap a.has : tmodes[f] = a.value[f] % Width}

\* The structures that an array may be loaded into.  The line discipline is
\* what was on the stack, and so is a slot whose index "cc" does not have.
Loaded(a) ==
  {tmodes \in Termios : \A f \in Entries \cap a.has : tmodes[f] = a.value[f] % Width}

\* Mutated: errno is cleared before the system is called.
tc_tcsetattr_clearing(p) ==
  /\ Idle(p)
  /\ Loadable(array[p])
  /\ errno' = [errno EXCEPT ![p] = FALSE]
  /\ \E tmodes \in Loaded(array[p]) : Invoked(p, Call("tcsetattr", tmodes, p))
  /\ UNCHANGED <<modes, foreground, array, edits>>

tc_tcsetattr(p) ==
  /\ Idle(p)
  /\ \/ /\ ~Loadable(array[p])
        /\ Returned(p, "false")
     \/ /\ Loadable(array[p])
        /\ \E tmodes \in Loaded(array[p]) : Invoked(p, Call("tcsetattr", tmodes, p))
  /\ UNCHANGED <<modes, foreground, array, errno, edits>>

\* May the process change the terminal now, or would SIGTTOU stop it?
Allowed(p) == p = foreground \/ p \in Ignoring

SetSucceeds(p) ==
  /\ Allowed(p)
  /\ modes' = call[p].tmodes
  /\ errno' = errno

SetFails(p) == Failed(p) /\ modes' = modes

\* The end of the system call, and of tc_tcsetattr, which does not look at its
\* result.
tcsetattr(p) ==
  /\ call[p].kind = "tcsetattr"
  /\ SetSucceeds(p) \/ SetFails(p)
  /\ Returned(p, "true")
  /\ UNCHANGED <<foreground, array, edits>>

\* The script assigns an entry of its array.
Assign(p, f, value) ==
  /\ f \in array[p].has
  /\ array' = [array EXCEPT ![p].value[f] = value]

\* The script removes an entry, or "cc" with all that it holds.
Unset(p, name) ==
  /\ name \in array[p].has
  /\ array' = [array EXCEPT ![p].has = @ \ (IF name = "cc" THEN Slots \cup {"cc"} ELSE {name})]

Edit(p) ==
  /\ Idle(p)
  /\ edits < MaxEdits
  /\ edits' = edits + 1
  /\ \/ \E f \in Entries, value \in Longs : Assign(p, f, value)
     \/ \E name \in Entries \cup {"cc"} : Unset(p, name)
  /\ UNCHANGED <<modes, foreground, call, answer, errno>>

-----------------------------------------------------------------------------
(* The foreground.                                                         *)

tc_tcgetpgrp(p) ==
  /\ Idle(p)
  /\ \/ UNCHANGED errno
     \/ Failed(p)
  /\ Returned(p, "value")
  /\ UNCHANGED <<modes, foreground, array, edits>>

tc_tcsetpgrp(p, pgid) ==
  /\ Idle(p)
  /\ Invoked(p, Call("tcsetpgrp", NoTermios, pgid))
  /\ UNCHANGED <<modes, foreground, array, errno, edits>>

tcsetpgrp(p) ==
  /\ call[p].kind = "tcsetpgrp"
  /\ \/ /\ Allowed(p)
        /\ foreground' = call[p].pgid
        /\ Returned(p, "true")
        /\ UNCHANGED errno
     \/ /\ Failed(p)
        /\ Returned(p, "false")
        /\ UNCHANGED foreground
  /\ UNCHANGED <<modes, array, edits>>

-----------------------------------------------------------------------------
\* The answer has the number in errno, which no function ever clears.
tc_get_error(p) ==
  /\ Idle(p)
  /\ Returned(p, IF errno[p] THEN "error" ELSE "no error")
  /\ UNCHANGED <<modes, foreground, array, errno, edits>>

Init ==
  /\ modes \in Termios
  /\ foreground \in Process
  /\ array = [p \in Process |-> Array({}, [f \in Entries |-> 0])]
  /\ call = [p \in Process |-> NoCall(p)]
  /\ answer = [p \in Process |-> "none"]
  /\ errno = [p \in Process |-> FALSE]
  /\ edits = 0

Step(p) ==
  \/ tc_tcgetattr(p)
  \/ tc_tcsetattr(p)
  \/ tcsetattr(p)
  \/ Edit(p)
  \/ tc_tcgetpgrp(p)
  \/ \E pgid \in Process : tc_tcsetpgrp(p, pgid)
  \/ tcsetpgrp(p)
  \/ tc_get_error(p)

Next == \E p \in Process : Step(p)

Spec == Init /\ [][Next]_vars

-----------------------------------------------------------------------------
(* Properties.                                                             *)

TypeOK ==
  /\ modes \in Termios
  /\ foreground \in Process
  /\ errno \in [Process -> BOOLEAN]
  /\ answer \in [Process -> {"none", "value", "true", "false", "error", "no error"}]
  /\ \A p \in Process :
       /\ array[p].has \subseteq Entries \cup {"cc"}
       /\ \A f \in Entries : array[p].value[f] \in Int
       /\ call[p].tmodes \in Termios
       /\ call[p].pgid \in Process

=============================================================================
