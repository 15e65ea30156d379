-------------------------- MODULE TerminalHistory --------------------------
(***************************************************************************)
(* Terminal with what each script did and saw: what the terminal was when  *)
(* it last read it, what it has changed in its array since, and whether a  *)
(* function ever answered as if the system had not failed.                 *)
(***************************************************************************)
EXTENDS Terminal

VARIABLES
  seen,      \* the terminal's entries at the last read, if that read succeeded
  edited,    \* the entries assigned or removed since
  unsaid     \* did a failure of the system go unsaid?

historyVars == <<seen, edited, unsaid>>

Unseen == [read |-> FALSE, value |-> [f \in Entries |-> 0]]

Seen == [read |-> TRUE, value |-> Shown]

HInit ==
  /\ Init
  /\ seen = [p \in Process |-> Unseen]
  /\ edited = [p \in Process |-> {}]
  /\ unsaid = [p \in Process |-> FALSE]

Unsaid(p) == unsaid' = [unsaid EXCEPT ![p] = TRUE]

HGet(p) ==
  /\ tc_tcgetattr(p)
  /\ \/ GetSucceeds(p) /\ seen' = [seen EXCEPT ![p] = Seen] /\ UNCHANGED unsaid
     \/ GetFails(p) /\ seen' = [seen EXCEPT ![p] = Unseen] /\ Unsaid(p)
  /\ edited' = [edited EXCEPT ![p] = {}]

HEdit(p) ==
  /\ Edit(p)
  /\ edited' = [edited EXCEPT ![p] = @ \cup
                  {f \in Entries : array'[p].value[f] # array[p].value[f]}
                  \cup (array[p].has \ array'[p].has)]
  /\ UNCHANGED <<seen, unsaid>>

\* tcsetattr.
HSet(p) ==
  /\ tcsetattr(p)
  /\ \/ SetSucceeds(p) /\ UNCHANGED unsaid
     \/ SetFails(p) /\ Unsaid(p)
  /\ UNCHANGED <<seen, edited>>

HStep(p) ==
  \/ HGet(p) \/ HEdit(p) \/ HSet(p)
  \/ /\ \/ tc_tcsetattr(p)
        \/ tc_tcgetpgrp(p)
        \/ \E pgid \in Process : tc_tcsetpgrp(p, pgid)
        \/ tcsetpgrp(p)
        \/ tc_get_error(p)
     /\ UNCHANGED historyVars

HNext == \E p \in Process : HStep(p)

HSpec == HInit /\ [][HNext]_<<vars, historyVars>>

-----------------------------------------------------------------------------
\* In this step the modes are set to what p's call asked for.
TakesPlace(p) ==
  call[p].kind = "tcsetattr" /\ call'[p] # call[p] /\ modes' = call[p].tmodes

\* A set gives every entry that the script did not edit the value that its
\* tc_tcgetattr saw, however long the set waited and whatever others have set
\* since: nothing slips in between the array and the terminal, and a change that
\* another script made meanwhile is undone.  It promises nothing after a read
\* that failed, nor of the line discipline, which tc_tcsetattr never fills in.
SetsPutBackWhatWasRead ==
  [][\A p \in Process : TakesPlace(p) /\ seen[p].read =>
       \A f \in Entries \ edited[p] : modes'[f] = seen[p].value[f]]_<<vars, historyVars>>

\* tc_tcgetattr and tc_tcsetattr answer alike whether the system did what they
\* asked or not.  A script can still find out, at any later time: tc_get_error
\* says that there is no error only to a script whose reads and sets have all
\* been carried out.  (The error that it tells may be of another call.)
SilenceMeansSuccess ==
  \A p \in Process : answer[p] = "no error" => ~unsaid[p]

=============================================================================
