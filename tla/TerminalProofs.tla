--------------------------- MODULE TerminalProofs ---------------------------
(***************************************************************************)
(* What modules Terminal and TerminalHistory promise, for any processes,   *)
(* any fields and any number of changes to the arrays.                     *)
(***************************************************************************)
EXTENDS TerminalHistory, TLAPS

\* The shapes of the records, which TypeOK speaks of field by field.
Calls == [kind : {"none", "tcsetattr", "tcsetpgrp"}, tmodes : Termios, pgid : Process]

Arrays == [has : SUBSET (Entries \cup {"cc"}), value : [Entries -> Int]]

Answers == {"none", "value", "true", "false", "error", "no error"}

Shapes ==
  /\ call \in [Process -> Calls]
  /\ array \in [Process -> Arrays]
  /\ modes \in Termios
  /\ foreground \in Process
  /\ errno \in [Process -> BOOLEAN]
  /\ answer \in [Process -> Answers]

HistoryShapes ==
  /\ seen \in [Process -> [read : BOOLEAN, value : [Entries -> Values]]]
  /\ edited \in [Process -> SUBSET (Entries \cup {"cc"})]
  /\ unsaid \in [Process -> BOOLEAN]

\* Entries that were read and not edited since are as they were read, in the
\* array and in the structure that a pending set was loaded with.
Faithful ==
  \A p \in Process : seen[p].read =>
    \A f \in Entries \ edited[p] :
      /\ f \in array[p].has
      /\ array[p].value[f] = seen[p].value[f]
      /\ call[p].kind = "tcsetattr" => call[p].tmodes[f] = seen[p].value[f]

\* A failure that a function has kept to itself is in errno, for good.
Kept == \A p \in Process : unsaid[p] => errno[p] /\ answer[p] # "no error"

Inv == Shapes /\ HistoryShapes /\ Faithful /\ Kept

-----------------------------------------------------------------------------
\* A value of a field is an integer, and the value that it is cut to.
LEMMA ValuesAreCut ==
  /\ Values \subseteq Int
  /\ \A v \in Values : v % Width = v
  /\ \A v \in Int : v % Width \in Values
  /\ 0 \in Values
  BY WidthAssumption DEF Values

LEMMA TermiosIsTyped ==
  /\ NoTermios \in Termios
  /\ [f \in Entries |-> 0] \in [Entries -> Values]
  /\ \A tmodes \in Termios : [f \in Entries |-> tmodes[f]] \in [Entries -> Values]
  BY ValuesAreCut DEF Termios, NoTermios, Fields

LEMMA ArraysHaveModes ==
  ASSUME NEW value \in [Entries -> Values]
  PROVE  Array(Entries \cup {"cc"}, value) \in Arrays
  BY ValuesAreCut DEF Array, Arrays

\* A structure that an array is loaded into has what the array says.
LEMMA LoadedAsWritten ==
  ASSUME NEW a, NEW tmodes \in Loaded(a)
  PROVE  tmodes \in Termios /\ \A f \in Entries \cap a.has : tmodes[f] = a.value[f] % Width
  BY DEF Loaded

LEMMA NoCallShape ==
  ASSUME NEW p \in Process
  PROVE  NoCall(p) \in Calls /\ NoCall(p).kind = "none"
  BY TermiosIsTyped DEF NoCall, Call, Calls

LEMMA ShapesGiveTypeOK == Shapes => TypeOK
  BY DEF Shapes, TypeOK, Calls, Arrays, Answers

-----------------------------------------------------------------------------
(* The types, of Terminal alone.                                           *)

LEMMA InitShapes == Init => Shapes
  <1> SUFFICES ASSUME Init PROVE Shapes
    OBVIOUS
  <1>1. Array({}, [f \in Entries |-> 0]) \in Arrays
    BY DEF Array, Arrays
  <1> QED
    BY <1>1, NoCallShape DEF Init, Shapes, Answers

\* Each step keeps the shapes.
LEMMA StepShapes ==
  ASSUME Shapes, NEW p \in Process, Step(p)
  PROVE  Shapes'
  <1> USE DEF Shapes
  <1>1. CASE tc_tcgetattr(p)
    <2>1. Shown \in [Entries -> Values]
      BY TermiosIsTyped DEF Shown
    <2>2. array' \in [Process -> Arrays]
      BY <1>1, <2>1, ArraysHaveModes DEF tc_tcgetattr, GetSucceeds, GetFails, Read
    <2> QED
      BY <1>1, <2>2, NoCallShape
      DEF tc_tcgetattr, GetSucceeds, GetFails, Returned, Failed, Answers
  <1>2. CASE tc_tcsetattr(p)
    <2>1. \A tmodes \in Loaded(array[p]) : Call("tcsetattr", tmodes, p) \in Calls
      BY LoadedAsWritten DEF Call, Calls
    <2> QED
      BY <1>2, <2>1, NoCallShape DEF tc_tcsetattr, Returned, Invoked, Answers
  <1>3. CASE tcsetattr(p)
    <2>1. modes' \in Termios
      BY <1>3 DEF tcsetattr, SetSucceeds, SetFails, Calls
    <2> QED
      BY <1>3, <2>1, NoCallShape
      DEF tcsetattr, Returned, SetSucceeds, SetFails, Failed, Answers
  <1>4. CASE Edit(p)
    <2>1. ASSUME NEW f \in Entries, NEW value \in Longs, Assign(p, f, value)
          PROVE  array' \in [Process -> Arrays]
      <3>1. [array[p] EXCEPT !.value[f] = value] \in Arrays
        BY ScriptsAssumption DEF Arrays
      <3> QED
        BY <2>1, <3>1 DEF Assign
    <2>2. ASSUME NEW name \in Entries \cup {"cc"}, Unset(p, name)
          PROVE  array' \in [Process -> Arrays]
      <3>1. \A gone : [array[p] EXCEPT !.has = @ \ gone] \in Arrays
        BY DEF Arrays
      <3> QED
        BY <2>2, <3>1 DEF Unset
    <2> QED
      BY <1>4, <2>1, <2>2 DEF Edit
  <1>5. CASE tc_tcgetpgrp(p)
    BY <1>5, NoCallShape DEF tc_tcgetpgrp, Returned, Failed, Answers
  <1>6. CASE \E pgid \in Process : tc_tcsetpgrp(p, pgid)
    <2> PICK pgid \in Process : tc_tcsetpgrp(p, pgid)
      BY <1>6
    <2>1. Call("tcsetpgrp", NoTermios, pgid) \in Calls
      BY TermiosIsTyped DEF Call, Calls
    <2> QED
      BY <2>1 DEF tc_tcsetpgrp, Invoked, Answers
  <1>7. CASE tcsetpgrp(p)
    <2>1. call[p].pgid \in Process
      BY DEF Calls
    <2> QED
      BY <1>7, <2>1, NoCallShape DEF tcsetpgrp, Returned, Failed, Answers
  <1>8. CASE tc_get_error(p)
    BY <1>8, NoCallShape DEF tc_get_error, Returned, Answers
  <1> HIDE DEF Shapes
  <1> QED
    BY <1>1, <1>2, <1>3, <1>4, <1>5, <1>6, <1>7, <1>8 DEF Step

LEMMA NextShapes == Shapes /\ [Next]_vars => Shapes'
  <1>1. ASSUME Shapes, UNCHANGED vars PROVE Shapes'
    BY <1>1 DEF vars, Shapes
  <1> QED
    BY <1>1, StepShapes DEF Next

\* Modes, arrays and pending calls are what their types say: whatever integers
\* a script writes, a field of the terminal has a value that fits.
THEOREM TerminalTypeCorrect == Spec => []TypeOK
  BY InitShapes, NextShapes, ShapesGiveTypeOK, PTL DEF Spec

-----------------------------------------------------------------------------
(* What was read is what is put back.                                      *)

\* The history does not hinder the program.
LEMMA HStepIsStep ==
  ASSUME NEW p \in Process, HStep(p)
  PROVE  Step(p)
  BY DEF HStep, HGet, HEdit, HSet, Step

\* How the history may change, at once for all steps.
LEMMA StepHistoryShapes ==
  ASSUME Inv, NEW p \in Process, HStep(p)
  PROVE  HistoryShapes'
  <1> USE DEF Inv, Shapes, HistoryShapes
  <1>1. CASE HGet(p)
    <2>1. Seen \in [read : BOOLEAN, value : [Entries -> Values]]
      BY TermiosIsTyped DEF Seen, Shown
    <2>2. Unseen \in [read : BOOLEAN, value : [Entries -> Values]]
      BY TermiosIsTyped DEF Unseen
    <2>3. seen' \in [Process -> [read : BOOLEAN, value : [Entries -> Values]]]
      BY <1>1, <2>1, <2>2 DEF HGet
    <2>4. edited' \in [Process -> SUBSET (Entries \cup {"cc"})]
      BY <1>1 DEF HGet
    <2>5. unsaid' \in [Process -> BOOLEAN]
      BY <1>1 DEF HGet, Unsaid
    <2> QED
      BY <2>3, <2>4, <2>5
  <1>2. CASE HEdit(p)
    <2>1. array[p].has \subseteq Entries \cup {"cc"}
      BY DEF Arrays
    <2> QED
      BY <1>2, <2>1 DEF HEdit
  <1>3. CASE HSet(p)
    BY <1>3 DEF HSet, Unsaid
  <1>4. CASE UNCHANGED historyVars
    BY <1>4 DEF historyVars
  <1> QED
    BY <1>1, <1>2, <1>3, <1>4 DEF HStep

\* Each step keeps Faithful.
LEMMA StepFaithful ==
  ASSUME Inv, NEW p \in Process, HStep(p)
  PROVE  Faithful'
  <1> SUFFICES ASSUME NEW q \in Process, seen'[q].read, NEW f \in Entries, f \notin edited'[q]
               PROVE  /\ f \in array'[q].has
                      /\ array'[q].value[f] = seen'[q].value[f]
                      /\ call'[q].kind = "tcsetattr" => call'[q].tmodes[f] = seen'[q].value[f]
    BY DEF Faithful
  <1> USE DEF Inv, Shapes, HistoryShapes
  <1> DEFINE Same == UNCHANGED <<array[q], seen[q], edited[q]>>
  \* What another process does, and what leaves array and history alone.
  <1>1. ASSUME Same, call'[q].kind = "tcsetattr" => call'[q] = call[q]
        PROVE  /\ f \in array'[q].has
               /\ array'[q].value[f] = seen'[q].value[f]
               /\ call'[q].kind = "tcsetattr" => call'[q].tmodes[f] = seen'[q].value[f]
    BY <1>1 DEF Faithful
  <1>2. CASE HGet(p)
    <2>1. call'[p] = NoCall(p) /\ (q # p => call'[q] = call[q])
      BY <1>2 DEF HGet, tc_tcgetattr, Returned
    <2>2. CASE q = p
      <3>1. CASE GetSucceeds(p) /\ seen' = [seen EXCEPT ![p] = Seen]
        <4>1. array'[q] = Array(Entries \cup {"cc"}, Shown)
          BY <2>2, <3>1 DEF GetSucceeds, Read
        <4>2. seen'[q].value = Shown
          BY <2>2, <3>1 DEF Seen
        <4> QED
          BY <2>1, <2>2, <4>1, <4>2, NoCallShape DEF Array
      <3>2. CASE seen' = [seen EXCEPT ![p] = Unseen]
        BY <2>2, <3>2 DEF Unseen
      <3> QED
        BY <1>2, <3>1, <3>2 DEF HGet
    <2>3. CASE q # p
      <3>1. Same
        BY <1>2, <2>3 DEF HGet, tc_tcgetattr, GetSucceeds, GetFails, Read
      <3> QED
        BY <1>1, <2>1, <2>3, <3>1
    <2> QED
      BY <2>2, <2>3
  <1>3. CASE HEdit(p)
    <2>1. UNCHANGED call
      BY <1>3 DEF HEdit, Edit
    <2>2. CASE q = p
      <3>1. /\ f \notin edited[q]
            /\ array'[q].value[f] = array[q].value[f]
            /\ f \in array[q].has => f \in array'[q].has
        BY <1>3, <2>2 DEF HEdit
      <3>2. UNCHANGED seen
        BY <1>3 DEF HEdit
      <3> QED
        BY <2>1, <3>1, <3>2 DEF Faithful
    <2>3. CASE q # p
      <3>1. Same
        BY <1>3, <2>3 DEF HEdit, Edit, Assign, Unset
      <3> QED
        BY <1>1, <2>1, <3>1
    <2> QED
      BY <2>2, <2>3
  <1>4. CASE HSet(p)
    <2>1. Same
      BY <1>4 DEF HSet, tcsetattr
    <2>2. call'[q].kind = "tcsetattr" => call'[q] = call[q]
      BY <1>4, NoCallShape DEF HSet, tcsetattr, Returned
    <2> QED
      BY <1>1, <2>1, <2>2
  <1>5. CASE tc_tcsetattr(p) /\ UNCHANGED historyVars
    <2>1. Same
      BY <1>5 DEF tc_tcsetattr, historyVars
    <2>2. \/ q # p /\ call'[q] = call[q]
          \/ call'[q] = NoCall(p)
          \/ q = p /\ \E tmodes \in Loaded(array[p]) : call'[q] = Call("tcsetattr", tmodes, p)
      BY <1>5 DEF tc_tcsetattr, Returned, Invoked
    <2>3. ASSUME q = p, NEW tmodes \in Loaded(array[p]), call'[q] = Call("tcsetattr", tmodes, p)
          PROVE  call'[q].tmodes[f] = seen'[q].value[f]
      <3>1. f \in array[q].has /\ array[q].value[f] = seen[q].value[f]
        BY <2>1 DEF Faithful
      <3>2. tmodes[f] = seen[q].value[f] % Width
        BY <2>3, <3>1, LoadedAsWritten
      <3>3. seen[q].value[f] \in Values
        OBVIOUS
      <3>4. tmodes[f] = seen[q].value[f]
        BY <3>2, <3>3, ValuesAreCut
      <3>5. call'[q].tmodes = tmodes
        BY <2>3 DEF Call
      <3> QED
        BY <2>1, <3>4, <3>5
    <2>4. f \in array'[q].has /\ array'[q].value[f] = seen'[q].value[f]
      BY <2>1 DEF Faithful
    <2> QED
      BY <1>1, <2>1, <2>2, <2>3, <2>4, NoCallShape
  <1>6. CASE UNCHANGED historyVars /\ (\/ tc_tcgetpgrp(p)
                                       \/ \E pgid \in Process : tc_tcsetpgrp(p, pgid)
                                       \/ tcsetpgrp(p)
                                       \/ tc_get_error(p))
    <2>1. Same
      BY <1>6 DEF tc_tcgetpgrp, tc_tcsetpgrp, tcsetpgrp, tc_get_error, historyVars
    <2>2. call'[q].kind = "tcsetattr" => call'[q] = call[q]
      <3>1. CASE \E pgid \in Process : tc_tcsetpgrp(p, pgid)
        BY <3>1 DEF tc_tcsetpgrp, Invoked, Call
      <3>2. CASE tc_tcgetpgrp(p) \/ tcsetpgrp(p) \/ tc_get_error(p)
        <4>1. call' = [call EXCEPT ![p] = NoCall(p)]
          BY <3>2 DEF tc_tcgetpgrp, tcsetpgrp, tc_get_error, Returned
        <4> QED
          BY <4>1, NoCallShape
      <3> QED
        BY <1>6, <3>1, <3>2
    <2> QED
      BY <1>1, <2>1, <2>2
  <1> QED
    BY <1>2, <1>3, <1>4, <1>5, <1>6 DEF HStep

\* Each step keeps Kept: errno is never cleared, and a failure is in it.
LEMMA StepKept ==
  ASSUME Inv, NEW p \in Process, HStep(p)
  PROVE  Kept'
  <1> SUFFICES ASSUME NEW q \in Process, unsaid'[q]
               PROVE  errno'[q] /\ answer'[q] # "no error"
    BY DEF Kept
  <1> USE DEF Inv, Shapes, HistoryShapes
  <1>1. errno[q] => errno'[q]
    BY DEF HStep, HGet, HEdit, HSet, tc_tcgetattr, GetSucceeds, GetFails, tc_tcsetattr,
           tcsetattr, SetSucceeds, SetFails, Edit, tc_tcgetpgrp, tc_tcsetpgrp, tcsetpgrp,
           tc_get_error, Failed
  <1>2. unsaid[q] \/ errno'[q]
    BY DEF HStep, HGet, HEdit, HSet, GetFails, SetFails, Failed, Unsaid, historyVars
  <1>3. errno'[q]
    BY <1>1, <1>2 DEF Kept
  <1>4. ASSUME answer'[q] = "no error" PROVE FALSE
    <2>1. answer'[q] = answer[q] \/ (q = p /\ tc_get_error(p))
      BY <1>4 DEF HStep, HGet, HEdit, HSet, tc_tcgetattr, tc_tcsetattr, tcsetattr, Edit,
                  tc_tcgetpgrp, tc_tcsetpgrp, tcsetpgrp, tc_get_error, Returned, Invoked
    <2>2. CASE tc_get_error(p) /\ q = p
      BY <1>3, <1>4, <2>2 DEF tc_get_error, Returned
    <2>3. CASE answer'[q] = answer[q] /\ ~(q = p /\ tc_get_error(p))
      <3>1. ~unsaid[q]
        BY <1>4, <2>3 DEF Kept
      <3>2. q = p /\ (HGet(p) \/ HSet(p))
        BY <3>1 DEF HStep, HGet, HEdit, HSet, Unsaid, historyVars
      <3> QED
        BY <1>4, <3>2 DEF HGet, HSet, tc_tcgetattr, tcsetattr, Returned
    <2> QED
      BY <2>1, <2>2, <2>3
  <1> QED
    BY <1>3, <1>4

LEMMA InitInv == HInit => Inv
  <1> SUFFICES ASSUME HInit PROVE Inv
    OBVIOUS
  <1>1. Shapes
    BY InitShapes DEF HInit
  <1>2. Unseen \in [read : BOOLEAN, value : [Entries -> Values]] /\ ~Unseen.read
    BY TermiosIsTyped DEF Unseen
  <1> QED
    BY <1>1, <1>2 DEF HInit, Inv, HistoryShapes, Faithful, Kept

LEMMA InvInductive == Inv /\ [HNext]_<<vars, historyVars>> => Inv'
  <1> SUFFICES ASSUME Inv, [HNext]_<<vars, historyVars>> PROVE Inv'
    OBVIOUS
  <1>1. CASE UNCHANGED <<vars, historyVars>>
    BY <1>1 DEF vars, historyVars, Inv, Shapes, HistoryShapes, Faithful, Kept
  <1>2. ASSUME NEW p \in Process, HStep(p) PROVE Inv'
    <2>1. Shapes'
      BY <1>2, HStepIsStep, StepShapes DEF Inv
    <2> QED
      BY <1>2, <2>1, StepHistoryShapes, StepFaithful, StepKept DEF Inv
  <1> QED
    BY <1>1, <1>2 DEF HNext

LEMMA Invariance == HSpec => []Inv
  BY InitInv, InvInductive, PTL DEF HSpec

\* A set gives back every entry that its script read and did not edit, however
\* others have set the terminal since, and whatever the other processes do.
THEOREM ReadsArePutBack == HSpec => SetsPutBackWhatWasRead
  <1> DEFINE PutBack == \A p \in Process : TakesPlace(p) /\ seen[p].read =>
                          \A f \in Entries \ edited[p] : modes'[f] = seen[p].value[f]
  <1>1. Inv => PutBack
    BY DEF Inv, Faithful, TakesPlace
  <1> QED
    BY <1>1, Invariance, PTL DEF SetsPutBackWhatWasRead

\* A script that is told of no error has had no read and no set fail unsaid.
THEOREM ErrorsCanBeAsked == HSpec => []SilenceMeansSuccess
  <1>1. Inv => SilenceMeansSuccess
    BY DEF Inv, Kept, SilenceMeansSuccess
  <1> QED
    BY <1>1, Invariance, PTL

=============================================================================
