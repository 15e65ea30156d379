------------------------------ MODULE Editline ------------------------------
(***************************************************************************)
(* The extension editline: a script edits a line with libedit, one key per *)
(* editline_read, between an editline_begin and an editline_end.           *)
(*                                                                         *)
(* The functions share static variables and check little: a script may     *)
(* call them in any order, and a call that hands the library an editor or  *)
(* a history that is not there is undefined.                               *)
(***************************************************************************)
EXTENDS Integers, Sequences, SequencesExt

CONSTANTS
  Letters,       \* the characters that users type
  Newline, EndOfFile, Nul, Zero,   \* "\n" (or "\r"), ^D, "\0" and "0"
  Texts,         \* the strings that scripts pass
  Completions,   \* the arrays of strings that they pass
  MaxLine,       \* the characters that the library has room for
  MaxHistories,  \* how often a history is made (a bound for TLC)
  MaxEntries     \* how many entries one has (a bound for TLC)

Characters == Letters \cup {Newline, EndOfFile, Nul, Zero}

ASSUME TextsAssumption ==
  /\ Texts \subseteq Seq(Characters)
  /\ Completions \subseteq Seq(Texts)
  /\ Nul \notin Letters \cup {Newline, EndOfFile, Zero}
  /\ Newline # EndOfFile

ASSUME BoundsAssumption ==
  /\ MaxLine \in Nat
  /\ MaxHistories \in Nat
  /\ MaxEntries \in Nat

VARIABLES
  h,             \* the history: an index of histories, or NULL
  e,             \* the editor: "null", "buffered", "unbuffered" or "freed"
  prompt,
  autocomplete_entries,
  histories,     \* every history made (none is freed): its entries
  history,       \* the one that the editor has been given, or NULL
  line, cursor,  \* what the editor holds
  raw,           \* has the terminal left its usual modes?
  answer,        \* what the last function returned
  defined,       \* has every call been one that the library defines?
  told,          \* for the properties only: what a script knows by the answers
  added,         \* for the properties only: the entries since editline_init
  current,       \* for the properties only: was the session begun after it?
  entered        \* for the properties only: did a newline come into the line?

vars == <<h, e, prompt, autocomplete_entries, histories, history, line, cursor, raw, answer,
          defined, told, added, current, entered>>

NULL == 0

\* The part of a string that is one for C.
UpToNul(text) ==
  IF Contains(text, Nul) THEN SubSeq(text, 1, SelectInSeq(text, LAMBDA c : c = Nul) - 1)
  ELSE text

Returned(status) == answer' = [status |-> status, cursor |-> 0, input |-> <<>>]

\* The call is undefined: the process may have crashed.
Undefined ==
  /\ defined' = FALSE
  /\ UNCHANGED <<h, e, prompt, autocomplete_entries, histories, history, line, cursor, raw,
                 answer, added, current, entered>>

\* The script makes a call that the answers so far give it no reason to make.
Misusing(misuse) == told' = [told EXCEPT !.misused = @ \/ misuse]

-----------------------------------------------------------------------------
(* The history and the session.                                            *)

\* Mutated: a history that is there is kept.
history_init_once ==
  IF h # NULL THEN UNCHANGED <<h, histories>>
  ELSE h' = Len(histories) + 1 /\ histories' = Append(histories, <<>>)

\* A new history; the one before it is left to the editors that have it.
history_init ==
  /\ h' = Len(histories) + 1
  /\ histories' = Append(histories, <<>>)

editline_init ==
  /\ \/ /\ Len(histories) < MaxHistories
        /\ history_init
        /\ told' = [told EXCEPT !.started = TRUE]
        /\ Returned("true")
     \/ /\ h' = NULL
        /\ told' = [told EXCEPT !.started = FALSE]
        /\ Returned("failed")
        /\ UNCHANGED histories
  /\ added' = <<>>
  /\ current' = FALSE
  /\ UNCHANGED <<e, prompt, autocomplete_entries, history, line, cursor, raw, defined, entered>>

_set_prompt(text) == prompt' = UpToNul(text)

\* Mutated: begin fails only when both are missing.
Ready_by_half(made) == made \/ h # NULL

Ready(made) == made /\ h # NULL

\* el_init is done before anything is looked at, and its editor replaces the last.
editline_begin(text) ==
  /\ \E made \in BOOLEAN :
       /\ e' = IF ~made THEN "null" ELSE IF Ready(made) THEN "unbuffered" ELSE "buffered"
       /\ told' = [told EXCEPT !.session = Ready(made), !.misused = @ \/ told.session]
       /\ \/ /\ ~Ready(made)
             /\ history' = NULL
             /\ Returned("failed")
             /\ UNCHANGED <<prompt, raw, current>>
          \/ /\ Ready(made)
             /\ _set_prompt(text)
             /\ history' = h
             /\ raw' = TRUE
             /\ current' = told.started
             /\ Returned("true")
  /\ line' = <<>>
  /\ cursor' = 0
  /\ entered' = FALSE
  /\ UNCHANGED <<h, autocomplete_entries, histories, defined, added>>

editline_set_prompt(text) ==
  /\ _set_prompt(text)
  /\ Returned("true")
  /\ UNCHANGED <<h, e, autocomplete_entries, histories, history, line, cursor, raw, defined,
                 told, added, current, entered>>

Live == e \in {"buffered", "unbuffered"}

\* Mutated: the editor is freed as it is.
Unbuffered_left == UNCHANGED raw

\* Unbuffered reads end, and the terminal gets its usual modes back.
Unbuffered_off == raw' = FALSE

\* The pointer to the editor is left.
editline_end ==
  /\ \/ /\ ~Live
        /\ Misusing(~told.session)
        /\ Undefined
     \/ /\ Live
        /\ Unbuffered_off
        /\ e' = "freed"
        /\ told' = [told EXCEPT !.session = FALSE, !.misused = @ \/ ~told.session]
        /\ Returned("none")
        /\ UNCHANGED <<h, prompt, autocomplete_entries, histories, history, line, cursor,
                       defined, added, current, entered>>

editline_history_add(entry) ==
  /\ Misusing(~told.started)
  /\ \/ /\ h = NULL
        /\ Undefined
     \/ /\ h # NULL
        /\ Len(histories[h]) < MaxEntries
        /\ histories' = [histories EXCEPT ![h] = Append(@, UpToNul(entry))]
        /\ added' = Append(added, UpToNul(entry))
        /\ Returned("true")
        /\ UNCHANGED <<h, e, prompt, autocomplete_entries, history, line, cursor, raw, defined,
                       current, entered>>

editline_autocomplete_set(entries) ==
  /\ autocomplete_entries' = entries
  /\ Returned("true")
  /\ UNCHANGED <<h, e, prompt, histories, history, line, cursor, raw, defined, told, added,
                 current, entered>>

-----------------------------------------------------------------------------
(* Reading: what a key does to the line, and what the script is told.      *)

\* The line becomes text, of which some was put into it.
Edited(text, place, put) ==
  /\ line' = text
  /\ cursor' = place
  /\ entered' = (entered \/ Contains(put, Newline))

\* A text that does not fit is not inserted.
el_insertstr(text) ==
  IF Len(line) + Len(text) <= MaxLine
  THEN Edited(SubSeq(line, 1, cursor) \o text \o SubSeq(line, cursor + 1, Len(line)),
              cursor + Len(text), text)
  ELSE UNCHANGED <<line, cursor, entered>>

\* Mutated: bstr2cstr keeps the byte.
Completion_with_nul(entry) == entry

\* bstr2cstr puts "0" where the string has a byte of zero.
Completion(entry) == [i \in DOMAIN entry |-> IF entry[i] = Nul THEN Zero ELSE entry[i]]

_handle_tab ==
  IF Len(autocomplete_entries) = 1 THEN el_insertstr(Completion(autocomplete_entries[1]))
  ELSE UNCHANGED <<line, cursor, entered>>

Enter ==
  /\ Len(line) <= MaxLine
  /\ Edited(Append(line, Newline), Len(line) + 1, <<Newline>>)

\* ^D is a character of an empty line, and deletes one of another.
ControlD ==
  IF line = <<>> THEN Edited(<<EndOfFile>>, 1, <<>>)
  ELSE IF cursor < Len(line) THEN Edited(RemoveAt(line, cursor + 1), cursor, <<>>)
  ELSE UNCHANGED <<line, cursor, entered>>

Left ==
  /\ cursor > 0
  /\ Edited(line, cursor - 1, <<>>)

\* An entry of the history takes the place of the line.
Recall ==
  /\ history # NULL
  /\ \E i \in DOMAIN histories[history] :
       LET entry == histories[history][i] IN Edited(entry, Len(entry), entry)

\* An unbuffered el_gets: a key, which may do nothing to the line.
Key ==
  \/ \E c \in Letters : el_insertstr(<<c>>)
  \/ _handle_tab
  \/ Enter
  \/ ControlD
  \/ Left
  \/ Recall
  \/ UNCHANGED <<line, cursor, entered>>

\* A buffered one, of an editor that editline_begin left half set up.
WholeLine ==
  \E c \in Letters : Edited(<<c, Newline>>, 2, <<Newline>>)

\* el_gets, with what it leaves in the editor: only a buffered one starts anew
\* and lets go of the terminal.
el_gets ==
  \/ e = "unbuffered" /\ Key /\ UNCHANGED raw
  \/ e = "buffered" /\ WholeLine /\ raw' = FALSE

\* The input has ended, or cannot be read: NULL.
el_gets_null ==
  \/ e = "unbuffered" /\ UNCHANGED <<line, cursor, entered, raw>>
  \/ e = "buffered" /\ Edited(<<>>, 0, <<>>) /\ raw' = FALSE

Read(status, input) == answer' = [status |-> status, cursor |-> cursor', input |-> input]

\* Mutated: the case of a cancelled line falls through.
Status_falling_through(text) ==
  IF text # <<>> /\ (Last(text) = Newline \/ text = <<EndOfFile>>) THEN "complete" ELSE "typing"

Status(text) ==
  IF text = <<>> THEN "typing"
  ELSE IF Last(text) = Newline THEN "complete"
  ELSE IF text = <<EndOfFile>> THEN "cancelled"
  ELSE "typing"

editline_read ==
  /\ Misusing(~told.session)
  /\ \/ /\ ~Live
        /\ Undefined
     \/ /\ \/ el_gets /\ Read(Status(line'), line')
           \/ el_gets_null /\ Read("typing", <<>>)
        /\ UNCHANGED <<h, e, prompt, autocomplete_entries, histories, history, defined, added,
                       current>>

-----------------------------------------------------------------------------
Init ==
  /\ h = NULL
  /\ e = "null"
  /\ prompt = <<>>
  /\ autocomplete_entries = <<>>
  /\ histories = <<>>
  /\ history = NULL
  /\ line = <<>>
  /\ cursor = 0
  /\ raw = FALSE
  /\ answer = [status |-> "none", cursor |-> 0, input |-> <<>>]
  /\ defined = TRUE
  /\ told = [started |-> FALSE, session |-> FALSE, misused |-> FALSE]
  /\ added = <<>>
  /\ current = FALSE
  /\ entered = FALSE

\* Nothing is said of a process after a call that is undefined.
Next ==
  /\ defined
  /\ \/ editline_init
     \/ \E text \in Texts : editline_begin(text)
     \/ \E text \in Texts : editline_set_prompt(text)
     \/ editline_read
     \/ editline_end
     \/ \E text \in Texts : editline_history_add(text)
     \/ \E entries \in Completions : editline_autocomplete_set(entries)

Spec == Init /\ [][Next]_vars

-----------------------------------------------------------------------------
(* Properties.                                                             *)

Lines == Seq(Characters \ {Nul})

\* What C functions are handed has no byte of zero, whatever scripts pass.
TypeOK ==
  /\ e \in {"null", "buffered", "unbuffered", "freed"}
  /\ h \in 0..Len(histories)
  /\ history \in 0..Len(histories)
  /\ histories \in Seq(Seq(Lines))
  /\ prompt \in Lines
  /\ line \in Lines
  /\ cursor \in 0..Len(line)
  /\ autocomplete_entries \in Seq(Texts)
  /\ answer.status \in {"none", "true", "failed", "typing", "cancelled", "complete"}

\* Statics that nothing resets (a freed editor, a missing history) are handed
\* to the library only by a script that reads or ends without a session, adds
\* to no history, or begins twice: heeding what is returned is enough.
UndefinedOnlyByMisuse == ~defined => told.misused

\* A script that heeds what is returned finds the terminal in its usual modes
\* whenever it has no session: also when editline_begin fails on its way.
TerminalIsGivenBack == ~told.misused => raw = told.session

\* What is added to the history can be recalled in the session, if it began
\* after the history was made (a history made during it is another one).
AddedIsRecalled ==
  told.session /\ current => history # NULL /\ histories[history] = added

\* Scripts run a line once it is "complete": it never is unless a newline has
\* come into it since editline_begin, from Enter or in a text that was inserted.
CompleteMeansEntered == answer.status = "complete" => entered

=============================================================================
