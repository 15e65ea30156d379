--------------------------- MODULE EditlineProofs ---------------------------
(***************************************************************************)
(* What module Editline promises, for any texts, keys, arrays to complete  *)
(* with and any number of histories: of the session, and of the strings    *)
(* and lines in it.                                                        *)
(***************************************************************************)
EXTENDS Editline, FiniteFacts, TLAPS, SequenceTheorems

-----------------------------------------------------------------------------
(* The session: the terminal and the histories.                            *)

\* The texts, as C reads them.
CTexts == {UpToNul(text) : text \in Texts}

Shapes ==
  /\ told \in [started : BOOLEAN, session : BOOLEAN, misused : BOOLEAN]
  /\ histories \in Seq(Seq(CTexts))
  /\ h \in 0..Len(histories)
  /\ raw \in BOOLEAN

\* A script that heeds what is returned has a session when there is an editor
\* that reads unbuffered, and then only.
Sessions ==
  /\ ~defined => told.misused
  /\ ~told.misused => told.session = (e = "unbuffered") /\ raw = told.session
  /\ told.started = (h # NULL)

\* The last history holds what was added, and is the one of a session that was
\* begun since it was made.
Histories ==
  /\ h # NULL => histories[h] = added
  /\ told.session /\ current => h # NULL /\ history = h

Inv == Shapes /\ Sessions /\ Histories

-----------------------------------------------------------------------------
LEMMA CStrings ==
  ASSUME NEW text \in Texts
  PROVE  UpToNul(text) \in CTexts
  BY DEF CTexts

\* A history that is added to keeps its place among the histories.
LEMMA EntryAdded ==
  ASSUME NEW s \in Seq(Seq(CTexts)), NEW i \in 1..Len(s), NEW entry \in CTexts
  PROVE  LET added_to == [s EXCEPT ![i] = Append(@, entry)]
         IN  /\ added_to \in Seq(Seq(CTexts))
             /\ Len(added_to) = Len(s)
             /\ added_to[i] = Append(s[i], entry)
  <1>1. Append(s[i], entry) \in Seq(CTexts)
    OBVIOUS
  <1> QED
    BY <1>1

LEMMA HistoryMade ==
  ASSUME NEW s \in Seq(Seq(CTexts))
  PROVE  /\ Append(s, <<>>) \in Seq(Seq(CTexts))
         /\ Len(Append(s, <<>>)) = Len(s) + 1
         /\ Append(s, <<>>)[Len(s) + 1] = <<>>
  <1>1. <<>> \in Seq(CTexts)
    OBVIOUS
  <1> QED
    BY <1>1

LEMMA InitInv == Init => Inv
  <1> SUFFICES ASSUME Init PROVE Inv
    OBVIOUS
  <1>1. <<>> \in Seq(Seq(CTexts)) /\ Len(<<>>) = 0
    OBVIOUS
  <1>2. Shapes
    <2>1. told \in [started : BOOLEAN, session : BOOLEAN, misused : BOOLEAN]
      BY DEF Init
    <2>2. raw \in BOOLEAN
      BY DEF Init
    <2>3. histories \in Seq(Seq(CTexts)) /\ h \in 0..Len(histories)
      BY <1>1 DEF Init, NULL
    <2> QED
      BY <2>1, <2>2, <2>3 DEF Shapes
  <1>3. Sessions
    BY DEF Init, Sessions
  <1>4. Histories
    BY DEF Init, Histories
  <1> QED
    BY <1>2, <1>3, <1>4 DEF Inv

\* An undefined call changes only what is known of the script.
LEMMA UndefinedInv ==
  ASSUME Inv, NEW misuse \in BOOLEAN, Undefined, Misusing(misuse),
         ~told.misused => misuse
  PROVE  Inv'
  BY DEF Inv, Shapes, Sessions, Histories, Undefined, Misusing

LEMMA InitCallInv ==
  ASSUME Inv, defined, editline_init
  PROVE  Inv'
  <1>1. added' = <<>> /\ current' = FALSE /\ UNCHANGED <<e, history, raw, defined>>
    BY DEF editline_init
  <1>2. CASE history_init /\ told' = [told EXCEPT !.started = TRUE]
    <2>1. histories' = Append(histories, <<>>) /\ h' = Len(histories) + 1
      BY <1>2 DEF history_init
    <2>2. /\ histories' \in Seq(Seq(CTexts))
          /\ Len(histories') = Len(histories) + 1
          /\ histories'[h'] = <<>>
      BY <2>1, HistoryMade DEF Inv, Shapes
    <2>3. told' \in [started : BOOLEAN, session : BOOLEAN, misused : BOOLEAN]
      BY <1>2 DEF Inv, Shapes
    <2>4. told'.started /\ told'.session = told.session /\ told'.misused = told.misused
      BY <1>2 DEF Inv, Shapes
    <2>5. h' # NULL /\ h' \in 0..Len(histories')
      BY <2>1, <2>2 DEF Inv, Shapes, NULL
    <2>6. Shapes'
      BY <1>1, <2>2, <2>3, <2>5 DEF Inv, Shapes
    <2>7. (~defined => told.misused)' /\ told'.started = (h' # NULL)
      BY <1>1, <2>3, <2>4, <2>5 DEF Inv, Sessions
    <2>8. (~told.misused => told.session = (e = "unbuffered") /\ raw = told.session)'
      BY <1>1, <2>4 DEF Inv, Sessions
    <2>9. Histories'
      BY <1>1, <2>2 DEF Histories
    <2> QED
      BY <2>6, <2>7, <2>8, <2>9 DEF Inv, Sessions
  <1>3. CASE h' = NULL /\ UNCHANGED histories /\ told' = [told EXCEPT !.started = FALSE]
    <2>1. Shapes'
      <3>1. told' \in [started : BOOLEAN, session : BOOLEAN, misused : BOOLEAN]
        BY <1>3 DEF Inv, Shapes
      <3>2. h' \in 0..Len(histories')
        BY <1>3 DEF Inv, Shapes, NULL
      <3> QED
        BY <1>1, <1>3, <3>1, <3>2 DEF Inv, Shapes
    <2>2. Sessions'
      BY <1>1, <1>3 DEF Inv, Shapes, Sessions
    <2>3. Histories'
      BY <1>1, <1>3 DEF Histories
    <2> QED
      BY <2>1, <2>2, <2>3 DEF Inv
  <1> QED
    BY <1>2, <1>3 DEF editline_init

LEMMA BeginInv ==
  ASSUME Inv, defined, NEW text \in Texts, editline_begin(text)
  PROVE  Inv'
  BY DEF Inv, Shapes, Sessions, Histories, NULL, editline_begin, Ready

LEMMA EndInv ==
  ASSUME Inv, defined, editline_end
  PROVE  Inv'
  <1>1. CASE ~Live /\ Misusing(~told.session) /\ Undefined
    <2>1. ~told.misused => ~told.session
      BY <1>1 DEF Inv, Sessions, Live
    <2> QED
      BY <1>1, <2>1, UndefinedInv DEF Inv, Shapes
  <1>2. CASE Live
    BY <1>2 DEF Inv, Shapes, Sessions, Histories, editline_end, Unbuffered_off
  <1> QED
    BY <1>1, <1>2 DEF editline_end

LEMMA HistoryAddInv ==
  ASSUME Inv, defined, NEW entry \in Texts, editline_history_add(entry)
  PROVE  Inv'
  <1>1. CASE h = NULL /\ Misusing(~told.started) /\ Undefined
    <2>1. ~told.misused => ~told.started
      BY <1>1 DEF Inv, Sessions
    <2> QED
      BY <1>1, <2>1, UndefinedInv DEF Inv, Shapes
  <1>2. CASE h # NULL
    <2>1. h \in 1..Len(histories)
      BY <1>2 DEF Inv, Shapes, NULL
    <2>2. /\ histories' = [histories EXCEPT ![h] = Append(@, UpToNul(entry))]
          /\ added' = Append(added, UpToNul(entry))
          /\ UNCHANGED <<h, e, raw, defined, history, current>>
      BY <1>2 DEF editline_history_add, Undefined
    <2>3. /\ histories' \in Seq(Seq(CTexts))
          /\ Len(histories') = Len(histories)
          /\ histories'[h] = Append(histories[h], UpToNul(entry))
      BY <2>1, <2>2, EntryAdded, CStrings DEF Inv, Shapes
    <2>4. Misusing(~told.started) /\ told.started
      BY <1>2 DEF editline_history_add, Inv, Sessions
    <2> QED
      BY <1>2, <2>2, <2>3, <2>4 DEF Misusing, Inv, Shapes, Sessions, Histories
  <1> QED
    BY <1>1, <1>2 DEF editline_history_add

LEMMA ReadInv ==
  ASSUME Inv, defined, editline_read
  PROVE  Inv'
  <1>1. CASE ~Live /\ Misusing(~told.session) /\ Undefined
    <2>1. ~told.misused => ~told.session
      BY <1>1 DEF Inv, Sessions, Live
    <2> QED
      BY <1>1, <2>1, UndefinedInv DEF Inv, Shapes
  <1>2. CASE Live
    <2>1. /\ told' = [told EXCEPT !.misused = @ \/ ~told.session]
          /\ UNCHANGED <<h, e, histories, history, defined, added, current>>
      BY <1>2 DEF editline_read, Misusing
    <2>2. CASE e = "unbuffered" /\ raw' = raw
      BY <2>1, <2>2 DEF Inv, Shapes, Sessions, Histories
    <2>3. CASE e = "buffered" /\ raw' = FALSE
      <3>1. ~told.misused => ~told.session
        BY <2>3 DEF Inv, Sessions
      <3>2. told'.misused
        BY <2>1, <3>1 DEF Inv, Shapes
      <3>3. Shapes'
        BY <2>1, <2>3 DEF Inv, Shapes
      <3>4. Sessions' /\ Histories'
        BY <2>1, <3>2 DEF Inv, Shapes, Sessions, Histories
      <3> QED
        BY <3>3, <3>4 DEF Inv
    <2>4. (e = "unbuffered" /\ raw' = raw) \/ (e = "buffered" /\ raw' = FALSE)
      BY <1>2 DEF editline_read, el_gets, el_gets_null
    <2> QED
      BY <2>2, <2>3, <2>4
  <1> QED
    BY <1>1, <1>2 DEF editline_read, el_gets, el_gets_null, Live

LEMMA NextInv == Inv /\ [Next]_vars => Inv'
  <1> SUFFICES ASSUME Inv, [Next]_vars PROVE Inv'
    OBVIOUS
  <1>1. ASSUME Next PROVE Inv'
    <2> USE <1>1
    <2>1. CASE \E text \in Texts : editline_set_prompt(text)
      BY <2>1 DEF Inv, Shapes, Sessions, Histories, editline_set_prompt
    <2>2. CASE \E entries \in Completions : editline_autocomplete_set(entries)
      BY <2>2 DEF Inv, Shapes, Sessions, Histories, editline_autocomplete_set
    <2> QED
      BY <2>1, <2>2, InitCallInv, BeginInv, EndInv, HistoryAddInv, ReadInv DEF Next
  <1>2. CASE UNCHANGED vars
    BY <1>2 DEF Inv, Shapes, Sessions, Histories, vars
  <1> QED
    BY <1>1, <1>2

THEOREM Invariance == Spec => []Inv
  BY InitInv, NextInv, PTL DEF Spec

\* No script that heeds what is returned makes an undefined call.
THEOREM OnlyMisuseIsUndefined == Spec => []UndefinedOnlyByMisuse
  <1>1. Inv => UndefinedOnlyByMisuse
    BY DEF Inv, Sessions, UndefinedOnlyByMisuse
  <1> QED
    BY <1>1, Invariance, PTL

\* Nor does one leave the terminal changed once it has ended its session.
THEOREM SessionsGiveBack == Spec => []TerminalIsGivenBack
  <1>1. Inv => TerminalIsGivenBack
    BY DEF Inv, Sessions, TerminalIsGivenBack
  <1> QED
    BY <1>1, Invariance, PTL

\* The history of a session begun since the history was made has what was added.
THEOREM HistoryIsTheScripts == Spec => []AddedIsRecalled
  <1>1. Inv => AddedIsRecalled
    BY DEF Inv, Histories, AddedIsRecalled
  <1> QED
    BY <1>1, Invariance, PTL

-----------------------------------------------------------------------------
(* Strings and lines: C functions are handed strings of C, and a line is   *)
(* complete only when a newline has come into it.                          *)

\* The characters of lines, and of lines without a newline.
Typed == Characters \ {Nul}
Plain == Typed \ {Newline}

\* Lines are those of a set of characters, if their places are in it.
LEMMA WithinAlphabet ==
  ASSUME NEW S, NEW T, NEW s \in Seq(S), \A i \in 1..Len(s) : s[i] \in T
  PROVE  s \in Seq(T)
<1>1. Len(s) \in Nat /\ s \in [1..Len(s) -> S]
  BY LenProperties
<1>2. s \in [1..Len(s) -> T]
  BY <1>1
<1> QED
  BY <1>1, <1>2, SeqDef

\* A C string ends before the first byte of zero.
LEMMA CStringIsALine ==
  ASSUME NEW text \in Seq(Characters)
  PROVE  UpToNul(text) \in Lines
<1> DEFINE zeros == {i \in 1..Len(text) : text[i] = Nul}
           n == Min(zeros)
<1>1. Len(text) \in Nat
  OBVIOUS
<1>2. CASE Contains(text, Nul)
  <2>1. zeros # {} /\ zeros \in SUBSET (1..Len(text))
    BY <1>2 DEF Contains
  <2>2. n \in zeros /\ \A i \in zeros : n <= i
    <3> HIDE DEF zeros
    <3> QED
      BY <1>1, <2>1, MinOfBounded
  <2>3. UpToNul(text) = SubSeq(text, 1, n - 1)
    BY <1>2, <2>1 DEF UpToNul, SelectInSeq
  <2>4. n \in 1..Len(text)
    BY <2>2
  <2>5. \A i \in 1..(n - 1) : i \in 1..Len(text) /\ i \notin zeros
    <3> HIDE DEF n
    <3> QED
      BY <1>1, <2>2, <2>4
  <2>6. \A i \in 1..(n - 1) : text[i] \in Typed
    <3> HIDE DEF n
    <3> QED
      BY <2>5, ElementOfSeq DEF Typed
  <2>7. SubSeq(text, 1, n - 1) \in Seq(Typed)
    <3> HIDE DEF n
    <3> QED
      BY <2>4, <2>6, SubSeqProperties
  <2> QED
    BY <2>3, <2>7 DEF Lines, Typed
<1>3. CASE ~Contains(text, Nul)
  <2>1. \A i \in 1..Len(text) : text[i] \in Typed
    BY <1>3, ElementOfSeq DEF Contains, Typed
  <2>2. text \in Seq(Typed)
    BY <2>1, WithinAlphabet
  <2> QED
    BY <1>3, <2>2 DEF UpToNul, Lines, Typed
<1> QED
  BY <1>2, <1>3

\* So does what is completed with.
LEMMA CompletionIsALine ==
  ASSUME NEW entry \in Seq(Characters)
  PROVE  Completion(entry) \in Lines
<1>1. Len(entry) \in Nat /\ DOMAIN entry = 1..Len(entry) /\ entry \in [1..Len(entry) -> Characters]
  BY LenProperties
<1>2. Zero \in Typed
  BY TextsAssumption DEF Typed, Characters
<1>3. \A i \in 1..Len(entry) : (IF entry[i] = Nul THEN Zero ELSE entry[i]) \in Typed
  BY <1>1, <1>2 DEF Typed
<1>4. Completion(entry) \in [1..Len(entry) -> Typed]
  BY <1>1, <1>3 DEF Completion
<1> QED
  BY <1>1, <1>4, SeqDef DEF Lines, Typed

\* A line without a newline is one of plain characters.
LEMMA NoNewline ==
  ASSUME NEW text \in Lines, ~Contains(text, Newline)
  PROVE  text \in Seq(Plain)
<1>1. \A i \in 1..Len(text) : text[i] \in Plain
  BY ElementOfSeq DEF Contains, Plain, Typed, Lines
<1> QED
  BY <1>1, WithinAlphabet DEF Lines

\* Pieces of a sequence.
LEMMA Pieces ==
  ASSUME NEW S, NEW s \in Seq(S), NEW n \in 0..Len(s)
  PROVE  /\ SubSeq(s, 1, n) \in Seq(S) /\ Len(SubSeq(s, 1, n)) = n
         /\ SubSeq(s, n + 1, Len(s)) \in Seq(S)
         /\ Len(SubSeq(s, n + 1, Len(s))) = Len(s) - n
<1>1. Len(s) \in Nat /\ n \in Nat
  OBVIOUS
<1>2. \A i \in 1..Len(s) : s[i] \in S
  BY ElementOfSeq
<1>3. SubSeq(s, 1, n) \in Seq(S) /\ Len(SubSeq(s, 1, n)) = IF 1 <= n THEN n - 1 + 1 ELSE 0
  BY <1>1, <1>2, SubSeqProperties
<1>4. /\ SubSeq(s, n + 1, Len(s)) \in Seq(S)
      /\ Len(SubSeq(s, n + 1, Len(s))) = IF n + 1 <= Len(s) THEN Len(s) - (n + 1) + 1 ELSE 0
  BY <1>1, <1>2, SubSeqProperties
<1> QED
  BY <1>1, <1>3, <1>4

LEMMA InsertedSeq ==
  ASSUME NEW S, NEW s \in Seq(S), NEW n \in 0..Len(s), NEW t \in Seq(S)
  PROVE  /\ SubSeq(s, 1, n) \o t \o SubSeq(s, n + 1, Len(s)) \in Seq(S)
         /\ Len(SubSeq(s, 1, n) \o t \o SubSeq(s, n + 1, Len(s))) = Len(s) + Len(t)
<1> DEFINE u == SubSeq(s, 1, n)
           v == SubSeq(s, n + 1, Len(s))
<1>1. u \in Seq(S) /\ Len(u) = n /\ v \in Seq(S) /\ Len(v) = Len(s) - n
  BY Pieces
<1>2. (u \o t) \in Seq(S) /\ Len(u \o t) = Len(u) + Len(t)
  <2> HIDE DEF u, v
  <2> QED
    BY <1>1, ConcatProperties
<1>3. ((u \o t) \o v) \in Seq(S) /\ Len((u \o t) \o v) = Len(u \o t) + Len(v)
  <2> HIDE DEF u, v
  <2> QED
    BY <1>1, <1>2, ConcatProperties
<1>4. Len(s) \in Nat /\ Len(t) \in Nat
  OBVIOUS
<1>5. Len((u \o t) \o v) = Len(s) + Len(t)
  <2> HIDE DEF u, v
  <2> QED
    BY <1>1, <1>2, <1>3, <1>4
<1> QED
  BY <1>3, <1>5, Zenon DEF u, v

LEMMA RemovedSeq ==
  ASSUME NEW S, NEW s \in Seq(S), NEW n \in 0..Len(s), n < Len(s)
  PROVE  /\ RemoveAt(s, n + 1) \in Seq(S)
         /\ Len(RemoveAt(s, n + 1)) = Len(s) - 1
<1> DEFINE u == SubSeq(s, 1, n)
           v == SubSeq(s, (n + 1) + 1, Len(s))
<1>1. Len(s) \in Nat /\ n \in Nat /\ n + 1 \in 0..Len(s) /\ (n + 1) - 1 = n
  OBVIOUS
<1>2. u \in Seq(S) /\ Len(u) = n /\ v \in Seq(S) /\ Len(v) = Len(s) - (n + 1)
  BY <1>1, Pieces
<1>3. RemoveAt(s, n + 1) = u \o v
  BY <1>1 DEF RemoveAt
<1> HIDE DEF u, v
<1>4. u \o v \in Seq(S) /\ Len(u \o v) = Len(u) + Len(v)
  BY <1>2, ConcatProperties
<1>5. Len(u) + Len(v) = Len(s) - 1
  BY <1>1, <1>2
<1> QED
  BY <1>3, <1>4, <1>5, Zenon

-----------------------------------------------------------------------------
\* What the editor holds: a line with a newline only if one has come into it.
LineOK ==
  /\ line \in Lines
  /\ cursor \in 0..Len(line)
  /\ entered \in BOOLEAN
  /\ entered \/ line \in Seq(Plain)

TextInv == TypeOK /\ LineOK /\ CompleteMeansEntered

LEMMA EmptyLineOK ==
  <<>> \in Lines /\ <<>> \in Seq(Plain) /\ 0 \in 0..Len(<<>>)
BY EmptySeq DEF Lines

\* A line that is put together from the line and a text.
LEMMA EditedOK ==
  ASSUME LineOK, NEW text, NEW place, NEW put \in Lines, Edited(text, place, put),
         text \in Lines, place \in 0..Len(text),
         line \in Seq(Plain) /\ put \in Seq(Plain) => text \in Seq(Plain)
  PROVE  LineOK'
<1>1. line' = text /\ cursor' = place /\ entered' = (entered \/ Contains(put, Newline))
  BY DEF Edited
<1>2. entered' \in BOOLEAN
  BY <1>1 DEF LineOK, Contains
<1>3. entered' \/ line' \in Seq(Plain)
  <2> SUFFICES ASSUME ~entered, ~Contains(put, Newline)
               PROVE  text \in Seq(Plain)
    BY <1>1
  <2> QED
    BY NoNewline DEF LineOK
<1> QED
  BY <1>1, <1>2, <1>3 DEF LineOK

LEMMA Alphabets ==
  /\ <<>> \in Lines /\ Len(<<>>) = 0
  /\ <<>> \in Seq(Plain)
  /\ Letters \cup {EndOfFile, Zero, Newline} \subseteq Typed
  /\ Newline \notin Plain /\ Newline # EndOfFile
  /\ Lines = Seq(Typed)
BY TextsAssumption DEF Lines, Typed, Plain, Characters

LEMMA InsertOK ==
  ASSUME LineOK, NEW text \in Lines, el_insertstr(text)
  PROVE  LineOK'
<1>1. CASE ~(Len(line) + Len(text) <= MaxLine)
  BY <1>1 DEF el_insertstr, LineOK
<1>2. CASE Len(line) + Len(text) <= MaxLine
  <2> DEFINE new == SubSeq(line, 1, cursor) \o text \o SubSeq(line, cursor + 1, Len(line))
  <2>1. Edited(new, cursor + Len(text), text)
    BY <1>2 DEF el_insertstr
  <2>2. new \in Seq(Typed) /\ Len(new) = Len(line) + Len(text)
    BY InsertedSeq, Alphabets DEF LineOK
  <2>3. line \in Seq(Plain) /\ text \in Seq(Plain) => new \in Seq(Plain)
    BY InsertedSeq DEF LineOK
  <2>4. cursor + Len(text) \in 0..Len(new)
    <3>1. Len(line) \in Nat /\ Len(text) \in Nat /\ cursor \in 0..Len(line)
      BY DEF LineOK, Lines
    <3> HIDE DEF new
    <3> QED
      BY <2>2, <3>1
  <2> HIDE DEF new
  <2> QED
    BY <2>1, <2>2, <2>3, <2>4, EditedOK, Alphabets
<1> QED
  BY <1>1, <1>2

LEMMA EnterOK ==
  ASSUME LineOK, Enter
  PROVE  LineOK'
<1>1. /\ line \in Seq(Typed) /\ Newline \in Typed
      /\ <<Newline>> \in Lines /\ Contains(<<Newline>>, Newline)
  BY Alphabets DEF LineOK, Contains
<1>2. /\ line' = Append(line, Newline) /\ cursor' = Len(line) + 1
      /\ entered' = (entered \/ Contains(<<Newline>>, Newline))
  BY DEF Enter, Edited
<1>3. line' \in Seq(Typed) /\ Len(line') = Len(line) + 1
  BY <1>1, <1>2
<1>4. cursor' \in 0..Len(line')
  BY <1>1, <1>2, <1>3
<1>5. entered' = TRUE
  BY <1>1, <1>2 DEF LineOK
<1> QED
  BY <1>3, <1>4, <1>5, Alphabets DEF LineOK

LEMMA ControlDOK ==
  ASSUME LineOK, ControlD
  PROVE  LineOK'
<1>1. CASE line = <<>>
  <2>1. Edited(<<EndOfFile>>, 1, <<>>)
    BY <1>1 DEF ControlD
  <2>2. <<EndOfFile>> \in Lines /\ Len(<<EndOfFile>>) = 1
    BY Alphabets
  <2>4. <<EndOfFile>> \in Seq(Plain) /\ 1 \in 0..Len(<<EndOfFile>>)
    BY <2>2, Alphabets DEF Plain
  <2> QED
    BY <2>1, <2>2, <2>4, EditedOK, Alphabets, Zenon
<1>2. CASE line # <<>> /\ cursor < Len(line)
  <2>1. Edited(RemoveAt(line, cursor + 1), cursor, <<>>)
    BY <1>2 DEF ControlD
  <2>2. /\ RemoveAt(line, cursor + 1) \in Seq(Typed)
        /\ Len(RemoveAt(line, cursor + 1)) = Len(line) - 1
    BY <1>2, RemovedSeq, Alphabets DEF LineOK
  <2>3. line \in Seq(Plain) => RemoveAt(line, cursor + 1) \in Seq(Plain)
    BY <1>2, RemovedSeq DEF LineOK
  <2>4. cursor \in 0..Len(RemoveAt(line, cursor + 1))
    BY <1>2, <2>2 DEF LineOK, Lines
  <2> QED
    BY <2>1, <2>2, <2>3, <2>4, EditedOK, Alphabets
<1>3. CASE line # <<>> /\ ~(cursor < Len(line))
  BY <1>3 DEF ControlD, LineOK
<1> QED
  BY <1>1, <1>2, <1>3

\* Whatever key it is.
LEMMA KeyOK ==
  ASSUME TypeOK, LineOK, Key
  PROVE  LineOK'
<1>1. ASSUME NEW c \in Letters, el_insertstr(<<c>>)
      PROVE  LineOK'
  <2>1. <<c>> \in Lines
    BY Alphabets
  <2> QED
    BY <1>1, <2>1, InsertOK
<1>2. CASE _handle_tab
  <2>1. CASE Len(autocomplete_entries) = 1
    <3>1. autocomplete_entries[1] \in Seq(Characters)
      <4>1. autocomplete_entries \in Seq(Texts) /\ 1 \in 1..Len(autocomplete_entries)
        BY <2>1 DEF TypeOK
      <4>2. autocomplete_entries[1] \in Texts
        BY <4>1, ElementOfSeq
      <4> QED
        BY <4>2, TextsAssumption
    <3>2. Completion(autocomplete_entries[1]) \in Lines
      BY <3>1, CompletionIsALine
    <3> QED
      BY <1>2, <2>1, <3>2, InsertOK DEF _handle_tab
  <2>2. CASE Len(autocomplete_entries) # 1
    BY <1>2, <2>2 DEF _handle_tab, LineOK
  <2> QED
    BY <2>1, <2>2
<1>3. CASE Left
  <2>1. Edited(line, cursor - 1, <<>>)
    BY <1>3 DEF Left
  <2>2. line \in Lines /\ cursor - 1 \in 0..Len(line)
    BY <1>3 DEF Left, LineOK, Lines
  <2> QED
    BY <2>1, <2>2, EditedOK, Alphabets
<1>4. CASE Recall
  <2>1. PICK i \in DOMAIN histories[history] :
          Edited(histories[history][i], Len(histories[history][i]), histories[history][i])
    BY <1>4 DEF Recall
  <2>2. history \in 1..Len(histories)
    BY <1>4 DEF Recall, TypeOK, NULL
  <2>3. histories[history] \in Seq(Lines)
    BY <2>2 DEF TypeOK
  <2> DEFINE entry == histories[history][i]
  <2>4. entry \in Lines
    BY <2>3
  <2> HIDE DEF entry
  <2>5. Len(entry) \in 0..Len(entry)
    BY <2>4 DEF Lines
  <2>6. Edited(entry, Len(entry), entry)
    BY <2>1 DEF entry
  <2> QED
    BY <2>4, <2>5, <2>6, EditedOK
<1>5. CASE UNCHANGED <<line, cursor, entered>>
  BY <1>5 DEF LineOK
<1> QED
  BY <1>1, <1>2, <1>3, <1>4, <1>5, EnterOK, ControlDOK DEF Key

\* A line that is complete ends with a newline.
LEMMA CompleteHasNewline ==
  ASSUME NEW text, Status(text) = "complete"
  PROVE  text \notin Seq(Plain)
<1>1. text # <<>> /\ Last(text) = Newline
  BY DEF Status
<1>2. ASSUME text \in Seq(Plain)
      PROVE  FALSE
  <2>1. Len(text) \in 1..Len(text)
    BY <1>1, <1>2, EmptySeq
  <2>2. Last(text) \in Plain
    BY <1>2, <2>1 DEF Last
  <2> QED
    BY <1>1, <2>2, Alphabets
<1> QED
  BY <1>2

LEMMA ReadStep ==
  ASSUME TextInv, editline_read
  PROVE  TextInv'
<1>1. CASE ~Live /\ Undefined
  BY <1>1 DEF Undefined, TextInv, TypeOK, LineOK, CompleteMeansEntered
<1>2. CASE Live
  <2>1. /\ el_gets \/ el_gets_null
        /\ UNCHANGED <<h, e, prompt, autocomplete_entries, histories, history>>
    BY <1>2 DEF editline_read
  <2>2. LineOK'
    <3>1. CASE Key
      BY <3>1, KeyOK DEF TextInv
    <3>2. CASE WholeLine
      <4>1. PICK c \in Letters : Edited(<<c, Newline>>, 2, <<Newline>>)
        BY <3>2 DEF WholeLine
      <4>2. <<c, Newline>> \in Lines /\ Len(<<c, Newline>>) = 2
        BY Alphabets
      <4>3. Contains(<<Newline>>, Newline)
        BY DEF Contains
      <4>4. line' = <<c, Newline>> /\ cursor' = 2
        BY <4>1 DEF Edited
      <4>5. entered' = TRUE
        BY <4>1, <4>3 DEF Edited, TextInv, LineOK
      <4> QED
        BY <4>2, <4>4, <4>5 DEF LineOK
    <3>3. CASE UNCHANGED <<line, cursor, entered>>
      BY <3>3 DEF TextInv, LineOK
    <3>4. CASE Edited(<<>>, 0, <<>>)
      <4>1. ~Contains(<<>>, Newline)
        BY DEF Contains
      <4> QED
        BY <3>4, <4>1, EmptyLineOK DEF Edited, TextInv, LineOK
    <3> QED
      BY <2>1, <3>1, <3>2, <3>3, <3>4 DEF el_gets, el_gets_null
  <2>3. answer'.status \in {Status(line'), "typing"}
    BY <1>2 DEF editline_read, Read
  <2>4. TypeOK'
    <3>1. Status(line') \in {"typing", "complete", "cancelled"}
      BY DEF Status
    <3> QED
      BY <2>1, <2>2, <2>3, <3>1 DEF TextInv, TypeOK, LineOK
  <2>5. CompleteMeansEntered'
    <3>1. Status(line') = "complete" => entered'
      BY <2>2, CompleteHasNewline DEF LineOK
    <3> QED
      BY <2>3, <3>1 DEF CompleteMeansEntered
  <2> QED
    BY <2>2, <2>4, <2>5 DEF TextInv
<1> QED
  BY <1>1, <1>2 DEF editline_read, el_gets, el_gets_null, Live

\* The actions that leave the line alone.
LEMMA OtherSteps ==
  ASSUME TextInv
  PROVE  /\ \A text \in Texts : editline_set_prompt(text) => TextInv'
         /\ \A entries \in Completions : editline_autocomplete_set(entries) => TextInv'
         /\ editline_init => TextInv'
         /\ editline_end => TextInv'
<1>1. ASSUME NEW text \in Texts, editline_set_prompt(text)
      PROVE  TextInv'
  <2>1. prompt' \in Lines
    BY <1>1, CStringIsALine, TextsAssumption DEF editline_set_prompt, _set_prompt
  <2> QED
    BY <1>1, <2>1 DEF TextInv, TypeOK, LineOK, CompleteMeansEntered, editline_set_prompt, Returned
<1>2. ASSUME NEW entries \in Completions, editline_autocomplete_set(entries)
      PROVE  TextInv'
  BY <1>2, TextsAssumption DEF TextInv, TypeOK, LineOK, CompleteMeansEntered,
     editline_autocomplete_set, Returned
<1>3. ASSUME editline_init
      PROVE  TextInv'
  <2>1. <<>> \in Seq(Lines)
    BY EmptySeq
  <2>2. /\ histories' \in Seq(Seq(Lines))
        /\ Len(histories') \in {Len(histories), Len(histories) + 1}
        /\ h' \in 0..Len(histories')
    <3>1. histories \in Seq(Seq(Lines)) /\ Len(histories) \in Nat
      BY DEF TextInv, TypeOK
    <3>2. CASE history_init
      <4>1. histories' = Append(histories, <<>>) /\ h' = Len(histories) + 1
        BY <3>2 DEF history_init
      <4>2. histories' \in Seq(Seq(Lines)) /\ Len(histories') = Len(histories) + 1
        BY <2>1, <3>1, <4>1
      <4> QED
        BY <3>1, <4>1, <4>2
    <3>3. CASE h' = 0 /\ histories' = histories
      BY <3>1, <3>3
    <3> QED
      BY <1>3, <3>2, <3>3 DEF editline_init, NULL
  <2>3. history' = history /\ history' \in 0..Len(histories')
    BY <1>3, <2>2 DEF TextInv, TypeOK, editline_init
  <2>4. answer'.status \in {"true", "failed"}
    BY <1>3 DEF editline_init, Returned
  <2> QED
    BY <1>3, <2>2, <2>3, <2>4 DEF TextInv, TypeOK, LineOK, CompleteMeansEntered, editline_init
<1>4. ASSUME editline_end
      PROVE  TextInv'
  BY <1>4 DEF TextInv, TypeOK, LineOK, CompleteMeansEntered, editline_end, Undefined, Returned
<1> QED
  BY <1>1, <1>2, <1>3, <1>4

LEMMA BeginStep ==
  ASSUME TextInv, NEW text \in Texts, editline_begin(text)
  PROVE  TextInv'
<1>1. line' = <<>> /\ cursor' = 0 /\ entered' = FALSE
  BY DEF editline_begin
<1>2. LineOK'
  BY <1>1, EmptyLineOK DEF LineOK
<1>3. prompt' \in Lines
  BY CStringIsALine, TextsAssumption DEF editline_begin, _set_prompt, TextInv, TypeOK
<1>4. history' \in 0..Len(histories')
  BY DEF editline_begin, TextInv, TypeOK, NULL
<1>5. answer'.status \in {"true", "failed"}
  BY DEF editline_begin, Returned
<1> QED
  BY <1>2, <1>3, <1>4, <1>5 DEF TextInv, TypeOK, LineOK, CompleteMeansEntered, editline_begin

LEMMA HistoryAddStep ==
  ASSUME TextInv, NEW entry \in Texts, editline_history_add(entry)
  PROVE  TextInv'
<1>1. CASE h = NULL
  BY <1>1 DEF TextInv, TypeOK, LineOK, CompleteMeansEntered, editline_history_add, Undefined
<1>2. CASE h # NULL
  <2>1. h \in 1..Len(histories) /\ UpToNul(entry) \in Lines
    BY <1>2, CStringIsALine, TextsAssumption DEF TextInv, TypeOK, NULL
  <2>2. histories[h] \in Seq(Lines)
    BY <2>1 DEF TextInv, TypeOK
  <2>3. Append(histories[h], UpToNul(entry)) \in Seq(Lines)
    BY <2>1, <2>2
  <2>4. histories' = [histories EXCEPT ![h] = Append(histories[h], UpToNul(entry))]
    BY <1>2 DEF editline_history_add
  <2>5. histories' \in Seq(Seq(Lines)) /\ Len(histories') = Len(histories)
    BY <2>1, <2>3, <2>4, ExceptSeq DEF TextInv, TypeOK
  <2> QED
    BY <1>2, <2>5 DEF TextInv, TypeOK, LineOK, CompleteMeansEntered, editline_history_add, Returned
<1> QED
  BY <1>1, <1>2

THEOREM TextInvariance == Spec => []TextInv
<1>1. Init => TextInv
  <2> SUFFICES ASSUME Init
               PROVE  TextInv
    OBVIOUS
  <2>1. <<>> \in Seq(Seq(Lines)) /\ <<>> \in Seq(Texts) /\ 0 \in 0..Len(<<>>)
    BY EmptySeq
  <2>2. LineOK
    BY EmptyLineOK DEF Init, LineOK
  <2>3. h \in 0..Len(histories) /\ history \in 0..Len(histories) /\ histories \in Seq(Seq(Lines))
    BY <2>1, Zenon DEF Init, NULL
  <2>4. prompt \in Lines /\ autocomplete_entries \in Seq(Texts)
    BY <2>1, Alphabets, Zenon DEF Init
  <2>5. answer.status = "none" /\ e = "null"
    BY DEF Init
  <2> QED
    BY <2>2, <2>3, <2>4, <2>5 DEF TextInv, TypeOK, LineOK, CompleteMeansEntered
<1>2. TextInv /\ [Next]_vars => TextInv'
  <2> SUFFICES ASSUME TextInv, [Next]_vars
               PROVE  TextInv'
    OBVIOUS
  <2>1. CASE Next
    BY <2>1, OtherSteps, BeginStep, HistoryAddStep, ReadStep DEF Next
  <2>2. CASE UNCHANGED vars
    BY <2>2 DEF TextInv, TypeOK, LineOK, CompleteMeansEntered, vars
  <2> QED
    BY <2>1, <2>2
<1> QED
  BY <1>1, <1>2, PTL DEF Spec

\* Whatever strings scripts pass, those that C gets have no byte of zero, and
\* the cursor is within the line.
THEOREM TextsAreCStrings == Spec => []TypeOK
<1>1. TextInv => TypeOK
  BY DEF TextInv
<1> QED
  BY <1>1, TextInvariance, PTL

\* A line is told to be complete only when a newline has come into it.
THEOREM CompleteIsEntered == Spec => []CompleteMeansEntered
<1>1. TextInv => CompleteMeansEntered
  BY DEF TextInv
<1> QED
  BY <1>1, TextInvariance, PTL

=============================================================================
