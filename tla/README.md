# A verification development for Omni.Native

Omni.Native is the C part of the Omni shell: PHP extensions through which the
shell, itself written in PHP, makes pipes and processes (`fd`, `omni`), drives
the terminal (`tc`, `editline`) and parses its language (`omnilang`).  The
repository has no tests.  Each extension is a set of functions that a script
calls; what they share is the operating system (descriptors, pipes, the
terminal) and the globals that survive from one call to the next.

## Inventory

| part | state | operations | what is hard |
|---|---|---|---|
| `fd/fd.c` with `third-party/libancillary` | none of its own: the descriptor tables, pipes and socket pairs of the processes that call it | select, read, write, close, dup2, pipe, set_blocking, control_pipe, control_writefd, control_readfd, get_error | processes share pipe ends by fork, dup2 and passing; calls sleep, are interrupted, and processes die at any point; a return value must stay true while the caller acts on it |
| `omni/omni.c` | none | execvp, pipe | `omni_pipe` is `fd_pipe` again; `omni_execvp` builds one array |
| `tc/tc.c` | the modes and the foreground group of the terminal, shared by every process on it | tcgetpgrp, tcsetpgrp, tcgetattr, tcsetattr | read-modify-write of shared modes, results that are ignored |
| `editline/editline.c` | `h`, `e`, `prompt`, the autocomplete entries | init, begin, set_prompt, read, end, history_add, autocomplete_set, the tab handler | calls out of order, objects that outlive their owner |
| `omnilang/lexer.l`, `parser.y`, `ast.c` | the lexer's start condition, the parser's stack, the tree | the rules | start conditions that outlive a parse, precedence, the source text rebuilt by hand |
| `omnilang/omnilang.c` | `has_error`, `error_string`, `ast_root` | parse, get_error | globals shared by successive parses |
| the parser that bison generates | the parser's stack and its room | shift, reduce, report an error, grow | tables that merge states and reduce without a look at the token |
| `common`, `third-party/bstring`, `third-party/simclist`, `CMakeScripts` | | | libraries and build files: not modelled |

Four of these parts hold the program's own logic, and are modelled: the
descriptors that processes share, the terminal that they share, the session of
the line editor, and the language.  Within the repository they do not interact:
what they have in common, the script, passes values from one to the other, so no
module composes them.

What makes each part correct:

- **fd.**  A NULL or an "error" that a script gets is acted on for good (the
  shell closes the pipe, ends the job): it must be final, though other
  processes hold, or may yet be sent, the same pipe.  Every byte is accounted
  for by the return values.  A descriptor that is passed is not lost unseen.
  Nobody waits for ever on a pipe whose other side is gone.
- **omnilang.**  The grammar is unambiguous where the declarations of
  precedence say so; a tree has the shape its types promise, follows
  precedence, and spells the code; a parse returns, and its outcome depends on
  the code alone.
- **tc.**  A set of the modes gives the terminal what its script read and did not
  edit, and a script can find out that a read or a set failed, for the
  functions themselves do not tell.
- **editline.**  A script that heeds what is returned never makes libedit use an
  editor or a history that is not there, and gets its terminal back; the session
  recalls the history that was added to; a line is run only once it was entered.

## Modules

| module | stands for |
|---|---|
| `Posix` | the operating system as `fd.c` uses it (external): processes, descriptor tables, ends of pipes and of control pipes, bytes and descriptors in flight, the answers of read, write, sendmsg, recvmsg, poll |
| `Fd` | the functions of `fd/fd.c`, `ancil_send_fd` and `ancil_recv_fd` below them, `omni_pipe`; its properties |
| `FdHistory` | `Fd` with a history variable that adds up what fd_read and fd_write return |
| `Channels` | the abstract specification: what a pipe or a control pipe promises to those who share it |
| `FdProofs` | the theorems about `Fd` |
| `Parser` | what the lexer, the grammar and the parser have in common: values of symbols, what an action makes of them (`ast.c`), special rules |
| `Grammar` | the 86 rules of `parser.y` with their actions, the precedence declarations |
| `Lalr` | what bison makes of them: the automaton and its lookaheads, the resolution of conflicts (external), and the packed tables with their reductions by default |
| `Omnilang` | `omnilang_parse` and `omnilang_get_error` with the lexer (`lexer.l`) and the parser below them, down to the growth of its stack and its messages, for any rules, actions and tables; its properties |
| `OmnilangShapes` | the sorts of nodes, their children and how tightly operators bind; what actions and tables have to do for this (assumptions); the properties of trees |
| `OmnilangTrees` | `OmnilangShapes` with the rules of `Grammar` and the tables of `Lalr`; the properties of tables, messages and the text of trees |
| `OmnilangHistory` | `Omnilang` with the last and one earlier parse remembered |
| `OmnilangProofs`, `OmnilangShapesProofs`, `OmnilangHistoryProofs` | the theorems about `Omnilang`, `OmnilangShapes` and `OmnilangHistory` |
| `Terminal` | the functions of `tc/tc.c` and the terminal below them |
| `TerminalHistory` | `Terminal` with what each script read, edited and was not told; its properties |
| `TerminalProofs` | the theorems about both |
| `Editline` | the functions of `editline/editline.c` and what libedit does for them; its properties |
| `EditlineProofs` | the theorems about `Editline` |
| `FdHistoryProofs` | the theorem about `FdHistory` |
| `FiniteFacts` | lemmas on finite sets and sums, for the proofs |
| `MCFd`, `MCFdHistory`, `MCTerminal`, `MCEditline`, `MCOmnilang`, `MCOmnilangHistory` | instances for TLC: the calls that scripts make, the texts and the keys, the codes that are parsed |

`Fd` extends `Posix`, `FdHistory` and `FdProofs` extend `Fd`, and `Fd` refers to `Channels` through `INSTANCE ... WITH`.  `FdHistoryProofs` extends
`FdHistory` and `FdProofs`.  `FdProofs`, `EditlineProofs` and `OmnilangProofs` extend `FiniteFacts`.
`Grammar` and `Omnilang` extend `Parser`, `Lalr` extends `Grammar`, `OmnilangShapes` extends `Omnilang`, and
`OmnilangTrees` extends `OmnilangShapes` and `Lalr`: the constants of the first are the definitions of the second.
`OmnilangHistory` and `OmnilangProofs` extend `Omnilang`, `OmnilangHistoryProofs` extends both of these, and
`OmnilangShapesProofs` extends `OmnilangShapes` and `OmnilangProofs`.
`TerminalHistory` extends `Terminal`, which like `Editline` stands alone, each with its proofs.  A definition whose name
has a suffix in lower case (`PhpRead_off_by_one`) is a faulty variant of the
definition that follows it, with which the properties are seen to fail.

### fd

State.  `table[p][fd]` is the end that descriptor `fd` of process `p` refers to;
an end is one open file description, shared by every reference to it.  `buf[c]`
is what is in channel `c`: bytes, and the descriptors that some of them carry
(`SCM_RIGHTS`).  `nonblock` is the set of ends with `O_NONBLOCK`.  An end is
`Live` while a table or a message in flight refers to it.  `call[p]` and `ret[p]`
are the call of `p` and the PHP value it returned.

Actions.  A function that may sleep in the kernel is two steps, so that
everything may happen in between: `Invoke`, and one named for the function,
enabled when the system call does not sleep, which makes the system call,
translates its result (`PhpRead`, `PhpWrite`, `PhpControlRead`, the statuses of
`fd_select` in the order of the tests in the code) and returns.  A write that is
longer than the room in the pipe puts in what fits (`WriteProgress`) and goes on.
A signal ends a sleep with EINTR (`Interrupt`).  The other functions are one
step.  `Fork` and `Exit` are the shell's; a process may die at any point, in the
middle of a call too, and takes its descriptors with it.

Undefined behaviour is a choice of the model: `fd_set_blocking` reads an int of
which one byte was stored; after a failed poll `fd_select` reads `revents` that
nothing has set.  Left out: the contents of bytes, `fd_get_error` (the errno of
whatever call failed last) and tracing.  Scripts are assumed to use control pipes in the direction
that `fd_control_pipe` names, and to pass ends of pipes only (`UsesAsNamed`): nothing in
`fd.c` tests for it.

### tc

State.  `modes` is the `struct termios` of the terminal: a value for each flag,
speed and control character (`Entries`) and for the line discipline (`"line"`, the field `c_line`,
which no array has), of `Width` possible values.  `foreground` is the
process whose group has the terminal.  `array[p]` is the PHP array that a script got
from `tc_tcgetattr`: which entries it has (a script may remove one, or all of
"cc"), and the integers in them.  `errno[p]` says whether errno holds an error,
which is what tc_get_error answers.

Actions.  Every function is an action.  `tc_tcsetattr` is two, for the system may make it
wait, until output is written or while the process is stopped by SIGTTOU:
`tc_tcsetattr` loads the array into a structure, and `tcsetattr`, named for the
call below it, sets the modes or fails; `tc_tcsetpgrp` and `tcsetpgrp` likewise.
`Edit` is the script's: it assigns or removes an entry.  Loading cuts an integer to the
width of a field (`% Width`) and is a choice of any value for an index of "cc" that is
missing, where the code leaves what was on the stack, and for the line discipline, which tc_tcsetattr
never fills in, on each set.  So is all that a `tcgetattr` that failed has left.  A
tcsetattr sets the whole structure or fails, as Linux does.

`TerminalHistory` adds what each script saw at its last read of the modes, if that read
succeeded (`seen`), what it has assigned or removed since (`edited`), and whether one
of its reads or sets ever failed (`unsaid`: neither function says so).

### editline

State.  `h`, `e`, `prompt` and `autocomplete_entries` are the static variables.  A history is an
index into `histories`, for the code frees none; `e` says what the pointer points at:
nothing, an editor set up in full ("unbuffered"), one that `editline_begin` left
half way ("buffered"), or one that is freed.  `history`, `line`, `cursor` and `raw`
are libedit's (external): what the editor was given and holds, and whether it has the
terminal in raw mode.

Actions.  Every registered function is an action, with the failures of `history_init` and
`el_init`; `editline_read` reads one key, so that `Key` ranges over what a key does: insert,
complete (`_handle_tab`), Enter, ^D, move, recall an entry.  The input may end
instead (`el_gets_null`), which is answered "typing" with an empty input whatever the line
holds.  A call that
libedit does not define makes `defined` false, and the behaviour ends there.
Strings are sequences of characters, among them the newline, ^D, and the byte of
zero, at which C strings end and for which `bstr2cstr` puts "0" (`UpToNul`, `Completion`).

`told` is what a script knows from the answers: whether it has a history and a session,
and whether it has called a function that they gave it no reason to call.  `added`,
`current` and `entered` are history variables too.

### omnilang

The code is a sequence of lexemes: the pieces that one rule of `lexer.l` matches.
Those that become a token have the token's name; "comment", the quotes, the PHP
brackets and "unknown" are the others.  Which there are depends on the start condition
(`LexemesIn`): outside a PHP block "?>" is a question mark and an unknown character.  `Separate` says which may stand side by
side without being one longer match, and where blanks belong to their
neighbours.  A code is not chosen in advance: each `yylex` chooses one more
lexeme, so that codes with the same beginning share their states.

yyparse is the same for every grammar, and so is `Omnilang`: the rules with their actions (`yyrules`), the
tables (`yytable`) and what the script gets of a tree (`Converted`) are constants.  `TablesAssumption` is what makes tables those of the rules: a state that is
entered on a symbol has only items with the symbol before the dot, each continued
from the state before or begun where that state can be left on the rule's left
side; a rule is reduced only where it is complete.  The runs give the
constants the values of `Grammar` and `Lalr`, and TLC evaluates the assumptions for them.

`Rules` lists each rule with its action as data: the node it creates or works
on, its children, and how many of its symbols it appends to the text
`original`; `Reduced` carries the action out.  A text is the sequence of places in the code that it was built from,
so that a piece that is lost, doubled or moved shows.  `Tables` is computed from
`Rules` and `Levels` in the modules themselves, and packed as bison packs them: the rule
that a state reduces most often is its default, made for every token that
the state neither shifts nor refuses by %nonassoc, and without one where it does nothing
else.  The tables agree with `parser.output`, which is in the repository, in all 179
states: items, shifts, gotos, reductions with their lookaheads, and `$default`.
The checked-in `parser.tab.c` is the output of bison for an older grammar with fewer rules;
the build does not use it but generates the parser from `parser.y`.  What is
taken from it is the engine, which is the same for every grammar: `Shift`
(yybackup), `Reduce` (yydefault, yyreduce), `SyntaxError` (yyerrlab), `yynewstate` with the
growth of the stack from `YYINITDEPTH` up to `YYMAXDEPTH`, `yysyntax_error` with the list of
what was expected (`parser.y` defines YYERROR_VERBOSE), and `Return`, the end of
yyparse and of `omnilang_parse` after it.

`mode`, `has_error`, `error_string` and `ast_root` are the globals of the extension;
`omnilang_parse` resets the first two, and `has_error` alone decides what it
returns.  Left out: the characters inside a lexeme, the width of numbers,
memory (which is never freed), and tracing.

## What the runs check

| run | question | bounds | states |
|---|---|---|---|
| `fd_pipes` | Is NULL from fd_read and fd_write final, and do the return values account for every byte? | 2 processes, 1 pipe of 3 bytes (PIPE_BUF 2), 3 descriptors, writes of 2 and 4 | 250 k |
| `fd_select` | Are the statuses of fd_select true when it returns, and until somebody takes what made them true? | 2 processes, 1 pipe of 1 byte, 2 descriptors | 660 k |
| `fd_passing` | Is the end of a file final, and does no end reopen, while a write end travels between processes? | 2 processes, 1 pipe and 1 control pipe of 2 bytes each (PIPE_BUF 1), 4 descriptors | 785 k |
| `fd_order` | Do channels keep the contract of `Channels`, first in first out, and what becomes of descriptors in flight? | the same, with both ends and plain bytes in the control pipe | 578 k |
| `fd_release` | Does every call return that waits for a side that is gone? | 2 processes, 1 pipe of 2 bytes, 3 descriptors | 155 k |
| `fd_receive` | Does a successful receive store the descriptor, as libancillary's API says? It does not. | as `fd_passing`, 1 byte each | |
| `fd_zero_read` | Does NULL from fd_read mean the end of the file, as its comment says? Not for a read of no bytes. | 2 processes, 1 pipe of 1 byte, 3 descriptors | |
| `tc_modes` | What does a set of the modes put into the terminal, and can a script find out that it failed? | a shell that ignores SIGTTOU and a program, 1 flag, 1 control character and the line discipline of 2 values, integers up to 2, 1 edit | 2.62 M |
| `editline_sessions` | What must a script do to stay within what libedit defines, and what does it get for it? | any calls with 3 texts and 4 lists of completions, 1 letter, lines of 3, 2 histories of 1 entry | 2.71 M |
| `omnilang_rules` | Is the grammar unambiguous, do trees keep their shape and spell the code, and are the tokens that a message expects taken? | 26 codes, cut off anywhere and continued with any 2 lexemes | 748 k |
| `omnilang_expressions` | Do trees follow precedence, and does every parse return? | all codes of up to 8 lexemes over 11 that make expressions | 217 k |
| `omnilang_sessions` | Does the outcome of a parse depend on its code alone, and is every failure told? | any number of parses of codes of up to 2 lexemes, a stack of 2 that may grow to 4 | 226 k |

Why the bounds are enough.  The hazards of `fd` come from who holds the other
references to an end: with two processes there is the caller and somebody else,
with one pipe and dup2 an end has one reference, several in one process, and some
in each.  Three descriptors leave room for a duplicate; two make the table
full, which `fd_select` and the failing `fd_pipe` need; four hold a pipe and a
control pipe, and are full.  A capacity of two is what order takes: a descriptor
waits behind another, or behind a plain byte, reads take a part of what is there and writes
are cut short; `fd_select`, where order does not matter, has one.  Writes are shorter than PIPE_BUF, longer than it,
and longer than the pipe, where the kernel treats them differently.  Processes are
slots that are used again after an exit, and calls are not counted.  There is one
pipe to create, so that its end of life is final in a behaviour; the properties
speak of one channel at a time, and the proofs cover any number.

Two processes are enough for the terminal: one whose modes are at stake and somebody
else, and between them the foreground.  Fields do not depend on each other but by
the entry "cc", so one of each kind is enough; two values tell a change, and the
integer 2 is one that does not fit.  With one edit an entry is removed, or assigned, by
either script, and other entries are not edited.  MaxEdits bounds a counter that nothing else reads; reads and sets are not counted.

In `editline_sessions` two histories are what it takes for an editor to have another
one than `h`; a third would be in the same relation to both.  The texts are a word, a
line with its newline as the shell adds it to the history, and one with a byte of
zero; a line of three characters holds a completed word with room for a letter, or
not.  Sessions and calls are not counted.

The sentences of `omnilang_rules` reduce each of the 86 rules and match each kind
of lexeme in each start condition; cut off and continued, they put every token
behind the states of the automaton they pass.  Eight lexemes make three binary operators, or one with an operand in parentheses,
or two with a minus (whose blank is a token), in all orders; the theorem `PrecedenceIsKept` has no such bound.
The properties of trees look at TallestTree = 12 levels, which is more than any tree in the runs has; the
theorems are for any number of levels.  Two lexemes are enough for a parse to stop inside a string or a PHP
block and for the next to show whether it starts outside of it; the number of
parses has no bound.  The code's stack begins with 200 places and may grow to 10000; with 2
and 4 the same codes fill it, double it and exhaust it, in the same way.

Deadlock is checked for `omnilang` and `tc`.  It is not for `fd`, where once the last
process has exited nothing happens any more, nor for `editline`, where nothing is
said of a process after a call that is undefined.

Fairness.  `fd_release` assumes weak fairness of `Proceed(p)`: a call whose wait is
over is woken and scheduled.  Nothing is assumed of signals, of other processes, or
that a script calls anything.  For `tc` and `editline` no fairness is assumed: what
they wait for, a user or the foreground, nothing in the code brings about.
`omnilang_expressions` assumes weak fairness of
`yyparse`, a loop that runs until it returns.

The properties that earned their run:

- `EofIsFinal`, `BrokenPipeIsFinal`, `SelectErrorIsFinal`: what was reported stays
  true while the caller acts, whatever the other processes hold, duplicate, pass
  or receive.  They fail if a descriptor in flight is not counted as a reference,
  or an error is taken for the end of the file.
- `TellsOfClosedPipes`: the comment in fd_select that the write list "will tell us
  about closed pipes", although it asks poll for no such event.
- `TellsOfInput`: "ready" is said of what can be read, and of nothing else, when
  fd_select returns; `ReadinessIsTakenByOthers`: from then on it goes stale only by another
  process that reads.
- `ChannelsKeepContract`: what processes see through shared tables, descriptors in
  flight and writes cut short is a queue, for each channel.
- `RightsAreNotLost`: the only ways in which a descriptor in flight disappears.
- `BooksBalance`: through writes that are cut short by a full pipe, a signal, a
  flag set by another process, and death.
- `SetsPutBackWhatWasRead`: reading the modes, editing them and setting them are three steps, and the
  set may wait, on a terminal that others use in between.  Every entry that the script left
  alone gets the value that it read: a set that stops before the last index of "cc"
  breaks it.  That the changes of others survive is not said, for they do not, nor anything of
  the line discipline, which gets what was on the stack.
- `SilenceMeansSuccess`: the two functions answer alike whether they failed or not, so a script
  has only tc_get_error.  When that tells of no error, none of its reads and sets has
  failed, however long ago; a function that clears errno breaks this.
- `UndefinedOnlyByMisuse`, `TerminalIsGivenBack`: the statics of editline are never
  cleared, and `editline_begin` may fail half way; scripts that heed the answers are safe
  all the same, and never find their terminal left in raw mode.
- `AddedIsRecalled`: which of the histories an editor has.
- `CompleteMeansEntered`: "complete" is read off the end of the line, which completion,
  history and keys all write.
- `OriginalsAreTheCode`: the text that each node keeps is rebuilt by some 70 hand
  written lists of symbols; together they must give the code back.
- `NoConflicts`, `PrecedenceRespected`: the eight levels of precedence decide
  what they should and hide nothing else.
- `ExpectationsAreReal`: the packed tables forget lookaheads, so that errors are noticed
  after reductions that no token justifies.  No token is named in a message that would be
  refused: the property asks the tables for what a parser would do with every token, not only the next.
- `FailureIsToldOf`: omnilang_parse does not look at what yyparse returns.
- `TreesHaveShape`: no NULL child, condition before body, options at the end.
- `Repeatable`, `ErrorOfLastParse`: nothing is left over from an earlier parse.

## What the runs show

The properties hold but for two, where the code and a text in the repository
disagree; these are the findings in `PROJECT.json`.

- `third-party/libancillary/fd_recv.c:75` counts the descriptors it received from
  the `cmsg_len` that it stored itself before the call.  If the system could not
  install the descriptor, for the table is full, the receive succeeds with -1 in
  its place, and fd_control_readfd returns -1 where a failure is FALSE.
- `fd/fd.c:213` returns NULL for each read of zero bytes, so a read of length 0
  reports the end of the file on an open pipe.

The models show more of what the code does that a reader should know:

- fd_read on a control pipe takes the byte and drops the descriptor it carries.
- With `O_NONBLOCK` set in one process, a write in another that shares the end
  returns a short count or TRUE.
- After a poll that fails (`ready` is -1) the statuses mean nothing.
- A comment takes the newline that ends its line: the next line continues the
  command (`lexer.l:27`).
- The text of a mapping lacks what stands after it: the newline between it and the
  brace of foreach is in no node's text (`parser.y:270`).  `OriginalsAreTheCode`
  makes this one exception, `AfterMapping`, besides comments.
- tc_tcsetattr tests for each key with `strlen(name)` where a PHP hash counts the final
  zero too, so that test (`tc.c:82`) never finds a key, and takes the 0 for SUCCESS; the one that
  refuses an array is the zend_hash_find after it.  `c_line` is set from what was on the stack.
- The end of the input, NULL from el_gets, is answered "typing" like any key (`editline.c:122`).
- After "complete" the newline stays in the editor's line: a script that reads on
  without beginning again goes on in it.
- editline_init during a session makes a history that the session does not have:
  what is added from then on is recalled only after the next editline_begin.
- omnilang_parse refuses parameters before it resets `has_error`, so that
  omnilang_get_error then speaks of the parse before.

## What is proved

`FdProofs`, for all processes, pipes, control pipes, table sizes, capacities and
workloads that satisfy `PosixAssumption` and `WorkloadAssumption`:

| theorem | |
|---|---|
| `TypeCorrect` | `Spec => []TypeOK` |
| `AlwaysConsistent` | `Spec => []Consistent` |
| `NoEndReopens` | `Spec => ClosedStaysClosed` |
| `ContractKept` | `Spec => ChannelsKeepContract`: `Fd` implements `Channels` |
| `EofFinal` | `Spec => []EofIsFinal` |
| `BrokenPipeFinal` | `Spec => []BrokenPipeIsFinal` |
| `SelectErrorFinal` | `Spec => []SelectErrorIsFinal` |
| `ClosedPipesAreTold` | `Spec => TellsOfClosedPipes` |
| `InputIsTold` | `Spec => TellsOfInput` |
| `RightsAreKept` | `Spec => RightsAreNotLost` |
| `ReadinessHolds` | `Spec => ReadinessIsTakenByOthers` |
| `BooksAlwaysBalance` (in `FdHistoryProofs`) | `HistorySpec => []BooksBalance` |

The argument.  The inductive invariant `IInv` joins the types of the system's
state, the agreement of tables and channels (`Resources`), the ranges of pending
calls (`CallsOK`) and `CallsAsNamed`.  It says more than the types: that nothing
is buffered that cannot be read, that control pipes carry ends of pipes only, that the
dead hold nothing.  Without these a step could reopen an end: a process receives
what was buffered in a channel nobody could have read.  One lemma per action
(`fd_readStep`, `fd_dup2Step`, ...) shows that the step keeps the system's part of it,
reopens nothing and is a step of every channel (`NothingReopens`, `Contract`); they rest on a few
lemmas about kinds of step (`DroppingStep`, `AddingStep`, `QuietStep`), on what the system calls
return (`SysReadResult`, `SysWriteResult`) and on `PurgeProperties`.  `Locality`
adds that a step of one process leaves the calls of the others alone, from which
`NamedStep` follows.  For the two theorems of finality, `OrphansStay` shows that a
descriptor whose other side has gone stays so, and that its channel stays empty if it
was; `NullAnswers` that NULL comes from fd_read and fd_write alone.

For fd_select, `ErrorsAreOrphans` says what poll and the tests in fd_select make of
an entry: "error" in the write list for orphans and for nothing else, and in the read list only for
orphans with nothing left to read.  `SelectAnswers` adds that nothing but fd_select gives such an
answer.  With `IInv`, `SelectErrorIsFinal` is then inductive, for orphans stay orphans
and stay empty (`GoneStays`), and the same facts give `TellsOfClosedPipes` at the step that returns,
as `ReadyIsInput` gives `TellsOfInput`: only fd_select answers a pending select (`SelectReturns`).

`StepAccounts` lists the ways in which a step can change what a channel
holds: something is put behind it, no reader is left, fd_read takes bytes up to the first
that carries a descriptor, fd_control_readfd takes one byte.  `RightsAreKept` and
`ReadinessHolds` choose among them.  `RightsAreKept` needs that a read which finds a descriptor in front takes
only that byte (`OneTaken`).  `ReadinessHolds` needs that the writer of an empty channel
which is live after a step was live before it (`NothingReopens`), so that the channel did
hold something, and that the process that was told has the end still, so that it was not emptied for want of
readers; then only a read by another process is left.

In `FdHistoryProofs`, `HInv` adds to `IInv` that the books of each pipe balance, not only
while it can be read but before it is created too, where they are empty, and that a write under way is on a
write end.  A pipe that has lost its last reader never gets one again (`NothingReopens`), so nothing
has to be said of it.  `Kept(p, c)` is what a step of `p` has to do for the books of `c`: what is in the
pipe changes by what `p` is told and what `p` has under way, and `BalanceStep` makes the sums
of it, for all other processes have no entry and what they have under way stays
(`OthersHaveNoEntry`, `OthersStayUnderWay`).  The sums are over a finite set of processes
(`FiniteAssumption`: slots are numbered); `FiniteFacts` proves what is needed of `SumFunction`, by
induction on subsets of a finite set (`SubsetInduction`, which takes the set of the
good subsets as a parameter, not a predicate).

`TerminalProofs`, for all processes, fields, widths and numbers of edits:

| theorem | |
|---|---|
| `TerminalTypeCorrect` | `Spec => []TypeOK` |
| `ReadsArePutBack` | `HSpec => SetsPutBackWhatWasRead` |
| `ErrorsCanBeAsked` | `HSpec => []SilenceMeansSuccess` |

The inductive invariant of the last two is `Shapes /\ HistoryShapes /\ Faithful /\ Kept`.  `Faithful` says that after a
read that succeeded an array, and the structure that a waiting set was given, have the value that was seen in
every entry that was not edited.  It needs that such an entry is still in the array, so that it is loaded, and
that its value is one a field can hold, so that cutting it changes nothing.  `Kept` says that errno holds an
error once a failure has gone unsaid, and that "no error" was not told to such a script.  Both are
about the functions of `tc.c`: that nothing else in PHP clears errno between the
failure and the question is an assumption of the model.

`EditlineProofs`, for all texts, completions, keys and bounds:

| theorem | |
|---|---|
| `OnlyMisuseIsUndefined` | `Spec => []UndefinedOnlyByMisuse` |
| `SessionsGiveBack` | `Spec => []TerminalIsGivenBack` |
| `HistoryIsTheScripts` | `Spec => []AddedIsRecalled` |
| `TextsAreCStrings` | `Spec => []TypeOK` |
| `CompleteIsEntered` | `Spec => []CompleteMeansEntered` |

The inductive invariant is `Shapes /\ Sessions /\ Histories`.  `Sessions` relates what a script
has been told to the statics: a script that was told of a history has one in `h`, and
one that was told of a session and never misused a function has an unbuffered
editor in `e`; without a session the terminal is not raw.  `Histories` says that
the entries of `h` are those `added`, and that a session that is `current` has that history.
Strings and lines have an invariant of their own, `TextInv`, which is `TypeOK /\ LineOK /\ CompleteMeansEntered`:
`LineOK` says that a line into which no newline has come is made of the other characters,
which is what keeps editline_read from calling it complete.  It uses that `Newline` is not `EndOfFile`,
and that whatever comes from a string of PHP has been cut at its first zero (`CStringIsALine`).

`OmnilangProofs` and `OmnilangHistoryProofs`, for all lexemes, codes, depths of the stack, rules,
actions and tables that satisfy `DepthAssumption`, `LexemeAssumption`, `RulesAssumption` and
`TablesAssumption`:

| theorem | |
|---|---|
| `OmnilangTypeCorrect` | `Spec => []TypeOK` |
| `FailuresAreTold` | `Spec => []FailureIsToldOf` |
| `ReductionsAreSound` | `Spec => []ReductionsFindTheirSymbols`: what yyreduce pops is the right side of its rule |
| `ParsesRepeat` (in `OmnilangHistoryProofs`) | `HSpec => []Repeatable` |
| `ErrorsAreOfTheLastParse` (in `OmnilangHistoryProofs`) | `HSpec => []ErrorOfLastParse` |

The inductive invariant of `OmnilangProofs` is `LexerOK /\ ParserOK /\ SessionOK /\ GoesOn /\ FailureIsToldOf`.
Within `ParserOK`, `WellStacked` is the reason why an LR parser works: each item of
each state on the stack is spelled by the symbols below it, and the state below
those can be left on the left side of the item's rule.  `TablesAssumption` speaks of one state and
the next; `PushKeeps` makes a statement about whole stacks of it, `CutIs` and `ReductionIs`
carry it through a reduction, which pushes the left side where the rule had begun.
Without it nothing would say that the goto of a reduction exists.  `GoesOn` says
that a parse under way has room for one more symbol: so the abort after the growth of the stack
(`parser.tab.c:1310`), which would not call yyerror, is never reached (`GrowthIs`).

In `OmnilangHistoryProofs` a parse is a sequence of configurations (`Trace`): the start
condition, what is read, yylval, the lookahead, the stack and its size.  The next one is
a function of the last, and of the next lexeme where it asks for one (`Follows`); so two parses of the
same code agree as far as both go (`TracesAgree`, by the least place where they would
not), and one that stops is where the other stops (`StopsAgree`).  The invariant `HInv` says that the parse under way
has such a trace from the same beginning, and that what is remembered is what one came to (`Genuine`).
This is where the globals matter.  That each parse begins alike needs `Quiet`: the value that the lexer was
putting together is gone when a parse returns, in whatever start condition.
That the tree is a function of the configuration, although it is handed over in `ast_root`, needs `RootKept`: when
the end is shifted, the stack holds the root of this code, and it is what `ast_root` holds.
`Told` relates has_error to the parse that left it.

`OmnilangShapesProofs`, for all lexemes, codes, depths of the stack, rules, tables and heights of
trees that satisfy these assumptions and `TallestAssumption`, `ActionsAssumption`,
`OperatorsAssumption` and `PrecedenceAssumption` too:

| theorem | |
|---|---|
| `TreesKeepTheirShape` | `ConvertsNodeByNode` implies `Spec => []TreesHaveShape` |
| `PrecedenceIsKept` | `ConvertsNodeByNode` implies `Spec => []PrecedenceRespected` |

The assumptions are about one rule or one state at a time, so that TLC evaluates them for the grammar and
its tables; the theorems are about every tree of every code.  `ActionsAssumption` gives
each symbol the sorts of its values (`Promised`) and asks that each action, if the values of
the right side are what they should be, makes a node with the children of its sort, of a sort that the
left side promises (`Made`, `MakesShape`, `KeepsShape`).  `OperatorsAssumption` says where the operands of a rule for
operators are in its right side.  `PrecedenceAssumption` is what `%left` has to come to in the
tables: a state in which an operator has its right operand shifts only operators that bind
tighter, and every one of those, and does not reduce without a look at the token unless none could.
`ConvertsNodeByNode` is the equation that defines `process_node`: that definition
is recursive, so it is a hypothesis of the theorems and not a step of the proofs.

The inductive invariant is `ShapeInv`.  There is a forest, a set of nodes each of which has its
children in the set and is as the properties ask (`Good`), with every tree on the stack and
the one returned in it; so nothing has to be said of the height of a tree, and no induction is needed but the one over the
levels that the properties look at (`NodesAre`).  An action adds the nodes that it makes (`WorkedFits`,
`KidFits`, `BuiltFits`, `ReducedFits`), and the conversion adds the arrays of all nodes at
once (`ConvertedFits`).  An action that appends works on a node in place; it makes a new one here, and the old one
stays good.

That operands bind as they have to is not a property of the values alone.  `Fits` and
`BoundOnTheLeft` relate them to the stack: each state follows from the one below it by its symbol, and a token there
was one to shift (`Chained`); the items that an item comes from are below it (`ItemsChained`);
an expression that is a right operand binds tighter than the operator (`BoundOnTheRight`); and each
expression binds as tightly as the operator after it, be that on the stack or still the lookahead.  The delicate
case is a reduction that has not seen the next token (`ExpressionBinds`): the token may turn out to be
any operator, for which `Tightness("none")` is that of the tightest, and only
the operators that bind tightest may be reduced so.  The token must be one that the lexer can put together (`TokensFit`,
which needs `Quiet`), and what is handed over at the end is the tree of the root on the stack (`RootKept`).

Model-checked only: liveness (`OrphansAreReleased`, `EveryParseReturns`), which the
prover does not handle; `NoConflicts`, which is about the reductions that `Lalr` computes with recursive
operators before it packs the tables; `ExpectationsAreReal`, which asks what
a parser would come to with a token (`WillShift`, recursive), and is true of tables that merge lookaheads for
reasons that only the construction of the automaton gives; and `OriginalsAreTheCode`, for a text is
the flattening of a sequence of texts, a fold, about which nothing can be said without induction over its
length.  That the rules and tables of this grammar satisfy the assumptions of
`Omnilang` and `OmnilangShapes` is evaluated by TLC, not proved.

## Not modelled

- `omni_execvp`: after it the program is another one, which inherits every descriptor, for
  nothing in the repository sets FD_CLOEXEC; in `Fd` the slot of the process just goes
  on.  What is delicate in it is the size of one array and its holes, which are memory.
- `fd_get_error`: the errno of whatever call failed last, in any library of the process,
  PHP included.  `tc_get_error` is modelled, for it is all that tells of a failed set.
  `fd_enable_tracing` switches logging on.
- Parameters of the wrong type, which PHP refuses before a function does anything; the
  exception is omnilang_parse, where the refusal leaves the last error in place.
- In `tc`: the constants TCSANOW, TCSADRAIN and TCSAFLUSH, which differ in how long a set
  waits; a tcsetattr that sets a part, which POSIX calls a success; tc_tcsadrain, which returns a constant; "cc"
  given as something else than an array; the conversion of entries to integers in the
  caller's own array.
- In `editline`: `editline_insert`, which is not registered, so that no script can call it;
  entries of the autocomplete array that are not strings; the commands of the user's `~/.editrc`
  (`el_source`).  What libedit does with keys is external and cut down to those that
  matter to the properties.
- In `omnilang`: the characters inside a lexeme, the values of numbers, and memory.  The
  tables and line numbers in the checked-in `parser.tab.c` are of another grammar and are not
  built; tracing (YYDEBUG) is off.
- `common`: macros that register functions, and string helpers; the vendored string and list
  libraries, used as plain strings and sequences; the calls of libancillary for several
  descriptors at once, which the program does not use; the build scripts.
