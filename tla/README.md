# FREDPP: a verification project

FREDPP is a line editor in C++, a modern version of GCOS FRED: buffers of text
lines, commands of one or two letters with line addresses, procedures, a
command line front end and an Android application. These modules model what
the program does to its state, check it with TLC on small instances, and prove
what matters most with TLAPS for every value of the constants.

Paths below are relative to the root of the repository.

## 1. Inventory

| Part | Source | State | Operations | Modelled in |
|---|---|---|---|---|
| Buffer | `src/core/Buffer.cpp` | lines, current line, modified flag, associated file, encoding, line ending, final newline | append, insert_after, replace, erase, set_current_line, load_file, associate_file, mark_clean | `Buffer` |
| Buffer manager | `src/core/BufferManager.cpp` | map of buffers, usage list, pointer to the current one | create_or_select, get_or_create, select, erase, recent/modified names | `BufferManager` |
| Address evaluator | `src/runtime/AddressEvaluator.cpp` | none | evaluate an address against a buffer | `AddressEvaluator` |
| File codec | `src/runtime/CommandExecutor.cpp` 82-210, 276-296 | none | decode on R, encode on W | `TextFile` |
| Command executor | `src/runtime/CommandExecutor.cpp` | the loop of G, the output capture of ZG (both on the call stack) | every command | `CommandExecutor` |
| Execution context | `src/runtime/ExecutionContext.cpp` | counter, condition, options, exit request, output sink, numeric registers | accessors, exchange_output | `CommandExecutor`, `ProcedureRunner` |
| Android session | `android/app/src/main/cpp/native-lib.cpp` | mutex, pending text command and its lines, queued commands | execute line, reset | `AndroidSession` (lines that call a procedure are left) |
| Procedure runner | `src/runtime/ProcedureRunner.cpp` | call depth, position in a procedure, reported errors | calls, jumps, tests, text blocks, numeric registers, running a file | `ProcedureRunner`; `FrontEnd` (running a file) |
| Flow engine | `src/flow/`, `include/fred/flow/` | stack of input sources | expansion of a text, of a buffer, of a command line | `FlowEngine`, `FlowMeaning`, `CommandInput` |
| Front end | `src/cli/main.cpp` | start-up buffers, text input mode, exit status | start-up sequence, read-execute loop | `FrontEnd` |
| Patterns | `src/parser/PatternParser.cpp`, `src/runtime/PatternMatcher.cpp`, `src/runtime/CommandExecutor.cpp` 513-577 | the loop of substitute_all (on the call stack) | parse, find, substitute_all | `Pattern`, `PatternMatcher`, `Substitution`, `PatternMeaning`, `PatternGrammar`; in the executor a pattern is the set of lines it matches |
| Lexer and parser | `src/lexer/`, `src/parser/`, `src/command/CommandRegistry.cpp` | token position, rewinding | parse, parse_one | `Lexer`, `CommandParser`, `CommandReader`, `CommandSpelling` |
| Help, terminal, version | `src/HelpManager.cpp`, `src/HelpPager.cpp`, `src/Terminal.cpp` | tables, terminal modes | formatting, paging | not modelled |

How they interact. A front end (command line, Android, or a procedure) parses
a line and hands each command to the executor. The executor reads and writes
the current buffer of the manager, the registers of the context, files, and
the output sink of the context. G calls the code of S from inside its own
loop; ZG replaces the sink, calls the executor again, restores the sink, and
puts the captured lines into a buffer. Everything runs on the caller's thread;
the only lock is that of the Android session.

What is hard. Not concurrency: *sequences*. The modified flag decides whether
Q may discard text, so every operation must keep it honest, in any order and
through any nesting. The usage list, the map and the pointer to the current
buffer are updated by different operations that have to agree. M, G and ZG
change the state under their own feet: they select another buffer, delete
lines of the range they walk over, or run a command that changes the buffer
they will write to. A command can throw half-way, and what was done stays
done. Writing can fail at three places. `PROJECT.json` lists each of these
hazards at its line, with the properties that cover it.

What makes each part correct:

- Buffer: the cursor is 0 or a line of the buffer; a buffer that is not marked
  modified holds what it last loaded or completely wrote.
- Manager: the current buffer is live; the usage list names live buffers, each
  once; a disposable buffer (FR-0006: empty, clean, without a file, not `0`)
  exists only while it is current.
- Executor: M loses no line; G examines each line of its range once and keeps
  the unselected ones; a command that has begun ends, and a capture is always
  removed; a buffer becomes clean only when its lines are in the file. Seen from
  the text alone it is a workspace: a command changes the buffers it is about
  and no other, no buffer goes with text in it, and Q is accepted only when every
  text is what a file held.
- Patterns: the parser accepts what SPEC-007 gives a tree, with two exceptions, and
  builds the only tree there is;
  the matcher finds every end of a match and comes to an end; S replaces the
  leftmost longest matches, and nothing else.
- Command language: a line that holds commands is read as those commands, however
  they are typed and whatever stands beside them; no character is read twice or
  dropped; G and ZG take exactly one command and end the line.
- Procedure runner: a procedure runs the lines it had when it was called, each
  once between two jumps; calls nest no deeper than the limit; after an exit
  nothing runs; every call ends, provided the procedures' own loops use up what
  they test.
- Flow engine: what comes out is the text with every directive replaced by the
  expansion of its buffer; a directive is never completed by the characters of
  another source; an expansion ends although buffers include themselves; only a
  failure makes the engine unusable; the two expansions of the program agree.
- Front end: the procedure begins in buffer 0 with its arguments, whatever the
  init file did before it; loading a file of procedures disturbs no other buffer,
  also when it fails; removing the init file's buffer leaves a live current one;
  every start reaches the prompt or an end, and every exit an end.
- Android session: commands run in the order they were submitted, each once,
  although a text command suspends the queue over several calls; a session that
  has ended asks for no text; every call returns.

## 2. Modules

| Module | Role |
|---|---|
| `Buffer` | the buffer as a record, one operator per method, and its invariant `BufferOK` |
| `BufferManager` | the manager as a record, one operator per method, and its invariant `ManagerOK` |
| `AddressEvaluator` | addresses; a result is a set, empty where the code throws |
| `TextFile` | what a file holds, what R makes of it and what W leaves |
| `CommandExecutor` | the state machine: variables, one action per command, properties |
| `Workspace` | the abstract specification: named texts, their copies in files, and a session |
| `CommandExecutorRefinement` | the texts and copies of the executor's state; that it implements `Workspace` |
| `MCCommandExecutor` | values of the constants for the runs |
| `AndroidSession` | the session of the Android front end, composed with the executor |
| `MCAndroidSession` | the lines its user submits in the runs |
| `ProcedureRunner` | procedures, composed with the executor |
| `MCProcedureRunner` | the procedures of the runs, written as a user would |
| `FrontEnd` | the start of the program, its init file, its procedure and its prompt, over the procedure runner |
| `MCFrontEnd` | the files, arguments and typed lines of the run |
| `FlowEngine` | the expansion of text as a state machine over the stack of sources |
| `FlowMeaning` | the same as substitution, without a stack or levels: what it should give |
| `CommandInput` | the other expansion of the program, that of command lines |
| `MCFlowEngine` | the buffers and texts of the run |
| `Pattern` | the trees of patterns and their recursive-descent parser |
| `PatternMatcher` | the ends of the matches of a tree, and the search for the first |
| `Substitution` | S on one line, one step per match |
| `PatternMeaning` | the language of patterns, and what S should make of a line |
| `PatternGrammar` | the grammar and the errors of SPEC-007, and where the parser differs from them |
| `MCSubstitution` | the patterns, lines and replacements of the run |
| `Lexer` | the tokens of a line |
| `CommandParser` | one command from the tokens: address, letter, operands, nested command |
| `CommandReader` | the loop of the front ends over the commands of a line |
| `CommandSpelling` | every way to type a command, and what reading a line should give |
| `MCCommandReader` | the chains and the fragments of the run |
| `Recursion` | induction over data, and the existence of what a recursive function defines |
| `BufferManagerProofs` | what each operation of a buffer and of the manager preserves |
| `CommandExecutorProofs` | one lemma per command, the inductive invariant, the theorems |
| `CommandExecutorRefinementProofs` | that the executor implements `Workspace` |
| `AndroidSessionProofs` | the theorems of the session, on top of those of the runtime |
| `FrontEndProofs` | the theorems of the procedure runner, on top of those of the runtime, and those of the front end on top of them |
| `FlowEngineProofs` | the theorems of the flow engine |
| `SubstitutionProofs` | the theorems of the pattern parser, the matcher and S |

How code becomes model:

- A method of `Buffer` or `BufferManager` is an operator from a record to a
  record; a command that makes several calls composes them in the order of the
  code. The argument checks that throw are what the callers establish, and the
  proofs check that they do (an operator lemma has the check as a hypothesis).
- A command is one action. Its disjuncts are its outcomes: success, and the
  ways it throws. What was changed before the exception stays changed in the
  same disjunct. `Complete` and `Fail` tell the caller: the front end
  (`outcome`), or the ZG whose nested command has ended (`sinks`).
- Two commands have inner states. `global` is the loop of G: `line`, `last` and
  the count are the loop's variables; `first`, `range` and `seen` are history.
  `sinks` is the stack of captures: ZG pushes one, the nested command is then
  an action like any other, with its output going to the top, and `EndGather`
  pops it whether that command succeeded or threw.
- The pointer to the current buffer is a name; a dangling pointer would be a
  name that is not open.
- The Android session extends the executor. Its user submits lines; `call` is
  the call of `executeLine()` in progress, which holds the mutex. A step of the
  loop in `run_queued_commands()` takes the front of the queue and is, at the
  same time, the executor's action for that command; whether that step threw is
  read from the executor's answer (`outcome`). A, I and C leave the loop, and
  `\F` passes the text collected since to the executor's entry point for them.
  An exception ends the call: with the clean-up of `execute_line()` when a line
  of commands runs, without it after `\F`, as in the code. `parsed`, `taken` and
  the numbers in the queue are history.
- The procedure runner extends the executor too. The recursion of
  `execute_buffer_impl()` is the stack `frames`: a frame has the copy of the
  lines, the index of the loop over them, and the steps of the line in progress
  that are left (`execute_single_command()` parses one command at a time, N a
  sequence of operations and a jump). What a line means is a constant,
  `Meaning`; a line with `\S(buffer)` means what the buffer holds when the
  line begins, and since the lexer takes included blanks and punctuation for
  symbols, that text has a meaning of its own, `QuotedMeaning`. A step that
  runs a command is the executor's action for it. An exception empties the
  stack; `reported` is what `report_procedure_error_context()` showed, by the
  frame whose try block is the first to catch. Between two calls the user types
  commands, which may edit the procedures. `from` and `passed` are
  history.
- The front end extends the procedure runner: `stage` is how far `main()` is, and
  between two stages the init file or the procedure runs as frames of the runner
  (`RunScript`). An exception that leaves the runner is its `answer`, which the
  `try` blocks of `main()` look at (`EndInit`, `EndMain`). `LoadScript` is
  `load_and_execute_file()`: `create_or_select`, R, `select`, and the call. Which
  buffer becomes current when the current one is erased depends on the order of
  an `unordered_map`, so `Erased` is a set of managers. `start` is what the
  process was given: the arguments and where its init file is. A line typed at the
  prompt is the sequence of its steps; `typed` is what is left of it.
- The flow engine is on its own: while it expands, nothing edits a buffer. Its
  steps are the characters it reads, and the lines and sources it leaves. Where
  `expand_current_input()` and `parse_buffer_name()` stand in the middle of a
  directive is the record `pending`: `names` is the recursion of
  `parse_buffer_name()`, one entry per call. Each source has the level that the
  code gives it, and the guards compare levels as the code does. `FlowMeaning`
  says what the result should be with recursive functions on whole texts, and no
  step of it is a step of the engine. `CommandInput` models the second expansion,
  `expand_command_literal_buffer_segment()`.
- `saved` is a history field of a buffer: its lines at the last load or
  complete write.
- `Workspace` has no commands. `Work` is whatever a command may do to texts without
  a file: it changes at most two of them, opens and drops only buffers that are
  empty and equal to their copy, and leaves the copies alone. `Exchange` makes
  a text and its copy equal, by writing a whole text or by reading into an empty
  buffer. `Leave` needs every text to be kept; `Abandon` needs nothing. The
  refinement maps a buffer to its `lines` and `saved`: `Leave` knows what the code
  can only conclude from flags.
- A parser operator takes what is parsed and a position, and answers with a node
  and the position behind it, or with `Refused` where the code throws; the
  position the code rewinds to is the one the operator was given.
- The pattern parser and the matcher are recursive functions, since something is proved
  of them. What the parser reads at a place depends on the place alone, so its
  recursion is one over places: `Lists` has, for each place, the alternatives and the
  elements read from there, and a loop that collects nodes is a list made from its
  first node and the rest. The matcher's recursion is one over trees; `Trees` are
  those no higher than the longest pattern is long (`LongestPattern`, a bound of the
  model: the code has none), and `EndsIn(text)` has the ends for each of them. Vectors
  of end positions are sets. `Substitute` is one turn of the loop of `substitute_all()`.
- The lexer is asked for tokens one by one, but what it answers depends on the
  line alone: `Tokens` makes them at once. Where the parser puts text together from
  tokens it fills the gaps between them with blanks, and so does `Between`.
- `CommandReader` is the loop of `main.cpp` 654-705 and of
  `execute_single_command()`: a command is read, executed, and the next one read.
  `FailCommand` stands for an execution that throws, and drops the rest of the
  line. What a command does is the executor's matter, not this module's.

What the data is reduced to: a line is a member of `Text`; of its bytes only
"not ASCII", "not UTF-8" and "empty" are kept. A pattern is the set of lines it
matches, a substitution a function on lines. A report (F) is a number of
identical lines. `size_t` is arithmetic modulo `SizeModulus`. In the modules about
patterns and commands a line is its characters, each with the interpretation that
the flow engine gave it; `Collation` is the order in which `char` compares bytes, which
is the platform's. The texts of diagnostics are left out everywhere. Left out: the
LF/CRLF convention, the terminal prompt, and J without a newline (its
unfinished line would be joined to the next output). A byte order mark, which
L would print, is only what makes R choose UTF-8. A write that fails
is taken to cut the file between two lines. `Unreadable` stands for a file that
R cannot open or that holds a NUL byte.

## 3. Runs

The runs of the executor use `MCCommandExecutor`, `android` and `stale_queue` use
`MCAndroidSession`, `procedures` uses `MCProcedureRunner`, `flow` uses
`MCFlowEngine`, `frontend` uses `MCFrontEnd`, `patterns` uses `MCSubstitution`, and
`language` uses `MCCommandReader`. They differ in the commands, and in the sets
from which the user types. Deadlock is not checked: the program stops
after Q or QQ, a line has been read or a substitution made, and in some runs a
bound leaves no command enabled.

| Run | Commands | Checks |
|---|---|---|
| `lines` | P D Z T A I C S G J L QQ comment | `TypeOK`, `CursorsInBuffers`, `CleanBuffersAreSaved`, `GlobalExaminesEachLineOnce`, `GlobalKeepsTheUnselected` |
| `buffers` | B M A D ZG P F O Q | `UsageListIsSound`, `TransientsAreCurrent`, `MoveDividesTheSource`, `EveryCommandEnds`, `KeepsThePromise` |
| `files` | R W L ! A D Q | `CleanIsOnDisk`, `KeepsThePromise` |
| `roundtrip` | R A W | finds `RoundTrip` violated |
| `close_fault` | A W | finds `CleanIsOnDisk` violated |
| `android` | A C P D G ZG Q QQ comment, in chains | `CommandsKeepTheirOrder`, `EndedSessionWantsNoText`, `LinesAreAnswered` |
| `stale_queue` | A D, in chains | finds `FailureClearsTheQueue` violated |
| `procedures` | A I B D G QQ, calls, J, N, `\S` | `DepthIsLimited`, `ProceduresRunTheirSnapshot`, `ReturnsPassedEverything`, `NothingRunsAfterExit`, `ProceduresEnd` |
| `frontend` | A B D G Q QQ, calls; at the start and at the prompt | `FrontEndTypeOK`, `CurrentBufferIsOpen`, `ProcedureStartsClean`, `LoadsDisturbNothing`, `StartsSettle`, `ExitEndsTheProcess` |
| `flow` | expansions, one after another | `FlowTypeOK`, `LevelsIncrease`, `DirectivesStayInTheirSource`, `OnlyFailuresBlock`, `ExpansionIsSubstitution`, `CommandInputAgrees`, `ExpansionsEnd` |
| `patterns` | patterns parsed, and S with those that are accepted | `ParserFollowsTheGrammar`, `EndsAreTheLanguage`, `SubstitutionIsLeftmostLongest`, `SubstitutionEnds` |
| `language` | lines with one or two commands of every kind, and lines put together from pieces | `ChainIsReadBack`, `NothingIsLost`, `GlobalEndsTheLine` |

Bounds. Buffers hold two or three lines: enough for a range with a line
before, inside and after it, for the deletion of the first, a middle and the
last line, and for an insertion into a range. `MaxLines` guards the commands
that add text, and `MaxNesting` = 2 allows a ZG inside a ZG, where restoring
the outer capture differs from restoring the terminal. Three names give a
source, a destination, and one name that is too long. The run `buffers` has one text, so
that it tells lost lines by their number and not by their order;
`MoveKeepsEveryLine` is about any texts. `SizeModulus` = 8 puts
the wrap-around just beyond the lines there are. The `files` run types W in its
four modes against one file that reads well and one that does not; its VIEW leaves
out the counter, the condition and what is shown, which its commands set and
never read. The
captured text of a ZG may take a buffer over `MaxLines` once; the next ZG waits
until it is short again.

The Android runs submit chains of two commands and parse up to eight commands
(`MaxQueued`) between two resets, so that a queue left behind by a failure is
joined by those of up to three later lines. `MaxLines` is as large as that number, so that
no bound stops a command and `LinesAreAnswered` is about the code alone.

The procedure runs start with two procedures loaded from files and two lines in
buffer 0, each of which may be called while any of the three is current. In
`procedures` p takes text for an I, loops backwards until the current buffer is
empty, and includes what q holds; q runs G, calls itself until the current
buffer is empty or the limit of 3 is reached, and exits in the middle of a
line. So either procedure empties its own buffer while it runs, calls find
shorter procedures the next time, without their label or the end of their
text, and errors and exits cross several levels.

The `flow` run has two buffers, each with one of nine contents: a name, nothing,
an inclusion of itself, of the other one, or of both, and texts that stop in the
middle of a directive, at the end of a line or of the buffer. With a limit of
three sources, two inclusions of one buffer into the other already reach it, and
a computed name may nest once more than the limit. Names have one character, so
that a name may be too long. `CommandInputAgrees` is about the texts of
`CommonInputs` (`MCFlowEngine`): those without `\B`, `\\` and unfinished
directives, which the two expansions treat differently by design, and whose
names nest less deep than the limit, which they count differently.

The `frontend` run starts the program in eleven ways. The init file `wander` goes to
any buffer, its own and buffer 0 included, and leaves a line there; `quit` exits
from the middle of a line unless a deletion before it fails; `fail` types Q, which is refused while
the special buffers are marked modified. The procedure deletes its arguments and
calls itself up to the limit of 2, ends, is locked, or does not exist. At the
prompt the user adds text, tries Q, runs G on a line that is wrong after it, or
calls the procedure again. B is typed in files only: at the prompt it would
multiply the states by the buffers and show nothing that `buffers` does not.

The `patterns` run has every pattern of up to three characters of an alphabet of
all syntax, two letters, and two protected characters, between slashes; every one of up
to one character between each other sign of the alphabet, and between `a` and `\`, which may
not delimit; every one of two characters between `*`, `+` and `|`; and nineteen longer ones
for what three characters cannot say, such as repetitions of what may be empty, ranges,
an operand missing in a group, and alternatives one of which is the beginning of another. Each pattern that is accepted is
used on every line of up to three letters, with a replacement that has `&`, `\&`
and a last `\`, and with an empty one. `LongestPattern` is 14, the length of the longest of these patterns
with its delimiters; no tree is higher than that, so the bound excludes none.

The `language` run types each of 30 commands, and each two of them one after another, in
all their spellings (addresses, delimiters, quotes, parentheses, short names,
separators); and fragments: six beginnings, the empty one among them, followed by up to three of 24 pieces, most of
which make no sense or another sense than the one they begin with. `SizeMax` is
255, so that 255 is a number and 256 is not; no message is longer than
`MessageLimit` = 3.

Fairness. `EveryCommandEnds` is checked under weak fairness of `Busy /\ Next`:
a command that has begun (the loop of G, or a ZG) goes on. In the code both are
ordinary calls on one thread, with nothing to wait for. No fairness is assumed
of the user, who may never type another command. `LinesAreAnswered` assumes
the same of the loop over the queue: weak fairness of `Run`, the steps of the
thread that is inside `executeLine()`. `ProceduresEnd` assumes it of the steps
of a procedure (`Run` of `ProcedureRunner`), which are calls on the thread of
the caller. `ExpansionsEnd` assumes weak fairness of `Expand`, the loop that
reads characters, also on the thread of its caller.
`SubstitutionEnds` assumes it of `Substitute`, a loop on the caller's thread too.
`StartsSettle` and `ExitEndsTheProcess` assume it of `Proceed`, what the process does
without the user: it never waits for anything but a line or a block of text.
`ProceduresEnd` and `StartsSettle` are statements about procedures whose loops use up what they
test; nothing stops `@(l)`, `J(l)`, and the procedures of the runs have no such loop.

What the violations say. Each is a statement of the documentation or of a
comment that the code does not keep (`PROJECT.json`, "findings"):

- `roundtrip`: the final newline is said to be kept for round-tripping; a blank
  last line without one is lost on W.
- `close_fault`: W is said to write the buffer, and marks it clean, but a
  failure that shows only when the file is closed goes unnoticed. The run
  `files` shows that `CleanIsOnDisk` holds for the failures that W does see.
- `stale_queue`: a failure is said to clear the queue of an Android session; it
  does not when the text command fails after `\F`, and the commands that stay
  run in front of those of the next line.

More statements of the documents and comments differ from the code in ways that show
in the code itself, and no run is spent on them: Q is said to compare buffers with
their files (`docs/fr/reference/commandes/q.md:3`), but looks at their modified flags, which
a partial W over the associated file leaves alone; a line that throws is said to
be reported (`docs/developer/RUNTIME.md:1343`), but the expansion of a line stands
outside the `try` block that reports, so that a `\S` of an unknown buffer ends the
outermost procedure without a word; FB prints every open buffer
but the destination of a ZG (`BufferManager::get_or_create` enters it on no
list); jumps never go back to the top of a procedure
(`docs/fr/fredpp/procedures.md`), but `find_jump_target()` wraps around; the
report of a failed A, I or C begins with the end of its text, not with its line;
the check after a forward address is said to catch a result beyond the last line
(`src/runtime/AddressEvaluator.cpp:81`), but the sum may have wrapped around; and
an empty buffer is said to be removed when it is left (FR-0006), but when the file
of the procedure cannot be read, its buffer stays open, empty, and the prompt is in
buffer 0. Because of the last one `TransientsAreCurrent` is a property of the
commands, not of the front end. The start-up also marks the special buffers
modified (`docs/developer/CLI.md`, section 9), so that Q in an init file or a
procedure is refused, and such an init file fails, until they are written or QQ is used.

About patterns and lines, two disagreements are written into `ParserFollowsTheGrammar`.
`PatternTrees` is SPEC-007 alone: its grammar and its errors. `/|a/` and `(|a)` have no
tree there, since operands missing around `|` are said to be refused
(`docs/specs/SPEC-007-PATTERNS.md:59`), but the parser looks for an operand behind `|` only,
and accepts them (`TreesWithoutFirstOperand`). And any sign is said to delimit a pattern
(`include/fred/parser/PatternParser.hpp:89`), but the parser takes a closing `|`, `*` or `+`
for an operator, so that of the patterns between those it accepts only the empty `**` and
`++` (`OperatorDelimits`). The property says that the parser does exactly this, and that it
agrees with the documents on every other source; without either exception TLC finds it
violated. No property is about the others: a
protected `\` before a delimiter counts when `CommandParser` looks for the end of a
pattern, and is a plain character for `PatternParser`; protection does not keep `*`,
`$`, `.`, `!` and `"` from being an alias, an address or a command
(`src/parser/CommandParser.cpp:30`), nor `&` and `\` from acting in a replacement; an
empty match right behind another match is replaced, except at the end of the line;
blanks at the beginning of a quoted file name are dropped; and two newlines in a row
on a line are refused. The models do what the code does, and where a property touches one of
these its definition says the same.

## 4. Proofs

`CommandExecutorProofs` proves, for every `Text`, `Names`, `Files`, addresses,
blocks, patterns, substitutions, initial files, kinds of write failure and
bounds:

| Theorem | States |
|---|---|
| `TypeCorrect` | `Spec => []TypeOK` |
| `CursorsStayInBuffers` | `Spec => []CursorsInBuffers` |
| `NoUnmarkedEdit` | `Spec => []CleanBuffersAreSaved` |
| `CurrentNeverDangles` | `Spec => []CurrentBufferIsOpen` |
| `UsageListStaysSound` | `Spec => []UsageListIsSound` |
| `TransientsDisappear` | `Spec => []TransientsAreCurrent` |
| `GlobalExaminesTheRange` | `Spec => []GlobalExaminesEachLineOnce` |
| `GlobalKeepsWhatIsUnselected` | `Spec => []GlobalKeepsTheUnselected` |
| `MoveKeepsEveryLine` | `Spec => MoveDividesTheSource` |

None of these is inductive alone. That D finds its lines needs the cursor of
the current buffer in range and the current buffer open; that a dropped buffer
is not current needs the usage list and the map to agree; and the deletion
inside G needs its loop to stand at line 1 or later. The inductive invariant is
therefore all of them together:

    IInv == TypeOK /\ ManagerCore(mgr) /\ GlobalPosition

`ManagerCore` is `ManagerOK` without its clause on disposable buffers. That clause
(`TransientsAreCurrent`) does not hold in the middle of a command, and a front end may
leave an empty buffer behind; so it is proved apart, as what a command preserves when
`IInv` holds (`NextTidy`), and everything else holds without it. M does not need it
to come back to its source: where it can come back, there are lines.

The argument goes layer by layer. `BufferManagerProofs`: each operation of a buffer,
under the check the code makes, takes a `BufferOK` buffer to one; each operation of
the manager preserves `ManagerCore`, and the compositions the commands use leave no
disposable buffer behind. `CommandExecutorProofs`: evaluating an address yields lines
of the buffer; each command, on each of its outcomes, preserves `IInv`.

The loop of G has an invariant of its own, `GlobalInv`. It ties three things: the
texts the loop has seen and the lines between its line and its last line are, one
after the other, the range as it was when G began; the lines between its first line
and its line are what the nested command leaves of the texts seen; and the counter
is how many of those were selected. Each step moves one text from the second part to
the first (`LoopPasses`, `LoopDeletes`), and D moves the lines behind it up by one,
which is why it must not move its line. What is left of the texts seen is a
recursive function, so both theorems need induction over the lines.

`MoveKeepsEveryLine` speaks of the range and the destination that an M was given
(`MoveLines`), whether the destination is open, new, or the source itself. The
destination holds the lines of the range and nothing else; these lines, put back where they
stood in what the source keeps, make the source what it was (`PutBack`); the source is
current again; the destination is open, and no other buffer is opened, closed or changed.
Cutting the source at the ends of the range (`TakenAndPutBack`) gives the second part,
once the selections, creations and disposals that M goes through are shown to change
nothing else (`MovedToEffect`).

`CommandExecutorRefinementProofs` proves, for the same constants,
`ImplementsWorkspace` (`Spec => KeepsThePromise`): the initial state maps to one of
`Workspace`, and every command to one of its steps or to none. Most commands either
change no buffer or edit the current one, and no edit changes `saved`
(`EditsKeepCopyAndMark`), so they are `Work`; for M and B it is the effect on all the
texts that is followed through the selections, the creation and the disposal of
buffers (`SameElsewhere`); a plain R and a full W are `Exchange`; and Q is `Leave`
because `IInv` says that a buffer that is not marked modified is the same as its
copy. One thing `IInv` does not say: a ZG puts what it captured into a buffer when it ends,
and its nested command may have been Q. The invariant `QuietCaptures` says that
nothing is captured then, since only a G under way prints before its command ends,
and Q is never nested in a G (`NothingAfterTheEnd`).

The same module proves two theorems about marks and files. `OnlyABlankLineIsLost`: if
every failure to write shows before the file is closed (`"close" \notin WriteFaults`; the
run `close_fault` shows what happens otherwise), a command that takes the mark from a
buffer leaves it equal to its file, unless its last line is blank and no newline ends
it, which is the one case that the run `roundtrip` finds. `CleanMeansWritten` follows: if
no line is blank, `Spec => CleanIsOnDisk`. Only R without a position and W of the whole
buffer take a mark away; that nothing else does (`MarksStay`) is followed through every
command, and what R and W leave is compared with the file.

`AndroidSessionProofs` proves of `SessionSpec`, for every set of lines the user
may submit, `SessionTypeCorrect`, `QueueIsOrdered` (`CommandsKeepTheirOrder`),
`NoTextAfterExit` (`EndedSessionWantsNoText`), and `SessionKeepsTheRuntimeSafe`:
the safety invariants above hold under the session too, where blocks of text
are whatever the user typed line by line and Reset starts over. Its
invariant adds to `IInv` the order of the queue and `WaitingIsIdle`: a command
waits for its text only between two calls of a session that goes on. That is
why an exit, which only happens inside a call, can leave none waiting.

`FrontEndProofs` proves of `RunnerSpec`, for every set of procedures, every
meaning of their lines and every limit:

| Theorem | States |
|---|---|
| `RunnerTypeCorrect` | `RunnerSpec => []RunnerTypeOK` |
| `NestingIsBounded` | `RunnerSpec => []DepthIsLimited` |
| `SnapshotsAreRun` | `RunnerSpec => []ProceduresRunTheirSnapshot` |
| `ReturnsAreComplete` | `RunnerSpec => ReturnsPassedEverything` |
| `ExitIsFinal` | `RunnerSpec => NothingRunsAfterExit` |
| `RunnerRuntimeSafe` | the safety invariants of the runtime under procedures |

Its invariant, `RunnerInv`, adds to `IInv` that every frame is a `SoundFrame` (its
index is inside its lines, and what it passed is the part of its lines from
the last jump to the index), and that a frame that waits for a call has begun
a line (`WaitingHaveBegun`), without which the report that a failed expansion
makes in the caller's name would have no first line.

The same module proves of `FrontEndSpec`, for every set of files, arguments and typed
lines, and every outcome of the erasure of the current buffer:

| Theorem | States |
|---|---|
| `FrontEndTypeCorrect` | `FrontEndSpec => []FrontEndTypeOK` |
| `FrontEndRuntimeSafe` | cursors, saved text, the current buffer, the usage list, depth and snapshots in every state of the process |
| `FrontEndCurrentNeverDangles` | `FrontEndSpec => []CurrentBufferIsOpen` |
| `ProceduresBeginClean` | `FrontEndSpec => []ProcedureStartsClean` |
| `LoadsAreClean` | `FrontEndSpec => LoadsDisturbNothing` |

Its invariant, `FrontInv`, adds to `RunnerInv` what each stage of `main()` relies on
(`StartUp`): while `main()` has the control nothing runs, and between the init
file and the procedure the buffer of the init file does not exist, so that a file is
always loaded into a buffer that is empty and nobody's. Before the init file runs the
user's buffer has a line, so that leaving it does not remove it; and when the
procedure is loaded buffer 0 holds the arguments and is not empty either.
`LoadScriptEffect` follows the selections, the read and the disposal of buffers in
`load_and_execute_file()` on its four outcomes.

`FlowEngineProofs` proves of `FlowSpec`, for every set of buffers, every text and
every limit:

| Theorem | States |
|---|---|
| `FlowTypeCorrect` | `FlowSpec => []FlowTypeOK` |
| `LevelsAlwaysIncrease` | `FlowSpec => []LevelsIncrease` |
| `DirectivesAreWhole` | `FlowSpec => []DirectivesStayInTheirSource` |
| `OnlyFailuresBlockTheEngine` | `FlowSpec => []OnlyFailuresBlock` |
| `ExpansionSubstitutes` | `FlowSpec => []ExpansionIsSubstitution` |
| `MeaningsAreDefined` | `Meanings` satisfies its recursion, at every depth and for every text |

The reason lies in the newline. Its invariant, `FlowInv`, says that the level of
a source is its height on the stack, and that above the first source each is
literal or ends its lines with newlines. A directive is read from a source that
is not literal; so if the character just read was no newline, the source has
another one, and the next character of the directive comes from the same
source. Only a name takes any character, `\` or `\C` and then a newline, and may
find its source gone; what it finds then has another level. `DataInv` is about the
characters: while a directive reads a name there is one being read, and what is emitted
and named is text. The lines a computed name joins are a text by induction over
them (`JoinedIsText`).

That the engine computes substitution has an invariant of its own, `MeaningInv`. While an
expansion runs, the meaning of what it began with (`Expansion`) is the output, followed
by what the source on top still means together with the directive being read, followed by
the meaning of the rest of each source below it (`Amounts`, `Stands`, `Below`). What
is left of a source is the text behind the characters that were read (`Rest`): reading
takes its first character off (`ReadOff`), and leaving a line takes nothing
(`LineEnds`). A source at height k is expanded by `Meanings` at the depth that is left above it,
`Depth(k)`, and the i-th name in progress by `NamesNested` at the depth left inside it, so
that the limits on both are limits of the definition too. A directive whose name has
outlived its source means nothing; by `FlowInv` it cannot come back to a source of its
level, so the expansion can only fail. Each action then either moves
characters from what is to be read to the output (`Onward`), or puts a source between
(`InclusionMeans`), or fails where there is no meaning (`Downward`). At the end nothing is
left to read, and the output is the meaning. `MeaningInv` quantifies over functions from
the natural numbers, so TLC cannot evaluate it; what it is for,
`ExpansionIsSubstitution`, TLC checks in the run `flow`.

The definition that the engine is compared with is recursive, on texts of any length: a
function that satisfies it exists because every part of a text leaves a shorter one
(`NamesRecursion`, `MeaningRecursion`). Without `MeaningsAreDefined` the comparison would
be with a `CHOOSE` from nothing.

`SubstitutionProofs` proves of the `Spec` of `Substitution`, for every alphabet and
order of the bytes, every set of patterns of bounded length, every set of lines and
replacements:

| Theorem | States |
|---|---|
| `MatcherFindsTheLanguage` | `Spec => []EndsAreTheLanguage` |
| `SubstitutionIsRight` | `Spec => []SubstitutionIsLeftmostLongest` |

The first rests on three facts. The parser answers with a tree for each pattern that it
accepts (`PatternRead`): the lists at a place look only at later places
(`ListNeedsLater`), and what is read from place p to place q is a tree no
higher than q - p. The sets of positions that `match_from()` goes through for a
sequence are the places that can be reached by cutting the text into one piece for
each element (`SequenceEnds`). And the loop of `match_repetition()` ends with
the least set that holds the first ends and that the operand leads nowhere out of
(`RepeatedIsLeast`): there are finitely many positions, each turn adds one or is the
last, and an end met before adds nothing, which is why an operand that takes no byte
is harmless. That set is what the cuts of the definition reach (`RepeatedEnds`). Induction over
the height of the tree, `MatcherFollowsTheLanguage`, puts them together, for every tree
and text (`EndsAreWhatTreesStandFor`), not only those of a run.

The second needs an inductive invariant, `SubstitutionInv`, whose core is what holds
between two turns of the loop of `substitute_all()` (`Searched`). The matches replaced so far
end no later than `searchFrom`, are the longest at their places and do not overlap;
every place before `searchFrom` at which a match begins is covered by one of
them; what is copied reaches as far as the search, or to the end of the line; and the
result is the line that S should make, up to `searchFrom` (`LineOf`). A turn adds a
match at or behind `searchFrom` (`OneMoreSearched`): the line up to its start is
a copy (`LineCopies`), then comes its replacement (`LineReplaces`), and one byte more
if it was empty. What was made of the line before does not depend on the
new match (`LinesAgree`). At the end nothing is left to find (`AllSearched`).

`Recursion` is what makes induction over data possible here. The induction
theorems of the library take a predicate, which the provers cannot be given; the lemmas of
this module take a set of numbers in its place (`SetInduction`, `BoundedInduction`, from
the well-foundedness of < on the naturals). A recursive function of TLA+ is a `CHOOSE`
about which nothing is known until some function is known to satisfy its equation;
`RecursiveFunctionExists` gives one for every recursion over a bounded interval, and
`RecursionExists` for every recursion that looks only at smaller things (`Descends`).
`SizeInduction` is induction over the size of things.

`CommandExecutorProofs` ends with the lemmas both callers use: an action of the
executor keeps `IInv`, whether it was typed, queued or read from a procedure.

Assumptions: those on the constants (`NoFileAssumption`, `NamesAssumption`,
`SizeModulusAssumption`, `TextFileAssumption`, `ImageAssumption`,
`CommandExecutorAssumption`, `NoGlobalAssumption`,
`AndroidSessionAssumption`, `ProcedureRunnerAssumption`, `FrontEndAssumption`,
`FlowEngineAssumption`, `PatternMatcherAssumption`, `SubstitutionAssumption`),
which say only that the sets have the types they are used at and that what stands
for no value is none of the values; TLC evaluates
them in every run. `ProcedureRunnerAssumption` also says that the buffers a
session of procedures starts with satisfy `ManagerOK`, which is what the
theorems about the executor prove of every state a user can reach.
`PatternMatcherAssumption` also says that no two bytes are the same in the order, and
`SubstitutionAssumption` that no pattern is longer than `LongestPattern`. The counter
and the registers of N are integers, with no bound: their values never take
part in arithmetic.

`RunnerTypeOK` and `SessionTypeOK` are proved and not listed in a run of their own:
`FrontEndTypeOK` has the first as a conjunct, and `TypeOK`, which the second extends, is
checked by `lines`.

Model-checked only:
`EveryCommandEnds`, `LinesAreAnswered`, `ProceduresEnd`, `ExpansionsEnd`,
`SubstitutionEnds`, `StartsSettle` and `ExitEndsTheProcess`, which are liveness under
fairness and out of the prover's reach; and five properties of parsers.
`ParserFollowsTheGrammar`: that the parser yields trees is proved, that it yields the only
tree of the grammar is not, since `PatternGrammar` tries every cut of a source with
recursive operators. `CommandInputAgrees`: the recursion of command lines carries a
position, a depth and an end with it. `ChainIsReadBack`, `NothingIsLost` and
`GlobalEndsTheLine`: the parser of commands and what it is compared with recur over
tokens, spellings and nested commands (`CommandParserAssumption` is evaluated by TLC
alone). The prover loses its arithmetic in a module with a
recursive operator; where something is proved, recursive functions and the lemmas of
`Recursion` take its place, as in `Joined`, `Unselected`, `FlowMeaning`, `Pattern` and
`PatternMatcher`.

## 5. Plan

1. Buffers, manager, addresses, files and the executor, with the theorems above
   (done).
2. The Android session: the pending text command, the queue of commands behind
   it, what an error clears, Reset; composed with the executor (done, but for
   the lines that call a procedure).
3. The procedure runner: calls and the depth limit, jumps and tests, numeric
   registers, text blocks, errors, procedures read from a file (done); procedures
   that the Android session calls (left).
4. The front end: the order of the start-up buffers and their deletion
   (`BufferManager::erase`), text input, the exit status, with their theorems (done).
5. The flow engine: the stack of sources, its limit, exceptions (done).
6. Pure algorithms against reference definitions: the pattern parser, the matcher
   and `substitute_all` (done); the lexer, the parser and the reading of a line
   (done); the file codec at the level of bytes (left).
7. An abstract specification of an editor that never discards unsaved text, and
   the executor shown to implement it by TLC and by proof, and the properties of G
   and of M and that a clean buffer is on disk (done).
8. The composition of the reader with the executor: what a line does when its third
   command fails is split today between `CommandReader` and `FrontEnd`.

Not modelled, and not planned: the pages of help and how they are cut into screens,
the modes of the terminal, and the version, which are input and output with no
state that another part reads; `insert_before()`, which nothing calls; and the texts
of diagnostics.
