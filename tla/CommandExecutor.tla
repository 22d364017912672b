--------------------------- MODULE CommandExecutor ---------------------------
(***************************************************************************)
(* The FREDPP runtime: the commands a parsed line may hold, executed one   *)
(* after another against the buffers, the files and the registers.         *)
(*                                                                         *)
(* A command is one step, with two exceptions whose inner states matter.   *)
(* G walks over its range line by line (`global` is the loop's state), and *)
(* ZG runs one nested command while the output goes to a capture (`sinks`  *)
(* is the stack of captures; the terminal is the empty stack).  A step     *)
(* that throws is the same action's other disjunct, with outcome "error".  *)
(***************************************************************************)
EXTENDS BufferManager, AddressEvaluator, TextFile

CONSTANTS Commands,       \* the commands the user types
          Addresses,      \* the addresses the user types
          Blocks,         \* the text blocks the user types after A, I and C
          Patterns,       \* the sets of lines the patterns of G match
          Substitutions,  \* S: what becomes of each line the pattern matches
          InitialDisk,    \* the files before the session
          WriteFaults,    \* how a write may fail: "create", "stream", "close"
          Fact,           \* the line that stands for each line of a report
          MaxLines,       \* bound: lines in a buffer
          MaxNesting,     \* bound: captures in progress
          NoGlobal        \* no G command is running

ASSUME CommandExecutorAssumption ==
    /\ Blocks \subseteq Seq(Text)
    /\ Patterns \subseteq SUBSET Text
    /\ Substitutions \subseteq UNION { [matched -> Text] : matched \in SUBSET Text }
    /\ InitialDisk \in [Files -> {Absent, Unreadable} \cup Image]
    /\ WriteFaults \subseteq {"create", "stream", "close"}
    /\ Fact \in Text
    /\ MaxLines \in Nat
    /\ MaxNesting \in Nat

VARIABLES
    mgr,        \* the buffers (BufferManager)
    disk,       \* the files
    counter,    \* the numeric counter `#`
    condition,  \* the condition register
    options,    \* the O options
    exit,       \* "no", "quit" (Q) or "immediate" (QQ)
    sinks,      \* the captures of the ZG commands in progress
    global,     \* the loop of the G command in progress
    outcome     \* how the last complete command ended

registers == <<counter, condition, options, exit>>
vars == <<mgr, disk, registers, sinks, global, outcome>>

Cur == CurrentBuffer(mgr)

-----------------------------------------------------------------------------
(***************************************************************************)
(* The frame of every command.                                             *)
(***************************************************************************)

Nested == sinks # <<>>

\* The nested command of a ZG has no address of its own.
TypedAddresses == IF Nested THEN {NoAddress} ELSE Addresses

\* A command may start: nothing is running and, inside a ZG, the one nested
\* command has not been executed yet.
Ready(command) ==
    /\ command \in Commands
    /\ exit = "no"
    /\ global = NoGlobal
    /\ Nested => sinks[Len(sinks)].state = "pending"

\* The output sink of the running command receives `printed`.
Filled(capture, printed) == [capture EXCEPT !.text = @ \o printed]

Emitted(stack, printed) ==
    IF stack = <<>> THEN stack
    ELSE [stack EXCEPT ![Len(stack)] = Filled(@, printed)]

\* The running command ends: its caller (a ZG, or the front end) is told.
Answered(capture, result) == [capture EXCEPT !.state = result]

CompleteIn(stack, printed, result) ==
    IF stack = <<>>
      THEN sinks' = <<>> /\ outcome' = result
      ELSE /\ sinks' = [stack EXCEPT ![Len(stack)] =
                          Answered(Filled(@, printed), result)]
           /\ UNCHANGED outcome

Complete(printed) == CompleteIn(sinks, printed, "ok")

Fail == CompleteIn(sinks, <<>>, "error")

-----------------------------------------------------------------------------
(***************************************************************************)
(* P, D, Z and T: the commands on the lines of the current buffer.         *)
(***************************************************************************)

PrintLines ==
    /\ Ready("P")
    /\ \E a \in TypedAddresses :
         \/ \E r \in Evaluate(a, Cur) :
              /\ mgr' = PutCurrent(mgr, SetCurrentLine(Cur, r.last))
              /\ Complete(SubSeq(Cur.lines, r.first, r.last))
         \/ Evaluate(a, Cur) = {} /\ Fail /\ UNCHANGED mgr
    /\ UNCHANGED <<disk, registers, global>>

Delete ==
    /\ Ready("D")
    /\ \E a \in TypedAddresses :
         \/ \E r \in Evaluate(a, Cur) :
              /\ mgr' = PutCurrent(mgr, Erase(Cur, r.first, r.last))
              /\ Complete(<<>>)
         \/ Evaluate(a, Cur) = {} /\ Fail /\ UNCHANGED mgr
    /\ UNCHANGED <<disk, registers, global>>

\* The lines a Z address designates: a range of several lines is refused.
SingleLines(a, b) == { r.first : r \in { s \in Evaluate(a, b) : s.first = s.last } }

Zap ==
    /\ Ready("Z")
    /\ \E a \in TypedAddresses :
         \/ \E n \in SingleLines(a, Cur) :
              /\ mgr' = PutCurrent(mgr, SetCurrentLine(Cur, n))
              /\ Complete(<<>>)
         \/ SingleLines(a, Cur) = {} /\ Fail /\ UNCHANGED mgr
    /\ UNCHANGED <<disk, registers, global>>

\* A position after which lines go: 0 when the address is the number 0.
InsertionPositions(a, b) ==
    CASE a.kind = "range"                     -> {}
      [] a.kind = "absolute" /\ a.line = 0    -> {0}
      [] OTHER -> { r.first : r \in Evaluate(a, b) }

\* T copies the range after the destination, which may lie inside it.
Transfer ==
    /\ Ready("T")
    /\ \E a \in TypedAddresses, to \in Addresses \ {NoAddress} :
         LET positions == InsertionPositions(to, Cur)
         IN \/ \E r \in Evaluate(a, Cur), n \in positions :
                 LET copied == SubSeq(Cur.lines, r.first, r.last)
                 IN /\ LineCount(Cur) + Len(copied) <= MaxLines
                    /\ mgr' = PutCurrent(mgr, InsertAfter(Cur, n, copied))
                    /\ Complete(<<>>)
            \/ /\ Evaluate(a, Cur) = {} \/ positions = {}
               /\ Fail
               /\ UNCHANGED mgr
    /\ UNCHANGED <<disk, registers, global>>

-----------------------------------------------------------------------------
(***************************************************************************)
(* A, I and C: the commands that come with a block of text.  The executor  *)
(* has separate entry points for them; reached through a ZG they throw.    *)
(***************************************************************************)

TextInputInsideGather(command) ==
    Ready(command) /\ Nested /\ Fail /\ UNCHANGED <<mgr, disk, registers, global>>

\* No address means the end of the buffer.
AppendPositions(a, b) ==
    IF a = NoAddress THEN {LineCount(b)} ELSE InsertionPositions(a, b)

\* I inserts before a line, that is after the line above.  With no address
\* and no current line in a buffer that has lines, 0 - 1 wraps around, and
\* insert_after() refuses the position.
InsertPositions(a, b) ==
    IF a = NoAddress
      THEN IF IsEmpty(b) THEN {0}
           ELSE {(b.current_line - 1) % SizeModulus} \cap 0 .. LineCount(b)
      ELSE { IF n = 0 THEN 0 ELSE n - 1 : n \in InsertionPositions(a, b) }

InsertText(block, positions) ==
    \/ \E n \in positions :
         /\ LineCount(Cur) + Len(block) <= MaxLines
         /\ mgr' = PutCurrent(mgr, InsertAfter(Cur, n, block))
         /\ Complete(<<>>)
    \/ positions = {} /\ Fail /\ UNCHANGED mgr

\* The entry points: the address comes from the command, the block from the
\* caller, who collected it.
ExecuteAppend(block) ==
    /\ \E a \in Addresses : InsertText(block, AppendPositions(a, Cur))
    /\ UNCHANGED <<disk, registers, global>>

ExecuteInsert(block) ==
    /\ \E a \in Addresses : InsertText(block, InsertPositions(a, Cur))
    /\ UNCHANGED <<disk, registers, global>>

Changed(b, r, block) ==
    LET erased == Erase(b, r.first, r.last)
    IN IF block = <<>> THEN erased ELSE InsertAfter(erased, r.first - 1, block)

ExecuteChange(block) ==
    /\ \E a \in Addresses :
         \/ \E r \in Evaluate(a, Cur) :
              /\ LineCount(Cur) + Len(block) <= MaxLines
              /\ mgr' = PutCurrent(mgr, Changed(Cur, r, block))
              /\ Complete(<<>>)
         \/ Evaluate(a, Cur) = {} /\ Fail /\ UNCHANGED mgr
    /\ UNCHANGED <<disk, registers, global>>

AppendText ==
    \/ Ready("A") /\ ~Nested /\ \E block \in Blocks : ExecuteAppend(block)
    \/ TextInputInsideGather("A")

InsertBefore ==
    \/ Ready("I") /\ ~Nested /\ \E block \in Blocks : ExecuteInsert(block)
    \/ TextInputInsideGather("I")

Change ==
    \/ Ready("C") /\ ~Nested /\ \E block \in Blocks : ExecuteChange(block)
    \/ TextInputInsideGather("C")

-----------------------------------------------------------------------------
(***************************************************************************)
(* S.  A substitution is a function: its domain is the set of lines its    *)
(* pattern matches, its value what such a line becomes.                    *)
(***************************************************************************)

MatchedLines(s, r, b) == { i \in r.first .. r.last : b.lines[i] \in DOMAIN s }

\* Buffer.replace() on every matched line, then the cursor on the last one.
Substituted(b, s, matched, last_changed) ==
    LET lines == [i \in 1 .. Len(b.lines) |->
                    IF i \in matched THEN s[b.lines[i]] ELSE b.lines[i]]
    IN [b EXCEPT !.lines        = lines,
                 !.current_line = last_changed,
                 !.modified     = b.modified \/ lines # b.lines]

\* One S over a range r.  Without a match the condition becomes false and
\* the command throws, wherever it was called from.
SubstituteOver(r, s, print_after) ==
    LET matched == MatchedLines(s, r, Cur)
    IN \/ \E n \in matched :
            LET new == Substituted(Cur, s, matched, n)
            IN /\ \A i \in matched : i <= n
               /\ mgr' = PutCurrent(mgr, new)
               /\ condition' = TRUE
               /\ Complete(IF print_after THEN <<new.lines[n]>> ELSE <<>>)
       \/ /\ matched = {}
          /\ condition' = FALSE
          /\ Fail
          /\ UNCHANGED mgr

Substitute ==
    /\ Ready("S")
    /\ \E a \in TypedAddresses, s \in Substitutions, print_after \in BOOLEAN :
         \/ \E r \in Evaluate(a, Cur) : SubstituteOver(r, s, print_after)
         \/ Evaluate(a, Cur) = {} /\ Fail /\ UNCHANGED <<mgr, condition>>
    /\ UNCHANGED <<disk, counter, options, exit, global>>

-----------------------------------------------------------------------------
(***************************************************************************)
(* M and B: the commands that change buffer.                               *)
(***************************************************************************)

\* AppendLines after the erasure, if any, of what the buffer held.
Refilled(b, new) ==
    AppendLines(IF IsEmpty(b) THEN b ELSE Erase(b, 1, LineCount(b)), new)

\* Mutant: the source loses the lines behind the moved ones too.
MovedWithTheRest(m, name, r) ==
    LET source   == CurrentBuffer(m)
        arrived  == CreateOrSelect(m, name)
        refilled == PutCurrent(arrived, Refilled(CurrentBuffer(arrived),
                                    SubSeq(source.lines, r.first, r.last)))
        back     == Select(refilled, m.current)
    IN PutCurrent(back, Erase(CurrentBuffer(back), r.first, LineCount(source)))

\* M into another buffer: select the destination, refill it, come back to the
\* source and only then erase the moved lines.
MovedTo(m, name, r) ==
    LET source   == CurrentBuffer(m)
        arrived  == CreateOrSelect(m, name)
        refilled == PutCurrent(arrived, Refilled(CurrentBuffer(arrived),
                                    SubSeq(source.lines, r.first, r.last)))
        back     == Select(refilled, m.current)
    IN PutCurrent(back, Erase(CurrentBuffer(back), r.first, r.last))

\* A name beyond the length limit throws before anything is changed.
MoveLines(r, name) ==
    /\ name \notin TooLong
    /\ mgr' = IF name = mgr.current
                THEN PutCurrent(mgr, Refilled(Cur, SubSeq(Cur.lines, r.first, r.last)))
                ELSE MovedTo(mgr, name, r)
    /\ Complete(<<>>)

Move ==
    /\ Ready("M")
    /\ \E a \in TypedAddresses, name \in Names :
         \/ \E r \in Evaluate(a, Cur) : MoveLines(r, name)
         \/ /\ Evaluate(a, Cur) = {} \/ name \in TooLong
            /\ Fail
            /\ UNCHANGED mgr
    /\ UNCHANGED <<disk, registers, global>>

\* The short form of a one-letter name is refused under the option O+I(.
SelectBuffer ==
    /\ Ready("B")
    /\ \E name \in Names, short_form \in BOOLEAN :
         LET refused == \/ short_form /\ options.input_parentheses
                        \/ name \in TooLong
         IN \/ ~refused /\ mgr' = CreateOrSelect(mgr, name) /\ Complete(<<>>)
            \/ refused /\ Fail /\ UNCHANGED mgr
    /\ UNCHANGED <<disk, registers, global>>

-----------------------------------------------------------------------------
(***************************************************************************)
(* R, W and L: the commands on files.                                      *)
(***************************************************************************)

\* The file a command is about: the one it names, or the associated one.
\* Typing no name in a buffer without a file is refused.
NamedFiles(typed, b) == (IF typed = NoFile THEN {b.file} ELSE {typed}) \ {NoFile}

\* Where an addressed R inserts.  Only `$` designates a position (0) in an
\* empty buffer.
ReadPositions(a, b) ==
    IF IsEmpty(b) THEN { n \in {0} : a.kind = "last" } ELSE SingleLines(a, b)

\* The buffer after R: a plain R loads an empty buffer, an addressed one
\* inserts and leaves the association alone.
ReadInto(a, b, image, file) ==
    IF a = NoAddress
      THEN IF IsEmpty(b) THEN {Loaded(b, image, file)} ELSE {}
      ELSE { InsertAfter(b, n, image.lines) : n \in ReadPositions(a, b) }

Read ==
    /\ Ready("R")
    /\ \E a \in TypedAddresses, typed \in Files \cup {NoFile} :
         LET results == UNION { ReadInto(a, Cur, disk[f], f) :
                          f \in { g \in NamedFiles(typed, Cur) : Decodable(disk[g]) } }
             file    == IF typed = NoFile THEN Cur.file ELSE typed
         IN \/ \E b \in results :
                 /\ Len(b.lines) <= MaxLines
                 /\ mgr' = PutCurrent(mgr, b)
                 /\ counter' = Len(disk[file].lines)
                 /\ condition' = TRUE
                 /\ Complete(<<>>)
            \/ results = {} /\ Fail /\ UNCHANGED <<mgr, counter, condition>>
    /\ UNCHANGED <<disk, options, exit, global>>

\* The lines W is about; without an address, the whole buffer, even empty.
WrittenRanges(a, b) ==
    IF a = NoAddress THEN {[first |-> 1, last |-> LineCount(b)]}
                     ELSE Evaluate(a, b)

WriteEncoding(mode, b) ==
    CASE mode = "WA" -> "ascii"
      [] mode = "WU" -> "utf8"
      [] OTHER       -> IF b.encoding = "ascii" THEN "ascii" ELSE "utf8"

\* Mutant: a range that reaches the last line is taken for the whole buffer.
ReachesTheEnd(r, b) == r.last = LineCount(b)

FullBuffer(r, b) == r.first = 1 /\ r.last = LineCount(b)

\* W is refused before the file is touched.
WriteRefused(a, mode, typed, b) ==
    \/ mode = "WB"
    \/ NamedFiles(typed, b) = {}
    \/ \A r \in WrittenRanges(a, b) :
         ~Encodable(SubSeq(b.lines, r.first, r.last), WriteEncoding(mode, b))

\* What the file holds once every byte went through: a partial write ends
\* every line, a full one respects the final newline of the buffer.
WholeImage(r, b) ==
    Written(SubSeq(b.lines, r.first, r.last), ~FullBuffer(r, b) \/ b.final_newline)

\* The end of W: everything was written, as far as the stream can tell.  The
\* state of the stream is examined before it is closed, so what the close
\* could not write goes unnoticed.
WriteSucceeds(r, mode, f) ==
    /\ \/ disk' = [disk EXCEPT ![f] = WholeImage(r, Cur)]
       \/ /\ "close" \in WriteFaults
          /\ \E rest \in Truncations(SubSeq(Cur.lines, r.first, r.last)) :
               disk' = [disk EXCEPT ![f] = rest]
    /\ counter' = r.last - r.first + 1
    /\ condition' = TRUE
    /\ IF FullBuffer(r, Cur)
         THEN mgr' = PutCurrent(mgr,
                AssociateAndMarkClean(Cur, f, WriteEncoding(mode, Cur)))
         ELSE UNCHANGED mgr
    /\ Complete(<<>>)

\* The file cannot be created, or writing to it fails after the truncation.
WriteFails(r, f) ==
    /\ \/ "create" \in WriteFaults /\ UNCHANGED disk
       \/ /\ "stream" \in WriteFaults
          /\ \E rest \in Truncations(SubSeq(Cur.lines, r.first, r.last)) :
               disk' = [disk EXCEPT ![f] = rest]
    /\ Fail
    /\ UNCHANGED <<mgr, counter, condition>>

Write ==
    /\ Ready("W")
    /\ \E a \in TypedAddresses, mode \in {"W", "WA", "WU", "WB"},
          typed \in Files \cup {NoFile} :
         \/ /\ WriteRefused(a, mode, typed, Cur)
            /\ Fail
            /\ UNCHANGED <<mgr, disk, counter, condition>>
         \/ /\ ~WriteRefused(a, mode, typed, Cur)
            /\ \E r \in WrittenRanges(a, Cur), f \in NamedFiles(typed, Cur) :
                 WriteSucceeds(r, mode, f) \/ WriteFails(r, f)
    /\ UNCHANGED <<options, exit, global>>

\* L prints the bytes of a file, whatever they are; a file that cannot be
\* opened, or no file name at all, is an error.
List ==
    /\ Ready("L")
    /\ \/ \E f \in Files :
            \/ /\ IsImage(disk[f])
               /\ Nested => Len(disk[f].lines) <= MaxLines
               /\ Complete(disk[f].lines)
            \/ disk[f] = Unreadable /\ \E printed \in Blocks : Complete(printed)
       \/ Fail  \* no name, or a name that cannot be opened
    /\ UNCHANGED <<mgr, disk, registers, global>>

-----------------------------------------------------------------------------
(***************************************************************************)
(* G: the nested command is executed at every line of the range that the   *)
(* pattern selects.  The loop's own variables are line, last and count;    *)
(* first, range and seen are history: where the range began, the lines it  *)
(* held then, and those of them that have been examined.                   *)
(***************************************************************************)

SimpleNested(kind)                == [kind |-> kind]
NestedSubstitute(s, print_after)  ==
    [kind |-> "S", substitution |-> s, print_after |-> print_after]

\* What may follow the pattern; "other" stands for the kinds G refuses.
NestedCommands ==
    { SimpleNested(kind) : kind \in {"P", "D", "Z", "other"} }
      \cup { NestedSubstitute(s, p) : s \in Substitutions, p \in BOOLEAN }

GlobalLoop ==
    [ line : Nat, last : Nat, count : Nat, select : SUBSET Text,
      nested : NestedCommands,
      first : Nat, range : Seq(Text), seen : Seq(Text) ]

ASSUME NoGlobalAssumption == NoGlobal \notin GlobalLoop

\* The lines an inverted pattern selects are those it does not match.
Selections == Patterns \cup { Text \ p : p \in Patterns }

GlobalRanges(a, b) ==
    IF a = NoAddress
      THEN { r \in LineRange(b) : r.first = 1 /\ r.last = LineCount(b) }
      ELSE Evaluate(a, b)

BeginGlobal ==
    /\ Ready("G")
    /\ \E a \in TypedAddresses, select \in Selections, nested \in NestedCommands :
         \/ /\ nested.kind # "other"
            /\ \E r \in GlobalRanges(a, Cur) :
                 global' = [ line  |-> r.first, last |-> r.last, count |-> 0,
                             select |-> select, nested |-> nested,
                             first |-> r.first,
                             range |-> SubSeq(Cur.lines, r.first, r.last),
                             seen  |-> <<>> ]
            /\ UNCHANGED <<sinks, outcome>>
         \/ /\ nested.kind = "other" \/ GlobalRanges(a, Cur) = {}
            /\ Fail
            /\ UNCHANGED global
    /\ UNCHANGED <<mgr, disk, registers>>

\* The loop goes on; a deletion that made the buffer too short for `line`
\* leaves it, and so does an empty buffer.
Looping == global.line <= global.last /\ global.line <= LineCount(Cur)

Examined == Cur.lines[global.line]

\* The line stays where it is.
PassedInPlace == global

\* The loop's variables after the line was examined.
Passed ==
    [global EXCEPT !.line = @ + 1, !.seen = Append(@, Examined)]

\* Mutant: the selected lines are not counted.
PassedUncounted == Passed

PassedSelected == [Passed EXCEPT !.count = @ + 1]

AtLine(kind) ==
    /\ global # NoGlobal
    /\ Looping
    /\ Examined \in global.select
    /\ global.nested.kind = kind

GlobalSkip ==
    /\ global # NoGlobal
    /\ Looping
    /\ Examined \notin global.select
    /\ global' = Passed
    /\ UNCHANGED <<mgr, disk, registers, sinks, outcome>>

GlobalPrint ==
    /\ AtLine("P")
    /\ mgr' = PutCurrent(mgr, SetCurrentLine(Cur, global.line))
    /\ sinks' = Emitted(sinks, <<Examined>>)
    /\ global' = PassedSelected
    /\ UNCHANGED <<disk, registers, outcome>>

GlobalZap ==
    /\ AtLine("Z")
    /\ mgr' = PutCurrent(mgr, SetCurrentLine(Cur, global.line))
    /\ global' = PassedSelected
    /\ UNCHANGED <<disk, registers, sinks, outcome>>

\* Mutant: the line that moved into the gap is skipped.
GlobalDeleteSkips ==
    /\ AtLine("D")
    /\ mgr' = PutCurrent(mgr, Erase(Cur, global.line, global.line))
    /\ global' = [PassedSelected EXCEPT !.last = @ - 1]
    /\ UNCHANGED <<disk, registers, sinks, outcome>>

\* Mutant: the end of the range is moved twice.
GlobalDeleteShrinksTwice ==
    /\ AtLine("D")
    /\ mgr' = PutCurrent(mgr, Erase(Cur, global.line, global.line))
    /\ global' = [PassedSelected EXCEPT !.line = global.line,
                                        !.last = @ - 2]
    /\ UNCHANGED <<disk, registers, sinks, outcome>>

\* The next line moves into the gap, so `line` stays and the range shrinks.
GlobalDelete ==
    /\ AtLine("D")
    /\ mgr' = PutCurrent(mgr, Erase(Cur, global.line, global.line))
    /\ global' = [PassedSelected EXCEPT !.line = global.line,
                                        !.last = @ - 1]
    /\ UNCHANGED <<disk, registers, sinks, outcome>>

\* A selected line in which S changes nothing makes the whole G throw: the
\* lines changed so far stay changed, and the counter is not set.
GlobalSubstitute ==
    /\ AtLine("S")
    /\ LET n   == global.line
           s   == global.nested.substitution
           new == Substituted(Cur, s, {n}, n)
       IN IF Examined \in DOMAIN s
            THEN /\ mgr' = PutCurrent(mgr, new)
                 /\ condition' = TRUE
                 /\ sinks' = IF global.nested.print_after
                               THEN Emitted(sinks, <<new.lines[n]>>) ELSE sinks
                 /\ global' = PassedSelected
                 /\ UNCHANGED outcome
            ELSE /\ mgr' = PutCurrent(mgr, SetCurrentLine(Cur, n))
                 /\ condition' = FALSE
                 /\ Fail
                 /\ global' = NoGlobal
    /\ UNCHANGED <<disk, counter, options, exit>>

GlobalEnd ==
    /\ global # NoGlobal
    /\ ~Looping
    /\ counter' = global.count
    /\ global' = NoGlobal
    /\ Complete(<<>>)
    /\ UNCHANGED <<mgr, disk, condition, options, exit>>

GlobalStep ==
    \/ GlobalSkip \/ GlobalPrint \/ GlobalZap \/ GlobalDelete
    \/ GlobalSubstitute \/ GlobalEnd

-----------------------------------------------------------------------------
(***************************************************************************)
(* ZG: one nested command runs with its output captured; the lines it      *)
(* printed then go into a buffer, which need not be the current one.       *)
(***************************************************************************)

Capture ==
    [dest : Names, text : Seq(Text), state : {"pending", "ok", "error"}]

\* Bound: neither the current buffer nor the destination is over-long yet.
BeginGather ==
    /\ Ready("ZG")
    /\ Len(sinks) < MaxNesting
    /\ \E name \in Names :
         /\ \A n \in {name, mgr.current} \cap Open(mgr) :
              LineCount(mgr.buffers[n]) <= MaxLines
         /\ sinks' = Append(sinks,
                       [dest |-> name, text |-> <<>>, state |-> "pending"])
    /\ UNCHANGED <<mgr, disk, registers, global, outcome>>

\* The buffer that receives captured lines: after its current line.
Gathered(b, text) ==
    IF IsEmpty(b) THEN AppendLines(b, text)
                  ELSE InsertAfter(b, b.current_line, text)

\* Nothing captured creates no buffer.  The destination is created without
\* being selected, and without being listed among the recently used.
GatheredInto(m, name, text) ==
    LET m1 == GetOrCreate(m, name)
    IN Put(m1, name, Gathered(m1.buffers[name], text))

Captured == sinks[Len(sinks)]
Outer    == SubSeq(sinks, 1, Len(sinks) - 1)

\* The previous sink is back before the text is looked at.
GatherSucceeds ==
    /\ Captured.state = "ok"
    /\ \/ /\ Captured.text = <<>>
          /\ CompleteIn(Outer, <<>>, "ok")
          /\ UNCHANGED mgr
       \/ /\ Captured.text # <<>>
          /\ Captured.dest \notin TooLong
          /\ mgr' = GatheredInto(mgr, Captured.dest, Captured.text)
          /\ CompleteIn(Outer, <<>>, "ok")
       \/ /\ Captured.text # <<>>
          /\ Captured.dest \in TooLong
          /\ CompleteIn(Outer, <<>>, "error")
          /\ UNCHANGED mgr

\* Mutant: the exception of the nested command leaves the capture in place.
GatherStaysInPlace ==
    Captured.state = "error" /\ UNCHANGED <<mgr, sinks, outcome>>

\* The exception goes on, after the previous sink was restored; what the
\* nested command changed stays changed, what it printed is gone.
GatherFails ==
    Captured.state = "error" /\ CompleteIn(Outer, <<>>, "error") /\ UNCHANGED mgr

EndGather ==
    /\ global = NoGlobal
    /\ Nested
    /\ GatherSucceeds \/ GatherFails
    /\ UNCHANGED <<disk, registers, global>>

-----------------------------------------------------------------------------
(***************************************************************************)
(* The remaining commands.  A report is as many lines `Fact` as it has.    *)
(***************************************************************************)

\* FB looks every recently used name up; an unknown one would throw.
Facts ==
    /\ Ready("F")
    /\ \/ Complete(<<Fact, Fact>>)
       \/ CompleteIn(sinks, [i \in 1 .. Len(mgr.usage_order) |-> Fact],
                     IF ListedAreOpen(mgr) THEN "ok" ELSE "error")
    /\ UNCHANGED <<mgr, disk, registers, global>>

Option ==
    /\ Ready("O")
    /\ \E option \in {"input_parentheses", "monitor"}, enabled \in BOOLEAN :
         options' = [options EXCEPT ![option] = enabled]
    /\ Complete(<<>>)
    /\ UNCHANGED <<mgr, disk, counter, condition, exit, global>>

Quit ==
    /\ Ready("Q")
    /\ \/ ModifiedNames(mgr) = {} /\ exit' = "quit" /\ Complete(<<>>)
       \/ ModifiedNames(mgr) # {} /\ UNCHANGED exit /\ Fail
    /\ UNCHANGED <<mgr, disk, counter, condition, options, global>>

QuitImmediately ==
    /\ Ready("QQ")
    /\ exit' = "immediate"
    /\ Complete(<<>>)
    /\ UNCHANGED <<mgr, disk, counter, condition, options, global>>

\* J prints its expanded message, unless it is too long.
Message ==
    /\ Ready("J")
    /\ \/ \E t \in Text : Complete(<<t>>)
       \/ Fail
    /\ UNCHANGED <<mgr, disk, registers, global>>

\* ! runs a shell command: it prints what it likes, may remove a file, and
\* its status is the condition.  The shell may fail to start.
System ==
    /\ Ready("!")
    /\ \/ /\ \E printed \in Blocks : Complete(printed)
          /\ condition' \in BOOLEAN
          /\ disk' \in {disk} \cup { [disk EXCEPT ![f] = Absent] : f \in Files }
       \/ Fail /\ UNCHANGED <<condition, disk>>
    /\ UNCHANGED <<mgr, counter, options, exit, global>>

Comment ==
    /\ Ready("comment")
    /\ Complete(<<>>)
    /\ UNCHANGED <<mgr, disk, registers, global>>

-----------------------------------------------------------------------------
(***************************************************************************)
(* The specification.                                                      *)
(***************************************************************************)

Init ==
    /\ mgr = InitialManager
    /\ disk = InitialDisk
    /\ counter = 0
    /\ condition = FALSE
    /\ options = [input_parentheses |-> TRUE, monitor |-> FALSE]
    /\ exit = "no"
    /\ sinks = <<>>
    /\ global = NoGlobal
    /\ outcome = "none"

LineCommand   == PrintLines \/ Delete \/ Zap \/ Transfer \/ Substitute
TextCommand   == AppendText \/ InsertBefore \/ Change
BufferCommand == Move \/ SelectBuffer
FileCommand   == Read \/ Write \/ List
OtherCommand  == Facts \/ Option \/ Quit \/ QuitImmediately \/ Message
                   \/ System \/ Comment
GlobalCommand == BeginGlobal \/ GlobalStep
GatherCommand == BeginGather \/ EndGather

Next ==
    \/ LineCommand \/ TextCommand \/ BufferCommand \/ FileCommand
    \/ OtherCommand \/ GlobalCommand \/ GatherCommand

Spec == Init /\ [][Next]_vars

\* A command that has begun runs on: G is a loop, and ZG calls the executor
\* for its nested command, on the thread of the caller.
Busy     == global # NoGlobal \/ Nested
FairSpec == Spec /\ WF_vars(Busy /\ Next)

-----------------------------------------------------------------------------
(***************************************************************************)
(* What callers use: the front ends and the procedures hand one parsed     *)
(* command after another to the executor.                                  *)
(***************************************************************************)

TextCommands == {"A", "I", "C"}

ExecuteText(command, block) ==
    \/ command = "A" /\ ExecuteAppend(block)
    \/ command = "I" /\ ExecuteInsert(block)
    \/ command = "C" /\ ExecuteChange(block)

\* CommandExecutor::execute() on a command other than A, I and C.
Execute(command) ==
    \/ command = "P"       /\ PrintLines
    \/ command = "D"       /\ Delete
    \/ command = "Z"       /\ Zap
    \/ command = "T"       /\ Transfer
    \/ command = "S"       /\ Substitute
    \/ command = "M"       /\ Move
    \/ command = "B"       /\ SelectBuffer
    \/ command = "R"       /\ Read
    \/ command = "W"       /\ Write
    \/ command = "L"       /\ List
    \/ command = "F"       /\ Facts
    \/ command = "O"       /\ Option
    \/ command = "Q"       /\ Quit
    \/ command = "QQ"      /\ QuitImmediately
    \/ command = "J"       /\ Message
    \/ command = "!"       /\ System
    \/ command = "G"       /\ BeginGlobal
    \/ command = "ZG"      /\ BeginGather
    \/ command = "comment" /\ Comment

\* The step ends the command in progress with an exception.
Thrown == ~Busy' /\ outcome' = "error"

-----------------------------------------------------------------------------
(***************************************************************************)
(* Properties.                                                             *)
(***************************************************************************)

TypeOK ==
    /\ IsManager(mgr)
    /\ disk \in [Files -> {Absent, Unreadable} \cup Image]
    /\ counter \in Int
    /\ condition \in BOOLEAN
    /\ options \in [input_parentheses : BOOLEAN, monitor : BOOLEAN]
    /\ exit \in {"no", "quit", "immediate"}
    /\ sinks \in Seq(Capture)
    /\ global \in {NoGlobal} \cup GlobalLoop
    /\ outcome \in {"none", "ok", "error"}

\* In every buffer the current line is one of its lines, or 0: no sequence
\* of insertions, deletions, moves and captures leaves a cursor behind the
\* end, where the next P or D without an address would read past the vector.
CursorsInBuffers == \A n \in Open(mgr) : CursorInBuffer(mgr.buffers[n])

\* A buffer that is not marked modified holds what it last loaded or wrote:
\* no command, called directly, by G or by ZG, changes text without saying so.
CleanBuffersAreSaved == \A n \in Open(mgr) : CleanIsSaved(mgr.buffers[n])

\* The current buffer is never one that was dropped on leaving another.
CurrentBufferIsOpen == CurrentIsOpen(mgr)

\* The list of recently used buffers names live buffers, each of them once,
\* and so FB can print it.
UsageListIsSound == UniqueUsage(mgr) /\ ListedAreOpen(mgr)

\* FR-0006: a transient buffer lives only as long as it is current.
TransientsAreCurrent == TransientOnlyCurrent(mgr)

\* G examines every line of its range once, in order, although D makes the
\* lines below move up and S rewrites them: the lines examined, followed by
\* those ahead, are the range as it was when G began.
GlobalExaminesEachLineOnce ==
    global # NoGlobal =>
        /\ global.line <= global.last + 1
        /\ global.last <= LineCount(Cur)
        /\ global.seen \o SubSeq(Cur.lines, global.line, global.last)
             = global.range

\* The lines that are not selected, in their order.
Unselected(lines, select) ==
    LET upto[n \in 0 .. Len(lines)] ==
          IF n = 0 THEN <<>>
          ELSE IF lines[n] \in select THEN upto[n - 1]
          ELSE Append(upto[n - 1], lines[n])
    IN upto[Len(lines)]

\* What G has passed is what its nested command makes of it: D leaves the
\* unselected lines in their order, P and Z leave them all, and the counter
\* will be the number of the selected ones.
GlobalKeepsTheUnselected ==
    global # NoGlobal =>
        LET kept == Unselected(global.seen, global.select)
            done == SubSeq(Cur.lines, global.first, global.line - 1)
        IN /\ global.nested.kind = "D" => done = kept
           /\ global.nested.kind \in {"P", "Z"} => done = global.seen
           /\ global.count = Len(global.seen) - Len(kept)

\* A command that has begun comes to an end, ok or not: G terminates though
\* its range shrinks under it, and a ZG is answered, nested ones first.
EveryCommandEnds == Busy ~> ~Busy

\* A buffer becomes clean only by having, in its associated file, exactly
\* the lines it has in memory.
CleanIsOnDisk ==
    [][ \A n \in Open(mgr) \cap Open(mgr') :
          LET b == mgr'.buffers[n]
          IN mgr.buffers[n].modified /\ ~b.modified =>
               IsImage(disk'[b.file]) /\ disk'[b.file].lines = b.lines ]_vars

\* What W writes of a buffer, R reads back: a buffer that becomes clean
\* agrees with its file on the lines and on whether a newline ends them.
RoundTrip ==
    [][ \A n \in Open(mgr) \cap Open(mgr') :
          LET b == mgr'.buffers[n]
          IN mgr.buffers[n].modified /\ ~b.modified /\ ~IsEmpty(b) =>
               /\ disk'[b.file].lines = b.lines
               /\ disk'[b.file].final_newline = b.final_newline ]_vars

\* Lines with those that were taken out of them at a position.
PutBack(kept, taken, position) ==
    SubSeq(kept, 1, position - 1) \o taken \o SubSeq(kept, position, Len(kept))

\* M loses no line, whichever range it takes and whichever buffer it goes to,
\* an open or a new one: the destination holds the range and nothing else, its
\* cursor is on the last line, and, put back where they stood, these lines make
\* the source what it was (M to the source itself keeps the range alone); the
\* source is current again, the destination is open, and every other buffer
\* stays open or closed and as it was (execute_move).
MoveDividesTheSource ==
    [][ \A a \in TypedAddresses, name \in Names : \A r \in Evaluate(a, Cur) :
          Ready("M") /\ MoveLines(r, name) =>
            LET dest == mgr'.buffers[name]
            IN /\ mgr'.current = mgr.current
               /\ Open(mgr') = Open(mgr) \cup {name}
               /\ dest.lines = SubSeq(Cur.lines, r.first, r.last)
               /\ dest.current_line = Len(dest.lines)
               /\ name # mgr.current =>
                    PutBack(CurrentBuffer(mgr').lines, dest.lines, r.first) = Cur.lines
               /\ \A n \in Open(mgr) \ {name, mgr.current} :
                    mgr'.buffers[n] = mgr.buffers[n] ]_vars

=============================================================================
