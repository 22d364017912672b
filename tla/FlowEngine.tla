----------------------------- MODULE FlowEngine -----------------------------
(***************************************************************************)
(* The expansion of text with flow directives: \B includes a buffer whose  *)
(* own directives are active, \S and \L include one literally, \C and \O   *)
(* protect a character.  The engine reads characters from a stack of       *)
(* sources, one for the text and one for every buffer being included, and  *)
(* each source has a level, by which the engine tells the characters of    *)
(* one source from those of another.                                       *)
(*                                                                         *)
(* One step reads one character, or leaves a line or a source that has no  *)
(* character left.                                                         *)
(* Lower case letters mean the same as B, S, L, C and O, and are left out; *)
(* so is what an error says.  A newline is the character "nl".             *)
(***************************************************************************)
EXTENDS Naturals, Sequences, FiniteSets

CONSTANTS Character,      \* the characters texts are made of
          BufferSets,     \* the buffers an engine may be built over
          Inputs,         \* the texts given to expand_input
          Requested,      \* the names given to expand_buffer
          MaximumDepth,   \* maximum_depth_ of the stack
          MaximumName     \* limits::max_buffer_name_length

Syntax == {"\\", "(", ")", "nl", "B", "S", "L", "C", "O"}
Text   == Seq(Character)

ASSUME FlowEngineAssumption ==
    /\ Syntax \subseteq Character
    /\ \A bufs \in BufferSets :
         /\ DOMAIN bufs \subseteq Text
         /\ \A n \in DOMAIN bufs : bufs[n] \in Seq(Text)
    /\ Inputs \subseteq Text
    /\ Requested \subseteq Text
    /\ MaximumDepth \in Nat \ {0}
    /\ MaximumName \in Nat

VARIABLES
    buffers,   \* the lines of every open buffer; nobody edits them meanwhile
    stack,     \* input_: the sources, the one being read last
    pending,   \* the directive being read, and the names inside it
    output,    \* the text expanded so far
    request,   \* history: the source the expansion began with
    outcome    \* how the last expansion ended; "running" until then

vars == <<buffers, stack, pending, output, request, outcome>>

-----------------------------------------------------------------------------
(***************************************************************************)
(* Sources.                                                                *)
(***************************************************************************)

\* line is the one being read, column how much of it was.
Source ==
    [lines : Seq(Text), line : Nat \ {0}, column : Nat,
     newlines : BOOLEAN, literal : BOOLEAN, level : Nat]

NewSource(lines, newlines, literal, level) ==
    [lines |-> lines, line |-> 1, column |-> 0,
     newlines |-> newlines, literal |-> literal, level |-> level]

\* The characters line l contributes: its own, and perhaps a newline.
Width(s, l) == Len(s.lines[l]) + (IF s.newlines THEN 1 ELSE 0)

\* The line has a character left; no line is left.
HasMore(s)   == s.line <= Len(s.lines) /\ s.column < Width(s, s.line)
Exhausted(s) == s.line > Len(s.lines)

Advance(s)  == [s EXCEPT !.column = @ + 1]
NextLine(s) ==
    [NewSource(s.lines, s.newlines, s.literal, s.level) EXCEPT !.line = s.line + 1]

\* The character just read.
CharacterAt(s) ==
    IF s.column <= Len(s.lines[s.line]) THEN s.lines[s.line][s.column]
                                        ELSE "nl"

\* What a name includes of a buffer: its lines, one after another.
Joined(lines) ==
    LET upto[n \in 0 .. Len(lines)] ==
          IF n = 0 THEN <<>> ELSE upto[n - 1] \o lines[n]
    IN upto[Len(lines)]

-----------------------------------------------------------------------------
(***************************************************************************)
(* The stack, and the directive being read.  names are the buffer names    *)
(* in progress, each inside the one before it, with their directive.       *)
(***************************************************************************)

Modes == {"text", "escape", "protect", "open", "name",
          "name_escape", "name_protect"}

Name    == [directive : {"B", "S", "L"}, text : Text]
Pending == [mode : Modes, level : Nat, names : Seq(Name)]

NoDirective == [mode |-> "text", level |-> 0, names |-> <<>>]

Top       == stack[Len(stack)]
\* The same directive, further on.
NowIn(mode, names) ==
    [mode |-> mode, level |-> pending.level, names |-> names]

Innermost == pending.names[Len(pending.names)]

\* The next character is there to be read.
Available == outcome = "running" /\ stack # <<>> /\ HasMore(Top)
Reading(mode) == Available /\ pending.mode = mode

Consumed == [stack EXCEPT ![Len(stack)] = Advance(@)]
Char     == CharacterAt(Advance(Top))
OwnLevel == Top.level = pending.level

\* A source that goes in place of its includer, instead of on top of it.
PushedInPlace(st, s) ==
    [st EXCEPT ![Len(st)] = [s EXCEPT !.level = @ - 1]]

Pushed(st, s) == Append(st, s)

Emit(text) == output' = output \o text

Finish(how) == outcome' = how /\ pending' = NoDirective

\* An exception takes the output with it, and leaves the stack.
Fail == Finish("failed") /\ output' = <<>>

-----------------------------------------------------------------------------
(***************************************************************************)
(* Beginning an expansion.                                                 *)
(***************************************************************************)

\* No expansion was begun, or its buffer was not found.
NoRequest == NewSource(<<>>, FALSE, FALSE, 1)

FlowInit ==
    /\ buffers \in BufferSets
    /\ stack = <<>>
    /\ pending = NoDirective
    /\ output = <<>>
    /\ request = NoRequest
    /\ outcome = "none"

Idle == outcome # "running"

Begin(s) ==
    /\ stack' = <<s>>
    /\ request' = s
    /\ pending' = NoDirective
    /\ output' = <<>>
    /\ outcome' = "running"
    /\ UNCHANGED buffers

ExpandInput ==
    /\ Idle /\ stack = <<>>
    /\ \E text \in Inputs : Begin(NewSource(<<text>>, FALSE, FALSE, 0))

ExpandBuffer ==
    /\ Idle /\ stack = <<>>
    /\ \E name \in Requested :
         \/ /\ name \in DOMAIN buffers
            /\ Begin(NewSource(buffers[name], TRUE, FALSE, 0))
         \/ /\ name \notin DOMAIN buffers
            /\ Fail
            /\ request' = NoRequest
            /\ UNCHANGED <<buffers, stack>>

\* The engine takes sources on its stack for an expansion that still runs.
Refuse ==
    /\ Idle /\ stack # <<>>
    /\ outcome' = "refused"
    /\ UNCHANGED <<buffers, stack, pending, output, request>>

-----------------------------------------------------------------------------
(***************************************************************************)
(* Text outside of directives, and the letter of a directive.              *)
(***************************************************************************)

\* The loops inside InputStack::next() and BufferInputSource::next().
EndLine ==
    /\ outcome = "running" /\ stack # <<>>
    /\ ~HasMore(Top) /\ ~Exhausted(Top)
    /\ stack' = [stack EXCEPT ![Len(stack)] = NextLine(@)]
    /\ UNCHANGED <<buffers, pending, output, request, outcome>>

DropSource ==
    /\ outcome = "running" /\ stack # <<>> /\ Exhausted(Top)
    /\ stack' = SubSeq(stack, 1, Len(stack) - 1)
    /\ UNCHANGED <<buffers, pending, output, request, outcome>>

\* Stops one source too early.
OneSourceIsLeft == Len(stack) = 0 \/ (Len(stack) = 1 /\ Exhausted(Top))

\* The loop over the sources ends when none is left.
NoSourceIsLeft == stack = <<>>

\* There is nothing left to read.  A backslash at the end is kept.
EndOfInput ==
    /\ outcome = "running" /\ NoSourceIsLeft
    /\ \/ pending.mode = "text" /\ Finish("ok") /\ UNCHANGED output
       \/ pending.mode = "escape" /\ Finish("ok") /\ Emit(<<"\\">>)
       \/ pending.mode \notin {"text", "escape"} /\ Fail
    /\ UNCHANGED <<buffers, stack, request>>

ReadText ==
    /\ Reading("text")
    /\ stack' = Consumed
    /\ \/ /\ Char # "\\" \/ Top.literal
          /\ Emit(<<Char>>)
          /\ UNCHANGED pending
       \/ /\ Char = "\\" /\ ~Top.literal
          /\ pending' = [mode |-> "escape", level |-> Top.level, names |-> <<>>]
          /\ UNCHANGED output
    /\ UNCHANGED <<buffers, request, outcome>>

ReadLetter ==
    /\ Reading("escape")
    /\ stack' = Consumed
    /\ \/ /\ ~OwnLevel \/ Char \notin {"\\", "C", "O", "B", "S", "L"}
          /\ Emit(<<"\\", Char>>)
          /\ pending' = NoDirective
       \/ /\ OwnLevel /\ Char = "\\"
          /\ Emit(<<"\\">>)
          /\ pending' = NoDirective
       \/ /\ OwnLevel /\ Char \in {"C", "O"}
          /\ pending' = NowIn("protect", <<>>)
          /\ UNCHANGED output
       \/ /\ OwnLevel /\ Char \in {"B", "S", "L"}
          /\ pending' = NowIn("open", <<[directive |-> Char, text |-> <<>>]>>)
          /\ UNCHANGED output
    /\ UNCHANGED <<buffers, request, outcome>>

ReadProtected ==
    /\ Reading("protect")
    /\ stack' = Consumed
    /\ \/ /\ OwnLevel
          /\ Emit(<<Char>>)
          /\ pending' = NoDirective
          /\ UNCHANGED outcome
       \/ ~OwnLevel /\ Fail
    /\ UNCHANGED <<buffers, request>>

-----------------------------------------------------------------------------
(***************************************************************************)
(* The name of a buffer.                                                   *)
(***************************************************************************)

ReadParenthesis ==
    /\ Reading("open")
    /\ stack' = Consumed
    /\ \/ /\ OwnLevel /\ Char = "("
          /\ pending' = NowIn("name", pending.names)
          /\ UNCHANGED <<output, outcome>>
       \/ ~(OwnLevel /\ Char = "(") /\ Fail
    /\ UNCHANGED <<buffers, request>>

Extended(names, text) == [names EXCEPT ![Len(names)].text = @ \o text]

\* The name goes on with more text.
Continue(names, text) ==
    /\ pending' = NowIn("name", Extended(names, text))
    /\ UNCHANGED <<output, outcome>>

Nested == Len(pending.names) > 1
Outer  == SubSeq(pending.names, 1, Len(pending.names) - 1)

ValidName(name) == name # <<>> /\ Len(name) <= MaximumName

\* No newlines but for \L; newlines for \S too; text that stays active;
\* the level of the includer; one level below it.
InclusionWithoutNewlines(directive, lines, level) ==
    NewSource(lines, directive = "L", directive # "B", level)
InclusionWithNewlines(directive, lines, level) ==
    NewSource(lines, TRUE, directive # "B", level)
InclusionAllActive(directive, lines, level) ==
    NewSource(lines, directive # "S", FALSE, level)
InclusionOnTheSameLevel(directive, lines, level) ==
    NewSource(lines, directive # "S", directive # "B", level - 1)
InclusionOneLevelDown(directive, lines, level) ==
    NewSource(lines, directive # "S", directive # "B", level - 2)

\* What a directive pushes for its buffer: \B and \L with a newline after
\* each line, \S and \L as literal text.
Inclusion(directive, lines, level) ==
    NewSource(lines, directive # "S", directive # "B", level)

CloseName ==
    LET name == Innermost.text
        found == ValidName(name) /\ name \in DOMAIN buffers
    IN \/ /\ found /\ Nested
          /\ stack' = Consumed
          /\ Continue(Outer, Joined(buffers[name]))
       \/ /\ found /\ ~Nested /\ Len(stack) < MaximumDepth
          /\ stack' = Pushed(Consumed,
                             Inclusion(Innermost.directive, buffers[name],
                                       pending.level + 1))
          /\ pending' = NoDirective
          /\ UNCHANGED <<output, outcome>>
       \/ /\ ~found \/ (~Nested /\ Len(stack) >= MaximumDepth)
          /\ stack' = Consumed
          /\ Fail

ReadName ==
    /\ Reading("name")
    /\ \/ OwnLevel /\ Char = ")" /\ CloseName
       \/ /\ stack' = Consumed
          /\ \/ /\ OwnLevel /\ Char = "\\"
                /\ pending' = NowIn("name_escape", pending.names)
                /\ UNCHANGED <<output, outcome>>
             \/ /\ OwnLevel /\ Char \notin {")", "\\", "nl"}
                /\ Continue(pending.names, <<Char>>)
             \/ (~OwnLevel \/ Char = "nl") /\ Fail
    /\ UNCHANGED <<buffers, request>>

\* Inside a name \C protects a character and \S includes a buffer.
ReadNameLetter ==
    /\ Reading("name_escape")
    /\ stack' = Consumed
    /\ \/ /\ OwnLevel /\ Char = "C"
          /\ pending' = NowIn("name_protect", pending.names)
          /\ UNCHANGED <<output, outcome>>
       \/ /\ OwnLevel /\ Char = "S" /\ Len(pending.names) <= MaximumDepth
          /\ pending' = NowIn("open", Append(pending.names,
                                           [directive |-> "S", text |-> <<>>]))
          /\ UNCHANGED <<output, outcome>>
       \/ /\ OwnLevel /\ Char \notin {"C", "S"}
          /\ Continue(pending.names, <<"\\", Char>>)
       \/ /\ ~OwnLevel \/ (Char = "S" /\ Len(pending.names) > MaximumDepth)
          /\ Fail
    /\ UNCHANGED <<buffers, request>>

ReadNameProtected ==
    /\ Reading("name_protect")
    /\ stack' = Consumed
    /\ \/ OwnLevel /\ Continue(pending.names, <<Char>>)
       \/ ~OwnLevel /\ Fail
    /\ UNCHANGED <<buffers, request>>

-----------------------------------------------------------------------------
(***************************************************************************)
(* The specification.                                                      *)
(***************************************************************************)

Caller == ExpandInput \/ ExpandBuffer \/ Refuse

Expand ==
    \/ EndLine \/ DropSource \/ EndOfInput
    \/ ReadText \/ ReadLetter \/ ReadProtected
    \/ ReadParenthesis \/ ReadName \/ ReadNameLetter \/ ReadNameProtected

FlowNext == Caller \/ Expand

FlowSpec == FlowInit /\ [][FlowNext]_vars

\* An expansion is a loop on the thread of its caller, waiting for nothing.
FairFlow == FlowSpec /\ WF_vars(Expand)

-----------------------------------------------------------------------------
(***************************************************************************)
(* Properties.                                                             *)
(***************************************************************************)

FlowTypeOK ==
    /\ buffers \in BufferSets
    /\ stack \in Seq(Source)
    /\ pending \in Pending
    /\ output \in Text
    /\ request \in Source
    /\ outcome \in {"none", "running", "ok", "failed", "refused"}

\* The engine compares levels where it means sources, and the source of a
\* directive may be gone when it looks; so the levels have to increase from
\* includer to included, however buffers include each other.
LevelsIncrease ==
    \A i, j \in 1 .. Len(stack) : i < j => stack[i].level < stack[j].level

\* A buffer never ends between the characters of a directive: \ as its last
\* character does not take its letter from what follows in the includer.
\* Only a name that protects the newline at the end goes on there, and the
\* engine finds a character of another level and gives up.
DirectivesStayInTheirSource ==
    Available /\ pending.mode \notin {"text", "name"} => OwnLevel

\* Only an expansion that fails leaves sources behind, and so only after a
\* failure does the engine refuse to work ("already executing").
OnlyFailuresBlock ==
    Idle /\ stack # <<>> => outcome \in {"failed", "refused"}

\* Every expansion comes to an end, though a buffer may include itself: the
\* limit on the depth is enough, without a limit on the length.
ExpansionsEnd == outcome = "running" ~> outcome # "running"

=============================================================================
