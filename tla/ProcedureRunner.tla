--------------------------- MODULE ProcedureRunner ---------------------------
(***************************************************************************)
(* Procedures: buffers whose lines are executed.  A call copies the lines  *)
(* of the buffer and executes them one after another; the calls in         *)
(* progress are a stack of frames.  Between two calls the user types       *)
(* commands as usual, which may edit the procedures themselves.            *)
(*                                                                         *)
(* What a line means is a constant: the steps the parser makes of it.  A   *)
(* line \S(buffer) is the exception, because it means whatever the buffer  *)
(* holds when the line begins; blanks and punctuation that come from a     *)
(* buffer are no syntax to the lexer, so the same text may mean less then. *)
(* Nothing is echoed here (O+M), and files of procedures                   *)
(* (load_and_execute_file) are left to the start-up.                       *)
(***************************************************************************)
EXTENDS CommandExecutor

CONSTANTS Meaning,         \* the steps of every line that includes none
          QuotedMeaning,   \* the steps of every text that was included
          Included,        \* the buffer a line includes with \S, if any
          NoBuffer,        \* the line includes none
          RunTogether,     \* what several lines make when they are included
          Labels,          \* the labels procedures use
          Label,           \* the label a line defines, as it is written
          NoLabel,         \* the line defines none
          Terminators,     \* the lines that end a block of text
          Registers,       \* numeric registers
          MaximumDepth,    \* maximum_depth_
          Typed,           \* the commands the user types between the calls
          InitialBuffers   \* the buffers before the first call

\* The operand of N: a number, or a quantity of the current buffer or `#`.
Operand == [of : {"number", "$", ".", "#"}, number : Int]

Step ==
    [kind : {"command"}, command : Commands]
      \cup [kind : {"call"}, name : Names]
      \cup [kind : {"jump"}, label : Labels, when : SUBSET BOOLEAN]
      \cup [kind : {"operation"}, register : Registers,
            operator : {":", "=", "<", ">"}, operand : Operand]
      \cup [kind : {"malformed"}]

ASSUME ProcedureRunnerAssumption ==
    /\ Meaning \in [Text -> Seq(Step)]
    /\ QuotedMeaning \in [Text -> Seq(Step)]
    /\ Included \in [Text -> Names \cup {NoBuffer}]
    /\ {RunTogether, Blank} \subseteq Text
    /\ Label \in [Text -> Labels \cup {NoLabel}]
    /\ Terminators \subseteq Text
    /\ MaximumDepth \in Nat
    /\ Typed \subseteq Commands
    /\ ManagerOK(InitialBuffers)

VARIABLES
    frames,              \* the procedures in progress, the running one last
    numeric_registers,   \* the registers of N
    answer,              \* how the last call ended; "none" while it runs
    reported             \* what the user was shown of a failed procedure

runner == <<frames, numeric_registers, answer, reported>>
allvars == <<vars, runner>>

(***************************************************************************)
(* A frame.  `index` is the line in progress (0 before the first one) and  *)
(* `steps` what is left of it.  The others are history: the line the        *)
(* procedure last jumped to, and the lines it has passed since, executed   *)
(* or taken as text for A, I and C.                                        *)
(***************************************************************************)
Frame ==
    [ name : Names, lines : Seq(Text), index : Nat, steps : Seq(Step),
      from : Nat, passed : Seq(Text) ]

\* At most three lines, from the line where the procedure stopped on.
ReportOf(frame) ==
    LET last == IF frame.index + 2 <= Len(frame.lines)
                  THEN frame.index + 2 ELSE Len(frame.lines)
    IN SubSeq(frame.lines, frame.index, last)

NoReport == <<>>

RunnerInit ==
    /\ mgr = InitialBuffers
    /\ disk = InitialDisk
    /\ counter = 0
    /\ condition = FALSE
    /\ options = [input_parentheses |-> TRUE, monitor |-> FALSE]
    /\ exit = "no"
    /\ sinks = <<>>
    /\ global = NoGlobal
    /\ outcome = "none"
    /\ frames = <<>>
    /\ numeric_registers = [r \in Registers |-> 0]
    /\ answer = "none"
    /\ reported = NoReport

-----------------------------------------------------------------------------
(***************************************************************************)
(* The stack.                                                              *)
(***************************************************************************)

Running == frames # <<>>
Top     == frames[Len(frames)]
Callers == SubSeq(frames, 1, Len(frames) - 1)

\* The running frame after a change.
Continue(frame) ==
    /\ frames' = [frames EXCEPT ![Len(frames)] = frame]
    /\ UNCHANGED <<answer, reported>>

\* The running frame after the first of its steps.
AfterStep == [Top EXCEPT !.steps = Tail(@)]

\* An exception ends every procedure in progress.  The first frame that
\* catches it reports, the others pass it on.
Throw(report) ==
    /\ frames' = <<>>
    /\ answer' = "error"
    /\ reported' = report

\* The answer to a command of the procedure: the executor threw, or not.
Answer(frame) ==
    \/ Thrown /\ Throw(ReportOf(frame))
    \/ ~Thrown /\ Continue(frame)

\* Mutant: the limit is compared after the frame was counted.
CallableBeyond(name, depth) == depth <= MaximumDepth /\ name \in Open(mgr)

Callable(name, depth) == depth < MaximumDepth /\ name \in Open(mgr)

NewFrame(name) ==
    [ name |-> name, lines |-> mgr.buffers[name].lines, index |-> 0,
      steps |-> <<>>, from |-> 0, passed |-> <<>> ]

\* Mutant: the loops do not look at the exit request.
LoopsIgnoreExit == TRUE

LoopsGoOn == exit = "no"

\* The step the running procedure is about to make.
At(kind) ==
    /\ Running
    /\ ~Busy
    /\ LoopsGoOn
    /\ Top.steps # <<>>
    /\ Head(Top.steps).kind = kind

-----------------------------------------------------------------------------
(***************************************************************************)
(* The user.                                                               *)
(***************************************************************************)

\* execute_buffer().  A call that is refused reports nothing: no line was
\* reached.
CallProcedure(name) ==
    /\ ~Running
    /\ ~Busy
    /\ exit = "no"
    /\ reported' = NoReport
    /\ \/ Callable(name, 0) /\ frames' = <<NewFrame(name)>> /\ answer' = "none"
       \/ ~Callable(name, 0) /\ answer' = "refused" /\ UNCHANGED frames
    /\ UNCHANGED <<vars, numeric_registers>>

\* Between two calls, a command is typed or the last one typed goes on.
TypeCommand ==
    /\ ~Running
    /\ \/ \E command \in Typed \ TextCommands : Execute(command)
       \/ \E command \in Typed \cap TextCommands, block \in Blocks :
            ~Busy /\ exit = "no" /\ ExecuteText(command, block)
       \/ Busy /\ Next
    /\ UNCHANGED runner

-----------------------------------------------------------------------------
(***************************************************************************)
(* The line in progress.                                                   *)
(***************************************************************************)

\* What \S makes of a buffer: its lines, run together.
IncludedText(b) ==
    CASE IsEmpty(b)        -> Blank
      [] LineCount(b) = 1  -> b.lines[1]
      [] OTHER             -> RunTogether

\* The steps of a line; none at all when it includes an unknown buffer.
Expansions(t) ==
    IF Included[t] = NoBuffer THEN {Meaning[t]}
    ELSE { QuotedMeaning[IncludedText(mgr.buffers[n])] :
             n \in {Included[t]} \cap Open(mgr) }

\* Mutant: the lines are read from the buffer while it may change.
LiveLines == IF Top.name \in Open(mgr) THEN mgr.buffers[Top.name].lines ELSE <<>>

Lines == Top.lines

\* The line is expanded as a whole before any step of it.  The expansion is
\* outside the try block: the caller's frame is the first to catch.
StartLine ==
    /\ Running
    /\ ~Busy
    /\ LoopsGoOn
    /\ Top.steps = <<>>
    /\ Top.index < Len(Lines)
    /\ LET line == Lines[Top.index + 1]
       IN \/ \E steps \in Expansions(line) :
               Continue([Top EXCEPT !.index = @ + 1, !.steps = steps,
                                    !.passed = Append(@, line)])
          \/ /\ Expansions(line) = {}
             /\ Throw(IF Callers = <<>> THEN NoReport
                                        ELSE ReportOf(Callers[Len(Callers)]))
    /\ UNCHANGED <<vars, numeric_registers>>

\* The least member of a set of line numbers, if it has any.
First(S) == { i \in S : \A j \in S : i <= j }

\* A command of the executor; the exit request is looked at before each.
RunCommand ==
    /\ At("command")
    /\ Head(Top.steps).command \notin TextCommands
    /\ Execute(Head(Top.steps).command)
    /\ Answer(AfterStep)
    /\ UNCHANGED numeric_registers

\* G and ZG have steps of their own.
ContinueCommand ==
    /\ Running
    /\ Busy
    /\ Next
    /\ Answer(Top)
    /\ UNCHANGED numeric_registers

\* The lines that end the text of an A, I or C on the line in progress.
TextEnds == First({ i \in Top.index + 1 .. Len(Lines) : Lines[i] \in Terminators })

\* Mutant: the text is inserted, and then executed as well.
AfterTextStays(last) ==
    [AfterStep EXCEPT !.passed = @ \o SubSeq(Lines, Top.index + 1, last)]

\* The index is on the terminator before the command is executed.
AfterText(last) ==
    [AfterStep EXCEPT !.index = last,
                      !.passed = @ \o SubSeq(Lines, Top.index + 1, last)]

RunTextCommand ==
    /\ At("command")
    /\ Head(Top.steps).command \in TextCommands
    /\ \/ \E last \in TextEnds :
            /\ ExecuteText(Head(Top.steps).command,
                           SubSeq(Lines, Top.index + 1, last - 1))
            /\ Answer(AfterText(last))
       \/ TextEnds = {} /\ Throw(ReportOf(Top)) /\ UNCHANGED vars
    /\ UNCHANGED numeric_registers

-----------------------------------------------------------------------------
(***************************************************************************)
(* What only procedures have: calls, jumps and the operations of N.        *)
(***************************************************************************)

RunCall ==
    /\ At("call")
    /\ LET name == Head(Top.steps).name
       IN \/ /\ Callable(name, Len(frames))
             /\ frames' = Append([frames EXCEPT ![Len(frames)] = AfterStep],
                                 NewFrame(name))
             /\ UNCHANGED <<answer, reported>>
          \/ ~Callable(name, Len(frames)) /\ Throw(ReportOf(Top))
    /\ UNCHANGED <<vars, numeric_registers>>

Labelled(label, lines) == { i \in lines : Label[Lines[i]] = label }

\* Forward first, then from the top down to the line above the jump.
JumpTarget(label) ==
    LET ahead == Labelled(label, Top.index + 1 .. Len(Lines))
    IN IF ahead # {} THEN First(ahead)
                     ELSE First(Labelled(label, 1 .. Top.index - 1))

\* Mutant: the condition of the jump is not looked at.
JumpTakenAlways(jump) == TRUE

JumpTaken(jump) == condition \in jump.when

RunJump ==
    /\ At("jump")
    /\ LET jump == Head(Top.steps)
       IN \/ ~JumpTaken(jump) /\ Continue(AfterStep)
          \/ /\ JumpTaken(jump)
             /\ \/ \E target \in JumpTarget(jump.label) :
                      Continue([AfterStep EXCEPT !.index = target,
                                  !.from = target, !.passed = <<>>])
                \/ JumpTarget(jump.label) = {} /\ Throw(ReportOf(Top))
    /\ UNCHANGED <<vars, numeric_registers>>

ValueOf(operand) ==
    CASE operand.of = "$" -> LineCount(Cur)
      [] operand.of = "." -> Cur.current_line
      [] operand.of = "#" -> counter
      [] OTHER            -> operand.number

\* `:` sets the register, the others compare it.  Either way the counter
\* becomes the register's value.
RunOperation ==
    /\ At("operation")
    /\ LET step  == Head(Top.steps)
           r     == step.register
           value == ValueOf(step.operand)
       IN /\ numeric_registers' =
               IF step.operator = ":" THEN [numeric_registers EXCEPT ![r] = value]
                                      ELSE numeric_registers
          /\ condition' = CASE step.operator = "=" -> numeric_registers[r] = value
                            [] step.operator = "<" -> numeric_registers[r] < value
                            [] step.operator = ">" -> numeric_registers[r] > value
                            [] OTHER               -> condition
          /\ counter' = numeric_registers'[r]
    /\ Continue(AfterStep)
    /\ UNCHANGED <<mgr, disk, options, exit, sinks, global, outcome>>

RunMalformed ==
    /\ At("malformed")
    /\ Throw(ReportOf(Top))
    /\ UNCHANGED <<vars, numeric_registers>>

\* No line is left, or a command asked to exit.
Ends ==
    \/ ~LoopsGoOn
    \/ Top.steps = <<>> /\ Top.index >= Len(Lines)

EndProcedure ==
    /\ Running
    /\ ~Busy
    /\ Ends
    /\ frames' = Callers
    /\ answer' = IF Callers = <<>> THEN "ok" ELSE answer
    /\ UNCHANGED <<vars, numeric_registers, reported>>

-----------------------------------------------------------------------------
(***************************************************************************)
(* The specification.                                                      *)
(***************************************************************************)

Run ==
    \/ StartLine \/ RunCommand \/ ContinueCommand \/ RunTextCommand
    \/ RunCall \/ RunJump \/ RunOperation \/ RunMalformed \/ EndProcedure

RunnerNext == TypeCommand \/ Run \/ \E name \in Names : CallProcedure(name)

RunnerSpec == RunnerInit /\ [][RunnerNext]_allvars

\* A procedure runs on, on the thread of its caller.
FairRunner == RunnerSpec /\ WF_allvars(Run)

-----------------------------------------------------------------------------
(***************************************************************************)
(* Properties.                                                             *)
(***************************************************************************)

\* The state of the runner; the executor's own is TypeOK.
RunnerTypeOK ==
    /\ TypeOK
    /\ frames \in Seq(Frame)
    /\ numeric_registers \in [Registers -> Int]
    /\ answer \in {"none", "ok", "error", "refused"}
    /\ reported \in Seq(Text)

\* Procedures that call each other, or themselves, never nest deeper than
\* the limit: the recursion is stopped by an error before the C++ stack is.
DepthIsLimited == Len(frames) <= MaximumDepth

\* A procedure runs the lines it had when it was called, though it, or one
\* that it calls, may edit its buffer or even remove it.  Between two jumps
\* it passes every one of them once and in order: each line is executed or
\* taken as the text of an A, I or C, never both and never neither.
ProceduresRunTheirSnapshot ==
    \A k \in 1 .. Len(frames) :
        LET frame == frames[k]
        IN frame.passed = SubSeq(frame.lines, frame.from + 1, frame.index)

\* A procedure that returns, to its caller or to the user, without an error or
\* an exit has passed all the lines it had when it was called.
ReturnsPassedEverything ==
    [][ Running /\ frames' = Callers /\ answer' # "error" /\ exit = "no" =>
          Top.index = Len(Top.lines) ]_allvars

\* After Q or QQ, wherever it was called from, nothing is executed any more:
\* not the rest of the line, nor the lines below it, nor those of any caller.
NothingRunsAfterExit ==
    [][ exit # "no" /\ ~Busy =>
          UNCHANGED <<mgr, disk, counter, condition, numeric_registers>> ]_allvars

\* Every call ends, whatever the procedures call (recursion is limited), for
\* procedures whose backward jumps are conditional on what they use up.
ProceduresEnd == Running ~> ~Running

=============================================================================
