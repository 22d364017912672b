---------------------------- MODULE FrontEndProofs ----------------------------
(***************************************************************************)
(* Procedures, and the command line front end that runs one.               *)
(*                                                                         *)
(* First, of the runner: what holds of the runtime holds while procedures  *)
(* run, they nest no deeper than the limit, and each runs the lines it had *)
(* when it was called.  The inductive invariant adds that a frame is at a  *)
(* line of its own, and has begun one when it waits for another frame or   *)
(* for the executor: that is why an error report starts inside the         *)
(* procedure.                                                              *)
(*                                                                         *)
(* Then, of the front end: whatever the init file does, the procedure of   *)
(* the command line begins in a buffer 0 that holds the arguments; the     *)
(* loading of a file disturbs no other buffer; and what holds of           *)
(* procedures and of the runtime holds of the process from its start to    *)
(* its end.  The inductive invariant follows main(): nothing runs while it *)
(* has the control, and each stage leaves to the next what that one relies *)
(* on.                                                                     *)
(***************************************************************************)
EXTENDS FrontEnd, CommandExecutorProofs

\* A frame of which the lines passed since the last jump are known.
SoundFrame ==
    { f \in Frame :
        /\ f.index \in 0 .. Len(f.lines)
        /\ f.from \in 0 .. f.index
        /\ f.passed = SubSeq(f.lines, f.from + 1, f.index)
        /\ f.steps # <<>> => f.index >= 1 }

BegunFrame == { f \in SoundFrame : f.index >= 1 }

\* The frames that wait have begun a line.
WaitingHaveBegun ==
    /\ \A k \in 1 .. Len(frames) - 1 : frames[k] \in BegunFrame
    /\ Running /\ Busy => Top \in BegunFrame

\* The procedure that was called first has begun a line.
FirstHasBegun == Running => frames[1] \in BegunFrame

StackOK ==
    /\ frames \in Seq(SoundFrame)
    /\ Len(frames) <= MaximumDepth
    /\ WaitingHaveBegun

Report == Seq(Text)

RunnerInv ==
    /\ IInv
    /\ StackOK
    /\ numeric_registers \in [Registers -> Int]
    /\ answer \in {"none", "ok", "error", "refused"}
    /\ reported \in Report

-----------------------------------------------------------------------------
(***************************************************************************)
(* Frames.                                                                 *)
(***************************************************************************)

LEMMA BlankIsText == Blank \in Text
BY ProcedureRunnerAssumption

LEMMA NoReportIsReport == NoReport \in Report
BY EmptySeq DEF NoReport, Report

\* What a procedure that stopped shows are lines of its own.
LEMMA ReportIsReport ==
    ASSUME NEW f \in BegunFrame
    PROVE  ReportOf(f) \in Report
<1> DEFINE n == Len(f.lines)
           last == IF f.index + 2 <= n THEN f.index + 2 ELSE n
<1>1. /\ f \in Frame /\ f.lines \in Seq(Text)
      /\ f.index \in 1 .. n
  BY DEF BegunFrame, SoundFrame, Frame
<1>2. n \in Nat
  BY <1>1, LenProperties
<1>3. f.index \in 1 .. n + 1 /\ last \in 0 .. n
  BY <1>1, <1>2
<1> HIDE DEF last
<1>4. SubSeq(f.lines, f.index, last) \in Seq(Text)
  BY <1>1, <1>3, PartOfSeq
<1>5. ReportOf(f) = SubSeq(f.lines, f.index, last)
  BY DEF ReportOf, last
<1> QED
  BY <1>1, <1>4, <1>5 DEF Report

\* The frame of a procedure that is called with these lines.
LEMMA FreshFrameSound ==
    ASSUME NEW name \in Names, NEW lines \in Seq(Text)
    PROVE  [ name |-> name, lines |-> lines, index |-> 0,
             steps |-> <<>>, from |-> 0, passed |-> <<>> ] \in SoundFrame
<1> DEFINE f == [ name |-> name, lines |-> lines, index |-> 0,
                  steps |-> <<>>, from |-> 0, passed |-> <<>> ]
<1>1. Len(lines) \in Nat
  BY LenProperties
<1>2. SubSeq(lines, 0 + 1, 0) = <<>>
  BY SubSeqEmpty
<1>3. /\ f.lines = lines /\ f.index = 0 /\ f.from = 0
      /\ f.passed = <<>> /\ f.steps = <<>>
  OBVIOUS
<1>4. f \in Frame
  BY EmptySeq DEF Frame
<1> HIDE DEF f
<1>5. 0 \in 0 .. Len(lines) /\ 0 \in 0 .. 0
  BY <1>1
<1>6. f \in SoundFrame
  BY <1>2, <1>3, <1>4, <1>5 DEF SoundFrame
<1> QED
  BY <1>6 DEF f

LEMMA NewFrameSound ==
    ASSUME IInv, NEW name \in Open(mgr)
    PROVE  NewFrame(name) \in SoundFrame
<1>1. mgr.buffers[name].lines \in Seq(Text) /\ name \in Names
  BY DEF IInv, ManagerCore, IsManager, BufferRecord
<1> QED
  BY <1>1, FreshFrameSound DEF NewFrame

\* The steps of a line after the first.
LEMMA AfterStepSound ==
    ASSUME NEW f \in SoundFrame, f.steps # <<>>
    PROVE  [f EXCEPT !.steps = Tail(@)] \in BegunFrame
<1>1. Tail(f.steps) \in Seq(Step)
  BY HeadTailProperties DEF SoundFrame, Frame
<1> QED
  BY <1>1 DEF BegunFrame, SoundFrame, Frame

-----------------------------------------------------------------------------
(***************************************************************************)
(* The stack.                                                              *)
(***************************************************************************)

LEMMA TopIsSound ==
    ASSUME RunnerInv, Running
    PROVE  /\ Top \in SoundFrame
           /\ Len(frames) \in Nat /\ Len(frames) >= 1
           /\ Len(frames) \in 1 .. Len(frames)
<1>1. frames \in Seq(SoundFrame) /\ frames # <<>>
  BY DEF RunnerInv, StackOK, Running
<1>2. Len(frames) \in Nat /\ Len(frames) >= 1
  BY <1>1, EmptyByLength
<1> QED
  BY <1>1, <1>2, ElementOfSeq DEF Top

\* The running frame goes on, at a line it has begun.
LEMMA ContinueStack ==
    ASSUME RunnerInv, Running, NEW f \in BegunFrame, Continue(f)
    PROVE  StackOK' /\ FirstHasBegun' /\ UNCHANGED <<answer, reported>>
<1>1. /\ Len(frames) \in Nat /\ Len(frames) \in 1 .. Len(frames)
      /\ frames \in Seq(SoundFrame) /\ WaitingHaveBegun
      /\ Len(frames) <= MaximumDepth
  BY TopIsSound DEF RunnerInv, StackOK
<1>2. f \in SoundFrame
  BY DEF BegunFrame
<1>3. frames' = [frames EXCEPT ![Len(frames)] = f]
  BY DEF Continue
<1>4. /\ frames' \in Seq(SoundFrame) /\ Len(frames') = Len(frames)
      /\ \A k \in 1 .. Len(frames) :
            frames'[k] = IF k = Len(frames) THEN f ELSE frames[k]
  BY <1>1, <1>2, <1>3, ExceptSeq
<1>5. \A k \in 1 .. Len(frames) - 1 :
          k \in 1 .. Len(frames) /\ k # Len(frames)
  BY <1>1
<1>6. WaitingHaveBegun'
  BY <1>1, <1>4, <1>5 DEF WaitingHaveBegun, Top
<1>7. FirstHasBegun'
  <2> DEFINE n == Len(frames)
  <2>0. n \in Nat /\ n \in 1 .. n
    BY <1>1
  <2> HIDE DEF n
  <2>1. 1 \in 1 .. n /\ (1 = n \/ 1 \in 1 .. n - 1)
    BY <2>0
  <2>2. 1 \in 1 .. n - 1 => frames[1] \in BegunFrame
    BY <1>1 DEF WaitingHaveBegun, n
  <2>3. frames'[1] = f \/ frames'[1] \in BegunFrame
    BY <1>4, <2>1, <2>2 DEF n
  <2> QED
    BY <2>3 DEF FirstHasBegun
<1> QED
  BY <1>1, <1>4, <1>6, <1>7 DEF StackOK, Continue

LEMMA ThrowStack ==
    ASSUME RunnerInv, NEW report \in Report, Throw(report)
    PROVE  /\ StackOK' /\ FirstHasBegun'
           /\ answer' \in {"none", "ok", "error", "refused"}
           /\ reported' \in Report
<1>1. frames' = <<>>
  BY DEF Throw
<1>2. Len(frames') = 0 /\ frames' \in Seq(SoundFrame)
  BY <1>1, EmptySeq
<1>3. MaximumDepth \in Nat
  BY ProcedureRunnerAssumption
<1> QED
  BY <1>1, <1>2, <1>3
  DEF StackOK, WaitingHaveBegun, FirstHasBegun, Running, Throw

LEMMA AnswerStack ==
    ASSUME RunnerInv, Running, NEW f \in BegunFrame, Answer(f)
    PROVE  /\ StackOK' /\ FirstHasBegun'
           /\ answer' \in {"none", "ok", "error", "refused"}
           /\ reported' \in Report
<1>1. CASE Throw(ReportOf(f))
  BY <1>1, ReportIsReport, ThrowStack
<1>2. CASE Continue(f)
  BY <1>2, ContinueStack DEF RunnerInv
<1> QED
  BY <1>1, <1>2 DEF Answer

\* A step that leaves the runtime alone, and the registers.
LEMMA QuietStack ==
    ASSUME RunnerInv, UNCHANGED <<vars, numeric_registers>>, StackOK',
           answer' \in {"none", "ok", "error", "refused"}, reported' \in Report
    PROVE  RunnerInv'
BY RuntimeUnchanged DEF RunnerInv

-----------------------------------------------------------------------------
(***************************************************************************)
(* The steps of a procedure.                                               *)
(***************************************************************************)

\* A step at which a procedure stands: the runtime waits, and the frame after
\* the step has begun a line.
LEMMA StandingAt ==
    ASSUME RunnerInv, NEW kind, At(kind)
    PROVE  /\ Running /\ ~Busy /\ exit = "no"
           /\ Top \in BegunFrame
           /\ AfterStep \in BegunFrame
           /\ Head(Top.steps) \in Step /\ Head(Top.steps).kind = kind
<1>1. Running /\ ~Busy /\ exit = "no" /\ Top.steps # <<>>
      /\ Head(Top.steps).kind = kind
  BY DEF At, LoopsGoOn
<1>2. Top \in SoundFrame
  BY <1>1, TopIsSound
<1>3. AfterStep \in BegunFrame
  BY <1>1, <1>2, AfterStepSound DEF AfterStep
<1>4. Top.steps \in Seq(Step)
  BY <1>2 DEF SoundFrame, Frame
<1>5. Head(Top.steps) \in Step
  BY <1>1, <1>4, HeadTailProperties
<1> QED
  BY <1>1, <1>2, <1>3, <1>5 DEF BegunFrame, SoundFrame

LEMMA CallProcedureStep ==
    ASSUME RunnerInv, NEW name \in Names, CallProcedure(name)
    PROVE  RunnerInv'
<1>1. /\ ~Running /\ ~Busy /\ reported' \in Report
      /\ UNCHANGED <<vars, numeric_registers>>
  BY NoReportIsReport DEF CallProcedure
<1>2. MaximumDepth \in Nat
  BY ProcedureRunnerAssumption
<1>3. CASE Callable(name, 0) /\ frames' = <<NewFrame(name)>> /\ answer' = "none"
  <2>1. NewFrame(name) \in SoundFrame
    BY <1>3, NewFrameSound DEF Callable, RunnerInv
  <2>2. frames' \in Seq(SoundFrame) /\ Len(frames') = 1
    BY <1>3, <2>1
  <2>3. 1 <= MaximumDepth
    BY <1>2, <1>3 DEF Callable
  <2>4. ~Busy'
    BY <1>1 DEF Busy, Nested, vars
  <2>5. StackOK'
    BY <2>2, <2>3, <2>4 DEF StackOK, WaitingHaveBegun
  <2> QED
    BY <1>1, <1>3, <2>5, QuietStack
<1>4. CASE ~Callable(name, 0) /\ answer' = "refused" /\ UNCHANGED frames
  <2>1. StackOK'
    BY <1>1, <1>4 DEF RunnerInv, StackOK, WaitingHaveBegun, Running
  <2> QED
    BY <1>1, <1>4, <2>1, QuietStack
<1> QED
  BY <1>3, <1>4 DEF CallProcedure

LEMMA TypeCommandStep ==
    ASSUME RunnerInv, TypeCommand
    PROVE  RunnerInv'
<1>1. ~Running /\ UNCHANGED runner
  BY DEF TypeCommand
<1>2. IInv'
  <2>1. CASE \E command \in Typed \ TextCommands : Execute(command)
    BY <2>1, ExecuteIsNext, NextIInv DEF RunnerInv
  <2>2. CASE \E command \in Typed \cap TextCommands, block \in Blocks :
               ~Busy /\ exit = "no" /\ ExecuteText(command, block)
    BY <2>2, ExecuteTextStep, CommandExecutorAssumption DEF RunnerInv
  <2>3. CASE Busy /\ Next
    BY <2>3, NextIInv DEF RunnerInv
  <2> QED
    BY <2>1, <2>2, <2>3 DEF TypeCommand
<1>3. StackOK'
  BY <1>1 DEF RunnerInv, StackOK, WaitingHaveBegun, Running, runner
<1> QED
  BY <1>1, <1>2, <1>3 DEF RunnerInv, runner

\* The frame that begins its next line has passed one line more.
LEMMA BegunLine ==
    ASSUME NEW f \in SoundFrame, f.index < Len(f.lines), NEW steps \in Seq(Step)
    PROVE  [f EXCEPT !.index = @ + 1, !.steps = steps,
                     !.passed = Append(@, f.lines[f.index + 1])] \in BegunFrame
<1> DEFINE n == Len(f.lines)
           i == f.index
           line == f.lines[i + 1]
           g == [f EXCEPT !.index = @ + 1, !.steps = steps,
                          !.passed = Append(@, line)]
<1>1. /\ f \in Frame /\ f.lines \in Seq(Text) /\ f.passed \in Seq(Text)
      /\ i \in 0 .. n /\ f.from \in 0 .. i
      /\ f.passed = SubSeq(f.lines, f.from + 1, i)
  BY DEF SoundFrame, Frame
<1>2. n \in Nat
  BY <1>1, LenProperties
<1>3. i \in Nat /\ i < n /\ i + 1 \in 1 .. n /\ f.from \in Nat /\ f.from <= i
  BY <1>1, <1>2
<1>4. line \in Text
  BY <1>1, <1>3, ElementOfSeq
<1>5. Append(f.passed, line) \in Seq(Text)
  BY <1>1, <1>4, AppendProperties
<1>6. Append(f.passed, line) = SubSeq(f.lines, f.from + 1, i + 1)
  <2>1. SubSeq(f.lines, f.from + 1, i + 1)
          = SubSeq(f.lines, f.from + 1, i) \o <<line>>
    <3>1. /\ f.from + 1 \in 1 .. n /\ i + 1 \in f.from + 1 .. n
          /\ (i + 1) - 1 = i
      BY <1>2, <1>3
    <3> QED
      BY <1>1, <3>1, SubSeqRecursiveSecond
  <2>2. Append(f.passed, line) = f.passed \o <<line>>
    BY <1>1, <1>4, AppendIsConcat
  <2> QED
    BY <1>1, <2>1, <2>2
<1>7. /\ g.index = i + 1 /\ g.lines = f.lines /\ g.from = f.from
      /\ g.passed = Append(f.passed, line) /\ g \in Frame
  <2> HIDE DEF line
  <2>1. i + 1 \in Nat
    BY <1>3
  <2> QED
    BY <1>1, <1>4, <1>5, <2>1 DEF Frame
<1>8. g.index \in 0 .. Len(g.lines) /\ g.from \in 0 .. g.index /\ g.index >= 1
  BY <1>2, <1>3, <1>7
<1> HIDE DEF g
<1>9. g \in BegunFrame
  BY <1>6, <1>7, <1>8 DEF BegunFrame, SoundFrame
<1> QED
  BY <1>9 DEF g

LEMMA StartLineStep ==
    ASSUME RunnerInv, StartLine
    PROVE  RunnerInv' /\ FirstHasBegun'
<1>1. /\ Running /\ Top.index < Len(Top.lines)
      /\ UNCHANGED <<vars, numeric_registers>>
  BY DEF StartLine, Lines
<1>2. /\ Top \in SoundFrame /\ Len(frames) \in Nat /\ Len(frames) >= 1
      /\ frames \in Seq(SoundFrame) /\ WaitingHaveBegun
  BY <1>1, TopIsSound DEF RunnerInv, StackOK
<1> DEFINE line == Top.lines[Top.index + 1]
<1>3. CASE \E steps \in Expansions(line) :
             Continue([Top EXCEPT !.index = @ + 1,
                                  !.steps = steps,
                                  !.passed = Append(@, line)])
  <2>1. PICK steps \in Expansions(line) :
             Continue([Top EXCEPT !.index = @ + 1,
                                  !.steps = steps,
                                  !.passed = Append(@, line)])
    BY <1>3
  <2>2. line \in Text
    <3>1. /\ Top.lines \in Seq(Text) /\ Top.index \in Nat
          /\ Top.index + 1 \in 1 .. Len(Top.lines)
      <4>1. Top.lines \in Seq(Text) /\ Top.index \in Nat
        BY <1>2 DEF SoundFrame, Frame
      <4>2. Len(Top.lines) \in Nat
        BY <4>1, LenProperties
      <4> QED
        BY <1>1, <4>1, <4>2
    <3> QED
      BY <3>1, ElementOfSeq
  <2>4. steps \in Seq(Step)
    <3>1. CASE Included[line] = NoBuffer
      BY <2>1, <2>2, <3>1, ProcedureRunnerAssumption DEF Expansions
    <3>2. CASE Included[line] # NoBuffer
      <4>1. PICK n \in Open(mgr) :
              steps = QuotedMeaning[IncludedText(mgr.buffers[n])]
        BY <2>1, <3>2 DEF Expansions
      <4>2. mgr.buffers[n].lines \in Seq(Text)
        BY DEF RunnerInv, IInv, ManagerCore, IsManager, BufferRecord
      <4>3. LineCount(mgr.buffers[n]) = 1 => mgr.buffers[n].lines[1] \in Text
        BY <4>2, ElementOfSeq DEF LineCount
      <4>4. IncludedText(mgr.buffers[n]) \in Text
        BY <4>3, ProcedureRunnerAssumption DEF IncludedText
      <4> QED
        BY <4>1, <4>4, ProcedureRunnerAssumption
    <3> QED
      BY <3>1, <3>2
  <2>5. StackOK' /\ FirstHasBegun' /\ UNCHANGED <<answer, reported>>
    BY <1>1, <1>2, <2>1, <2>4, BegunLine, ContinueStack
  <2> QED
    BY <1>1, <2>5, QuietStack DEF RunnerInv
<1>4. CASE Throw(IF Callers = <<>> THEN NoReport
                                   ELSE ReportOf(Callers[Len(Callers)]))
  <2>1. CASE Callers = <<>>
    BY <1>1, <1>4, <2>1, NoReportIsReport, ThrowStack, QuietStack
  <2>2. CASE Callers # <<>>
    <3> DEFINE n == Len(frames) - 1
    <3>1. 1 \in 1 .. Len(frames) + 1 /\ n \in 0 .. Len(frames)
      BY <1>2
    <3>2. /\ Callers \in Seq(SoundFrame)
          /\ Len(Callers) = IF 1 <= n THEN n ELSE 0
          /\ \A i \in 1 .. n : Callers[i] = frames[1 + i - 1]
      <4>1. n - 1 + 1 = n
        BY <1>2
      <4> QED
        BY <1>2, <3>1, <4>1, PartOfSeq DEF Callers
    <3>3. Len(Callers) # 0
      BY <2>2, <3>2, EmptyByLength
    <3>4. n >= 1 /\ Len(Callers) = n /\ n \in 1 .. n /\ 1 + n - 1 = n
      BY <1>2, <3>2, <3>3
    <3>5. Callers[Len(Callers)] = frames[n]
      BY <3>2, <3>4
    <3>6. frames[n] \in BegunFrame
      BY <1>2, <3>4 DEF WaitingHaveBegun
    <3> QED
      BY <1>1, <1>4, <2>2, <3>5, <3>6, ReportIsReport, ThrowStack, QuietStack
  <2> QED
    BY <2>1, <2>2
<1> QED
  BY <1>3, <1>4 DEF StartLine, Lines

LEMMA RunCommandStep ==
    ASSUME RunnerInv, RunCommand
    PROVE  RunnerInv' /\ FirstHasBegun'
<1>1. /\ Running /\ AfterStep \in BegunFrame /\ Answer(AfterStep)
      /\ UNCHANGED numeric_registers
  BY StandingAt DEF RunCommand
<1>2. IInv'
  BY ExecuteIsNext, NextIInv DEF RunCommand, RunnerInv
<1> QED
  BY <1>1, <1>2, AnswerStack DEF RunnerInv

LEMMA ContinueCommandStep ==
    ASSUME RunnerInv, ContinueCommand
    PROVE  RunnerInv' /\ FirstHasBegun'
<1>1. /\ Running /\ Top \in BegunFrame /\ Answer(Top)
      /\ UNCHANGED numeric_registers
  BY DEF ContinueCommand, RunnerInv, StackOK, WaitingHaveBegun
<1>2. IInv'
  BY NextIInv DEF ContinueCommand, RunnerInv
<1> QED
  BY <1>1, <1>2, AnswerStack DEF RunnerInv

\* Where a block of text may end, in a procedure of n lines.
LEMMA TextBounds ==
    ASSUME NEW n \in Nat, NEW i \in 0 .. n, NEW from \in 0 .. i,
           NEW last \in i + 1 .. n
    PROVE  /\ i + 1 \in 1 .. n + 1 /\ last \in 0 .. n /\ last - 1 \in 0 .. n
           /\ from + 1 \in 1 .. n + 1 /\ i \in (from + 1) - 1 .. n
           /\ last \in i .. n /\ last \in Nat /\ last >= 1 /\ from \in 0 .. last
OBVIOUS

\* The frame after a block of text has passed the lines of the block.
LEMMA AfterTextSound ==
    ASSUME RunnerInv, Running, Top \in BegunFrame, Top.steps # <<>>,
           NEW last \in Top.index + 1 .. Len(Top.lines)
    PROVE  /\ AfterText(last) \in BegunFrame
           /\ SubSeq(Top.lines, Top.index + 1, last - 1) \in Seq(Text)
<1> DEFINE f == AfterStep
           n == Len(f.lines)
           i == f.index
           text == SubSeq(f.lines, i + 1, last)
           g == [f EXCEPT !.index = last, !.passed = @ \o text]
<1>1. f \in BegunFrame /\ Top \in SoundFrame
  BY AfterStepSound DEF BegunFrame, AfterStep
<1>2. f.lines = Top.lines /\ f.index = Top.index
  BY <1>1 DEF AfterStep, SoundFrame, Frame
<1>3. /\ f \in Frame /\ f.lines \in Seq(Text) /\ f.passed \in Seq(Text)
      /\ f.from \in 0 .. i /\ i \in 0 .. n
      /\ f.passed = SubSeq(f.lines, f.from + 1, i)
  BY <1>1 DEF BegunFrame, SoundFrame, Frame
<1>4. n \in Nat
  BY <1>3, LenProperties
<1>5. last \in i + 1 .. n
  BY <1>2
<1> HIDE DEF f, n, i
<1>6. /\ i + 1 \in 1 .. n + 1 /\ last \in 0 .. n /\ last - 1 \in 0 .. n
      /\ f.from + 1 \in 1 .. n + 1 /\ i \in (f.from + 1) - 1 .. n
      /\ last \in i .. n /\ last \in Nat /\ last >= 1 /\ f.from \in 0 .. last
  BY <1>3, <1>4, <1>5, TextBounds
<1>7. text \in Seq(Text) /\ SubSeq(f.lines, i + 1, last - 1) \in Seq(Text)
  BY <1>3, <1>6, PartOfSeq DEF n
<1>8. f.passed \o text \in Seq(Text)
  BY <1>3, <1>7, TwoParts
<1>9. f.passed \o text = SubSeq(f.lines, f.from + 1, last)
  BY <1>3, <1>6, ConcatAdjacentSubSeq DEF n
<1>10. AfterText(last) = g
  BY <1>2 DEF AfterText, Lines, f, i
<1>11. /\ g.index = last /\ g.lines = f.lines /\ g.from = f.from
       /\ g.passed = f.passed \o text /\ g \in Frame
  <2> HIDE DEF text
  <2> QED
    BY <1>3, <1>6, <1>8 DEF Frame
<1> HIDE DEF g
<1>12. g.index \in 0 .. Len(g.lines) /\ g.from \in 0 .. g.index /\ g.index >= 1
  BY <1>6, <1>11 DEF n
<1>13. g \in BegunFrame
  BY <1>9, <1>11, <1>12 DEF BegunFrame, SoundFrame
<1> QED
  BY <1>2, <1>7, <1>10, <1>13 DEF i

LEMMA RunTextCommandStep ==
    ASSUME RunnerInv, RunTextCommand
    PROVE  RunnerInv' /\ FirstHasBegun'
<1>1. /\ Running /\ Top \in BegunFrame /\ Top.steps # <<>>
      /\ UNCHANGED numeric_registers
  BY StandingAt DEF RunTextCommand, At
<1>2. ASSUME NEW last \in TextEnds,
             ExecuteText(Head(Top.steps).command,
                         SubSeq(Lines, Top.index + 1, last - 1)),
             Answer(AfterText(last))
      PROVE  RunnerInv' /\ FirstHasBegun'
  <2>1. last \in Top.index + 1 .. Len(Top.lines)
    BY <1>2 DEF TextEnds, First, Lines
  <2>2. AfterText(last) \in BegunFrame
        /\ SubSeq(Top.lines, Top.index + 1, last - 1) \in Seq(Text)
    BY <1>1, <2>1, AfterTextSound
  <2>3. IInv'
    BY <1>2, <2>2, ExecuteTextStep DEF RunnerInv, Lines
  <2> QED
    BY <1>1, <1>2, <2>2, <2>3, AnswerStack DEF RunnerInv
<1>3. CASE TextEnds = {} /\ Throw(ReportOf(Top)) /\ UNCHANGED vars
  BY <1>1, <1>3, ReportIsReport, ThrowStack, QuietStack
<1> QED
  BY <1>2, <1>3 DEF RunTextCommand

LEMMA RunCallStep ==
    ASSUME RunnerInv, RunCall
    PROVE  RunnerInv' /\ FirstHasBegun'
<1> DEFINE name == Head(Top.steps).name
<1>1. /\ Running /\ ~Busy /\ Top \in BegunFrame /\ AfterStep \in BegunFrame
      /\ UNCHANGED <<vars, numeric_registers>>
  BY StandingAt DEF RunCall
<1>2. CASE /\ Callable(name, Len(frames))
           /\ frames' = Append([frames EXCEPT ![Len(frames)] = AfterStep],
                               NewFrame(name))
           /\ UNCHANGED <<answer, reported>>
  <2> DEFINE callers == [frames EXCEPT ![Len(frames)] = AfterStep]
             n == Len(frames)
  <2>1. NewFrame(name) \in SoundFrame
    BY <1>2, NewFrameSound DEF Callable, RunnerInv
  <2>2. /\ frames \in Seq(SoundFrame) /\ n \in Nat /\ n \in 1 .. n
        /\ \A k \in 1 .. n - 1 : frames[k] \in BegunFrame
    BY <1>1, TopIsSound DEF RunnerInv, StackOK, WaitingHaveBegun
  <2>3. AfterStep \in SoundFrame
    BY <1>1 DEF BegunFrame
  <2>4. /\ callers \in Seq(SoundFrame) /\ Len(callers) = n
        /\ \A k \in 1 .. n : callers[k] = IF k = n THEN AfterStep ELSE frames[k]
    BY <2>2, <2>3, ExceptSeq
  <2> HIDE DEF callers
  <2>5. /\ frames' \in Seq(SoundFrame) /\ Len(frames') = n + 1
        /\ \A k \in 1 .. n : frames'[k] = callers[k]
    BY <1>2, <2>1, <2>4, AppendProperties DEF callers
  <2>6. \A k \in 1 .. n : frames'[k] \in BegunFrame
    <3>1. \A k \in 1 .. n : k = n \/ k \in 1 .. n - 1
      BY <2>2
    <3> QED
      BY <1>1, <2>2, <2>4, <2>5, <3>1
  <2>7. n + 1 <= MaximumDepth
    BY <1>2, <2>2, ProcedureRunnerAssumption DEF Callable
  <2>8. ~Busy'
    BY <1>1 DEF Busy, Nested, vars
  <2>9. Len(frames') - 1 = n
    BY <2>2, <2>5
  <2>10. StackOK'
    BY <2>5, <2>6, <2>7, <2>8, <2>9 DEF StackOK, WaitingHaveBegun
  <2>11. FirstHasBegun'
    BY <2>2, <2>6 DEF FirstHasBegun
  <2> QED
    BY <1>1, <1>2, <2>10, <2>11, QuietStack DEF RunnerInv
<1>3. CASE Throw(ReportOf(Top))
  BY <1>1, <1>3, ReportIsReport, ThrowStack, QuietStack
<1> QED
  BY <1>2, <1>3 DEF RunCall

\* A jump to a line of the procedure, where nothing has been passed yet.
LEMMA AfterJumpSound ==
    ASSUME RunnerInv, Running, Top \in BegunFrame, Top.steps # <<>>,
           NEW target \in 1 .. Len(Top.lines)
    PROVE  [AfterStep EXCEPT !.index = target, !.from = target,
                             !.passed = <<>>] \in BegunFrame
<1> DEFINE f == AfterStep
           g == [f EXCEPT !.index = target, !.from = target, !.passed = <<>>]
<1>1. f \in BegunFrame /\ Top \in SoundFrame
  BY AfterStepSound DEF BegunFrame, AfterStep
<1>2. f.lines = Top.lines /\ f \in Frame /\ f.lines \in Seq(Text)
  BY <1>1 DEF AfterStep, BegunFrame, SoundFrame, Frame
<1>3. Len(f.lines) \in Nat /\ target \in Nat /\ target >= 1
  BY <1>2, LenProperties
<1>4. SubSeq(f.lines, target + 1, target) = <<>>
  BY <1>2, <1>3, SubSeqEmpty
<1> HIDE DEF f
<1>5. /\ g.index = target /\ g.lines = f.lines /\ g.from = target
      /\ g.passed = <<>> /\ g \in Frame
  BY <1>2, <1>3, EmptySeq DEF Frame
<1>6. g.index \in 0 .. Len(g.lines) /\ g.from \in 0 .. g.index /\ g.index >= 1
  BY <1>2, <1>3, <1>5
<1> HIDE DEF g
<1>7. g \in BegunFrame
  BY <1>4, <1>5, <1>6 DEF BegunFrame, SoundFrame
<1> QED
  BY <1>7 DEF g, f

LEMMA TargetInLines ==
    ASSUME RunnerInv, Running, Top \in BegunFrame, NEW label,
           NEW target \in JumpTarget(label)
    PROVE  target \in 1 .. Len(Top.lines)
<1>1. Top.index \in 1 .. Len(Top.lines) /\ Len(Top.lines) \in Nat
  BY LenProperties DEF BegunFrame, SoundFrame, Frame
<1>2. target \in Top.index + 1 .. Len(Top.lines) \/ target \in 1 .. Top.index - 1
  BY DEF JumpTarget, First, Labelled, Lines
<1> QED
  BY <1>1, <1>2

LEMMA RunJumpStep ==
    ASSUME RunnerInv, RunJump
    PROVE  RunnerInv' /\ FirstHasBegun'
<1> DEFINE jump == Head(Top.steps)
<1>1. /\ Running /\ Top \in BegunFrame /\ Top.steps # <<>>
      /\ AfterStep \in BegunFrame /\ UNCHANGED <<vars, numeric_registers>>
  BY StandingAt DEF RunJump, At
<1>2. CASE Continue(AfterStep)
  BY <1>1, <1>2, ContinueStack, QuietStack DEF RunnerInv
<1>3. CASE \E target \in JumpTarget(jump.label) :
             Continue([AfterStep EXCEPT !.index = target, !.from = target,
                                        !.passed = <<>>])
  <2>1. PICK target \in JumpTarget(jump.label) :
             Continue([AfterStep EXCEPT !.index = target, !.from = target,
                                        !.passed = <<>>])
    BY <1>3
  <2>2. [AfterStep EXCEPT !.index = target, !.from = target,
                          !.passed = <<>>] \in BegunFrame
    BY <1>1, TargetInLines, AfterJumpSound
  <2> QED
    BY <1>1, <2>1, <2>2, ContinueStack, QuietStack DEF RunnerInv
<1>4. CASE Throw(ReportOf(Top))
  BY <1>1, <1>4, ReportIsReport, ThrowStack, QuietStack
<1> QED
  BY <1>2, <1>3, <1>4 DEF RunJump

LEMMA RunOperationStep ==
    ASSUME RunnerInv, RunOperation
    PROVE  RunnerInv' /\ FirstHasBegun'
<1> DEFINE step  == Head(Top.steps)
           value == ValueOf(step.operand)
<1>1. /\ Running /\ AfterStep \in BegunFrame /\ Continue(AfterStep)
      /\ step \in Step /\ step.kind = "operation"
      /\ UNCHANGED <<mgr, disk, options, exit, sinks, global, outcome>>
  BY StandingAt DEF RunOperation
<1>2. step.register \in Registers /\ step.operand \in Operand
      /\ step.operator \in {":", "=", "<", ">"}
  BY <1>1 DEF Step
<1>3. value \in Int
  <2>1. /\ LineCount(Cur) \in Nat /\ Cur.current_line \in Nat /\ counter \in Int
    BY CurOK DEF RunnerInv, IInv, TypeOK, BufferOK, BufferRecord
  <2>2. step.operand.number \in Int
    BY <1>2 DEF Operand
  <2> QED
    BY <2>1, <2>2 DEF ValueOf
<1>4. numeric_registers' \in [Registers -> Int]
  BY <1>2, <1>3 DEF RunOperation, RunnerInv
<1>5. counter' \in Int
  BY <1>2, <1>4 DEF RunOperation
<1>6. condition' \in BOOLEAN
  <2>1. condition \in BOOLEAN
    BY DEF RunnerInv, IInv, TypeOK
  <2>2. condition' = CASE step.operator = "=" -> numeric_registers[step.register] = value
                       [] step.operator = "<" -> numeric_registers[step.register] < value
                       [] step.operator = ">" -> numeric_registers[step.register] > value
                       [] OTHER               -> condition
    BY DEF RunOperation
  <2>3. numeric_registers[step.register] \in Int
    BY <1>2 DEF RunnerInv
  <2> DEFINE old == numeric_registers[step.register]
  <2> HIDE DEF old, step, value
  <2>4. (old = value) \in BOOLEAN /\ (old < value) \in BOOLEAN
        /\ (old > value) \in BOOLEAN
    OBVIOUS
  <2>5. CASE step.operator = "="
    BY <2>2, <2>4, <2>5 DEF old
  <2>6. CASE step.operator = "<"
    BY <2>2, <2>4, <2>6 DEF old
  <2>7. CASE step.operator = ">"
    BY <2>2, <2>4, <2>7 DEF old
  <2>8. CASE step.operator = ":"
    BY <2>1, <2>2, <2>8
  <2> QED
    BY <1>2, <2>5, <2>6, <2>7, <2>8
<1>7. IInv'
  <2>1. TypeOK'
    BY <1>1, <1>5, <1>6 DEF RunnerInv, IInv, TypeOK
  <2>2. ManagerCore(mgr)'
    BY <1>1 DEF RunnerInv, IInv, ManagerCore
  <2>3. GlobalPosition'
    BY <1>1 DEF RunnerInv, IInv, GlobalPosition, Cur
  <2> QED
    BY <2>1, <2>2, <2>3 DEF IInv
<1> QED
  BY <1>1, <1>4, <1>7, ContinueStack DEF RunnerInv

LEMMA RunMalformedStep ==
    ASSUME RunnerInv, RunMalformed
    PROVE  RunnerInv' /\ FirstHasBegun'
<1>1. /\ Top \in BegunFrame /\ Throw(ReportOf(Top))
      /\ UNCHANGED <<vars, numeric_registers>>
  BY StandingAt DEF RunMalformed
<1> QED
  BY <1>1, ReportIsReport, ThrowStack, QuietStack

LEMMA EndProcedureStep ==
    ASSUME RunnerInv, EndProcedure
    PROVE  RunnerInv' /\ FirstHasBegun'
<1> DEFINE n == Len(frames) - 1
<1>1. /\ Running /\ ~Busy /\ frames' = Callers
      /\ answer' \in {"none", "ok", "error", "refused"} /\ reported' = reported
      /\ UNCHANGED <<vars, numeric_registers>>
  BY DEF EndProcedure, RunnerInv
<1>2. /\ frames \in Seq(SoundFrame) /\ Len(frames) \in Nat /\ Len(frames) >= 1
      /\ Len(frames) <= MaximumDepth
      /\ \A k \in 1 .. n : frames[k] \in BegunFrame
  BY <1>1, TopIsSound DEF RunnerInv, StackOK, WaitingHaveBegun
<1>3. /\ 1 \in 1 .. Len(frames) + 1 /\ n \in 0 .. Len(frames)
      /\ n - 1 + 1 = n /\ n \in Nat
  BY <1>2
<1>4. /\ frames' \in Seq(SoundFrame)
      /\ Len(frames') = n
      /\ \A i \in 1 .. n : frames'[i] = frames[1 + i - 1]
  <2>1. /\ frames' \in Seq(SoundFrame)
        /\ Len(frames') = IF 1 <= n THEN n - 1 + 1 ELSE 0
        /\ \A i \in 1 .. n - 1 + 1 : frames'[i] = frames[1 + i - 1]
    BY <1>1, <1>2, <1>3, PartOfSeq DEF Callers
  <2> HIDE DEF n
  <2>2. (IF 1 <= n THEN n - 1 + 1 ELSE 0) = n
    BY <1>3
  <2> QED
    BY <1>3, <2>1, <2>2
<1>5. \A i \in 1 .. Len(frames') - 1 : i \in 1 .. n /\ 1 + i - 1 = i
  <2> HIDE DEF n
  <2> QED
    BY <1>3, <1>4
<1>6. WaitingHaveBegun'
  <2>1. ~Busy'
    BY <1>1 DEF Busy, Nested, vars
  <2> QED
    BY <1>2, <1>4, <1>5, <2>1 DEF WaitingHaveBegun
<1>7. Len(frames') <= MaximumDepth
  <2>1. n <= MaximumDepth
    BY <1>2, ProcedureRunnerAssumption
  <2> QED
    BY <1>4, <2>1
<1>8. StackOK'
  BY <1>4, <1>6, <1>7 DEF StackOK
<1>9. FirstHasBegun'
  <2>1. ASSUME Running'
        PROVE  1 \in 1 .. n /\ 1 + 1 - 1 = 1
    <3>1. Len(frames') # 0
      BY <1>4, <2>1, EmptyByLength DEF Running
    <3> HIDE DEF n
    <3> QED
      BY <1>3, <1>4, <3>1
  <2> HIDE DEF n
  <2>2. ASSUME Running'
        PROVE  frames'[1] \in BegunFrame
    BY <1>2, <1>4, <2>1, <2>2
  <2> QED
    BY <2>2 DEF FirstHasBegun
<1> QED
  BY <1>1, <1>8, <1>9, QuietStack DEF RunnerInv

-----------------------------------------------------------------------------
(***************************************************************************)
(* The theorems.                                                           *)
(***************************************************************************)

LEMMA RunnerInitInv == RunnerInit => RunnerInv
<1> SUFFICES ASSUME RunnerInit PROVE RunnerInv
  OBVIOUS
<1>1. IInv
  <2>1. /\ ManagerCore(mgr)
        /\ disk \in [Files -> {Absent, Unreadable} \cup Image]
    BY CommandExecutorAssumption, ProcedureRunnerAssumption, ManagerParts DEF RunnerInit
  <2>2. sinks \in Seq(Capture) /\ counter \in Int
    BY EmptySeq DEF RunnerInit
  <2>3. TypeOK
    BY <2>1, <2>2 DEF RunnerInit, TypeOK, ManagerCore
  <2> QED
    BY <2>1, <2>3 DEF RunnerInit, IInv, GlobalPosition
<1>2. StackOK
  <2>1. frames = <<>> /\ Len(frames) = 0 /\ frames \in Seq(SoundFrame)
    BY EmptySeq DEF RunnerInit
  <2> QED
    BY <2>1, ProcedureRunnerAssumption DEF StackOK, WaitingHaveBegun, Running
<1>3. numeric_registers \in [Registers -> Int]
  BY DEF RunnerInit
<1> QED
  BY <1>1, <1>2, <1>3, NoReportIsReport DEF RunnerInit, RunnerInv

\* A procedure that runs on has begun a line: it is at its first line only
\* when it was called.
LEMMA RunStep ==
    ASSUME RunnerInv, Run
    PROVE  RunnerInv' /\ FirstHasBegun'
BY StartLineStep, RunCommandStep, ContinueCommandStep, RunTextCommandStep,
   RunCallStep, RunJumpStep, RunOperationStep, RunMalformedStep,
   EndProcedureStep DEF Run

\* A step of a caller that leaves the runner alone.
LEMMA RunnerUnchanged ==
    ASSUME RunnerInv, UNCHANGED allvars
    PROVE  RunnerInv'
<1>1. IInv'
  BY RuntimeUnchanged DEF allvars, RunnerInv
<1> QED
  BY <1>1
  DEF allvars, runner, vars, registers, RunnerInv, StackOK,
      WaitingHaveBegun, Running, Busy, Nested, Top

LEMMA RunnerNextInv == RunnerInv /\ [RunnerNext]_allvars => RunnerInv'
BY RunnerUnchanged, TypeCommandStep, RunStep, CallProcedureStep DEF RunnerNext

LEMMA RunnerInvariance == RunnerSpec => []RunnerInv
BY RunnerInitInv, RunnerNextInv, PTL DEF RunnerSpec

LEMMA RunnerInvType == RunnerInv => RunnerTypeOK
<1> SUFFICES ASSUME RunnerInv PROVE RunnerTypeOK
  OBVIOUS
<1>1. SoundFrame \subseteq Frame
  BY DEF SoundFrame
<1>2. frames \in Seq(Frame)
  BY <1>1, SeqMonotonic DEF RunnerInv, StackOK
<1> QED
  BY <1>2 DEF RunnerInv, IInv, RunnerTypeOK, Report

\* Whatever procedures do, the state of the runner keeps its type.
THEOREM RunnerTypeCorrect == RunnerSpec => []RunnerTypeOK
BY RunnerInvType, RunnerInvariance, PTL

\* Recursion never gets deeper than the limit, whatever the procedures are.
THEOREM NestingIsBounded == RunnerSpec => []DepthIsLimited
<1>1. RunnerInv => DepthIsLimited
  BY DEF RunnerInv, StackOK, DepthIsLimited
<1> QED
  BY <1>1, RunnerInvariance, PTL

LEMMA RunnerInvSnapshot == RunnerInv => ProceduresRunTheirSnapshot
<1> SUFFICES ASSUME RunnerInv PROVE ProceduresRunTheirSnapshot
  OBVIOUS
<1>1. \A k \in 1 .. Len(frames) : frames[k] \in SoundFrame
  BY ElementOfSeq DEF RunnerInv, StackOK
<1> QED
  BY <1>1 DEF ProceduresRunTheirSnapshot, SoundFrame

\* Every procedure in progress has passed, since its last jump, the lines it
\* had when it was called, in order and without a gap, though any of them may
\* have edited the buffer it came from.
THEOREM SnapshotsAreRun == RunnerSpec => []ProceduresRunTheirSnapshot
BY RunnerInvSnapshot, RunnerInvariance, PTL

\* A procedure that returns has run to its end: a step that takes its frame away
\* is the end of its loop, or it is an error.
THEOREM ReturnsAreComplete == RunnerSpec => ReturnsPassedEverything
<1>1. RunnerInv /\ [RunnerNext]_allvars =>
        [ Running /\ frames' = Callers /\ answer' # "error" /\ exit = "no" =>
            Top.index = Len(Top.lines) ]_allvars
  <2> SUFFICES ASSUME RunnerInv, RunnerNext, Running, frames' = Callers,
                      answer' # "error", exit = "no"
               PROVE  Top.index = Len(Top.lines)
    OBVIOUS
  <2>1. /\ Top \in SoundFrame /\ Len(frames) \in Nat /\ Len(frames) >= 1
        /\ frames \in Seq(SoundFrame)
    BY TopIsSound DEF RunnerInv, StackOK
  <2>2. Len(frames') < Len(frames)
    <3> DEFINE n == Len(frames) - 1
    <3>1. 1 \in 1 .. Len(frames) + 1 /\ n \in 0 .. Len(frames)
      BY <2>1
    <3>2. Len(Callers) = IF 1 <= n THEN n ELSE 0
      <4>1. n - 1 + 1 = n
        BY <2>1
      <4> QED
        BY <2>1, <3>1, <4>1, PartOfSeq DEF Callers
    <3> QED
      BY <2>1, <3>2
  <2>3. ASSUME NEW frame, Continue(frame) PROVE FALSE
    BY <2>1, <2>2, <2>3 DEF Continue
  <2>4. ASSUME NEW report, Throw(report) PROVE FALSE
    BY <2>4 DEF Throw
  <2>5. EndProcedure
    <3>1. Run
      BY DEF RunnerNext, TypeCommand, CallProcedure
    <3>2. ~StartLine
      BY <2>3, <2>4 DEF StartLine
    <3>3. ~RunCommand /\ ~ContinueCommand /\ ~RunTextCommand
      BY <2>3, <2>4 DEF RunCommand, ContinueCommand, RunTextCommand, Answer
    <3>4. ~RunCall
      BY <2>1, <2>2, <2>4 DEF RunCall
    <3>5. ~RunJump /\ ~RunOperation /\ ~RunMalformed
      BY <2>3, <2>4 DEF RunJump, RunOperation, RunMalformed
    <3> QED
      BY <3>1, <3>2, <3>3, <3>4, <3>5 DEF Run
  <2>6. Top.index >= Len(Top.lines)
    BY <2>5 DEF EndProcedure, Ends, LoopsGoOn, Lines
  <2>7. Top.index \in 0 .. Len(Top.lines) /\ Len(Top.lines) \in Nat
    BY <2>1, LenProperties DEF SoundFrame, Frame
  <2> QED
    BY <2>6, <2>7
<1> QED
  BY <1>1, RunnerInvariance, PTL DEF RunnerSpec, ReturnsPassedEverything

\* After an exit request no procedure, caller or typed line changes anything.
THEOREM ExitIsFinal == RunnerSpec => NothingRunsAfterExit
<1>1. [RunnerNext]_allvars =>
        [ exit # "no" /\ ~Busy =>
            UNCHANGED <<mgr, disk, counter, condition, numeric_registers>> ]_allvars
  <2> SUFFICES ASSUME RunnerNext, exit # "no", ~Busy
               PROVE  UNCHANGED <<mgr, disk, counter, condition, numeric_registers>>
    OBVIOUS
  <2>1. ~TypeCommand
    BY ExecuteBeforeExit DEF TypeCommand
  <2>2. CASE \E name \in Names : CallProcedure(name)
    BY <2>2 DEF CallProcedure
  <2>3. CASE Run
    <3>1. EndProcedure
      BY <2>3 DEF Run, StartLine, RunCommand, ContinueCommand, RunTextCommand,
                  RunCall, RunJump, RunOperation, RunMalformed, At, LoopsGoOn
    <3> QED
      BY <3>1 DEF EndProcedure, vars, registers
  <2> QED
    BY <2>1, <2>2, <2>3 DEF RunnerNext
<1> QED
  BY <1>1, PTL DEF RunnerSpec, NothingRunsAfterExit

\* The disposable buffers, as IInv leaves them out.
LEMMA RunnerNextTidy ==
    RunnerInv /\ TransientsAreCurrent /\ [RunnerNext]_allvars => TransientsAreCurrent'
<1> SUFFICES ASSUME RunnerInv, TransientsAreCurrent, [RunnerNext]_allvars
             PROVE  TransientsAreCurrent'
  OBVIOUS
<1>1. IInv
  BY DEF RunnerInv
<1>2. CASE UNCHANGED vars \/ Next
  BY <1>1, <1>2, NextTidy
<1>3. CASE EditsCurrent
  BY <1>1, <1>3, EditsCurrentTidy
<1>4. TypeCommand => Next \/ EditsCurrent
  BY ExecuteIsNext, TextCommandsEditCurrent DEF TypeCommand
<1>5. RunCommand \/ ContinueCommand => Next
  BY ExecuteIsNext DEF RunCommand, ContinueCommand
<1>6. RunTextCommand => UNCHANGED vars \/ EditsCurrent
  BY TextCommandsEditCurrent DEF RunTextCommand
<1>7. RunOperation => EditsCurrent
  BY DEF RunOperation, EditsCurrent
<1>8. StartLine \/ RunCall \/ RunJump \/ RunMalformed \/ EndProcedure
        => UNCHANGED vars
  BY DEF StartLine, RunCall, RunJump, RunMalformed, EndProcedure
<1>9. (\E name \in Names : CallProcedure(name)) \/ UNCHANGED allvars
        => UNCHANGED vars
  BY DEF CallProcedure, allvars
<1> QED
  BY <1>2, <1>3, <1>4, <1>5, <1>6, <1>7, <1>8, <1>9 DEF RunnerNext, Run

\* The runtime is as safe under procedures as it is under the user's hands.
THEOREM RunnerRuntimeSafe ==
    RunnerSpec => [](/\ CursorsInBuffers /\ CleanBuffersAreSaved
                     /\ CurrentBufferIsOpen /\ UsageListIsSound
                     /\ TransientsAreCurrent)
<1>1. RunnerInv => /\ CursorsInBuffers /\ CleanBuffersAreSaved
                   /\ CurrentBufferIsOpen /\ UsageListIsSound
  BY DEF RunnerInv, IInv, ManagerCore, BuffersOK, BufferOK, CursorsInBuffers,
         CleanBuffersAreSaved, CurrentBufferIsOpen, UsageListIsSound
<1>2. RunnerInit => TransientsAreCurrent
  BY ProcedureRunnerAssumption, ManagerParts DEF RunnerInit, TransientsAreCurrent
<1> QED
  BY <1>1, <1>2, RunnerNextTidy, RunnerInvariance, PTL DEF RunnerSpec

-----------------------------------------------------------------------------
(***************************************************************************)
(* The front end.                                                          *)
(***************************************************************************)

\* What each stage of main() relies on.
StartUp ==
    /\ stage = "start" => mgr = InitialManager
    /\ stage \in {"init", "in init", "parameters", "procedure"} =>
         start.request # NoRequest
    /\ stage \in {"start", "init", "parameters", "procedure"} =>
         Idle /\ InitBuffer \notin Open(mgr)
    /\ stage = "init" =>
         mgr.current = UserBuffer /\ ~IsEmpty(mgr.buffers[UserBuffer])
    /\ stage = "procedure" =>
         Zero \in Open(mgr) /\ mgr.buffers[Zero].lines = start.parameters

FrontInv ==
    /\ RunnerInv
    /\ stage \in Stages
    /\ start \in Start
    /\ typed \in Seq(Step)
    /\ status \in {0, 1}
    /\ StartUp
    /\ ProcedureStartsClean

-----------------------------------------------------------------------------
(***************************************************************************)
(* The buffers of the start-up.                                            *)
(***************************************************************************)

LEMMA StartUpNames ==
    /\ SpecialBuffers \subseteq Names
    /\ {InitBuffer, ScriptBuffer, Zero, UserBuffer} \subseteq Names
    /\ InitBuffer \notin SpecialBuffers \cup {Zero, UserBuffer}
    /\ ScriptBuffer \notin {Zero, InitBuffer}
BY FrontEndAssumption, NamesAssumption DEF SpecialBuffers

LEMMA WithSpecialCore ==
    ASSUME NEW m, ManagerCore(m), NEW name \in SpecialBuffers
    PROVE  /\ ManagerCore(WithSpecial(m, name))
           /\ Open(WithSpecial(m, name)) = Open(m) \cup {name}
           /\ ~IsEmpty(WithSpecial(m, name).buffers[name])
<1> DEFINE made == GetOrCreate(m, name)
           b    == AppendLines(made.buffers[name], <<Environment[name]>>)
           full == Put(made, name, b)
<1>1. name \in Names /\ Environment[name] \in Text
  BY StartUpNames, FrontEndAssumption
<1>2. ManagerCore(made) /\ Open(made) = Open(m) \cup {name}
  BY <1>1, GetOrCreateCore
<1>3. BufferOK(made.buffers[name])
  BY <1>2 DEF ManagerCore, BuffersOK
<1>4. WithSpecial(m, name) = Select(full, name)
  BY DEF WithSpecial
<1> HIDE DEF made
<1>5. <<Environment[name]>> \in Seq(Text) /\ <<Environment[name]>> # <<>>
  BY <1>1
<1>6. BufferOK(b) /\ ~IsEmpty(b)
  <2>1. made.buffers[name].lines \in Seq(Text)
    BY <1>3 DEF BufferOK, BufferRecord
  <2>2. BufferOK(b)
    BY <1>3, <1>5, AppendLinesOK
  <2>3. b.lines = made.buffers[name].lines \o <<Environment[name]>>
    BY <1>3 DEF AppendLines, Edited, BufferOK, BufferRecord
  <2>4. Len(b.lines) = Len(made.buffers[name].lines) + 1
        /\ Len(made.buffers[name].lines) \in Nat
    BY <1>5, <2>1, <2>3, ConcatProperties, LenProperties
  <2>5. b.lines # <<>>
    BY <2>4
  <2> QED
    BY <2>2, <2>5 DEF IsEmpty
<1> HIDE DEF b
<1>7. /\ ManagerCore(full) /\ Open(full) = Open(made) \cup {name}
      /\ full.buffers[name] = b
  BY <1>1, <1>2, <1>6, PutCore
<1> HIDE DEF full
<1>8. /\ ManagerCore(Select(full, name))
      /\ Select(full, name).buffers = full.buffers
  BY <1>7, SelectCore
<1> QED
  BY <1>2, <1>4, <1>6, <1>7, <1>8 DEF Open

LEMMA BootstrappedCore ==
    ASSUME NEW m, ManagerCore(m)
    PROVE  /\ ManagerCore(Bootstrapped(m))
           /\ Open(Bootstrapped(m)) = Open(m) \cup SpecialBuffers
           /\ Bootstrapped(m).current = UserBuffer
           /\ ~IsEmpty(Bootstrapped(m).buffers[UserBuffer])
<1> DEFINE m1 == WithSpecial(m, DateBuffer)
           m2 == WithSpecial(m1, TimeBuffer)
           m3 == WithSpecial(m2, UserBuffer)
<1>1. {DateBuffer, TimeBuffer, UserBuffer} \subseteq SpecialBuffers
  BY DEF SpecialBuffers
<1>2. ManagerCore(m1) /\ Open(m1) = Open(m) \cup {DateBuffer}
  BY <1>1, WithSpecialCore
<1>3. Bootstrapped(m) = Select(m3, UserBuffer)
  BY DEF Bootstrapped
<1> HIDE DEF m1
<1>4. ManagerCore(m2) /\ Open(m2) = Open(m1) \cup {TimeBuffer}
  BY <1>1, <1>2, WithSpecialCore
<1> HIDE DEF m2
<1>5. /\ ManagerCore(m3) /\ Open(m3) = Open(m2) \cup {UserBuffer}
      /\ ~IsEmpty(m3.buffers[UserBuffer])
  BY <1>1, <1>4, WithSpecialCore
<1> HIDE DEF m3
<1>6. /\ ManagerCore(Select(m3, UserBuffer))
      /\ Select(m3, UserBuffer).buffers = m3.buffers
      /\ Select(m3, UserBuffer).current = UserBuffer
  BY <1>5, SelectCore
<1> QED
  BY <1>2, <1>3, <1>4, <1>5, <1>6 DEF Open, SpecialBuffers

\* The arguments, in a buffer 0 that was as a new one is.
LEMMA WithParametersCore ==
    ASSUME NEW m, ManagerCore(m), start \in Start,
           Untouched(GetOrCreate(m, Zero).buffers[Zero])
    PROVE  /\ ManagerCore(WithParameters(m))
           /\ Open(WithParameters(m)) = Open(m) \cup {Zero}
           /\ WithParameters(m).buffers[Zero].lines = start.parameters
<1> DEFINE made == GetOrCreate(m, Zero)
           b    == AppendLines(made.buffers[Zero], start.parameters)
<1>1. /\ ManagerCore(made) /\ Open(made) = Open(m) \cup {Zero}
      /\ Zero \in Names
  BY NamesAssumption, GetOrCreateCore
<1>2. BufferOK(made.buffers[Zero]) /\ made.buffers[Zero].lines = <<>>
  BY <1>1 DEF ManagerCore, BuffersOK, Untouched, IsEmpty
<1>3. start.parameters \in Seq(Text)
  BY DEF Start
<1>4. WithParameters(m) = IF start.parameters = <<>> THEN made ELSE Put(made, Zero, b)
  BY DEF WithParameters
<1> HIDE DEF made
<1>5. CASE start.parameters = <<>>
  BY <1>1, <1>2, <1>4, <1>5
<1>6. CASE start.parameters # <<>>
  <2>1. BufferOK(b)
    BY <1>2, <1>3, <1>6, AppendLinesOK
  <2>2. b.lines = <<>> \o start.parameters
    BY <1>2 DEF AppendLines, Edited, BufferOK, BufferRecord
  <2>3. b.lines = start.parameters
    BY <1>3, <2>2, ConcatEmptySeq
  <2> HIDE DEF b
  <2>4. /\ ManagerCore(Put(made, Zero, b))
        /\ Open(Put(made, Zero, b)) = Open(made) \cup {Zero}
        /\ Put(made, Zero, b).buffers[Zero] = b
    BY <1>1, <2>1, PutCore
  <2> QED
    BY <1>1, <1>4, <1>6, <2>3, <2>4
<1> QED
  BY <1>5, <1>6

\* Whichever buffer becomes current when the erased one was.
LEMMA ErasedCore ==
    ASSUME NEW m, ManagerCore(m), NEW name \in Open(m), name # Zero,
           NEW m2 \in Erased(m, name)
    PROVE  ManagerCore(m2) /\ name \notin Open(m2)
<1> DEFINE left == Drop(m, name)
<1>1. /\ left.buffers = [n \in Open(m) \ {name} |-> m.buffers[n]]
      /\ Open(left) = Open(m) \ {name}
      /\ left.usage_order = Without(m.usage_order, name)
  BY DEF Drop, Open
<1>2. CASE m2 = InitialManager
  <2>1. Open(InitialManager) = {Zero}
    BY DEF InitialManager, Open
  <2> QED
    BY <1>2, <2>1, InitialManagerOK, ManagerParts
<1>3. CASE m.current = name /\ \E n \in Open(left) :
              m2 = [ buffers     |-> left.buffers,
                     usage_order |-> left.usage_order,
                     current     |-> n ]
  <2>1. PICK n \in Open(left) :
              m2 = [ buffers     |-> left.buffers,
                     usage_order |-> left.usage_order,
                     current     |-> n ]
    BY <1>3
  <2> DEFINE moved == [m EXCEPT !.current = n]
  <2>2. /\ moved.buffers = m.buffers /\ moved.usage_order = m.usage_order
        /\ moved.current = n
        /\ moved = [ buffers     |-> moved.buffers,
                     usage_order |-> moved.usage_order,
                     current     |-> moved.current ]
    BY DEF ManagerCore, IsManager
  <2> HIDE DEF moved
  <2>3. ManagerCore(moved)
    BY <1>1, <2>2
    DEF ManagerCore, IsManager, BuffersOK, CurrentIsOpen, UniqueUsage,
        ListedAreOpen, Open
  <2>4. m2 = Drop(moved, name)
    BY <1>1, <2>1, <2>2 DEF Drop, Open
  <2>5. name \in Open(moved) /\ name # moved.current
    BY <1>1, <2>2 DEF Open
  <2> QED
    BY <2>3, <2>4, <2>5, DropCore
<1>4. CASE m.current # name /\ m2 = left
  BY <1>1, <1>4, DropCore
<1> QED
  BY <1>2, <1>3, <1>4 DEF Erased

-----------------------------------------------------------------------------
(***************************************************************************)
(* Files of procedures.                                                    *)
(***************************************************************************)

\* Leaving a buffer that is not disposable drops nothing.
LEMMA EnteredFrom ==
    ASSUME NEW m, ManagerCore(m), ~Transient(m, m.current), NEW name \in Names
    PROVE  LET arrived == CreateOrSelect(m, name)
           IN /\ ManagerCore(arrived)
              /\ Open(arrived) = Open(m) \cup {name}
              /\ arrived.current = name
              /\ \A n \in Open(m) : arrived.buffers[n] = m.buffers[n]
<1> DEFINE made == GetOrCreate(m, name)
<1>1. /\ ManagerCore(made) /\ Open(made) = Open(m) \cup {name}
      /\ \A n \in Open(m) : made.buffers[n] = m.buffers[n]
  BY GetOrCreateCore
<1>2. CreateOrSelect(m, name) = Select(made, name)
  BY DEF CreateOrSelect
<1> HIDE DEF made
<1>3. /\ ManagerCore(Select(made, name))
      /\ Select(made, name).buffers = made.buffers
      /\ Select(made, name).current = name
  BY <1>1, SelectCore
<1> QED
  BY <1>1, <1>2, <1>3 DEF Open

\* From a buffer that is not disposable, loading a file changes the buffer it
\* is loaded into and ends in the buffer it began in.
LEMMA LoadScriptEffect ==
    ASSUME NEW m, ManagerCore(m), ~Transient(m, m.current),
           NEW name \in Names, name # m.current,
           NEW file \in Files, disk \in [Files -> {Absent, Unreadable} \cup Image],
           LoadScript(m, file, name)
    PROVE  /\ ManagerCore(mgr')
           /\ mgr'.current = m.current
           /\ Open(mgr') = Open(m) \cup {name}
           /\ \A n \in Open(m) \ {name} : mgr'.buffers[n] = m.buffers[n]
           /\ frames' # <<>> =>
                /\ frames' = <<NewFrame(name)'>>
                /\ mgr'.buffers[name].lines = disk[file].lines
<1> DEFINE arrived == CreateOrSelect(m, name)
           b       == CurrentBuffer(arrived)
           loads   == Untouched(b) /\ Decodable(disk[file])
           failed  == ~loads \/ m.current \notin Open(arrived)
           loaded  == Loaded(b, disk[file], file)
           filled  == IF loads THEN PutCurrent(arrived, loaded) ELSE arrived
<1>1. /\ mgr' = Back(filled, m.current, failed)
      /\ \/ ~failed /\ frames' = <<NewFrame(name)'>>
         \/ failed /\ frames' = <<>>
  BY DEF LoadScript
<1>2. /\ ManagerCore(arrived) /\ Open(arrived) = Open(m) \cup {name}
      /\ arrived.current = name
      /\ \A n \in Open(m) : arrived.buffers[n] = m.buffers[n]
  BY EnteredFrom
<1>3. m.current \in Open(m)
  BY DEF ManagerCore, CurrentIsOpen
<1> HIDE DEF arrived
<1>4. /\ ManagerCore(filled) /\ Open(filled) = Open(arrived)
      /\ \A n \in Open(m) \ {name} : filled.buffers[n] = m.buffers[n]
      /\ loads => filled.buffers[name].lines = disk[file].lines
  <2>1. CASE loads
    <3>1. disk[file] \in Image
      BY <2>1 DEF Decodable, IsImage
    <3>2. BufferOK(loaded)
      BY <3>1, LoadedOK
    <3>3. loaded.lines = disk[file].lines
      BY DEF Loaded, LoadFile
    <3> HIDE DEF loaded
    <3>4. /\ ManagerCore(PutCurrent(arrived, loaded))
          /\ CurrentBuffer(PutCurrent(arrived, loaded)) = loaded
          /\ PutCurrent(arrived, loaded).current = arrived.current
          /\ Open(PutCurrent(arrived, loaded)) = Open(arrived)
          /\ \A n \in Open(arrived) \ {arrived.current} :
               PutCurrent(arrived, loaded).buffers[n] = arrived.buffers[n]
      BY <1>2, <3>2, PutCurrentOK
    <3> QED
      BY <1>2, <2>1, <3>3, <3>4 DEF CurrentBuffer
  <2>2. CASE ~loads
    BY <1>2, <2>2
  <2> QED
    BY <2>1, <2>2
<1>5. failed <=> ~loads
  BY <1>2, <1>3
<1> HIDE DEF filled, loads, failed
<1>6. mgr' = Select(filled, m.current)
  BY <1>1, <1>2, <1>3, <1>4 DEF Back
<1>7. /\ ManagerCore(mgr') /\ mgr'.buffers = filled.buffers
      /\ mgr'.current = m.current
  BY <1>2, <1>3, <1>4, <1>6, SelectCore
<1> QED
  BY <1>1, <1>2, <1>4, <1>5, <1>7 DEF Open

\* The runner after a file was loaded, or not.
LEMMA LoadScriptStep ==
    ASSUME RunnerInv, Idle, NEW m, ManagerCore(m), ~Transient(m, m.current),
           NEW name \in Names, name # m.current, NEW file \in Files,
           LoadScript(m, file, name)
    PROVE  RunnerInv'
<1>1. disk \in [Files -> {Absent, Unreadable} \cup Image] /\ TypeOK
  BY DEF RunnerInv, IInv, TypeOK
<1>2. /\ ManagerCore(mgr') /\ Open(mgr') = Open(m) \cup {name}
      /\ frames' # <<>> => frames' = <<NewFrame(name)'>>
  BY <1>1, LoadScriptEffect
<1>3. /\ UNCHANGED <<disk, options, exit, sinks, global, numeric_registers>>
      /\ outcome' \in {"none", "ok", "error"}
      /\ condition' \in BOOLEAN
      /\ answer' \in {"none", "ok", "error", "refused"}
      /\ reported' = NoReport
  BY <1>1 DEF LoadScript, TypeOK
<1>4. counter' \in Int
  <2>1. counter' = counter \/ (Decodable(disk[file]) /\ counter' = Len(disk[file].lines))
    BY DEF LoadScript
  <2>2. Decodable(disk[file]) => Len(disk[file].lines) \in Nat
    BY <1>1, LenProperties DEF Decodable, IsImage, Image
  <2> QED
    BY <1>1, <2>1, <2>2 DEF TypeOK
<1>5. IInv'
  <2>1. ManagerCore(mgr)'
    BY <1>2
  <2> QED
    BY <1>1, <1>3, <1>4, <2>1 DEF RunnerInv, IInv, TypeOK, GlobalPosition, ManagerCore
<1>6. ~Busy'
  BY <1>3 DEF Idle, Busy, Nested
<1>7. StackOK'
  <2>1. CASE frames' = <<>>
    <3>1. Len(frames') = 0 /\ frames' \in Seq(SoundFrame)
      BY <2>1, EmptySeq
    <3> QED
      BY <2>1, <3>1, ProcedureRunnerAssumption
      DEF StackOK, WaitingHaveBegun, Running
  <2>2. CASE frames' # <<>>
    <3>1. mgr'.buffers[name].lines \in Seq(Text)
      BY <1>2 DEF ManagerCore, IsManager, BufferRecord
    <3>2. NewFrame(name)' \in SoundFrame
      BY <3>1, FreshFrameSound DEF NewFrame
    <3> DEFINE frame == NewFrame(name)'
    <3>3. frames' = <<frame>> /\ frame \in SoundFrame
      BY <1>2, <2>2, <3>2
    <3> HIDE DEF frame
    <3>4. frames' \in Seq(SoundFrame) /\ Len(frames') = 1
      BY <3>3
    <3>5. 1 <= MaximumDepth
      BY FrontEndAssumption, ProcedureRunnerAssumption
    <3> QED
      BY <1>6, <3>4, <3>5 DEF StackOK, WaitingHaveBegun
  <2> QED
    BY <2>1, <2>2
<1> QED
  BY <1>3, <1>5, <1>7, NoReportIsReport DEF RunnerInv

-----------------------------------------------------------------------------
(***************************************************************************)
(* The steps of main().                                                    *)
(***************************************************************************)

\* main() changes the buffers, or nothing at all, while it has the control.
LEMMA BuffersOnly ==
    ASSUME RunnerInv, ~Running, ManagerCore(mgr'),
           UNCHANGED <<disk, registers, sinks, global, outcome, runner>>
    PROVE  RunnerInv'
<1>1. IInv'
  <2>1. ManagerCore(mgr)'
    OBVIOUS
  <2> QED
    BY <2>1 DEF RunnerInv, IInv, TypeOK, GlobalPosition, ManagerCore, registers
<1> QED
  BY <1>1 DEF RunnerInv, StackOK, WaitingHaveBegun, Running, runner

\* The runtime goes on while no procedure is in progress.
LEMMA RuntimeOnly ==
    ASSUME RunnerInv, ~Running, IInv', UNCHANGED runner
    PROVE  RunnerInv'
BY DEF RunnerInv, StackOK, WaitingHaveBegun, Running, runner

\* A step to a stage that relies on nothing.
LEMMA FreeStage ==
    ASSUME FrontInv, RunnerInv', stage' \in {"prompt", "ended"},
           typed' \in Seq(Step), status' \in {0, 1}, UNCHANGED start
    PROVE  FrontInv'
BY DEF FrontInv, StartUp, ProcedureStartsClean, Stages

LEMMA EnterPrompt ==
    ASSUME FrontInv, RunnerInv', Enter("prompt")
    PROVE  FrontInv'
BY FreeStage DEF FrontInv, Enter

LEMMA EndStage ==
    ASSUME FrontInv, RunnerInv', NEW code \in {0, 1}, End(code)
    PROVE  FrontInv'
BY FreeStage, EmptySeq DEF FrontInv, End

LEMMA BeginPromptStep ==
    ASSUME FrontInv, BeginPrompt
    PROVE  FrontInv'
BY RunnerUnchanged, EnterPrompt DEF FrontInv, BeginPrompt

LEMMA BootstrapStep ==
    ASSUME FrontInv, Bootstrap
    PROVE  FrontInv'
<1>1. /\ RunnerInv /\ Idle /\ mgr = InitialManager /\ start.request # NoRequest
      /\ UNCHANGED <<disk, registers, sinks, global, outcome, runner>>
  BY DEF FrontInv, StartUp, Bootstrap
<1>2. ManagerCore(mgr) /\ Open(mgr) = {Zero}
  BY <1>1, InitialManagerOK, ManagerParts DEF InitialManager, Open
<1>3. CASE mgr' = Bootstrapped(mgr) /\ Enter("init")
  <2>1. /\ ManagerCore(mgr') /\ Open(mgr') = {Zero} \cup SpecialBuffers
        /\ mgr'.current = UserBuffer /\ ~IsEmpty(mgr'.buffers[UserBuffer])
    BY <1>2, <1>3, BootstrappedCore
  <2>2. RunnerInv'
    BY <1>1, <2>1, BuffersOnly DEF Idle
  <2>3. Idle'
    BY <1>1 DEF Idle, Running, Busy, Nested, runner
  <2>4. InitBuffer \notin Open(mgr')
    BY <2>1, StartUpNames
  <2> QED
    BY <1>1, <1>3, <2>1, <2>2, <2>3, <2>4
    DEF FrontInv, StartUp, ProcedureStartsClean, Enter, Stages
<1>4. CASE End(1) /\ UNCHANGED mgr
  <2>1. RunnerInv'
    BY <1>1, <1>2, <1>4, BuffersOnly DEF Idle
  <2> QED
    BY <1>4, <2>1, EndStage
<1> QED
  BY <1>3, <1>4 DEF Bootstrap

LEMMA SkipInitStep ==
    ASSUME FrontInv, SkipInit
    PROVE  FrontInv'
<1>1. stage = "init" /\ Enter("parameters") /\ UNCHANGED allvars
  BY DEF SkipInit
<1>2. RunnerInv'
  BY <1>1, RunnerUnchanged DEF FrontInv
<1>3. Idle' /\ InitBuffer \notin Open(mgr')
  BY <1>1 DEF FrontInv, StartUp, Idle, Running, Busy, Nested, allvars, vars, runner
<1> QED
  BY <1>1, <1>2, <1>3 DEF FrontInv, StartUp, ProcedureStartsClean, Enter, Stages

LEMMA RefuseInitStep ==
    ASSUME FrontInv, RefuseInit
    PROVE  FrontInv'
BY RunnerUnchanged, EndStage DEF FrontInv, RefuseInit

LEMMA LoadInitFrom ==
    ASSUME FrontInv, LoadInit
    PROVE  /\ Idle /\ ManagerCore(mgr) /\ ~Transient(mgr, mgr.current)
           /\ InitBuffer \in Names /\ InitBuffer # mgr.current
           /\ start.init.file \in Files
           /\ LoadScript(mgr, start.init.file, InitBuffer)
<1>1. stage = "init" /\ start.init # NoInit
      /\ LoadScript(mgr, start.init.file, InitBuffer)
  BY DEF LoadInit
<1>2. Idle /\ mgr.current = UserBuffer /\ ~IsEmpty(mgr.buffers[UserBuffer])
  BY <1>1 DEF FrontInv, StartUp
<1>3. ~Transient(mgr, mgr.current)
  BY <1>2 DEF Transient
<1>4. start.init.file \in Files
  BY <1>1 DEF FrontInv, Start, InitLocation
<1> QED
  BY <1>1, <1>2, <1>3, <1>4, StartUpNames DEF FrontInv, RunnerInv, IInv

LEMMA LoadInitStep ==
    ASSUME FrontInv, LoadInit
    PROVE  FrontInv'
<1>1. RunnerInv'
  BY LoadInitFrom, LoadScriptStep DEF FrontInv
<1> QED
  BY <1>1 DEF LoadInit, FrontInv, StartUp, ProcedureStartsClean, Enter, Stages

LEMMA EndInitStep ==
    ASSUME FrontInv, EndInit
    PROVE  FrontInv'
<1>1. /\ Idle /\ mgr' \in WithoutInit(mgr) /\ RunnerInv /\ ManagerCore(mgr)
      /\ start.request # NoRequest
      /\ UNCHANGED <<disk, registers, sinks, global, outcome, runner>>
  BY DEF EndInit, FrontInv, StartUp, RunnerInv, IInv
<1>2. ManagerCore(mgr') /\ InitBuffer \notin Open(mgr')
  <2>1. CASE InitBuffer \in Open(mgr)
    BY <1>1, <2>1, ErasedCore, StartUpNames DEF WithoutInit
  <2>2. CASE InitBuffer \notin Open(mgr)
    BY <1>1, <2>2 DEF WithoutInit
  <2> QED
    BY <2>1, <2>2
<1>3. RunnerInv'
  BY <1>1, <1>2, BuffersOnly DEF Idle
<1>4. CASE End(0) \/ End(1)
  BY <1>3, <1>4, EndStage
<1>5. CASE Enter("parameters")
  <2>1. Idle'
    BY <1>1 DEF Idle, Running, Busy, Nested, runner
  <2> QED
    BY <1>1, <1>2, <1>3, <1>5, <2>1
    DEF FrontInv, StartUp, ProcedureStartsClean, Enter, Stages
<1> QED
  BY <1>4, <1>5 DEF EndInit

LEMMA PassParametersStep ==
    ASSUME FrontInv, PassParameters
    PROVE  FrontInv'
<1>1. /\ Idle /\ RunnerInv /\ ManagerCore(mgr) /\ InitBuffer \notin Open(mgr)
      /\ start \in Start /\ start.request # NoRequest
      /\ UNCHANGED <<disk, registers, sinks, global, outcome, runner>>
  BY DEF PassParameters, FrontInv, StartUp, RunnerInv, IInv
<1>2. CASE /\ Untouched(GetOrCreate(mgr, Zero).buffers[Zero])
           /\ mgr' = WithParameters(mgr)
           /\ Enter("procedure") \/ End(1)
  <2>1. /\ ManagerCore(mgr') /\ Open(mgr') = Open(mgr) \cup {Zero}
        /\ mgr'.buffers[Zero].lines = start.parameters
    BY <1>1, <1>2, WithParametersCore
  <2>2. RunnerInv'
    BY <1>1, <2>1, BuffersOnly DEF Idle
  <2>3. CASE End(1)
    BY <2>2, <2>3, EndStage
  <2>4. CASE Enter("procedure")
    <3>1. Idle'
      BY <1>1 DEF Idle, Running, Busy, Nested, runner
    <3>2. InitBuffer \notin Open(mgr') /\ Zero \in Open(mgr')
      BY <1>1, <2>1, StartUpNames
    <3> QED
      BY <1>1, <2>1, <2>2, <2>4, <3>1, <3>2
      DEF FrontInv, StartUp, ProcedureStartsClean, Enter, Stages
  <2> QED
    BY <1>2, <2>3, <2>4
<1>3. CASE UNCHANGED mgr /\ End(1)
  <2>1. RunnerInv'
    BY <1>1, <1>3, BuffersOnly DEF Idle
  <2> QED
    BY <1>3, <2>1, EndStage
<1> QED
  BY <1>2, <1>3 DEF PassParameters

\* The procedure is loaded from buffer 0, which is never disposable.
LEMMA LoadProcedureFrom ==
    ASSUME FrontInv, LoadProcedure
    PROVE  /\ Idle /\ ScriptBuffer \in Names /\ ScriptBuffer # Zero
           /\ ManagerCore(AtZero(mgr)) /\ ~Transient(AtZero(mgr), Zero)
           /\ AtZero(mgr).current = Zero /\ AtZero(mgr).buffers = mgr.buffers
           /\ \E file \in Resolved :
                file \in Files /\ LoadScript(AtZero(mgr), file, ScriptBuffer)
<1>1. stage = "procedure" /\ ManagerCore(mgr)
  BY DEF LoadProcedure, FrontInv, RunnerInv, IInv
<1>2. Idle /\ Zero \in Open(mgr) /\ start \in Start /\ start.request # NoRequest
  BY <1>1 DEF FrontInv, StartUp
<1>3. /\ ManagerCore(AtZero(mgr)) /\ AtZero(mgr).current = Zero
      /\ AtZero(mgr).buffers = mgr.buffers
  BY <1>1, <1>2, SelectCore DEF AtZero
<1>4. ~Transient(AtZero(mgr), Zero)
  BY DEF Transient
<1>5. PICK file \in Resolved : LoadScript(AtZero(mgr), file, ScriptBuffer)
  BY DEF LoadProcedure
<1>6. file \in Files
  <2> DEFINE files == Candidates[start.request]
  <2>1. files \in Seq(Files)
    BY <1>2, FrontEndAssumption DEF Start
  <2>2. PICK i \in 1 .. Len(files) : file = files[i]
    BY <1>5 DEF Resolved, First
  <2> QED
    BY <2>1, <2>2, ElementOfSeq
<1> QED
  BY <1>2, <1>3, <1>4, <1>5, <1>6, StartUpNames

LEMMA LoadProcedureStep ==
    ASSUME FrontInv, LoadProcedure
    PROVE  FrontInv'
<1>1. /\ Idle /\ ScriptBuffer \in Names /\ ScriptBuffer # Zero
      /\ ManagerCore(AtZero(mgr)) /\ ~Transient(AtZero(mgr), Zero)
      /\ AtZero(mgr).current = Zero /\ AtZero(mgr).buffers = mgr.buffers
  BY LoadProcedureFrom
<1>2. PICK file \in Resolved :
        file \in Files /\ LoadScript(AtZero(mgr), file, ScriptBuffer)
  BY LoadProcedureFrom
<1>3. stage = "procedure" /\ Enter("in procedure")
  BY DEF LoadProcedure
<1>4. RunnerInv'
  BY <1>1, <1>2, LoadScriptStep DEF FrontInv
<1>5. /\ disk' = disk /\ start' = start
      /\ Zero \in Open(mgr) /\ InitBuffer \notin Open(mgr)
      /\ mgr.buffers[Zero].lines = start.parameters
      /\ disk \in [Files -> {Absent, Unreadable} \cup Image]
  BY <1>2, <1>3 DEF FrontInv, StartUp, RunnerInv, IInv, TypeOK, LoadScript, Enter
<1>6. /\ mgr'.current = Zero
      /\ Open(mgr') = Open(mgr) \cup {ScriptBuffer}
      /\ mgr'.buffers[Zero] = mgr.buffers[Zero]
      /\ frames' # <<>> =>
           /\ frames' = <<NewFrame(ScriptBuffer)'>>
           /\ mgr'.buffers[ScriptBuffer].lines = disk[file].lines
  <2> DEFINE m == AtZero(mgr)
  <2>1. /\ ManagerCore(m) /\ ~Transient(m, m.current) /\ ScriptBuffer # m.current
        /\ LoadScript(m, file, ScriptBuffer) /\ file \in Files
    BY <1>1, <1>2
  <2>2. Open(m) = Open(mgr) /\ m.current = Zero /\ m.buffers = mgr.buffers
    BY <1>1 DEF Open
  <2> HIDE DEF m
  <2>3. /\ mgr'.current = m.current
        /\ Open(mgr') = Open(m) \cup {ScriptBuffer}
        /\ \A n \in Open(m) \ {ScriptBuffer} : mgr'.buffers[n] = m.buffers[n]
        /\ frames' # <<>> =>
             /\ frames' = <<NewFrame(ScriptBuffer)'>>
             /\ mgr'.buffers[ScriptBuffer].lines = disk[file].lines
    BY <1>1, <1>5, <2>1, LoadScriptEffect
  <2> QED
    BY <1>1, <1>5, <2>2, <2>3
<1>7. ProcedureStartsClean'
  <2> SUFFICES ASSUME Running'
               PROVE  /\ mgr'.current = Zero
                      /\ mgr'.buffers[Zero].lines = start'.parameters
                      /\ InitBuffer \notin Open(mgr')
                      /\ \E f \in Resolved' : frames'[1].lines = disk'[f].lines
    BY DEF ProcedureStartsClean
  <2>1. frames'[1].lines = disk[file].lines
    BY <1>6 DEF Running, NewFrame
  <2>2. Resolved' = Resolved
    BY <1>5 DEF Resolved
  <2> QED
    BY <1>2, <1>5, <1>6, <2>1, <2>2, StartUpNames
<1> QED
  BY <1>3, <1>4, <1>7 DEF FrontInv, StartUp, Enter, Stages

LEMMA EndMainStep ==
    ASSUME FrontInv, EndMain
    PROVE  FrontInv'
BY RunnerUnchanged, EnterPrompt, EndStage DEF FrontInv, EndMain

\* What runs has begun a line: the procedure is at its first only before.
LEMMA RunScriptStep ==
    ASSUME FrontInv, RunScript
    PROVE  FrontInv'
<1>1. RunnerInv' /\ FirstHasBegun' /\ UNCHANGED front
  BY RunStep DEF FrontInv, RunScript
<1>2. Running
  BY DEF RunScript, Run, StartLine, RunCommand, ContinueCommand, RunTextCommand,
         RunCall, RunJump, RunOperation, RunMalformed, EndProcedure, At
<1>3. ProcedureStartsClean'
  <2>1. Running' => frames'[1].index # 0
    BY <1>1 DEF FirstHasBegun, BegunFrame, SoundFrame, Frame
  <2> QED
    BY <2>1 DEF ProcedureStartsClean
<1> QED
  BY <1>1, <1>2, <1>3 DEF FrontInv, StartUp, Idle, front

-----------------------------------------------------------------------------
(***************************************************************************)
(* The steps of the prompt.                                                *)
(***************************************************************************)

\* The step a typed line makes, and the steps that are left.
LEMMA TypedSteps ==
    ASSUME FrontInv, typed # <<>>
    PROVE  Head(typed) \in Step /\ Tail(typed) \in Seq(Step)
BY HeadTailProperties DEF FrontInv

LEMMA RestStep ==
    ASSUME FrontInv, stage = "prompt", RunnerInv',
           NEW steps \in Seq(Step), Rest(steps)
    PROVE  FrontInv'
BY FreeStage, EmptySeq DEF FrontInv, Rest

LEMMA TypeLineStep ==
    ASSUME FrontInv, NEW steps \in TypedLines, TypeLine(steps)
    PROVE  FrontInv'
BY RunnerUnchanged, FreeStage, FrontEndAssumption
DEF FrontInv, TypeLine, AtPrompt

LEMMA TypedCommandStep ==
    ASSUME FrontInv, TypedCommand
    PROVE  FrontInv'
<1>1. RunnerInv /\ stage = "prompt" /\ ~Running /\ UNCHANGED runner
      /\ Tail(typed) \in Seq(Step) /\ Rest(Tail(typed))
  BY TypedSteps DEF FrontInv, TypedCommand, Making, AtPrompt, Idle
<1>2. IInv'
  BY <1>1, ExecuteIsNext, NextIInv DEF TypedCommand, RunnerInv
<1> QED
  BY <1>1, <1>2, RuntimeOnly, RestStep

LEMMA TypedTextStep ==
    ASSUME FrontInv, TypedText
    PROVE  FrontInv'
<1>1. RunnerInv /\ stage = "prompt" /\ ~Running /\ UNCHANGED runner
      /\ Tail(typed) \in Seq(Step)
  BY TypedSteps DEF FrontInv, TypedText, Making, AtPrompt, Idle
<1>2. CASE \E block \in Blocks :
              ExecuteText(Head(typed).command, block) /\ Rest(Tail(typed))
  <2>1. IInv'
    BY <1>1, <1>2, ExecuteTextStep, CommandExecutorAssumption DEF RunnerInv
  <2> QED
    BY <1>1, <1>2, <2>1, RuntimeOnly, RestStep
<1>3. CASE End(0) /\ UNCHANGED vars
  <2>1. RunnerInv'
    BY <1>1, <1>3, RunnerUnchanged DEF allvars
  <2> QED
    BY <1>3, <2>1, EndStage
<1> QED
  BY <1>2, <1>3 DEF TypedText

LEMMA TypedCallStep ==
    ASSUME FrontInv, TypedCall
    PROVE  FrontInv'
<1>1. RunnerInv /\ stage = "prompt" /\ typed # <<>>
      /\ Head(typed).kind = "call" /\ CallProcedure(Head(typed).name)
      /\ typed' = <<>> /\ UNCHANGED <<stage, start, status>>
  BY DEF FrontInv, TypedCall, Making, AtPrompt
<1>2. Head(typed).name \in Names
  BY <1>1, TypedSteps DEF Step
<1>3. RunnerInv'
  BY <1>1, <1>2, CallProcedureStep
<1> QED
  BY <1>1, <1>3, FreeStage, EmptySeq DEF FrontInv

LEMMA TypedErrorStep ==
    ASSUME FrontInv, TypedError
    PROVE  FrontInv'
BY RunnerUnchanged, FreeStage, EmptySeq
DEF FrontInv, TypedError, Making, AtPrompt

LEMMA ContinueTypedStep ==
    ASSUME FrontInv, ContinueTyped
    PROVE  FrontInv'
<1>1. IInv'
  BY NextIInv DEF FrontInv, RunnerInv, ContinueTyped
<1> QED
  BY <1>1, RuntimeOnly, RestStep DEF FrontInv, ContinueTyped

LEMMA LeavePromptStep ==
    ASSUME FrontInv, LeavePrompt \/ EndOfInput
    PROVE  FrontInv'
BY RunnerUnchanged, EndStage DEF FrontInv, LeavePrompt, EndOfInput

-----------------------------------------------------------------------------
(***************************************************************************)
(* The theorems.                                                           *)
(***************************************************************************)

LEMMA FrontInitInv == FrontEndInit => FrontInv
<1> SUFFICES ASSUME FrontEndInit PROVE FrontInv
  OBVIOUS
<1>1. RunnerInv
  BY RunnerInitInv DEF FrontEndInit
<1>2. mgr = InitialManager /\ Open(InitialManager) = {Zero}
  BY FrontEndAssumption DEF FrontEndInit, RunnerInit, InitialManager, Open
<1>3. Idle
  BY DEF FrontEndInit, RunnerInit, Idle, Running, Busy, Nested
<1> QED
  BY <1>1, <1>2, <1>3, StartUpNames, FrontEndAssumption, EmptySeq
  DEF FrontEndInit, FrontInv, StartUp, ProcedureStartsClean, Stages

LEMMA FrontNextInv == FrontInv /\ [FrontEndNext]_process => FrontInv'
<1> SUFFICES ASSUME FrontInv, [FrontEndNext]_process PROVE FrontInv'
  OBVIOUS
<1>1. CASE UNCHANGED process
  <2>1. RunnerInv'
    BY <1>1, RunnerUnchanged DEF process, FrontInv
  <2> QED
    BY <1>1, <2>1
    DEF process, front, allvars, vars, runner, registers, FrontInv, StartUp,
        Idle, Running, Busy, Nested, ProcedureStartsClean, Resolved
<1>2. CASE BeginPrompt \/ Bootstrap \/ SkipInit \/ RefuseInit \/ LoadInit \/ EndInit
  BY <1>2, BeginPromptStep, BootstrapStep, SkipInitStep, RefuseInitStep,
     LoadInitStep, EndInitStep
<1>3. CASE PassParameters \/ LoadProcedure \/ EndMain \/ RunScript
  BY <1>3, PassParametersStep, LoadProcedureStep, EndMainStep, RunScriptStep
<1>4. CASE TypedCommand \/ TypedCall \/ TypedError \/ ContinueTyped \/ LeavePrompt
           \/ TypedText \/ EndOfInput \/ \E steps \in TypedLines : TypeLine(steps)
  BY <1>4, TypedCommandStep, TypedCallStep, TypedErrorStep, ContinueTypedStep,
     LeavePromptStep, TypedTextStep, TypeLineStep
<1> QED
  BY <1>1, <1>2, <1>3, <1>4 DEF FrontEndNext, Proceed

LEMMA FrontInvariance == FrontEndSpec => []FrontInv
BY FrontInitInv, FrontNextInv, PTL DEF FrontEndSpec

\* From its start to its end the state of the process keeps its type.
THEOREM FrontEndTypeCorrect == FrontEndSpec => []FrontEndTypeOK
<1>1. FrontInv => FrontEndTypeOK
  BY RunnerInvType DEF FrontInv, FrontEndTypeOK
<1> QED
  BY <1>1, FrontInvariance, PTL

\* The buffers, the cursors, the marks and the list of the used buffers are
\* sound in every state of the process, the loading and the removing of the
\* start-up included, and its procedures are those of the runner.
THEOREM FrontEndRuntimeSafe ==
    FrontEndSpec => [](/\ CursorsInBuffers /\ CleanBuffersAreSaved
                       /\ CurrentBufferIsOpen /\ UsageListIsSound
                       /\ DepthIsLimited /\ ProceduresRunTheirSnapshot)
<1>1. FrontInv => /\ CursorsInBuffers /\ CleanBuffersAreSaved
                  /\ CurrentBufferIsOpen /\ UsageListIsSound
  BY DEF FrontInv, RunnerInv, IInv, ManagerCore, BuffersOK, BufferOK,
         CursorsInBuffers, CleanBuffersAreSaved, CurrentBufferIsOpen,
         UsageListIsSound
<1>2. FrontInv => DepthIsLimited
  BY DEF FrontInv, RunnerInv, StackOK, DepthIsLimited
<1>3. FrontInv => ProceduresRunTheirSnapshot
  BY RunnerInvSnapshot DEF FrontInv
<1> QED
  BY <1>1, <1>2, <1>3, FrontInvariance, PTL

\* The current buffer of the process is always one of its buffers, although
\* the start-up removes the one the init file ran in.
THEOREM FrontEndCurrentNeverDangles == FrontEndSpec => []CurrentBufferIsOpen
BY FrontEndRuntimeSafe, PTL

\* Whatever the init file did, the procedure of the command line begins in
\* buffer 0, with the arguments there and the buffer of the init file gone.
THEOREM ProceduresBeginClean == FrontEndSpec => []ProcedureStartsClean
<1>1. FrontInv => ProcedureStartsClean
  BY DEF FrontInv
<1> QED
  BY <1>1, FrontInvariance, PTL

\* The loading of a file of procedures, done or failed, changes no buffer but
\* the one it is loaded into, and ends where it began.
THEOREM LoadsAreClean == FrontEndSpec => LoadsDisturbNothing
<1> DEFINE Clean ==
             /\ mgr'.current # ScriptOf
             /\ \A n \in Open(mgr) \ {ScriptOf} :
                  n \in Open(mgr') /\ mgr'.buffers[n] = mgr.buffers[n]
<1>1. ASSUME FrontInv, LoadInit
      PROVE  Clean
  <2>1. ScriptOf = InitBuffer
    BY <1>1 DEF LoadInit, ScriptOf
  <2>2. disk \in [Files -> {Absent, Unreadable} \cup Image]
    BY <1>1 DEF FrontInv, RunnerInv, IInv, TypeOK
  <2>3. /\ mgr'.current = mgr.current
        /\ Open(mgr') = Open(mgr) \cup {InitBuffer}
        /\ \A n \in Open(mgr) \ {InitBuffer} : mgr'.buffers[n] = mgr.buffers[n]
    BY <1>1, <2>2, LoadInitFrom, LoadScriptEffect
  <2> QED
    BY <1>1, <2>1, <2>3, LoadInitFrom
<1>2. ASSUME FrontInv, LoadProcedure
      PROVE  Clean
  <2>1. ScriptOf = ScriptBuffer
    BY <1>2 DEF LoadProcedure, ScriptOf
  <2>2. disk \in [Files -> {Absent, Unreadable} \cup Image]
    BY <1>2 DEF FrontInv, RunnerInv, IInv, TypeOK
  <2> DEFINE m == AtZero(mgr)
  <2>3. /\ ScriptBuffer \in Names /\ ScriptBuffer # Zero
        /\ ManagerCore(m) /\ ~Transient(m, m.current)
        /\ m.current = Zero /\ m.buffers = mgr.buffers /\ Open(m) = Open(mgr)
        /\ \E file \in Files : LoadScript(m, file, ScriptBuffer)
    BY <1>2, LoadProcedureFrom DEF Open
  <2> HIDE DEF m
  <2>4. PICK file \in Files : LoadScript(m, file, ScriptBuffer)
    BY <2>3
  <2>5. /\ mgr'.current = m.current
        /\ Open(mgr') = Open(m) \cup {ScriptBuffer}
        /\ \A n \in Open(m) \ {ScriptBuffer} : mgr'.buffers[n] = m.buffers[n]
    BY <2>2, <2>3, <2>4, LoadScriptEffect
  <2> QED
    BY <2>1, <2>3, <2>5
<1>3. FrontInv /\ [FrontEndNext]_process
        => [(LoadInit \/ LoadProcedure) => Clean]_process
  BY <1>1, <1>2
<1> QED
  BY <1>3, FrontInvariance, PTL DEF FrontEndSpec, LoadsDisturbNothing
===============================================================================
