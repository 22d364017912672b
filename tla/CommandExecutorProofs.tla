----------------------- MODULE CommandExecutorProofs -----------------------
(***************************************************************************)
(* The safety of the runtime, for every set of lines, names, files,        *)
(* addresses, patterns and substitutions, and for every size of size_t.    *)
(*                                                                         *)
(* The inductive invariant, IInv, is the type invariant together with what *)
(* the manager satisfies between two commands (ManagerCore) and the        *)
(* position of the loop of G, without which the line it deletes might not  *)
(* exist.  That no disposable buffer is left behind is inductive relative  *)
(* to IInv and stands apart, since a front end need not keep it; so does   *)
(* GlobalInv, which says what the loop of G has done to its lines.         *)
(***************************************************************************)
EXTENDS CommandExecutor, BufferManagerProofs, Recursion

GlobalPosition == global # NoGlobal => global.line >= 1

IInv == TypeOK /\ ManagerCore(mgr) /\ GlobalPosition

-----------------------------------------------------------------------------
(***************************************************************************)
(* Addresses denote lines of the buffer they are evaluated against.        *)
(***************************************************************************)

LEMMA EvaluateInBuffer ==
    ASSUME NEW a, NEW b, BufferOK(b), NEW r \in Evaluate(a, b)
    PROVE  /\ LineCount(b) \in Nat
           /\ r.first \in 1 .. LineCount(b)
           /\ r.last \in r.first .. LineCount(b)
<1>1. LineCount(b) \in Nat
  BY LenProperties DEF LineCount, BufferOK, BufferRecord
<1>2. r \in LineRange(b) /\ r.first <= r.last
  <2>1. CASE a.kind = "none"
    BY <1>1, <2>1 DEF Evaluate, LineRange
  <2>2. CASE a.kind = "range"
    BY <1>1, <2>2 DEF Evaluate, EvaluateRange
  <2>3. CASE a.kind # "none" /\ a.kind # "range"
    BY <1>1, <2>3 DEF Evaluate, LineRange
  <2> QED
    BY <2>1, <2>2, <2>3
<1> QED
  BY <1>1, <1>2 DEF LineRange

LEMMA SingleLinesInBuffer ==
    ASSUME NEW a, NEW b, BufferOK(b), NEW n \in SingleLines(a, b)
    PROVE  n \in 1 .. LineCount(b)
BY EvaluateInBuffer DEF SingleLines

LEMMA InsertionPositionsInBuffer ==
    ASSUME NEW a, NEW b, BufferOK(b), NEW n \in InsertionPositions(a, b)
    PROVE  n \in 0 .. LineCount(b)
<1>1. LineCount(b) \in Nat
  BY LenProperties DEF LineCount, BufferOK, BufferRecord
<1>2. CASE a.kind = "range"
  BY <1>2 DEF InsertionPositions
<1>3. CASE a.kind = "absolute" /\ a.line = 0
  BY <1>1, <1>3 DEF InsertionPositions
<1>4. CASE a.kind # "range" /\ ~(a.kind = "absolute" /\ a.line = 0)
  <2>1. PICK r \in Evaluate(a, b) : n = r.first
    BY <1>4 DEF InsertionPositions
  <2> QED
    BY <1>1, <2>1, EvaluateInBuffer
<1> QED
  BY <1>2, <1>3, <1>4

LEMMA AppendPositionsInBuffer ==
    ASSUME NEW a, NEW b, BufferOK(b), NEW n \in AppendPositions(a, b)
    PROVE  n \in 0 .. LineCount(b)
<1>1. LineCount(b) \in Nat
  BY LenProperties DEF LineCount, BufferOK, BufferRecord
<1> QED
  BY <1>1, InsertionPositionsInBuffer DEF AppendPositions

LEMMA InsertPositionsInBuffer ==
    ASSUME NEW a, NEW b, BufferOK(b), NEW n \in InsertPositions(a, b)
    PROVE  n \in 0 .. LineCount(b)
<1>1. LineCount(b) \in Nat
  BY LenProperties DEF LineCount, BufferOK, BufferRecord
<1>2. CASE a = NoAddress
  BY <1>1, <1>2 DEF InsertPositions
<1>3. CASE a # NoAddress
  <2>1. PICK p \in InsertionPositions(a, b) : n = IF p = 0 THEN 0 ELSE p - 1
    BY <1>3 DEF InsertPositions
  <2> QED
    BY <1>1, <2>1, InsertionPositionsInBuffer
<1> QED
  BY <1>2, <1>3

\* The text an address designates, when there is one, is not empty.
LEMMA AddressedText ==
    ASSUME NEW a, NEW b, BufferOK(b), NEW r \in Evaluate(a, b)
    PROVE  /\ SubSeq(b.lines, r.first, r.last) \in Seq(Text)
           /\ SubSeq(b.lines, r.first, r.last) # <<>>
<1>1. /\ b.lines \in Seq(Text) /\ Len(b.lines) \in Nat
      /\ r.first \in 1 .. Len(b.lines) /\ r.last \in r.first .. Len(b.lines)
  BY EvaluateInBuffer, LenProperties DEF BufferOK, BufferRecord, LineCount
<1> DEFINE part == SubSeq(b.lines, r.first, r.last)
<1>2. part \in Seq(Text) /\ Len(part) = r.last - r.first + 1
  BY <1>1, PartOfSeq
<1> HIDE DEF part
<1>3. part # <<>>
  BY <1>1, <1>2, EmptyByLength
<1> QED
  BY <1>2, <1>3 DEF part

-----------------------------------------------------------------------------
(***************************************************************************)
(* Captures: what a command prints keeps the type of the stack of sinks.   *)
(***************************************************************************)

LEMMA FilledCapture ==
    ASSUME NEW c \in Capture, NEW printed \in Seq(Text)
    PROVE  Filled(c, printed) \in Capture
<1>1. c.text \o printed \in Seq(Text)
  BY TwoParts DEF Capture
<1> QED
  BY <1>1 DEF Filled, Capture

LEMMA AnsweredCapture ==
    ASSUME NEW c \in Capture, NEW result \in {"ok", "error"}
    PROVE  Answered(c, result) \in Capture
BY DEF Answered, Capture

LEMMA TopOfStack ==
    ASSUME NEW stack \in Seq(Capture), stack # <<>>
    PROVE  Len(stack) \in 1 .. Len(stack) /\ stack[Len(stack)] \in Capture
<1>1. Len(stack) \in 1 .. Len(stack)
  BY EmptyByLength
<1> QED
  BY <1>1, ElementOfSeq

LEMMA EmittedType ==
    ASSUME NEW stack \in Seq(Capture), NEW printed \in Seq(Text)
    PROVE  Emitted(stack, printed) \in Seq(Capture)
<1>1. CASE stack = <<>>
  BY <1>1 DEF Emitted
<1>2. CASE stack # <<>>
  <2>1. Len(stack) \in 1 .. Len(stack) /\ stack[Len(stack)] \in Capture
    BY <1>2, TopOfStack
  <2>2. Filled(stack[Len(stack)], printed) \in Capture
    BY <2>1, FilledCapture
  <2> QED
    BY <1>2, <2>1, <2>2, ExceptSeq DEF Emitted
<1> QED
  BY <1>1, <1>2

SinksOK == sinks \in Seq(Capture) /\ outcome \in {"none", "ok", "error"}

LEMMA CompleteInType ==
    ASSUME NEW stack, stack \in Seq(Capture), NEW printed, printed \in Seq(Text),
           NEW result, result \in {"ok", "error"},
           outcome \in {"none", "ok", "error"},
           CompleteIn(stack, printed, result)
    PROVE  SinksOK'
<1>1. CASE stack = <<>>
  BY <1>1, EmptySeq DEF CompleteIn, SinksOK
<1>2. CASE stack # <<>>
  <2>1. Len(stack) \in 1 .. Len(stack) /\ stack[Len(stack)] \in Capture
    BY <1>2, TopOfStack
  <2>2. Filled(stack[Len(stack)], printed) \in Capture
    BY <2>1, FilledCapture
  <2>3. Answered(Filled(stack[Len(stack)], printed), result) \in Capture
    BY <2>2, AnsweredCapture
  <2>4. /\ sinks' = [stack EXCEPT ![Len(stack)] =
                       Answered(Filled(stack[Len(stack)], printed), result)]
        /\ outcome' = outcome
    BY <1>2 DEF CompleteIn
  <2>5. sinks' \in Seq(Capture)
    BY <2>1, <2>3, <2>4, ExceptSeq
  <2> QED
    BY <2>4, <2>5 DEF SinksOK
<1> QED
  BY <1>1, <1>2

LEMMA CompleteType ==
    ASSUME TypeOK, NEW printed, printed \in Seq(Text), Complete(printed)
    PROVE  SinksOK'
BY CompleteInType DEF Complete, TypeOK

LEMMA FailType ==
    ASSUME TypeOK, Fail
    PROVE  SinksOK'
BY CompleteInType, EmptySeq DEF Fail, TypeOK

\* The current buffer is sound, and its lines are text.
LEMMA CurOK ==
    ASSUME IInv
    PROVE  /\ BufferOK(Cur) /\ ManagerCore(mgr)
           /\ Cur.lines \in Seq(Text)
           /\ LineCount(Cur) \in Nat /\ LineCount(Cur) = Len(Cur.lines)
           /\ mgr.current \in Names /\ mgr.current \in Open(mgr)
<1>1. BufferOK(Cur)
  BY DEF IInv, ManagerCore, BuffersOK, CurrentIsOpen, Cur, CurrentBuffer
<1> QED
  BY <1>1, LenProperties
  DEF IInv, ManagerCore, IsManager, CurrentIsOpen, BufferOK, BufferRecord, LineCount

\* A step that only touches buffers and sinks preserves the invariant when
\* the manager it leaves is sound.
LEMMA BufferStep ==
    ASSUME IInv, ManagerCore(mgr)', SinksOK', UNCHANGED <<disk, registers, global>>
    PROVE  IInv'
BY DEF IInv, TypeOK, ManagerCore, SinksOK, GlobalPosition, registers

\* A command that fails, or prints and changes nothing else.
LEMMA QuietStep ==
    ASSUME IInv, SinksOK', UNCHANGED <<mgr, disk, registers, global>>
    PROVE  IInv'
BY DEF IInv, TypeOK, ManagerCore, SinksOK, GlobalPosition, registers

-----------------------------------------------------------------------------
(***************************************************************************)
(* The commands, one by one.                                               *)
(***************************************************************************)

LEMMA PrintStep ==
    ASSUME IInv, PrintLines
    PROVE  IInv'
<1>1. PICK a \in TypedAddresses :
        \/ \E r \in Evaluate(a, Cur) :
             /\ mgr' = PutCurrent(mgr, SetCurrentLine(Cur, r.last))
             /\ Complete(SubSeq(Cur.lines, r.first, r.last))
        \/ Fail /\ UNCHANGED mgr
  BY DEF PrintLines
<1>2. UNCHANGED <<disk, registers, global>> /\ TypeOK
  BY DEF PrintLines, IInv
<1>3. CASE Fail /\ UNCHANGED mgr
  BY <1>2, <1>3, FailType, QuietStep
<1>4. ASSUME NEW r \in Evaluate(a, Cur),
             mgr' = PutCurrent(mgr, SetCurrentLine(Cur, r.last)),
             Complete(SubSeq(Cur.lines, r.first, r.last))
      PROVE  IInv'
  <2>1. SubSeq(Cur.lines, r.first, r.last) \in Seq(Text)
    BY CurOK, AddressedText
  <2>2. r.last \in 0 .. LineCount(Cur)
    BY CurOK, EvaluateInBuffer
  <2>3. ManagerCore(mgr)'
    BY <1>4, <2>2, CurOK, SetCurrentLineOK, PutCurrentOK
  <2> QED
    BY <1>2, <1>4, <2>1, <2>3, CompleteType, BufferStep
<1> QED
  BY <1>1, <1>3, <1>4

LEMMA DeleteStep ==
    ASSUME IInv, Delete
    PROVE  IInv'
<1>1. PICK a \in TypedAddresses :
        \/ \E r \in Evaluate(a, Cur) :
             /\ mgr' = PutCurrent(mgr, Erase(Cur, r.first, r.last))
             /\ Complete(<<>>)
        \/ Fail /\ UNCHANGED mgr
  BY DEF Delete
<1>2. UNCHANGED <<disk, registers, global>> /\ TypeOK
  BY DEF Delete, IInv
<1>3. CASE Fail /\ UNCHANGED mgr
  BY <1>2, <1>3, FailType, QuietStep
<1>4. ASSUME NEW r \in Evaluate(a, Cur),
             mgr' = PutCurrent(mgr, Erase(Cur, r.first, r.last)),
             Complete(<<>>)
      PROVE  IInv'
  <2>1. r.first \in 1 .. LineCount(Cur) /\ r.last \in r.first .. LineCount(Cur)
    BY CurOK, EvaluateInBuffer
  <2>2. ManagerCore(mgr)'
    BY <1>4, <2>1, CurOK, EraseOK, PutCurrentOK
  <2> QED
    BY <1>2, <1>4, <2>2, EmptySeq, CompleteType, BufferStep
<1> QED
  BY <1>1, <1>3, <1>4

LEMMA ZapStep ==
    ASSUME IInv, Zap
    PROVE  IInv'
<1>1. PICK a \in TypedAddresses :
        \/ \E n \in SingleLines(a, Cur) :
             /\ mgr' = PutCurrent(mgr, SetCurrentLine(Cur, n))
             /\ Complete(<<>>)
        \/ Fail /\ UNCHANGED mgr
  BY DEF Zap
<1>2. UNCHANGED <<disk, registers, global>> /\ TypeOK
  BY DEF Zap, IInv
<1>3. CASE Fail /\ UNCHANGED mgr
  BY <1>2, <1>3, FailType, QuietStep
<1>4. ASSUME NEW n \in SingleLines(a, Cur),
             mgr' = PutCurrent(mgr, SetCurrentLine(Cur, n)),
             Complete(<<>>)
      PROVE  IInv'
  <2>1. n \in 0 .. LineCount(Cur)
    BY CurOK, SingleLinesInBuffer
  <2>2. ManagerCore(mgr)'
    BY <1>4, <2>1, CurOK, SetCurrentLineOK, PutCurrentOK
  <2> QED
    BY <1>2, <1>4, <2>2, EmptySeq, CompleteType, BufferStep
<1> QED
  BY <1>1, <1>3, <1>4

\* Every command that inserts text at a position of the current buffer.
LEMMA InsertionStep ==
    ASSUME IInv, NEW n, n \in 0 .. LineCount(Cur),
           NEW new, new \in Seq(Text),
           mgr' = PutCurrent(mgr, InsertAfter(Cur, n, new)),
           Complete(<<>>), UNCHANGED <<disk, registers, global>>
    PROVE  IInv'
<1>1. ManagerCore(mgr)'
  BY CurOK, InsertAfterOK, PutCurrentOK
<1>2. SinksOK'
  BY EmptySeq, CompleteType DEF IInv
<1> QED
  BY <1>1, <1>2, BufferStep

LEMMA TransferStep ==
    ASSUME IInv, Transfer
    PROVE  IInv'
<1>1. PICK a \in TypedAddresses, to \in Addresses \ {NoAddress} :
        \/ \E r \in Evaluate(a, Cur), n \in InsertionPositions(to, Cur) :
             /\ mgr' = PutCurrent(mgr, InsertAfter(Cur, n,
                                 SubSeq(Cur.lines, r.first, r.last)))
             /\ Complete(<<>>)
        \/ Fail /\ UNCHANGED mgr
  BY DEF Transfer
<1>2. UNCHANGED <<disk, registers, global>> /\ TypeOK
  BY DEF Transfer, IInv
<1>3. CASE Fail /\ UNCHANGED mgr
  BY <1>2, <1>3, FailType, QuietStep
<1>4. ASSUME NEW r \in Evaluate(a, Cur), NEW n \in InsertionPositions(to, Cur),
             mgr' = PutCurrent(mgr, InsertAfter(Cur, n,
                          SubSeq(Cur.lines, r.first, r.last))),
             Complete(<<>>)
      PROVE  IInv'
  <2>1. SubSeq(Cur.lines, r.first, r.last) \in Seq(Text)
    BY CurOK, AddressedText
  <2>2. n \in 0 .. LineCount(Cur)
    BY CurOK, InsertionPositionsInBuffer
  <2> QED
    BY <1>2, <1>4, <2>1, <2>2, InsertionStep
<1> QED
  BY <1>1, <1>3, <1>4

LEMMA TextInputStep ==
    ASSUME IInv, NEW command, TextInputInsideGather(command)
    PROVE  IInv'
BY FailType, QuietStep DEF TextInputInsideGather, IInv

LEMMA BlocksAreText == \A block \in Blocks : block \in Seq(Text)
BY CommandExecutorAssumption

LEMMA InsertTextStep ==
    ASSUME IInv, NEW block, block \in Seq(Text), NEW positions,
           \A n \in positions : n \in 0 .. LineCount(Cur),
           InsertText(block, positions), UNCHANGED <<disk, registers, global>>
    PROVE  IInv'
<1>1. CASE Fail /\ UNCHANGED mgr
  BY <1>1, FailType, QuietStep DEF IInv
<1>2. ASSUME NEW n \in positions,
             mgr' = PutCurrent(mgr, InsertAfter(Cur, n, block)),
             Complete(<<>>)
      PROVE  IInv'
  BY <1>2, InsertionStep
<1> QED
  BY <1>1, <1>2 DEF InsertText

\* The entry points of A and I, with whatever text their caller collected.
LEMMA ExecuteAppendStep ==
    ASSUME IInv, NEW block, block \in Seq(Text), ExecuteAppend(block)
    PROVE  IInv'
<1>1. PICK a \in Addresses : InsertText(block, AppendPositions(a, Cur))
  BY DEF ExecuteAppend
<1>2. UNCHANGED <<disk, registers, global>>
  BY DEF ExecuteAppend
<1>3. \A n \in AppendPositions(a, Cur) : n \in 0 .. LineCount(Cur)
  BY CurOK, AppendPositionsInBuffer
<1> QED
  BY <1>1, <1>2, <1>3, InsertTextStep

LEMMA ExecuteInsertStep ==
    ASSUME IInv, NEW block, block \in Seq(Text), ExecuteInsert(block)
    PROVE  IInv'
<1>1. PICK a \in Addresses : InsertText(block, InsertPositions(a, Cur))
  BY DEF ExecuteInsert
<1>2. UNCHANGED <<disk, registers, global>>
  BY DEF ExecuteInsert
<1>3. \A n \in InsertPositions(a, Cur) : n \in 0 .. LineCount(Cur)
  BY CurOK, InsertPositionsInBuffer
<1> QED
  BY <1>1, <1>2, <1>3, InsertTextStep

LEMMA AppendTextStep ==
    ASSUME IInv, AppendText
    PROVE  IInv'
BY TextInputStep, BlocksAreText, ExecuteAppendStep DEF AppendText

LEMMA InsertBeforeStep ==
    ASSUME IInv, InsertBefore
    PROVE  IInv'
BY TextInputStep, BlocksAreText, ExecuteInsertStep DEF InsertBefore

LEMMA ChangedOK ==
    ASSUME NEW b, BufferOK(b), NEW a, NEW r \in Evaluate(a, b),
           NEW block \in Seq(Text)
    PROVE  BufferOK(Changed(b, r, block))
<1> DEFINE erased == Erase(b, r.first, r.last)
<1>1. /\ LineCount(b) \in Nat
      /\ r.first \in 1 .. LineCount(b) /\ r.last \in r.first .. LineCount(b)
  BY EvaluateInBuffer
<1>2. /\ BufferOK(erased)
      /\ LineCount(erased) = LineCount(b) - (r.last - r.first + 1)
  BY <1>1, EraseOK
<1> HIDE DEF erased
<1>3. r.first - 1 \in 0 .. LineCount(erased)
  BY <1>1, <1>2
<1>4. BufferOK(InsertAfter(erased, r.first - 1, block))
  BY <1>2, <1>3, InsertAfterOK
<1> QED
  BY <1>2, <1>4 DEF Changed, erased

LEMMA ExecuteChangeStep ==
    ASSUME IInv, NEW block, block \in Seq(Text), ExecuteChange(block)
    PROVE  IInv'
<1>1. PICK a \in Addresses :
        \/ \E r \in Evaluate(a, Cur) :
             /\ mgr' = PutCurrent(mgr, Changed(Cur, r, block))
             /\ Complete(<<>>)
        \/ Fail /\ UNCHANGED mgr
  BY DEF ExecuteChange
<1>2. UNCHANGED <<disk, registers, global>> /\ TypeOK
  BY DEF ExecuteChange, IInv
<1>3. CASE Fail /\ UNCHANGED mgr
  BY <1>2, <1>3, FailType, QuietStep
<1>4. ASSUME NEW r \in Evaluate(a, Cur),
             mgr' = PutCurrent(mgr, Changed(Cur, r, block)),
             Complete(<<>>)
      PROVE  IInv'
  <2>1. BufferOK(Changed(Cur, r, block))
    BY CurOK, ChangedOK
  <2>2. ManagerCore(mgr)'
    BY <1>4, <2>1, CurOK, PutCurrentOK
  <2> QED
    BY <1>2, <1>4, <2>2, EmptySeq, CompleteType, BufferStep
<1> QED
  BY <1>1, <1>3, <1>4

LEMMA ChangeStep ==
    ASSUME IInv, Change
    PROVE  IInv'
BY TextInputStep, BlocksAreText, ExecuteChangeStep DEF Change

\* A substitution turns lines into lines.
LEMMA SubstitutedOK ==
    ASSUME NEW b, BufferOK(b), NEW s \in Substitutions,
           NEW matched, NEW n \in matched,
           matched \subseteq 1 .. LineCount(b),
           \A i \in matched : b.lines[i] \in DOMAIN s
    PROVE  /\ BufferOK(Substituted(b, s, matched, n))
           /\ Substituted(b, s, matched, n).lines \in Seq(Text)
           /\ Substituted(b, s, matched, n).lines[n] \in Text
<1> DEFINE new == [i \in 1 .. Len(b.lines) |->
                     IF i \in matched THEN s[b.lines[i]] ELSE b.lines[i]]
           b2  == Substituted(b, s, matched, n)
<1>1. /\ b \in BufferRecord /\ b.lines \in Seq(Text) /\ Len(b.lines) \in Nat
      /\ n \in 1 .. Len(b.lines) /\ b.modified \in BOOLEAN
  BY LenProperties DEF BufferOK, BufferRecord, LineCount
<1>2. \A t \in DOMAIN s : s[t] \in Text
  BY CommandExecutorAssumption
<1>3. \A i \in 1 .. Len(b.lines) : new[i] \in Text
  <2>1. \A i \in 1 .. Len(b.lines) : b.lines[i] \in Text
    BY <1>1, ElementOfSeq
  <2> QED
    BY <1>2, <2>1
<1>4. new \in [1 .. Len(b.lines) -> Text]
  BY <1>3
<1>5. new \in Seq(Text) /\ Len(new) = Len(b.lines) /\ new[n] \in Text
  <2>1. new \in Seq(Text)
    BY <1>1, <1>4
  <2>2. DOMAIN new = 1 .. Len(b.lines)
    OBVIOUS
  <2>3. Len(new) \in Nat /\ DOMAIN new = 1 .. Len(new)
    BY <2>1, LenProperties
  <2> HIDE DEF new
  <2> QED
    BY <1>1, <1>4, <2>1, <2>2, <2>3
<1>6. b2 = [b EXCEPT !.lines = new, !.current_line = n,
                     !.modified = b.modified \/ new # b.lines]
  BY DEF Substituted
<1> HIDE DEF new, b2
<1>7. n \in Nat
  BY <1>1
<1>8. /\ b2 \in BufferRecord /\ b2.lines = new /\ b2.current_line = n
      /\ b2.saved = b.saved /\ b2.file = b.file
      /\ ~b2.modified => ~b.modified /\ new = b.lines
  BY ONLY <1>1, <1>5, <1>6, <1>7 DEF BufferRecord
<1>9. BufferOK(b2)
  BY <1>1, <1>5, <1>8
  DEF BufferOK, CursorInBuffer, CleanIsSaved, UnfiledIsUnsaved
<1> QED
  BY <1>5, <1>8, <1>9 DEF b2

LEMMA SubstituteStep ==
    ASSUME IInv, Substitute
    PROVE  IInv'
<1>1. PICK a \in TypedAddresses, s \in Substitutions, print_after \in BOOLEAN :
        \/ \E r \in Evaluate(a, Cur) : SubstituteOver(r, s, print_after)
        \/ Fail /\ UNCHANGED <<mgr, condition>>
  BY DEF Substitute
<1>2. UNCHANGED <<disk, counter, options, exit, global>> /\ TypeOK
  BY DEF Substitute, IInv
<1>3. CASE Fail /\ UNCHANGED <<mgr, condition>>
  <2>1. UNCHANGED <<mgr, disk, registers, global>>
    BY <1>2, <1>3 DEF registers
  <2> QED
    BY <1>2, <1>3, <2>1, FailType, QuietStep
<1>4. ASSUME ManagerCore(mgr)', SinksOK', condition' \in BOOLEAN
      PROVE  IInv'
  BY <1>2, <1>4 DEF IInv, TypeOK, ManagerCore, SinksOK, GlobalPosition
<1>5. ASSUME NEW r \in Evaluate(a, Cur), SubstituteOver(r, s, print_after)
      PROVE  IInv'
  <2>1. CASE MatchedLines(s, r, Cur) = {}
    <3>1. condition' = FALSE /\ Fail /\ mgr' = mgr
      BY <1>5, <2>1 DEF SubstituteOver
    <3>2. SinksOK'
      BY <1>2, <3>1, FailType
    <3> QED
      BY <1>4, <3>1, <3>2, CurOK
  <2>2. CASE MatchedLines(s, r, Cur) # {}
    <3>1. PICK n \in MatchedLines(s, r, Cur) :
            LET new == Substituted(Cur, s, MatchedLines(s, r, Cur), n)
            IN /\ mgr' = PutCurrent(mgr, new)
               /\ condition' = TRUE
               /\ Complete(IF print_after THEN <<new.lines[n]>> ELSE <<>>)
      BY <1>5, <2>2 DEF SubstituteOver
    <3> DEFINE matched == MatchedLines(s, r, Cur)
               new     == Substituted(Cur, s, matched, n)
    <3>2. /\ r.first \in 1 .. LineCount(Cur) /\ r.last \in r.first .. LineCount(Cur)
          /\ LineCount(Cur) \in Nat
      BY CurOK, EvaluateInBuffer
    <3>3. matched \subseteq 1 .. LineCount(Cur)
      BY <3>2 DEF MatchedLines
    <3>4. \A i \in matched : Cur.lines[i] \in DOMAIN s
      BY DEF MatchedLines
    <3>5. n \in matched /\ BufferOK(Cur)
      BY CurOK
    <3>6. /\ mgr' = PutCurrent(mgr, new) /\ condition' = TRUE
          /\ Complete(IF print_after THEN <<new.lines[n]>> ELSE <<>>)
      BY <3>1
    <3>7. BufferOK(new) /\ new.lines[n] \in Text
      <4> HIDE DEF matched
      <4> QED
        BY <3>3, <3>4, <3>5, SubstitutedOK
    <3> HIDE DEF new
    <3>8. ManagerCore(mgr)'
      BY <3>6, <3>7, CurOK, PutCurrentOK
    <3>9. (IF print_after THEN <<new.lines[n]>> ELSE <<>>) \in Seq(Text)
      BY <3>7, EmptySeq
    <3>10. SinksOK'
      BY <1>2, <3>6, <3>9, CompleteType
    <3> QED
      BY <1>4, <3>6, <3>8, <3>10
  <2> QED
    BY <2>1, <2>2
<1> QED
  BY <1>1, <1>3, <1>5

\* A buffer that M refilled is sound, and leaving it would not drop it.
LEMMA RefilledOK ==
    ASSUME NEW b, BufferOK(b), NEW new \in Seq(Text), new # <<>>
    PROVE  BufferOK(Refilled(b, new)) /\ Refilled(b, new).modified
<1>1. Len(b.lines) \in Nat /\ b.lines \in Seq(Text)
  BY LenProperties DEF BufferOK, BufferRecord
<1>2. CASE IsEmpty(b)
  BY <1>2, AppendLinesOK DEF Refilled
<1>3. CASE ~IsEmpty(b)
  <2>1. Len(b.lines) # 0
    BY <1>1, <1>3, EmptyByLength DEF IsEmpty
  <2>2. 1 \in 1 .. LineCount(b) /\ LineCount(b) \in 1 .. LineCount(b)
    BY <1>1, <2>1 DEF LineCount
  <2>3. BufferOK(Erase(b, 1, LineCount(b)))
    BY <2>2, EraseOK
  <2> QED
    BY <1>3, <2>3, AppendLinesOK DEF Refilled
<1> QED
  BY <1>2, <1>3

\* M to another buffer finds its source, unchanged, when it comes back: a
\* source that holds lines is not dropped when it is left.
LEMMA MovedToOK ==
    ASSUME NEW m, ManagerCore(m), NEW name \in Names, name # m.current,
           NEW a, NEW r \in Evaluate(a, CurrentBuffer(m))
    PROVE  /\ ManagerCore(MovedTo(m, name, r))
           /\ TransientOnlyCurrent(m) => TransientOnlyCurrent(MovedTo(m, name, r))
<1> DEFINE source   == CurrentBuffer(m)
           new      == SubSeq(source.lines, r.first, r.last)
           arrived  == CreateOrSelect(m, name)
           refill   == Refilled(CurrentBuffer(arrived), new)
           refilled == PutCurrent(arrived, refill)
           back     == Select(refilled, m.current)
           erased   == Erase(CurrentBuffer(back), r.first, r.last)
<1>0. MovedTo(m, name, r) = PutCurrent(back, erased)
  BY DEF MovedTo
<1>1. BufferOK(source) /\ m.current \in Open(m) /\ m.current \in Names
  BY DEF ManagerCore, IsManager, BuffersOK, CurrentIsOpen, CurrentBuffer
<1>2. /\ LineCount(source) \in Nat
      /\ r.first \in 1 .. LineCount(source)
      /\ r.last \in r.first .. LineCount(source)
  BY <1>1, EvaluateInBuffer
<1>3. ~Transient(m, m.current)
  <2>1. source.lines \in Seq(Text) /\ Len(source.lines) # 0
    BY <1>1, <1>2 DEF BufferOK, BufferRecord, LineCount
  <2>2. source.lines # <<>>
    BY <2>1, EmptyByLength
  <2> QED
    BY <2>2 DEF Transient, IsEmpty, CurrentBuffer
<1>4. new \in Seq(Text) /\ new # <<>>
  BY <1>1, AddressedText
<1>5. /\ ManagerCore(arrived) /\ arrived.current = name
      /\ m.current \in Open(arrived) /\ arrived.buffers[m.current] = source
      /\ TransientOnlyCurrent(m) => TransientOnlyCurrent(arrived)
  BY <1>1, <1>3, CreateOrSelectOK DEF CurrentBuffer
<1>6. BufferOK(CurrentBuffer(arrived))
  BY <1>5 DEF ManagerCore, BuffersOK, CurrentIsOpen, CurrentBuffer
<1> HIDE DEF source, new, arrived
<1>7. BufferOK(refill) /\ refill.modified
  BY <1>4, <1>6, RefilledOK
<1> HIDE DEF refill
<1>8. /\ ManagerCore(refilled) /\ refilled.current = name
      /\ refilled.buffers[name] = refill
      /\ Open(refilled) = Open(arrived)
      /\ refilled.buffers[m.current] = source
      /\ TransientOnlyCurrent(m) => TransientOnlyCurrent(refilled)
  <2>1. m.current \in Open(arrived) \ {arrived.current}
    BY <1>5
  <2>2. /\ ManagerCore(refilled) /\ CurrentBuffer(refilled) = refill
        /\ refilled.current = arrived.current
        /\ TransientOnlyCurrent(arrived) => TransientOnlyCurrent(refilled)
        /\ Open(refilled) = Open(arrived)
        /\ \A n \in Open(arrived) \ {arrived.current} :
             refilled.buffers[n] = arrived.buffers[n]
    BY <1>5, <1>7, PutCurrentOK
  <2> QED
    BY <1>5, <2>1, <2>2 DEF CurrentBuffer
<1> HIDE DEF refilled
<1>9. /\ ManagerCore(back) /\ CurrentBuffer(back) = source
      /\ TransientOnlyCurrent(m) => TransientOnlyCurrent(back)
  <2>1. m.current \in Open(refilled)
    BY <1>5, <1>8
  <2>2. /\ ManagerCore(back) /\ back.buffers = refilled.buffers
        /\ back.current = m.current
    BY <1>8, <2>1, SelectCore
  <2>3. TransientOnlyCurrent(m) => \A n \in Open(refilled) : ~Transient(refilled, n)
    BY <1>7, <1>8 DEF TransientOnlyCurrent, Transient
  <2>4. TransientOnlyCurrent(m) => TransientOnlyCurrent(back)
    BY <2>2, <2>3 DEF TransientOnlyCurrent, Transient, Open
  <2> QED
    BY <1>8, <2>2, <2>4 DEF CurrentBuffer
<1> HIDE DEF back
<1>10. BufferOK(erased)
  BY <1>1, <1>2, <1>9, EraseOK
<1> HIDE DEF erased
<1> QED
  BY <1>0, <1>9, <1>10, PutCurrentOK

LEMMA MoveStep ==
    ASSUME IInv, Move
    PROVE  IInv'
<1>1. PICK a \in TypedAddresses, name \in Names :
        \/ \E r \in Evaluate(a, Cur) :
             /\ mgr' = IF name = mgr.current
                         THEN PutCurrent(mgr, Refilled(Cur,
                                SubSeq(Cur.lines, r.first, r.last)))
                         ELSE MovedTo(mgr, name, r)
             /\ Complete(<<>>)
        \/ Fail /\ UNCHANGED mgr
  BY DEF Move, MoveLines
<1>2. UNCHANGED <<disk, registers, global>> /\ TypeOK
  BY DEF Move, IInv
<1>3. CASE Fail /\ UNCHANGED mgr
  BY <1>2, <1>3, FailType, QuietStep
<1>4. ASSUME NEW r \in Evaluate(a, Cur),
             mgr' = IF name = mgr.current
                      THEN PutCurrent(mgr, Refilled(Cur,
                             SubSeq(Cur.lines, r.first, r.last)))
                      ELSE MovedTo(mgr, name, r),
             Complete(<<>>)
      PROVE  IInv'
  <2>1. CASE name = mgr.current
    <3> DEFINE new == SubSeq(Cur.lines, r.first, r.last)
    <3>1. new \in Seq(Text) /\ new # <<>>
      BY CurOK, AddressedText
    <3>2. mgr' = PutCurrent(mgr, Refilled(Cur, new))
      BY <1>4, <2>1
    <3> HIDE DEF new
    <3>3. ManagerCore(mgr)'
      BY <3>1, <3>2, CurOK, RefilledOK, PutCurrentOK
    <3> QED
      BY <1>2, <1>4, <3>3, EmptySeq, CompleteType, BufferStep
  <2>2. CASE name # mgr.current
    <3>1. ManagerCore(mgr)'
      BY <1>4, <2>2, CurOK, MovedToOK DEF Cur
    <3> QED
      BY <1>2, <1>4, <3>1, EmptySeq, CompleteType, BufferStep
  <2> QED
    BY <2>1, <2>2
<1> QED
  BY <1>1, <1>3, <1>4

LEMMA SelectBufferStep ==
    ASSUME IInv, SelectBuffer
    PROVE  IInv'
<1>1. PICK name \in Names :
        \/ mgr' = CreateOrSelect(mgr, name) /\ Complete(<<>>)
        \/ Fail /\ UNCHANGED mgr
  BY DEF SelectBuffer
<1>2. UNCHANGED <<disk, registers, global>> /\ TypeOK
  BY DEF SelectBuffer, IInv
<1>3. CASE Fail /\ UNCHANGED mgr
  BY <1>2, <1>3, FailType, QuietStep
<1>4. CASE mgr' = CreateOrSelect(mgr, name) /\ Complete(<<>>)
  <2>1. ManagerCore(mgr)'
    BY <1>4, CurOK, CreateOrSelectOK
  <2> QED
    BY <1>2, <1>4, <2>1, EmptySeq, CompleteType, BufferStep
<1> QED
  BY <1>1, <1>3, <1>4

-----------------------------------------------------------------------------
(***************************************************************************)
(* The commands on files.                                                  *)
(***************************************************************************)

\* A step that may change the files and the registers too.
LEMMA FileStep ==
    ASSUME IInv, ManagerCore(mgr)', SinksOK',
           disk' \in [Files -> {Absent, Unreadable} \cup Image],
           counter' \in Int, condition' \in BOOLEAN,
           UNCHANGED <<options, exit, global>>
    PROVE  IInv'
BY DEF IInv, TypeOK, ManagerCore, SinksOK, GlobalPosition

LEMMA NamedFilesExist ==
    ASSUME IInv, NEW typed \in Files \cup {NoFile}, NEW f \in NamedFiles(typed, Cur)
    PROVE  f \in Files /\ f = IF typed = NoFile THEN Cur.file ELSE typed
<1>1. Cur.file \in Files \cup {NoFile}
  BY CurOK DEF BufferOK, BufferRecord
<1> QED
  BY <1>1 DEF NamedFiles

LEMMA ReadIntoOK ==
    ASSUME NEW b, BufferOK(b), NEW a, NEW image \in Image, NEW f \in Files,
           NEW new \in ReadInto(a, b, image, f)
    PROVE  BufferOK(new)
<1>1. CASE a = NoAddress
  BY <1>1, LoadedOK DEF ReadInto
<1>2. CASE a # NoAddress
  <2>1. PICK n \in ReadPositions(a, b) : new = InsertAfter(b, n, image.lines)
    BY <1>2 DEF ReadInto
  <2>2. LineCount(b) \in Nat
    BY LenProperties DEF BufferOK, BufferRecord, LineCount
  <2>3. n \in 0 .. LineCount(b)
    BY <2>1, <2>2, SingleLinesInBuffer DEF ReadPositions
  <2>4. image.lines \in Seq(Text)
    BY DEF Image
  <2> QED
    BY <2>1, <2>3, <2>4, InsertAfterOK
<1> QED
  BY <1>1, <1>2

LEMMA DecodableIsImage ==
    ASSUME IInv, NEW f \in Files, IsImage(disk[f])
    PROVE  disk[f] \in Image
BY DEF IInv, TypeOK, IsImage

LEMMA ReadStep ==
    ASSUME IInv, Read
    PROVE  IInv'
<1>1. PICK a \in TypedAddresses, typed \in Files \cup {NoFile} :
        LET results == UNION { ReadInto(a, Cur, disk[f], f) :
                         f \in { g \in NamedFiles(typed, Cur) : Decodable(disk[g]) } }
            file    == IF typed = NoFile THEN Cur.file ELSE typed
        IN \/ \E b \in results :
                /\ mgr' = PutCurrent(mgr, b)
                /\ counter' = Len(disk[file].lines)
                /\ condition' = TRUE
                /\ Complete(<<>>)
           \/ Fail /\ UNCHANGED <<mgr, counter, condition>>
  BY DEF Read
<1>2. UNCHANGED <<disk, options, exit, global>> /\ TypeOK
  BY DEF Read, IInv
<1>3. disk' \in [Files -> {Absent, Unreadable} \cup Image]
  BY <1>2 DEF TypeOK
<1>4. CASE Fail /\ UNCHANGED <<mgr, counter, condition>>
  <2>1. UNCHANGED <<mgr, disk, registers, global>>
    BY <1>2, <1>4 DEF registers
  <2> QED
    BY <1>2, <1>4, <2>1, FailType, QuietStep
<1> DEFINE file == IF typed = NoFile THEN Cur.file ELSE typed
<1>5. ASSUME NEW f \in { g \in NamedFiles(typed, Cur) : Decodable(disk[g]) },
             NEW b \in ReadInto(a, Cur, disk[f], f),
             mgr' = PutCurrent(mgr, b),
             counter' = Len(disk[file].lines), condition' = TRUE, Complete(<<>>)
      PROVE  IInv'
  <2>1. f \in Files /\ f = file
    BY NamedFilesExist
  <2> HIDE DEF file
  <2>2. disk[f] \in Image
    BY <2>1, DecodableIsImage DEF Decodable
  <2>3. BufferOK(b)
    BY <2>1, <2>2, CurOK, ReadIntoOK
  <2>4. ManagerCore(mgr)'
    BY <1>5, <2>3, CurOK, PutCurrentOK
  <2>5. counter' \in Int
    BY <1>5, <2>1, <2>2, LenProperties DEF Image
  <2>6. SinksOK'
    BY <1>2, <1>5, EmptySeq, CompleteType
  <2> QED
    BY <1>2, <1>3, <1>5, <2>4, <2>5, <2>6, FileStep
<1> QED
  BY <1>1, <1>4, <1>5

\* What W may leave in a file is always an image.
LEMMA WrittenIsImage ==
    ASSUME NEW lines \in Seq(Text), NEW final_newline \in BOOLEAN
    PROVE  Written(lines, final_newline) \in Image
<1>1. Len(lines) \in Nat
  BY LenProperties
<1>2. CASE Len(lines) > 0 /\ ~final_newline /\ lines[Len(lines)] = Blank
  <2>1. SubSeq(lines, 1, Len(lines) - 1) \in Seq(Text)
    BY <1>1, <1>2, PartOfSeq
  <2> QED
    BY <1>1, <1>2, <2>1 DEF Written, Image
<1>3. CASE ~(Len(lines) > 0 /\ ~final_newline /\ lines[Len(lines)] = Blank)
  BY <1>1, <1>3 DEF Written, Image
<1> QED
  BY <1>2, <1>3

LEMMA TruncationsAreImages ==
    ASSUME NEW lines \in Seq(Text)
    PROVE  Truncations(lines) \subseteq Image
<1>1. Len(lines) \in Nat
  BY LenProperties
<1>2. \A n \in 0 .. Len(lines) - 1 : SubSeq(lines, 1, n) \in Seq(Text)
  BY <1>1, PartOfSeq
<1>3. ASSUME NEW rest \in Truncations(lines)
      PROVE  rest \in Image
  <2>1. PICK n \in 0 .. Len(lines) - 1 :
          rest = [lines |-> SubSeq(lines, 1, n), final_newline |-> n > 0, bom |-> FALSE]
    BY <1>3 DEF Truncations
  <2> DEFINE kept == SubSeq(lines, 1, n)
  <2>2. kept \in Seq(Text) /\ rest = [lines |-> kept, final_newline |-> n > 0, bom |-> FALSE]
    BY <1>2, <2>1
  <2> HIDE DEF kept
  <2> QED
    BY <2>2 DEF Image
<1> QED
  BY <1>3

LEMMA WrittenLines ==
    ASSUME NEW b, BufferOK(b), NEW a, NEW r \in WrittenRanges(a, b)
    PROVE  /\ SubSeq(b.lines, r.first, r.last) \in Seq(Text)
           /\ r.last - r.first + 1 \in Nat
<1>1. b.lines \in Seq(Text) /\ Len(b.lines) \in Nat
  BY LenProperties DEF BufferOK, BufferRecord
<1>2. r.first \in 1 .. Len(b.lines) + 1 /\ r.last \in 0 .. Len(b.lines)
      /\ r.first <= r.last + 1
  <2>1. CASE a = NoAddress
    BY <1>1, <2>1 DEF WrittenRanges, LineCount
  <2>2. CASE a # NoAddress
    <3>1. r \in Evaluate(a, b)
      BY <2>2 DEF WrittenRanges
    <3>2. r.first \in 1 .. Len(b.lines) /\ r.last \in r.first .. Len(b.lines)
      BY <3>1, EvaluateInBuffer DEF LineCount
    <3> QED
      BY <1>1, <3>2
  <2> QED
    BY <2>1, <2>2
<1> QED
  BY <1>1, <1>2, PartOfSeq

LEMMA FileReplaced ==
    ASSUME TypeOK, NEW f \in Files, NEW image \in Image,
           disk' = [disk EXCEPT ![f] = image]
    PROVE  disk' \in [Files -> {Absent, Unreadable} \cup Image]
BY DEF TypeOK

LEMMA WriteEncodingType ==
    ASSUME NEW mode, NEW b
    PROVE  WriteEncoding(mode, b) \in Encodings
BY DEF WriteEncoding, Encodings

LEMMA WriteSucceedsOK ==
    ASSUME IInv, NEW a, NEW r \in WrittenRanges(a, Cur), NEW f \in Files,
           NEW mode, WriteSucceeds(r, mode, f), UNCHANGED <<options, exit, global>>
    PROVE  IInv'
<1> DEFINE text == SubSeq(Cur.lines, r.first, r.last)
<1>1. text \in Seq(Text) /\ r.last - r.first + 1 \in Nat
  BY CurOK, WrittenLines
<1>2. Cur.final_newline \in BOOLEAN
  BY CurOK DEF BufferOK, BufferRecord
<1>3. WholeImage(r, Cur) = Written(text, ~FullBuffer(r, Cur) \/ Cur.final_newline)
  BY DEF WholeImage
<1>4. \/ disk' = [disk EXCEPT ![f] = WholeImage(r, Cur)]
      \/ \E rest \in Truncations(text) : disk' = [disk EXCEPT ![f] = rest]
  BY DEF WriteSucceeds
<1> HIDE DEF text
<1>5. WholeImage(r, Cur) \in Image /\ Truncations(text) \subseteq Image
  BY <1>1, <1>2, <1>3, WrittenIsImage, TruncationsAreImages DEF FullBuffer
<1>6. disk' \in [Files -> {Absent, Unreadable} \cup Image]
  BY <1>4, <1>5, FileReplaced DEF IInv
<1>7. ManagerCore(mgr)'
  <2>1. CASE FullBuffer(r, Cur)
    <3>1. mgr' = PutCurrent(mgr, AssociateAndMarkClean(Cur, f,
                              WriteEncoding(mode, Cur)))
      BY <2>1 DEF WriteSucceeds
    <3>2. BufferOK(AssociateAndMarkClean(Cur, f, WriteEncoding(mode, Cur)))
      BY CurOK, WriteEncodingType, AssociateAndMarkCleanOK
    <3> QED
      BY <3>1, <3>2, CurOK, PutCurrentOK
  <2>2. CASE ~FullBuffer(r, Cur)
    BY <2>2, CurOK DEF WriteSucceeds, ManagerCore
  <2> QED
    BY <2>1, <2>2
<1>8. counter' \in Int /\ condition' \in BOOLEAN /\ Complete(<<>>)
  BY <1>1 DEF WriteSucceeds
<1>9. SinksOK'
  BY <1>8, EmptySeq, CompleteType DEF IInv
<1> QED
  BY <1>6, <1>7, <1>8, <1>9, FileStep

LEMMA WriteFailsOK ==
    ASSUME IInv, NEW a, NEW r \in WrittenRanges(a, Cur), NEW f \in Files,
           WriteFails(r, f), UNCHANGED <<options, exit, global>>
    PROVE  IInv'
<1> DEFINE text == SubSeq(Cur.lines, r.first, r.last)
<1>1. text \in Seq(Text)
  BY CurOK, WrittenLines
<1>2. \/ disk' = disk
      \/ \E rest \in Truncations(text) : disk' = [disk EXCEPT ![f] = rest]
  BY DEF WriteFails
<1> HIDE DEF text
<1>3. Truncations(text) \subseteq Image
  BY <1>1, TruncationsAreImages
<1>4. disk' \in [Files -> {Absent, Unreadable} \cup Image]
  BY <1>2, <1>3, FileReplaced DEF IInv, TypeOK
<1>5. ManagerCore(mgr)' /\ counter' \in Int /\ condition' \in BOOLEAN
  BY CurOK DEF WriteFails, IInv, TypeOK, ManagerCore
<1>6. SinksOK'
  BY FailType DEF WriteFails, IInv
<1> QED
  BY <1>4, <1>5, <1>6, FileStep

LEMMA WriteStep ==
    ASSUME IInv, Write
    PROVE  IInv'
<1>1. PICK a \in TypedAddresses, mode \in {"W", "WA", "WU", "WB"},
           typed \in Files \cup {NoFile} :
        \/ Fail /\ UNCHANGED <<mgr, disk, counter, condition>>
        \/ \E r \in WrittenRanges(a, Cur), f \in NamedFiles(typed, Cur) :
             WriteSucceeds(r, mode, f) \/ WriteFails(r, f)
  BY DEF Write
<1>2. UNCHANGED <<options, exit, global>> /\ TypeOK
  BY DEF Write, IInv
<1>3. CASE Fail /\ UNCHANGED <<mgr, disk, counter, condition>>
  <2>1. UNCHANGED <<mgr, disk, registers, global>>
    BY <1>2, <1>3 DEF registers
  <2> QED
    BY <1>2, <1>3, <2>1, FailType, QuietStep
<1>4. ASSUME NEW r \in WrittenRanges(a, Cur), NEW f \in NamedFiles(typed, Cur),
             WriteSucceeds(r, mode, f) \/ WriteFails(r, f)
      PROVE  IInv'
  BY <1>2, <1>4, NamedFilesExist, WriteSucceedsOK, WriteFailsOK
<1> QED
  BY <1>1, <1>3, <1>4

LEMMA ListStep ==
    ASSUME IInv, List
    PROVE  IInv'
<1>1. UNCHANGED <<mgr, disk, registers, global>> /\ TypeOK
  BY DEF List, IInv
<1>2. SinksOK'
  <2>1. CASE Fail
    BY <1>1, <2>1, FailType
  <2>2. ASSUME NEW f \in Files, IsImage(disk[f]), Complete(disk[f].lines)
        PROVE  SinksOK'
    <3>1. disk[f].lines \in Seq(Text)
      BY <2>2, DecodableIsImage DEF Image
    <3> QED
      BY <1>1, <2>2, <3>1, CompleteType
  <2>3. ASSUME NEW printed \in Blocks, Complete(printed)
        PROVE  SinksOK'
    BY <1>1, <2>3, BlocksAreText, CompleteType
  <2> QED
    BY <2>1, <2>2, <2>3 DEF List
<1> QED
  BY <1>1, <1>2, QuietStep

-----------------------------------------------------------------------------
(***************************************************************************)
(* The commands that change no buffer.                                     *)
(***************************************************************************)

LEMMA FactsStep ==
    ASSUME IInv, Facts
    PROVE  IInv'
<1> DEFINE report == [i \in 1 .. Len(mgr.usage_order) |-> Fact]
<1>1. UNCHANGED <<mgr, disk, registers, global>> /\ TypeOK
  BY DEF Facts, IInv
<1>2. /\ Fact \in Text
      /\ Len(mgr.usage_order) \in Nat
  BY CommandExecutorAssumption, CurOK, LenProperties DEF ManagerCore, IsManager
<1>3. report \in Seq(Text)
  BY <1>2
<1>4. <<Fact, Fact>> \in Seq(Text)
  BY <1>2
<1>5. SinksOK'
  <2>1. CASE Complete(<<Fact, Fact>>)
    BY <1>1, <1>4, <2>1, CompleteType
  <2>2. CASE CompleteIn(sinks, report, IF ListedAreOpen(mgr) THEN "ok" ELSE "error")
    <3> HIDE DEF report
    <3>1. (IF ListedAreOpen(mgr) THEN "ok" ELSE "error") \in {"ok", "error"}
      OBVIOUS
    <3> QED
      BY <1>1, <1>3, <2>2, <3>1, CompleteInType DEF TypeOK
  <2> QED
    BY <2>1, <2>2 DEF Facts
<1> QED
  BY <1>1, <1>5, QuietStep

LEMMA OptionStep ==
    ASSUME IInv, Option
    PROVE  IInv'
<1>1. SinksOK'
  BY EmptySeq, CompleteType DEF Option, IInv
<1>2. options' \in [input_parentheses : BOOLEAN, monitor : BOOLEAN]
  BY DEF Option, IInv, TypeOK
<1> QED
  BY <1>1, <1>2 DEF Option, IInv, TypeOK, ManagerCore, SinksOK, GlobalPosition

LEMMA QuitStep ==
    ASSUME IInv, Quit
    PROVE  IInv'
<1>1. SinksOK'
  BY EmptySeq, CompleteType, FailType DEF Quit, IInv
<1>2. exit' \in {"no", "quit", "immediate"}
  BY DEF Quit, IInv, TypeOK
<1> QED
  BY <1>1, <1>2 DEF Quit, IInv, TypeOK, ManagerCore, SinksOK, GlobalPosition

LEMMA QuitImmediatelyStep ==
    ASSUME IInv, QuitImmediately
    PROVE  IInv'
<1>1. SinksOK'
  BY EmptySeq, CompleteType DEF QuitImmediately, IInv
<1> QED
  BY <1>1 DEF QuitImmediately, IInv, TypeOK, ManagerCore, SinksOK, GlobalPosition

LEMMA MessageStep ==
    ASSUME IInv, Message
    PROVE  IInv'
<1>1. UNCHANGED <<mgr, disk, registers, global>> /\ TypeOK
  BY DEF Message, IInv
<1>2. SinksOK'
  <2>1. CASE Fail
    BY <1>1, <2>1, FailType
  <2>2. ASSUME NEW t \in Text, Complete(<<t>>)
        PROVE  SinksOK'
    <3>1. <<t>> \in Seq(Text)
      OBVIOUS
    <3> QED
      BY <1>1, <2>2, <3>1, CompleteType
  <2> QED
    BY <2>1, <2>2 DEF Message
<1> QED
  BY <1>1, <1>2, QuietStep

LEMMA SystemStep ==
    ASSUME IInv, System
    PROVE  IInv'
<1>1. UNCHANGED <<mgr, counter, options, exit, global>> /\ TypeOK
  BY DEF System, IInv
<1>2. SinksOK'
  BY <1>1, BlocksAreText, CompleteType, FailType DEF System
<1>3. condition' \in BOOLEAN
  BY <1>1 DEF System, TypeOK
<1>4. disk' \in [Files -> {Absent, Unreadable} \cup Image]
  BY <1>1 DEF System, TypeOK
<1>5. ManagerCore(mgr)' /\ counter' \in Int
  BY <1>1, CurOK DEF ManagerCore, TypeOK
<1> QED
  BY <1>1, <1>2, <1>3, <1>4, <1>5, FileStep

LEMMA CommentStep ==
    ASSUME IInv, Comment
    PROVE  IInv'
BY EmptySeq, CompleteType, QuietStep DEF Comment, IInv

-----------------------------------------------------------------------------
(***************************************************************************)
(* G.  The loop keeps its position between 1 and the end of the buffer     *)
(* whenever it examines a line, so every nested command has its line.      *)
(***************************************************************************)

LEMMA GlobalFrame ==
    ASSUME IInv, ManagerCore(mgr)', SinksOK',
           counter' \in Int, condition' \in BOOLEAN,
           global' \in {NoGlobal} \cup GlobalLoop, GlobalPosition',
           UNCHANGED <<disk, options, exit>>
    PROVE  IInv'
BY DEF IInv, TypeOK, ManagerCore, SinksOK

LEMMA SelectionsType == Selections \subseteq SUBSET Text
BY CommandExecutorAssumption DEF Selections

LEMMA GlobalRangesInBuffer ==
    ASSUME NEW b, BufferOK(b), NEW a, NEW r \in GlobalRanges(a, b)
    PROVE  /\ r.first \in Nat /\ r.first >= 1 /\ r.last \in Nat
           /\ SubSeq(b.lines, r.first, r.last) \in Seq(Text)
<1>1. b.lines \in Seq(Text) /\ Len(b.lines) \in Nat /\ LineCount(b) = Len(b.lines)
  BY LenProperties DEF BufferOK, BufferRecord, LineCount
<1>2. r.first \in 1 .. Len(b.lines) /\ r.last \in 1 .. Len(b.lines)
  <2>1. CASE a = NoAddress
    BY <1>1, <2>1 DEF GlobalRanges, LineRange
  <2>2. CASE a # NoAddress
    BY <1>1, <2>2, EvaluateInBuffer DEF GlobalRanges
  <2> QED
    BY <2>1, <2>2
<1> QED
  BY <1>1, <1>2, PartOfSeq

LEMMA BeginGlobalStep ==
    ASSUME IInv, BeginGlobal
    PROVE  IInv'
<1>1. PICK a \in TypedAddresses, select \in Selections, nested \in NestedCommands :
        \/ /\ \E r \in GlobalRanges(a, Cur) :
                global' = [ line  |-> r.first, last |-> r.last, count |-> 0,
                            select |-> select, nested |-> nested,
                            first |-> r.first,
                            range |-> SubSeq(Cur.lines, r.first, r.last),
                            seen  |-> <<>> ]
           /\ UNCHANGED <<sinks, outcome>>
        \/ Fail /\ UNCHANGED global
  BY DEF BeginGlobal
<1>2. UNCHANGED <<mgr, disk, registers>> /\ TypeOK
  BY DEF BeginGlobal, IInv
<1>3. CASE Fail /\ UNCHANGED global
  BY <1>2, <1>3, FailType, QuietStep
<1>4. ASSUME NEW r \in GlobalRanges(a, Cur),
             global' = [ line  |-> r.first, last |-> r.last, count |-> 0,
                         select |-> select, nested |-> nested,
                         first |-> r.first,
                         range |-> SubSeq(Cur.lines, r.first, r.last),
                         seen  |-> <<>> ],
             UNCHANGED <<sinks, outcome>>
      PROVE  IInv'
  <2> DEFINE text == SubSeq(Cur.lines, r.first, r.last)
  <2>1. /\ r.first \in Nat /\ r.first >= 1 /\ r.last \in Nat /\ text \in Seq(Text)
    BY CurOK, GlobalRangesInBuffer
  <2>2. global' = [ line  |-> r.first, last |-> r.last, count |-> 0,
                    select |-> select, nested |-> nested,
                    first |-> r.first, range |-> text, seen  |-> <<>> ]
    BY <1>4
  <2> HIDE DEF text
  <2>3. select \in SUBSET Text /\ <<>> \in Seq(Text)
    BY SelectionsType, EmptySeq
  <2>4. global' \in GlobalLoop /\ global'.line >= 1
    BY <2>1, <2>2, <2>3 DEF GlobalLoop
  <2>5. GlobalPosition'
    BY <2>4 DEF GlobalPosition
  <2>6. SinksOK' /\ ManagerCore(mgr)' /\ counter' \in Int /\ condition' \in BOOLEAN
    BY <1>2, <1>4, CurOK DEF SinksOK, TypeOK, ManagerCore, registers
  <2> QED
    BY <1>2, <2>4, <2>5, <2>6, GlobalFrame DEF registers
<1> QED
  BY <1>1, <1>3, <1>4

LEMMA PassedType ==
    ASSUME IInv, global # NoGlobal, Looping
    PROVE  /\ global \in GlobalLoop
           /\ global.line \in 1 .. LineCount(Cur) /\ global.line <= global.last
           /\ Examined \in Text
           /\ Passed \in GlobalLoop /\ Passed.line >= 1
           /\ PassedSelected \in GlobalLoop /\ PassedSelected.line >= 1
<1>1. global \in GlobalLoop
  BY DEF IInv, TypeOK
<1>2. /\ LineCount(Cur) \in Nat /\ LineCount(Cur) = Len(Cur.lines)
      /\ Cur.lines \in Seq(Text)
  BY CurOK
<1>3. global.line \in 1 .. LineCount(Cur) /\ global.line <= global.last
  BY <1>1, <1>2 DEF IInv, GlobalPosition, Looping, GlobalLoop
<1>4. Examined \in Text
  BY <1>2, <1>3, ElementOfSeq DEF Examined
<1> DEFINE seen == Append(global.seen, Examined)
<1>5. seen \in Seq(Text) /\ global.line + 1 \in Nat
  BY <1>1, <1>4, AppendProperties DEF GlobalLoop
<1>6. Passed = [global EXCEPT !.line = global.line + 1, !.seen = seen]
  BY DEF Passed
<1>7. PassedSelected = [Passed EXCEPT !.count = Passed.count + 1]
  BY DEF PassedSelected
<1> HIDE DEF seen, Passed, PassedSelected
<1>8. Passed \in GlobalLoop /\ Passed.line = global.line + 1
  BY ONLY <1>1, <1>5, <1>6, Zenon DEF GlobalLoop
<1>9. PassedSelected \in GlobalLoop /\ PassedSelected.line = global.line + 1
  <2>1. Passed.count \in Nat
    BY ONLY <1>8 DEF GlobalLoop
  <2>2. Passed.count + 1 \in Nat
    BY <2>1
  <2> QED
    BY ONLY <1>7, <1>8, <2>2, Zenon DEF GlobalLoop
<1> QED
  BY <1>1, <1>2, <1>3, <1>4, <1>8, <1>9

LEMMA GlobalSkipStep ==
    ASSUME IInv, GlobalSkip
    PROVE  IInv'
<1>1. /\ global # NoGlobal /\ Looping /\ global' = Passed
      /\ UNCHANGED <<mgr, disk, registers, sinks, outcome>> /\ TypeOK
  BY DEF GlobalSkip, IInv
<1>2. global' \in GlobalLoop /\ global'.line >= 1
  BY <1>1, PassedType
<1>3. ManagerCore(mgr)' /\ SinksOK' /\ counter' \in Int /\ condition' \in BOOLEAN
  BY <1>1, CurOK DEF SinksOK, TypeOK, ManagerCore, registers
<1> QED
  BY <1>1, <1>2, <1>3, GlobalFrame DEF registers, GlobalPosition

LEMMA GlobalPrintStep ==
    ASSUME IInv, GlobalPrint
    PROVE  IInv'
<1>1. /\ global # NoGlobal /\ Looping /\ global' = PassedSelected
      /\ mgr' = PutCurrent(mgr, SetCurrentLine(Cur, global.line))
      /\ sinks' = Emitted(sinks, <<Examined>>)
      /\ UNCHANGED <<disk, registers, outcome>> /\ TypeOK
  BY DEF GlobalPrint, AtLine, IInv
<1>2. /\ global' \in GlobalLoop /\ global'.line >= 1
      /\ global.line \in 0 .. LineCount(Cur) /\ Examined \in Text
  BY <1>1, PassedType
<1>3. ManagerCore(mgr)'
  BY <1>1, <1>2, CurOK, SetCurrentLineOK, PutCurrentOK
<1>4. SinksOK'
  <2>1. <<Examined>> \in Seq(Text)
    BY <1>2
  <2>2. sinks' \in Seq(Capture)
    BY <1>1, <2>1, EmittedType DEF TypeOK
  <2> QED
    BY <1>1, <2>2 DEF SinksOK, TypeOK
<1>5. counter' \in Int /\ condition' \in BOOLEAN
  BY <1>1 DEF TypeOK, registers
<1> QED
  BY <1>1, <1>2, <1>3, <1>4, <1>5, GlobalFrame DEF registers, GlobalPosition

LEMMA GlobalZapStep ==
    ASSUME IInv, GlobalZap
    PROVE  IInv'
<1>1. /\ global # NoGlobal /\ Looping /\ global' = PassedSelected
      /\ mgr' = PutCurrent(mgr, SetCurrentLine(Cur, global.line))
      /\ UNCHANGED <<disk, registers, sinks, outcome>> /\ TypeOK
  BY DEF GlobalZap, AtLine, IInv
<1>2. /\ global' \in GlobalLoop /\ global'.line >= 1
      /\ global.line \in 0 .. LineCount(Cur)
  BY <1>1, PassedType
<1>3. ManagerCore(mgr)'
  BY <1>1, <1>2, CurOK, SetCurrentLineOK, PutCurrentOK
<1>4. SinksOK' /\ counter' \in Int /\ condition' \in BOOLEAN
  BY <1>1 DEF TypeOK, SinksOK, registers
<1> QED
  BY <1>1, <1>2, <1>3, <1>4, GlobalFrame DEF registers, GlobalPosition

\* The loop after D has deleted the line examined.
LEMMA ShrunkLoop ==
    ASSUME IInv, global # NoGlobal, Looping,
           global' = [PassedSelected EXCEPT !.line = global.line,
                                            !.last = PassedSelected.last - 1]
    PROVE  global' \in GlobalLoop /\ global'.line >= 1
<1>1. /\ global \in GlobalLoop /\ PassedSelected \in GlobalLoop
      /\ global.line \in 1 .. LineCount(Cur) /\ global.line <= global.last
  BY PassedType
<1>2. PassedSelected.last = global.last
  BY <1>1 DEF PassedSelected, Passed, GlobalLoop
<1>3. global.line \in Nat /\ PassedSelected.last - 1 \in Nat /\ global.line >= 1
  BY <1>1, <1>2 DEF GlobalLoop
<1>4. global' \in GlobalLoop /\ global'.line = global.line
  BY ONLY <1>1, <1>3,
          global' = [PassedSelected EXCEPT !.line = global.line,
                                           !.last = PassedSelected.last - 1]
  DEF GlobalLoop
<1> QED
  BY <1>3, <1>4

LEMMA GlobalDeleteStep ==
    ASSUME IInv, GlobalDelete
    PROVE  IInv'
<1>1. /\ global # NoGlobal /\ Looping
      /\ global' = [PassedSelected EXCEPT !.line = global.line,
                                          !.last = PassedSelected.last - 1]
      /\ mgr' = PutCurrent(mgr, Erase(Cur, global.line, global.line))
      /\ UNCHANGED <<disk, registers, sinks, outcome>> /\ TypeOK
  BY DEF GlobalDelete, AtLine, IInv
<1>2. global' \in GlobalLoop /\ global'.line >= 1
  BY <1>1, ShrunkLoop
<1>3. global.line \in 1 .. LineCount(Cur)
  BY <1>1, PassedType
<1>4. ManagerCore(mgr)'
  <2>1. global.line \in global.line .. LineCount(Cur)
    BY <1>3, CurOK
  <2> QED
    BY <1>1, <1>3, <2>1, CurOK, EraseOK, PutCurrentOK
<1>5. SinksOK' /\ counter' \in Int /\ condition' \in BOOLEAN
  BY <1>1 DEF TypeOK, SinksOK, registers
<1> QED
  BY <1>1, <1>2, <1>4, <1>5, GlobalFrame DEF registers, GlobalPosition

LEMMA GlobalSubstituteStep ==
    ASSUME IInv, GlobalSubstitute
    PROVE  IInv'
<1> DEFINE n   == global.line
           s   == global.nested.substitution
           new == Substituted(Cur, s, {n}, n)
<1>1. /\ global # NoGlobal /\ Looping /\ global.nested.kind = "S"
      /\ UNCHANGED <<disk, counter, options, exit>> /\ TypeOK
  BY DEF GlobalSubstitute, AtLine, IInv
<1>2. /\ global \in GlobalLoop /\ n \in 1 .. LineCount(Cur)
      /\ PassedSelected \in GlobalLoop /\ PassedSelected.line >= 1
  BY <1>1, PassedType
<1>3. s \in Substitutions
  <2>1. global.nested \in NestedCommands
    BY <1>2 DEF GlobalLoop
  <2> QED
    BY <1>1, <2>1 DEF NestedCommands, SimpleNested, NestedSubstitute
<1>4. counter' \in Int
  BY <1>1 DEF TypeOK
<1>5. CASE Examined \in DOMAIN s
  <2>1. /\ mgr' = PutCurrent(mgr, new) /\ condition' = TRUE
        /\ sinks' = IF global.nested.print_after
                      THEN Emitted(sinks, <<new.lines[n]>>) ELSE sinks
        /\ global' = PassedSelected /\ outcome' = outcome
    BY <1>5 DEF GlobalSubstitute
  <2>2. BufferOK(new) /\ new.lines[n] \in Text
    <3>1. {n} \subseteq 1 .. LineCount(Cur) /\ n \in {n}
      BY <1>2
    <3>2. \A i \in {n} : Cur.lines[i] \in DOMAIN s
      BY <1>5 DEF Examined
    <3> HIDE DEF n, s
    <3> QED
      BY <1>3, <3>1, <3>2, CurOK, SubstitutedOK
  <2> HIDE DEF new
  <2>3. ManagerCore(mgr)'
    BY <2>1, <2>2, CurOK, PutCurrentOK
  <2>4. SinksOK'
    <3>1. <<new.lines[n]>> \in Seq(Text)
      BY <2>2
    <3>2. sinks' \in Seq(Capture)
      BY <1>1, <2>1, <3>1, EmittedType DEF TypeOK
    <3> QED
      BY <1>1, <2>1, <3>2 DEF SinksOK, TypeOK
  <2> QED
    BY <1>1, <1>2, <1>4, <2>1, <2>3, <2>4, GlobalFrame DEF GlobalPosition
<1>6. CASE Examined \notin DOMAIN s
  <2>1. /\ mgr' = PutCurrent(mgr, SetCurrentLine(Cur, n)) /\ condition' = FALSE
        /\ Fail /\ global' = NoGlobal
    BY <1>6 DEF GlobalSubstitute
  <2>2. ManagerCore(mgr)'
    <3>1. n \in 0 .. LineCount(Cur)
      BY <1>2
    <3> QED
      BY <2>1, <3>1, CurOK, SetCurrentLineOK, PutCurrentOK
  <2>3. SinksOK'
    BY <1>1, <2>1, FailType
  <2> QED
    BY <1>1, <1>4, <2>1, <2>2, <2>3, GlobalFrame DEF GlobalPosition
<1> QED
  BY <1>5, <1>6

LEMMA GlobalEndStep ==
    ASSUME IInv, GlobalEnd
    PROVE  IInv'
<1>1. /\ global # NoGlobal /\ counter' = global.count /\ global' = NoGlobal
      /\ Complete(<<>>) /\ UNCHANGED <<mgr, disk, condition, options, exit>>
      /\ TypeOK
  BY DEF GlobalEnd, IInv
<1>2. counter' \in Int /\ condition' \in BOOLEAN
  BY <1>1 DEF TypeOK, GlobalLoop
<1>3. SinksOK' /\ ManagerCore(mgr)'
  BY <1>1, CurOK, EmptySeq, CompleteType DEF ManagerCore
<1> QED
  BY <1>1, <1>2, <1>3, GlobalFrame DEF GlobalPosition

-----------------------------------------------------------------------------
(***************************************************************************)
(* ZG.  The destination is made with get_or_create() and filled at once,   *)
(* so the disposable buffer that exists in between is gone again.          *)
(***************************************************************************)

LEMMA BeginGatherStep ==
    ASSUME IInv, BeginGather
    PROVE  IInv'
<1>1. PICK name \in Names :
        sinks' = Append(sinks, [dest |-> name, text |-> <<>>, state |-> "pending"])
  BY DEF BeginGather
<1>2. UNCHANGED <<mgr, disk, registers, global, outcome>> /\ TypeOK
  BY DEF BeginGather, IInv
<1> DEFINE capture == [dest |-> name, text |-> <<>>, state |-> "pending"]
<1>3. capture \in Capture
  BY EmptySeq DEF Capture
<1> HIDE DEF capture
<1>4. sinks' = Append(sinks, capture)
  BY <1>1 DEF capture
<1>5. sinks' \in Seq(Capture)
  BY <1>2, <1>3, <1>4, AppendProperties DEF TypeOK
<1>6. SinksOK'
  BY <1>2, <1>5 DEF SinksOK, TypeOK
<1> QED
  BY <1>2, <1>6, QuietStep

LEMMA GatheredOK ==
    ASSUME NEW b, BufferOK(b), NEW text \in Seq(Text), text # <<>>
    PROVE  BufferOK(Gathered(b, text)) /\ Gathered(b, text).modified
<1>1. CASE IsEmpty(b)
  BY <1>1, AppendLinesOK DEF Gathered
<1>2. CASE ~IsEmpty(b)
  <2>1. b.current_line \in 0 .. LineCount(b)
    BY DEF BufferOK, CursorInBuffer, LineCount
  <2> QED
    BY <1>2, <2>1, InsertAfterOK DEF Gathered
<1> QED
  BY <1>1, <1>2

LEMMA GatheredIntoOK ==
    ASSUME NEW m, ManagerCore(m), NEW name \in Names,
           NEW text \in Seq(Text), text # <<>>
    PROVE  /\ ManagerCore(GatheredInto(m, name, text))
           /\ TransientOnlyCurrent(m) =>
                TransientOnlyCurrent(GatheredInto(m, name, text))
<1> DEFINE m1 == GetOrCreate(m, name)
           b  == Gathered(m1.buffers[name], text)
<1>1. GatheredInto(m, name, text) = Put(m1, name, b)
  BY DEF GatheredInto
<1>2. /\ ManagerCore(m1) /\ Open(m1) = Open(m) \cup {name}
      /\ \A n \in Open(m) : m1.buffers[n] = m.buffers[n]
      /\ m1.current = m.current
  BY GetOrCreateCore
<1> HIDE DEF m1
<1>3. BufferOK(m1.buffers[name])
  BY <1>2 DEF ManagerCore, BuffersOK
<1>4. BufferOK(b) /\ b.modified
  BY <1>3, GatheredOK
<1> HIDE DEF b
<1>5. ManagerCore(Put(m1, name, b))
  BY <1>2, <1>4, PutCore
<1>6. ASSUME TransientOnlyCurrent(m)
      PROVE  TransientOnlyCurrent(Put(m1, name, b))
  <2>1. Lasting(b)
    BY <1>4 DEF Lasting
  <2>2. \A n \in Open(m1) : Transient(m1, n) => n = m1.current \/ n = name
    BY <1>2, <1>6 DEF TransientOnlyCurrent, Transient
  <2> QED
    BY <1>2, <1>4, <2>1, <2>2, PutLastingTidy
<1> QED
  BY <1>1, <1>5, <1>6

LEMMA EndGatherStep ==
    ASSUME IInv, EndGather
    PROVE  IInv'
<1>1. /\ Nested /\ (GatherSucceeds \/ GatherFails)
      /\ UNCHANGED <<disk, registers, global>> /\ TypeOK
  BY DEF EndGather, IInv
<1>2. sinks # <<>> /\ sinks \in Seq(Capture)
  BY DEF EndGather, Nested, IInv, TypeOK
<1>3. Captured \in Capture
  BY <1>2, TopOfStack DEF Captured
<1>4. Outer \in Seq(Capture)
  <2>1. Len(sinks) \in Nat /\ Len(sinks) # 0
    BY <1>2, EmptyByLength
  <2>2. Len(sinks) - 1 \in 0 .. Len(sinks) /\ 1 \in 1 .. Len(sinks) + 1
    BY <2>1
  <2>3. SubSeq(sinks, 1, Len(sinks) - 1) \in Seq(Capture)
    BY <1>2, <2>2, PartOfSeq
  <2> QED
    BY <2>3 DEF Outer
<1>5. SinksOK'
  <2>1. CompleteIn(Outer, <<>>, "ok") \/ CompleteIn(Outer, <<>>, "error")
    BY <1>1 DEF GatherSucceeds, GatherFails
  <2>2. outcome \in {"none", "ok", "error"}
    BY <1>1 DEF TypeOK
  <2> QED
    BY <1>4, <2>1, <2>2, EmptySeq, CompleteInType
<1>6. ManagerCore(mgr)'
  <2>1. CASE UNCHANGED mgr
    BY <2>1, CurOK DEF ManagerCore
  <2>2. CASE /\ Captured.text # <<>>
             /\ mgr' = GatheredInto(mgr, Captured.dest, Captured.text)
    <3>1. Captured.dest \in Names /\ Captured.text \in Seq(Text)
      BY <1>3 DEF Capture
    <3> QED
      BY <2>2, <3>1, CurOK, GatheredIntoOK
  <2> QED
    BY <1>1, <2>1, <2>2 DEF GatherSucceeds, GatherFails
<1> QED
  BY <1>1, <1>5, <1>6, BufferStep

-----------------------------------------------------------------------------
(***************************************************************************)
(* The invariant and what follows from it.                                 *)
(***************************************************************************)

LEMMA InitIInv == Init => IInv
<1> SUFFICES ASSUME Init PROVE IInv
  OBVIOUS
<1>1. ManagerCore(mgr)
  BY InitialManagerOK, ManagerParts DEF Init
<1>2. TypeOK
  <2>1. disk \in [Files -> {Absent, Unreadable} \cup Image]
    BY CommandExecutorAssumption DEF Init
  <2>2. sinks \in Seq(Capture)
    BY EmptySeq DEF Init
  <2>3. counter \in Int
    BY DEF Init
  <2> QED
    BY <1>1, <2>1, <2>2, <2>3 DEF Init, TypeOK, ManagerCore
<1>3. GlobalPosition
  BY DEF Init, GlobalPosition
<1> QED
  BY <1>1, <1>2, <1>3 DEF IInv

LEMMA NextIInv == IInv /\ [Next]_vars => IInv'
<1> SUFFICES ASSUME IInv, [Next]_vars PROVE IInv'
  OBVIOUS
<1>1. CASE UNCHANGED vars
  BY <1>1 DEF vars, registers, IInv, TypeOK, ManagerCore, GlobalPosition
<1>2. CASE LineCommand
  BY <1>2, PrintStep, DeleteStep, ZapStep, TransferStep, SubstituteStep
  DEF LineCommand
<1>3. CASE TextCommand
  BY <1>3, AppendTextStep, InsertBeforeStep, ChangeStep DEF TextCommand
<1>4. CASE BufferCommand
  BY <1>4, MoveStep, SelectBufferStep DEF BufferCommand
<1>5. CASE FileCommand
  BY <1>5, ReadStep, WriteStep, ListStep DEF FileCommand
<1>6. CASE OtherCommand
  BY <1>6, FactsStep, OptionStep, QuitStep, QuitImmediatelyStep, MessageStep,
     SystemStep, CommentStep DEF OtherCommand
<1>7. CASE GlobalCommand
  BY <1>7, BeginGlobalStep, GlobalSkipStep, GlobalPrintStep, GlobalZapStep,
     GlobalDeleteStep, GlobalSubstituteStep, GlobalEndStep
  DEF GlobalCommand, GlobalStep
<1>8. CASE GatherCommand
  BY <1>8, BeginGatherStep, EndGatherStep DEF GatherCommand
<1> QED
  BY <1>1, <1>2, <1>3, <1>4, <1>5, <1>6, <1>7, <1>8 DEF Next

-----------------------------------------------------------------------------
(***************************************************************************)
(* The lines a selection leaves, counted one by one, and the parts of a    *)
(* buffer around the line G has reached.                                   *)
(***************************************************************************)

\* f[n] are the unselected ones of the first n lines.
UnselectedUpTo(f, lines, select) ==
    /\ f \in [0 .. Len(lines) -> Seq(Text)]
    /\ f[0] = <<>>
    /\ \A n \in 1 .. Len(lines) :
         f[n] = IF lines[n] \in select THEN f[n - 1]
                                       ELSE Append(f[n - 1], lines[n])

LEMMA UnselectedStepByStep ==
    ASSUME NEW lines \in Seq(Text), NEW select
    PROVE  \E f : /\ UnselectedUpTo(f, lines, select)
                  /\ Unselected(lines, select) = f[Len(lines)]
<1> DEFINE N == Len(lines)
           Upto(f) == f = [n \in 0 .. N |->
                             IF n = 0 THEN <<>>
                             ELSE IF lines[n] \in select THEN f[n - 1]
                             ELSE Append(f[n - 1], lines[n])]
           upto == CHOOSE f : Upto(f)
           step == [n \in 1 .. N |-> [v \in Seq(Text) |->
                      IF lines[n] \in select THEN v ELSE Append(v, lines[n])]]
           first == <<>>
<1>1. N \in Nat /\ \A n \in 1 .. N : lines[n] \in Text
  BY LenProperties, ElementOfSeq
<1>2. Unselected(lines, select) = upto[N]
  BY DEF Unselected
<1> HIDE DEF N
<1>3. step \in [1 .. N -> [Seq(Text) -> Seq(Text)]]
  <2>1. \A v \in Seq(Text), t \in Text : Append(v, t) \in Seq(Text)
    BY AppendProperties
  <2> QED
    BY <1>1, <2>1
<1>4. \A n \in 1 .. N, v \in Seq(Text) :
        step[n][v] = IF lines[n] \in select THEN v ELSE Append(v, lines[n])
  OBVIOUS
<1> HIDE DEF step, first
<1>5. PICK g : FollowsSteps(g, Seq(Text), N, first, step)
  <2>1. first \in Seq(Text) /\ step \in Steps(Seq(Text), N)
    BY <1>3, EmptySeq DEF first, Steps
  <2> QED
    BY <1>1, <2>1, RecursiveFunctionExists
<1>6. /\ g \in [0 .. N -> Seq(Text)] /\ g[0] = <<>>
       /\ \A n \in 1 .. N : g[n] = step[n][g[n - 1]]
  BY <1>5 DEF FollowsSteps, first
<1>7. ASSUME NEW n \in 1 .. N
      PROVE  g[n] = IF lines[n] \in select THEN g[n - 1]
                                           ELSE Append(g[n - 1], lines[n])
  <2>1. n - 1 \in 0 .. N
    BY <1>1
  <2>2. g[n - 1] \in Seq(Text)
    BY <1>6, <2>1
  <2> QED
    BY <1>4, <1>6, <2>2
<1>8. Upto(g)
  <2>1. ASSUME NEW n \in 0 .. N
        PROVE  g[n] = IF n = 0 THEN <<>>
                      ELSE IF lines[n] \in select THEN g[n - 1]
                      ELSE Append(g[n - 1], lines[n])
    <3>1. n = 0 \/ n \in 1 .. N
      BY <1>1
    <3> QED
      BY <1>6, <1>7, <3>1
  <2>2. DOMAIN g = 0 .. N
    BY <1>6
  <2> QED
    BY <1>6, <2>1, <2>2
<1>9. Upto(upto)
  <2> HIDE DEF Upto
  <2> QED
    BY <1>8, Zenon
<1>10. upto = [n \in 0 .. N |->
                IF n = 0 THEN <<>>
                ELSE IF lines[n] \in select THEN upto[n - 1]
                ELSE Append(upto[n - 1], lines[n])]
  BY <1>9
<1> HIDE DEF upto
<1> DEFINE S == { n \in 0 .. N : upto[n] = g[n] }
<1>11. 0 \in S
  BY <1>1, <1>6, <1>10
<1>12. ASSUME NEW n \in 1 .. N, n - 1 \in S
       PROVE  n \in S
  <2>1. n \in 0 .. N /\ n # 0
    BY <1>1
  <2>2. upto[n] = IF lines[n] \in select THEN upto[n - 1]
                                         ELSE Append(upto[n - 1], lines[n])
    BY <1>10, <2>1
  <2> QED
    BY <1>7, <1>12, <2>1, <2>2
<1>13. \A n \in 0 .. N : n \in S
  <2> HIDE DEF S
  <2> QED
    BY <1>1, <1>11, <1>12, BoundedInduction
<1>14. upto[N] = g[N]
  BY <1>1, <1>13
<1> QED
  BY <1>2, <1>6, <1>7, <1>14 DEF N, UnselectedUpTo

\* None of no lines; and one line more.
LEMMA UnselectedIsText ==
    ASSUME NEW lines \in Seq(Text), NEW select
    PROVE  Unselected(lines, select) \in Seq(Text)
<1>1. Len(lines) \in 0 .. Len(lines)
  BY LenProperties
<1> QED
  BY <1>1, UnselectedStepByStep DEF UnselectedUpTo

LEMMA UnselectedOfNone ==
    ASSUME NEW select
    PROVE  Unselected(<<>>, select) = <<>>
<1> DEFINE none == <<>>
<1>1. none \in Seq(Text) /\ Len(none) = 0
  BY EmptySeq
<1> HIDE DEF none
<1>2. PICK f : UnselectedUpTo(f, none, select) /\ Unselected(none, select) = f[Len(none)]
  BY <1>1, UnselectedStepByStep, Zenon
<1>3. f[0] = <<>>
  BY <1>2, Zenon DEF UnselectedUpTo
<1>4. Unselected(none, select) = <<>>
  BY <1>1, <1>2, <1>3, Zenon
<1> QED
  BY <1>4 DEF none

LEMMA UnselectedAndOne ==
    ASSUME NEW lines \in Seq(Text), NEW t \in Text, NEW select
    PROVE  Unselected(Append(lines, t), select) =
             IF t \in select THEN Unselected(lines, select)
                             ELSE Append(Unselected(lines, select), t)
<1> DEFINE N    == Len(lines)
           more == Append(lines, t)
<1>1. /\ N \in Nat /\ more \in Seq(Text) /\ Len(more) = N + 1
      /\ \A i \in 1 .. N : more[i] = lines[i]
      /\ more[N + 1] = t
  BY AppendProperties, LenProperties
<1>2. PICK f : /\ UnselectedUpTo(f, lines, select)
               /\ Unselected(lines, select) = f[Len(lines)]
  BY UnselectedStepByStep
<1>3. PICK g : /\ UnselectedUpTo(g, more, select)
               /\ Unselected(more, select) = g[Len(more)]
  BY <1>1, UnselectedStepByStep
<1> HIDE DEF more
<1>4. /\ f[0] = <<>> /\ Unselected(lines, select) = f[N]
       /\ \A n \in 1 .. N : f[n] = IF lines[n] \in select THEN f[n - 1]
                                            ELSE Append(f[n - 1], lines[n])
  BY <1>2 DEF UnselectedUpTo
<1>5. /\ g[0] = <<>> /\ Unselected(more, select) = g[Len(more)]
       /\ \A n \in 1 .. Len(more) :
            g[n] = IF more[n] \in select THEN g[n - 1]
                                         ELSE Append(g[n - 1], more[n])
  BY <1>3 DEF UnselectedUpTo
<1> HIDE DEF N
<1> DEFINE S == { n \in 0 .. N : g[n] = f[n] }
<1>6. 0 \in S
  BY <1>1, <1>4, <1>5
<1>7. ASSUME NEW n \in 1 .. N, n - 1 \in S
      PROVE  n \in S
  <2>1. n \in 1 .. Len(more) /\ n \in 0 .. N
    BY <1>1
  <2> QED
    BY <1>1, <1>4, <1>5, <1>7, <2>1
<1>8. \A n \in 0 .. N : n \in S
  <2> HIDE DEF S
  <2> QED
    BY <1>1, <1>6, <1>7, BoundedInduction
<1>9. g[N] = f[N]
  BY <1>1, <1>8
<1>10. N + 1 \in 1 .. Len(more) /\ (N + 1) - 1 = N
  BY <1>1
<1>11. g[N + 1] = IF t \in select THEN g[N] ELSE Append(g[N], t)
  BY <1>1, <1>5, <1>10
<1> QED
  BY <1>1, <1>4, <1>5, <1>9, <1>11 DEF more

\* A member between two sequences belongs to either.
LEMMA OneBetween ==
    ASSUME NEW s \in Seq(Text), NEW e \in Text, NEW u \in Seq(Text)
    PROVE  Append(s, e) \o u = s \o (<<e>> \o u)
<1>1. ASSUME NEW one \in Seq(Text)
      PROVE  (s \o one) \o u = s \o (one \o u)
  BY ConcatAssociative
<1> QED
  BY <1>1, AppendIsConcat

\* What lies ahead of the loop once it has passed a line that stays.
LEMMA AheadOfALine ==
    ASSUME NEW old \in Seq(Text), NEW new \in Seq(Text), Len(new) = Len(old),
           NEW n \in 1 .. Len(old), NEW last \in n .. Len(old),
           \A i \in n + 1 .. last : new[i] = old[i],
           NEW seen \in Seq(Text)
    PROVE  Append(seen, old[n]) \o SubSeq(new, n + 1, last)
             = seen \o SubSeq(old, n, last)
<1> DEFINE ahead == SubSeq(old, n + 1, last)
           t     == old[n]
<1>1. Len(old) \in Nat /\ t \in Text
  BY LenProperties, ElementOfSeq
<1>2. n + 1 \in 1 .. Len(old) + 1 /\ last \in 0 .. Len(old)
  BY <1>1
<1>3. /\ ahead \in Seq(Text)
      /\ Len(ahead) = IF n + 1 <= last THEN last - (n + 1) + 1 ELSE 0
      /\ \A i \in 1 .. last - (n + 1) + 1 : ahead[i] = old[n + 1 + i - 1]
  BY <1>2, PartOfSeq
<1>4. SubSeq(new, n + 1, last) = ahead
  <2> DEFINE m     == n + 1
             other == SubSeq(new, m, last)
  <2>1. /\ m \in 1 .. Len(new) + 1 /\ last \in 0 .. Len(new)
        /\ m \in Int /\ last \in Int
    BY <1>1, <1>2
  <2>2. \A i \in m .. last : new[i] = old[i]
    OBVIOUS
  <2> HIDE DEF m
  <2>3. /\ other \in Seq(Text)
        /\ Len(other) = IF m <= last THEN last - m + 1 ELSE 0
        /\ \A i \in 1 .. last - m + 1 : other[i] = new[m + i - 1]
    BY <2>1, PartOfSeq
  <2>4. \A i \in 1 .. last - m + 1 : m + i - 1 \in m .. last
    BY <2>1
  <2>5. /\ ahead \in Seq(Text)
        /\ Len(ahead) = IF m <= last THEN last - m + 1 ELSE 0
        /\ \A i \in 1 .. last - m + 1 : ahead[i] = old[m + i - 1]
    BY <1>3 DEF m
  <2> HIDE DEF ahead, other
  <2>6. \A i \in 1 .. Len(ahead) : i \in 1 .. last - m + 1
    BY <2>1, <2>5
  <2>7. \A i \in 1 .. Len(other) : other[i] = ahead[i]
    BY <2>2, <2>3, <2>4, <2>5, <2>6
  <2>8. other = ahead
    BY <2>3, <2>5, <2>7, SeqEqual
  <2> QED
    BY <2>8 DEF other, m
<1>5. SubSeq(old, n, last) = <<t>> \o ahead
  BY SubSeqRecursiveFirst
<1> HIDE DEF ahead, t
<1>6. Append(seen, t) \o ahead = seen \o (<<t>> \o ahead)
  <2>1. t \in Text /\ ahead \in Seq(Text)
    BY <1>1, <1>3
  <2> QED
    BY <2>1, OneBetween
<1> QED
  BY <1>4, <1>5, <1>6 DEF t

\* And once it has deleted the line.
LEMMA RemainingAt ==
    ASSUME NEW s \in Seq(Text), NEW n \in 1 .. Len(s)
    PROVE  /\ Len(s) \in Nat \ {0}
           /\ Remaining(s, n, n) \in Seq(Text)
           /\ Len(Remaining(s, n, n)) = Len(s) - 1
           /\ \A i \in 1 .. Len(s) - 1 :
                Remaining(s, n, n)[i] = IF i < n THEN s[i] ELSE s[i + 1]
<1> DEFINE N      == Len(s)
           before == SubSeq(s, 1, n - 1)
           after  == SubSeq(s, n + 1, N)
<1>1. N \in Nat \ {0} /\ n \in Nat \ {0}
  BY LenProperties
<1>2. n - 1 \in 0 .. N /\ n + 1 \in 1 .. N + 1 /\ 1 \in 1 .. N + 1 /\ N \in 0 .. N
  BY <1>1
<1>3. /\ before \in Seq(Text) /\ Len(before) = n - 1
      /\ \A i \in 1 .. n - 1 : before[i] = s[i]
  <2> DEFINE m == n - 1
  <2>1. m \in 0 .. N /\ m \in Nat
    BY <1>1, <1>2
  <2> HIDE DEF m
  <2>2. /\ SubSeq(s, 1, m) \in Seq(Text)
        /\ Len(SubSeq(s, 1, m)) = IF 1 <= m THEN m - 1 + 1 ELSE 0
        /\ \A i \in 1 .. m - 1 + 1 : SubSeq(s, 1, m)[i] = s[1 + i - 1]
    BY <1>2, <2>1, PartOfSeq
  <2>3. m - 1 + 1 = m /\ \A i \in 1 .. m : 1 + i - 1 = i
    BY <2>1
  <2>4. (1 <= m \/ m = 0) /\ Len(SubSeq(s, 1, m)) = m
    BY <2>1, <2>2
  <2> QED
    BY <2>2, <2>3, <2>4 DEF m
<1>4. /\ after \in Seq(Text) /\ Len(after) = N - n
      /\ \A i \in 1 .. N - n : after[i] = s[n + i]
  <2> DEFINE m == n + 1
  <2>1. m \in 1 .. N + 1 /\ m \in Nat /\ N - m + 1 = N - n
        /\ (m <= N \/ N - m + 1 = 0)
    BY <1>1, <1>2
  <2>2. \A i \in 1 .. N - n : m + i - 1 = n + i
    BY <1>1
  <2> HIDE DEF m
  <2>3. /\ SubSeq(s, m, N) \in Seq(Text)
        /\ Len(SubSeq(s, m, N)) = IF m <= N THEN N - m + 1 ELSE 0
        /\ \A i \in 1 .. N - m + 1 : SubSeq(s, m, N)[i] = s[m + i - 1]
    BY <1>2, <2>1, PartOfSeq
  <2>4. Len(SubSeq(s, m, N)) = N - n
    BY <1>1, <2>1, <2>3
  <2> QED
    BY <2>1, <2>2, <2>3, <2>4 DEF m
<1>5. Remaining(s, n, n) = before \o after
  BY DEF Remaining
<1> HIDE DEF before, after
<1>6. /\ before \o after \in Seq(Text)
      /\ Len(before \o after) = Len(before) + Len(after)
      /\ \A i \in 1 .. Len(before) + Len(after) :
           (before \o after)[i] = IF i <= Len(before) THEN before[i]
                                                       ELSE after[i - Len(before)]
  BY <1>3, <1>4, ConcatProperties
<1> HIDE DEF N
<1>7. Len(before) + Len(after) = N - 1
  BY <1>1, <1>3, <1>4
<1>8. ASSUME NEW i \in 1 .. N - 1
      PROVE  (before \o after)[i] = IF i < n THEN s[i] ELSE s[i + 1]
  <2>1. CASE i < n
    <3>1. i <= n - 1 /\ i \in 1 .. n - 1
      BY <1>1, <2>1
    <3> QED
      BY <1>3, <1>6, <1>7, <2>1, <3>1
  <2>2. CASE ~(i < n)
    <3>1. ~(i <= n - 1) /\ i - (n - 1) \in 1 .. N - n /\ n + (i - (n - 1)) = i + 1
      BY <1>1, <2>2
    <3> QED
      BY <1>3, <1>4, <1>6, <1>7, <2>2, <3>1
  <2> QED
    BY <2>1, <2>2
<1> QED
  BY <1>1, <1>5, <1>6, <1>7, <1>8 DEF N

\* A part of the lines, when the deleted one lies before or behind it.
LEMMA PartsOfRemaining ==
    ASSUME NEW s \in Seq(Text), NEW n \in 1 .. Len(s),
           NEW first \in 1 .. n, NEW last \in n .. Len(s)
    PROVE  /\ SubSeq(Remaining(s, n, n), first, n - 1) = SubSeq(s, first, n - 1)
           /\ SubSeq(Remaining(s, n, n), n, last - 1) = SubSeq(s, n + 1, last)
<1> DEFINE r == Remaining(s, n, n)
           N == Len(s)
<1>1. /\ N \in Nat \ {0} /\ r \in Seq(Text) /\ Len(r) = N - 1
      /\ \A i \in 1 .. N - 1 : r[i] = IF i < n THEN s[i] ELSE s[i + 1]
  BY RemainingAt
<1> HIDE DEF r
<1>2. n \in Nat \ {0} /\ first \in Nat \ {0} /\ last \in Nat \ {0}
  BY <1>1
<1>3. SubSeq(r, first, n - 1) = SubSeq(s, first, n - 1)
  <2> DEFINE m == n - 1
             a == SubSeq(r, first, m)
             b == SubSeq(s, first, m)
  <2>1. m \in Nat /\ m \in 0 .. N /\ m \in 0 .. N - 1
        /\ first \in 1 .. N + 1 /\ first \in 1 .. (N - 1) + 1
    BY <1>1, <1>2
  <2>2. \A i \in 1 .. m - first + 1 :
          first + i - 1 \in 1 .. N - 1 /\ first + i - 1 < n
    BY <1>1, <1>2
  <2> HIDE DEF m
  <2>3. /\ a \in Seq(Text) /\ Len(a) = IF first <= m THEN m - first + 1 ELSE 0
        /\ \A i \in 1 .. m - first + 1 : a[i] = r[first + i - 1]
    BY <1>1, <2>1, PartOfSeq
  <2>4. /\ b \in Seq(Text) /\ Len(b) = IF first <= m THEN m - first + 1 ELSE 0
        /\ \A i \in 1 .. m - first + 1 : b[i] = s[first + i - 1]
    BY <2>1, PartOfSeq
  <2> HIDE DEF a, b
  <2>5. \A i \in 1 .. Len(a) : i \in 1 .. m - first + 1
    BY <2>1, <2>3
  <2>6. \A i \in 1 .. Len(a) : a[i] = b[i]
    BY <1>1, <2>2, <2>3, <2>4, <2>5
  <2>7. a = b
    BY <2>3, <2>4, <2>6, SeqEqual
  <2> QED
    BY <2>7 DEF a, b, m
<1>4. SubSeq(r, n, last - 1) = SubSeq(s, n + 1, last)
  <2> DEFINE m == last - 1
             k == n + 1
             a == SubSeq(r, n, m)
             b == SubSeq(s, k, last)
  <2>1. m \in Nat /\ m \in 0 .. N - 1 /\ n \in 1 .. (N - 1) + 1
        /\ k \in 1 .. N + 1 /\ last \in 0 .. N /\ k \in Nat
        /\ last - k + 1 = m - n + 1 /\ (n <= m <=> k <= last)
    BY <1>1, <1>2
  <2>2. \A i \in 1 .. m - n + 1 :
          /\ n + i - 1 \in 1 .. N - 1 /\ ~(n + i - 1 < n)
          /\ k + i - 1 = (n + i - 1) + 1
    BY <1>1, <1>2
  <2> HIDE DEF m, k
  <2>3. /\ a \in Seq(Text) /\ Len(a) = IF n <= m THEN m - n + 1 ELSE 0
        /\ \A i \in 1 .. m - n + 1 : a[i] = r[n + i - 1]
    BY <1>1, <2>1, PartOfSeq
  <2>4. /\ b \in Seq(Text) /\ Len(b) = IF k <= last THEN last - k + 1 ELSE 0
        /\ \A i \in 1 .. last - k + 1 : b[i] = s[k + i - 1]
    BY <2>1, PartOfSeq
  <2> HIDE DEF a, b
  <2>5. \A i \in 1 .. Len(a) : i \in 1 .. m - n + 1
    BY <1>2, <2>1, <2>3
  <2>6. \A i \in 1 .. Len(a) : a[i] = b[i]
    BY <1>1, <2>1, <2>2, <2>3, <2>4, <2>5
  <2>7. Len(a) = Len(b)
    BY <2>1, <2>3, <2>4
  <2>8. a = b
    BY <2>3, <2>4, <2>6, <2>7, SeqEqual
  <2> QED
    BY <2>8 DEF a, b, m, k
<1> QED
  BY <1>3, <1>4 DEF r

-----------------------------------------------------------------------------
(***************************************************************************)
(* G, line by line.  GlobalInv joins what the loop has passed to what      *)
(* still lies ahead of it: the texts seen, then the rest of the range,     *)
(* are the range as it was; and what lies behind the line is what the      *)
(* nested command leaves of the texts seen.                                *)
(***************************************************************************)

\* The loop g over these lines: what it has passed, and what lies ahead.
ExaminesOnce(g, lines) ==
    /\ g.line <= g.last + 1
    /\ g.last <= Len(lines)
    /\ g.seen \o SubSeq(lines, g.line, g.last) = g.range

KeepsUnselected(g, lines) ==
    LET kept == Unselected(g.seen, g.select)
        done == SubSeq(lines, g.first, g.line - 1)
    IN /\ g.nested.kind = "D" => done = kept
       /\ g.nested.kind \in {"P", "Z"} => done = g.seen
       /\ g.count = Len(g.seen) - Len(kept)

LoopInv(g, lines) ==
    /\ g.first \in 1 .. g.line
    /\ ExaminesOnce(g, lines)
    /\ KeepsUnselected(g, lines)

GlobalInv == global # NoGlobal => LoopInv(global, Cur.lines)

\* The loop begins at its first line, with nothing examined.
LEMMA LoopBegins ==
    ASSUME NEW lines \in Seq(Text), NEW g \in GlobalLoop,
           g.line \in 1 .. Len(lines), g.last \in g.line .. Len(lines),
           g.first = g.line, g.count = 0, g.seen = <<>>,
           g.range = SubSeq(lines, g.line, g.last)
    PROVE  LoopInv(g, lines)
<1>1. g.line \in Nat /\ g.last \in Nat /\ Len(lines) \in Nat
  BY LenProperties DEF GlobalLoop
<1>2. g.range \in Seq(Text)
  BY DEF GlobalLoop
<1>3. g.seen \o g.range = g.range
  BY <1>2, ConcatEmptySeq
<1>4. ExaminesOnce(g, lines)
  BY <1>1, <1>3 DEF ExaminesOnce
<1>5. SubSeq(lines, g.first, g.line - 1) = <<>>
  <2>1. g.line - 1 \in Int /\ g.line - 1 < g.line /\ g.line \in Int
    BY <1>1
  <2> QED
    BY <2>1, SubSeqEmpty
<1>6. Unselected(g.seen, g.select) = <<>> /\ Len(g.seen) = 0
  BY UnselectedOfNone
<1>7. Len(g.seen) - Len(Unselected(g.seen, g.select)) = 0
  BY <1>6
<1>8. KeepsUnselected(g, lines)
  BY <1>5, <1>6, <1>7 DEF KeepsUnselected
<1> QED
  BY <1>1, <1>4, <1>8 DEF LoopInv

\* h is g after the line has been examined.
Examines(g, h, t) ==
    /\ h.first = g.first /\ h.range = g.range
    /\ h.select = g.select /\ h.nested = g.nested
    /\ h.seen = Append(g.seen, t)
    /\ h.count = IF t \in g.select THEN g.count + 1 ELSE g.count

\* The counter counts.
LEMMA LoopCounts ==
    ASSUME NEW g \in GlobalLoop, NEW h \in GlobalLoop, NEW t \in Text,
           Examines(g, h, t),
           g.count = Len(g.seen) - Len(Unselected(g.seen, g.select))
    PROVE  h.count = Len(h.seen) - Len(Unselected(h.seen, h.select))
<1> DEFINE seen == g.seen
           kept == Unselected(seen, g.select)
<1>1. seen \in Seq(Text) /\ Len(seen) \in Nat
  BY LenProperties DEF GlobalLoop
<1> HIDE DEF seen
<1>2. kept \in Seq(Text) /\ Len(kept) \in Nat
  BY <1>1, UnselectedIsText, LenProperties
<1>3. Unselected(Append(seen, t), g.select) =
        IF t \in g.select THEN kept ELSE Append(kept, t)
  BY <1>1, UnselectedAndOne
<1> HIDE DEF kept
<1>4. /\ Len(Append(seen, t)) = Len(seen) + 1
      /\ Len(Append(kept, t)) = Len(kept) + 1
  BY <1>1, <1>2, AppendProperties
<1>5. /\ g.count = Len(seen) - Len(kept)
      /\ h.seen = Append(seen, t) /\ h.select = g.select
      /\ h.count = IF t \in g.select THEN g.count + 1 ELSE g.count
  BY DEF Examines, seen, kept
<1>6. CASE t \in g.select
  <2>1. h.count = (Len(seen) - Len(kept)) + 1
    BY <1>5, <1>6
  <2>2. Len(h.seen) - Len(Unselected(h.seen, h.select))
          = (Len(seen) + 1) - Len(kept)
    BY <1>3, <1>4, <1>5, <1>6
  <2> QED
    BY <1>1, <1>2, <2>1, <2>2
<1>7. CASE t \notin g.select
  <2>1. h.count = Len(seen) - Len(kept)
    BY <1>5, <1>7
  <2>2. Len(h.seen) - Len(Unselected(h.seen, h.select))
          = (Len(seen) + 1) - (Len(kept) + 1)
    BY <1>3, <1>4, <1>5, <1>7
  <2> QED
    BY <1>1, <1>2, <2>1, <2>2
<1> QED
  BY <1>6, <1>7

\* The line stays, perhaps rewritten.
LEMMA LoopPasses ==
    ASSUME NEW old \in Seq(Text), NEW new \in Seq(Text), Len(new) = Len(old),
           NEW g \in GlobalLoop, NEW h \in GlobalLoop, LoopInv(g, old),
           g.line \in 1 .. Len(old), g.line <= g.last,
           h.line = g.line + 1, h.last = g.last, Examines(g, h, old[g.line]),
           \A i \in 1 .. Len(old) : i # g.line => new[i] = old[i],
           g.nested.kind \in {"P", "D", "Z"} => new = old,
           old[g.line] \in g.select => g.nested.kind # "D"
    PROVE  LoopInv(h, new)
<1> DEFINE n    == g.line
           last == g.last
           t    == old[n]
           N    == Len(old)
<1>1. /\ N \in Nat /\ n \in 1 .. N /\ last \in n .. N /\ t \in Text
      /\ g.first \in 1 .. n /\ g.seen \in Seq(Text)
  BY LenProperties, ElementOfSeq DEF LoopInv, ExaminesOnce, GlobalLoop
<1>2. /\ h.line = n + 1 /\ h.last = last /\ h.first = g.first
      /\ h.seen = Append(g.seen, t) /\ h.range = g.range
      /\ h.select = g.select /\ h.nested = g.nested
  BY DEF Examines
<1>3. \A i \in n + 1 .. last : i \in 1 .. N /\ i # n
  BY <1>1
<1>4. \A i \in n + 1 .. last : new[i] = old[i]
  BY <1>3
<1>5. Append(g.seen, t) \o SubSeq(new, n + 1, last)
        = g.seen \o SubSeq(old, n, last)
  BY <1>1, <1>4, AheadOfALine
<1>6. h.line <= h.last + 1 /\ h.last <= Len(new)
  <2> HIDE DEF n, last, N
  <2>1. n + 1 <= last + 1 /\ last <= N
    BY <1>1
  <2> QED
    BY <1>2, <2>1 DEF N
<1>7. ExaminesOnce(h, new)
  BY <1>2, <1>5, <1>6 DEF LoopInv, ExaminesOnce
<1>8. h.first \in 1 .. h.line
  <2> HIDE DEF n, last, N
  <2>1. g.first \in 1 .. n + 1
    BY <1>1
  <2> QED
    BY <1>2, <2>1
<1>9. h.count = Len(h.seen) - Len(Unselected(h.seen, h.select))
  BY <1>1, LoopCounts DEF LoopInv, KeepsUnselected
<1>10. ASSUME g.nested.kind \in {"P", "D", "Z"}
       PROVE  SubSeq(new, h.first, h.line - 1)
                = Append(SubSeq(old, g.first, n - 1), t)
  <2> DEFINE done == SubSeq(old, g.first, n - 1)
  <2>1. h.line - 1 = n
    BY <1>1, <1>2
  <2>2. SubSeq(old, g.first, n) = done \o <<t>>
    <3>1. g.first \in 1 .. Len(old) /\ n \in g.first .. Len(old)
      BY <1>1
    <3> HIDE DEF n
    <3> QED
      BY <3>1, SubSeqRecursiveSecond
  <2>3. done \in Seq(Text)
    <3> DEFINE m == n - 1
    <3>1. m \in 0 .. Len(old) /\ g.first \in 1 .. Len(old) + 1
      BY <1>1
    <3> HIDE DEF m
    <3>2. SubSeq(old, g.first, m) \in Seq(Text)
      BY <3>1, PartOfSeq
    <3> QED
      BY <3>2 DEF m
  <2> HIDE DEF done
  <2>4. Append(done, t) = done \o <<t>>
    BY <1>1, <2>3, AppendIsConcat
  <2>5. new = old
    BY <1>10
  <2> QED
    BY <1>2, <2>1, <2>2, <2>4, <2>5 DEF done
<1>11. h.nested.kind = "D" =>
         SubSeq(new, h.first, h.line - 1) = Unselected(h.seen, h.select)
  <2> SUFFICES ASSUME g.nested.kind = "D"
               PROVE  SubSeq(new, h.first, h.line - 1)
                        = Unselected(Append(g.seen, t), g.select)
    BY <1>2
  <2>1. t \notin g.select
    OBVIOUS
  <2>2. Unselected(Append(g.seen, t), g.select)
          = Append(Unselected(g.seen, g.select), t)
    BY <1>1, <2>1, UnselectedAndOne
  <2>3. SubSeq(old, g.first, n - 1) = Unselected(g.seen, g.select)
    BY DEF LoopInv, KeepsUnselected
  <2> QED
    BY <1>10, <2>2, <2>3
<1>12. h.nested.kind \in {"P", "Z"} =>
         SubSeq(new, h.first, h.line - 1) = h.seen
  <2> SUFFICES ASSUME g.nested.kind \in {"P", "Z"}
               PROVE  SubSeq(new, h.first, h.line - 1) = Append(g.seen, t)
    BY <1>2
  <2>1. SubSeq(old, g.first, n - 1) = g.seen
    BY DEF LoopInv, KeepsUnselected
  <2> QED
    BY <1>10, <2>1
<1> QED
  BY <1>7, <1>8, <1>9, <1>11, <1>12 DEF LoopInv, KeepsUnselected

\* The line goes: the loop stays where it is, and its end comes nearer.
LEMMA LoopDeletes ==
    ASSUME NEW old \in Seq(Text),
           NEW g \in GlobalLoop, NEW h \in GlobalLoop, LoopInv(g, old),
           g.line \in 1 .. Len(old), g.line <= g.last,
           h.line = g.line, h.last = g.last - 1, Examines(g, h, old[g.line]),
           old[g.line] \in g.select, g.nested.kind = "D"
    PROVE  LoopInv(h, Remaining(old, g.line, g.line))
<1> DEFINE n    == g.line
           last == g.last
           t    == old[n]
           N    == Len(old)
           new  == Remaining(old, n, n)
<1>1. /\ N \in Nat /\ n \in 1 .. N /\ last \in n .. N /\ t \in Text
      /\ g.first \in 1 .. n /\ g.seen \in Seq(Text)
  BY LenProperties, ElementOfSeq DEF LoopInv, ExaminesOnce, GlobalLoop
<1>2. /\ h.line = n /\ h.last = last - 1 /\ h.first = g.first
      /\ h.seen = Append(g.seen, t) /\ h.range = g.range
      /\ h.select = g.select /\ h.nested = g.nested
  BY DEF Examines
<1>3. /\ SubSeq(new, g.first, n - 1) = SubSeq(old, g.first, n - 1)
      /\ SubSeq(new, n, last - 1) = SubSeq(old, n + 1, last)
  BY <1>1, PartsOfRemaining
<1>4. Len(new) = N - 1
  BY <1>1, RemainingAt
<1> HIDE DEF new
<1>5. Append(g.seen, t) \o SubSeq(old, n + 1, last)
        = g.seen \o SubSeq(old, n, last)
  BY <1>1, AheadOfALine
<1>6. h.line <= h.last + 1 /\ h.last <= Len(new) /\ h.first \in 1 .. h.line
  <2> HIDE DEF n, last, N
  <2>1. n <= (last - 1) + 1 /\ last - 1 <= N - 1
    BY <1>1
  <2> QED
    BY <1>1, <1>2, <1>4, <2>1
<1>7. ExaminesOnce(h, new)
  BY <1>2, <1>3, <1>5, <1>6 DEF LoopInv, ExaminesOnce
<1>8. h.count = Len(h.seen) - Len(Unselected(h.seen, h.select))
  BY <1>1, LoopCounts DEF LoopInv, KeepsUnselected
<1>9. SubSeq(new, h.first, h.line - 1) = Unselected(h.seen, h.select)
  <2>1. Unselected(Append(g.seen, t), g.select) = Unselected(g.seen, g.select)
    BY <1>1, UnselectedAndOne
  <2>2. SubSeq(old, g.first, n - 1) = Unselected(g.seen, g.select)
    BY DEF LoopInv, KeepsUnselected
  <2> QED
    BY <1>2, <1>3, <2>1, <2>2
<1>10. h.nested.kind = "D"
  BY <1>2
<1>11. LoopInv(h, new)
  BY <1>6, <1>7, <1>8, <1>9, <1>10 DEF LoopInv, KeepsUnselected
<1> QED
  BY <1>11 DEF new

\* A substitution changes the matched lines alone.
LEMMA SubstitutedLines ==
    ASSUME NEW b, BufferOK(b), NEW s \in Substitutions,
           NEW n \in 1 .. LineCount(b), b.lines[n] \in DOMAIN s
    PROVE  /\ BufferOK(Substituted(b, s, {n}, n))
           /\ Substituted(b, s, {n}, n).lines \in Seq(Text)
           /\ Len(Substituted(b, s, {n}, n).lines) = Len(b.lines)
           /\ \A i \in 1 .. Len(b.lines) : i # n =>
                Substituted(b, s, {n}, n).lines[i] = b.lines[i]
<1> DEFINE new == [i \in 1 .. Len(b.lines) |->
                     IF i \in {n} THEN s[b.lines[i]] ELSE b.lines[i]]
           b2  == Substituted(b, s, {n}, n)
<1>1. BufferOK(b2) /\ b2.lines \in Seq(Text)
  <2>1. n \in {n} /\ {n} \subseteq 1 .. LineCount(b)
        /\ \A i \in {n} : b.lines[i] \in DOMAIN s
    OBVIOUS
  <2> QED
    BY <2>1, SubstitutedOK
<1>2. b2.lines = new
  <2>1. b \in BufferRecord
    BY DEF BufferOK
  <2>2. b2 = [b EXCEPT !.lines = new, !.current_line = n,
                       !.modified = b.modified \/ new # b.lines]
    BY DEF Substituted
  <2> HIDE DEF new, b2
  <2> QED
    BY <2>1, <2>2 DEF BufferRecord
<1>3. DOMAIN new = 1 .. Len(b.lines)
  OBVIOUS
<1>4. Len(b.lines) \in Nat
  BY LenProperties DEF BufferOK, BufferRecord
<1>5. Len(b2.lines) = Len(b.lines)
  <2>1. Len(b2.lines) \in Nat /\ DOMAIN b2.lines = 1 .. Len(b2.lines)
    BY <1>1, LenProperties
  <2> HIDE DEF new, b2
  <2> QED
    BY <1>2, <1>3, <1>4, <2>1
<1>6. \A i \in 1 .. Len(b.lines) : i # n => new[i] = b.lines[i]
  OBVIOUS
<1> HIDE DEF new, b2
<1>7. \A i \in 1 .. Len(b.lines) : i # n => b2.lines[i] = b.lines[i]
  BY <1>2, <1>6
<1> QED
  BY <1>1, <1>5, <1>7 DEF b2

\* A line examined is passed, and counted if it is selected.
LEMMA PassedLoop ==
    ASSUME IInv, GlobalInv, global # NoGlobal, Looping
    PROVE  /\ global \in GlobalLoop /\ LoopInv(global, Cur.lines)
           /\ Cur.lines \in Seq(Text) /\ Examined = Cur.lines[global.line]
           /\ global.line \in 1 .. Len(Cur.lines) /\ global.line <= global.last
           /\ Passed \in GlobalLoop /\ PassedSelected \in GlobalLoop
           /\ Passed.line = global.line + 1 /\ Passed.last = global.last
           /\ PassedSelected.line = global.line + 1
           /\ PassedSelected.last = global.last
           /\ Examined \notin global.select => Examines(global, Passed, Examined)
           /\ Examined \in global.select =>
                Examines(global, PassedSelected, Examined)
<1>1. /\ global \in GlobalLoop /\ Passed \in GlobalLoop
      /\ PassedSelected \in GlobalLoop
      /\ global.line \in 1 .. LineCount(Cur) /\ global.line <= global.last
  BY PassedType
<1>2. /\ Passed.line = global.line + 1 /\ Passed.last = global.last
      /\ Passed.count = global.count /\ Passed.first = global.first
      /\ Passed.range = global.range /\ Passed.select = global.select
      /\ Passed.nested = global.nested
      /\ Passed.seen = Append(global.seen, Examined)
  BY <1>1 DEF Passed, GlobalLoop
<1>3. PassedSelected = [Passed EXCEPT !.count = Passed.count + 1]
  BY DEF PassedSelected
<1> HIDE DEF Passed, PassedSelected
<1>4. /\ PassedSelected.line = Passed.line /\ PassedSelected.last = Passed.last
      /\ PassedSelected.count = Passed.count + 1
      /\ PassedSelected.first = Passed.first
      /\ PassedSelected.range = Passed.range
      /\ PassedSelected.select = Passed.select
      /\ PassedSelected.nested = Passed.nested
      /\ PassedSelected.seen = Passed.seen
  BY <1>1, <1>3 DEF GlobalLoop
<1>5. Examined \notin global.select => Examines(global, Passed, Examined)
  BY <1>2 DEF Examines
<1>6. Examined \in global.select => Examines(global, PassedSelected, Examined)
  BY <1>2, <1>4 DEF Examines
<1>7. /\ Cur.lines \in Seq(Text) /\ LineCount(Cur) = Len(Cur.lines)
      /\ Examined = Cur.lines[global.line]
  BY CurOK DEF Examined
<1> QED
  BY <1>1, <1>2, <1>4, <1>5, <1>6, <1>7 DEF GlobalInv

\* P, Z and a line not selected leave the lines as they are.
LEMMA SameLines ==
    ASSUME IInv, GlobalInv, global # NoGlobal, Looping,
           global' = IF Examined \in global.select THEN PassedSelected ELSE Passed,
           Examined \in global.select => global.nested.kind # "D",
           NEW lines, lines = Cur.lines
    PROVE  LoopInv(global', lines)
<1> DEFINE h == IF Examined \in global.select THEN PassedSelected ELSE Passed
<1>1. h \in GlobalLoop /\ Examines(global, h, Examined)
      /\ h.line = global.line + 1 /\ h.last = global.last
  BY PassedLoop
<1>2. global' = h
  OBVIOUS
<1> HIDE DEF h
<1>3. LoopInv(h, lines)
  BY <1>1, PassedLoop, LoopPasses
<1> QED
  BY <1>2, <1>3

LEMMA GlobalSkipLoop ==
    ASSUME IInv, GlobalInv, GlobalSkip
    PROVE  GlobalInv'
<1>1. /\ global # NoGlobal /\ Looping /\ Examined \notin global.select
      /\ global' = Passed /\ mgr' = mgr
  BY DEF GlobalSkip
<1>2. Cur' = Cur
  BY <1>1 DEF Cur, CurrentBuffer
<1>3. LoopInv(global', Cur'.lines)
  BY <1>1, <1>2, SameLines
<1> QED
  BY <1>3 DEF GlobalInv

LEMMA GlobalMarkLoop ==
    ASSUME IInv, GlobalInv, GlobalPrint \/ GlobalZap
    PROVE  GlobalInv'
<1>1. /\ global # NoGlobal /\ Looping /\ Examined \in global.select
      /\ global.nested.kind # "D" /\ global' = PassedSelected
      /\ mgr' = PutCurrent(mgr, SetCurrentLine(Cur, global.line))
  BY DEF GlobalPrint, GlobalZap, AtLine
<1> DEFINE b == SetCurrentLine(Cur, global.line)
<1>2. BufferOK(b) /\ ManagerCore(mgr)
  BY <1>1, CurOK, PassedType, SetCurrentLineOK
<1>3. b.lines = Cur.lines
  BY CurOK DEF SetCurrentLine, BufferOK, BufferRecord
<1>4. mgr' = PutCurrent(mgr, b)
  BY <1>1
<1> HIDE DEF b
<1>5. Cur' = b
  BY <1>2, <1>4, PutCurrentOK DEF Cur
<1>6. LoopInv(global', Cur'.lines)
  BY <1>1, <1>3, <1>5, SameLines
<1> QED
  BY <1>6 DEF GlobalInv

LEMMA GlobalDeleteLoop ==
    ASSUME IInv, GlobalInv, GlobalDelete
    PROVE  GlobalInv'
<1> DEFINE n == global.line
           b == Erase(Cur, n, n)
           h == [PassedSelected EXCEPT !.line = n,
                                       !.last = PassedSelected.last - 1]
<1>1. /\ global # NoGlobal /\ Looping /\ Examined \in global.select
      /\ global.nested.kind = "D" /\ global' = h
      /\ mgr' = PutCurrent(mgr, b)
  BY DEF GlobalDelete, AtLine
<1>2. h \in GlobalLoop
  BY <1>1, ShrunkLoop
<1>3. /\ h.line = n /\ h.last = global.last - 1
      /\ Examines(global, h, Cur.lines[n])
  <2>1. /\ PassedSelected \in GlobalLoop /\ PassedSelected.last = global.last
        /\ Examines(global, PassedSelected, Cur.lines[n])
    BY <1>1, PassedLoop
  <2>2. /\ h.line = n /\ h.last = PassedSelected.last - 1
        /\ h.count = PassedSelected.count /\ h.first = PassedSelected.first
        /\ h.range = PassedSelected.range /\ h.select = PassedSelected.select
        /\ h.nested = PassedSelected.nested /\ h.seen = PassedSelected.seen
    BY <2>1 DEF GlobalLoop
  <2> HIDE DEF h
  <2> QED
    BY <2>1, <2>2 DEF Examines
<1>4. BufferOK(b) /\ ManagerCore(mgr)
  <2>1. n \in 1 .. LineCount(Cur) /\ n \in n .. LineCount(Cur)
    BY <1>1, PassedType, CurOK
  <2> QED
    BY <2>1, CurOK, EraseOK
<1>5. b.lines = Remaining(Cur.lines, n, n)
  BY CurOK DEF Erase, Edited, BufferOK, BufferRecord
<1> HIDE DEF h, b
<1>6. Cur' = b
  BY <1>1, <1>4, PutCurrentOK DEF Cur
<1>7. LoopInv(h, Remaining(Cur.lines, n, n))
  BY <1>1, <1>2, <1>3, PassedLoop, LoopDeletes
<1> QED
  BY <1>1, <1>5, <1>6, <1>7 DEF GlobalInv

LEMMA GlobalSubstituteLoop ==
    ASSUME IInv, GlobalInv, GlobalSubstitute
    PROVE  GlobalInv'
<1> DEFINE n   == global.line
           s   == global.nested.substitution
           new == Substituted(Cur, s, {n}, n)
<1>1. /\ global # NoGlobal /\ Looping /\ Examined \in global.select
      /\ global.nested.kind = "S"
  BY DEF GlobalSubstitute, AtLine
<1>2. CASE Examined \notin DOMAIN s
  <2>1. global' = NoGlobal
    BY <1>2 DEF GlobalSubstitute
  <2> QED
    BY <2>1 DEF GlobalInv
<1>3. CASE Examined \in DOMAIN s
  <2>1. mgr' = PutCurrent(mgr, new) /\ global' = PassedSelected
    BY <1>3 DEF GlobalSubstitute
  <2>2. s \in Substitutions
    <3>1. global.nested \in NestedCommands
      BY <1>1, PassedLoop DEF GlobalLoop
    <3> QED
      BY <1>1, <3>1 DEF NestedCommands, SimpleNested, NestedSubstitute
  <2>3. /\ n \in 1 .. LineCount(Cur) /\ Cur.lines[n] \in DOMAIN s
        /\ BufferOK(Cur) /\ ManagerCore(mgr)
    BY <1>1, <1>3, PassedType, CurOK DEF Examined
  <2> HIDE DEF s
  <2>4. /\ BufferOK(new) /\ new.lines \in Seq(Text)
        /\ Len(new.lines) = Len(Cur.lines)
        /\ \A i \in 1 .. Len(Cur.lines) : i # n => new.lines[i] = Cur.lines[i]
    BY <2>2, <2>3, SubstitutedLines
  <2> HIDE DEF new
  <2>5. Cur' = new
    BY <2>1, <2>3, <2>4, PutCurrentOK DEF Cur
  <2>6. LoopInv(PassedSelected, new.lines)
    <3> DEFINE lines == new.lines
    <3>1. /\ lines \in Seq(Text) /\ Len(lines) = Len(Cur.lines)
          /\ \A i \in 1 .. Len(Cur.lines) : i # n => lines[i] = Cur.lines[i]
      BY <2>4
    <3>2. /\ global \in GlobalLoop /\ PassedSelected \in GlobalLoop
          /\ Cur.lines \in Seq(Text) /\ LoopInv(global, Cur.lines)
          /\ n \in 1 .. Len(Cur.lines) /\ n <= global.last
          /\ PassedSelected.line = n + 1 /\ PassedSelected.last = global.last
          /\ Examines(global, PassedSelected, Cur.lines[n])
      BY <1>1, PassedLoop
    <3> HIDE DEF lines
    <3>3. LoopInv(PassedSelected, lines)
      BY <1>1, <3>1, <3>2, LoopPasses
    <3> QED
      BY <3>3 DEF lines
  <2> QED
    BY <2>1, <2>5, <2>6 DEF GlobalInv
<1> QED
  BY <1>2, <1>3

LEMMA BeginGlobalLoop ==
    ASSUME IInv, GlobalInv, BeginGlobal
    PROVE  GlobalInv'
<1>1. PICK a \in TypedAddresses, select \in Selections, nested \in NestedCommands :
        \/ \E r \in GlobalRanges(a, Cur) :
             global' = [ line  |-> r.first, last |-> r.last, count |-> 0,
                         select |-> select, nested |-> nested,
                         first |-> r.first,
                         range |-> SubSeq(Cur.lines, r.first, r.last),
                         seen  |-> <<>> ]
        \/ UNCHANGED global
  BY DEF BeginGlobal
<1>2. global = NoGlobal /\ mgr' = mgr
  BY DEF BeginGlobal, Ready
<1>3. Cur' = Cur
  BY <1>2 DEF Cur, CurrentBuffer
<1>4. CASE UNCHANGED global
  BY <1>2, <1>4 DEF GlobalInv
<1>5. ASSUME NEW r \in GlobalRanges(a, Cur),
             global' = [ line  |-> r.first, last |-> r.last, count |-> 0,
                         select |-> select, nested |-> nested,
                         first |-> r.first,
                         range |-> SubSeq(Cur.lines, r.first, r.last),
                         seen  |-> <<>> ]
      PROVE  GlobalInv'
  <2>1. IInv'
    BY BeginGlobalStep
  <2>2. global' # NoGlobal => global' \in GlobalLoop
    BY <2>1 DEF IInv, TypeOK
  <2>3. /\ global'.line = r.first /\ global'.last = r.last /\ global'.count = 0
        /\ global'.first = r.first /\ global'.seen = <<>>
        /\ global'.range = SubSeq(Cur.lines, r.first, r.last)
    BY <1>5
  <2>4. /\ r.first \in 1 .. Len(Cur.lines)
        /\ r.last \in r.first .. Len(Cur.lines)
    <3>1. LineCount(Cur) = Len(Cur.lines) /\ Len(Cur.lines) \in Nat
          /\ BufferOK(Cur)
      BY CurOK
    <3>2. CASE a = NoAddress
      BY <3>1, <3>2 DEF GlobalRanges, LineRange
    <3>3. CASE a # NoAddress
      BY <3>1, <3>3, EvaluateInBuffer DEF GlobalRanges
    <3> QED
      BY <3>2, <3>3
  <2>5. global' # NoGlobal => LoopInv(global', Cur.lines)
    <3> DEFINE g == global'
    <3>1. g # NoGlobal => g \in GlobalLoop
      BY <2>2
    <3>2. /\ g.line \in 1 .. Len(Cur.lines) /\ g.last \in g.line .. Len(Cur.lines)
          /\ g.first = g.line /\ g.count = 0 /\ g.seen = <<>>
          /\ g.range = SubSeq(Cur.lines, g.line, g.last)
      BY <2>3, <2>4
    <3> HIDE DEF g
    <3>3. g # NoGlobal => LoopInv(g, Cur.lines)
      BY <3>1, <3>2, CurOK, LoopBegins
    <3> QED
      BY <3>3 DEF g
  <2> QED
    BY <1>3, <2>5 DEF GlobalInv
<1> QED
  BY <1>1, <1>4, <1>5

\* Nothing else happens while G loops.
LEMMA NextLoop == IInv /\ GlobalInv /\ [Next]_vars => GlobalInv'
<1> SUFFICES ASSUME IInv, GlobalInv, [Next]_vars PROVE GlobalInv'
  OBVIOUS
<1>1. ASSUME global = NoGlobal, UNCHANGED global
      PROVE  GlobalInv'
  BY <1>1 DEF GlobalInv
<1>2. CASE LineCommand
  BY <1>1, <1>2
  DEF LineCommand, PrintLines, Delete, Zap, Transfer, Substitute, Ready
<1>3. CASE TextCommand
  BY <1>1, <1>3
  DEF TextCommand, AppendText, InsertBefore, Change, TextInputInsideGather,
      ExecuteAppend, ExecuteInsert, ExecuteChange, Ready
<1>4. CASE BufferCommand
  BY <1>1, <1>4 DEF BufferCommand, Move, MoveLines, SelectBuffer, Ready
<1>5. CASE FileCommand
  BY <1>1, <1>5 DEF FileCommand, Read, Write, List, Ready
<1>6. CASE OtherCommand
  BY <1>1, <1>6
  DEF OtherCommand, Facts, Option, Quit, QuitImmediately, Message, System,
      Comment, Ready
<1>7. CASE GatherCommand
  BY <1>1, <1>7 DEF GatherCommand, BeginGather, EndGather, Ready
<1>8. CASE GlobalCommand
  <2>1. CASE GlobalEnd
    BY <2>1 DEF GlobalEnd, GlobalInv
  <2> QED
    BY <1>8, <2>1, BeginGlobalLoop, GlobalSkipLoop, GlobalMarkLoop,
       GlobalDeleteLoop, GlobalSubstituteLoop
    DEF GlobalCommand, GlobalStep
<1>9. CASE UNCHANGED vars
  BY <1>9 DEF vars, GlobalInv, Cur, CurrentBuffer
<1> QED
  BY <1>2, <1>3, <1>4, <1>5, <1>6, <1>7, <1>8, <1>9 DEF Next

LEMMA LoopInvariant == Spec => [](IInv /\ GlobalInv)
<1>1. Init => GlobalInv
  BY DEF Init, GlobalInv
<1> QED
  BY <1>1, InitIInv, NextIInv, NextLoop, PTL DEF Spec

-----------------------------------------------------------------------------
(***************************************************************************)
(* M, line by line.  The lines it takes, put back where they stood, make   *)
(* the source what it was; they are all the destination holds; and no      *)
(* other buffer is touched by the selections on the way.                   *)
(***************************************************************************)

\* Two sequences put together come apart at the end of the first.
LEMMA PartsOfTwo ==
    ASSUME NEW s \in Seq(Text), NEW t \in Seq(Text)
    PROVE  /\ SubSeq(s \o t, 1, Len(s)) = s
           /\ SubSeq(s \o t, Len(s) + 1, Len(s \o t)) = t
<1>1. /\ Len(s) \in Nat /\ Len(t) \in Nat
      /\ s \o t \in Seq(Text) /\ Len(s \o t) = Len(s) + Len(t)
  BY TwoParts
<1>2. SubSeq(s \o t, 1, Len(s)) = s
  <2>1. CASE Len(s) = 0
    <3>1. s = <<>>
      BY <2>1, EmptySeq
    <3>2. SubSeq(s \o t, 1, 0) = <<>>
      BY SubSeqEmpty
    <3> QED
      BY <2>1, <3>1, <3>2
  <2>2. CASE Len(s) # 0
    <3>1. 1 \in 1 .. Len(s) /\ Len(s) \in 1 .. Len(s)
      BY <1>1, <2>2
    <3> QED
      BY <3>1, SubSeqOfConcat1, SubSeqFull
  <2> QED
    BY <2>1, <2>2
<1>3. SubSeq(s \o t, Len(s) + 1, Len(s \o t)) = t
  <2>1. CASE Len(t) = 0
    <3>1. t = <<>>
      BY <2>1, EmptySeq
    <3>2. SubSeq(s \o t, Len(s) + 1, Len(s)) = <<>>
      BY <1>1, SubSeqEmpty
    <3> QED
      BY <1>1, <2>1, <3>1, <3>2
  <2>2. CASE Len(t) # 0
    <3> DEFINE m == Len(s) + 1
               n == Len(s) + Len(t)
    <3>1. /\ m \in Len(s) + 1 .. Len(s) + Len(t)
          /\ n \in Len(s) + 1 .. Len(s) + Len(t)
          /\ m - Len(s) = 1 /\ n - Len(s) = Len(t)
      BY <1>1, <2>2
    <3> HIDE DEF m, n
    <3>2. SubSeq(s \o t, m, n) = SubSeq(t, m - Len(s), n - Len(s))
      BY <3>1, SubSeqOfConcat2
    <3> QED
      BY <1>1, <3>1, <3>2, SubSeqFull DEF m, n
  <2> QED
    BY <2>1, <2>2
<1> QED
  BY <1>2, <1>3

\* What is taken out of the lines and put back makes them what they were.
LEMMA TakenAndPutBack ==
    ASSUME NEW s \in Seq(Text),
           NEW first \in 1 .. Len(s), NEW last \in first .. Len(s)
    PROVE  PutBack(Remaining(s, first, last), SubSeq(s, first, last), first) = s
<1> DEFINE before == SubSeq(s, 1, first - 1)
           taken  == SubSeq(s, first, last)
           after  == SubSeq(s, last + 1, Len(s))
<1>1. Len(s) \in Nat
  BY LenProperties
<1>2. /\ before \in Seq(Text) /\ Len(before) = first - 1
      /\ after \in Seq(Text)
  <2> DEFINE m == first - 1
  <2>1. /\ m \in 0 .. Len(s) /\ m \in Nat /\ 1 \in 1 .. Len(s) + 1
        /\ last + 1 \in 1 .. Len(s) + 1 /\ Len(s) \in 0 .. Len(s)
    BY <1>1
  <2>2. m - 1 + 1 = m /\ (1 <= m \/ m = 0)
    BY <2>1
  <2> HIDE DEF m
  <2>3. /\ SubSeq(s, 1, m) \in Seq(Text)
        /\ Len(SubSeq(s, 1, m)) = IF 1 <= m THEN m - 1 + 1 ELSE 0
    BY <2>1, PartOfSeq
  <2>4. Len(SubSeq(s, 1, m)) = m
    BY <2>1, <2>2, <2>3
  <2>5. after \in Seq(Text)
    BY <2>1, PartOfSeq
  <2> QED
    BY <2>3, <2>4, <2>5 DEF m
<1>3. before \o taken = SubSeq(s, 1, last)
  <2>1. /\ 1 \in 1 .. Len(s) + 1 /\ first - 1 \in 1 - 1 .. Len(s)
        /\ last \in first - 1 .. Len(s) /\ (first - 1) + 1 = first
    BY <1>1
  <2>2. SubSeq(s, 1, first - 1) \o SubSeq(s, (first - 1) + 1, last)
          = SubSeq(s, 1, last)
    BY <2>1, ConcatAdjacentSubSeq
  <2> QED
    BY <2>1, <2>2
<1>4. SubSeq(s, 1, last) \o after = s
  <2>1. /\ 1 \in 1 .. Len(s) + 1 /\ last \in 1 - 1 .. Len(s)
        /\ Len(s) \in last .. Len(s)
    BY <1>1
  <2>2. SubSeq(s, 1, last) \o after = SubSeq(s, 1, Len(s))
    BY <2>1, ConcatAdjacentSubSeq
  <2> QED
    BY <2>2, SubSeqFull
<1>5. Remaining(s, first, last) = before \o after
  BY DEF Remaining
<1> DEFINE kept == Remaining(s, first, last)
<1> HIDE DEF before, after
<1>6. /\ SubSeq(kept, 1, first - 1) = before
      /\ SubSeq(kept, first, Len(kept)) = after
  <2>1. Len(before) + 1 = first
    BY <1>1, <1>2
  <2>2. /\ SubSeq(before \o after, 1, Len(before)) = before
        /\ SubSeq(before \o after, Len(before) + 1, Len(before \o after)) = after
    BY <1>2, PartsOfTwo
  <2>3. kept = before \o after
    BY <1>5
  <2> HIDE DEF kept
  <2> QED
    BY <1>2, <2>1, <2>2, <2>3
<1> HIDE DEF kept, taken
<1>7. PutBack(kept, taken, first) = (before \o taken) \o after
  BY <1>6 DEF PutBack
<1>8. PutBack(kept, taken, first) = s
  BY <1>3, <1>4, <1>7
<1> QED
  BY <1>8 DEF kept, taken

\* What a refilled buffer holds.
LEMMA RefilledLines ==
    ASSUME NEW b, BufferOK(b), NEW new \in Seq(Text)
    PROVE  /\ Refilled(b, new).lines = new
           /\ Refilled(b, new).current_line = Len(new)
<1> DEFINE c == IF IsEmpty(b) THEN b ELSE Erase(b, 1, LineCount(b))
<1>1. /\ b \in BufferRecord /\ b.lines \in Seq(Text) /\ Len(b.lines) \in Nat
      /\ Len(new) \in Nat
  BY LenProperties DEF BufferOK, BufferRecord
<1>2. c \in BufferRecord /\ c.lines = <<>>
  <2>1. CASE IsEmpty(b)
    BY <1>1, <2>1 DEF IsEmpty
  <2>2. CASE ~IsEmpty(b)
    <3>1. Len(b.lines) # 0
      BY <1>1, <2>2, EmptySeq DEF IsEmpty
    <3>2. /\ LineCount(b) = Len(b.lines)
          /\ 1 \in 1 .. LineCount(b) /\ LineCount(b) \in 1 .. LineCount(b)
      BY <1>1, <3>1 DEF LineCount
    <3>3. /\ BufferOK(Erase(b, 1, LineCount(b)))
          /\ LineCount(Erase(b, 1, LineCount(b)))
               = LineCount(b) - (LineCount(b) - 1 + 1)
      BY <3>2, EraseOK
    <3>4. c = Erase(b, 1, LineCount(b))
      BY <2>2
    <3> HIDE DEF c
    <3>5. c \in BufferRecord /\ c.lines \in Seq(Text) /\ Len(c.lines) = 0
      BY <1>1, <3>2, <3>3, <3>4 DEF BufferOK, BufferRecord, LineCount
    <3> QED
      BY <3>5, EmptySeq
  <2> QED
    BY <2>1, <2>2
<1>3. Refilled(b, new) = Edited(c, c.lines \o new, Len(c.lines) + Len(new))
  BY DEF Refilled, AppendLines
<1> HIDE DEF c
<1>4. c.lines \o new = new /\ Len(c.lines) = 0
  BY <1>2, ConcatEmptySeq, EmptySeq
<1>5. Len(c.lines) + Len(new) = Len(new)
  BY <1>1, <1>4
<1>6. Refilled(b, new) = Edited(c, new, Len(new))
  BY <1>3, <1>4, <1>5
<1> QED
  BY <1>2, <1>6 DEF Edited, BufferRecord

\* What M leaves in the source, in the destination and in the other buffers.
LeavesBehind(m, m2, name, r) ==
    LET source == CurrentBuffer(m).lines
        taken  == SubSeq(source, r.first, r.last)
    IN /\ m2.current = m.current
       /\ Open(m2) = Open(m) \cup {name}
       /\ \A n \in Open(m) \ {name, m.current} : m2.buffers[n] = m.buffers[n]
       /\ CurrentBuffer(m2).lines = Remaining(source, r.first, r.last)
       /\ m2.buffers[name].lines = taken
       /\ m2.buffers[name].current_line = Len(taken)
       /\ CurrentBuffer(m2).modified /\ m2.buffers[name].modified

LEMMA MovedToEffect ==
    ASSUME NEW m, ManagerCore(m), NEW name \in Names, name # m.current,
           NEW a, NEW r \in Evaluate(a, CurrentBuffer(m))
    PROVE  LeavesBehind(m, MovedTo(m, name, r), name, r)
<1> DEFINE source   == CurrentBuffer(m)
           new      == SubSeq(source.lines, r.first, r.last)
           got      == GetOrCreate(m, name)
           arrived  == CreateOrSelect(m, name)
           refill   == Refilled(CurrentBuffer(arrived), new)
           refilled == PutCurrent(arrived, refill)
           back     == Select(refilled, m.current)
           erased   == Erase(CurrentBuffer(back), r.first, r.last)
<1>0. MovedTo(m, name, r) = PutCurrent(back, erased)
  BY DEF MovedTo
<1>1. BufferOK(source) /\ m.current \in Open(m) /\ m.current \in Names
  BY DEF ManagerCore, IsManager, BuffersOK, CurrentIsOpen, CurrentBuffer
<1>2. /\ LineCount(source) \in Nat
      /\ r.first \in 1 .. LineCount(source)
      /\ r.last \in r.first .. LineCount(source)
  BY <1>1, EvaluateInBuffer
<1>3. ~Transient(m, m.current)
  <2>1. source.lines \in Seq(Text) /\ Len(source.lines) # 0
    BY <1>1, <1>2 DEF BufferOK, BufferRecord, LineCount
  <2>2. source.lines # <<>>
    BY <2>1, EmptyByLength
  <2> QED
    BY <2>2 DEF Transient, IsEmpty, CurrentBuffer
<1>4. new \in Seq(Text) /\ new # <<>>
  BY <1>1, AddressedText
<1>5. /\ ManagerCore(got) /\ Open(got) = Open(m) \cup {name}
      /\ \A n \in Open(m) : got.buffers[n] = m.buffers[n]
  BY GetOrCreateCore
<1>6. arrived = Select(got, name)
  BY <1>3 DEF CreateOrSelect
<1> HIDE DEF got, arrived
<1>7. /\ ManagerCore(arrived) /\ arrived.current = name
      /\ Open(arrived) = Open(m) \cup {name}
      /\ \A n \in Open(m) : arrived.buffers[n] = m.buffers[n]
  <2>1. name \in Open(got)
    BY <1>5
  <2>2. ManagerCore(arrived) /\ arrived.buffers = got.buffers /\ arrived.current = name
    BY <1>5, <1>6, <2>1, SelectCore
  <2> QED
    BY <1>5, <2>2 DEF Open
<1>8. BufferOK(CurrentBuffer(arrived))
  BY <1>7 DEF ManagerCore, BuffersOK, CurrentIsOpen, CurrentBuffer
<1>9. arrived.buffers[m.current] = source
  BY <1>1, <1>7 DEF CurrentBuffer
<1> HIDE DEF source, new
<1>10. /\ BufferOK(refill) /\ refill.modified /\ refill.lines = new
       /\ refill.current_line = Len(new)
  BY <1>4, <1>8, RefilledOK, RefilledLines
<1> HIDE DEF refill
<1>11. /\ ManagerCore(refilled) /\ Open(refilled) = Open(m) \cup {name}
       /\ refilled.buffers[name] = refill
       /\ \A n \in Open(m) \ {name} : refilled.buffers[n] = m.buffers[n]
       /\ refilled.buffers[m.current] = source
  <2>1. /\ ManagerCore(refilled) /\ CurrentBuffer(refilled) = refill
        /\ refilled.current = arrived.current
        /\ Open(refilled) = Open(arrived)
        /\ \A n \in Open(arrived) \ {arrived.current} :
             refilled.buffers[n] = arrived.buffers[n]
    BY <1>7, <1>10, PutCurrentOK
  <2>2. refilled.buffers[name] = refill
    BY <1>7, <2>1 DEF CurrentBuffer
  <2>3. m.current \in Open(arrived) \ {arrived.current}
    BY <1>1, <1>7
  <2> HIDE DEF refilled
  <2>4. \A n \in Open(m) \ {name} : refilled.buffers[n] = m.buffers[n]
    BY <1>7, <2>1
  <2> QED
    BY <1>7, <1>9, <2>1, <2>2, <2>3, <2>4
<1> HIDE DEF refilled
<1>12. /\ ManagerCore(back) /\ back.current = m.current
       /\ back.buffers = refilled.buffers /\ CurrentBuffer(back) = source
       /\ Open(back) = Open(m) \cup {name}
  <2>1. m.current \in Open(refilled)
    BY <1>1, <1>11
  <2>2. /\ ManagerCore(back) /\ back.current = m.current
        /\ back.buffers = refilled.buffers
    BY <1>11, <2>1, SelectCore
  <2> QED
    BY <1>11, <2>2 DEF CurrentBuffer, Open
<1> HIDE DEF back
<1>13. /\ BufferOK(erased) /\ erased.modified
       /\ erased.lines = Remaining(source.lines, r.first, r.last)
  <2>1. BufferOK(erased) /\ erased.modified
    BY <1>1, <1>2, <1>12, EraseOK
  <2>2. source \in BufferRecord
    BY <1>1 DEF BufferOK
  <2> QED
    BY <1>12, <2>1, <2>2 DEF Erase, Edited, BufferRecord
<1> HIDE DEF erased
<1> DEFINE m2 == PutCurrent(back, erased)
<1>14. /\ CurrentBuffer(m2) = erased /\ m2.current = m.current
       /\ Open(m2) = Open(m) \cup {name}
       /\ \A n \in (Open(m) \cup {name}) \ {m.current} :
            m2.buffers[n] = refilled.buffers[n]
  <2>1. /\ CurrentBuffer(m2) = erased /\ m2.current = back.current
        /\ Open(m2) = Open(back)
        /\ \A n \in Open(back) \ {back.current} : m2.buffers[n] = back.buffers[n]
    BY <1>12, <1>13, PutCurrentOK
  <2> HIDE DEF m2
  <2> QED
    BY <1>12, <2>1
<1>15. m2 = MovedTo(m, name, r)
  BY <1>0
<1> HIDE DEF m2
<1>16. m2.buffers[name] = refill
  BY <1>11, <1>14
<1>17. \A n \in Open(m) \ {name, m.current} : m2.buffers[n] = m.buffers[n]
  BY <1>11, <1>14
<1>18. Open(m2) = Open(m) \cup {name} /\ CurrentBuffer(m2) = erased
  BY <1>14
<1> QED
  BY <1>10, <1>13, <1>14, <1>15, <1>16, <1>17, <1>18
  DEF LeavesBehind, source, new

\* What the property says of two managers; M to another buffer, and to itself.
Divided(m, m2, name, r) ==
    LET before == CurrentBuffer(m).lines
        dest   == m2.buffers[name]
    IN /\ m2.current = m.current
       /\ Open(m2) = Open(m) \cup {name}
       /\ dest.lines = SubSeq(before, r.first, r.last)
       /\ dest.current_line = Len(dest.lines)
       /\ name # m.current =>
            PutBack(CurrentBuffer(m2).lines, dest.lines, r.first) = before
       /\ \A n \in Open(m) \ {name, m.current} : m2.buffers[n] = m.buffers[n]

LEMMA MovedToDivides ==
    ASSUME NEW m, ManagerCore(m), NEW name \in Names, name # m.current,
           NEW a, NEW r \in Evaluate(a, CurrentBuffer(m))
    PROVE  Divided(m, MovedTo(m, name, r), name, r)
<1> DEFINE source == CurrentBuffer(m).lines
           m2     == MovedTo(m, name, r)
<1>1. /\ source \in Seq(Text)
      /\ r.first \in 1 .. Len(source) /\ r.last \in r.first .. Len(source)
  <2>1. BufferOK(CurrentBuffer(m))
    BY DEF ManagerCore, BuffersOK, CurrentIsOpen, CurrentBuffer
  <2> QED
    BY <2>1, EvaluateInBuffer DEF BufferOK, BufferRecord, LineCount
<1>2. LeavesBehind(m, m2, name, r)
  BY MovedToEffect
<1> HIDE DEF m2
<1>3. PutBack(Remaining(source, r.first, r.last),
              SubSeq(source, r.first, r.last), r.first) = source
  <2> HIDE DEF source
  <2> QED
    BY <1>1, TakenAndPutBack
<1>4. Divided(m, m2, name, r)
  BY <1>2, <1>3 DEF Divided, LeavesBehind
<1> QED
  BY <1>4 DEF m2

LEMMA RefilledDivides ==
    ASSUME NEW m, ManagerCore(m),
           NEW a, NEW r \in Evaluate(a, CurrentBuffer(m))
    PROVE  Divided(m, PutCurrent(m, Refilled(CurrentBuffer(m),
                        SubSeq(CurrentBuffer(m).lines, r.first, r.last))),
                   m.current, r)
<1> DEFINE b      == CurrentBuffer(m)
           new    == SubSeq(b.lines, r.first, r.last)
           refill == Refilled(b, new)
           m2     == PutCurrent(m, refill)
<1>1. BufferOK(b) /\ m.current \in Open(m)
  BY DEF ManagerCore, BuffersOK, CurrentIsOpen, CurrentBuffer
<1>2. new \in Seq(Text) /\ new # <<>>
  BY <1>1, AddressedText
<1> HIDE DEF b
<1> HIDE DEF new
<1>3. BufferOK(refill) /\ refill.lines = new /\ refill.current_line = Len(new)
  BY <1>1, <1>2, RefilledOK, RefilledLines
<1> HIDE DEF refill
<1>4. /\ m2.buffers[m.current] = refill /\ m2.current = m.current
      /\ Open(m2) = Open(m) \cup {m.current}
      /\ \A n \in Open(m) \ {m.current} : m2.buffers[n] = m.buffers[n]
  <2>1. /\ CurrentBuffer(m2) = refill /\ Open(m2) = Open(m)
        /\ m2.current = m.current
        /\ \A n \in Open(m) \ {m.current} : m2.buffers[n] = m.buffers[n]
    BY <1>3, PutCurrentOK
  <2> HIDE DEF m2
  <2> QED
    BY <1>1, <2>1 DEF CurrentBuffer
<1> HIDE DEF m2
<1>5. Divided(m, m2, m.current, r)
  BY <1>3, <1>4 DEF Divided, b, new
<1> QED
  BY <1>5 DEF m2, refill, new, b

-----------------------------------------------------------------------------
(***************************************************************************)
(* The disposable buffers.  Most commands change the current buffer, or    *)
(* none; B, M and the end of a ZG are the others.                          *)
(***************************************************************************)

EditsCurrent == mgr' = mgr \/ \E b : mgr' = PutCurrent(mgr, b)

LEMMA EditsCurrentTidy ==
    ASSUME IInv, TransientsAreCurrent, EditsCurrent
    PROVE  TransientsAreCurrent'
<1>1. ManagerCore(mgr) /\ TransientOnlyCurrent(mgr)
  BY DEF IInv, TransientsAreCurrent
<1>2. ASSUME NEW b, mgr' = PutCurrent(mgr, b)
      PROVE  TransientsAreCurrent'
  BY <1>1, <1>2, PutCurrentTidy DEF TransientsAreCurrent
<1>3. CASE mgr' = mgr
  BY <1>1, <1>3 DEF TransientsAreCurrent
<1> QED
  BY <1>2, <1>3 DEF EditsCurrent

\* A, I and C, with the text their caller read.
LEMMA TextCommandsEditCurrent ==
    ASSUME NEW command, NEW block, ExecuteText(command, block)
    PROVE  EditsCurrent
BY DEF ExecuteText, ExecuteAppend, ExecuteInsert, ExecuteChange, InsertText, EditsCurrent

LEMMA LineCommandsEditCurrent ==
    ASSUME LineCommand
    PROVE  EditsCurrent
BY DEF LineCommand, PrintLines, Delete, Zap, Transfer, Substitute, SubstituteOver,
       EditsCurrent

LEMMA FileCommandsEditCurrent ==
    ASSUME FileCommand
    PROVE  EditsCurrent
<1>1. Read => EditsCurrent
  BY DEF Read, EditsCurrent
<1>2. Write => EditsCurrent
  BY DEF Write, WriteSucceeds, WriteFails, EditsCurrent
<1>3. List => EditsCurrent
  BY DEF List, EditsCurrent
<1> QED
  BY <1>1, <1>2, <1>3 DEF FileCommand

LEMMA OtherCommandsEditCurrent ==
    ASSUME OtherCommand \/ GlobalCommand
    PROVE  EditsCurrent
<1>1. OtherCommand => EditsCurrent
  BY DEF OtherCommand, Facts, Option, Quit, QuitImmediately, Message, System,
         Comment, EditsCurrent
<1>2. BeginGlobal => EditsCurrent
  BY DEF BeginGlobal, EditsCurrent
<1>3. GlobalStep => EditsCurrent
  BY DEF GlobalStep, GlobalSkip, GlobalPrint, GlobalZap, GlobalDelete,
         GlobalSubstitute, GlobalEnd, EditsCurrent
<1> QED
  BY <1>1, <1>2, <1>3 DEF GlobalCommand

LEMMA BufferCommandTidy ==
    ASSUME IInv, TransientsAreCurrent, BufferCommand
    PROVE  TransientsAreCurrent'
<1>1. ManagerCore(mgr) /\ TransientOnlyCurrent(mgr)
  BY DEF IInv, TransientsAreCurrent
<1>2. ASSUME NEW name \in Names, mgr' = CreateOrSelect(mgr, name)
      PROVE  TransientsAreCurrent'
  BY <1>1, <1>2, CreateOrSelectOK DEF TransientsAreCurrent
<1>3. ASSUME NEW a, NEW r \in Evaluate(a, Cur), NEW name \in Names,
             name # mgr.current, mgr' = MovedTo(mgr, name, r)
      PROVE  TransientsAreCurrent'
  BY <1>1, <1>3, MovedToOK DEF TransientsAreCurrent, Cur
<1>4. CASE EditsCurrent
  BY <1>4, EditsCurrentTidy
<1>5. SelectBuffer => EditsCurrent \/ \E name \in Names : mgr' = CreateOrSelect(mgr, name)
  BY DEF SelectBuffer, EditsCurrent
<1>6. Move =>
        \/ EditsCurrent
        \/ \E a \in TypedAddresses, name \in Names : \E r \in Evaluate(a, Cur) :
             name # mgr.current /\ mgr' = MovedTo(mgr, name, r)
  BY DEF Move, MoveLines, EditsCurrent
<1> QED
  BY <1>2, <1>3, <1>4, <1>5, <1>6 DEF BufferCommand

LEMMA GatherCommandTidy ==
    ASSUME IInv, TransientsAreCurrent, GatherCommand
    PROVE  TransientsAreCurrent'
<1>1. ManagerCore(mgr) /\ TransientOnlyCurrent(mgr)
  BY DEF IInv, TransientsAreCurrent
<1>2. CASE UNCHANGED mgr
  BY <1>1, <1>2 DEF TransientsAreCurrent
<1>3. CASE /\ Nested /\ Captured.text # <<>>
           /\ mgr' = GatheredInto(mgr, Captured.dest, Captured.text)
  <2>1. Captured \in Capture
    BY <1>3, TopOfStack DEF Captured, Nested, IInv, TypeOK
  <2>2. Captured.dest \in Names /\ Captured.text \in Seq(Text)
    BY <2>1 DEF Capture
  <2> QED
    BY <1>1, <1>3, <2>2, GatheredIntoOK DEF TransientsAreCurrent
<1> QED
  BY <1>2, <1>3 DEF GatherCommand, BeginGather, EndGather, GatherSucceeds, GatherFails

LEMMA NextTidy == IInv /\ TransientsAreCurrent /\ [Next]_vars => TransientsAreCurrent'
<1> SUFFICES ASSUME IInv, TransientsAreCurrent, [Next]_vars
             PROVE  TransientsAreCurrent'
  OBVIOUS
<1>1. CASE UNCHANGED vars
  BY <1>1, EditsCurrentTidy DEF vars, EditsCurrent
<1>2. CASE LineCommand \/ FileCommand \/ OtherCommand \/ GlobalCommand
  BY <1>2, LineCommandsEditCurrent, FileCommandsEditCurrent,
     OtherCommandsEditCurrent, EditsCurrentTidy
<1>3. CASE TextCommand
  <2>1. EditsCurrent
    BY <1>3 DEF TextCommand, AppendText, InsertBefore, Change, TextInputInsideGather,
         ExecuteAppend, ExecuteInsert, ExecuteChange, InsertText, EditsCurrent
  <2> QED
    BY <2>1, EditsCurrentTidy
<1>4. CASE BufferCommand
  BY <1>4, BufferCommandTidy
<1>5. CASE GatherCommand
  BY <1>5, GatherCommandTidy
<1> QED
  BY <1>1, <1>2, <1>3, <1>4, <1>5 DEF Next

-----------------------------------------------------------------------------
(***************************************************************************)
(* For the modules of the callers.                                         *)
(***************************************************************************)

\* A step of a caller that leaves the runtime alone.
LEMMA RuntimeUnchanged ==
    ASSUME IInv, UNCHANGED vars
    PROVE  IInv'
BY NextIInv

\* The executor's entry points lead to the runtime's own steps.
LEMMA ExecuteIsNext ==
    ASSUME NEW command, Execute(command)
    PROVE  Next
BY DEF Execute, Next, LineCommand, BufferCommand, FileCommand, OtherCommand,
       GlobalCommand, GatherCommand

LEMMA ExecuteTextStep ==
    ASSUME IInv, NEW command, NEW block, block \in Seq(Text),
           ExecuteText(command, block)
    PROVE  IInv'
BY ExecuteAppendStep, ExecuteInsertStep, ExecuteChangeStep DEF ExecuteText

\* No command is executed once the exit was requested.
LEMMA ExecuteBeforeExit ==
    ASSUME NEW command, Execute(command)
    PROVE  exit = "no"
BY DEF Execute, Ready, PrintLines, Delete, Zap, Transfer, Substitute, Move,
       SelectBuffer, Read, Write, List, Facts, Option, Quit, QuitImmediately,
       Message, System, BeginGlobal, BeginGather, Comment

-----------------------------------------------------------------------------
(***************************************************************************)
(* The theorems.                                                           *)
(***************************************************************************)

\* The inductive invariant holds in every reachable state.
THEOREM Invariance == Spec => []IInv
BY InitIInv, NextIInv, PTL DEF Spec

\* Every variable keeps its type, whatever commands run, nest or throw.
THEOREM TypeCorrect == Spec => []TypeOK
<1>1. IInv => TypeOK
  BY DEF IInv
<1> QED
  BY <1>1, Invariance, PTL

\* No edit, in whatever buffer, leaves a cursor outside the lines.
THEOREM CursorsStayInBuffers == Spec => []CursorsInBuffers
<1>1. IInv => CursorsInBuffers
  BY DEF IInv, ManagerCore, BuffersOK, BufferOK, CursorsInBuffers
<1> QED
  BY <1>1, Invariance, PTL

\* A buffer that is not marked modified holds what it loaded or wrote.
THEOREM NoUnmarkedEdit == Spec => []CleanBuffersAreSaved
<1>1. IInv => CleanBuffersAreSaved
  BY DEF IInv, ManagerCore, BuffersOK, BufferOK, CleanBuffersAreSaved
<1> QED
  BY <1>1, Invariance, PTL

\* The pointer to the current buffer never dangles.
THEOREM CurrentNeverDangles == Spec => []CurrentBufferIsOpen
<1>1. IInv => CurrentBufferIsOpen
  BY DEF IInv, ManagerCore, CurrentBufferIsOpen
<1> QED
  BY <1>1, Invariance, PTL

\* The list of recently used buffers stays a set of live buffers.
THEOREM UsageListStaysSound == Spec => []UsageListIsSound
<1>1. IInv => UsageListIsSound
  BY DEF IInv, ManagerCore, UsageListIsSound
<1> QED
  BY <1>1, Invariance, PTL

\* A disposable buffer never outlives its being current.
THEOREM TransientsDisappear == Spec => []TransientsAreCurrent
<1>1. Init => TransientsAreCurrent
  BY InitialManagerOK, ManagerParts DEF Init, TransientsAreCurrent
<1> QED
  BY <1>1, NextTidy, Invariance, PTL DEF Spec

\* However D shortens the buffer and S rewrites it, the loop of G
\* (CommandExecutor::execute on a global command) examines every line its
\* range had when it began, each of them once and in order, and never looks
\* behind the end of the buffer.
THEOREM GlobalExaminesTheRange == Spec => []GlobalExaminesEachLineOnce
<1>1. IInv /\ GlobalInv => GlobalExaminesEachLineOnce
  BY CurOK
  DEF GlobalInv, LoopInv, ExaminesOnce, GlobalExaminesEachLineOnce
<1> QED
  BY <1>1, LoopInvariant, PTL

\* The lines G passed are those its nested command leaves of the range: with
\* D the unselected ones in their order, with P and Z all of them; and the
\* counter `#` receives the number of the selected ones.
THEOREM GlobalKeepsWhatIsUnselected == Spec => []GlobalKeepsTheUnselected
<1>1. IInv /\ GlobalInv => GlobalKeepsTheUnselected
  BY DEF GlobalInv, LoopInv, KeepsUnselected, GlobalKeepsTheUnselected
<1> QED
  BY <1>1, LoopInvariant, PTL

\* M loses no line, whatever buffers there are, whichever range it takes and
\* whichever buffer it goes to.
THEOREM MoveKeepsEveryLine == Spec => MoveDividesTheSource
<1>1. ASSUME IInv, NEW a \in TypedAddresses, NEW name \in Names,
             NEW r \in Evaluate(a, Cur), MoveLines(r, name)
      PROVE  Divided(mgr, mgr', name, r)
  <2>1. ManagerCore(mgr) /\ Cur = CurrentBuffer(mgr)
    BY <1>1, CurOK DEF Cur
  <2>2. CASE name = mgr.current
    <3>1. mgr' = PutCurrent(mgr, Refilled(Cur, SubSeq(Cur.lines, r.first, r.last)))
      BY <1>1, <2>2 DEF MoveLines
    <3>2. Divided(mgr, PutCurrent(mgr, Refilled(Cur,
                         SubSeq(Cur.lines, r.first, r.last))), mgr.current, r)
      BY <2>1, RefilledDivides
    <3> QED
      BY <2>2, <3>1, <3>2
  <2>3. CASE name # mgr.current
    <3>1. mgr' = MovedTo(mgr, name, r)
      BY <1>1, <2>3 DEF MoveLines
    <3>2. Divided(mgr, MovedTo(mgr, name, r), name, r)
      BY <2>1, <2>3, MovedToDivides
    <3> QED
      BY <3>1, <3>2
  <2> QED
    BY <2>2, <2>3
<1> DEFINE Divides ==
             \A a \in TypedAddresses, name \in Names : \A r \in Evaluate(a, Cur) :
               Ready("M") /\ MoveLines(r, name) => Divided(mgr, mgr', name, r)
<1>2. IInv => [Divides]_vars
  BY <1>1
<1>3. Spec => [][Divides]_vars
  BY <1>2, Invariance, PTL
<1> QED
  BY <1>3 DEF MoveDividesTheSource, Divided, Cur

=============================================================================
