------------------ MODULE CommandExecutorRefinementProofs ------------------
(***************************************************************************)
(* CommandExecutor implements Workspace, for every set of lines, names and *)
(* files: each command is one step of the workspace or none.               *)
(*                                                                         *)
(* Two facts carry the proof.  What a command makes of the buffers is      *)
(* SameElsewhere: it touches two texts at most, and no copy.  And once Q   *)
(* was accepted, inside a ZG perhaps, the captures that are left to end    *)
(* are empty (QuietCaptures), so that nothing is put into a buffer after   *)
(* the session has ended.                                                  *)
(*                                                                         *)
(* A third, that no command but R and W takes the mark from a buffer,      *)
(* gives what a buffer without the mark says of its file.                  *)
(***************************************************************************)
EXTENDS CommandExecutorRefinement, CommandExecutorProofs

PromiseStep == Promise!Next \/ UNCHANGED Promise!texts

-----------------------------------------------------------------------------
(***************************************************************************)
(* Texts and copies under the operations on buffers.                       *)
(***************************************************************************)

\* The texts of a and b may change, all else is the same; both are open after.
SameElsewhere(m, m2, a, b) ==
    /\ a \in Open(m2) /\ b \in Open(m2)
    /\ \A n \in Names : CopyOf(m2, n) = CopyOf(m, n)
    /\ \A n \in Names \ {a, b} : TextOf(m2, n) = TextOf(m, n)

\* What an edit leaves alone: the copy, and the mark if there is one.
Keeps(b, c) == c.saved = b.saved /\ (b.modified => c.modified)

\* Nothing that edits a buffer changes its copy or takes its mark away.
LEMMA EditsKeepCopyAndMark ==
    ASSUME NEW b \in BufferRecord
    PROVE  /\ \A n : Keeps(b, SetCurrentLine(b, n))
           /\ \A i, j : Keeps(b, Erase(b, i, j))
           /\ \A n, new : Keeps(b, InsertAfter(b, n, new))
           /\ \A new : Keeps(b, AppendLines(b, new))
           /\ \A s, matched, n : Keeps(b, Substituted(b, s, matched, n))
BY DEF SetCurrentLine, Erase, InsertAfter, AppendLines, Substituted, Edited,
       BufferRecord, Keeps

LEMMA PutTexts ==
    ASSUME NEW m, ManagerCore(m), NEW name \in Names, NEW b, BufferOK(b),
           b.saved = CopyOf(m, name)
    PROVE  SameElsewhere(m, Put(m, name, b), name, name)
<1> DEFINE m2 == Put(m, name, b)
<1>1. /\ Open(m2) = Open(m) \cup {name} /\ m2.buffers[name] = b
      /\ \A n \in Open(m) \ {name} : m2.buffers[n] = m.buffers[n]
  BY PutCore
<1> HIDE DEF m2
<1>2. SameElsewhere(m, m2, name, name)
  BY <1>1 DEF SameElsewhere, TextOf, CopyOf
<1> QED
  BY <1>2 DEF m2

\* A buffer that is made has nothing, and one that is dropped had nothing.
LEMMA CreateOrSelectTexts ==
    ASSUME NEW m, ManagerCore(m), NEW name \in Names
    PROVE  /\ \A n \in Names : /\ TextOf(CreateOrSelect(m, name), n) = TextOf(m, n)
                               /\ CopyOf(CreateOrSelect(m, name), n) = CopyOf(m, n)
           /\ name \in Open(CreateOrSelect(m, name))
<1> DEFINE m1 == GetOrCreate(m, name)
           m2 == Select(m1, name)
           m3 == CreateOrSelect(m, name)
           leave == m.current # name /\ Transient(m, m.current)
<1>1. /\ ManagerCore(m) /\ m.current \in Open(m) /\ BuffersOK(m)
  BY DEF ManagerCore, CurrentIsOpen
<1>2. /\ ManagerCore(m1) /\ Open(m1) = Open(m) \cup {name}
      /\ \A n \in Open(m) : m1.buffers[n] = m.buffers[n]
  BY <1>1, GetOrCreateCore
<1>3. name \notin Open(m) => m1.buffers[name] = NewBuffer
  BY <1>1, NewBufferOK, PutCore DEF GetOrCreate
<1>4. m3 = IF leave THEN Drop(m2, m.current) ELSE m2
  BY DEF CreateOrSelect
<1> HIDE DEF m1, m3
<1>5. ManagerCore(m2) /\ m2.buffers = m1.buffers /\ m2.current = name
  BY <1>2, SelectCore
<1> HIDE DEF m2
<1>6. \A n \in Names : TextOf(m2, n) = TextOf(m, n) /\ CopyOf(m2, n) = CopyOf(m, n)
  BY <1>2, <1>3, <1>5 DEF TextOf, CopyOf, Open, NewBuffer
<1>7. CASE leave
  <2>1. /\ Open(m3) = Open(m2) \ {m.current}
        /\ \A n \in Open(m2) \ {m.current} : m3.buffers[n] = m2.buffers[n]
    BY <1>1, <1>2, <1>4, <1>5, <1>7, DropCore DEF Open
  <2>2. TextOf(m, m.current) = <<>> /\ CopyOf(m, m.current) = <<>>
    BY <1>1, <1>7 DEF TextOf, CopyOf, Transient, IsEmpty, BuffersOK, BufferOK,
                      UnfiledIsUnsaved
  <2>3. \A n \in Names : TextOf(m3, n) = TextOf(m, n) /\ CopyOf(m3, n) = CopyOf(m, n)
    BY <1>6, <2>1, <2>2 DEF TextOf, CopyOf
  <2> QED
    BY <1>2, <1>5, <1>7, <2>1, <2>3 DEF m3, Open
<1>8. CASE ~leave
  BY <1>2, <1>4, <1>5, <1>6, <1>8 DEF m3, Open
<1> QED
  BY <1>7, <1>8

LEMMA RefilledKeepsTheCopy ==
    ASSUME NEW b, BufferOK(b), NEW new
    PROVE  Refilled(b, new).saved = b.saved
<1>1. Erase(b, 1, LineCount(b)) = Edited(b, Remaining(b.lines, 1, LineCount(b)),
                                         LineAfterErase(b, 1, LineCount(b)))
  BY DEF Erase
<1> QED
  BY <1>1 DEF Refilled, AppendLines, Edited, BufferOK, BufferRecord

\* M to another buffer changes the texts of the two.
LEMMA MovedToTexts ==
    ASSUME NEW m, ManagerCore(m), NEW name \in Names, name # m.current,
           NEW a, NEW r \in Evaluate(a, CurrentBuffer(m))
    PROVE  SameElsewhere(m, MovedTo(m, name, r), m.current, name)
<1> DEFINE source   == CurrentBuffer(m)
           new      == SubSeq(source.lines, r.first, r.last)
           arrived  == CreateOrSelect(m, name)
           refill   == Refilled(CurrentBuffer(arrived), new)
           refilled == PutCurrent(arrived, refill)
           back     == Select(refilled, m.current)
           erased   == Erase(CurrentBuffer(back), r.first, r.last)
<1>0. MovedTo(m, name, r) = PutCurrent(back, erased)
  BY DEF MovedTo
<1>1. BufferOK(source) /\ m.current \in Open(m) /\ m.current \in Names
  BY DEF ManagerCore, IsManager, BuffersOK, CurrentIsOpen, CurrentBuffer
<1>2. /\ LineCount(source) \in Nat
      /\ r.first \in 1 .. LineCount(source)
      /\ r.last \in r.first .. LineCount(source)
  BY <1>1, EvaluateInBuffer
<1>3. ~Transient(m, m.current)
  <2>1. source.lines \in Seq(Text) /\ Len(source.lines) # 0
    BY <1>1, <1>2 DEF BufferOK, BufferRecord, LineCount
  <2>2. source.lines # <<>>
    BY <2>1, EmptyByLength
  <2> QED
    BY <2>2 DEF Transient, IsEmpty, CurrentBuffer
<1>4. new \in Seq(Text) /\ new # <<>>
  BY <1>1, AddressedText
<1>5. /\ ManagerCore(arrived) /\ arrived.current = name
      /\ m.current \in Open(arrived) /\ arrived.buffers[m.current] = source
      /\ name \in Open(arrived)
      /\ \A n \in Names : TextOf(arrived, n) = TextOf(m, n) /\ CopyOf(arrived, n) = CopyOf(m, n)
  BY <1>1, <1>3, CreateOrSelectOK, CreateOrSelectTexts DEF CurrentBuffer
<1>6. BufferOK(CurrentBuffer(arrived))
  BY <1>5 DEF ManagerCore, BuffersOK, CurrentIsOpen, CurrentBuffer
<1> HIDE DEF source, new, arrived
<1>7. BufferOK(refill) /\ refill.saved = CopyOf(arrived, name)
  BY <1>4, <1>5, <1>6, RefilledOK, RefilledKeepsTheCopy DEF CurrentBuffer, CopyOf
<1> HIDE DEF refill
<1>8. /\ ManagerCore(refilled) /\ m.current \in Open(refilled)
      /\ refilled.buffers[m.current] = source
      /\ SameElsewhere(arrived, refilled, name, name)
  <2>1. ManagerCore(arrived)
    BY <1>5
  <2>2. refilled = Put(arrived, name, refill)
    BY <1>5 DEF PutCurrent
  <2>3. /\ ManagerCore(refilled) /\ Open(refilled) = Open(arrived) \cup {name}
        /\ \A n \in Open(arrived) \ {name} : refilled.buffers[n] = arrived.buffers[n]
    BY <1>7, <2>1, <2>2, PutCore
  <2>4. SameElsewhere(arrived, refilled, name, name)
    BY <1>7, <2>1, <2>2, PutTexts
  <2> QED
    BY <1>5, <2>3, <2>4
<1> HIDE DEF refilled
<1>9. /\ ManagerCore(back) /\ back.current = m.current
      /\ back.buffers = refilled.buffers /\ CurrentBuffer(back) = source
  BY <1>8, SelectCore DEF CurrentBuffer
<1>10. SameElsewhere(arrived, back, name, name)
  BY <1>8, <1>9 DEF SameElsewhere, TextOf, CopyOf, Open
<1> HIDE DEF back
<1>11. BufferOK(erased) /\ erased.saved = CopyOf(back, m.current)
  <2>1. BufferOK(erased)
    BY <1>1, <1>2, <1>9, EraseOK
  <2>2. erased.saved = source.saved
    BY <1>1, <1>9, EditsKeepCopyAndMark DEF BufferOK, Keeps
  <2>3. CopyOf(back, m.current) = source.saved
    BY <1>8, <1>9 DEF CopyOf, Open
  <2> QED
    BY <2>1, <2>2, <2>3
<1> HIDE DEF erased
<1>12. SameElsewhere(back, PutCurrent(back, erased), m.current, m.current)
  BY <1>1, <1>9, <1>11, PutTexts DEF PutCurrent
<1>13. name \in Open(PutCurrent(back, erased))
  BY <1>1, <1>9, <1>10, <1>11, PutCore DEF PutCurrent, SameElsewhere
<1>14. SameElsewhere(m, PutCurrent(back, erased), m.current, name)
  BY <1>5, <1>10, <1>12, <1>13 DEF SameElsewhere
<1> QED
  BY <1>0, <1>14

-----------------------------------------------------------------------------
(***************************************************************************)
(* What is a step of Workspace.                                            *)
(***************************************************************************)

\* A command that changes two texts at most works.
LEMMA WorkStep ==
    ASSUME IInv, IInv', exit = "no", UNCHANGED exit, NEW a, NEW b,
           SameElsewhere(mgr, mgr', a, b)
    PROVE  PromiseStep
<1>1. /\ Open(mgr') \subseteq Names /\ Open(mgr') # {}
      /\ a \in Open(mgr') /\ b \in Open(mgr')
  BY DEF IInv, TypeOK, IsManager, SameElsewhere
<1>2. /\ \A n \in Names : Texts[n] = TextOf(mgr, n) /\ Copies[n] = CopyOf(mgr, n)
      /\ \A n \in Names : Texts'[n] = TextOf(mgr', n) /\ Copies'[n] = CopyOf(mgr', n)
  BY DEF Texts, Copies
<1>3. Copies' = Copies
  BY DEF Copies, SameElsewhere
<1>4. \A n \in Names \ Open(mgr') : TextOf(mgr', n) = <<>> /\ CopyOf(mgr', n) = <<>>
  BY DEF TextOf, CopyOf
<1>5. \A n \in Open(mgr) \ Open(mgr') : Texts[n] = <<>> /\ Texts[n] = Copies[n]
  <2>1. Open(mgr) \subseteq Names
    BY DEF IInv, TypeOK, IsManager
  <2> QED
    BY <1>1, <1>2, <1>4, <2>1 DEF SameElsewhere
<1>6. a \in Names /\ b \in Names /\ Promise!Changed \subseteq {a, b}
  BY <1>1, <1>2 DEF SameElsewhere, Promise!Changed
<1>7. Promise!Work
  <2>1. exit = "no" /\ exit' = exit /\ Copies' = Copies
    BY <1>3
  <2>2. Open(mgr)' \subseteq Names /\ Open(mgr)' # {}
    BY <1>1
  <2>3. \A n \in Open(mgr) \ Open(mgr)' : Texts[n] = <<>> /\ Promise!IsKept(n)
    BY <1>5 DEF Promise!IsKept
  <2>4. \A n \in Names \ Open(mgr)' : Texts'[n] = <<>>
    BY <1>2, <1>4
  <2> QED
    BY <1>6, <2>1, <2>2, <2>3, <2>4 DEF Promise!Work
<1> QED
  BY <1>7 DEF PromiseStep, Promise!Next

\* A command that changes no buffer and does not end the session.
LEMMA QuietCommand ==
    ASSUME UNCHANGED <<mgr, exit>>
    PROVE  PromiseStep
BY DEF PromiseStep, Promise!texts, Texts, Copies, TextOf, CopyOf

\* A command that edits the current buffer.
LEMMA EditingStep ==
    ASSUME IInv, IInv', exit = "no", UNCHANGED exit,
           NEW b, BufferOK(b), b.saved = Cur.saved, mgr' = PutCurrent(mgr, b)
    PROVE  PromiseStep
<1>1. ManagerCore(mgr) /\ mgr.current \in Names /\ mgr.current \in Open(mgr)
  BY CurOK
<1>2. CopyOf(mgr, mgr.current) = b.saved
  BY <1>1 DEF CopyOf, Cur, CurrentBuffer
<1>3. SameElsewhere(mgr, mgr', mgr.current, mgr.current)
  BY <1>1, <1>2, PutTexts DEF PutCurrent
<1> QED
  BY <1>3, WorkStep

\* The current buffer is edited, or nothing is done.
EditsItsText ==
    /\ exit = "no" /\ exit' = exit
    /\ \/ mgr' = mgr
       \/ \E b : BufferOK(b) /\ Keeps(Cur, b) /\ mgr' = PutCurrent(mgr, b)

LEMMA EditsItsTextStep ==
    ASSUME IInv, IInv', EditsItsText
    PROVE  PromiseStep
BY QuietCommand, EditingStep DEF EditsItsText, Keeps

-----------------------------------------------------------------------------
(***************************************************************************)
(* The commands that edit the current buffer.                              *)
(***************************************************************************)

LEMMA CurEdited ==
    ASSUME IInv
    PROVE  /\ \A n : Keeps(Cur, SetCurrentLine(Cur, n))
           /\ \A i, j : Keeps(Cur, Erase(Cur, i, j))
           /\ \A n, new : Keeps(Cur, InsertAfter(Cur, n, new))
           /\ \A s, matched, n : Keeps(Cur, Substituted(Cur, s, matched, n))
BY CurOK, EditsKeepCopyAndMark DEF BufferOK

LEMMA CursorEdits ==
    ASSUME IInv, NEW n, n \in 0 .. LineCount(Cur),
           mgr' = PutCurrent(mgr, SetCurrentLine(Cur, n)), exit = "no", exit' = exit
    PROVE  EditsItsText
BY CurOK, CurEdited, SetCurrentLineOK DEF EditsItsText

LEMMA ErasureEdits ==
    ASSUME IInv, NEW i, i \in 1 .. LineCount(Cur), NEW j, j \in i .. LineCount(Cur),
           mgr' = PutCurrent(mgr, Erase(Cur, i, j)), exit = "no", exit' = exit
    PROVE  EditsItsText
BY CurOK, CurEdited, EraseOK DEF EditsItsText

LEMMA InsertionEdits ==
    ASSUME IInv, NEW n, n \in 0 .. LineCount(Cur), NEW new, new \in Seq(Text),
           mgr' = PutCurrent(mgr, InsertAfter(Cur, n, new)), exit = "no", exit' = exit
    PROVE  EditsItsText
BY CurOK, CurEdited, InsertAfterOK DEF EditsItsText

LEMMA PrintEdits ==
    ASSUME IInv, PrintLines
    PROVE  EditsItsText
<1>1. exit = "no" /\ exit' = exit
  BY DEF PrintLines, Ready, registers
<1>2. CASE mgr' = mgr
  BY <1>1, <1>2 DEF EditsItsText
<1>3. ASSUME NEW a, NEW r \in Evaluate(a, Cur),
             mgr' = PutCurrent(mgr, SetCurrentLine(Cur, r.last))
      PROVE  EditsItsText
  <2>1. r.last \in 0 .. LineCount(Cur)
    BY CurOK, EvaluateInBuffer
  <2> QED
    BY <1>1, <1>3, <2>1, CursorEdits
<1> QED
  BY <1>2, <1>3 DEF PrintLines

LEMMA DeleteEdits ==
    ASSUME IInv, Delete
    PROVE  EditsItsText
<1>1. exit = "no" /\ exit' = exit
  BY DEF Delete, Ready, registers
<1>2. CASE mgr' = mgr
  BY <1>1, <1>2 DEF EditsItsText
<1>3. ASSUME NEW a, NEW r \in Evaluate(a, Cur),
             mgr' = PutCurrent(mgr, Erase(Cur, r.first, r.last))
      PROVE  EditsItsText
  BY <1>1, <1>3, CurOK, EvaluateInBuffer, ErasureEdits
<1> QED
  BY <1>2, <1>3 DEF Delete

LEMMA ZapEdits ==
    ASSUME IInv, Zap
    PROVE  EditsItsText
<1>1. exit = "no" /\ exit' = exit
  BY DEF Zap, Ready, registers
<1>2. CASE mgr' = mgr
  BY <1>1, <1>2 DEF EditsItsText
<1>3. ASSUME NEW a, NEW n \in SingleLines(a, Cur),
             mgr' = PutCurrent(mgr, SetCurrentLine(Cur, n))
      PROVE  EditsItsText
  <2>1. n \in 0 .. LineCount(Cur)
    BY CurOK, SingleLinesInBuffer
  <2> QED
    BY <1>1, <1>3, <2>1, CursorEdits
<1> QED
  BY <1>2, <1>3 DEF Zap

LEMMA TransferEdits ==
    ASSUME IInv, Transfer
    PROVE  EditsItsText
<1>1. exit = "no" /\ exit' = exit
  BY DEF Transfer, Ready, registers
<1>2. CASE mgr' = mgr
  BY <1>1, <1>2 DEF EditsItsText
<1>3. ASSUME NEW a, NEW r \in Evaluate(a, Cur),
             NEW to, NEW n \in InsertionPositions(to, Cur),
             mgr' = PutCurrent(mgr, InsertAfter(Cur, n,
                                 SubSeq(Cur.lines, r.first, r.last)))
      PROVE  EditsItsText
  <2>1. SubSeq(Cur.lines, r.first, r.last) \in Seq(Text)
    BY CurOK, AddressedText
  <2>2. n \in 0 .. LineCount(Cur)
    BY CurOK, InsertionPositionsInBuffer
  <2> QED
    BY <1>1, <1>3, <2>1, <2>2, InsertionEdits
<1>4. \/ mgr' = mgr
      \/ \E a, to : \E r \in Evaluate(a, Cur), n \in InsertionPositions(to, Cur) :
           mgr' = PutCurrent(mgr, InsertAfter(Cur, n,
                                    SubSeq(Cur.lines, r.first, r.last)))
  BY DEF Transfer
<1> QED
  BY <1>2, <1>3, <1>4

LEMMA InsertTextEdits ==
    ASSUME IInv, exit = "no", exit' = exit, NEW block, block \in Seq(Text),
           NEW positions, \A n \in positions : n \in 0 .. LineCount(Cur),
           InsertText(block, positions)
    PROVE  EditsItsText
<1>1. CASE mgr' = mgr
  BY <1>1 DEF EditsItsText
<1>2. ASSUME NEW n \in positions, mgr' = PutCurrent(mgr, InsertAfter(Cur, n, block))
      PROVE  EditsItsText
  BY <1>2, InsertionEdits
<1> QED
  BY <1>1, <1>2 DEF InsertText

LEMMA ChangedKeepsCopyAndMark ==
    ASSUME NEW b, BufferOK(b), NEW a, NEW r \in Evaluate(a, b), NEW block
    PROVE  Keeps(b, Changed(b, r, block))
<1> DEFINE erased == Erase(b, r.first, r.last)
<1>1. erased \in BufferRecord
  BY EvaluateInBuffer, EraseOK DEF BufferOK
<1>2. Keeps(b, erased)
  BY EditsKeepCopyAndMark DEF BufferOK
<1> HIDE DEF erased
<1>3. Keeps(erased, InsertAfter(erased, r.first - 1, block))
  BY <1>1, EditsKeepCopyAndMark
<1> QED
  BY <1>2, <1>3 DEF Changed, erased, Keeps

LEMMA TextCommandEdits ==
    ASSUME IInv, TextCommand
    PROVE  EditsItsText
<1>1. exit = "no" /\ exit' = exit
  BY DEF TextCommand, AppendText, InsertBefore, Change, TextInputInsideGather,
         ExecuteAppend, ExecuteInsert, ExecuteChange, Ready, registers
<1>2. CASE mgr' = mgr
  BY <1>1, <1>2 DEF EditsItsText
<1>3. ASSUME NEW block \in Blocks, ExecuteAppend(block)
      PROVE  EditsItsText
  <2>1. PICK a \in Addresses : InsertText(block, AppendPositions(a, Cur))
    BY <1>3 DEF ExecuteAppend
  <2>2. \A n \in AppendPositions(a, Cur) : n \in 0 .. LineCount(Cur)
    BY CurOK, AppendPositionsInBuffer
  <2> QED
    BY <1>1, <2>1, <2>2, BlocksAreText, InsertTextEdits
<1>4. ASSUME NEW block \in Blocks, ExecuteInsert(block)
      PROVE  EditsItsText
  <2>1. PICK a \in Addresses : InsertText(block, InsertPositions(a, Cur))
    BY <1>4 DEF ExecuteInsert
  <2>2. \A n \in InsertPositions(a, Cur) : n \in 0 .. LineCount(Cur)
    BY CurOK, InsertPositionsInBuffer
  <2> QED
    BY <1>1, <2>1, <2>2, BlocksAreText, InsertTextEdits
<1>5. ASSUME NEW block \in Blocks, ExecuteChange(block)
      PROVE  EditsItsText
  <2>1. ASSUME NEW a, NEW r \in Evaluate(a, Cur),
               mgr' = PutCurrent(mgr, Changed(Cur, r, block))
        PROVE  EditsItsText
    <3>1. BufferOK(Changed(Cur, r, block))
      BY CurOK, BlocksAreText, ChangedOK
    <3>2. Keeps(Cur, Changed(Cur, r, block))
      BY CurOK, ChangedKeepsCopyAndMark
    <3> QED
      BY <1>1, <2>1, <3>1, <3>2 DEF EditsItsText
  <2> QED
    BY <1>2, <1>5, <2>1 DEF ExecuteChange
<1> QED
  BY <1>2, <1>3, <1>4, <1>5
  DEF TextCommand, AppendText, InsertBefore, Change, TextInputInsideGather

LEMMA SubstitutionEdits ==
    ASSUME IInv, exit = "no", exit' = exit, NEW s \in Substitutions,
           NEW matched, matched \subseteq 1 .. LineCount(Cur),
           \A i \in matched : Cur.lines[i] \in DOMAIN s, NEW n \in matched,
           mgr' = PutCurrent(mgr, Substituted(Cur, s, matched, n))
    PROVE  EditsItsText
<1>1. BufferOK(Substituted(Cur, s, matched, n))
  BY CurOK, SubstitutedOK
<1>2. Keeps(Cur, Substituted(Cur, s, matched, n))
  BY CurEdited
<1> QED
  BY <1>1, <1>2 DEF EditsItsText

LEMMA SubstituteEdits ==
    ASSUME IInv, Substitute
    PROVE  EditsItsText
<1>1. exit = "no" /\ exit' = exit
  BY DEF Substitute, Ready
<1>2. CASE mgr' = mgr
  BY <1>1, <1>2 DEF EditsItsText
<1>3. ASSUME NEW a, NEW r \in Evaluate(a, Cur), NEW s \in Substitutions,
             NEW n \in MatchedLines(s, r, Cur),
             mgr' = PutCurrent(mgr, Substituted(Cur, s, MatchedLines(s, r, Cur), n))
      PROVE  EditsItsText
  <2>1. MatchedLines(s, r, Cur) \subseteq 1 .. LineCount(Cur)
    BY CurOK, EvaluateInBuffer DEF MatchedLines
  <2>2. \A i \in MatchedLines(s, r, Cur) : Cur.lines[i] \in DOMAIN s
    BY DEF MatchedLines
  <2> QED
    BY <1>1, <1>3, <2>1, <2>2, SubstitutionEdits
<1>4. \/ mgr' = mgr
      \/ \E a : \E r \in Evaluate(a, Cur), s \in Substitutions :
           \E n \in MatchedLines(s, r, Cur) :
             mgr' = PutCurrent(mgr, Substituted(Cur, s, MatchedLines(s, r, Cur), n))
  BY DEF Substitute, SubstituteOver
<1> QED
  BY <1>2, <1>3, <1>4

-----------------------------------------------------------------------------
(***************************************************************************)
(* M and B: another buffer, too.                                           *)
(***************************************************************************)

LEMMA MovePromise ==
    ASSUME IInv, IInv', Move
    PROVE  PromiseStep
<1>1. exit = "no" /\ UNCHANGED exit
  BY DEF Move, MoveLines, Ready, registers
<1>2. CASE UNCHANGED mgr
  BY <1>1, <1>2, QuietCommand
<1>3. ASSUME NEW a, NEW r \in Evaluate(a, Cur), NEW name \in Names,
             name = mgr.current,
             mgr' = PutCurrent(mgr, Refilled(Cur, SubSeq(Cur.lines, r.first, r.last)))
      PROVE  PromiseStep
  <2> DEFINE new == SubSeq(Cur.lines, r.first, r.last)
  <2>1. new \in Seq(Text) /\ new # <<>>
    BY CurOK, AddressedText
  <2>2. mgr' = PutCurrent(mgr, Refilled(Cur, new))
    BY <1>3
  <2> HIDE DEF new
  <2>3. BufferOK(Refilled(Cur, new)) /\ Refilled(Cur, new).saved = Cur.saved
    BY <2>1, CurOK, RefilledOK, RefilledKeepsTheCopy
  <2> QED
    BY <1>1, <2>2, <2>3, EditingStep
<1>4. ASSUME NEW a, NEW r \in Evaluate(a, Cur), NEW name \in Names,
             name # mgr.current, mgr' = MovedTo(mgr, name, r)
      PROVE  PromiseStep
  <2>1. SameElsewhere(mgr, mgr', mgr.current, name)
    BY <1>4, CurOK, MovedToTexts DEF Cur
  <2> QED
    BY <1>1, <2>1, WorkStep
<1>5. \/ UNCHANGED mgr
      \/ \E a : \E r \in Evaluate(a, Cur), name \in Names :
            mgr' = IF name = mgr.current
                     THEN PutCurrent(mgr, Refilled(Cur,
                            SubSeq(Cur.lines, r.first, r.last)))
                     ELSE MovedTo(mgr, name, r)
  BY DEF Move, MoveLines
<1> QED
  BY <1>2, <1>3, <1>4, <1>5

LEMMA SelectBufferPromise ==
    ASSUME IInv, IInv', SelectBuffer
    PROVE  PromiseStep
<1>1. exit = "no" /\ UNCHANGED exit
  BY DEF SelectBuffer, Ready, registers
<1>2. CASE UNCHANGED mgr
  BY <1>1, <1>2, QuietCommand
<1>3. ASSUME NEW name \in Names, mgr' = CreateOrSelect(mgr, name)
      PROVE  PromiseStep
  <2>1. SameElsewhere(mgr, mgr', name, name)
    BY <1>3, CurOK, CreateOrSelectTexts DEF SameElsewhere
  <2> QED
    BY <1>1, <2>1, WorkStep
<1> QED
  BY <1>2, <1>3 DEF SelectBuffer

-----------------------------------------------------------------------------
(***************************************************************************)
(* R and W: the exchange with files.                                       *)
(***************************************************************************)

\* The current buffer comes to be the same as its copy, having had no text
\* before or having the same as before.
LEMMA ExchangeStep ==
    ASSUME IInv, IInv', exit = "no", UNCHANGED exit,
           NEW b, BufferOK(b), b.saved = b.lines,
           Cur.lines = <<>> \/ b.lines = Cur.lines,
           mgr' = PutCurrent(mgr, b)
    PROVE  PromiseStep
<1> DEFINE c == mgr.current
<1>1. ManagerCore(mgr) /\ c \in Names /\ c \in Open(mgr)
  BY CurOK
<1>2. /\ Open(mgr') = Open(mgr) /\ mgr'.buffers[c] = b
      /\ \A n \in Open(mgr) \ {c} : mgr'.buffers[n] = mgr.buffers[n]
  BY <1>1, PutCurrentOK DEF CurrentBuffer
<1>3. /\ TextOf(mgr, c) = Cur.lines
      /\ TextOf(mgr', c) = b.lines /\ CopyOf(mgr', c) = b.lines
      /\ \A n \in Names \ {c} : /\ TextOf(mgr', n) = TextOf(mgr, n)
                                /\ CopyOf(mgr', n) = CopyOf(mgr, n)
  BY <1>1, <1>2 DEF TextOf, CopyOf, Cur, CurrentBuffer
<1> HIDE DEF c
<1>4. Promise!Changed \subseteq {c}
  BY <1>3 DEF Promise!Changed, Texts
<1>5. Texts[c] = <<>> \/ Texts' = Texts
  <2>1. CASE Cur.lines = <<>>
    BY <1>1, <1>3, <2>1 DEF Texts
  <2>2. CASE b.lines = Cur.lines
    <3>1. \A n \in Names : TextOf(mgr', n) = TextOf(mgr, n)
      BY <1>3, <2>2
    <3> QED
      BY <3>1 DEF Texts
  <2> QED
    BY <2>1, <2>2
<1>6. Copies' = [Copies EXCEPT ![c] = Texts'[c]]
  <2>1. \A n \in Names : CopyOf(mgr', n) =
          IF n = c THEN TextOf(mgr', c) ELSE CopyOf(mgr, n)
    BY <1>3
  <2> QED
    BY <1>1, <2>1 DEF Copies, Texts
<1>7. c \in Open(mgr) /\ Open(mgr)' = Open(mgr)
  BY <1>1, <1>2
<1>8. Promise!Exchange
  BY <1>4, <1>5, <1>6, <1>7 DEF Promise!Exchange
<1> QED
  BY <1>8 DEF PromiseStep, Promise!Next

LEMMA ReadPromise ==
    ASSUME IInv, IInv', Read
    PROVE  PromiseStep
<1>1. exit = "no" /\ UNCHANGED exit
  BY DEF Read, Ready
<1>2. CASE UNCHANGED mgr
  BY <1>1, <1>2, QuietCommand
<1>3. ASSUME NEW typed \in Files \cup {NoFile}, NEW f \in NamedFiles(typed, Cur),
             Decodable(disk[f]), NEW a, NEW b \in ReadInto(a, Cur, disk[f], f),
             mgr' = PutCurrent(mgr, b)
      PROVE  PromiseStep
  <2>1. f \in Files /\ disk[f] \in Image
    BY <1>3, NamedFilesExist, DecodableIsImage DEF Decodable
  <2>2. BufferOK(b)
    BY <2>1, CurOK, ReadIntoOK
  <2>3. CASE a = NoAddress
    <3>1. Cur.lines = <<>> /\ b = Loaded(Cur, disk[f], f)
      BY <2>3 DEF ReadInto, IsEmpty
    <3>2. b.saved = b.lines
      BY <3>1 DEF Loaded, LoadFile
    <3> QED
      BY <1>1, <1>3, <2>2, <3>1, <3>2, ExchangeStep
  <2>4. CASE a # NoAddress
    <3>1. PICK n \in ReadPositions(a, Cur) : b = InsertAfter(Cur, n, disk[f].lines)
      BY <2>4 DEF ReadInto
    <3>2. b.saved = Cur.saved
      BY <3>1, CurEdited DEF Keeps
    <3> QED
      BY <1>1, <1>3, <2>2, <3>2, EditingStep
  <2> QED
    BY <2>3, <2>4
<1>4. \/ UNCHANGED mgr
      \/ \E a : \E typed \in Files \cup {NoFile} :
           \E f \in { g \in NamedFiles(typed, Cur) : Decodable(disk[g]) } :
             \E b \in ReadInto(a, Cur, disk[f], f) : mgr' = PutCurrent(mgr, b)
  BY DEF Read
<1> QED
  BY <1>2, <1>3, <1>4

LEMMA WritePromise ==
    ASSUME IInv, IInv', Write
    PROVE  PromiseStep
<1>1. exit = "no" /\ UNCHANGED exit
  BY DEF Write, Ready
<1>2. CASE UNCHANGED mgr
  BY <1>1, <1>2, QuietCommand
<1>3. ASSUME NEW typed \in Files \cup {NoFile}, NEW f \in NamedFiles(typed, Cur),
             NEW mode,
             mgr' = PutCurrent(mgr, AssociateAndMarkClean(Cur, f,
                                      WriteEncoding(mode, Cur)))
      PROVE  PromiseStep
  <2> DEFINE b == AssociateAndMarkClean(Cur, f, WriteEncoding(mode, Cur))
  <2>1. BufferOK(b)
    BY CurOK, NamedFilesExist, WriteEncodingType, AssociateAndMarkCleanOK
  <2>2. b.lines = Cur.lines /\ b.saved = Cur.lines
    BY CurOK DEF BufferOK, BufferRecord, AssociateAndMarkClean
  <2>3. mgr' = PutCurrent(mgr, b)
    BY <1>3
  <2> HIDE DEF b
  <2> QED
    BY <1>1, <2>1, <2>2, <2>3, ExchangeStep
<1>4. \/ UNCHANGED mgr
      \/ \E mode : \E typed \in Files \cup {NoFile} :
           \E f \in NamedFiles(typed, Cur) :
             mgr' = PutCurrent(mgr, AssociateAndMarkClean(Cur, f,
                                      WriteEncoding(mode, Cur)))
  BY DEF Write, WriteSucceeds, WriteFails
<1> QED
  BY <1>2, <1>3, <1>4

-----------------------------------------------------------------------------
(***************************************************************************)
(* The end of the session.                                                 *)
(***************************************************************************)

\* Q looks at the flags only, and a buffer that is clean is kept.
LEMMA QuitPromise ==
    ASSUME IInv, Quit
    PROVE  PromiseStep
<1>1. exit = "no" /\ UNCHANGED mgr
  BY DEF Quit, Ready
<1>2. CASE UNCHANGED exit
  BY <1>1, <1>2, QuietCommand
<1>3. CASE ModifiedNames(mgr) = {} /\ exit' = "quit"
  <2>1. \A n \in Open(mgr) : mgr.buffers[n].lines = mgr.buffers[n].saved
    BY <1>3, CurOK DEF ManagerCore, BuffersOK, BufferOK, CleanIsSaved, ModifiedNames
  <2>2. Open(mgr) \subseteq Names
    BY DEF IInv, TypeOK, IsManager
  <2>3. \A n \in Open(mgr) : Promise!IsKept(n)
    BY <2>1, <2>2 DEF Promise!IsKept, Texts, Copies, TextOf, CopyOf
  <2>4. UNCHANGED <<Open(mgr), Texts, Copies>>
    BY <1>1 DEF Texts, Copies, TextOf, CopyOf
  <2>5. Promise!Leave
    BY <1>1, <1>3, <2>3, <2>4 DEF Promise!Leave
  <2> QED
    BY <2>5 DEF PromiseStep, Promise!Next
<1> QED
  BY <1>2, <1>3 DEF Quit

LEMMA QuitImmediatelyPromise ==
    ASSUME QuitImmediately
    PROVE  PromiseStep
<1>1. exit = "no" /\ exit' = "immediate" /\ UNCHANGED mgr
  BY DEF QuitImmediately, Ready
<1>2. UNCHANGED <<Open(mgr), Texts, Copies>>
  BY <1>1 DEF Texts, Copies, TextOf, CopyOf
<1>3. Promise!Abandon
  BY <1>1, <1>2 DEF Promise!Abandon
<1> QED
  BY <1>3 DEF PromiseStep, Promise!Next

\* The other commands change no buffer.
LEMMA OtherPromise ==
    ASSUME IInv, OtherCommand
    PROVE  PromiseStep
BY QuitPromise, QuitImmediatelyPromise, QuietCommand
DEF OtherCommand, Facts, Option, Message, System, Comment, registers

LEMMA ListPromise ==
    ASSUME List
    PROVE  PromiseStep
BY QuietCommand DEF List, registers

-----------------------------------------------------------------------------
(***************************************************************************)
(* Captures.  The text that a ZG has captured is put into a buffer when    *)
(* the ZG ends, and that is after its nested command has ended: nothing    *)
(* may be left to put when that command was Q or QQ.                       *)
(***************************************************************************)

\* The captures under the topmost have nothing yet; the topmost has nothing
\* before its command ends, unless the command is a G under way; and none
\* has anything when the session has ended.
QuietCaptures ==
    /\ \A k \in 1 .. Len(sinks) - 1 :
          sinks[k].state = "pending" /\ sinks[k].text = <<>>
    /\ Nested /\ Captured.state = "pending" /\ Captured.text # <<>> =>
          global # NoGlobal
    /\ exit # "no" => global = NoGlobal /\ (Nested => Captured.text = <<>>)

\* A sequence with another last element, of whatever type.
LEMMA ExceptLast ==
    ASSUME NEW T, NEW s \in Seq(T), s # <<>>, NEW e
    PROVE  LET t == [s EXCEPT ![Len(s)] = e]
           IN /\ Len(s) \in Nat /\ Len(t) = Len(s) /\ t[Len(s)] = e
              /\ \A k \in 1 .. Len(s) - 1 : t[k] = s[k]
<1> DEFINE S == T \cup {e}
<1>1. Len(s) \in 1 .. Len(s) /\ Len(s) \in Nat
  BY EmptyByLength
<1>2. s \in Seq(S)
  BY SeqMonotonic
<1>3. e \in S
  OBVIOUS
<1> HIDE DEF S
<1> QED
  BY <1>1, <1>2, <1>3, ExceptSeq

\* What the end of a command makes of the stack of captures.
LEMMA CompletedStack ==
    ASSUME NEW stack, stack \in Seq(Capture), stack # <<>>, sinks' \in Seq(Capture),
           NEW printed, NEW result, CompleteIn(stack, printed, result)
    PROVE  /\ Len(sinks') = Len(stack) /\ Len(stack) \in Nat /\ sinks' # <<>>
           /\ \A k \in 1 .. Len(stack) - 1 : sinks'[k] = stack[k]
           /\ sinks'[Len(stack)].state = result
           /\ sinks'[Len(stack)].text = stack[Len(stack)].text \o printed
<1> DEFINE n   == Len(stack)
           top == Answered(Filled(stack[n], printed), result)
<1>1. n \in 1 .. n /\ stack[n] \in Capture /\ n \in Nat
  BY TopOfStack, LenProperties
<1>2. sinks' = [stack EXCEPT ![n] = top]
  BY DEF CompleteIn
<1>3. top.state = result /\ top.text = stack[n].text \o printed
  BY <1>1 DEF Answered, Filled, Capture
<1> HIDE DEF top
<1>4. /\ Len(sinks') = n /\ sinks'[n] = top
      /\ \A k \in 1 .. n - 1 : sinks'[k] = stack[k]
  BY <1>2, ExceptLast
<1>5. sinks' # <<>>
  BY <1>1, <1>4, EmptyByLength
<1> QED
  BY <1>1, <1>3, <1>4, <1>5

\* A command that ends, ok or not, and does not end the session.
Answers ==
    /\ exit = "no" /\ exit' = exit
    /\ \E printed : \E result \in {"ok", "error"} :
          CompleteIn(sinks, printed, result)

LEMMA AnswersQuiet ==
    ASSUME IInv, IInv', QuietCaptures, Answers
    PROVE  QuietCaptures'
<1>1. PICK printed : \E result \in {"ok", "error"} :
                       CompleteIn(sinks, printed, result)
  BY DEF Answers
<1>2. exit' = "no" /\ sinks \in Seq(Capture) /\ sinks' \in Seq(Capture)
  BY DEF Answers, IInv, TypeOK
<1>3. CASE sinks = <<>>
  <2>1. sinks' = <<>>
    BY <1>1, <1>3 DEF CompleteIn
  <2>2. Len(sinks') = 0
    BY <2>1
  <2> QED
    BY <1>2, <2>1, <2>2 DEF QuietCaptures, Nested
<1>4. CASE sinks # <<>>
  <2>1. PICK result \in {"ok", "error"} : CompleteIn(sinks, printed, result)
    BY <1>1
  <2>2. /\ Len(sinks') = Len(sinks)
        /\ \A k \in 1 .. Len(sinks) - 1 : sinks'[k] = sinks[k]
        /\ sinks'[Len(sinks)].state = result
    BY <1>2, <1>4, <2>1, CompletedStack
  <2> QED
    BY <1>2, <2>2 DEF QuietCaptures, Captured
<1> QED
  BY <1>3, <1>4

\* G prints while it runs.
LEMMA EmittedQuiet ==
    ASSUME IInv, IInv', QuietCaptures, NEW printed,
           sinks' = sinks \/ sinks' = Emitted(sinks, printed),
           global' # NoGlobal, exit = "no", exit' = exit
    PROVE  QuietCaptures'
<1>1. sinks \in Seq(Capture) /\ sinks' \in Seq(Capture)
  BY DEF IInv, TypeOK
<1>2. \A k \in 1 .. Len(sinks') - 1 :
        sinks'[k].state = "pending" /\ sinks'[k].text = <<>>
  <2>1. CASE sinks' = sinks
    BY <2>1 DEF QuietCaptures
  <2>2. CASE sinks # <<>> /\ sinks' = Emitted(sinks, printed)
    <3>1. sinks' = [sinks EXCEPT ![Len(sinks)] = Filled(sinks[Len(sinks)], printed)]
      BY <2>2 DEF Emitted
    <3>2. /\ Len(sinks') = Len(sinks)
          /\ \A k \in 1 .. Len(sinks) - 1 : sinks'[k] = sinks[k]
      BY <1>1, <2>2, <3>1, ExceptLast
    <3> QED
      BY <3>2 DEF QuietCaptures
  <2>3. CASE sinks = <<>> /\ sinks' = Emitted(sinks, printed)
    BY <2>3 DEF QuietCaptures, Emitted
  <2> QED
    BY <2>1, <2>2, <2>3
<1> QED
  BY <1>2 DEF QuietCaptures

\* The commands that are one step answer; Q and QQ may end the session.
LEMMA CommandsAnswer ==
    ASSUME LineCommand \/ TextCommand \/ BufferCommand \/ FileCommand
    PROVE  Answers
<1>1. CASE LineCommand
  BY <1>1 DEF LineCommand, PrintLines, Delete, Zap, Transfer, Substitute,
              SubstituteOver, Ready, Complete, Fail, registers, Answers
<1>2. CASE TextCommand
  BY <1>2 DEF TextCommand, AppendText, InsertBefore, Change, ExecuteAppend,
              ExecuteInsert, ExecuteChange, InsertText, TextInputInsideGather,
              Ready, Complete, Fail, registers, Answers
<1>3. CASE BufferCommand
  BY <1>3 DEF BufferCommand, Move, MoveLines, SelectBuffer, Ready, Complete, Fail,
              registers, Answers
<1>4. CASE FileCommand
  BY <1>4 DEF FileCommand, Read, Write, WriteSucceeds, WriteFails, List,
              Ready, Complete, Fail, registers, Answers
<1> QED
  BY <1>1, <1>2, <1>3, <1>4

\* When a command may start, nothing is captured yet.
LEMMA NothingCaptured ==
    ASSUME QuietCaptures, NEW command, Ready(command), sinks # <<>>
    PROVE  Captured.state = "pending" /\ Captured.text = <<>>
BY DEF QuietCaptures, Ready, Nested, Captured

\* The end of the session inside a ZG, with nothing captured.
LEMMA LeavingQuiet ==
    ASSUME IInv, IInv', QuietCaptures, NEW command, Ready(command),
           Complete(<<>>), UNCHANGED global
    PROVE  QuietCaptures'
<1>1. sinks \in Seq(Capture) /\ sinks' \in Seq(Capture) /\ global' = NoGlobal
  BY DEF IInv, TypeOK, Ready
<1>2. CASE sinks = <<>>
  <2>1. sinks' = <<>>
    BY <1>2 DEF Complete, CompleteIn
  <2>2. Len(sinks') = 0
    BY <2>1
  <2> QED
    BY <1>1, <2>1, <2>2 DEF QuietCaptures, Nested
<1>3. CASE sinks # <<>>
  <2>1. /\ Len(sinks') = Len(sinks)
        /\ \A k \in 1 .. Len(sinks) - 1 : sinks'[k] = sinks[k]
        /\ sinks'[Len(sinks)].text = sinks[Len(sinks)].text \o <<>>
    BY <1>1, <1>3, CompletedStack DEF Complete
  <2>2. sinks[Len(sinks)].text = <<>>
    BY <1>3, NothingCaptured DEF Captured
  <2>3. sinks'[Len(sinks)].text = <<>>
    BY <2>1, <2>2
  <2> QED
    BY <1>1, <2>1, <2>3 DEF QuietCaptures, Captured
<1> QED
  BY <1>2, <1>3

LEMMA OtherCommandQuiet ==
    ASSUME IInv, IInv', QuietCaptures, OtherCommand
    PROVE  QuietCaptures'
<1>1. ASSUME ~(Quit /\ exit' # exit), ~QuitImmediately
      PROVE  Answers
  BY <1>1 DEF OtherCommand, Facts, Option, Quit, Message, System, Comment,
              Ready, Complete, Fail, registers, Answers
<1>2. CASE Quit /\ exit' # exit
  <2>1. Ready("Q") /\ Complete(<<>>) /\ UNCHANGED global
    BY <1>2 DEF Quit
  <2> QED
    BY <2>1, LeavingQuiet
<1>3. CASE QuitImmediately
  <2>1. Ready("QQ") /\ Complete(<<>>) /\ UNCHANGED global
    BY <1>3 DEF QuitImmediately
  <2> QED
    BY <2>1, LeavingQuiet
<1> QED
  BY <1>1, <1>2, <1>3, AnswersQuiet

LEMMA BeginGlobalQuiet ==
    ASSUME IInv, IInv', QuietCaptures, BeginGlobal
    PROVE  QuietCaptures'
<1>1. CASE Fail
  BY <1>1, AnswersQuiet DEF BeginGlobal, Ready, Fail, registers, Answers
<1>2. CASE UNCHANGED sinks
  <2>1. Ready("G") /\ exit' = "no"
    BY DEF BeginGlobal, Ready, registers
  <2>2. sinks # <<>> => Captured.text = <<>>
    BY <2>1, NothingCaptured
  <2> QED
    BY <1>2, <2>1, <2>2 DEF QuietCaptures, Nested, Captured
<1> QED
  BY <1>1, <1>2 DEF BeginGlobal

LEMMA GlobalStepQuiet ==
    ASSUME IInv, IInv', QuietCaptures, GlobalStep
    PROVE  QuietCaptures'
<1>1. global # NoGlobal /\ exit = "no" /\ exit' = exit
  BY DEF GlobalStep, GlobalSkip, GlobalPrint, GlobalZap, GlobalDelete,
         GlobalSubstitute, GlobalEnd, AtLine, registers, QuietCaptures
<1>2. CASE Answers
  BY <1>2, AnswersQuiet
<1>3. ASSUME global' \in GlobalLoop,
             sinks' = sinks \/ \E printed : sinks' = Emitted(sinks, printed)
      PROVE  QuietCaptures'
  BY <1>1, <1>3, NoGlobalAssumption, EmittedQuiet
<1>4. CASE GlobalSkip
  BY <1>1, <1>3, <1>4, PassedType DEF GlobalSkip
<1>5. CASE GlobalPrint
  BY <1>1, <1>3, <1>5, PassedType DEF GlobalPrint, AtLine
<1>6. CASE GlobalZap
  BY <1>1, <1>3, <1>6, PassedType DEF GlobalZap, AtLine
<1>7. CASE GlobalDelete
  <2>1. global' = [PassedSelected EXCEPT !.line = global.line,
                                         !.last = PassedSelected.last - 1]
    BY <1>7 DEF GlobalDelete
  <2> QED
    BY <1>1, <1>3, <1>7, <2>1, ShrunkLoop DEF GlobalDelete, AtLine
<1>8. CASE GlobalSubstitute /\ global' = PassedSelected
  <2>1. CASE Fail
    BY <1>1, <1>2, <2>1 DEF Fail, Answers
  <2>2. CASE \/ sinks' = sinks
             \/ \E printed : sinks' = Emitted(sinks, printed)
    BY <1>1, <1>3, <1>8, <2>2, PassedType DEF GlobalSubstitute, AtLine
  <2> QED
    BY <1>8, <2>1, <2>2 DEF GlobalSubstitute
<1>9. CASE GlobalSubstitute /\ Fail
  BY <1>1, <1>2, <1>9 DEF Fail, Answers
<1>10. CASE GlobalEnd
  BY <1>1, <1>2, <1>10 DEF GlobalEnd, Complete, Answers
<1> QED
  BY <1>4, <1>5, <1>6, <1>7, <1>8, <1>9, <1>10 DEF GlobalStep, GlobalSubstitute

LEMMA GlobalStepEdits ==
    ASSUME IInv, QuietCaptures, GlobalStep
    PROVE  EditsItsText
<1>1. global # NoGlobal /\ exit = "no" /\ exit' = exit
  BY DEF GlobalStep, GlobalSkip, GlobalPrint, GlobalZap, GlobalDelete,
         GlobalSubstitute, GlobalEnd, AtLine, registers, QuietCaptures
<1>2. CASE mgr' = mgr
  BY <1>1, <1>2 DEF EditsItsText
<1>3. Looping => global.line \in 1 .. LineCount(Cur) /\ LineCount(Cur) \in Nat
  BY <1>1, PassedType, CurOK
<1>4. CASE Looping /\ mgr' = PutCurrent(mgr, SetCurrentLine(Cur, global.line))
  <2>1. global.line \in 0 .. LineCount(Cur)
    BY <1>3, <1>4
  <2> QED
    BY <1>1, <1>4, <2>1, CursorEdits
<1>5. CASE GlobalDelete
  <2>1. Looping /\ mgr' = PutCurrent(mgr, Erase(Cur, global.line, global.line))
    BY <1>5 DEF GlobalDelete, AtLine
  <2>2. global.line \in global.line .. LineCount(Cur)
    BY <1>3, <2>1
  <2> QED
    BY <1>1, <1>3, <2>1, <2>2, ErasureEdits
<1>6. CASE GlobalSubstitute
  <2> DEFINE n == global.line
             s == global.nested.substitution
  <2>1. Looping /\ global \in GlobalLoop /\ global.nested.kind = "S"
    BY <1>1, <1>6 DEF GlobalSubstitute, AtLine, IInv, TypeOK
  <2>2. s \in Substitutions
    <3>1. global.nested \in NestedCommands
      BY <2>1 DEF GlobalLoop
    <3> QED
      BY <2>1, <3>1 DEF NestedCommands, SimpleNested, NestedSubstitute
  <2>3. CASE Examined \in DOMAIN s
    <3>1. mgr' = PutCurrent(mgr, Substituted(Cur, s, {n}, n))
      BY <1>6, <2>3 DEF GlobalSubstitute
    <3>2. /\ {n} \subseteq 1 .. LineCount(Cur) /\ n \in {n}
          /\ \A i \in {n} : Cur.lines[i] \in DOMAIN s
      BY <1>3, <2>1, <2>3 DEF Examined
    <3> HIDE DEF n, s
    <3> QED
      BY <1>1, <2>2, <3>1, <3>2, SubstitutionEdits
  <2>4. CASE Examined \notin DOMAIN s
    BY <1>4, <1>6, <2>1, <2>4 DEF GlobalSubstitute
  <2> QED
    BY <2>3, <2>4
<1> QED
  BY <1>2, <1>4, <1>5, <1>6
  DEF GlobalStep, GlobalSkip, GlobalPrint, GlobalZap, GlobalEnd, AtLine

LEMMA BeginGatherQuiet ==
    ASSUME IInv, IInv', QuietCaptures, BeginGather
    PROVE  QuietCaptures'
<1>1. PICK name \in Names :
        sinks' = Append(sinks, [dest |-> name, text |-> <<>>, state |-> "pending"])
  BY DEF BeginGather
<1>2. Ready("ZG") /\ exit' = "no" /\ sinks \in Seq(Capture)
  BY DEF BeginGather, Ready, registers, IInv, TypeOK
<1> DEFINE capture == [dest |-> name, text |-> <<>>, state |-> "pending"]
<1>3. capture \in Capture /\ capture.text = <<>>
  BY EmptySeq DEF Capture
<1> HIDE DEF capture
<1>4. /\ Len(sinks) \in Nat /\ Len(sinks') = Len(sinks) + 1
      /\ \A k \in 1 .. Len(sinks) : sinks'[k] = sinks[k]
      /\ sinks'[Len(sinks) + 1] = capture
  BY <1>1, <1>2, <1>3, AppendProperties, LenProperties DEF capture
<1>5. \A k \in 1 .. Len(sinks) : sinks[k].state = "pending" /\ sinks[k].text = <<>>
  <2>1. ASSUME NEW k \in 1 .. Len(sinks), k = Len(sinks)
        PROVE  sinks[k].state = "pending" /\ sinks[k].text = <<>>
    <3>1. sinks # <<>>
      BY <1>2, <2>1, EmptyByLength
    <3> QED
      BY <1>2, <2>1, <3>1, NothingCaptured DEF Captured
  <2>2. ASSUME NEW k \in 1 .. Len(sinks), k # Len(sinks)
        PROVE  sinks[k].state = "pending" /\ sinks[k].text = <<>>
    <3>1. k \in 1 .. Len(sinks) - 1
      BY <1>4, <2>2
    <3> QED
      BY <3>1 DEF QuietCaptures
  <2> QED
    BY <2>1, <2>2
<1>6. /\ Len(sinks') - 1 = Len(sinks) /\ sinks'[Len(sinks')].text = <<>>
  BY <1>3, <1>4
<1> QED
  BY <1>2, <1>4, <1>5, <1>6 DEF QuietCaptures, Captured

\* The captures that are left when the topmost is gone have nothing yet.
LEMMA OuterCaptures ==
    ASSUME sinks \in Seq(Capture), Nested
    PROVE  /\ Outer \in Seq(Capture) /\ Len(Outer) = Len(sinks) - 1
           /\ Len(Outer) \in Nat
           /\ \A k \in 1 .. Len(Outer) : Outer[k] = sinks[k]
<1>1. Len(sinks) \in Nat /\ Len(sinks) # 0
  BY EmptyByLength DEF Nested
<1> DEFINE n == Len(sinks) - 1
<1>2. n \in 0 .. Len(sinks) /\ 1 \in 1 .. Len(sinks) + 1 /\ n \in Nat
  BY <1>1
<1>3. /\ Outer \in Seq(Capture) /\ Len(Outer) = IF 1 <= n THEN n - 1 + 1 ELSE 0
      /\ \A i \in 1 .. n - 1 + 1 : Outer[i] = sinks[1 + i - 1]
  BY <1>2, PartOfSeq DEF Outer
<1>4. Len(Outer) = n
  <2> HIDE DEF n
  <2>1. \A i \in Nat : (IF 1 <= i THEN i - 1 + 1 ELSE 0) = i
    OBVIOUS
  <2> QED
    BY <1>2, <1>3, <2>1
<1>5. ASSUME NEW k \in 1 .. n PROVE Outer[k] = sinks[k]
  <2>1. k \in 1 .. n - 1 + 1 /\ 1 + k - 1 = k
    BY <1>2
  <2>2. Outer[k] = sinks[1 + k - 1]
    BY <1>3, <2>1
  <2> QED
    BY <2>1, <2>2
<1> QED
  BY <1>2, <1>3, <1>4, <1>5

LEMMA EndGatherQuiet ==
    ASSUME IInv, IInv', QuietCaptures, EndGather
    PROVE  QuietCaptures'
<1>1. /\ Nested /\ global' = NoGlobal /\ sinks \in Seq(Capture)
      /\ sinks' \in Seq(Capture)
  BY DEF EndGather, IInv, TypeOK
<1>2. PICK result : result \in {"ok", "error"} /\ CompleteIn(Outer, <<>>, result)
  BY DEF EndGather, GatherSucceeds, GatherFails
<1>3. /\ Outer \in Seq(Capture) /\ Len(Outer) = Len(sinks) - 1 /\ Len(Outer) \in Nat
      /\ \A k \in 1 .. Len(Outer) : Outer[k] = sinks[k]
  BY <1>1, OuterCaptures
<1>4. \A k \in 1 .. Len(Outer) : Outer[k].state = "pending" /\ Outer[k].text = <<>>
  BY <1>3 DEF QuietCaptures
<1> HIDE DEF Outer
<1>5. CASE Outer = <<>>
  <2>1. sinks' = <<>>
    BY <1>2, <1>5 DEF CompleteIn
  <2>2. Len(sinks') = 0
    BY <2>1
  <2> QED
    BY <1>1, <2>1, <2>2 DEF QuietCaptures, Nested
<1>6. CASE Outer # <<>>
  <2>1. /\ Len(sinks') = Len(Outer)
        /\ \A k \in 1 .. Len(Outer) - 1 : sinks'[k] = Outer[k]
        /\ sinks'[Len(Outer)].state = result
        /\ sinks'[Len(Outer)].text = Outer[Len(Outer)].text \o <<>>
    BY <1>1, <1>2, <1>3, <1>6, CompletedStack
  <2>2. Outer[Len(Outer)].text = <<>>
    BY <1>3, <1>4, <1>6, TopOfStack
  <2>3. sinks'[Len(sinks')].text = <<>> /\ sinks'[Len(sinks')].state # "pending"
    BY <1>2, <2>1, <2>2
  <2>4. \A k \in 1 .. Len(sinks') - 1 :
          sinks'[k].state = "pending" /\ sinks'[k].text = <<>>
    BY <1>3, <1>4, <2>1
  <2> QED
    BY <1>1, <2>3, <2>4 DEF QuietCaptures, Captured
<1> QED
  BY <1>5, <1>6

LEMMA GatheredKeepsTheCopy ==
    ASSUME NEW b, BufferOK(b), NEW text
    PROVE  Gathered(b, text).saved = b.saved
BY EditsKeepCopyAndMark DEF Gathered, BufferOK, Keeps

LEMMA EndGatherPromise ==
    ASSUME IInv, IInv', QuietCaptures, EndGather
    PROVE  PromiseStep
<1>1. UNCHANGED exit /\ Nested /\ global = NoGlobal
  BY DEF EndGather, registers
<1>2. CASE UNCHANGED mgr
  BY <1>1, <1>2, QuietCommand
<1>3. CASE /\ Captured.text # <<>>
           /\ mgr' = GatheredInto(mgr, Captured.dest, Captured.text)
  <2> DEFINE name == Captured.dest
             text == Captured.text
             m1   == GetOrCreate(mgr, name)
             b    == Gathered(m1.buffers[name], text)
  <2>1. exit = "no"
    BY <1>1, <1>3 DEF QuietCaptures, IInv, TypeOK
  <2>2. name \in Names /\ text \in Seq(Text)
    <3>1. Captured \in Capture
      BY <1>1, TopOfStack DEF Captured, Nested, IInv, TypeOK
    <3> QED
      BY <3>1 DEF Capture
  <2>3. mgr' = Put(m1, name, b) /\ text # <<>>
    BY <1>3 DEF GatheredInto
  <2> HIDE DEF name, text
  <2>4. ManagerCore(mgr)
    BY CurOK
  <2>5. /\ ManagerCore(m1) /\ Open(m1) = Open(mgr) \cup {name}
        /\ \A n \in Open(mgr) : m1.buffers[n] = mgr.buffers[n]
    BY <2>2, <2>4, GetOrCreateCore
  <2>6. name \notin Open(mgr) => m1.buffers[name] = NewBuffer
    BY <2>2, <2>4, NewBufferOK, PutCore DEF GetOrCreate
  <2> HIDE DEF m1
  <2>7. \A n \in Names : TextOf(m1, n) = TextOf(mgr, n) /\ CopyOf(m1, n) = CopyOf(mgr, n)
    BY <2>5, <2>6 DEF TextOf, CopyOf, NewBuffer
  <2>8. BufferOK(m1.buffers[name])
    BY <2>5 DEF ManagerCore, BuffersOK
  <2>9. BufferOK(b) /\ b.saved = CopyOf(m1, name)
    BY <2>2, <2>3, <2>5, <2>8, GatheredOK, GatheredKeepsTheCopy DEF CopyOf
  <2> HIDE DEF b
  <2>10. SameElsewhere(m1, mgr', name, name)
    BY <2>2, <2>3, <2>5, <2>9, PutTexts
  <2>11. SameElsewhere(mgr, mgr', name, name)
    BY <2>7, <2>10 DEF SameElsewhere
  <2> QED
    BY <1>1, <2>1, <2>11, WorkStep
<1> QED
  BY <1>2, <1>3 DEF EndGather, GatherSucceeds, GatherFails

-----------------------------------------------------------------------------
(***************************************************************************)
(* Marks and files.  A mark is taken away by R without a position and by W *)
(* of the whole buffer alone, and either leaves what the file holds.       *)
(***************************************************************************)

\* No buffer of both managers has lost its mark.
MarksStay(m, m2) ==
    \A n \in Open(m) \cap Open(m2) :
        m.buffers[n].modified => m2.buffers[n].modified

LEMMA EditsKeepMarks ==
    ASSUME IInv, EditsItsText
    PROVE  MarksStay(mgr, mgr')
<1>1. CASE mgr' = mgr
  BY <1>1 DEF MarksStay
<1>2. ASSUME NEW b, BufferOK(b), Keeps(Cur, b), mgr' = PutCurrent(mgr, b)
      PROVE  MarksStay(mgr, mgr')
  <2>1. /\ mgr'.buffers[mgr.current] = b
        /\ \A n \in Open(mgr) \ {mgr.current} : mgr'.buffers[n] = mgr.buffers[n]
    BY <1>2, CurOK, PutCurrentOK DEF CurrentBuffer
  <2>2. mgr.buffers[mgr.current].modified => b.modified
    BY <1>2 DEF Keeps, Cur, CurrentBuffer
  <2> QED
    BY <2>1, <2>2 DEF MarksStay
<1> QED
  BY <1>1, <1>2 DEF EditsItsText

LEMMA BufferCommandKeepsMarks ==
    ASSUME IInv, BufferCommand
    PROVE  MarksStay(mgr, mgr')
<1>0. ManagerCore(mgr) /\ mgr.current \in Open(mgr) /\ Cur = CurrentBuffer(mgr)
  BY CurOK DEF Cur
<1>1. CASE mgr' = mgr
  BY <1>1 DEF MarksStay
<1>2. ASSUME NEW name \in Names, mgr' = CreateOrSelect(mgr, name)
      PROVE  MarksStay(mgr, mgr')
  <2>1. \A n \in Open(mgr) : mgr.buffers[n].modified => ~Transient(mgr, n)
    BY DEF Transient
  <2> QED
    BY <1>0, <1>2, <2>1, CreateOrSelectOK DEF MarksStay
<1>3. ASSUME NEW a, NEW r \in Evaluate(a, Cur),
             mgr' = PutCurrent(mgr, Refilled(Cur, SubSeq(Cur.lines, r.first, r.last)))
      PROVE  MarksStay(mgr, mgr')
  <2> DEFINE new == SubSeq(Cur.lines, r.first, r.last)
             b   == Refilled(Cur, new)
  <2>1. new \in Seq(Text) /\ new # <<>> /\ BufferOK(Cur)
    BY CurOK, AddressedText
  <2>2. mgr' = PutCurrent(mgr, b)
    BY <1>3
  <2> HIDE DEF new
  <2>3. BufferOK(b) /\ b.modified
    BY <2>1, RefilledOK
  <2> HIDE DEF b
  <2>4. /\ mgr'.buffers[mgr.current] = b
        /\ \A n \in Open(mgr) \ {mgr.current} : mgr'.buffers[n] = mgr.buffers[n]
    BY <1>0, <2>2, <2>3, PutCurrentOK DEF CurrentBuffer
  <2> QED
    BY <2>3, <2>4 DEF MarksStay
<1>4. ASSUME NEW a, NEW r \in Evaluate(a, Cur), NEW name \in Names,
             name # mgr.current, mgr' = MovedTo(mgr, name, r)
      PROVE  MarksStay(mgr, mgr')
  <2>1. LeavesBehind(mgr, mgr', name, r)
    BY <1>0, <1>4, MovedToEffect
  <2>2. /\ mgr'.buffers[mgr.current].modified /\ mgr'.buffers[name].modified
        /\ \A n \in Open(mgr) \ {name, mgr.current} :
             mgr'.buffers[n] = mgr.buffers[n]
    BY <2>1 DEF LeavesBehind, CurrentBuffer
  <2> QED
    BY <2>2 DEF MarksStay
<1>5. ASSUME Move
      PROVE  MarksStay(mgr, mgr')
  <2>1. \/ mgr' = mgr
        \/ \E a : \E r \in Evaluate(a, Cur), name \in Names :
             mgr' = IF name = mgr.current
                      THEN PutCurrent(mgr, Refilled(Cur,
                             SubSeq(Cur.lines, r.first, r.last)))
                      ELSE MovedTo(mgr, name, r)
    BY <1>5 DEF Move, MoveLines
  <2> QED
    BY <1>1, <1>3, <1>4, <2>1
<1> QED
  BY <1>1, <1>2, <1>5 DEF BufferCommand, SelectBuffer

LEMMA GatherCommandKeepsMarks ==
    ASSUME IInv, GatherCommand
    PROVE  MarksStay(mgr, mgr')
<1>1. CASE mgr' = mgr
  BY <1>1 DEF MarksStay
<1>2. CASE /\ Nested /\ Captured.text # <<>>
           /\ mgr' = GatheredInto(mgr, Captured.dest, Captured.text)
  <2> DEFINE name == Captured.dest
             text == Captured.text
             m1   == GetOrCreate(mgr, name)
             b    == Gathered(m1.buffers[name], text)
  <2>1. name \in Names /\ text \in Seq(Text)
    <3>1. Captured \in Capture
      BY <1>2, TopOfStack DEF Captured, Nested, IInv, TypeOK
    <3> QED
      BY <3>1 DEF Capture
  <2>2. mgr' = Put(m1, name, b) /\ text # <<>>
    BY <1>2 DEF GatheredInto
  <2> HIDE DEF name, text
  <2>3. /\ ManagerCore(m1) /\ Open(m1) = Open(mgr) \cup {name}
        /\ \A n \in Open(mgr) : m1.buffers[n] = mgr.buffers[n]
    BY <2>1, CurOK, GetOrCreateCore
  <2> HIDE DEF m1
  <2>4. BufferOK(m1.buffers[name])
    BY <2>3 DEF ManagerCore, BuffersOK
  <2>5. BufferOK(b) /\ b.modified
    BY <2>1, <2>2, <2>4, GatheredOK
  <2> HIDE DEF b
  <2>6. /\ mgr'.buffers[name] = b
        /\ \A n \in Open(m1) \ {name} : mgr'.buffers[n] = m1.buffers[n]
    BY <2>1, <2>2, <2>3, <2>5, PutCore
  <2> QED
    BY <2>3, <2>5, <2>6 DEF MarksStay
<1> QED
  BY <1>1, <1>2 DEF GatherCommand, BeginGather, EndGather, GatherSucceeds, GatherFails

\* W cannot write a blank last line that no newline ends.
LosesItsLastLine(b) ==
    Len(b.lines) > 0 /\ ~b.final_newline /\ b.lines[Len(b.lines)] = Blank

\* What the property says, but for the buffers of which W loses a line.
CleanBuffersAreOnDisk ==
    \A n \in Open(mgr) \cap Open(mgr') :
        LET b == mgr'.buffers[n]
        IN mgr.buffers[n].modified /\ ~b.modified /\ ~LosesItsLastLine(b) =>
             IsImage(disk'[b.file]) /\ disk'[b.file].lines = b.lines

LEMMA MarksStayOnDisk ==
    ASSUME MarksStay(mgr, mgr')
    PROVE  CleanBuffersAreOnDisk
BY DEF MarksStay, CleanBuffersAreOnDisk

LEMMA CurrentOnDisk ==
    ASSUME IInv, NEW b, BufferOK(b), mgr' = PutCurrent(mgr, b),
           ~b.modified /\ ~LosesItsLastLine(b) =>
             IsImage(disk'[b.file]) /\ disk'[b.file].lines = b.lines
    PROVE  CleanBuffersAreOnDisk
<1>1. /\ mgr'.buffers[mgr.current] = b
      /\ \A n \in Open(mgr) \ {mgr.current} : mgr'.buffers[n] = mgr.buffers[n]
  BY CurOK, PutCurrentOK DEF CurrentBuffer
<1> QED
  BY <1>1 DEF CleanBuffersAreOnDisk

\* R makes the current buffer clean when it loads a file into it.
LEMMA ReadOnDisk ==
    ASSUME IInv, Read
    PROVE  CleanBuffersAreOnDisk
<1>1. CASE mgr' = mgr
  BY <1>1, MarksStayOnDisk DEF MarksStay
<1>2. ASSUME NEW typed \in Files \cup {NoFile}, NEW f \in NamedFiles(typed, Cur),
             Decodable(disk[f]), NEW a, NEW b \in ReadInto(a, Cur, disk[f], f),
             mgr' = PutCurrent(mgr, b), disk' = disk
      PROVE  CleanBuffersAreOnDisk
  <2>1. f \in Files /\ disk[f] \in Image /\ IsImage(disk[f])
    BY <1>2, NamedFilesExist, DecodableIsImage DEF Decodable
  <2>2. BufferOK(b)
    BY <2>1, CurOK, ReadIntoOK
  <2>3. CASE a = NoAddress
    <3>1. b = Loaded(Cur, disk[f], f)
      BY <2>3 DEF ReadInto
    <3>2. b.lines = disk[f].lines /\ b.file = f
      BY <3>1 DEF Loaded, LoadFile
    <3> QED
      BY <1>2, <2>1, <2>2, <3>2, CurrentOnDisk
  <2>4. CASE a # NoAddress
    <3>1. PICK at \in ReadPositions(a, Cur) : b = InsertAfter(Cur, at, disk[f].lines)
      BY <2>4 DEF ReadInto
    <3>2. Keeps(Cur, b)
      BY <3>1, CurEdited
    <3>3. /\ mgr'.buffers[mgr.current] = b
          /\ \A n \in Open(mgr) \ {mgr.current} : mgr'.buffers[n] = mgr.buffers[n]
      BY <1>2, <2>2, CurOK, PutCurrentOK DEF CurrentBuffer
    <3>4. MarksStay(mgr, mgr')
      BY <3>2, <3>3 DEF MarksStay, Keeps, Cur, CurrentBuffer
    <3> QED
      BY <3>4, MarksStayOnDisk
  <2> QED
    BY <2>3, <2>4
<1>3. \/ mgr' = mgr
      \/ \E a : \E typed \in Files \cup {NoFile} :
           \E f \in { g \in NamedFiles(typed, Cur) : Decodable(disk[g]) } :
             \E b \in ReadInto(a, Cur, disk[f], f) :
               mgr' = PutCurrent(mgr, b) /\ disk' = disk
  BY DEF Read
<1> QED
  BY <1>1, <1>2, <1>3

\* W makes it clean when it has written all of it.
LEMMA WriteOnDisk ==
    ASSUME IInv, Write, "close" \notin WriteFaults
    PROVE  CleanBuffersAreOnDisk
<1>1. CASE mgr' = mgr
  BY <1>1, MarksStayOnDisk DEF MarksStay
<1>2. ASSUME NEW typed \in Files \cup {NoFile}, NEW f \in NamedFiles(typed, Cur),
             NEW r, NEW mode, FullBuffer(r, Cur), WriteSucceeds(r, mode, f)
      PROVE  CleanBuffersAreOnDisk
  <2> DEFINE b == AssociateAndMarkClean(Cur, f, WriteEncoding(mode, Cur))
             image == WholeImage(r, Cur)
  <2>1. mgr' = PutCurrent(mgr, b) /\ disk' = [disk EXCEPT ![f] = image]
    BY <1>2 DEF WriteSucceeds
  <2>2. f \in Files /\ f \in DOMAIN disk
    BY <1>2, NamedFilesExist DEF IInv, TypeOK
  <2>3. BufferOK(b) /\ b.lines = Cur.lines /\ b.file = f
        /\ b.final_newline = Cur.final_newline
    <3>1. BufferOK(b)
      BY <2>2, CurOK, WriteEncodingType, AssociateAndMarkCleanOK
    <3> QED
      BY <3>1, CurOK DEF BufferOK, BufferRecord, AssociateAndMarkClean
  <2>4. Cur.lines \in Seq(Text) /\ Len(Cur.lines) \in Nat
        /\ Cur.final_newline \in BOOLEAN
    BY CurOK, LenProperties DEF BufferOK, BufferRecord
  <2>5. image = Written(Cur.lines, Cur.final_newline)
    <3>1. r.first = 1 /\ r.last = Len(Cur.lines)
      BY <1>2 DEF FullBuffer, LineCount
    <3>2. SubSeq(Cur.lines, 1, Len(Cur.lines)) = Cur.lines
      BY <2>4, SubSeqFull
    <3>3. (~FullBuffer(r, Cur) \/ Cur.final_newline) = Cur.final_newline
      BY <1>2, <2>4
    <3> QED
      BY <3>1, <3>2, <3>3 DEF WholeImage
  <2>6. LosesItsLastLine(b) = LosesItsLastLine(Cur)
    BY <2>3 DEF LosesItsLastLine
  <2>7. ~LosesItsLastLine(Cur) => image.lines = Cur.lines
    BY <2>4, <2>5 DEF Written, LosesItsLastLine
  <2>8. IsImage(image)
    <3>1. image \in Image
      BY <2>4, <2>5, WrittenIsImage
    <3> QED
      BY <3>1, ImageAssumption DEF IsImage
  <2> HIDE DEF b, image
  <2>9. disk'[f] = image
    BY <2>1, <2>2
  <2> QED
    BY <2>1, <2>3, <2>6, <2>7, <2>8, <2>9, CurrentOnDisk
<1>3. \/ mgr' = mgr
      \/ \E mode : \E typed \in Files \cup {NoFile} :
           \E f \in NamedFiles(typed, Cur) : \E r :
             FullBuffer(r, Cur) /\ WriteSucceeds(r, mode, f)
  BY DEF Write, WriteSucceeds, WriteFails
<1> QED
  BY <1>1, <1>2, <1>3

LEMMA NextOnDisk ==
    ASSUME IInv, QuietCaptures, [Next]_vars,
           "close" \notin WriteFaults
    PROVE  CleanBuffersAreOnDisk
<1>1. CASE mgr' = mgr
  BY <1>1, MarksStayOnDisk DEF MarksStay
<1>2. CASE EditsItsText
  BY <1>2, EditsKeepMarks, MarksStayOnDisk
<1>3. LineCommand => EditsItsText
  BY PrintEdits, DeleteEdits, ZapEdits, TransferEdits, SubstituteEdits
  DEF LineCommand
<1>4. TextCommand => EditsItsText
  BY TextCommandEdits
<1>5. CASE BufferCommand
  BY <1>5, BufferCommandKeepsMarks, MarksStayOnDisk
<1>6. CASE FileCommand
  BY <1>1, <1>6, ReadOnDisk, WriteOnDisk DEF FileCommand, List
<1>7. OtherCommand => mgr' = mgr
  BY DEF OtherCommand, Facts, Option, Quit, QuitImmediately, Message, System, Comment
<1>8. CASE GatherCommand
  BY <1>8, GatherCommandKeepsMarks, MarksStayOnDisk
<1>9. BeginGlobal => mgr' = mgr
  BY DEF BeginGlobal
<1>10. GlobalStep => EditsItsText
  BY GlobalStepEdits
<1>11. UNCHANGED vars => mgr' = mgr
  BY DEF vars
<1> QED
  BY <1>1, <1>2, <1>3, <1>4, <1>5, <1>6, <1>7, <1>8, <1>9, <1>10, <1>11
  DEF Next, GlobalCommand

-----------------------------------------------------------------------------
(***************************************************************************)
(* The theorems.                                                           *)
(***************************************************************************)

LEMMA InitQuiet == Init => QuietCaptures
<1> SUFFICES ASSUME Init PROVE QuietCaptures
  OBVIOUS
<1>1. sinks = <<>> /\ exit = "no" /\ Len(sinks) = 0
  BY DEF Init
<1> QED
  BY <1>1 DEF QuietCaptures, Nested

LEMMA NextQuiet == IInv /\ IInv' /\ QuietCaptures /\ [Next]_vars => QuietCaptures'
<1> SUFFICES ASSUME IInv, IInv', QuietCaptures, [Next]_vars PROVE QuietCaptures'
  OBVIOUS
<1>1. CASE UNCHANGED vars
  BY <1>1 DEF vars, registers, QuietCaptures, Nested, Captured
<1>2. CASE LineCommand \/ TextCommand \/ BufferCommand \/ FileCommand
  BY <1>2, CommandsAnswer, AnswersQuiet
<1>3. CASE GlobalCommand
  BY <1>3, BeginGlobalQuiet, GlobalStepQuiet DEF GlobalCommand
<1>4. CASE GatherCommand
  BY <1>4, BeginGatherQuiet, EndGatherQuiet DEF GatherCommand
<1> QED
  BY <1>1, <1>2, <1>3, <1>4, OtherCommandQuiet DEF Next

LEMMA InitPromise == Init => Promise!Init
<1> SUFFICES ASSUME Init PROVE Promise!Init
  OBVIOUS
<1>1. mgr = InitialManager /\ exit = "no"
  BY DEF Init
<1>2. Open(mgr) = {Zero} /\ mgr.buffers[Zero] = NewBuffer /\ Zero \in Names
  BY <1>1, NamesAssumption DEF InitialManager, Open
<1>3. \A n \in Names : TextOf(mgr, n) = <<>> /\ CopyOf(mgr, n) = <<>>
  BY <1>2 DEF TextOf, CopyOf, NewBuffer
<1>4. Texts = Promise!Nothing /\ Copies = Promise!Nothing
  BY <1>3 DEF Texts, Copies, Promise!Nothing
<1> QED
  BY <1>1, <1>2, <1>4 DEF Promise!Init

LEMMA NextPromise == IInv /\ IInv' /\ QuietCaptures /\ [Next]_vars => PromiseStep
<1> SUFFICES ASSUME IInv, IInv', QuietCaptures, [Next]_vars PROVE PromiseStep
  OBVIOUS
<1>1. CASE UNCHANGED vars
  BY <1>1, QuietCommand DEF vars, registers
<1>2. CASE LineCommand
  BY <1>2, PrintEdits, DeleteEdits, ZapEdits, TransferEdits, SubstituteEdits,
     EditsItsTextStep DEF LineCommand
<1>3. CASE TextCommand
  BY <1>3, TextCommandEdits, EditsItsTextStep
<1>4. CASE BufferCommand
  BY <1>4, MovePromise, SelectBufferPromise DEF BufferCommand
<1>5. CASE FileCommand
  BY <1>5, ReadPromise, WritePromise, ListPromise DEF FileCommand
<1>6. CASE OtherCommand
  BY <1>6, OtherPromise
<1>7. CASE BeginGlobal \/ BeginGather
  BY <1>7, QuietCommand DEF BeginGlobal, BeginGather, registers
<1>8. CASE GlobalStep
  BY <1>8, GlobalStepEdits, EditsItsTextStep
<1>9. CASE EndGather
  BY <1>9, EndGatherPromise
<1> QED
  BY <1>1, <1>2, <1>3, <1>4, <1>5, <1>6, <1>7, <1>8, <1>9
  DEF Next, GlobalCommand, GatherCommand

\* When Q or QQ has ended the session, from inside a ZG perhaps, no G is under
\* way and no capture holds text that its ZG would put into a buffer after.
THEOREM NothingAfterTheEnd == Spec => []QuietCaptures
<1>1. IInv /\ QuietCaptures /\ [Next]_vars => QuietCaptures'
  BY NextIInv, NextQuiet
<1> QED
  BY <1>1, InitQuiet, Invariance, PTL DEF Spec

\* The commands implement Workspace, whatever the lines, names, files,
\* addresses, patterns and faults are.
THEOREM ImplementsWorkspace == Spec => KeepsThePromise
<1>1. IInv /\ QuietCaptures /\ [Next]_vars => [Promise!Next]_(Promise!texts)
  BY NextIInv, NextPromise DEF PromiseStep
<1> QED
  BY <1>1, InitPromise, Invariance, NothingAfterTheEnd, PTL
  DEF Spec, KeepsThePromise, Promise!Spec

\* If a failure to write shows before the file is closed, then what looks
\* clean is on disk, but for a blank last line that no newline ends.
THEOREM OnlyABlankLineIsLost ==
    ASSUME "close" \notin WriteFaults
    PROVE  Spec => [][CleanBuffersAreOnDisk]_vars
<1>1. IInv /\ QuietCaptures /\ [Next]_vars => CleanBuffersAreOnDisk
  BY NextOnDisk
<1>2. IInv /\ QuietCaptures /\ [Next]_vars => [CleanBuffersAreOnDisk]_vars
  BY <1>1
<1> QED
  BY <1>2, Invariance, NothingAfterTheEnd, PTL DEF Spec

\* Where no line is blank, W loses nothing.
LEMMA NoBlankLineIsLost ==
    ASSUME IInv, Blank \notin Text
    PROVE  \A n \in Open(mgr) : ~LosesItsLastLine(mgr.buffers[n])
<1>1. ASSUME NEW n \in Open(mgr), LosesItsLastLine(mgr.buffers[n])
      PROVE  FALSE
  <2> DEFINE lines == mgr.buffers[n].lines
  <2>1. lines \in Seq(Text)
    BY <1>1, CurOK DEF ManagerCore, BuffersOK, BufferOK, BufferRecord
  <2>2. Len(lines) > 0 /\ lines[Len(lines)] = Blank
    BY <1>1 DEF LosesItsLastLine
  <2> HIDE DEF lines
  <2>3. lines[Len(lines)] \in Text
    BY <2>1, <2>2, LenProperties, ElementOfSeq
  <2> QED
    BY <2>2, <2>3
<1> QED
  BY <1>1

\* If a failure to write shows before the file is closed, and no line is
\* blank, then what looks clean is on disk.
THEOREM CleanMeansWritten ==
    ASSUME "close" \notin WriteFaults, Blank \notin Text
    PROVE  Spec => CleanIsOnDisk
<1> DEFINE NoneIsLost == \A n \in Open(mgr) : ~LosesItsLastLine(mgr.buffers[n])
           OnDisk == \A n \in Open(mgr) \cap Open(mgr') :
                       LET b == mgr'.buffers[n]
                       IN mgr.buffers[n].modified /\ ~b.modified =>
                            IsImage(disk'[b.file]) /\ disk'[b.file].lines = b.lines
<1>1. IInv => NoneIsLost
  BY NoBlankLineIsLost
<1>2. NoneIsLost' /\ [CleanBuffersAreOnDisk]_vars => [OnDisk]_vars
  BY DEF CleanBuffersAreOnDisk
<1> HIDE DEF NoneIsLost
<1>3. Spec => [][OnDisk]_vars
  BY <1>1, <1>2, OnlyABlankLineIsLost, Invariance, PTL
<1> QED
  BY <1>3 DEF CleanIsOnDisk
=============================================================================
