-------------------------- MODULE FlowEngineProofs --------------------------
(***************************************************************************)
(* What the levels of the sources tell, and that the engine computes       *)
(* substitution, for every set of buffers, every text and every limit.     *)
(***************************************************************************)
EXTENDS FlowMeaning, SequenceTheorems, Recursion

-----------------------------------------------------------------------------
(***************************************************************************)
(* One source.                                                             *)
(***************************************************************************)

LEMMA LinesAreTexts ==
    ASSUME NEW s \in Source
    PROVE  /\ Len(s.lines) \in Nat
           /\ \A l \in 1 .. Len(s.lines) :
                Len(s.lines[l]) \in Nat /\ Width(s, l) \in Nat
<1>1. s.lines \in Seq(Text)
  BY DEF Source
<1>2. Len(s.lines) \in Nat
  BY <1>1, LenProperties
<1>3. ASSUME NEW l \in 1 .. Len(s.lines)
      PROVE  Len(s.lines[l]) \in Nat
  <2>1. s.lines[l] \in Text
    BY <1>1, ElementOfSeq
  <2> QED
    BY <2>1, LenProperties DEF Text
<1>4. ASSUME NEW l \in 1 .. Len(s.lines)
      PROVE  Width(s, l) \in Nat
  <2>1. Width(s, l) = Len(s.lines[l]) + 1 \/ Width(s, l) = Len(s.lines[l]) + 0
    BY DEF Width
  <2> QED
    BY <1>3, <2>1
<1> QED
  BY <1>2, <1>3, <1>4

LEMMA SourcesGoOn ==
    ASSUME NEW s \in Source
    PROVE  /\ Advance(s) \in Source /\ NextLine(s) \in Source
           /\ Advance(s).level = s.level /\ NextLine(s).level = s.level
           /\ Advance(s).literal = s.literal /\ NextLine(s).literal = s.literal
           /\ Advance(s).newlines = s.newlines
           /\ NextLine(s).newlines = s.newlines
<1>1. /\ s.lines \in Seq(Text) /\ s.line \in Nat \ {0} /\ s.column \in Nat
      /\ s.newlines \in BOOLEAN /\ s.literal \in BOOLEAN /\ s.level \in Nat
  BY DEF Source
<1>2. s = [lines |-> s.lines, line |-> s.line, column |-> s.column,
           newlines |-> s.newlines, literal |-> s.literal, level |-> s.level]
  BY DEF Source
<1>3. Advance(s) =
        [lines |-> s.lines, line |-> s.line, column |-> s.column + 1,
         newlines |-> s.newlines, literal |-> s.literal, level |-> s.level]
  BY <1>2 DEF Advance
<1>4. NextLine(s) =
        [lines |-> s.lines, line |-> s.line + 1, column |-> 0,
         newlines |-> s.newlines, literal |-> s.literal, level |-> s.level]
  BY DEF NextLine, NewSource
<1>5. s.line + 1 \in Nat \ {0} /\ s.column + 1 \in Nat /\ 0 \in Nat
  BY <1>1
<1>6. Advance(s) \in Source
  BY <1>1, <1>3, <1>5 DEF Source
<1>7. NextLine(s) \in Source
  BY <1>1, <1>4, <1>5 DEF Source
<1> QED
  BY <1>3, <1>4, <1>6, <1>7

\* A source that ends its lines with newlines goes on after any other
\* character.
LEMMA NewlineComesLast ==
    ASSUME NEW s \in Source, HasMore(s), s.newlines,
           CharacterAt(Advance(s)) # "nl"
    PROVE  HasMore(Advance(s))
<1>1. /\ Advance(s).lines = s.lines /\ Advance(s).line = s.line
      /\ Advance(s).newlines = s.newlines
      /\ Advance(s).column = s.column + 1
      /\ s.line \in Nat \ {0} /\ s.column \in Nat
  BY DEF Source, Advance
<1>2. s.column + 1 <= Len(s.lines[s.line])
  BY <1>1 DEF CharacterAt
<1>3. s.line \in 1 .. Len(s.lines)
  BY <1>1, LinesAreTexts DEF HasMore
<1>4. Len(s.lines[s.line]) \in Nat
  BY <1>3, LinesAreTexts
<1>5. Width(Advance(s), s.line) = Len(s.lines[s.line]) + 1
  BY <1>1 DEF Width
<1>6. s.column + 1 < Width(Advance(s), s.line)
  BY <1>1, <1>2, <1>4, <1>5
<1> QED
  BY <1>1, <1>3, <1>6, LinesAreTexts DEF HasMore

-----------------------------------------------------------------------------
(***************************************************************************)
(* The invariant.  The level of a source is its height; whatever lies      *)
(* above the first source is literal or ends in a newline; a directive is  *)
(* read from the source on top.                                            *)
(***************************************************************************)

StackInv(st) ==
    /\ st \in Seq(Source)
    /\ \A i \in 1 .. Len(st) : st[i].level = i - 1
    /\ \A i \in 2 .. Len(st) : st[i].literal \/ st[i].newlines

\* A name may outlive its source, for one character.
DirectiveInv(st, p) ==
    p.mode # "text" /\ st # <<>> =>
        /\ Len(st) - 1 <= p.level
        /\ Len(st) - 1 = p.level => ~st[Len(st)].literal
        /\ p.mode # "name" =>
             /\ Len(st) - 1 = p.level
             /\ Len(st) >= 2 => HasMore(st[Len(st)])

PendingInv == pending.mode \in Modes /\ pending.level \in Nat

FlowInv ==
    /\ buffers \in BufferSets
    /\ StackInv(stack)
    /\ PendingInv
    /\ DirectiveInv(stack, pending)
    /\ outcome \in {"none", "running", "ok", "failed", "refused"}
    /\ outcome \in {"none", "ok"} => stack = <<>>
    /\ outcome # "running" => pending.mode = "text"

LEMMA FlowInitially == FlowInit => FlowInv
<1> SUFFICES ASSUME FlowInit PROVE FlowInv
  OBVIOUS
<1>1. stack = <<>> /\ Len(stack) = 0 /\ stack \in Seq(Source)
  BY EmptySeq DEF FlowInit
<1>2. StackInv(stack)
  BY <1>1 DEF StackInv
<1>3. PendingInv /\ pending.mode = "text"
  BY DEF FlowInit, PendingInv, NoDirective, Modes
<1> QED
  BY <1>1, <1>2, <1>3 DEF FlowInit, FlowInv, DirectiveInv

\* Reading a character leaves the stack as it is, but for the place in the
\* source on top; and that goes on, if it is not literal.
LEMMA Reads ==
    ASSUME FlowInv, Available
    PROVE  /\ StackInv(Consumed)
           /\ Len(stack) \in Nat \ {0}
           /\ Len(Consumed) = Len(stack)
           /\ Consumed # <<>>
           /\ Consumed[Len(stack)].literal = Top.literal
           /\ Top.level = Len(stack) - 1
           /\ Len(stack) >= 2 /\ ~Top.literal /\ Char # "nl" =>
                HasMore(Consumed[Len(stack)])
<1>1. stack \in Seq(Source) /\ Len(stack) \in Nat \ {0}
  BY LenProperties, EmptySeq DEF FlowInv, StackInv, Available
<1>2. Top \in Source /\ HasMore(Top)
  BY <1>1, ElementOfSeq DEF Top, Available
<1>3. /\ Advance(Top) \in Source
      /\ Advance(Top).level = Top.level
      /\ Advance(Top).literal = Top.literal
      /\ Advance(Top).newlines = Top.newlines
  BY <1>2, SourcesGoOn
<1>4. Consumed = [stack EXCEPT ![Len(stack)] = Advance(Top)]
  BY DEF Consumed, Top
<1>5. /\ Consumed \in Seq(Source)
      /\ Len(Consumed) = Len(stack)
      /\ \A j \in 1 .. Len(stack) :
           Consumed[j] = IF j = Len(stack) THEN Advance(Top) ELSE stack[j]
  BY <1>1, <1>3, <1>4, ExceptSeq
<1>6. StackInv(Consumed)
  <2>1. \A i \in 1 .. Len(stack) : Consumed[i].level = stack[i].level
    BY <1>3, <1>5 DEF Top
  <2>2. \A i \in 2 .. Len(stack) :
          /\ Consumed[i].literal = stack[i].literal
          /\ Consumed[i].newlines = stack[i].newlines
    BY <1>1, <1>3, <1>5 DEF Top
  <2> QED
    BY <1>5, <2>1, <2>2 DEF FlowInv, StackInv
<1>7. Consumed[Len(stack)] = Advance(Top)
  BY <1>1, <1>5
<1>8. Consumed # <<>>
  BY <1>1, <1>5, EmptySeq
<1>9. Len(stack) >= 2 /\ ~Top.literal /\ Char # "nl" => HasMore(Advance(Top))
  <2> HAVE Len(stack) >= 2 /\ ~Top.literal /\ Char # "nl"
  <2>1. Top.newlines
    BY <1>1 DEF FlowInv, StackInv, Top
  <2> QED
    BY <1>2, <2>1, NewlineComesLast DEF Char
<1> QED
  BY <1>1, <1>3, <1>5, <1>6, <1>7, <1>8, <1>9 DEF FlowInv, StackInv, Top

-----------------------------------------------------------------------------
(***************************************************************************)
(* The ways a step can end.                                                *)
(***************************************************************************)

\* The step read a character of its directive, or ended it.
LEMMA GoesOn ==
    ASSUME FlowInv, Available, buffers' = buffers, outcome' = outcome,
           stack' = Consumed, PendingInv',
           pending'.mode # "text" =>
             /\ pending'.level = Top.level
             /\ ~Top.literal
             /\ pending'.mode # "name" => Char # "nl"
    PROVE  FlowInv'
<1>1. DirectiveInv(Consumed, pending')
  <2> SUFFICES ASSUME pending'.mode # "text"
               PROVE  /\ Len(Consumed) - 1 = pending'.level
                      /\ ~Consumed[Len(Consumed)].literal
                      /\ pending'.mode # "name" =>
                           (Len(Consumed) >= 2 => HasMore(Consumed[Len(Consumed)]))
    BY Reads DEF DirectiveInv, PendingInv
  <2> QED
    BY Reads
<1>2. StackInv(Consumed)
  BY Reads
<1>3. outcome' = "running"
  BY DEF Available
<1> QED
  BY <1>1, <1>2, <1>3 DEF FlowInv

\* The expansion ended; with success only when no source is left.
LEMMA Ends ==
    ASSUME FlowInv, buffers' = buffers, StackInv(stack'),
           NEW how \in {"ok", "failed"}, Finish(how),
           how = "ok" => stack' = <<>>
    PROVE  FlowInv'
<1>1. PendingInv' /\ pending'.mode = "text"
  BY DEF Finish, NoDirective, PendingInv, Modes
<1>2. DirectiveInv(stack', pending')
  BY <1>1 DEF DirectiveInv
<1> QED
  BY <1>1, <1>2 DEF FlowInv, Finish

\* A source was pushed where a directive ended.
LEMMA Includes ==
    ASSUME FlowInv, Available, buffers' = buffers, outcome' = outcome,
           NEW s \in Source, s.level = Len(stack), s.literal \/ s.newlines,
           stack' = Append(Consumed, s), pending' = NoDirective
    PROVE  FlowInv'
<1>1. PendingInv' /\ pending'.mode = "text"
  BY DEF NoDirective, PendingInv, Modes
<1>2. DirectiveInv(stack', pending')
  BY <1>1 DEF DirectiveInv
<1>3. StackInv(Append(Consumed, s))
  <2> DEFINE n == Len(stack)
             grown == Append(Consumed, s)
  <2>1. /\ Consumed \in Seq(Source) /\ Len(Consumed) = n /\ n \in Nat \ {0}
        /\ \A i \in 1 .. n : Consumed[i].level = i - 1
        /\ \A i \in 2 .. n : Consumed[i].literal \/ Consumed[i].newlines
    BY Reads DEF StackInv
  <2>2. /\ grown \in Seq(Source) /\ Len(grown) = n + 1
        /\ \A i \in 1 .. n : grown[i] = Consumed[i]
        /\ grown[n + 1] = s
    BY <2>1, AppendProperties
  <2>3. s.level = n
    OBVIOUS
  <2> HIDE DEF n, grown
  <2>4. \A i \in 1 .. n + 1 : i = n + 1 \/ i \in 1 .. n
    BY <2>1
  <2>5. \A i \in 2 .. n + 1 : i = n + 1 \/ i \in 2 .. n
    BY <2>1
  <2>6. \A i \in 1 .. n + 1 : grown[i].level = i - 1
    BY <2>1, <2>2, <2>3, <2>4
  <2>7. \A i \in 2 .. n : i \in 1 .. n
    BY <2>1
  <2>8. \A i \in 2 .. n + 1 : grown[i].literal \/ grown[i].newlines
    BY <2>1, <2>2, <2>5, <2>7
  <2>9. StackInv(grown)
    BY <2>2, <2>6, <2>8 DEF StackInv
  <2> QED
    BY <2>9 DEF grown
<1>4. outcome' = "running"
  BY DEF Available
<1> QED
  BY <1>1, <1>2, <1>3, <1>4 DEF FlowInv

-----------------------------------------------------------------------------
(***************************************************************************)
(* The actions, one by one.                                                *)
(***************************************************************************)

LEMMA BeginKeeps ==
    ASSUME FlowInv, NEW lines, NEW newlines \in BOOLEAN, lines \in Seq(Text),
           Begin(NewSource(lines, newlines, FALSE, 0))
    PROVE  FlowInv'
<1> DEFINE s == NewSource(lines, newlines, FALSE, 0)
<1>1. s \in Source /\ s.level = 0
  BY DEF Source, NewSource
<1>2. stack' = <<s>>
  BY DEF Begin
<1> HIDE DEF s
<1>3. StackInv(stack')
  <2>1. <<s>> \in Seq(Source) /\ Len(<<s>>) = 1 /\ <<s>>[1] = s
    BY <1>1
  <2> QED
    BY <1>1, <1>2, <2>1 DEF StackInv
<1>4. PendingInv' /\ pending'.mode = "text"
  BY DEF Begin, NoDirective, PendingInv, Modes
<1>5. DirectiveInv(stack', pending')
  BY <1>4 DEF DirectiveInv
<1> QED
  BY <1>3, <1>4, <1>5 DEF FlowInv, Begin

LEMMA ExpandInputKeeps == FlowInv /\ ExpandInput => FlowInv'
<1> SUFFICES ASSUME FlowInv, ExpandInput PROVE FlowInv'
  OBVIOUS
<1>1. PICK text \in Inputs : Begin(NewSource(<<text>>, FALSE, FALSE, 0))
  BY DEF ExpandInput
<1>2. <<text>> \in Seq(Text)
  BY FlowEngineAssumption
<1> QED
  BY <1>1, <1>2, BeginKeeps

LEMMA ExpandBufferKeeps == FlowInv /\ ExpandBuffer => FlowInv'
<1> SUFFICES ASSUME FlowInv, ExpandBuffer PROVE FlowInv'
  OBVIOUS
<1>1. PICK name \in Requested :
        \/ /\ name \in DOMAIN buffers
           /\ Begin(NewSource(buffers[name], TRUE, FALSE, 0))
        \/ /\ name \notin DOMAIN buffers
           /\ Fail
           /\ request' = NoRequest
           /\ UNCHANGED <<buffers, stack>>
  BY DEF ExpandBuffer
<1>2. CASE /\ name \in DOMAIN buffers
           /\ Begin(NewSource(buffers[name], TRUE, FALSE, 0))
  <2>1. buffers[name] \in Seq(Text)
    BY <1>2, FlowEngineAssumption DEF FlowInv
  <2> QED
    BY <1>2, <2>1, BeginKeeps
<1>3. CASE Fail /\ UNCHANGED <<buffers, stack>>
  <2>1. StackInv(stack')
    BY <1>3 DEF FlowInv
  <2> QED
    BY <1>3, <2>1, Ends DEF Fail
<1> QED
  BY <1>1, <1>2, <1>3

LEMMA RefuseKeeps == FlowInv /\ Refuse => FlowInv'
<1> SUFFICES ASSUME FlowInv, Refuse PROVE FlowInv'
  OBVIOUS
<1>1. outcome' = "refused" /\ UNCHANGED <<buffers, stack, pending>>
  BY DEF Refuse
<1>2. pending'.mode = "text" /\ PendingInv' /\ StackInv(stack')
  BY <1>1 DEF FlowInv, Refuse, Idle, PendingInv
<1> QED
  BY <1>1, <1>2 DEF FlowInv, DirectiveInv

\* A directive that is left without a character, in a source that was
\* included, is a name.
LEMMA EndLineKeeps == FlowInv /\ EndLine => FlowInv'
<1> SUFFICES ASSUME FlowInv, EndLine PROVE FlowInv'
  OBVIOUS
<1> DEFINE n == Len(stack)
<1>1. /\ UNCHANGED <<buffers, pending, outcome>>
      /\ stack # <<>> /\ ~HasMore(stack[n]) /\ outcome = "running"
      /\ stack' = [stack EXCEPT ![n] = NextLine(stack[n])]
  BY DEF EndLine, Top
<1>2. stack \in Seq(Source) /\ n \in Nat \ {0}
  BY <1>1, LenProperties, EmptySeq DEF FlowInv, StackInv
<1>3. stack[n] \in Source
  BY <1>2, ElementOfSeq
<1>4. /\ NextLine(stack[n]) \in Source
      /\ NextLine(stack[n]).level = stack[n].level
      /\ NextLine(stack[n]).literal = stack[n].literal
      /\ NextLine(stack[n]).newlines = stack[n].newlines
  BY <1>3, SourcesGoOn
<1>5. /\ stack' \in Seq(Source)
      /\ Len(stack') = n
      /\ \A j \in 1 .. n :
           stack'[j] = IF j = n THEN NextLine(stack[n]) ELSE stack[j]
  BY <1>1, <1>2, <1>4, ExceptSeq
<1> HIDE DEF n
<1>6. StackInv(stack')
  <2>1. \A i \in 1 .. n : stack'[i].level = stack[i].level
    BY <1>4, <1>5
  <2>2. \A i \in 2 .. n : /\ stack'[i].literal = stack[i].literal
                          /\ stack'[i].newlines = stack[i].newlines
    BY <1>2, <1>4, <1>5
  <2>3. StackInv(stack) /\ Len(stack) = n
    BY DEF FlowInv, n
  <2> QED
    BY <1>5, <2>1, <2>2, <2>3 DEF StackInv
<1>7. DirectiveInv(stack', pending')
  <2> SUFFICES ASSUME pending.mode # "text"
               PROVE  /\ n - 1 <= pending.level
                      /\ n - 1 = pending.level => ~stack'[n].literal
                      /\ pending.mode # "name" =>
                           n - 1 = pending.level /\ ~(n >= 2)
    BY <1>1, <1>5 DEF DirectiveInv
  <2>1. DirectiveInv(stack, pending) /\ Len(stack) = n
    BY DEF FlowInv, n
  <2>2. /\ n - 1 <= pending.level
        /\ n - 1 = pending.level => ~stack[n].literal
        /\ pending.mode # "name" =>
             n - 1 = pending.level /\ (n >= 2 => HasMore(stack[n]))
    BY <1>1, <2>1 DEF DirectiveInv
  <2>3. stack'[n].literal = stack[n].literal
    BY <1>2, <1>4, <1>5
  <2> QED
    BY <1>1, <2>2, <2>3
<1>8. PendingInv'
  BY <1>1 DEF FlowInv, PendingInv
<1> QED
  BY <1>1, <1>6, <1>7, <1>8 DEF FlowInv

LEMMA DropSourceKeeps == FlowInv /\ DropSource => FlowInv'
<1> SUFFICES ASSUME FlowInv, DropSource PROVE FlowInv'
  OBVIOUS
<1> DEFINE n == Len(stack)
<1>1. /\ UNCHANGED <<buffers, pending, outcome>>
      /\ stack # <<>> /\ Exhausted(stack[n]) /\ outcome = "running"
      /\ stack' = SubSeq(stack, 1, n - 1)
  BY DEF DropSource, Top
<1>2. stack \in Seq(Source) /\ n \in Nat \ {0}
  BY <1>1, LenProperties, EmptySeq DEF FlowInv, StackInv
<1>3. ~HasMore(stack[n])
  <2>1. stack[n] \in Source
    BY <1>2, ElementOfSeq
  <2>2. Len(stack[n].lines) \in Nat /\ stack[n].line \in Nat
    BY <2>1, LinesAreTexts DEF Source
  <2> QED
    BY <1>1, <2>2 DEF Exhausted, HasMore
<1>4. /\ stack' \in Seq(Source)
      /\ Len(stack') = n - 1
      /\ \A i \in 1 .. n - 1 : stack'[i] = stack[i]
  <2> DEFINE m == n - 1
             left == SubSeq(stack, 1, m)
  <2>1. m \in Int /\ m \in Nat /\ 1 \in Int /\ \A i \in 1 .. m : i \in 1 .. n
    BY <1>2
  <2>2. \A i \in 1 .. m : stack[i] \in Source
    BY <1>2, <2>1, ElementOfSeq
  <2>3. stack' = left
    BY <1>1
  <2> HIDE DEF m
  <2>4. /\ left \in Seq(Source)
        /\ Len(left) = IF 1 <= m THEN m - 1 + 1 ELSE 0
        /\ \A i \in 1 .. m - 1 + 1 : left[i] = stack[1 + i - 1]
    BY <2>1, <2>2, SubSeqProperties
  <2> HIDE DEF left
  <2>5. m - 1 + 1 = m /\ (1 <= m \/ m = 0)
    BY <2>1
  <2>6. \A i \in 1 .. m : 1 + i - 1 = i
    BY <2>1
  <2>7. Len(left) = m /\ \A i \in 1 .. m : left[i] = stack[i]
    BY <2>1, <2>4, <2>5, <2>6
  <2> QED
    BY <2>3, <2>4, <2>7 DEF m
<1> HIDE DEF n
<1>5. StackInv(stack) /\ Len(stack) = n /\ DirectiveInv(stack, pending)
  BY DEF FlowInv, n
<1>6. StackInv(stack')
  <2>1. \A i \in 1 .. n - 1 : i \in 1 .. n
    BY <1>2
  <2>2. \A i \in 2 .. n - 1 : i \in 2 .. n /\ i \in 1 .. n - 1
    BY <1>2
  <2> QED
    BY <1>4, <1>5, <2>1, <2>2 DEF StackInv
<1>7. DirectiveInv(stack', pending')
  <2> SUFFICES ASSUME pending.mode # "text", n >= 2
               PROVE  pending.mode = "name" /\ n - 2 < pending.level
    <3>1. stack' # <<>> => n >= 2
      BY <1>2, <1>4, EmptySeq
    <3>2. n >= 2 /\ n - 2 < pending.level =>
            n - 1 - 1 <= pending.level /\ n - 1 - 1 # pending.level
      BY <1>2 DEF FlowInv, PendingInv
    <3> QED
      BY <1>1, <1>4, <3>1, <3>2 DEF DirectiveInv
  <2>1. /\ n - 1 <= pending.level
        /\ pending.mode # "name" => HasMore(stack[n])
    BY <1>1, <1>5 DEF DirectiveInv
  <2>2. n - 2 < pending.level
    BY <1>2, <2>1 DEF FlowInv, PendingInv
  <2> QED
    BY <1>3, <2>1, <2>2
<1>8. PendingInv'
  BY <1>1 DEF FlowInv, PendingInv
<1> QED
  BY <1>1, <1>6, <1>7, <1>8 DEF FlowInv

LEMMA EndOfInputKeeps == FlowInv /\ EndOfInput => FlowInv'
<1> SUFFICES ASSUME FlowInv, EndOfInput PROVE FlowInv'
  OBVIOUS
<1>1. stack' = <<>> /\ buffers' = buffers
  BY DEF EndOfInput, NoSourceIsLeft
<1>2. StackInv(stack')
  BY <1>1 DEF FlowInv, EndOfInput
<1>3. PICK how \in {"ok", "failed"} : Finish(how)
  BY DEF EndOfInput, Fail
<1> QED
  BY <1>1, <1>2, <1>3, Ends

\* A directive goes on with an active character of its own source.
LEMMA DirectiveKeeps ==
    ASSUME FlowInv, Available, pending.mode # "text", OwnLevel,
           buffers' = buffers, outcome' = outcome, stack' = Consumed,
           NEW mode \in Modes, NEW names, pending' = NowIn(mode, names),
           mode = "name" \/ Char # "nl"
    PROVE  FlowInv'
<1>1. pending'.mode = mode /\ pending'.level = Top.level
  BY DEF NowIn, OwnLevel
<1>2. PendingInv'
  BY <1>1 DEF PendingInv, FlowInv, NowIn
<1>3. ~Top.literal
  BY Reads DEF FlowInv, DirectiveInv, PendingInv, OwnLevel, Available, Top
<1> QED
  BY <1>1, <1>2, <1>3, GoesOn

\* A directive ends and nothing is included.
LEMMA TextKeeps ==
    ASSUME FlowInv, Available, buffers' = buffers, outcome' = outcome,
           stack' = Consumed,
           pending' = NoDirective
    PROVE  FlowInv'
<1>1. PendingInv' /\ pending'.mode = "text"
  BY DEF NoDirective, PendingInv, Modes
<1> QED
  BY <1>1, GoesOn

LEMMA FailureKeeps ==
    ASSUME FlowInv, Available, buffers' = buffers, stack' = Consumed, Fail
    PROVE  FlowInv'
  BY Reads, Ends DEF Fail

LEMMA ReadTextKeeps == FlowInv /\ ReadText => FlowInv'
<1> SUFFICES ASSUME FlowInv, ReadText PROVE FlowInv'
  OBVIOUS
<1>1. /\ Available /\ pending.mode = "text" /\ stack' = Consumed
      /\ buffers' = buffers /\ outcome' = outcome
  BY DEF ReadText, Reading
<1>2. CASE pending' = pending
  <2>1. PendingInv' /\ pending'.mode = "text"
    BY <1>1, <1>2 DEF FlowInv, PendingInv
  <2> QED
    BY <1>1, <2>1, GoesOn
<1>3. CASE /\ Char = "\\" /\ ~Top.literal
           /\ pending' = [mode |-> "escape", level |-> Top.level,
                          names |-> <<>>]
  <2>1. Top.level \in Nat
    <3>1. Top.level = Len(stack) - 1 /\ Len(stack) \in Nat \ {0}
      BY <1>1, Reads
    <3> QED
      BY <3>1
  <2>2. PendingInv' /\ pending'.level = Top.level
    BY <1>3, <2>1 DEF PendingInv, Modes
  <2>3. Char # "nl"
    BY <1>3
  <2> QED
    BY <1>1, <1>3, <2>2, <2>3, GoesOn
<1> QED
  BY <1>2, <1>3 DEF ReadText

LEMMA ReadLetterKeeps == FlowInv /\ ReadLetter => FlowInv'
<1> SUFFICES ASSUME FlowInv, ReadLetter PROVE FlowInv'
  OBVIOUS
<1>1. /\ Available /\ pending.mode = "escape" /\ stack' = Consumed
      /\ buffers' = buffers /\ outcome' = outcome
  BY DEF ReadLetter, Reading
<1>2. CASE pending' = NoDirective
  BY <1>1, <1>2, TextKeeps
<1>3. CASE OwnLevel /\ Char \in {"C", "O"} /\ pending' = NowIn("protect", <<>>)
  <2>1. Char # "nl" /\ "protect" \in Modes
    BY <1>3 DEF Modes
  <2> QED
    BY <1>1, <1>3, <2>1, DirectiveKeeps
<1>4. CASE /\ OwnLevel /\ Char \in {"B", "S", "L"}
           /\ pending' = NowIn("open", <<[directive |-> Char, text |-> <<>>]>>)
  <2>1. Char # "nl" /\ "open" \in Modes
    BY <1>4 DEF Modes
  <2> QED
    BY <1>1, <1>4, <2>1, DirectiveKeeps
<1> QED
  BY <1>2, <1>3, <1>4 DEF ReadLetter

LEMMA ReadProtectedKeeps == FlowInv /\ ReadProtected => FlowInv'
<1> SUFFICES ASSUME FlowInv, ReadProtected PROVE FlowInv'
  OBVIOUS
<1>1. Available /\ stack' = Consumed /\ buffers' = buffers
  BY DEF ReadProtected, Reading
<1>2. CASE pending' = NoDirective /\ outcome' = outcome
  BY <1>1, <1>2, TextKeeps
<1>3. CASE Fail
  BY <1>1, <1>3, FailureKeeps
<1> QED
  BY <1>2, <1>3 DEF ReadProtected

LEMMA ReadParenthesisKeeps == FlowInv /\ ReadParenthesis => FlowInv'
<1> SUFFICES ASSUME FlowInv, ReadParenthesis PROVE FlowInv'
  OBVIOUS
<1>1. /\ Available /\ pending.mode = "open" /\ stack' = Consumed
      /\ buffers' = buffers
  BY DEF ReadParenthesis, Reading
<1>2. CASE /\ OwnLevel /\ pending' = NowIn("name", pending.names)
           /\ outcome' = outcome
  BY <1>1, <1>2, DirectiveKeeps DEF Modes
<1>3. CASE Fail
  BY <1>1, <1>3, FailureKeeps
<1> QED
  BY <1>2, <1>3 DEF ReadParenthesis

LEMMA CloseNameKeeps ==
    ASSUME FlowInv, Reading("name"), OwnLevel, CloseName, buffers' = buffers
    PROVE  FlowInv'
<1>1. Available /\ pending.mode = "name"
  BY DEF Reading
<1>2. CASE stack' = Consumed /\ Continue(Outer, Joined(buffers[Innermost.text]))
  <2>1. /\ pending' = NowIn("name", Extended(Outer, Joined(buffers[Innermost.text])))
        /\ outcome' = outcome /\ "name" \in Modes
    BY <1>2 DEF Continue, Modes
  <2> QED
    BY <1>1, <1>2, <2>1, DirectiveKeeps
<1>3. CASE /\ Innermost.text \in DOMAIN buffers
           /\ stack' = Pushed(Consumed,
                              Inclusion(Innermost.directive,
                                        buffers[Innermost.text],
                                        pending.level + 1))
           /\ pending' = NoDirective
           /\ outcome' = outcome
  <2> DEFINE s == Inclusion(Innermost.directive, buffers[Innermost.text],
                            pending.level + 1)
  <2>1. buffers[Innermost.text] \in Seq(Text)
    BY <1>3, FlowEngineAssumption DEF FlowInv
  <2>2. pending.level + 1 = Len(stack) /\ pending.level + 1 \in Nat
    <3>1. Top.level = pending.level /\ Top.level = Len(stack) - 1
      BY <1>1, Reads DEF OwnLevel
    <3>2. Len(stack) \in Nat /\ pending.level \in Nat
      BY <1>1, Reads DEF FlowInv, PendingInv
    <3> QED
      BY <3>1, <3>2
  <2>3. s.level = Len(stack) /\ (s.literal \/ s.newlines)
    BY <2>2 DEF Inclusion, NewSource
  <2>4. s \in Source
    BY <2>1, <2>2 DEF Inclusion, NewSource, Source
  <2>5. stack' = Append(Consumed, s)
    BY <1>3 DEF Pushed
  <2> HIDE DEF s
  <2> QED
    BY <1>1, <1>3, <2>3, <2>4, <2>5, Includes
<1>4. CASE stack' = Consumed /\ Fail
  BY <1>1, <1>4, FailureKeeps
<1> QED
  BY <1>2, <1>3, <1>4 DEF CloseName

LEMMA ReadNameKeeps == FlowInv /\ ReadName => FlowInv'
<1> SUFFICES ASSUME FlowInv, ReadName PROVE FlowInv'
  OBVIOUS
<1>1. Available /\ pending.mode = "name" /\ buffers' = buffers
  BY DEF ReadName, Reading
<1>2. CASE OwnLevel /\ CloseName
  BY <1>1, <1>2, CloseNameKeeps DEF Reading
<1>3. CASE /\ stack' = Consumed /\ OwnLevel /\ Char = "\\"
           /\ pending' = NowIn("name_escape", pending.names)
           /\ outcome' = outcome
  <2>1. Char # "nl" /\ "name_escape" \in Modes
    BY <1>3 DEF Modes
  <2> QED
    BY <1>1, <1>3, <2>1, DirectiveKeeps
<1>4. CASE stack' = Consumed /\ OwnLevel /\ Continue(pending.names, <<Char>>)
  BY <1>1, <1>4, DirectiveKeeps DEF Continue, Modes
<1>5. CASE stack' = Consumed /\ Fail
  BY <1>1, <1>5, FailureKeeps
<1> QED
  BY <1>2, <1>3, <1>4, <1>5 DEF ReadName

LEMMA ReadNameLetterKeeps == FlowInv /\ ReadNameLetter => FlowInv'
<1> SUFFICES ASSUME FlowInv, ReadNameLetter PROVE FlowInv'
  OBVIOUS
<1>1. /\ Available /\ pending.mode = "name_escape" /\ stack' = Consumed
      /\ buffers' = buffers
  BY DEF ReadNameLetter, Reading
<1>2. CASE /\ OwnLevel /\ Char = "C"
           /\ pending' = NowIn("name_protect", pending.names)
           /\ outcome' = outcome
  <2>1. Char # "nl" /\ "name_protect" \in Modes
    BY <1>2 DEF Modes
  <2> QED
    BY <1>1, <1>2, <2>1, DirectiveKeeps
<1>3. CASE /\ OwnLevel /\ Char = "S"
           /\ pending' = NowIn("open", Append(pending.names,
                                   [directive |-> "S", text |-> <<>>]))
           /\ outcome' = outcome
  <2>1. Char # "nl" /\ "open" \in Modes
    BY <1>3 DEF Modes
  <2> QED
    BY <1>1, <1>3, <2>1, DirectiveKeeps
<1>4. CASE OwnLevel /\ Continue(pending.names, <<"\\", Char>>)
  BY <1>1, <1>4, DirectiveKeeps DEF Continue, Modes
<1>5. CASE Fail
  BY <1>1, <1>5, FailureKeeps
<1> QED
  BY <1>2, <1>3, <1>4, <1>5 DEF ReadNameLetter

LEMMA ReadNameProtectedKeeps == FlowInv /\ ReadNameProtected => FlowInv'
<1> SUFFICES ASSUME FlowInv, ReadNameProtected PROVE FlowInv'
  OBVIOUS
<1>1. /\ Available /\ pending.mode = "name_protect" /\ stack' = Consumed
      /\ buffers' = buffers
  BY DEF ReadNameProtected, Reading
<1>2. CASE OwnLevel /\ Continue(pending.names, <<Char>>)
  BY <1>1, <1>2, DirectiveKeeps DEF Continue, Modes
<1>3. CASE Fail
  BY <1>1, <1>3, FailureKeeps
<1> QED
  BY <1>2, <1>3 DEF ReadNameProtected

-----------------------------------------------------------------------------
(***************************************************************************)
(* The characters and the names: what is emitted is text, and a name that  *)
(* is being read is there.                                                 *)
(***************************************************************************)

NamingModes == {"open", "name", "name_escape", "name_protect"}

DataInv ==
    /\ pending \in Pending
    /\ pending.mode \in NamingModes => pending.names # <<>>
    /\ output \in Text
    /\ request \in Source

\* The first lines of a buffer, one after another.
FirstLines(lines) ==
    LET upto[n \in 0 .. Len(lines)] ==
          IF n = 0 THEN <<>> ELSE upto[n - 1] \o lines[n]
    IN upto

LEMMA LinesAreJoined ==
    ASSUME NEW lines \in Seq(Text)
    PROVE  /\ FirstLines(lines) \in [0 .. Len(lines) -> Text]
           /\ FirstLines(lines)[0] = <<>>
           /\ \A n \in 1 .. Len(lines) :
                FirstLines(lines)[n] = FirstLines(lines)[n - 1] \o lines[n]
           /\ Joined(lines) = FirstLines(lines)[Len(lines)]
<1> DEFINE N == Len(lines)
           Upto(f) == f = [n \in 0 .. N |->
                             IF n = 0 THEN <<>> ELSE f[n - 1] \o lines[n]]
           upto == CHOOSE f : Upto(f)
<1>1. N \in Nat /\ \A n \in 1 .. N : lines[n] \in Text
  BY LenProperties, ElementOfSeq
<1>2. FirstLines(lines) = upto /\ Joined(lines) = upto[N]
  BY DEF FirstLines, Joined
<1> HIDE DEF N
<1>3. <<>> \in Text
  BY DEF Text
<1>4. \A v, w \in Text : v \o w \in Text
  BY ConcatProperties DEF Text
<1> DEFINE step == [n \in 1 .. N |-> [v \in Text |-> v \o lines[n]]]
<1>5. step \in Steps(Text, N)
  BY <1>1, <1>4 DEF Steps
<1>6. \A n \in 1 .. N, v \in Text : step[n][v] = v \o lines[n]
  OBVIOUS
<1> DEFINE first == <<>>
<1> HIDE DEF step, first
<1>7. PICK g : FollowsSteps(g, Text, N, first, step)
  <2>1. first \in Text
    BY <1>3 DEF first
  <2> QED
    BY <1>1, <1>5, <2>1, RecursiveFunctionExists
<1>8. Upto(g)
  <2>0. /\ g \in [0 .. N -> Text] /\ g[0] = <<>>
        /\ \A n \in 1 .. N : g[n] = step[n][g[n - 1]]
    BY <1>7 DEF FollowsSteps, first
  <2>1. ASSUME NEW n \in 0 .. N
        PROVE  g[n] = IF n = 0 THEN <<>> ELSE g[n - 1] \o lines[n]
    <3>1. CASE n = 0
      BY <2>0, <3>1
    <3>2. CASE n # 0
      <4>1. n \in 1 .. N /\ n - 1 \in 0 .. N
        BY <1>1, <3>2
      <4>2. g[n - 1] \in Text
        BY <2>0, <4>1
      <4> QED
        BY <1>6, <2>0, <3>2, <4>1, <4>2
    <3> QED
      BY <3>1, <3>2
  <2>2. DOMAIN g = 0 .. N
    BY <2>0
  <2> QED
    BY <2>0, <2>1, <2>2
<1>9. Upto(upto)
  <2> HIDE DEF Upto
  <2> QED
    BY <1>8, Zenon
<1>10. upto = [n \in 0 .. N |->
                IF n = 0 THEN <<>> ELSE upto[n - 1] \o lines[n]]
  BY <1>9
<1> HIDE DEF upto
<1>11. upto[0] = <<>>
  BY <1>1, <1>10
<1>12. ASSUME NEW n \in 1 .. N
       PROVE  upto[n] = upto[n - 1] \o lines[n]
  <2>1. n \in 0 .. N /\ n # 0
    BY <1>1
  <2> QED
    BY <1>10, <2>1
<1> DEFINE S == { n \in 0 .. N : upto[n] \in Text }
<1>13. 0 \in S
  BY <1>1, <1>3, <1>11
<1>14. ASSUME NEW n \in 1 .. N, n - 1 \in S
       PROVE  n \in S
  <2>1. upto[n - 1] \o lines[n] \in Text
    BY <1>1, <1>4, <1>14
  <2>2. n \in 0 .. N
    BY <1>1
  <2> QED
    BY <1>12, <2>1, <2>2
<1>15. \A n \in 0 .. N : n \in S
  <2> HIDE DEF S
  <2> QED
    BY <1>1, <1>13, <1>14, BoundedInduction
<1>16. upto \in [0 .. N -> Text]
  <2>1. \A n \in 0 .. N : upto[n] \in Text
    BY <1>15
  <2>2. upto = [n \in 0 .. N |-> upto[n]]
    BY <1>10
  <2> HIDE DEF S
  <2> QED
    BY <2>1, <2>2
<1>17. /\ FirstLines(lines) \in [0 .. N -> Text]
       /\ FirstLines(lines)[0] = <<>>
       /\ \A n \in 1 .. N :
            FirstLines(lines)[n] = FirstLines(lines)[n - 1] \o lines[n]
       /\ Joined(lines) = FirstLines(lines)[N]
  <2> HIDE DEF S
  <2> QED
    BY <1>2, <1>11, <1>12, <1>16
<1> HIDE DEF S
<1> QED
  BY <1>17 DEF N

\* The lines of a buffer, one after another, are a text.
LEMMA JoinedIsText ==
    ASSUME NEW lines \in Seq(Text)
    PROVE  Joined(lines) \in Text
<1>1. Len(lines) \in 0 .. Len(lines)
  BY LenProperties
<1>2. /\ FirstLines(lines) \in [0 .. Len(lines) -> Text]
      /\ Joined(lines) = FirstLines(lines)[Len(lines)]
  BY LinesAreJoined
<1> QED
  BY <1>1, <1>2

\* What a step reads is a character.
LEMMA CharIsCharacter ==
    ASSUME FlowInv, Available
    PROVE  Char \in Character
<1>1. Top \in Source /\ HasMore(Top)
  BY LenProperties, EmptySeq, ElementOfSeq
     DEF FlowInv, StackInv, Top, Available
<1>2. /\ Advance(Top).lines = Top.lines /\ Advance(Top).line = Top.line
      /\ Advance(Top).column = Top.column + 1
      /\ Top.lines \in Seq(Text)
      /\ Top.line \in Nat \ {0} /\ Top.column \in Nat
  BY <1>1 DEF Source, Advance
<1> DEFINE l == Top.lines[Top.line]
<1>3. Top.line \in 1 .. Len(Top.lines) /\ Len(Top.lines) \in Nat
  BY <1>1, <1>2, LenProperties DEF HasMore
<1>4. l \in Seq(Character)
  BY <1>2, <1>3, ElementOfSeq DEF Text
<1>5. Char = IF Top.column + 1 <= Len(l) THEN l[Top.column + 1] ELSE "nl"
  BY <1>2 DEF Char, CharacterAt
<1> HIDE DEF l
<1>6. CASE Top.column + 1 <= Len(l)
  <2>1. Top.column + 1 \in 1 .. Len(l)
    BY <1>2, <1>4, <1>6, LenProperties
  <2> QED
    BY <1>4, <1>5, <1>6, <2>1, ElementOfSeq
<1>7. CASE ~(Top.column + 1 <= Len(l))
  BY <1>5, <1>7, FlowEngineAssumption DEF Syntax
<1> QED
  BY <1>6, <1>7

\* Short texts, and what is emitted.
LEMMA EmittedTexts ==
    /\ <<>> \in Text
    /\ "\\" \in Character
    /\ \A c, d \in Character : <<c>> \in Text /\ <<c, d>> \in Text
    /\ \A v, w \in Text : v \o w \in Text
<1>1. "\\" \in Character
  BY FlowEngineAssumption DEF Syntax
<1> QED
  BY <1>1, ConcatProperties DEF Text

\* A name in progress goes on, and names stay names.
LEMMA NamesGoOn ==
    ASSUME NEW names \in Seq(Name), names # <<>>, NEW text \in Text
    PROVE  Extended(names, text) \in Seq(Name) /\ Extended(names, text) # <<>>
<1> DEFINE n == Len(names)
           longer == [names[n] EXCEPT !.text = @ \o text]
<1>1. n \in Nat \ {0} /\ names[n] \in Name
  BY LenProperties, EmptySeq, ElementOfSeq
<1>2. /\ longer = [directive |-> names[n].directive,
                   text |-> names[n].text \o text]
      /\ names[n].directive \in {"B", "S", "L"} /\ names[n].text \in Text
  <2> DEFINE name == names[n]
             joined == name.text \o text
  <2>1. /\ name = [directive |-> name.directive, text |-> name.text]
        /\ name.directive \in {"B", "S", "L"} /\ name.text \in Text
    BY <1>1 DEF Name
  <2>2. longer = [name EXCEPT !.text = joined]
    OBVIOUS
  <2> HIDE DEF name, joined, longer
  <2>3. longer = [directive |-> name.directive, text |-> joined]
    BY <2>1, <2>2
  <2> QED
    BY <2>1, <2>3 DEF name, joined
<1>3. longer \in Name
  BY <1>2, EmittedTexts DEF Name
<1>4. Extended(names, text) = [names EXCEPT ![n] = longer]
  BY DEF Extended
<1> HIDE DEF n, longer
<1>5. n \in 1 .. Len(names)
  BY <1>1 DEF n
<1>6. /\ Extended(names, text) \in Seq(Name)
      /\ Len(Extended(names, text)) = Len(names)
  BY <1>3, <1>4, <1>5, ExceptSeq
<1> QED
  BY <1>1, <1>6, EmptySeq DEF n

LEMMA OuterNames ==
    ASSUME pending.names \in Seq(Name), Nested
    PROVE  Outer \in Seq(Name) /\ Outer # <<>>
<1> DEFINE names == pending.names
           m == Len(names) - 1
<1>1. Len(names) \in Nat /\ m \in Nat \ {0}
  <2> DEFINE n == Len(names)
  <2>1. n \in Nat
    BY LenProperties
  <2>2. n > 1
    BY DEF Nested
  <2> HIDE DEF n
  <2>3. n - 1 \in Nat \ {0}
    BY <2>1, <2>2
  <2> QED
    BY <2>1, <2>3 DEF n
<1>2. Outer = SubSeq(names, 1, m)
  BY DEF Outer
<1>3. \A i \in 1 .. m : names[i] \in Name
  <2>1. \A i \in 1 .. m : i \in 1 .. Len(names)
    BY <1>1
  <2> QED
    BY <2>1, ElementOfSeq
<1> HIDE DEF names, m
<1>4. /\ SubSeq(names, 1, m) \in Seq(Name)
      /\ Len(SubSeq(names, 1, m)) = IF 1 <= m THEN m - 1 + 1 ELSE 0
  BY <1>1, <1>3, SubSeqProperties
<1>5. Len(SubSeq(names, 1, m)) # 0
  BY <1>1, <1>4
<1> QED
  BY <1>2, <1>4, <1>5, EmptySeq

-----------------------------------------------------------------------------
(***************************************************************************)
(* What the ways to end a step do to the data.                             *)
(***************************************************************************)

LEMMA DataStays ==
    ASSUME DataInv, UNCHANGED <<pending, output, request>>
    PROVE  DataInv'
  BY DEF DataInv

LEMMA NoDirectiveIsPending ==
    NoDirective \in Pending /\ NoDirective.mode \notin NamingModes
<1>1. <<>> \in Seq(Name)
  BY EmptySeq
<1> QED
  BY <1>1 DEF NoDirective, Pending, Modes, NamingModes

\* Something is emitted, and no directive is being read.
LEMMA DataEmits ==
    ASSUME DataInv, NEW text \in Text, Emit(text), request' = request,
           pending' = NoDirective \/ (pending' = pending /\ pending.mode = "text")
    PROVE  DataInv'
<1>1. output' \in Text
  BY EmittedTexts DEF Emit, DataInv
<1> QED
  BY <1>1, NoDirectiveIsPending DEF DataInv, NamingModes

LEMMA DataFinishes ==
    ASSUME DataInv, NEW how, Finish(how), output' \in Text,
           request' \in Source
    PROVE  DataInv'
  BY NoDirectiveIsPending DEF DataInv, Finish

LEMMA DataFails ==
    ASSUME DataInv, Fail, request' \in Source
    PROVE  DataInv'
  BY EmittedTexts, DataFinishes DEF Fail

\* The directive goes on.
LEMMA DataGoesOn ==
    ASSUME DataInv, FlowInv, NEW mode \in Modes, NEW names \in Seq(Name),
           mode \in NamingModes => names # <<>>,
           pending' = NowIn(mode, names), UNCHANGED <<output, request>>
    PROVE  DataInv'
<1>1. pending.level \in Nat
  BY DEF FlowInv, PendingInv
<1>2. pending' \in Pending
  BY <1>1 DEF NowIn, Pending
<1> QED
  BY <1>2 DEF DataInv, NowIn

LEMMA DataContinues ==
    ASSUME DataInv, FlowInv, NEW names \in Seq(Name), names # <<>>,
           NEW text \in Text, Continue(names, text), request' = request
    PROVE  DataInv'
<1>1. "name" \in Modes
  BY DEF Modes
<1> QED
  BY <1>1, NamesGoOn, DataGoesOn DEF Continue

\* A name is read, so it is there.
LEMMA NamesOfPending ==
    ASSUME DataInv
    PROVE  /\ pending.names \in Seq(Name)
           /\ pending.mode \in NamingModes => pending.names # <<>>
           /\ pending.mode \in NamingModes => Innermost \in Name
<1>1. pending.names \in Seq(Name)
  BY DEF DataInv, Pending
<1>2. pending.names # <<>> => Innermost \in Name
  BY <1>1, LenProperties, EmptySeq, ElementOfSeq DEF Innermost
<1> QED
  BY <1>1, <1>2 DEF DataInv

-----------------------------------------------------------------------------
(***************************************************************************)
(* The data, action by action.                                             *)
(***************************************************************************)

LEMMA DataInitially == FlowInit => DataInv
<1>1. NoRequest \in Source
  BY EmptySeq DEF NoRequest, NewSource, Source
<1> QED
  BY <1>1, NoDirectiveIsPending, EmittedTexts DEF FlowInit, DataInv

LEMMA BeginData ==
    ASSUME DataInv, NEW lines \in Seq(Text), NEW newlines \in BOOLEAN,
           Begin(NewSource(lines, newlines, FALSE, 0))
    PROVE  DataInv'
<1>1. NewSource(lines, newlines, FALSE, 0) \in Source
  BY DEF Source, NewSource
<1> QED
  BY <1>1, NoDirectiveIsPending, EmittedTexts DEF Begin, DataInv

LEMMA CallerData == DataInv /\ FlowInv /\ Caller => DataInv'
<1> SUFFICES ASSUME DataInv, FlowInv, Caller PROVE DataInv'
  OBVIOUS
<1>1. CASE ExpandInput
  <2>1. PICK text \in Inputs : Begin(NewSource(<<text>>, FALSE, FALSE, 0))
    BY <1>1 DEF ExpandInput
  <2>2. <<text>> \in Seq(Text)
    BY FlowEngineAssumption
  <2> QED
    BY <2>1, <2>2, BeginData
<1>2. CASE ExpandBuffer
  <2>1. PICK name \in Requested :
          \/ /\ name \in DOMAIN buffers
             /\ Begin(NewSource(buffers[name], TRUE, FALSE, 0))
          \/ Fail /\ request' = NoRequest
    BY <1>2 DEF ExpandBuffer
  <2>2. CASE /\ name \in DOMAIN buffers
             /\ Begin(NewSource(buffers[name], TRUE, FALSE, 0))
    <3>1. buffers[name] \in Seq(Text)
      BY <2>2, FlowEngineAssumption DEF FlowInv
    <3> QED
      BY <2>2, <3>1, BeginData
  <2>3. CASE Fail /\ request' = NoRequest
    <3>1. NoRequest \in Source
      BY EmptySeq DEF NoRequest, NewSource, Source
    <3> QED
      BY <2>3, <3>1, DataFails
  <2> QED
    BY <2>1, <2>2, <2>3
<1>3. CASE Refuse
  BY <1>3, DataStays DEF Refuse
<1> QED
  BY <1>1, <1>2, <1>3 DEF Caller

LEMMA EndOfInputData == DataInv /\ EndOfInput => DataInv'
<1> SUFFICES ASSUME DataInv, EndOfInput PROVE DataInv'
  OBVIOUS
<1>1. request' \in Source
  BY DEF EndOfInput, DataInv
<1>2. CASE Finish("ok") /\ UNCHANGED output
  BY <1>1, <1>2, DataFinishes DEF DataInv
<1>3. CASE Finish("ok") /\ Emit(<<"\\">>)
  <2>1. output' \in Text
    BY <1>3, EmittedTexts DEF Emit, DataInv
  <2> QED
    BY <1>1, <1>3, <2>1, DataFinishes
<1>4. CASE Fail
  BY <1>1, <1>4, DataFails
<1> QED
  BY <1>2, <1>3, <1>4 DEF EndOfInput

LEMMA ReadTextData == DataInv /\ FlowInv /\ ReadText => DataInv'
<1> SUFFICES ASSUME DataInv, FlowInv, ReadText PROVE DataInv'
  OBVIOUS
<1>1. /\ Available /\ pending.mode = "text" /\ request' = request
      /\ Char \in Character
  BY CharIsCharacter DEF ReadText, Reading
<1>2. CASE Emit(<<Char>>) /\ UNCHANGED pending
  BY <1>1, <1>2, EmittedTexts, DataEmits
<1>3. CASE /\ pending' = [mode |-> "escape", level |-> Top.level,
                          names |-> <<>>]
           /\ UNCHANGED output
  <2>1. Top.level \in Nat
    <3>1. Top.level = Len(stack) - 1 /\ Len(stack) \in Nat \ {0}
      BY <1>1, Reads
    <3> QED
      BY <3>1
  <2>2. <<>> \in Seq(Name)
    BY EmptySeq
  <2> QED
    BY <1>1, <1>3, <2>1, <2>2 DEF DataInv, Pending, Modes, NamingModes
<1> QED
  BY <1>2, <1>3 DEF ReadText

LEMMA ReadLetterData == DataInv /\ FlowInv /\ ReadLetter => DataInv'
<1> SUFFICES ASSUME DataInv, FlowInv, ReadLetter PROVE DataInv'
  OBVIOUS
<1>1. Available /\ request' = request /\ Char \in Character
  BY CharIsCharacter DEF ReadLetter, Reading
<1>2. CASE pending' = NoDirective /\ Emit(<<"\\", Char>>)
  BY <1>1, <1>2, EmittedTexts, DataEmits
<1>3. CASE pending' = NoDirective /\ Emit(<<"\\">>)
  BY <1>1, <1>3, EmittedTexts, DataEmits
<1>4. CASE pending' = NowIn("protect", <<>>) /\ UNCHANGED output
  <2>1. /\ <<>> \in Seq(Name) /\ "protect" \in Modes
        /\ "protect" \notin NamingModes
    BY EmptySeq DEF Modes, NamingModes
  <2> QED
    BY <1>1, <1>4, <2>1, DataGoesOn
<1>5. CASE /\ Char \in {"B", "S", "L"}
           /\ pending' = NowIn("open", <<[directive |-> Char, text |-> <<>>]>>)
           /\ UNCHANGED output
  <2> DEFINE names == <<[directive |-> Char, text |-> <<>>]>>
  <2>1. [directive |-> Char, text |-> <<>>] \in Name
    BY <1>5, EmittedTexts DEF Name
  <2>2. names \in Seq(Name) /\ names # <<>>
    BY <2>1
  <2>3. "open" \in Modes
    BY DEF Modes
  <2>4. pending' = NowIn("open", names)
    BY <1>5
  <2> HIDE DEF names
  <2> QED
    BY <1>1, <1>5, <2>2, <2>3, <2>4, DataGoesOn
<1> QED
  BY <1>2, <1>3, <1>4, <1>5 DEF ReadLetter

LEMMA ReadProtectedData == DataInv /\ FlowInv /\ ReadProtected => DataInv'
<1> SUFFICES ASSUME DataInv, FlowInv, ReadProtected PROVE DataInv'
  OBVIOUS
<1>1. /\ Available /\ request' = request /\ Char \in Character
      /\ request' \in Source
  BY CharIsCharacter DEF ReadProtected, Reading, DataInv
<1>2. CASE Emit(<<Char>>) /\ pending' = NoDirective
  BY <1>1, <1>2, EmittedTexts, DataEmits
<1>3. CASE Fail
  BY <1>1, <1>3, DataFails
<1> QED
  BY <1>2, <1>3 DEF ReadProtected

LEMMA ReadParenthesisData == DataInv /\ FlowInv /\ ReadParenthesis => DataInv'
<1> SUFFICES ASSUME DataInv, FlowInv, ReadParenthesis PROVE DataInv'
  OBVIOUS
<1>1. pending.mode = "open" /\ request' = request /\ request' \in Source
  BY DEF ReadParenthesis, Reading, DataInv
<1>2. CASE pending' = NowIn("name", pending.names) /\ UNCHANGED output
  <2>1. "name" \in Modes /\ "open" \in NamingModes
    BY DEF Modes, NamingModes
  <2> QED
    BY <1>1, <1>2, <2>1, NamesOfPending, DataGoesOn
<1>3. CASE Fail
  BY <1>1, <1>3, DataFails
<1> QED
  BY <1>2, <1>3 DEF ReadParenthesis

LEMMA CloseNameData ==
    ASSUME DataInv, FlowInv, pending.mode = "name", CloseName,
           request' = request
    PROVE  DataInv'
<1>1. request' \in Source /\ pending.mode \in NamingModes
  BY DEF DataInv, NamingModes
<1> DEFINE name == Innermost.text
<1>2. CASE /\ name \in DOMAIN buffers /\ Nested
           /\ Continue(Outer, Joined(buffers[name]))
  <2>1. Joined(buffers[name]) \in Text
    <3>1. buffers[name] \in Seq(Text)
      BY <1>2, FlowEngineAssumption DEF FlowInv
    <3> QED
      BY <3>1, JoinedIsText
  <2>2. Outer \in Seq(Name) /\ Outer # <<>>
    BY <1>2, NamesOfPending, OuterNames
  <2> QED
    BY <1>2, <2>1, <2>2, DataContinues
<1>3. CASE pending' = NoDirective /\ UNCHANGED output
  BY <1>3, NoDirectiveIsPending DEF DataInv
<1>4. CASE Fail
  BY <1>1, <1>4, DataFails
<1> QED
  BY <1>2, <1>3, <1>4 DEF CloseName

LEMMA ReadNameData == DataInv /\ FlowInv /\ ReadName => DataInv'
<1> SUFFICES ASSUME DataInv, FlowInv, ReadName PROVE DataInv'
  OBVIOUS
<1>1. /\ Available /\ pending.mode = "name" /\ request' = request
      /\ request' \in Source /\ Char \in Character
  BY CharIsCharacter DEF ReadName, Reading, DataInv
<1>2. pending.names \in Seq(Name) /\ pending.names # <<>>
  BY <1>1, NamesOfPending DEF NamingModes
<1>3. CASE CloseName
  BY <1>1, <1>3, CloseNameData
<1>4. CASE pending' = NowIn("name_escape", pending.names) /\ UNCHANGED output
  <2>1. "name_escape" \in Modes
    BY DEF Modes
  <2> QED
    BY <1>1, <1>2, <1>4, <2>1, DataGoesOn
<1>5. CASE Continue(pending.names, <<Char>>)
  BY <1>1, <1>2, <1>5, EmittedTexts, DataContinues
<1>6. CASE Fail
  BY <1>1, <1>6, DataFails
<1> QED
  BY <1>3, <1>4, <1>5, <1>6 DEF ReadName

LEMMA ReadNameLetterData == DataInv /\ FlowInv /\ ReadNameLetter => DataInv'
<1> SUFFICES ASSUME DataInv, FlowInv, ReadNameLetter PROVE DataInv'
  OBVIOUS
<1>1. /\ Available /\ pending.mode = "name_escape" /\ request' = request
      /\ request' \in Source /\ Char \in Character
  BY CharIsCharacter DEF ReadNameLetter, Reading, DataInv
<1>2. pending.names \in Seq(Name) /\ pending.names # <<>>
  BY <1>1, NamesOfPending DEF NamingModes
<1>3. CASE pending' = NowIn("name_protect", pending.names) /\ UNCHANGED output
  <2>1. "name_protect" \in Modes
    BY DEF Modes
  <2> QED
    BY <1>1, <1>2, <1>3, <2>1, DataGoesOn
<1>4. CASE /\ pending' = NowIn("open", Append(pending.names,
                                    [directive |-> "S", text |-> <<>>]))
           /\ UNCHANGED output
  <2> DEFINE inner == [directive |-> "S", text |-> <<>>]
             names == Append(pending.names, inner)
  <2>1. inner \in Name
    BY EmittedTexts DEF Name
  <2> HIDE DEF inner
  <2>2. names \in Seq(Name) /\ Len(names) = Len(pending.names) + 1
    BY <1>2, <2>1, AppendProperties
  <2>3. names # <<>>
    BY <1>2, <2>2, EmptySeq, LenProperties
  <2>4. "open" \in Modes /\ pending' = NowIn("open", names)
    BY <1>4 DEF Modes, inner
  <2> HIDE DEF names
  <2> QED
    BY <1>1, <1>4, <2>2, <2>3, <2>4, DataGoesOn
<1>5. CASE Continue(pending.names, <<"\\", Char>>)
  BY <1>1, <1>2, <1>5, EmittedTexts, DataContinues
<1>6. CASE Fail
  BY <1>1, <1>6, DataFails
<1> QED
  BY <1>3, <1>4, <1>5, <1>6 DEF ReadNameLetter

LEMMA ReadNameProtectedData ==
    DataInv /\ FlowInv /\ ReadNameProtected => DataInv'
<1> SUFFICES ASSUME DataInv, FlowInv, ReadNameProtected PROVE DataInv'
  OBVIOUS
<1>1. /\ Available /\ pending.mode = "name_protect" /\ request' = request
      /\ request' \in Source /\ Char \in Character
  BY CharIsCharacter DEF ReadNameProtected, Reading, DataInv
<1>2. pending.names \in Seq(Name) /\ pending.names # <<>>
  BY <1>1, NamesOfPending DEF NamingModes
<1>3. CASE Continue(pending.names, <<Char>>)
  BY <1>1, <1>2, <1>3, EmittedTexts, DataContinues
<1>4. CASE Fail
  BY <1>1, <1>4, DataFails
<1> QED
  BY <1>3, <1>4 DEF ReadNameProtected

LEMMA DataStep == DataInv /\ FlowInv /\ [FlowNext]_vars => DataInv'
<1> SUFFICES ASSUME DataInv, FlowInv, [FlowNext]_vars PROVE DataInv'
  OBVIOUS
<1>1. CASE Caller
  BY <1>1, CallerData
<1>2. CASE Expand
  <2>1. CASE EndLine \/ DropSource
    BY <2>1, DataStays DEF EndLine, DropSource
  <2> QED
    BY <1>2, <2>1, EndOfInputData, ReadTextData, ReadLetterData,
       ReadProtectedData, ReadParenthesisData, ReadNameData,
       ReadNameLetterData, ReadNameProtectedData
       DEF Expand
<1>3. CASE UNCHANGED vars
  BY <1>3, DataStays DEF vars
<1> QED
  BY <1>1, <1>2, <1>3 DEF FlowNext

-----------------------------------------------------------------------------
(***************************************************************************)
(* The theorems.                                                           *)
(***************************************************************************)

LEMMA FlowStep == FlowInv /\ [FlowNext]_vars => FlowInv'
<1> SUFFICES ASSUME FlowInv, [FlowNext]_vars PROVE FlowInv'
  OBVIOUS
<1>1. CASE Caller
  BY <1>1, ExpandInputKeeps, ExpandBufferKeeps, RefuseKeeps DEF Caller
<1>2. CASE Expand
  BY <1>2, EndLineKeeps, DropSourceKeeps, EndOfInputKeeps, ReadTextKeeps,
     ReadLetterKeeps, ReadProtectedKeeps, ReadParenthesisKeeps, ReadNameKeeps,
     ReadNameLetterKeeps, ReadNameProtectedKeeps
     DEF Expand
<1>3. CASE UNCHANGED vars
  BY <1>3 DEF vars, FlowInv, PendingInv
<1> QED
  BY <1>1, <1>2, <1>3 DEF FlowNext

LEMMA FlowInvariant == FlowSpec => []FlowInv
  BY FlowInitially, FlowStep, PTL DEF FlowSpec

\* The characters, the names in progress and the sources are of their types
\* in every state: a name that is extended or closed is there, a character
\* is read inside its line, and what FlowEngine::expand_input returns is
\* text of the alphabet of its input and of the buffers.
THEOREM FlowTypeCorrect == FlowSpec => []FlowTypeOK
<1>1. FlowInv /\ DataInv => FlowTypeOK
  BY DEF FlowInv, DataInv, FlowTypeOK, StackInv
<1>2. FlowSpec => []DataInv
  BY DataInitially, DataStep, FlowInvariant, PTL DEF FlowSpec
<1> QED
  BY <1>1, <1>2, FlowInvariant, PTL

\* However buffers include each other, a source on the stack of
\* FlowEngine::expand_current_input has a higher level than its includer.
THEOREM LevelsAlwaysIncrease == FlowSpec => []LevelsIncrease
<1>1. FlowInv => LevelsIncrease
  <2> SUFFICES ASSUME FlowInv, NEW i \in 1 .. Len(stack),
                      NEW j \in 1 .. Len(stack), i < j
               PROVE  stack[i].level < stack[j].level
    BY DEF LevelsIncrease
  <2>1. stack[i].level = i - 1 /\ stack[j].level = j - 1
    BY DEF FlowInv, StackInv
  <2>2. Len(stack) \in Nat
    BY LenProperties DEF FlowInv, StackInv
  <2>3. i - 1 < j - 1
    BY <2>2
  <2> QED
    BY <2>1, <2>3
<1> QED
  BY <1>1, FlowInvariant, PTL

\* Whatever a buffer ends with, a directive it begins never takes its
\* letter, its parenthesis or its protected character from the includer.
THEOREM DirectivesAreWhole == FlowSpec => []DirectivesStayInTheirSource
<1>1. FlowInv => DirectivesStayInTheirSource
  <2> SUFFICES ASSUME FlowInv, Available, pending.mode \notin {"text", "name"}
               PROVE  OwnLevel
    BY DEF DirectivesStayInTheirSource
  <2>1. Len(stack) - 1 = pending.level
    BY DEF FlowInv, DirectiveInv, Available
  <2> QED
    BY <2>1, Reads DEF OwnLevel
<1> QED
  BY <1>1, FlowInvariant, PTL

\* FlowEngine::expand_input and expand_buffer find sources on the stack,
\* and refuse, only after an expansion that threw.
THEOREM OnlyFailuresBlockTheEngine == FlowSpec => []OnlyFailuresBlock
<1>1. FlowInv => OnlyFailuresBlock
  BY DEF FlowInv, OnlyFailuresBlock, Idle
<1> QED
  BY <1>1, FlowInvariant, PTL

-----------------------------------------------------------------------------
(***************************************************************************)
(* Names.  NamesOver is a recursion over texts: every part that is left    *)
(* is shorter, and so there is one such function, and only one.  Its       *)
(* names end behind where they begin.                                      *)
(***************************************************************************)

\* The lines of buffers are texts.
BuffersOK(bufs) ==
    DOMAIN bufs \subseteq Text /\ \A name \in DOMAIN bufs : bufs[name] \in Seq(Text)

\* Names end behind where they begin.
Readers ==
    { names \in [Text -> SUBSET Part] :
        \A text \in Text : \A p \in names[text] : Len(p.rest) < Len(text) }

\* What is behind the first characters of a text.
LEMMA BehindIsText ==
    ASSUME NEW text \in Text, NEW n \in 0 .. Len(text)
    PROVE  /\ Behind(text, n) \in Text
           /\ Len(Behind(text, n)) = Len(text) - n
           /\ \A i \in 1 .. Len(text) - n : Behind(text, n)[i] = text[n + i]
<1>1. Len(text) \in Nat /\ text \in Seq(Character)
  BY LenProperties DEF Text
<1>2. n + 1 \in 1 .. Len(text) + 1 /\ Len(text) \in n .. Len(text)
  BY <1>1
<1>3. /\ SubSeq(text, n + 1, Len(text)) \in Seq(Character)
      /\ Len(SubSeq(text, n + 1, Len(text)))
           = IF n + 1 <= Len(text) THEN Len(text) - (n + 1) + 1 ELSE 0
  BY <1>1, <1>2, SubSeqProperties
<1>4. \A i \in 1 .. Len(text) - n :
        SubSeq(text, n + 1, Len(text))[i] = text[n + 1 + i - 1]
  BY <1>1, <1>2, SubSeqProperties
<1>5. \A i \in 1 .. Len(text) - n : n + 1 + i - 1 = n + i
  BY <1>1
<1> QED
  BY <1>1, <1>3, <1>4, <1>5 DEF Behind, Text

\* The parts of a name leave less than there was.
LEMMA PlainParts ==
    ASSUME NEW text \in Text, NEW n \in 1 .. Len(text)
    PROVE  /\ Plain(text, n) \in SUBSET Part
           /\ \A p \in Plain(text, n) : Len(p.rest) < Len(text)
<1>1. SubSeq(text, 1, n) \in Text
  <2>1. Len(text) \in Nat /\ text \in Seq(Character)
    BY LenProperties DEF Text
  <2>2. 1 \in 1 .. Len(text) + 1 /\ n \in 0 .. Len(text)
    BY <2>1
  <2> QED
    BY <2>1, <2>2, SubSeqProperties DEF Text
<1>2. /\ Behind(text, n) \in Text
      /\ Len(Behind(text, n)) = Len(text) - n
      /\ Len(text) \in Nat
  BY BehindIsText, LenProperties DEF Text
<1> QED
  BY <1>1, <1>2 DEF Plain, Part, PartOf

LEMMA ProtectedParts ==
    ASSUME NEW text \in Text
    PROVE  /\ Protected(text) \in SUBSET Part
           /\ \A p \in Protected(text) : Len(p.rest) < Len(text)
<1>1. Len(text) \in Nat /\ text \in Seq(Character)
  BY LenProperties DEF Text
<1>2. CASE Len(text) > 2
  <2>1. <<text[3]>> \in Text
    <3>1. 3 \in 1 .. Len(text)
      BY <1>1, <1>2
    <3>2. text[3] \in Character
      BY <1>1, <3>1, ElementOfSeq
    <3> QED
      BY <3>2 DEF Text
  <2>2. /\ Behind(text, 3) \in Text
        /\ Len(Behind(text, 3)) = Len(text) - 3
    <3>1. 3 \in 0 .. Len(text)
      BY <1>1, <1>2
    <3> QED
      BY <3>1, BehindIsText
  <2> QED
    BY <1>1, <2>1, <2>2 DEF Protected, Part, PartOf
<1> QED
  BY <1>2 DEF Protected

LEMMA NamedParts ==
    ASSUME NEW bufs, BuffersOK(bufs), NEW names \in Readers, NEW text \in Text
    PROVE  /\ Named(bufs, names, text) \in SUBSET Part
           /\ \A p \in Named(bufs, names, text) :
                /\ Len(p.rest) < Len(text)
                /\ p.text \in DOMAIN bufs /\ bufs[p.text] \in Seq(Text)
<1>1. Len(text) \in Nat
  BY LenProperties DEF Text
<1>2. CASE text # <<>> /\ text[1] = "("
  <2>1. Len(text) > 0
    BY <1>1, <1>2, EmptySeq DEF Text
  <2>2. /\ Behind(text, 1) \in Text
        /\ Len(Behind(text, 1)) = Len(text) - 1
    BY <1>1, <2>1, BehindIsText
  <2>3. /\ names[Behind(text, 1)] \in SUBSET Part
        /\ \A p \in names[Behind(text, 1)] : Len(p.rest) < Len(text) - 1
    BY <2>2 DEF Readers
  <2>4. \A p \in Part : Len(p.rest) \in Nat
    BY LenProperties DEF Part, Text
  <2> QED
    BY <1>1, <1>2, <2>3, <2>4 DEF Named, Known, Opened, BuffersOK
<1> QED
  BY <1>2 DEF Named, Known, Opened

LEMMA NamePartsAreParts ==
    ASSUME NEW bufs, BuffersOK(bufs), NEW inner \in Readers,
           NEW text \in Text, text # <<>>
    PROVE  /\ NameParts(bufs, inner, text) \in SUBSET Part
           /\ \A p \in NameParts(bufs, inner, text) : Len(p.rest) < Len(text)
<1>1. Len(text) \in Nat /\ Len(text) > 0
  BY LenProperties, EmptySeq DEF Text
<1>2. CASE text[1] = "nl" \/ (text[1] = "\\" /\ Len(text) = 1)
  BY <1>2 DEF NameParts
<1>3. CASE text[1] # "nl" /\ text[1] # "\\"
  <2>1. 1 \in 1 .. Len(text)
    BY <1>1
  <2> QED
    BY <1>3, <2>1, PlainParts DEF NameParts
<1>4. CASE text[1] = "\\" /\ text[1] # "nl" /\ Len(text) # 1
  <2>1. 2 \in 1 .. Len(text)
    BY <1>1, <1>4
  <2>2. CASE text[2] = "C"
    BY <1>4, <2>2, ProtectedParts DEF NameParts
  <2>3. CASE text[2] = "S"
    <3>1. /\ Behind(text, 2) \in Text
          /\ Len(Behind(text, 2)) = Len(text) - 2
      BY <1>1, <2>1, BehindIsText
    <3> DEFINE named == Named(bufs, inner, Behind(text, 2))
    <3>2. /\ named \in SUBSET Part
          /\ \A p \in named : /\ Len(p.rest) < Len(text) - 2
                              /\ bufs[p.text] \in Seq(Text)
      BY <3>1, NamedParts
    <3>3. NameParts(bufs, inner, text)
            = { PartOf(Joined(bufs[p.text]), p.rest) : p \in named }
      BY <1>4, <2>3 DEF NameParts
    <3> HIDE DEF named
    <3>4. \A p \in named : /\ PartOf(Joined(bufs[p.text]), p.rest) \in Part
                           /\ PartOf(Joined(bufs[p.text]), p.rest).rest = p.rest
      BY <3>2, JoinedIsText DEF Part, PartOf
    <3>5. \A p \in named : Len(p.rest) \in Nat /\ Len(p.rest) < Len(text)
      <4>1. \A p \in named : p.rest \in Seq(Character)
        BY <3>2 DEF Part, Text
      <4> QED
        BY <1>1, <3>2, <4>1, LenProperties
    <3> QED
      BY <3>3, <3>4, <3>5
  <2>4. CASE text[2] # "C" /\ text[2] # "S"
    BY <1>4, <2>1, <2>4, PlainParts DEF NameParts
  <2> QED
    BY <2>2, <2>3, <2>4
<1> QED
  BY <1>2, <1>3, <1>4

\* A step of the recursion.
LEMMA NameStepParts ==
    ASSUME NEW bufs, BuffersOK(bufs), NEW inner \in Readers,
           NEW names \in [Text -> SUBSET Part], NEW text \in Text
    PROVE  NameStep(bufs, inner, names, text) \in SUBSET Part
<1>1. CASE text = <<>>
  BY <1>1 DEF NameStep
<1>2. CASE text # <<>> /\ text[1] = ")"
  <2>1. Len(text) \in Nat /\ Len(text) > 0
    BY <1>2, LenProperties, EmptySeq DEF Text
  <2>2. Behind(text, 1) \in Text /\ <<>> \in Text
    BY <2>1, BehindIsText DEF Text
  <2> QED
    BY <1>2, <2>2 DEF NameStep, Part, PartOf
<1>3. CASE text # <<>> /\ text[1] # ")"
  <2> DEFINE parts == NameParts(bufs, inner, text)
  <2>1. parts \in SUBSET Part
    BY <1>3, NamePartsAreParts
  <2>2. NameStep(bufs, inner, names, text)
          = UNION { Led(p.text, names[p.rest]) : p \in parts }
    BY <1>3 DEF NameStep
  <2> HIDE DEF parts
  <2>3. ASSUME NEW p \in parts PROVE Led(p.text, names[p.rest]) \in SUBSET Part
    <3>1. p.text \in Text /\ names[p.rest] \in SUBSET Part
      BY <2>1 DEF Part
    <3>2. \A t \in Text : p.text \o t \in Text
      BY <3>1, ConcatProperties DEF Text
    <3>3. \A q \in names[p.rest] : PartOf(p.text \o q.text, q.rest) \in Part
      BY <3>1, <3>2 DEF Part, PartOf
    <3> QED
      BY <3>3 DEF Led
  <2> QED
    BY <2>2, <2>3
<1> QED
  BY <1>1, <1>2, <1>3

\* A step looks only at names in shorter texts.
LEMMA NameStepDescends ==
    ASSUME NEW bufs, BuffersOK(bufs), NEW inner \in Readers, NEW f, NEW g,
           NEW text \in Text,
           \A t \in Text : Len(t) < Len(text) => f[t] = g[t]
    PROVE  NameStep(bufs, inner, f, text) = NameStep(bufs, inner, g, text)
<1>1. CASE text = <<>> \/ text[1] = ")"
  BY <1>1 DEF NameStep
<1>2. CASE text # <<>> /\ text[1] # ")"
  <2> DEFINE parts == NameParts(bufs, inner, text)
  <2>1. \A p \in parts : p \in Part /\ Len(p.rest) < Len(text)
    BY <1>2, NamePartsAreParts
  <2>2. /\ NameStep(bufs, inner, f, text)
             = UNION { Led(p.text, f[p.rest]) : p \in parts }
        /\ NameStep(bufs, inner, g, text)
             = UNION { Led(p.text, g[p.rest]) : p \in parts }
    BY <1>2 DEF NameStep
  <2> HIDE DEF parts
  <2>3. \A p \in parts : f[p.rest] = g[p.rest]
    BY <2>1 DEF Part
  <2> QED
    BY <2>2, <2>3
<1> QED
  BY <1>1, <1>2

\* So the recursion has a function, which NamesOver is.
LEMMA NamesRecursion ==
    ASSUME NEW bufs, BuffersOK(bufs), NEW inner \in Readers
    PROVE  /\ NamesOver(bufs, inner) \in [Text -> SUBSET Part]
           /\ \A text \in Text :
                NamesOver(bufs, inner)[text]
                  = NameStep(bufs, inner, NamesOver(bufs, inner), text)
<1> DEFINE V == SUBSET Part
           F == [Text -> V]
           size == [t \in Text |-> Len(t)]
           Next1(f) == [t \in Text |-> NameStep(bufs, inner, f, t)]
           G == [f \in F |-> Next1(f)]
           names == CHOOSE f : f = Next1(f)
           Same(f) == { t \in Text : names[t] = f[t] }
<1>1. size \in [Text -> Nat] /\ V # {}
  BY LenProperties DEF Text
<1>2. G \in [F -> F]
  <2>1. \A f \in F : Next1(f) \in F
    BY NameStepParts
  <2> HIDE DEF F, Next1
  <2> QED
    BY <2>1
<1>3. Descends(G, Text, V, size)
  <2>1. ASSUME NEW f \in F, NEW g \in F, NEW x \in Text,
               \A t \in Text : size[t] < size[x] => f[t] = g[t]
        PROVE  G[f][x] = G[g][x]
    <3>1. \A t \in Text : Len(t) < Len(x) => f[t] = g[t]
      BY <2>1
    <3>2. NameStep(bufs, inner, f, x) = NameStep(bufs, inner, g, x)
      BY <3>1, NameStepDescends
    <3>3. G[f] = Next1(f) /\ G[g] = Next1(g)
      <4> HIDE DEF Next1, F
      <4> QED
        OBVIOUS
    <3> HIDE DEF G
    <3> QED
      BY <3>2, <3>3
  <2> HIDE DEF G, size, V
  <2> QED
    BY <1>1, <1>2, <2>1, Zenon DEF Descends
<1>4. PICK f \in F : f = G[f]
  <2> HIDE DEF V, size, G
  <2> QED
    BY <1>3, RecursionExists
<1>5. f = Next1(f)
  <2> HIDE DEF Next1, F
  <2> QED
    BY <1>4
<1>6. names = Next1(names)
  <2> HIDE DEF Next1
  <2> QED
    BY <1>5, Zenon
<1>7. NamesOver(bufs, inner) = names
  BY DEF NamesOver
<1>8. ASSUME NEW x \in Text, \A t \in Text : size[t] < size[x] => t \in Same(f)
      PROVE  x \in Same(f)
  <2>1. \A t \in Text : Len(t) < Len(x) => names[t] = f[t]
    BY <1>8
  <2>2. NameStep(bufs, inner, names, x) = NameStep(bufs, inner, f, x)
    BY <2>1, NameStepDescends
  <2>3. names[x] = Next1(names)[x] /\ f[x] = Next1(f)[x]
    <3> HIDE DEF Next1, names
    <3> QED
      BY <1>5, <1>6
  <2> HIDE DEF names
  <2> QED
    BY <2>2, <2>3
<1> HIDE DEF names
<1>9. \A x \in Text : names[x] = f[x]
  <2> HIDE DEF Same, size
  <2>1. Text \subseteq Same(f)
    BY <1>1, <1>8, SizeInduction
  <2> QED
    BY <2>1 DEF Same
<1>10. names \in [Text -> SUBSET Part]
  <2>1. DOMAIN names = Text
    BY <1>6
  <2>2. names = [x \in Text |-> names[x]]
    BY <1>6
  <2> QED
    BY <1>9, <2>2
<1> QED
  BY <1>6, <1>7, <1>10

LEMMA NamesAreRead ==
    ASSUME NEW bufs, BuffersOK(bufs), NEW inner \in Readers
    PROVE  NamesOver(bufs, inner) \in Readers
<1> DEFINE names == NamesOver(bufs, inner)
           size == [t \in Text |-> Len(t)]
           S == { t \in Text : \A p \in names[t] : Len(p.rest) < Len(t) }
<1>1. /\ names \in [Text -> SUBSET Part]
      /\ \A t \in Text : names[t] = NameStep(bufs, inner, names, t)
  BY NamesRecursion
<1> HIDE DEF names
<1>2. ASSUME NEW x \in Text, \A t \in Text : size[t] < size[x] => t \in S
      PROVE  x \in S
  <2>1. \A t \in Text : Len(t) < Len(x) => \A q \in names[t] : Len(q.rest) < Len(t)
    BY <1>2
  <2>2. Len(x) \in Nat
    BY LenProperties DEF Text
  <2>3. ASSUME NEW q \in names[x] PROVE Len(q.rest) < Len(x)
    <3>1. q \in NameStep(bufs, inner, names, x)
      BY <1>1
    <3>2. x # <<>>
      BY <3>1 DEF NameStep
    <3>3. Len(x) > 0
      BY <2>2, <3>2, EmptySeq DEF Text
    <3>4. CASE x[1] = ")"
      <4>1. q = PartOf(<<>>, Behind(x, 1))
        BY <3>1, <3>2, <3>4 DEF NameStep
      <4>2. Len(Behind(x, 1)) = Len(x) - 1
        BY <2>2, <3>3, BehindIsText
      <4> QED
        BY <2>2, <4>1, <4>2 DEF PartOf
    <3>5. CASE x[1] # ")"
      <4>1. PICK p \in NameParts(bufs, inner, x) : q \in Led(p.text, names[p.rest])
        BY <3>1, <3>2, <3>5 DEF NameStep
      <4>2. p \in Part /\ Len(p.rest) < Len(x)
        BY <3>2, <4>1, NamePartsAreParts
      <4>3. PICK r \in names[p.rest] : q = PartOf(p.text \o r.text, r.rest)
        BY <4>1 DEF Led
      <4>4. p.rest \in Text
        BY <4>2 DEF Part
      <4>5. Len(r.rest) < Len(p.rest) /\ r \in Part /\ q.rest = r.rest
        BY <1>1, <2>1, <4>2, <4>3, <4>4 DEF PartOf
      <4>6. Len(r.rest) \in Nat /\ Len(p.rest) \in Nat
        BY <4>4, <4>5, LenProperties DEF Part, Text
      <4> QED
        BY <2>2, <4>2, <4>5, <4>6
    <3> QED
      BY <3>4, <3>5
  <2> QED
    BY <2>3
<1>3. size \in [Text -> Nat]
  BY LenProperties DEF Text
<1>4. Text \subseteq S
  <2> HIDE DEF S, size
  <2> QED
    BY <1>2, <1>3, SizeInduction
<1>5. \A t \in Text : \A p \in names[t] : Len(p.rest) < Len(t)
  BY <1>4
<1> QED
  BY <1>1, <1>5 DEF Readers, names

LEMMA NothingReads == Nothing \in Readers
BY DEF Nothing, Readers

\* How deep names stand inside names.
Levels == 0 .. MaximumDepth + 1

\* How the names of a level are made of those one level below.
LEMMA NamesByLevel ==
    ASSUME NEW bufs, BuffersOK(bufs)
    PROVE  /\ NamesNested(bufs) \in [Levels -> Readers]
           /\ NamesNested(bufs)[0] = Nothing
           /\ \A n \in 1 .. MaximumDepth + 1 :
                NamesNested(bufs)[n] = NamesOver(bufs, NamesNested(bufs)[n - 1])
<1> DEFINE step == [n \in 1 .. MaximumDepth + 1 |->
                     [names \in Readers |-> NamesOver(bufs, names)]]
           N == MaximumDepth + 1
           first == Nothing
           Made(f) == f = [n \in 0 .. MaximumDepth + 1 |->
                        IF n = 0 THEN Nothing ELSE NamesOver(bufs, f[n - 1])]
           nested == CHOOSE f : Made(f)
<1>1. N \in Nat /\ MaximumDepth \in Nat
  BY FlowEngineAssumption
<1>2. step \in Steps(Readers, N)
  BY NamesAreRead DEF Steps
<1>3. \A n \in 1 .. N, names \in Readers : step[n][names] = NamesOver(bufs, names)
  OBVIOUS
<1>4. first \in Readers
  BY NothingReads
<1> HIDE DEF step, first
<1>5. PICK g : FollowsSteps(g, Readers, N, first, step)
  <2> HIDE DEF N
  <2> QED
    BY <1>1, <1>2, <1>4, RecursiveFunctionExists
<1>6. /\ g \in [0 .. N -> Readers] /\ g[0] = Nothing
      /\ \A n \in 1 .. N : g[n] = step[n][g[n - 1]]
  BY <1>5 DEF FollowsSteps, first
<1>7. Made(g)
  <2>1. ASSUME NEW n \in 0 .. N
        PROVE  g[n] = IF n = 0 THEN Nothing ELSE NamesOver(bufs, g[n - 1])
    <3>1. CASE n = 0
      BY <1>6, <3>1
    <3>2. CASE n # 0
      <4>1. n \in 1 .. N /\ n - 1 \in 0 .. N
        BY <1>1, <3>2
      <4> QED
        BY <1>3, <1>6, <3>2, <4>1
    <3> QED
      BY <3>1, <3>2
  <2> QED
    BY <1>6, <2>1
<1>8. Made(nested)
  <2> HIDE DEF Made
  <2> QED
    BY <1>7, Zenon
<1>9. NamesNested(bufs) = nested
  BY DEF NamesNested
<1> HIDE DEF nested
<1>10. /\ DOMAIN nested = 0 .. N
       /\ nested = [n \in 0 .. N |-> nested[n]]
       /\ nested[0] = Nothing
       /\ \A n \in 1 .. N : nested[n] = NamesOver(bufs, nested[n - 1])
  <2>1. \A n \in 1 .. N : n \in 0 .. N /\ n # 0
    BY <1>1
  <2>2. 0 \in 0 .. N
    BY <1>1
  <2> QED
    BY <1>8, <2>1, <2>2
<1> DEFINE S == { n \in 0 .. N : nested[n] \in Readers }
<1>11. 0 \in S
  BY <1>1, <1>10, NothingReads
<1>12. ASSUME NEW n \in 1 .. N, n - 1 \in S PROVE n \in S
  <2>1. n \in 0 .. N
    BY <1>1
  <2> QED
    BY <1>10, <1>12, <2>1, NamesAreRead
<1>13. \A n \in 0 .. N : n \in S
  <2> HIDE DEF S, N
  <2> QED
    BY <1>1, <1>11, <1>12, BoundedInduction
<1>14. nested \in [0 .. N -> Readers]
  <2>1. \A n \in 0 .. N : nested[n] \in Readers
    BY <1>13
  <2> HIDE DEF S
  <2> QED
    BY <1>10, <2>1
<1> QED
  BY <1>9, <1>10, <1>14 DEF Levels

-----------------------------------------------------------------------------
(***************************************************************************)
(* Meanings, by the same recursion, and one for each depth.                *)
(***************************************************************************)

\* What gives each text a meaning, or none.
Meaners == [Text -> SUBSET Text]

\* With a newline after each line, lines are lines.
LEMMA WithNewlinesAreLines ==
    ASSUME NEW lines \in Seq(Text)
    PROVE  /\ WithNewlines(lines) \in Seq(Text)
           /\ Len(WithNewlines(lines)) = Len(lines)
           /\ \A l \in 1 .. Len(lines) : WithNewlines(lines)[l] = Append(lines[l], "nl")
<1>1. Len(lines) \in Nat
  BY LenProperties
<1>2. \A l \in 1 .. Len(lines) : Append(lines[l], "nl") \in Text
  <2>1. "nl" \in Character
    BY FlowEngineAssumption DEF Syntax
  <2>2. \A l \in 1 .. Len(lines) : lines[l] \in Text
    BY ElementOfSeq
  <2> QED
    BY <2>1, <2>2, AppendProperties DEF Text
<1>3. WithNewlines(lines) \in [1 .. Len(lines) -> Text]
  BY <1>2 DEF WithNewlines
<1> QED
  BY <1>1, <1>3, IsASeq DEF WithNewlines

LEMMA IncludedTexts ==
    ASSUME NEW n \in Nat \ {0}, NEW inner \in Meaners,
           NEW directive \in {"B", "S", "L"}, NEW lines \in Seq(Text)
    PROVE  Included(n, inner, directive, lines) \in SUBSET Text
<1>1. Joined(lines) \in Text /\ Joined(WithNewlines(lines)) \in Text
  BY JoinedIsText, WithNewlinesAreLines
<1>2. inner[Joined(WithNewlines(lines))] \in SUBSET Text
  BY <1>1 DEF Meaners
<1>3. CASE n = 1
  BY <1>3 DEF Included
<1>4. CASE n # 1
  <2>1. n > 1
    BY <1>4
  <2>2. CASE directive = "B"
    BY <1>2, <1>4, <2>1, <2>2 DEF Included
  <2>3. CASE directive = "S"
    BY <1>1, <1>4, <2>1, <2>3 DEF Included
  <2>4. CASE directive = "L"
    BY <1>1, <1>4, <2>1, <2>4 DEF Included
  <2> QED
    BY <2>2, <2>3, <2>4
<1> QED
  BY <1>3, <1>4

AllNames(bufs) == NamesNested(bufs)[MaximumDepth + 1]

LEMMA AllNamesAreRead ==
    ASSUME NEW bufs, BuffersOK(bufs)
    PROVE  AllNames(bufs) \in Readers
<1>1. MaximumDepth + 1 \in Levels
  BY FlowEngineAssumption DEF Levels
<1> QED
  BY <1>1, NamesByLevel DEF AllNames

\* The parts of a text leave less than there was.
LEMMA TextPartsAreParts ==
    ASSUME NEW bufs, BuffersOK(bufs), NEW n \in Nat \ {0}, NEW inner \in Meaners,
           NEW text \in Text, text # <<>>
    PROVE  /\ TextParts(bufs, n, inner, text) \in SUBSET Part
           /\ \A p \in TextParts(bufs, n, inner, text) : Len(p.rest) < Len(text)
<1>1. Len(text) \in Nat /\ Len(text) > 0
  BY LenProperties, EmptySeq DEF Text
<1>2. CASE text[1] # "\\" \/ Len(text) = 1
  <2>1. 1 \in 1 .. Len(text)
    BY <1>1
  <2> QED
    BY <1>2, <2>1, PlainParts DEF TextParts
<1>3. CASE text[1] = "\\" /\ Len(text) # 1
  <2>1. 2 \in 1 .. Len(text)
    BY <1>1, <1>3
  <2>2. /\ Behind(text, 2) \in Text
        /\ Len(Behind(text, 2)) = Len(text) - 2
    BY <1>1, <2>1, BehindIsText
  <2>3. CASE text[2] \in {"B", "S", "L"}
    <3> DEFINE named == Named(bufs, AllNames(bufs), Behind(text, 2))
               In(p) == Included(n, inner, text[2], bufs[p.text])
    <3>1. /\ named \in SUBSET Part
          /\ \A p \in named : /\ Len(p.rest) < Len(text) - 2
                              /\ bufs[p.text] \in Seq(Text)
      BY <2>2, NamedParts, AllNamesAreRead
    <3>2. TextParts(bufs, n, inner, text)
            = UNION { { PartOf(t, p.rest) : t \in In(p) } : p \in named }
      BY <1>3, <2>3 DEF TextParts, Inclusions, AllNames
    <3>3. \A p \in named : In(p) \in SUBSET Text
      BY <2>3, <3>1, IncludedTexts
    <3> HIDE DEF named, In
    <3>4. ASSUME NEW p \in named, NEW t \in In(p)
          PROVE  PartOf(t, p.rest) \in Part /\ Len(PartOf(t, p.rest).rest) < Len(text)
      <4>1. p.rest \in Text /\ t \in Text /\ Len(p.rest) < Len(text) - 2
        BY <3>1, <3>3 DEF Part
      <4>2. Len(p.rest) \in Nat
        BY <4>1, LenProperties DEF Text
      <4> QED
        BY <1>1, <4>1, <4>2 DEF PartOf, Part
    <3> QED
      BY <3>2, <3>4
  <2>4. CASE text[2] \in {"C", "O"}
    BY <1>3, <2>4, ProtectedParts DEF TextParts
  <2>5. CASE text[2] = "\\"
    <3>1. TextParts(bufs, n, inner, text) = {PartOf(<<"\\">>, Behind(text, 2))}
      BY <1>3, <2>5 DEF TextParts
    <3>2. <<"\\">> \in Text
      BY FlowEngineAssumption DEF Syntax, Text
    <3> QED
      BY <1>1, <2>2, <3>1, <3>2 DEF PartOf, Part
  <2>6. CASE text[2] \notin {"B", "S", "L", "C", "O", "\\"}
    BY <1>3, <2>1, <2>6, PlainParts DEF TextParts
  <2> QED
    BY <2>3, <2>4, <2>5, <2>6
<1> QED
  BY <1>2, <1>3

LEMMA MeaningStepTexts ==
    ASSUME NEW bufs, BuffersOK(bufs), NEW n \in Nat \ {0}, NEW inner \in Meaners,
           NEW meaning \in Meaners, NEW text \in Text
    PROVE  MeaningStep(bufs, n, inner, meaning, text) \in SUBSET Text
<1>1. CASE text = <<>>
  BY <1>1 DEF MeaningStep, Text
<1>2. CASE text # <<>>
  <2> DEFINE parts == TextParts(bufs, n, inner, text)
  <2>1. parts \in SUBSET Part
    BY <1>2, TextPartsAreParts
  <2>2. MeaningStep(bufs, n, inner, meaning, text)
          = UNION { Prefixed(p.text, meaning[p.rest]) : p \in parts }
    BY <1>2 DEF MeaningStep
  <2> HIDE DEF parts
  <2>3. ASSUME NEW p \in parts PROVE Prefixed(p.text, meaning[p.rest]) \in SUBSET Text
    <3>1. p.text \in Text /\ meaning[p.rest] \in SUBSET Text
      BY <2>1 DEF Part, Meaners
    <3>2. \A t \in Text : p.text \o t \in Text
      BY <3>1, ConcatProperties DEF Text
    <3> QED
      BY <3>1, <3>2 DEF Prefixed
  <2> QED
    BY <2>2, <2>3
<1> QED
  BY <1>1, <1>2

LEMMA MeaningStepDescends ==
    ASSUME NEW bufs, BuffersOK(bufs), NEW n \in Nat \ {0}, NEW inner \in Meaners,
           NEW f, NEW g, NEW text \in Text,
           \A t \in Text : Len(t) < Len(text) => f[t] = g[t]
    PROVE  MeaningStep(bufs, n, inner, f, text) = MeaningStep(bufs, n, inner, g, text)
<1>1. CASE text = <<>>
  BY <1>1 DEF MeaningStep
<1>2. CASE text # <<>>
  <2> DEFINE parts == TextParts(bufs, n, inner, text)
  <2>1. \A p \in parts : p \in Part /\ Len(p.rest) < Len(text)
    BY <1>2, TextPartsAreParts
  <2>2. /\ MeaningStep(bufs, n, inner, f, text)
             = UNION { Prefixed(p.text, f[p.rest]) : p \in parts }
        /\ MeaningStep(bufs, n, inner, g, text)
             = UNION { Prefixed(p.text, g[p.rest]) : p \in parts }
    BY <1>2 DEF MeaningStep
  <2> HIDE DEF parts
  <2>3. \A p \in parts : f[p.rest] = g[p.rest]
    BY <2>1 DEF Part
  <2> QED
    BY <2>2, <2>3
<1> QED
  BY <1>1, <1>2

\* MeaningOver satisfies its recursion.
LEMMA MeaningRecursion ==
    ASSUME NEW bufs, BuffersOK(bufs), NEW n \in Nat \ {0}, NEW inner \in Meaners
    PROVE  /\ MeaningOver(bufs, n, inner) \in Meaners
           /\ \A text \in Text :
                MeaningOver(bufs, n, inner)[text]
                  = MeaningStep(bufs, n, inner, MeaningOver(bufs, n, inner), text)
<1> DEFINE V == SUBSET Text
           F == [Text -> V]
           size == [t \in Text |-> Len(t)]
           Next1(f) == [t \in Text |-> MeaningStep(bufs, n, inner, f, t)]
           G == [f \in F |-> Next1(f)]
           meaning == CHOOSE f : f = Next1(f)
           Same(f) == { t \in Text : meaning[t] = f[t] }
<1>1. size \in [Text -> Nat] /\ V # {}
  BY LenProperties DEF Text
<1>2. G \in [F -> F]
  <2>1. \A f \in F : Next1(f) \in F
    BY MeaningStepTexts DEF Meaners
  <2> HIDE DEF F, Next1
  <2> QED
    BY <2>1
<1>3. Descends(G, Text, V, size)
  <2>1. ASSUME NEW f \in F, NEW g \in F, NEW x \in Text,
               \A t \in Text : size[t] < size[x] => f[t] = g[t]
        PROVE  G[f][x] = G[g][x]
    <3>1. \A t \in Text : Len(t) < Len(x) => f[t] = g[t]
      BY <2>1
    <3>2. MeaningStep(bufs, n, inner, f, x) = MeaningStep(bufs, n, inner, g, x)
      BY <3>1, MeaningStepDescends
    <3>3. G[f] = Next1(f) /\ G[g] = Next1(g)
      <4> HIDE DEF Next1, F
      <4> QED
        OBVIOUS
    <3> HIDE DEF G
    <3> QED
      BY <3>2, <3>3
  <2> HIDE DEF G, size, V
  <2> QED
    BY <1>1, <1>2, <2>1, Zenon DEF Descends
<1>4. PICK f \in F : f = G[f]
  <2> HIDE DEF V, size, G
  <2> QED
    BY <1>3, RecursionExists
<1>5. f = Next1(f)
  <2> HIDE DEF Next1, F
  <2> QED
    BY <1>4
<1>6. meaning = Next1(meaning)
  <2> HIDE DEF Next1
  <2> QED
    BY <1>5, Zenon
<1>7. MeaningOver(bufs, n, inner) = meaning
  BY DEF MeaningOver
<1>8. ASSUME NEW x \in Text, \A t \in Text : size[t] < size[x] => t \in Same(f)
      PROVE  x \in Same(f)
  <2>1. \A t \in Text : Len(t) < Len(x) => meaning[t] = f[t]
    BY <1>8
  <2>2. MeaningStep(bufs, n, inner, meaning, x) = MeaningStep(bufs, n, inner, f, x)
    BY <2>1, MeaningStepDescends
  <2>3. meaning[x] = Next1(meaning)[x] /\ f[x] = Next1(f)[x]
    <3> HIDE DEF Next1, meaning
    <3> QED
      BY <1>5, <1>6
  <2> HIDE DEF meaning
  <2> QED
    BY <2>2, <2>3
<1> HIDE DEF meaning
<1>9. \A x \in Text : meaning[x] = f[x]
  <2> HIDE DEF Same, size
  <2>1. Text \subseteq Same(f)
    BY <1>1, <1>8, SizeInduction
  <2> QED
    BY <2>1 DEF Same
<1>10. meaning \in Meaners
  <2>1. meaning = [x \in Text |-> meaning[x]]
    BY <1>6
  <2> QED
    BY <1>9, <2>1 DEF Meaners
<1> QED
  BY <1>6, <1>7, <1>10

\* How the meanings of a depth are made of those one level deeper.
LEMMA MeaningsByDepth ==
    ASSUME NEW bufs, BuffersOK(bufs)
    PROVE  /\ Meanings(bufs) \in [0 .. MaximumDepth -> Meaners]
           /\ Meanings(bufs)[0] = Nothing
           /\ \A n \in 1 .. MaximumDepth :
                Meanings(bufs)[n] = MeaningOver(bufs, n, Meanings(bufs)[n - 1])
<1> DEFINE N == MaximumDepth
           step == [n \in 1 .. MaximumDepth |->
                     [inner \in Meaners |-> MeaningOver(bufs, n, inner)]]
           first == Nothing
           Made(f) == f = [n \in 0 .. MaximumDepth |->
                        IF n = 0 THEN Nothing ELSE MeaningOver(bufs, n, f[n - 1])]
           depth == CHOOSE f : Made(f)
<1>1. N \in Nat
  BY FlowEngineAssumption
<1>2. step \in Steps(Meaners, N)
  <2>1. \A n \in 1 .. N : n \in Nat \ {0}
    BY <1>1
  <2> QED
    BY <2>1, MeaningRecursion DEF Steps
<1>3. \A n \in 1 .. N, inner \in Meaners : step[n][inner] = MeaningOver(bufs, n, inner)
  OBVIOUS
<1>4. first \in Meaners
  BY DEF Meaners, Nothing
<1> HIDE DEF step, first
<1>5. PICK g : FollowsSteps(g, Meaners, N, first, step)
  <2> HIDE DEF N
  <2> QED
    BY <1>1, <1>2, <1>4, RecursiveFunctionExists
<1>6. /\ g \in [0 .. N -> Meaners] /\ g[0] = Nothing
      /\ \A n \in 1 .. N : g[n] = step[n][g[n - 1]]
  BY <1>5 DEF FollowsSteps, first
<1>7. Made(g)
  <2>1. ASSUME NEW n \in 0 .. N
        PROVE  g[n] = IF n = 0 THEN Nothing ELSE MeaningOver(bufs, n, g[n - 1])
    <3>1. CASE n = 0
      BY <1>6, <3>1
    <3>2. CASE n # 0
      <4>1. n \in 1 .. N /\ n - 1 \in 0 .. N
        BY <1>1, <3>2
      <4> QED
        BY <1>3, <1>6, <3>2, <4>1
    <3> QED
      BY <3>1, <3>2
  <2> QED
    BY <1>6, <2>1
<1>8. Made(depth)
  <2> HIDE DEF Made
  <2> QED
    BY <1>7, Zenon
<1>9. Meanings(bufs) = depth
  BY DEF Meanings
<1> HIDE DEF depth
<1>10. /\ depth = [n \in 0 .. N |-> depth[n]]
       /\ depth[0] = Nothing
       /\ \A n \in 1 .. N : depth[n] = MeaningOver(bufs, n, depth[n - 1])
  <2>1. \A n \in 1 .. N : n \in 0 .. N /\ n # 0
    BY <1>1
  <2>2. 0 \in 0 .. N
    BY <1>1
  <2> QED
    BY <1>8, <2>1, <2>2
<1> DEFINE S == { n \in 0 .. N : depth[n] \in Meaners }
<1>11. 0 \in S
  BY <1>1, <1>4, <1>10 DEF first
<1>12. ASSUME NEW n \in 1 .. N, n - 1 \in S PROVE n \in S
  <2>1. n \in 0 .. N /\ n \in Nat \ {0}
    BY <1>1
  <2> QED
    BY <1>10, <1>12, <2>1, MeaningRecursion
<1>13. \A n \in 0 .. N : n \in S
  <2> HIDE DEF S, N
  <2> QED
    BY <1>1, <1>11, <1>12, BoundedInduction
<1>14. depth \in [0 .. N -> Meaners]
  <2>1. \A n \in 0 .. N : depth[n] \in Meaners
    BY <1>13
  <2> HIDE DEF S
  <2> QED
    BY <1>10, <2>1
<1> QED
  BY <1>9, <1>10, <1>14

-----------------------------------------------------------------------------
(***************************************************************************)
(* Texts, and what is left of a source.                                    *)
(***************************************************************************)

\* Texts, put together and taken apart.
LEMMA Concatenations ==
    /\ <<>> \in Text
    /\ \A a \in Text : Len(a) \in Nat /\ a \o <<>> = a /\ <<>> \o a = a
    /\ \A a, b \in Text : a \o b \in Text /\ Len(a \o b) = Len(a) + Len(b)
    /\ \A a, b, c \in Text : (a \o b) \o c = a \o (b \o c)
BY LenProperties, EmptySeq, ConcatEmptySeq, ConcatProperties, ConcatAssociative
   DEF Text

LEMMA Associates ==
    ASSUME NEW a \in Text, NEW b \in Text, NEW c \in Text
    PROVE  (a \o b) \o c = a \o (b \o c)
BY Concatenations

LEMMA Lengths ==
    ASSUME NEW a \in Text, NEW b \in Text
    PROVE  a \o b \in Text /\ Len(a \o b) = Len(a) + Len(b)
           /\ Len(a) \in Nat /\ Len(b) \in Nat
BY Concatenations

LEMMA BehindPrefix ==
    ASSUME NEW a \in Text, NEW b \in Text
    PROVE  Behind(a \o b, Len(a)) = b
<1> DEFINE t == a \o b
           n == Len(a)
<1>1. /\ t \in Text /\ Len(t) = n + Len(b) /\ n \in Nat /\ Len(b) \in Nat
      /\ \A i \in 1 .. n + Len(b) : t[i] = IF i <= n THEN a[i] ELSE b[i - n]
  BY LenProperties, ConcatProperties DEF Text
<1> HIDE DEF t, n
<1>2. /\ Behind(t, n) \in Text /\ Len(Behind(t, n)) = Len(b)
      /\ \A i \in 1 .. Len(b) : Behind(t, n)[i] = t[n + i]
  <2>1. n \in 0 .. Len(t) /\ Len(t) - n = Len(b)
    BY <1>1
  <2> QED
    BY <1>1, <2>1, BehindIsText
<1>3. \A i \in 1 .. Len(b) : t[n + i] = b[i]
  <2>1. \A i \in 1 .. Len(b) :
          n + i \in 1 .. n + Len(b) /\ ~(n + i <= n) /\ n + i - n = i
    BY <1>1
  <2> QED
    BY <1>1, <2>1
<1>4. Behind(t, n) = b
  BY <1>2, <1>3, SeqEqual DEF Text
<1> QED
  BY <1>4 DEF t, n

\* A text is its first character and the rest.
LEMMA FirstAndRest ==
    ASSUME NEW text \in Text, text # <<>>
    PROVE  /\ text[1] \in Character /\ Behind(text, 1) \in Text
           /\ Len(text) \in Nat \ {0}
           /\ text = <<text[1]>> \o Behind(text, 1)
<1>1. Len(text) \in Nat \ {0} /\ 1 \in 1 .. Len(text) /\ text \in Seq(Character)
  BY EmptySeq DEF Text
<1>2. text[1] \in Character
  BY <1>1, ElementOfSeq
<1>3. Behind(text, 1) \in Text
  <2>1. 1 \in 0 .. Len(text)
    BY <1>1
  <2> QED
    BY <2>1, BehindIsText
<1>4. SubSeq(text, 1, Len(text)) = <<text[1]>> \o SubSeq(text, 1 + 1, Len(text))
  <2>1. Len(text) \in 1 .. Len(text)
    BY <1>1
  <2> QED
    BY <1>1, <2>1, SubSeqRecursiveFirst
<1>5. SubSeq(text, 1, Len(text)) = text
  BY <1>1, SubSeqFull
<1> QED
  BY <1>1, <1>2, <1>3, <1>4, <1>5 DEF Behind

LEMMA Leads ==
    ASSUME NEW c \in Character, NEW r \in Text
    PROVE  /\ <<c>> \in Text /\ Len(<<c>>) = 1
           /\ <<c>> \o r \in Text /\ <<c>> \o r # <<>>
           /\ Len(<<c>> \o r) = Len(r) + 1 /\ Len(r) \in Nat
           /\ (<<c>> \o r)[1] = c
           /\ SubSeq(<<c>> \o r, 1, 1) = <<c>>
           /\ Behind(<<c>> \o r, 1) = r
           /\ r # <<>> => (<<c>> \o r)[2] = r[1]
<1>1. <<c>> \in Text /\ Len(<<c>>) = 1 /\ <<c>>[1] = c
  BY DEF Text
<1> DEFINE t == <<c>> \o r
           a == <<c>>
<1>2. /\ t \in Text /\ Len(t) = 1 + Len(r) /\ Len(r) \in Nat
      /\ \A i \in 1 .. 1 + Len(r) : t[i] = IF i <= 1 THEN a[i] ELSE r[i - 1]
  BY <1>1, LenProperties, ConcatProperties DEF Text
<1>3. Behind(t, 1) = r
  BY <1>1, BehindPrefix
<1>4. a[1] = c /\ a = <<c>>
  BY <1>1
<1>5. r # <<>> => Len(r) \in Nat \ {0}
  BY EmptySeq DEF Text
<1> HIDE DEF t, a
<1>6. Len(t) # 0 /\ t[1] = c /\ 1 \in 1 .. Len(t)
  BY <1>2, <1>4
<1>7. r # <<>> => t[2] = r[1]
  <2> SUFFICES ASSUME r # <<>> PROVE t[2] = r[1]
    OBVIOUS
  <2>1. 2 \in 1 .. 1 + Len(r) /\ ~(2 <= 1) /\ 2 - 1 = 1
    BY <1>2, <1>5
  <2> QED
    BY <1>2, <2>1
<1>8. t # <<>>
  BY <1>6, EmptySeq
<1>9. SubSeq(t, 1, 1) = <<t[1]>> \o SubSeq(t, 1 + 1, 1)
  <2>1. t \in Seq(Character) /\ 1 \in 1 .. 1
    BY <1>2 DEF Text
  <2> QED
    BY <1>6, <2>1, SubSeqRecursiveFirst
<1>10. SubSeq(t, 1 + 1, 1) = <<>>
  BY SubSeqEmpty
<1>11. SubSeq(t, 1, 1) = <<c>>
  BY <1>1, <1>6, <1>9, <1>10, Concatenations
<1> QED
  BY <1>1, <1>2, <1>3, <1>6, <1>7, <1>8, <1>11 DEF t

\* A text, cut in two.
LEMMA Cut ==
    ASSUME NEW text \in Text, NEW n \in 0 .. Len(text)
    PROVE  /\ SubSeq(text, 1, n) \in Text /\ Len(SubSeq(text, 1, n)) = n
           /\ Behind(text, n) \in Text
           /\ text = SubSeq(text, 1, n) \o Behind(text, n)
<1>1. Len(text) \in Nat /\ text \in Seq(Character)
  BY LenProperties DEF Text
<1>2. /\ SubSeq(text, 1, n) \in Seq(Character)
      /\ Len(SubSeq(text, 1, n)) = IF 1 <= n THEN n - 1 + 1 ELSE 0
  <2>1. n \in Int /\ 1 \in Int /\ \A i \in 1 .. n : i \in 1 .. Len(text)
    BY <1>1
  <2>2. \A i \in 1 .. n : text[i] \in Character
    BY <1>1, <2>1, ElementOfSeq
  <2> QED
    BY <2>1, <2>2, SubSeqProperties
<1>3. SubSeq(text, 1, n) \o SubSeq(text, n + 1, Len(text)) = SubSeq(text, 1, Len(text))
  <2>1. /\ 1 \in 1 .. Len(text) + 1 /\ n \in 1 - 1 .. Len(text)
        /\ Len(text) \in n .. Len(text)
    BY <1>1
  <2> QED
    BY <1>1, <2>1, ConcatAdjacentSubSeq
<1>4. SubSeq(text, 1, Len(text)) = text
  BY <1>1, SubSeqFull
<1>5. Len(SubSeq(text, 1, n)) = n
  BY <1>2
<1> QED
  BY <1>2, <1>3, <1>4, <1>5, BehindIsText DEF Text, Behind

\* The characters of a source that were read, and those that were not.
Passed(s) == Len(FirstLines(Contents(s))[s.line - 1]) + s.column
Rest(s)   == Behind(TextOf(s), Passed(s))

\* A source stands in its lines, or behind the last one.
InItsLines(s) ==
    /\ s \in Source
    /\ s.line <= Len(s.lines) + 1
    /\ s.column <= IF s.line <= Len(s.lines) THEN Width(s, s.line) ELSE 0

LEMMA ContentsAreLines ==
    ASSUME NEW s, s.lines \in Seq(Text), s.newlines \in BOOLEAN
    PROVE  /\ Contents(s) \in Seq(Text) /\ Len(Contents(s)) = Len(s.lines)
           /\ Len(s.lines) \in Nat
           /\ TextOf(s) \in Text
<1>1. Len(s.lines) \in Nat
  BY LenProperties
<1>2. Contents(s) \in Seq(Text) /\ Len(Contents(s)) = Len(s.lines)
  <2>1. CASE s.newlines
    BY <2>1, WithNewlinesAreLines DEF Contents
  <2>2. CASE ~s.newlines
    BY <2>2 DEF Contents
  <2> QED
    BY <2>1, <2>2
<1> QED
  BY <1>1, <1>2, JoinedIsText DEF TextOf

\* Each line contributes as many characters as its width says.
LEMMA LinesOfContents ==
    ASSUME NEW s \in Source, NEW l \in 1 .. Len(s.lines)
    PROVE  /\ Contents(s)[l] \in Text
           /\ s.lines[l] \in Text
           /\ Len(s.lines[l]) \in Nat
           /\ Width(s, l) \in Nat
           /\ Len(Contents(s)[l]) = Width(s, l)
           /\ \A c \in 1 .. Len(s.lines[l]) : Contents(s)[l][c] = s.lines[l][c]
           /\ s.newlines => Contents(s)[l][Len(s.lines[l]) + 1] = "nl"
<1>1. /\ s.lines \in Seq(Text) /\ s.newlines \in BOOLEAN
      /\ "nl" \in Character
  BY FlowEngineAssumption DEF Source, Syntax
<1>2. Contents(s) \in Seq(Text) /\ Len(Contents(s)) = Len(s.lines)
  BY <1>1, ContentsAreLines
<1>3. s.lines[l] \in Text /\ Len(s.lines[l]) \in Nat /\ Contents(s)[l] \in Text
  <2>1. s.lines[l] \in Text
    BY <1>1, ElementOfSeq
  <2>2. Contents(s)[l] \in Text
    BY <1>2, ElementOfSeq
  <2> QED
    BY <2>1, <2>2, LenProperties DEF Text
<1>4. CASE ~s.newlines
  <2>1. Contents(s)[l] = s.lines[l]
    BY <1>4 DEF Contents
  <2> QED
    BY <1>3, <1>4, <2>1 DEF Width
<1>5. CASE s.newlines
  <2> DEFINE line == s.lines[l]
  <2>1. Contents(s)[l] = Append(line, "nl")
    BY <1>1, <1>5, WithNewlinesAreLines DEF Contents
  <2>2. line \in Seq(Character)
    BY <1>3 DEF Text
  <2>3. Width(s, l) = Len(line) + 1
    BY <1>5 DEF Width
  <2>4. /\ Len(Append(line, "nl")) = Len(line) + 1
        /\ \A c \in 1 .. Len(line) : Append(line, "nl")[c] = line[c]
        /\ Append(line, "nl")[Len(line) + 1] = "nl"
    <3> HIDE DEF line
    <3> QED
      BY <1>1, <2>2, AppendProperties
  <2> QED
    BY <1>3, <2>1, <2>3, <2>4
<1> QED
  BY <1>4, <1>5

\* The text of a source begins with its first lines.
LEMMA FirstLinesComeFirst ==
    ASSUME NEW lines \in Seq(Text), NEW n \in 0 .. Len(lines)
    PROVE  \E t \in Text : Joined(lines) = FirstLines(lines)[n] \o t
<1> DEFINE N == Len(lines)
           f == FirstLines(lines)
           all == Joined(lines)
           S == { k \in 0 .. N : \E t \in Text : all = f[N - k] \o t }
<1>1. N \in Nat
  BY LenProperties
<1>2. /\ f \in [0 .. N -> Text] /\ all = f[N]
      /\ \A k \in 1 .. N : f[k] = f[k - 1] \o lines[k]
  BY LinesAreJoined
<1>3. \A k \in 1 .. N : lines[k] \in Text
  BY ElementOfSeq
<1> HIDE DEF f, N, all
<1>4. 0 \in S
  <2>1. N - 0 = N /\ 0 \in 0 .. N /\ N \in 0 .. N
    BY <1>1
  <2>2. f[N] = f[N] \o <<>> /\ <<>> \in Text
    BY <1>2, <2>1, Concatenations
  <2> QED
    BY <1>2, <2>1, <2>2
<1>5. ASSUME NEW k \in 1 .. N, k - 1 \in S PROVE k \in S
  <2> DEFINE m == N - k
  <2>1. /\ m + 1 \in 1 .. N /\ m \in 0 .. N /\ N - (k - 1) = m + 1
        /\ (m + 1) - 1 = m /\ k \in 0 .. N
    BY <1>1
  <2>2. PICK t \in Text : all = f[m + 1] \o t
    BY <1>5, <2>1
  <2> HIDE DEF m
  <2>3. f[m + 1] = f[m] \o lines[m + 1]
    BY <1>2, <2>1
  <2>4. f[m] \in Text /\ lines[m + 1] \in Text
    BY <1>2, <1>3, <2>1
  <2>5. lines[m + 1] \o t \in Text /\ all = f[m] \o (lines[m + 1] \o t)
    <3>1. lines[m + 1] \o t \in Text
      BY <2>4, Lengths
    <3>2. (f[m] \o lines[m + 1]) \o t = f[m] \o (lines[m + 1] \o t)
      BY <2>4, Associates
    <3> QED
      BY <2>2, <2>3, <3>1, <3>2
  <2> QED
    BY <2>1, <2>5 DEF m
<1>6. \A k \in 0 .. N : k \in S
  <2> HIDE DEF S
  <2> QED
    BY <1>1, <1>4, <1>5, BoundedInduction
<1>7. N - n \in 0 .. N /\ N - (N - n) = n
  BY <1>1 DEF N
<1> QED
  BY <1>6, <1>7 DEF f, all

\* Where a source stands in its text.
LEMMA PlaceInText ==
    ASSUME NEW s, InItsLines(s), s.line <= Len(s.lines)
    PROVE  LET C == Contents(s)
               f == FirstLines(C)
           IN /\ s.line \in 1 .. Len(s.lines) /\ s.line \in 1 .. Len(C)
              /\ s.column \in 0 .. Width(s, s.line)
              /\ C \in Seq(Text) /\ C[s.line] \in Text
              /\ Len(C[s.line]) = Width(s, s.line) /\ Width(s, s.line) \in Nat
              /\ f[s.line - 1] \in Text /\ f[s.line] \in Text
              /\ f[s.line] = f[s.line - 1] \o C[s.line]
              /\ \E t \in Text : TextOf(s) = f[s.line - 1] \o (C[s.line] \o t)
<1> DEFINE C == Contents(s)
           f == FirstLines(C)
           l == s.line
<1>1. /\ s \in Source /\ s.lines \in Seq(Text) /\ s.newlines \in BOOLEAN
      /\ l \in Nat \ {0} /\ s.column \in Nat /\ s.column <= Width(s, l)
  BY DEF InItsLines, Source
<1>2. l \in 1 .. Len(s.lines)
  BY <1>1, LenProperties
<1>3. C[l] \in Text /\ Len(C[l]) = Width(s, l) /\ Width(s, l) \in Nat
  BY <1>1, <1>2, LinesOfContents
<1>4. C \in Seq(Text) /\ Len(C) = Len(s.lines) /\ TextOf(s) = Joined(C)
  BY <1>1, ContentsAreLines DEF TextOf
<1>5. f \in [0 .. Len(C) -> Text] /\ f[l] = f[l - 1] \o C[l]
  BY <1>2, <1>4, LinesAreJoined
<1>6. l - 1 \in 0 .. Len(C) /\ l \in 0 .. Len(C)
  BY <1>1, <1>2, <1>4
<1>7. f[l - 1] \in Text /\ f[l] \in Text
  BY <1>5, <1>6
<1>8. PICK t \in Text : TextOf(s) = f[l] \o t
  BY <1>4, <1>6, FirstLinesComeFirst
<1>9. TextOf(s) = f[l - 1] \o (C[l] \o t)
  <2>1. (f[l - 1] \o C[l]) \o t = f[l - 1] \o (C[l] \o t)
    <3> HIDE DEF f, C, l
    <3> QED
      BY <1>3, <1>7, Associates
  <2> QED
    BY <1>5, <1>8, <2>1
<1>10. s.column \in 0 .. Width(s, l)
  BY <1>1, <1>3
<1> QED
  BY <1>2, <1>3, <1>4, <1>5, <1>7, <1>9, <1>10

\* A source that has a character left gives it, and keeps the rest.
LEMMA ReadOff ==
    ASSUME NEW s, InItsLines(s), HasMore(s)
    PROVE  /\ InItsLines(Advance(s))
           /\ Rest(Advance(s)) \in Text
           /\ CharacterAt(Advance(s)) \in Character
           /\ Rest(s) = <<CharacterAt(Advance(s))>> \o Rest(Advance(s))
<1> DEFINE l == s.line
           C == Contents(s)
           f == FirstLines(C)
           s2 == Advance(s)
           n == s.column
           before == SubSeq(C[l], 1, n)
           behind == Behind(C[l], n)
           c == behind[1]
           after == Behind(behind, 1)
<1>1. l <= Len(s.lines) /\ n < Width(s, l)
  BY DEF HasMore
<1>2. /\ s \in Source /\ l \in Nat \ {0} /\ n \in Nat
      /\ s.newlines \in BOOLEAN
  BY DEF InItsLines, Source
<1>3. /\ s2 \in Source /\ s2.lines = s.lines /\ s2.line = s.line
      /\ s2.newlines = s.newlines /\ s2.column = s.column + 1
  BY <1>2 DEF Advance, Source
<1>4. /\ l \in 1 .. Len(s.lines) /\ n \in 0 .. Width(s, l)
      /\ C[l] \in Text /\ Len(C[l]) = Width(s, l) /\ Width(s, l) \in Nat
      /\ f[l - 1] \in Text
  BY <1>1, PlaceInText
<1>5. PICK t \in Text : TextOf(s) = f[l - 1] \o (C[l] \o t)
  BY <1>1, PlaceInText
<1>6. InItsLines(s2)
  <2>1. Width(s2, l) = Width(s, l)
    BY <1>3 DEF Width
  <2>2. n + 1 <= Width(s, l)
    BY <1>1, <1>2, <1>4
  <2> QED
    BY <1>1, <1>3, <2>1, <2>2 DEF InItsLines
<1>7. Contents(s2) = C /\ TextOf(s2) = TextOf(s)
  BY <1>3 DEF Contents, TextOf
<1>8. /\ before \in Text /\ Len(before) = n /\ behind \in Text
      /\ C[l] = before \o behind
  BY <1>4, Cut
<1>9. behind # <<>>
  <2> HIDE DEF before, behind, l, n, C, f, s2
  <2>1. behind = <<>> => Len(C[l]) = n
    BY <1>8, Concatenations
  <2> QED
    BY <1>1, <1>2, <1>4, <2>1
<1>10. c \in Character /\ after \in Text /\ behind = <<c>> \o after
  BY <1>8, <1>9, FirstAndRest
<1>11. c = CharacterAt(s2)
  <2> DEFINE line == s.lines[l]
  <2>1. /\ Len(line) \in Nat
        /\ \A i \in 1 .. Len(line) : C[l][i] = line[i]
        /\ s.newlines => C[l][Len(line) + 1] = "nl"
    BY <1>2, <1>4, LinesOfContents
  <2>2. CharacterAt(s2) = IF n + 1 <= Len(line) THEN line[n + 1] ELSE "nl"
    BY <1>3 DEF CharacterAt
  <2>3. Width(s, l) = Len(line) + (IF s.newlines THEN 1 ELSE 0)
    BY DEF Width
  <2>4. c = C[l][n + 1]
    <3>1. n \in 0 .. Len(C[l]) /\ 1 \in 1 .. Len(C[l]) - n
      BY <1>1, <1>2, <1>4
    <3> QED
      BY <1>4, <3>1, BehindIsText
  <2> HIDE DEF line, l, n, C, c, s2
  <2>5. CASE n + 1 <= Len(line)
    <3>1. n + 1 \in 1 .. Len(line)
      BY <1>2, <2>1, <2>5
    <3> QED
      BY <2>1, <2>2, <2>4, <2>5, <3>1
  <2>6. CASE ~(n + 1 <= Len(line))
    <3>1. s.newlines /\ n + 1 = Len(line) + 1
      BY <1>1, <1>2, <2>1, <2>3, <2>6
    <3> QED
      BY <2>1, <2>2, <2>4, <2>6, <3>1
  <2> QED
    BY <2>5, <2>6
<1>12. /\ Rest(s) = Behind(TextOf(s), Len(f[l - 1]) + n)
       /\ Rest(s2) = Behind(TextOf(s), Len(f[l - 1]) + (n + 1))
  BY <1>3, <1>7 DEF Rest, Passed
<1> HIDE DEF l, C, f, s2, n, before, behind, c, after
<1>13. <<c>> \in Text /\ Len(<<c>>) = 1
  BY <1>10, Leads
<1> DEFINE first == f[l - 1] \o before
           more == after \o t
<1>14. /\ first \in Text /\ Len(first) = Len(f[l - 1]) + n /\ more \in Text
       /\ <<c>> \o more \in Text
       /\ first \o <<c>> \in Text /\ Len(first \o <<c>>) = Len(first) + 1
  BY <1>4, <1>8, <1>10, <1>13, Concatenations
<1>15. TextOf(s) = first \o (<<c>> \o more) /\ TextOf(s) = (first \o <<c>>) \o more
  <2>1. before \o (<<c>> \o after) \in Text /\ <<c>> \o after \in Text
    BY <1>8, <1>10, <1>13, Concatenations
  <2>2. C[l] \o t = before \o ((<<c>> \o after) \o t)
    <3>1. (before \o (<<c>> \o after)) \o t = before \o ((<<c>> \o after) \o t)
      BY <1>8, <2>1, Associates
    <3> QED
      BY <1>8, <1>10, <3>1
  <2>3. (<<c>> \o after) \o t = <<c>> \o more
    BY <1>10, <1>13, Associates DEF more
  <2>4. TextOf(s) = f[l - 1] \o (before \o (<<c>> \o more))
    BY <1>5, <2>2, <2>3
  <2>5. f[l - 1] \o (before \o (<<c>> \o more)) = first \o (<<c>> \o more)
    <3>1. \A x \in Text : f[l - 1] \o (before \o x) = first \o x
      BY <1>4, <1>8, Associates
    <3> QED
      BY <1>14, <3>1
  <2>6. first \o (<<c>> \o more) = (first \o <<c>>) \o more
    <3> DEFINE one == <<c>>
    <3>1. first \in Text /\ one \in Text /\ more \in Text
      BY <1>13, <1>14
    <3> HIDE DEF first, more, one
    <3>2. first \o (one \o more) = (first \o one) \o more
      BY <3>1, Associates
    <3> QED
      BY <3>2 DEF one
  <2> QED
    BY <2>4, <2>5, <2>6
<1>16. Len(f[l - 1]) \in Nat
  BY <1>4, Concatenations
<1> HIDE DEF first, more
<1>17. Rest(s) = <<c>> \o more
  BY <1>12, <1>14, <1>15, BehindPrefix
<1>18. Rest(s2) = more
  <2>1. Len(f[l - 1]) + (n + 1) = Len(first \o <<c>>)
    <3>1. Len(first \o <<c>>) = (Len(f[l - 1]) + n) + 1
      BY <1>14
    <3>2. \A k \in Nat : (k + n) + 1 = k + (n + 1)
      BY <1>2
    <3> QED
      BY <1>16, <3>1, <3>2
  <2> QED
    BY <1>12, <1>14, <1>15, <2>1, BehindPrefix
<1> QED
  BY <1>6, <1>10, <1>11, <1>14, <1>17, <1>18 DEF s2

\* At the end of a line, the next one is what is left.
LEMMA LineEnds ==
    ASSUME NEW s, InItsLines(s), ~HasMore(s), ~Exhausted(s)
    PROVE  InItsLines(NextLine(s)) /\ Rest(NextLine(s)) = Rest(s)
<1> DEFINE l == s.line
           C == Contents(s)
           f == FirstLines(C)
           s2 == NextLine(s)
<1>1. /\ s \in Source /\ l \in Nat \ {0} /\ s.column \in Nat
      /\ s.lines \in Seq(Text) /\ Len(s.lines) \in Nat
  BY LenProperties DEF InItsLines, Source
<1>2. l <= Len(s.lines)
  BY <1>1 DEF Exhausted
<1>3. /\ l \in 1 .. Len(s.lines) /\ s.column \in 0 .. Width(s, l)
      /\ C[l] \in Text /\ Len(C[l]) = Width(s, l) /\ Width(s, l) \in Nat
      /\ f[l - 1] \in Text /\ f[l] = f[l - 1] \o C[l]
  BY <1>2, PlaceInText
<1>4. s.column = Width(s, l)
  BY <1>2, <1>3 DEF HasMore
<1>5. /\ s2 \in Source /\ s2.lines = s.lines /\ s2.line = l + 1
      /\ s2.newlines = s.newlines /\ s2.column = 0
  BY <1>1 DEF NextLine, NewSource, Source
<1>6. InItsLines(s2)
  <2>1. l + 1 <= Len(s.lines) => Width(s2, l + 1) \in Nat
    <3> SUFFICES ASSUME l + 1 <= Len(s.lines) PROVE Width(s2, l + 1) \in Nat
      OBVIOUS
    <3>1. l + 1 \in 1 .. Len(s2.lines)
      BY <1>1, <1>5
    <3> QED
      BY <1>5, <3>1, LinesOfContents
  <2> QED
    BY <1>1, <1>2, <1>5, <2>1 DEF InItsLines
<1>7. Contents(s2) = C /\ TextOf(s2) = TextOf(s)
  BY <1>5 DEF Contents, TextOf
<1>8. Len(f[l - 1]) + s.column = Len(f[l]) + 0
  <2>1. /\ Len(f[l - 1] \o C[l]) = Len(f[l - 1]) + Len(C[l])
        /\ Len(f[l - 1]) \in Nat /\ Len(C[l]) \in Nat
    <3> HIDE DEF f, C, l
    <3> QED
      BY <1>3, Lengths
  <2>2. Len(f[l]) = Len(f[l - 1]) + Len(C[l])
    BY <1>3, <2>1
  <2>3. Len(f[l]) + 0 = Len(f[l])
    BY <2>1, <2>2
  <2> QED
    BY <1>3, <1>4, <2>2, <2>3
<1>9. (l + 1) - 1 = l
  BY <1>1
<1> QED
  BY <1>5, <1>6, <1>7, <1>8, <1>9 DEF Rest, Passed

\* A source without a line left has nothing left.
LEMMA NothingIsLeft ==
    ASSUME NEW s, InItsLines(s), Exhausted(s)
    PROVE  Rest(s) = <<>>
<1> DEFINE C == Contents(s)
           f == FirstLines(C)
<1>1. /\ s \in Source /\ s.line \in Nat \ {0} /\ s.column \in Nat
      /\ s.lines \in Seq(Text) /\ Len(s.lines) \in Nat /\ s.newlines \in BOOLEAN
  BY LenProperties DEF InItsLines, Source
<1>2. s.line - 1 = Len(s.lines) /\ s.column = 0
  BY <1>1 DEF InItsLines, Exhausted
<1>3. C \in Seq(Text) /\ Len(C) = Len(s.lines) /\ TextOf(s) \in Text
  BY <1>1, ContentsAreLines
<1>4. TextOf(s) = f[s.line - 1]
  BY <1>2, <1>3, LinesAreJoined DEF TextOf
<1>5. Rest(s) = Behind(TextOf(s), Len(TextOf(s)) + 0)
  BY <1>2, <1>4 DEF Rest, Passed
<1>6. Len(TextOf(s)) + 0 = Len(TextOf(s)) /\ TextOf(s) \o <<>> = TextOf(s) /\ <<>> \in Text
  BY <1>3, Concatenations
<1> QED
  BY <1>3, <1>5, <1>6, BehindPrefix

\* A source that is new has all of its text left.
LEMMA AllIsLeft ==
    ASSUME NEW lines \in Seq(Text), NEW newlines \in BOOLEAN,
           NEW literal \in BOOLEAN, NEW level \in Nat
    PROVE  LET s == NewSource(lines, newlines, literal, level)
           IN InItsLines(s) /\ Rest(s) = TextOf(s) /\ TextOf(s) \in Text
<1> DEFINE s == NewSource(lines, newlines, literal, level)
           C == Contents(s)
<1>1. /\ s \in Source /\ s.line = 1 /\ s.column = 0 /\ s.lines = lines
      /\ s.newlines = newlines /\ Len(lines) \in Nat
  BY LenProperties DEF NewSource, Source
<1> HIDE DEF s
<1>2. InItsLines(s)
  <2>1. 1 <= Len(lines) => Width(s, 1) \in Nat
    <3> SUFFICES ASSUME 1 <= Len(lines) PROVE Width(s, 1) \in Nat
      OBVIOUS
    <3>1. 1 \in 1 .. Len(s.lines)
      BY <1>1
    <3> QED
      BY <1>1, <3>1, LinesOfContents
  <2> QED
    BY <1>1, <2>1 DEF InItsLines
<1>3. C \in Seq(Text) /\ TextOf(s) \in Text
  BY <1>1, ContentsAreLines
<1>4. FirstLines(C)[0] = <<>>
  BY <1>3, LinesAreJoined
<1>5. Rest(s) = Behind(TextOf(s), Len(<<>>) + 0)
  BY <1>1, <1>4 DEF Rest, Passed
<1>6. Len(<<>>) + 0 = Len(<<>>) /\ <<>> \o TextOf(s) = TextOf(s) /\ <<>> \in Text
  BY <1>3, Concatenations
<1>7. Rest(s) = TextOf(s)
  BY <1>3, <1>5, <1>6, BehindPrefix
<1> QED
  BY <1>2, <1>3, <1>7 DEF s

\* What is left of a source is a text.
LEMMA RestIsText ==
    ASSUME NEW s, InItsLines(s)
    PROVE  Rest(s) \in Text
<1> DEFINE C == Contents(s)
           before == FirstLines(C)[s.line - 1]
<1>1. /\ s \in Source /\ s.line \in Nat \ {0} /\ s.column \in Nat
      /\ s.lines \in Seq(Text) /\ Len(s.lines) \in Nat /\ s.newlines \in BOOLEAN
  BY LenProperties DEF InItsLines, Source
<1>2. C \in Seq(Text) /\ Len(C) = Len(s.lines) /\ TextOf(s) \in Text
  BY <1>1, ContentsAreLines
<1>3. s.line - 1 \in 0 .. Len(C)
  BY <1>1, <1>2 DEF InItsLines
<1>4. before \in Text
  BY <1>2, <1>3, LinesAreJoined
<1> HIDE DEF before
<1>5. Len(before) + s.column \in Nat
  BY <1>1, <1>4, LenProperties DEF Text
<1> DEFINE text == TextOf(s)
           from == Len(before) + s.column + 1
           to == Len(text)
<1>6. /\ text \in Seq(Character) /\ to \in Int /\ from \in Int
      /\ \A i \in from .. to : i \in 1 .. Len(text)
  BY <1>2, <1>5, LenProperties DEF Text
<1>7. Rest(s) = SubSeq(text, from, to)
  BY DEF Rest, Passed, Behind, before
<1> HIDE DEF text, from, to
<1>8. \A i \in from .. to : text[i] \in Character
  BY <1>6, ElementOfSeq
<1>9. SubSeq(text, from, to) \in Seq(Character)
  BY <1>6, <1>8, SubSeqProperties
<1> QED
  BY <1>7, <1>9 DEF Text

-----------------------------------------------------------------------------
(***************************************************************************)
(* Sets of texts, one behind another, and of parts.                        *)
(***************************************************************************)

\* One of these texts, and then one of those.
Followed(some, others) == UNION { Prefixed(t, others) : t \in some }

\* Texts put in front of texts.
LEMMA PrefixesAreTexts ==
    ASSUME NEW t \in Text, NEW some \in SUBSET Text
    PROVE  /\ Prefixed(t, some) \in SUBSET Text
           /\ Prefixed(t, {}) = {} /\ Prefixed(t, {<<>>}) = {t}
           /\ Prefixed(<<>>, some) = some
<1>1. \A x \in some : x \in Text /\ t \o x \in Text /\ <<>> \o x = x
  BY Concatenations
<1>2. t \o <<>> = t
  BY Concatenations
<1>3. Prefixed(t, some) \in SUBSET Text
  BY <1>1 DEF Prefixed
<1>4. Prefixed(<<>>, some) = some
  BY <1>1 DEF Prefixed
<1>5. Prefixed(t, {<<>>}) = {t}
  BY <1>2 DEF Prefixed
<1> QED
  BY <1>3, <1>4, <1>5 DEF Prefixed

LEMMA PrefixesJoin ==
    ASSUME NEW t \in Text, NEW u \in Text, NEW some \in SUBSET Text
    PROVE  Prefixed(t, Prefixed(u, some)) = Prefixed(t \o u, some)
<1>1. \A x \in some : t \o (u \o x) = (t \o u) \o x
  BY Associates
<1> DEFINE inner == Prefixed(u, some)
           outer == Prefixed(t \o u, some)
<1>2. \A y : y \in inner <=> \E x \in some : y = u \o x
  BY DEF Prefixed
<1>3. \A y : y \in outer <=> \E x \in some : y = (t \o u) \o x
  BY DEF Prefixed
<1>4. \A z : z \in Prefixed(t, inner) <=> \E y \in inner : z = t \o y
  BY DEF Prefixed
<1> HIDE DEF inner, outer
<1>5. ASSUME NEW z \in Prefixed(t, inner) PROVE z \in outer
  <2>1. PICK x \in some : z = t \o (u \o x)
    BY <1>2, <1>4, <1>5
  <2>2. z = (t \o u) \o x
    BY <1>1, <2>1
  <2> QED
    BY <1>3, <2>2
<1>6. ASSUME NEW z \in outer PROVE z \in Prefixed(t, inner)
  <2>1. PICK x \in some : z = (t \o u) \o x
    BY <1>3
  <2>2. z = t \o (u \o x)
    BY <1>1, <2>1
  <2>3. u \o x \in inner
    BY <1>2
  <2> QED
    BY <1>4, <2>2, <2>3
<1>7. Prefixed(t, inner) = outer
  BY <1>5, <1>6
<1> QED
  BY <1>7 DEF inner, outer

LEMMA FollowedTexts ==
    ASSUME NEW some \in SUBSET Text, NEW others \in SUBSET Text
    PROVE  /\ Followed(some, others) \in SUBSET Text
           /\ Followed({<<>>}, others) = others
           /\ Followed({}, others) = {}
           /\ \A t \in Text : Followed({t}, others) = Prefixed(t, others)
BY PrefixesAreTexts, Concatenations DEF Followed

\* What follows does not matter for what leads, and the other way around.
LEMMA PrefixFollowed ==
    ASSUME NEW t \in Text, NEW some \in SUBSET Text, NEW others \in SUBSET Text
    PROVE  Prefixed(t, Followed(some, others)) = Followed(Prefixed(t, some), others)
<1> DEFINE left == Prefixed(t, Followed(some, others))
           right == Followed(Prefixed(t, some), others)
<1>1. \A x \in some, y \in others : t \o (x \o y) = (t \o x) \o y
  BY Associates
<1>2. ASSUME NEW z \in left PROVE z \in right
  <2>1. PICK x \in some, y \in others : z = t \o (x \o y)
    BY <1>2 DEF Followed, Prefixed
  <2>2. t \o x \in Prefixed(t, some) /\ z \in Prefixed(t \o x, others)
    BY <1>1, <2>1 DEF Prefixed
  <2> QED
    BY <2>2 DEF Followed
<1>3. ASSUME NEW z \in right PROVE z \in left
  <2>1. PICK x \in some, y \in others : z = (t \o x) \o y
    BY <1>3 DEF Followed, Prefixed
  <2>2. z = t \o (x \o y)
    BY <1>1, <2>1
  <2>3. x \o y \in Prefixed(x, others)
    BY DEF Prefixed
  <2>4. x \o y \in Followed(some, others)
    BY <2>3 DEF Followed
  <2> QED
    BY <2>2, <2>4 DEF Prefixed
<1> QED
  BY <1>2, <1>3

LEMMA FollowedTwice ==
    ASSUME NEW a \in SUBSET Text, NEW b \in SUBSET Text, NEW c \in SUBSET Text
    PROVE  Followed(Followed(a, b), c) = Followed(a, Followed(b, c))
<1> DEFINE left == Followed(Followed(a, b), c)
           right == Followed(a, Followed(b, c))
<1>1. \A x \in a : Prefixed(x, Followed(b, c)) = Followed(Prefixed(x, b), c)
  BY PrefixFollowed
<1>2. ASSUME NEW z \in left PROVE z \in right
  <2>1. PICK x \in a : \E u \in Prefixed(x, b) : z \in Prefixed(u, c)
    BY <1>2 DEF Followed
  <2>2. z \in Followed(Prefixed(x, b), c)
    BY <2>1 DEF Followed
  <2>3. z \in Prefixed(x, Followed(b, c))
    BY <1>1, <2>2
  <2> QED
    BY <2>3 DEF Followed
<1>3. ASSUME NEW z \in right PROVE z \in left
  <2>1. PICK x \in a : z \in Prefixed(x, Followed(b, c))
    BY <1>3 DEF Followed
  <2>2. z \in Followed(Prefixed(x, b), c)
    BY <1>1, <2>1
  <2>3. PICK u \in Prefixed(x, b) : z \in Prefixed(u, c)
    BY <2>2 DEF Followed
  <2>4. u \in Followed(a, b)
    BY <2>3 DEF Followed
  <2> QED
    BY <2>3, <2>4 DEF Followed
<1> QED
  BY <1>2, <1>3

\* Texts put in front of parts.
LEMMA LedParts ==
    ASSUME NEW t \in Text, NEW u \in Text, NEW parts \in SUBSET Part
    PROVE  /\ Led(t, parts) \in SUBSET Part
           /\ Led(t, {}) = {} /\ Led(<<>>, parts) = parts
           /\ Led(t, Led(u, parts)) = Led(t \o u, parts)
<1>1. \A p \in parts : p.text \in Text /\ p.rest \in Text
                       /\ p = PartOf(p.text, p.rest)
  BY DEF Part, PartOf
<1>2. \A x \in Text : <<>> \o x = x /\ t \o x \in Text
  BY Concatenations
<1>3. \A x \in Text : t \o (u \o x) = (t \o u) \o x
  BY Associates
<1>4. \A x, y : PartOf(x, y).text = x /\ PartOf(x, y).rest = y
  BY DEF PartOf
<1>5. \A x, y \in Text : PartOf(x, y) \in Part
  BY DEF Part, PartOf
<1> DEFINE inner == Led(u, parts)
           outer == Led(t \o u, parts)
<1>6. \A q : q \in inner <=> \E p \in parts : q = PartOf(u \o p.text, p.rest)
  BY DEF Led
<1>7. \A q : q \in outer <=> \E p \in parts : q = PartOf((t \o u) \o p.text, p.rest)
  BY DEF Led
<1>8. \A q : q \in Led(t, inner) <=> \E p \in inner : q = PartOf(t \o p.text, p.rest)
  BY DEF Led
<1>9. \A q : q \in Led(t, parts) <=> \E p \in parts : q = PartOf(t \o p.text, p.rest)
  BY DEF Led
<1>10. \A q : q \in Led(<<>>, parts) <=> \E p \in parts : q = PartOf(<<>> \o p.text, p.rest)
  BY DEF Led
<1>11. Led(t, {}) = {}
  BY DEF Led
<1> HIDE DEF inner, outer
<1>12. \A p \in parts : /\ PartOf(t \o p.text, p.rest) \in Part
                        /\ PartOf(<<>> \o p.text, p.rest) = p
                        /\ PartOf(t \o (u \o p.text), p.rest)
                             = PartOf((t \o u) \o p.text, p.rest)
  BY <1>1, <1>2, <1>3, <1>5
<1>13. Led(t, parts) \in SUBSET Part
  BY <1>9, <1>12
<1>14. Led(<<>>, parts) = parts
  <2>1. \A q \in Led(<<>>, parts) : q \in parts
    BY <1>10, <1>12
  <2>2. \A p \in parts : p \in Led(<<>>, parts)
    BY <1>10, <1>12
  <2> QED
    BY <2>1, <2>2
<1>15. ASSUME NEW q \in Led(t, inner) PROVE q \in outer
  BY <1>4, <1>6, <1>7, <1>8, <1>12
<1>16. ASSUME NEW q \in outer PROVE q \in Led(t, inner)
  <2>1. PICK p \in parts : q = PartOf((t \o u) \o p.text, p.rest)
    BY <1>7
  <2> DEFINE r == PartOf(u \o p.text, p.rest)
  <2>2. r \in inner
    BY <1>6
  <2>3. PartOf(t \o r.text, r.rest) = q
    BY <1>4, <1>12, <2>1
  <2> QED
    BY <1>8, <2>2, <2>3
<1>17. Led(t, inner) = outer
  BY <1>15, <1>16
<1> QED
  BY <1>11, <1>13, <1>14, <1>17 DEF inner, outer

LEMMA LedByNothing ==
    ASSUME NEW t \in Text, NEW r
    PROVE  Led(t, {PartOf(<<>>, r)}) = {PartOf(t, r)}
<1>1. t \o <<>> = t
  BY Concatenations
<1>2. PartOf(<<>>, r).text = <<>> /\ PartOf(<<>>, r).rest = r
  BY DEF PartOf
<1> QED
  BY <1>1, <1>2 DEF Led

-----------------------------------------------------------------------------
(***************************************************************************)
(* Meanings by the height of a source, and names by their place inside     *)
(* one another.                                                            *)
(***************************************************************************)

\* Meanings and names by the height of a source and of a name: the first
\* ones are the property's, and each one stands in the one before it.
Depth(k) == MaximumDepth + 1 - k

MeaningAt(bufs, k) == Meanings(bufs)[Depth(k)]
NamesAt(bufs, i)   == NamesNested(bufs)[MaximumDepth + 2 - i]

\* What a directive in the source at height k puts in its place.
IncludedAt(bufs, k, directive, lines) ==
    Included(Depth(k), Meanings(bufs)[Depth(k) - 1], directive, lines)

IncludedIn(bufs, k, directive, parts) ==
    UNION { Followed(IncludedAt(bufs, k, directive, bufs[p.text]),
                     MeaningAt(bufs, k)[p.rest]) : p \in Known(bufs, parts) }

NamesIn(bufs, i, text, parts) ==
    UNION { Led(text \o Joined(bufs[p.text]), NamesAt(bufs, i)[p.rest]) :
            p \in Known(bufs, parts) }

\* A backslash, a letter and the rest.
BackslashThen(text, d, r) == text = <<"\\">> \o (<<d>> \o r)

\* What it looks like then.
BackslashComesFirst(text, d, r) ==
    /\ text \in Text /\ text # <<>> /\ Len(text) # 1
    /\ text[1] = "\\" /\ text[2] = d
    /\ SubSeq(text, 1, 2) = <<"\\", d>> /\ Behind(text, 2) = r
    /\ Len(text) > 2 <=> r # <<>>
    /\ r # <<>> => text[3] = r[1] /\ Behind(text, 3) = Behind(r, 1)
    /\ text = <<"\\", d>> \o r

LEMMA BackslashLeads ==
    ASSUME NEW d \in Character, NEW r \in Text,
           NEW text, BackslashThen(text, d, r)
    PROVE  BackslashComesFirst(text, d, r)
<1> DEFINE u == <<d>> \o r
           t == text
           b == <<"\\", d>>
<1>1. "\\" \in Character
  BY FlowEngineAssumption DEF Syntax
<1>0. t = <<"\\">> \o u
  BY DEF BackslashThen
<1>2. /\ u \in Text /\ u # <<>> /\ Len(u) = Len(r) + 1 /\ Len(r) \in Nat
      /\ u[1] = d
      /\ r # <<>> => u[2] = r[1]
  BY Leads
<1>3. /\ t \in Text /\ t # <<>> /\ Len(t) = Len(u) + 1 /\ t[1] = "\\"
      /\ t[2] = u[1]
  <2> HIDE DEF u, t
  <2> QED
    BY <1>0, <1>1, <1>2, Leads
<1>4. t = b \o r
  <2>2. <<"\\">> \in Text /\ <<d>> \in Text
    BY <1>1, Leads
  <2>1. <<"\\">> \o <<d>> = b
    <3>1. /\ <<"\\">> \o <<d>> \in Seq(Character) /\ b \in Seq(Character)
          /\ Len(<<"\\">> \o <<d>>) = 2 /\ Len(b) = 2
      BY <1>1
    <3>2. (<<"\\">> \o <<d>>)[1] = b[1] /\ (<<"\\">> \o <<d>>)[2] = b[2]
      BY <1>1
    <3>3. \A i \in 1 .. 2 : i = 1 \/ i = 2
      OBVIOUS
    <3> QED
      BY <3>1, <3>2, <3>3, SeqEqual
  <2> QED
    BY <1>0, <2>1, <2>2, Associates
<1>5. b \in Text /\ Len(b) = 2
  BY <1>1, EmittedTexts
<1>6. Behind(t, 2) = r
  BY <1>4, <1>5, BehindPrefix
<1>7. SubSeq(t, 1, 2) = b
  <2>1. SubSeq(t, 1, 2) \in Text /\ Len(SubSeq(t, 1, 2)) = 2 /\ t = SubSeq(t, 1, 2) \o Behind(t, 2)
    <3>1. 2 \in 0 .. Len(t)
      BY <1>2, <1>3
    <3> HIDE DEF t
    <3> QED
      BY <1>3, <3>1, Cut
  <2> DEFINE a == SubSeq(t, 1, 2)
  <2>2. a \o r = b \o r
    BY <1>4, <1>6, <2>1
  <2> HIDE DEF a, b
  <2>3. a = b
    BY <1>5, <2>1, <2>2, ConcatSimplifications DEF Text, a
  <2> QED
    BY <2>3 DEF a
<1>8. Len(t) # 1 /\ (Len(t) > 2 <=> Len(r) # 0)
  <2> HIDE DEF t, u
  <2> QED
    BY <1>2, <1>3
<1>9. r # <<>> <=> Len(r) # 0
  BY EmptySeq DEF Text
<1>10. ASSUME r # <<>> PROVE t[3] = r[1] /\ Behind(t, 3) = Behind(r, 1)
  <2> DEFINE c == r[1]
             v == Behind(r, 1)
  <2>1. c \in Character /\ v \in Text /\ r = <<c>> \o v
    BY <1>10, FirstAndRest
  <2> HIDE DEF c, v
  <2>2. <<c>> \in Text /\ Len(<<c>>) = 1
    BY <2>1, Leads
  <2>3. t = (b \o <<c>>) \o v
    BY <1>4, <1>5, <2>1, <2>2, Associates
  <2>4. Len(b \o <<c>>) = 3 /\ b \o <<c>> \in Text
    <3> HIDE DEF b
    <3>1. Len(b \o <<c>>) = 2 + 1 /\ b \o <<c>> \in Text
      BY <1>5, <2>2, Lengths
    <3> QED
      BY <3>1
  <2>5. Behind(t, 3) = v
    <3> HIDE DEF b, t
    <3> QED
      BY <2>1, <2>3, <2>4, BehindPrefix
  <2>6. t[3] = u[2]
    <3>1. /\ <<"\\">> \in Seq(Character) /\ u \in Seq(Character)
          /\ Len(<<"\\">>) = 1
      BY <1>1, <1>2, Leads DEF Text
    <3>2. 3 \in 1 .. Len(<<"\\">>) + Len(u) /\ ~(3 <= Len(<<"\\">>)) /\ 3 - Len(<<"\\">>) = 2
      BY <1>2, <1>9, <1>10, <3>1
    <3> HIDE DEF u, t
    <3> QED
      BY <1>0, <3>1, <3>2, ConcatProperties
  <2> QED
    BY <1>2, <1>10, <2>5, <2>6 DEF v
<1> QED
  BY <1>2, <1>3, <1>4, <1>6, <1>7, <1>8, <1>9, <1>10 DEF BackslashComesFirst

Heights == 1 .. MaximumDepth

LEMMA MeaningAtHeight ==
    ASSUME NEW bufs, BuffersOK(bufs), NEW k \in Heights
    PROVE  /\ Depth(k) \in Nat \ {0}
           /\ MeaningAt(bufs, k) \in Meaners
           /\ Meanings(bufs)[Depth(k) - 1] \in Meaners
           /\ \A text \in Text :
                MeaningAt(bufs, k)[text]
                  = MeaningStep(bufs, Depth(k),
                                Meanings(bufs)[Depth(k) - 1],
                                MeaningAt(bufs, k), text)
<1> DEFINE n == Depth(k)
<1>1. /\ n \in 1 .. MaximumDepth /\ n \in 0 .. MaximumDepth
      /\ n - 1 \in 0 .. MaximumDepth /\ n \in Nat \ {0}
  BY FlowEngineAssumption DEF Heights, Depth
<1> HIDE DEF n
<1>2. /\ Meanings(bufs)[n] \in Meaners /\ Meanings(bufs)[n - 1] \in Meaners
      /\ Meanings(bufs)[n] = MeaningOver(bufs, n, Meanings(bufs)[n - 1])
  BY <1>1, MeaningsByDepth
<1>3. \A text \in Text :
        Meanings(bufs)[n][text]
          = MeaningStep(bufs, n, Meanings(bufs)[n - 1], Meanings(bufs)[n], text)
  BY <1>1, <1>2, MeaningRecursion
<1> QED
  BY <1>1, <1>2, <1>3 DEF n, MeaningAt

LEMMA MeaningOfOnePart ==
    ASSUME NEW meaning, NEW t, NEW r
    PROVE  UNION { Prefixed(p.text, meaning[p.rest]) : p \in {PartOf(t, r)} }
             = Prefixed(t, meaning[r])
BY DEF PartOf

\* What the first character of a text comes to.
LEMMA MeaningOfText ==
    ASSUME NEW bufs, BuffersOK(bufs), NEW k \in Heights, NEW r \in Text
    PROVE  /\ MeaningAt(bufs, k)[r] \in SUBSET Text
           /\ MeaningAt(bufs, k)[<<>>] = {<<>>}
           /\ \A c \in Character \ {"\\"} :
                MeaningAt(bufs, k)[<<c>> \o r] = Prefixed(<<c>>, MeaningAt(bufs, k)[r])
           /\ MeaningAt(bufs, k)[<<"\\">>] = {<<"\\">>}
<1> DEFINE M == MeaningAt(bufs, k)
           n == Depth(k)
           inner == Meanings(bufs)[n - 1]
<1>1. /\ M \in Meaners
      /\ \A text \in Text : M[text] = MeaningStep(bufs, n, inner, M, text)
  BY MeaningAtHeight
<1> HIDE DEF M, n, inner
<1>2. M[<<>>] = {<<>>}
  BY <1>1, Concatenations DEF MeaningStep
<1>3. M[r] \in SUBSET Text
  BY <1>1 DEF Meaners
<1>4. ASSUME NEW c \in Character, NEW u \in Text, c # "\\" \/ u = <<>>
      PROVE  M[<<c>> \o u] = Prefixed(<<c>>, M[u])
  <2> DEFINE t == <<c>> \o u
  <2>1. /\ t \in Text /\ t # <<>> /\ t[1] = c /\ Len(t) = Len(u) + 1
        /\ SubSeq(t, 1, 1) = <<c>> /\ Behind(t, 1) = u
    BY Leads
  <2>2. c # "\\" \/ Len(t) = 1
    BY <1>4, <2>1, EmptySeq
  <2> HIDE DEF t
  <2>3. TextParts(bufs, n, inner, t) = {PartOf(<<c>>, u)}
    BY <2>1, <2>2 DEF TextParts, Plain
  <2>4. M[t] = UNION { Prefixed(p.text, M[p.rest]) : p \in {PartOf(<<c>>, u)} }
    BY <1>1, <2>1, <2>3 DEF MeaningStep
  <2> QED
    BY <2>4, MeaningOfOnePart DEF t
<1>5. M[<<"\\">>] = {<<"\\">>}
  <2>1. "\\" \in Character /\ <<>> \in Text /\ <<"\\">> \in Text
        /\ <<"\\">> \o <<>> = <<"\\">>
    BY EmittedTexts, Concatenations
  <2>2. M[<<"\\">> \o <<>>] = Prefixed(<<"\\">>, M[<<>>])
    BY <1>4, <2>1
  <2>3. Prefixed(<<"\\">>, {<<>>}) = {<<"\\">>}
    BY <2>1, PrefixesAreTexts
  <2> QED
    BY <1>2, <2>1, <2>2, <2>3
<1> QED
  BY <1>2, <1>3, <1>4, <1>5 DEF M

\* What a backslash and a letter come to.
LEMMA MeaningOfLetter ==
    ASSUME NEW bufs, BuffersOK(bufs), NEW k \in Heights, NEW r \in Text,
           NEW d \in Character, NEW t, BackslashThen(t, d, r)
    PROVE  LET M == MeaningAt(bufs, k)
           IN /\ d \notin {"\\", "C", "O", "B", "S", "L"} =>
                   M[t] = Prefixed(<<"\\", d>>, M[r])
              /\ d = "\\" => M[t] = Prefixed(<<"\\">>, M[r])
              /\ d \in {"C", "O"} =>
                   M[t] = IF r = <<>> THEN {} ELSE Prefixed(<<r[1]>>, M[Behind(r, 1)])
              /\ d \in {"B", "S", "L"} =>
                   M[t] = IncludedIn(bufs, k, d, Opened(NamesAt(bufs, 1), r))
<1> DEFINE M == MeaningAt(bufs, k)
           n == Depth(k)
           inner == Meanings(bufs)[n - 1]
           parts == TextParts(bufs, n, inner, t)
<1>1. \A text \in Text : M[text] = MeaningStep(bufs, n, inner, M, text)
  BY MeaningAtHeight
<1> HIDE DEF M, n, inner, parts
<1>2. /\ t \in Text /\ t # <<>> /\ Len(t) # 1 /\ t[1] = "\\" /\ t[2] = d
      /\ SubSeq(t, 1, 2) = <<"\\", d>> /\ Behind(t, 2) = r
      /\ Len(t) > 2 <=> r # <<>>
      /\ r # <<>> => t[3] = r[1] /\ Behind(t, 3) = Behind(r, 1)
  <2>1. BackslashComesFirst(t, d, r)
    BY BackslashLeads
  <2> QED
    BY <2>1 DEF BackslashComesFirst
<1>3. M[t] = UNION { Prefixed(p.text, M[p.rest]) : p \in parts }
  BY <1>1, <1>2 DEF MeaningStep, parts
<1>4. CASE d \notin {"\\", "C", "O", "B", "S", "L"}
  <2>1. parts = {PartOf(<<"\\", d>>, r)}
    BY <1>2, <1>4 DEF TextParts, Plain, parts
  <2>2. M[t] = Prefixed(<<"\\", d>>, M[r])
    BY <1>3, <2>1, MeaningOfOnePart
  <2> QED
    BY <1>4, <2>2 DEF M
<1>5. CASE d = "\\"
  <2>1. parts = {PartOf(<<"\\">>, r)}
    BY <1>2, <1>5 DEF TextParts, parts
  <2>2. M[t] = Prefixed(<<"\\">>, M[r])
    BY <1>3, <2>1, MeaningOfOnePart
  <2> QED
    BY <1>5, <2>2 DEF M
<1>6. CASE d \in {"C", "O"}
  <2>1. parts = Protected(t)
    BY <1>2, <1>6 DEF TextParts, parts
  <2>2. CASE r = <<>>
    <3>1. M[t] = {}
      BY <1>2, <1>3, <2>1, <2>2 DEF Protected
    <3> QED
      BY <1>6, <2>2, <3>1 DEF M
  <2>3. CASE r # <<>>
    <3>1. parts = {PartOf(<<r[1]>>, Behind(r, 1))}
      BY <1>2, <2>1, <2>3 DEF Protected
    <3>2. M[t] = Prefixed(<<r[1]>>, M[Behind(r, 1)])
      BY <1>3, <3>1, MeaningOfOnePart
    <3> QED
      BY <1>6, <2>3, <3>2 DEF M
  <2> QED
    BY <2>2, <2>3
<1>7. CASE d \in {"B", "S", "L"}
  <2> DEFINE names == Named(bufs, NamesNested(bufs)[MaximumDepth + 1], r)
             known == Known(bufs, Opened(NamesAt(bufs, 1), r))
             in(p) == Included(n, inner, d, bufs[p.text])
  <2>1. names = known
    <3>1. MaximumDepth + 2 - 1 = MaximumDepth + 1
      BY FlowEngineAssumption
    <3> QED
      BY <3>1 DEF Named, NamesAt
  <2>2. parts = UNION { { PartOf(x, p.rest) : x \in in(p) } : p \in names }
    <3>1. parts = Inclusions(bufs, n, inner, t)
      BY <1>2, <1>7 DEF TextParts, parts
    <3>2. Inclusions(bufs, n, inner, t) =
            UNION { { PartOf(x, p.rest) : x \in Included(n, inner, t[2], bufs[p.text]) } :
                    p \in Named(bufs, NamesNested(bufs)[MaximumDepth + 1], Behind(t, 2)) }
      BY DEF Inclusions
    <3>3. t[2] = d /\ Behind(t, 2) = r
      BY <1>2
    <3> QED
      BY <3>1, <3>2, <3>3 DEF names, in
  <2>3. \A x, y : PartOf(x, y).text = x /\ PartOf(x, y).rest = y
    BY DEF PartOf
  <2>4. IncludedIn(bufs, k, d, Opened(NamesAt(bufs, 1), r))
          = UNION { Followed(in(p), M[p.rest]) : p \in known }
    BY DEF IncludedIn, IncludedAt, M, n, inner
  <2> HIDE DEF names, known, in
  <2> DEFINE right == UNION { Followed(in(p), M[p.rest]) : p \in known }
  <2>5. \A q : q \in parts <=> \E p \in known : \E x \in in(p) : q = PartOf(x, p.rest)
    BY <2>1, <2>2
  <2>6. \A z : z \in M[t] <=> \E q \in parts : z \in Prefixed(q.text, M[q.rest])
    BY <1>3
  <2>7. \A z : z \in right <=> \E p \in known : \E x \in in(p) : z \in Prefixed(x, M[p.rest])
    BY DEF Followed
  <2> HIDE DEF right
  <2>8. ASSUME NEW z \in M[t] PROVE z \in right
    <3>1. PICK q \in parts : z \in Prefixed(q.text, M[q.rest])
      BY <2>6
    <3>2. PICK p \in known : \E x \in in(p) : q = PartOf(x, p.rest)
      BY <2>5
    <3>3. PICK x \in in(p) : q = PartOf(x, p.rest)
      BY <3>2
    <3>4. z \in Prefixed(x, M[p.rest])
      BY <2>3, <3>1, <3>3
    <3> QED
      BY <2>7, <3>4
  <2>9. ASSUME NEW z \in right PROVE z \in M[t]
    <3>1. PICK p \in known : \E x \in in(p) : z \in Prefixed(x, M[p.rest])
      BY <2>7
    <3>2. PICK x \in in(p) : z \in Prefixed(x, M[p.rest])
      BY <3>1
    <3> DEFINE q == PartOf(x, p.rest)
    <3>3. q \in parts
      BY <2>5
    <3>4. q.text = x /\ q.rest = p.rest
      BY <2>3
    <3> QED
      BY <2>6, <3>2, <3>3, <3>4
  <2>10. M[t] = right
    BY <2>8, <2>9
  <2>11. M[t] = IncludedIn(bufs, k, d, Opened(NamesAt(bufs, 1), r))
    BY <2>4, <2>10 DEF right
  <2> QED
    BY <1>7, <2>11 DEF M
<1> QED
  BY <1>4, <1>5, <1>6, <1>7

Places == 1 .. MaximumDepth + 1

LEMMA NamesAtPlace ==
    ASSUME NEW bufs, BuffersOK(bufs), NEW i \in Places
    PROVE  /\ NamesAt(bufs, i) \in Readers
           /\ NamesAt(bufs, i + 1) \in Readers
           /\ \A text \in Text :
                NamesAt(bufs, i)[text]
                  = NameStep(bufs, NamesAt(bufs, i + 1), NamesAt(bufs, i), text)
<1> DEFINE n == MaximumDepth + 2 - i
<1>1. /\ n \in 1 .. MaximumDepth + 1 /\ n \in Levels /\ n - 1 \in Levels
      /\ MaximumDepth + 2 - (i + 1) = n - 1
  BY FlowEngineAssumption DEF Places, Levels
<1>2. NamesAt(bufs, i) = NamesNested(bufs)[n] /\ NamesAt(bufs, i + 1) = NamesNested(bufs)[n - 1]
  BY <1>1 DEF NamesAt
<1> HIDE DEF n
<1>3. /\ NamesNested(bufs)[n] \in Readers /\ NamesNested(bufs)[n - 1] \in Readers
      /\ NamesNested(bufs)[n] = NamesOver(bufs, NamesNested(bufs)[n - 1])
  BY <1>1, NamesByLevel
<1> QED
  BY <1>2, <1>3, NamesRecursion

LEMMA NoNamesAreLeft ==
    ASSUME NEW bufs, BuffersOK(bufs), NEW text \in Text
    PROVE  NamesAt(bufs, MaximumDepth + 2)[text] = {}
<1>1. MaximumDepth + 2 - (MaximumDepth + 2) = 0
  BY FlowEngineAssumption
<1>2. NamesAt(bufs, MaximumDepth + 2) = Nothing
  BY <1>1, NamesByLevel DEF NamesAt
<1> QED
  BY <1>2 DEF Nothing

LEMMA NameOfOnePart ==
    ASSUME NEW names, NEW t, NEW r
    PROVE  UNION { Led(p.text, names[p.rest]) : p \in {PartOf(t, r)} }
             = Led(t, names[r])
BY DEF PartOf

\* What the first character of a name comes to.
LEMMA NamesOfText ==
    ASSUME NEW bufs, BuffersOK(bufs), NEW i \in Places, NEW r \in Text
    PROVE  /\ NamesAt(bufs, i)[r] \in SUBSET Part
           /\ NamesAt(bufs, i)[<<>>] = {}
           /\ NamesAt(bufs, i)[<<"\\">>] = {}
           /\ NamesAt(bufs, i)[<<")">> \o r] = {PartOf(<<>>, r)}
           /\ NamesAt(bufs, i)[<<"nl">> \o r] = {}
           /\ \A c \in Character \ {")", "nl", "\\"} :
                NamesAt(bufs, i)[<<c>> \o r] = Led(<<c>>, NamesAt(bufs, i)[r])
<1> DEFINE N == NamesAt(bufs, i)
           inner == NamesAt(bufs, i + 1)
<1>1. /\ N \in Readers
      /\ \A text \in Text : N[text] = NameStep(bufs, inner, N, text)
  BY NamesAtPlace
<1>2. {")", "nl", "\\"} \subseteq Character /\ <<>> \in Text /\ <<"\\">> \in Text
      /\ <<"\\">> \o <<>> = <<"\\">>
  BY FlowEngineAssumption, EmittedTexts, Concatenations DEF Syntax
<1> HIDE DEF N, inner
<1>3. N[<<>>] = {}
  BY <1>1, <1>2 DEF NameStep
<1>4. N[r] \in SUBSET Part
  BY <1>1 DEF Readers
<1>5. ASSUME NEW c \in Character, NEW u \in Text
      PROVE  /\ c = ")" => N[<<c>> \o u] = {PartOf(<<>>, u)}
             /\ c = "nl" => N[<<c>> \o u] = {}
             /\ c \notin {")", "nl", "\\"} => N[<<c>> \o u] = Led(<<c>>, N[u])
             /\ c = "\\" /\ u = <<>> => N[<<c>> \o u] = {}
  <2> DEFINE t == <<c>> \o u
             parts == NameParts(bufs, inner, t)
  <2>1. /\ t \in Text /\ t # <<>> /\ t[1] = c /\ Len(t) = Len(u) + 1
        /\ SubSeq(t, 1, 1) = <<c>> /\ Behind(t, 1) = u
    BY Leads
  <2>2. u = <<>> => Len(t) = 1
    BY <2>1, EmptySeq
  <2> HIDE DEF t, parts
  <2>3. c = ")" => N[t] = {PartOf(<<>>, u)}
    BY <1>1, <2>1 DEF NameStep
  <2>4. c # ")" => N[t] = UNION { Led(p.text, N[p.rest]) : p \in parts }
    BY <1>1, <2>1 DEF NameStep, parts
  <2>5. c = "nl" => parts = {}
    BY <2>1 DEF NameParts, parts
  <2>6. c \notin {")", "nl", "\\"} => parts = {PartOf(<<c>>, u)}
    BY <2>1 DEF NameParts, Plain, parts
  <2>7. c = "\\" /\ u = <<>> => parts = {}
    BY <2>1, <2>2 DEF NameParts, parts
  <2>8. c \notin {")", "nl", "\\"} => N[t] = Led(<<c>>, N[u])
    BY <2>4, <2>6, NameOfOnePart
  <2>9. c = "nl" => N[t] = {}
    BY <2>4, <2>5
  <2>10. c = "\\" /\ u = <<>> => N[t] = {}
    BY <2>4, <2>7
  <2> QED
    BY <2>3, <2>8, <2>9, <2>10 DEF t
<1>6. N[<<"\\">>] = {}
  BY <1>2, <1>5
<1>7. N[<<")">> \o r] = {PartOf(<<>>, r)} /\ N[<<"nl">> \o r] = {}
  BY <1>2, <1>5
<1> QED
  BY <1>3, <1>4, <1>5, <1>6, <1>7 DEF N

\* What a backslash and a letter in a name come to.
LEMMA NamesOfLetter ==
    ASSUME NEW bufs, BuffersOK(bufs), NEW i \in Places, NEW r \in Text,
           NEW d \in Character, NEW t, BackslashThen(t, d, r)
    PROVE  LET N == NamesAt(bufs, i)
           IN /\ d \notin {"C", "S"} => N[t] = Led(<<"\\", d>>, N[r])
              /\ d = "C" =>
                   N[t] = IF r = <<>> THEN {} ELSE Led(<<r[1]>>, N[Behind(r, 1)])
              /\ d = "S" =>
                   N[t] = UNION { Led(Joined(bufs[p.text]), N[p.rest]) :
                                  p \in Known(bufs, Opened(NamesAt(bufs, i + 1), r)) }
<1> DEFINE N == NamesAt(bufs, i)
           inner == NamesAt(bufs, i + 1)
           parts == NameParts(bufs, inner, t)
<1>1. \A text \in Text : N[text] = NameStep(bufs, inner, N, text)
  BY NamesAtPlace
<1>2. /\ t \in Text /\ t # <<>> /\ Len(t) # 1 /\ t[1] = "\\" /\ t[2] = d
      /\ SubSeq(t, 1, 2) = <<"\\", d>> /\ Behind(t, 2) = r
      /\ Len(t) > 2 <=> r # <<>>
      /\ r # <<>> => t[3] = r[1] /\ Behind(t, 3) = Behind(r, 1)
  <2>1. BackslashComesFirst(t, d, r)
    BY BackslashLeads
  <2> QED
    BY <2>1 DEF BackslashComesFirst
<1> HIDE DEF N, inner, parts
<1>3. N[t] = UNION { Led(p.text, N[p.rest]) : p \in parts }
  BY <1>1, <1>2 DEF NameStep, parts
<1>4. CASE d \notin {"C", "S"}
  <2>1. parts = {PartOf(<<"\\", d>>, r)}
    BY <1>2, <1>4 DEF NameParts, Plain, parts
  <2>2. N[t] = Led(<<"\\", d>>, N[r])
    BY <1>3, <2>1, NameOfOnePart
  <2> QED
    BY <1>4, <2>2 DEF N
<1>5. CASE d = "C"
  <2>1. parts = Protected(t)
    BY <1>2, <1>5 DEF NameParts, parts
  <2>2. CASE r = <<>>
    <3>1. N[t] = {}
      BY <1>2, <1>3, <2>1, <2>2 DEF Protected
    <3> QED
      BY <1>5, <2>2, <3>1 DEF N
  <2>3. CASE r # <<>>
    <3>1. parts = {PartOf(<<r[1]>>, Behind(r, 1))}
      BY <1>2, <2>1, <2>3 DEF Protected
    <3>2. N[t] = Led(<<r[1]>>, N[Behind(r, 1)])
      BY <1>3, <3>1, NameOfOnePart
    <3> QED
      BY <1>5, <2>3, <3>2 DEF N
  <2> QED
    BY <2>2, <2>3
<1>6. CASE d = "S"
  <2> DEFINE known == Known(bufs, Opened(inner, r))
             lines(p) == Joined(bufs[p.text])
  <2>1. parts = { PartOf(lines(p), p.rest) : p \in known }
    <3>1. parts = { PartOf(lines(p), p.rest) : p \in Named(bufs, inner, Behind(t, 2)) }
      BY <1>2, <1>6 DEF NameParts, parts
    <3> QED
      BY <1>2, <3>1 DEF Named
  <2>2. \A x, y : PartOf(x, y).text = x /\ PartOf(x, y).rest = y
    BY DEF PartOf
  <2> HIDE DEF known, lines
  <2> DEFINE right == UNION { Led(lines(p), N[p.rest]) : p \in known }
  <2>3. \A z : z \in N[t] <=> \E q \in parts : z \in Led(q.text, N[q.rest])
    BY <1>3
  <2>4. \A z : z \in right <=> \E p \in known : z \in Led(lines(p), N[p.rest])
    OBVIOUS
  <2>5. \A q : q \in parts <=> \E p \in known : q = PartOf(lines(p), p.rest)
    BY <2>1
  <2> HIDE DEF right
  <2>6. ASSUME NEW z \in N[t] PROVE z \in right
    <3>1. PICK q \in parts : z \in Led(q.text, N[q.rest])
      BY <2>3
    <3>2. PICK p \in known : q = PartOf(lines(p), p.rest)
      BY <2>5
    <3>3. z \in Led(lines(p), N[p.rest])
      BY <2>2, <3>1, <3>2
    <3> QED
      BY <2>4, <3>3
  <2>7. ASSUME NEW z \in right PROVE z \in N[t]
    <3>1. PICK p \in known : z \in Led(lines(p), N[p.rest])
      BY <2>4
    <3> DEFINE q == PartOf(lines(p), p.rest)
    <3>2. q \in parts /\ q.text = lines(p) /\ q.rest = p.rest
      BY <2>2, <2>5
    <3> QED
      BY <2>3, <3>1, <3>2
  <2>8. N[t] = right
    BY <2>6, <2>7
  <2> QED
    BY <1>6, <2>8 DEF right, known, lines, N, inner
<1> QED
  BY <1>4, <1>5, <1>6

-----------------------------------------------------------------------------
(***************************************************************************)
(* The names in progress.                                                  *)
(***************************************************************************)

\* What the names in progress come to, from the one that stands innermost
\* to the first one, and what the directive then puts in its place: parts is
\* what the innermost one may still be.
NameMeaning(bufs, k, names, parts, texts) ==
    \E a \in [Nat -> SUBSET Part] :
        /\ a[Len(names)] = parts
        /\ \A i \in 1 .. Len(names) - 1 :
             a[i] = NamesIn(bufs, i, names[i].text, a[i + 1])
        /\ texts = IncludedIn(bufs, k, names[1].directive, a[1])

LEMMA NothingIsKnown ==
    ASSUME NEW bufs, NEW k, NEW i, NEW directive, NEW text
    PROVE  /\ NamesIn(bufs, i, text, {}) = {}
           /\ IncludedIn(bufs, k, directive, {}) = {}
BY DEF NamesIn, IncludedIn, Known

\* Where there is no name, there is nothing.
LEMMA NoNameNoMeaning ==
    ASSUME NEW bufs, NEW k, NEW names \in Seq(Name), names # <<>>, NEW texts,
           NameMeaning(bufs, k, names, {}, texts)
    PROVE  texts = {}
<1> DEFINE m == Len(names)
<1>1. m \in Nat \ {0} /\ m - 1 \in Nat
  BY EmptySeq
<1>2. PICK a \in [Nat -> SUBSET Part] :
        /\ a[m] = {}
        /\ \A i \in 1 .. m - 1 : a[i] = NamesIn(bufs, i, names[i].text, a[i + 1])
        /\ texts = IncludedIn(bufs, k, names[1].directive, a[1])
  BY DEF NameMeaning
<1> HIDE DEF m
<1> DEFINE S == { j \in 0 .. m - 1 : a[m - j] = {} }
<1>3. 0 \in S
  BY <1>1, <1>2
<1>4. ASSUME NEW j \in 1 .. m - 1, j - 1 \in S PROVE j \in S
  <2>1. m - j \in 1 .. m - 1 /\ (m - j) + 1 = m - (j - 1) /\ j \in 0 .. m - 1
    BY <1>1
  <2>2. a[(m - j) + 1] = {}
    BY <1>4, <2>1
  <2>3. a[m - j] = {}
    BY <1>2, <2>1, <2>2, NothingIsKnown
  <2> QED
    BY <2>1, <2>3
<1>5. \A j \in 0 .. m - 1 : j \in S
  <2> HIDE DEF S
  <2> QED
    BY <1>1, <1>3, <1>4, BoundedInduction
<1>6. m - 1 \in 0 .. m - 1 /\ m - (m - 1) = 1
  BY <1>1
<1>7. a[1] = {}
  BY <1>5, <1>6
<1> QED
  BY <1>2, <1>7, NothingIsKnown

\* A name that goes on stands in the same names.
LEMMA ExtendedNames ==
    ASSUME NEW names \in Seq(Name), names # <<>>, NEW text \in Text
    PROVE  LET longer == Extended(names, text)
               m == Len(names)
           IN /\ longer \in Seq(Name) /\ longer # <<>> /\ Len(longer) = m
              /\ m \in Nat \ {0}
              /\ \A i \in 1 .. m : longer[i].directive = names[i].directive
              /\ \A i \in 1 .. m - 1 : longer[i].text = names[i].text
              /\ longer[m].text = names[m].text \o text
<1> DEFINE m == Len(names)
           last == names[m]
           new == [last EXCEPT !.text = @ \o text]
<1>1. m \in Nat \ {0} /\ last \in Name
  BY LenProperties, EmptySeq, ElementOfSeq
<1> HIDE DEF last
<1>2. new = [last EXCEPT !.text = last.text \o text]
  OBVIOUS
<1>3. new.directive = last.directive /\ new.text = last.text \o text /\ new \in Name
  BY <1>1, <1>2, EmittedTexts DEF Name
<1>4. Extended(names, text) = [names EXCEPT ![m] = new]
  BY DEF Extended, last
<1> HIDE DEF new, m
<1>5. m \in 1 .. Len(names) /\ Len(names) = m
  BY <1>1 DEF m
<1>6. /\ Extended(names, text) \in Seq(Name) /\ Len(Extended(names, text)) = m
      /\ \A i \in 1 .. m : Extended(names, text)[i] = IF i = m THEN new ELSE names[i]
  BY <1>3, <1>4, <1>5, ExceptSeq
<1>7. \A i \in 1 .. m - 1 : i \in 1 .. m /\ i # m
  BY <1>1
<1>8. Extended(names, text) # <<>>
  BY <1>1, <1>6, EmptySeq
<1> QED
  BY <1>1, <1>3, <1>5, <1>6, <1>7, <1>8 DEF last, m

LEMMA NameMeaningGoesOn ==
    ASSUME NEW bufs, NEW k, NEW names \in Seq(Name), names # <<>>,
           NEW text \in Text, NEW parts, NEW texts,
           NameMeaning(bufs, k, names, parts, texts)
    PROVE  NameMeaning(bufs, k, Extended(names, text), parts, texts)
<1> DEFINE m == Len(names)
           longer == Extended(names, text)
<1>1. PICK a \in [Nat -> SUBSET Part] :
        /\ a[m] = parts
        /\ \A i \in 1 .. m - 1 : a[i] = NamesIn(bufs, i, names[i].text, a[i + 1])
        /\ texts = IncludedIn(bufs, k, names[1].directive, a[1])
  BY DEF NameMeaning
<1>2. /\ Len(longer) = m /\ m \in Nat \ {0}
      /\ \A i \in 1 .. m : longer[i].directive = names[i].directive
      /\ \A i \in 1 .. m - 1 : longer[i].text = names[i].text
  BY ExtendedNames
<1> HIDE DEF m, longer
<1>3. longer[1].directive = names[1].directive
  BY <1>2
<1>4. NameMeaning(bufs, k, longer, parts, texts)
  BY <1>1, <1>2, <1>3 DEF NameMeaning
<1> QED
  BY <1>4 DEF longer

\* A name begins inside the innermost one.
LEMMA NameMeaningNests ==
    ASSUME NEW bufs, NEW k, NEW names \in Seq(Name), names # <<>>,
           NEW name \in Name, NEW parts \in SUBSET Part, NEW texts,
           NameMeaning(bufs, k, names,
                       NamesIn(bufs, Len(names), names[Len(names)].text, parts), texts)
    PROVE  NameMeaning(bufs, k, Append(names, name), parts, texts)
<1> DEFINE m == Len(names)
           more == Append(names, name)
<1>1. PICK a \in [Nat -> SUBSET Part] :
        /\ a[m] = NamesIn(bufs, m, names[m].text, parts)
        /\ \A i \in 1 .. m - 1 : a[i] = NamesIn(bufs, i, names[i].text, a[i + 1])
        /\ texts = IncludedIn(bufs, k, names[1].directive, a[1])
  BY DEF NameMeaning
<1>2. m \in Nat \ {0} /\ m + 1 - 1 = m
  BY EmptySeq
<1>3. Len(more) = m + 1 /\ \A i \in 1 .. m : more[i] = names[i]
  BY AppendProperties
<1> HIDE DEF m, more
<1> DEFINE b == [a EXCEPT ![m + 1] = parts]
<1>4. /\ b \in [Nat -> SUBSET Part] /\ b[m + 1] = parts
      /\ \A i \in 1 .. m : b[i] = a[i]
  BY <1>2
<1> HIDE DEF b
<1>5. ASSUME NEW i \in 1 .. m
      PROVE  b[i] = NamesIn(bufs, i, more[i].text, b[i + 1])
  <2>1. CASE i = m
    BY <1>1, <1>2, <1>3, <1>4, <2>1
  <2>2. CASE i # m
    <3>1. i \in 1 .. m - 1 /\ i + 1 \in 1 .. m
      BY <1>2, <2>2
    <3> QED
      BY <1>1, <1>3, <1>4, <3>1
  <2> QED
    BY <2>1, <2>2
<1>6. texts = IncludedIn(bufs, k, more[1].directive, b[1])
  <2>1. 1 \in 1 .. m
    BY <1>2
  <2> QED
    BY <1>1, <1>3, <1>4, <2>1
<1>7. NameMeaning(bufs, k, more, parts, texts)
  <2>1. Len(more) - 1 = m /\ b[Len(more)] = parts
    BY <1>2, <1>3, <1>4
  <2>2. \A i \in 1 .. Len(more) - 1 :
          b[i] = NamesIn(bufs, i, more[i].text, b[i + 1])
    BY <1>5, <2>1
  <2> QED
    BY <1>4, <1>6, <2>1, <2>2 DEF NameMeaning
<1> QED
  BY <1>7 DEF more

\* The innermost name is closed.
LEMMA NameMeaningCloses ==
    ASSUME NEW bufs, NEW k, NEW names \in Seq(Name), Len(names) > 1,
           NEW parts, NEW texts, NameMeaning(bufs, k, names, parts, texts)
    PROVE  LET m == Len(names) - 1
               outer == SubSeq(names, 1, m)
           IN /\ outer \in Seq(Name) /\ outer # <<>> /\ Len(outer) = m
              /\ outer[m] = names[m] /\ m \in Nat \ {0} /\ names[m] \in Name
              /\ NameMeaning(bufs, k, outer,
                             NamesIn(bufs, m, names[m].text, parts), texts)
<1> DEFINE n == Len(names)
           m == n - 1
           outer == SubSeq(names, 1, m)
<1>1. n \in Nat /\ m \in Nat \ {0} /\ m + 1 = n
  <2>1. n \in Nat /\ n > 1
    BY LenProperties
  <2> HIDE DEF n
  <2> QED
    BY <2>1
<1>2. PICK a \in [Nat -> SUBSET Part] :
        /\ a[n] = parts
        /\ \A i \in 1 .. m : a[i] = NamesIn(bufs, i, names[i].text, a[i + 1])
        /\ texts = IncludedIn(bufs, k, names[1].directive, a[1])
  BY DEF NameMeaning
<1>3. \A i \in 1 .. m : names[i] \in Name
  BY <1>1, ElementOfSeq
<1> HIDE DEF n
<1>4. /\ outer \in Seq(Name) /\ Len(outer) = m
      /\ \A i \in 1 .. m : outer[i] = names[i]
  <2> HIDE DEF m
  <2>1. /\ outer \in Seq(Name)
        /\ Len(outer) = IF 1 <= m THEN m - 1 + 1 ELSE 0
        /\ \A i \in 1 .. m - 1 + 1 : outer[i] = names[1 + i - 1]
    BY <1>1, <1>3, SubSeqProperties
  <2>2. 1 <= m /\ m - 1 + 1 = m /\ \A i \in 1 .. m : 1 + i - 1 = i
    BY <1>1
  <2> HIDE DEF outer
  <2> QED
    BY <2>1, <2>2
<1> HIDE DEF m, outer
<1>5. outer # <<>> /\ m \in 1 .. m /\ 1 \in 1 .. m
  BY <1>1, <1>4, EmptySeq
<1>6. \A i \in 1 .. m - 1 : i \in 1 .. m
  BY <1>1
<1>7. NameMeaning(bufs, k, outer, NamesIn(bufs, m, names[m].text, parts), texts)
  <2>1. a[m] = NamesIn(bufs, m, names[m].text, parts)
    BY <1>1, <1>2, <1>5
  <2> QED
    BY <1>2, <1>4, <1>5, <1>6, <2>1 DEF NameMeaning
<1> QED
  BY <1>1, <1>3, <1>4, <1>5, <1>7 DEF m, n, outer

\* There is one name.
LEMMA MeaningOfOneName ==
    ASSUME NEW bufs, NEW k, NEW names \in Seq(Name), Len(names) = 1,
           NEW parts \in SUBSET Part
    PROVE  /\ NameMeaning(bufs, k, names, parts,
                          IncludedIn(bufs, k, names[1].directive, parts))
           /\ \A texts : NameMeaning(bufs, k, names, parts, texts) =>
                texts = IncludedIn(bufs, k, names[1].directive, parts)
<1>1. \A i \in 1 .. Len(names) - 1 : FALSE
  OBVIOUS
<1> DEFINE a == [i \in Nat |-> parts]
<1>2. a \in [Nat -> SUBSET Part] /\ a[1] = parts
  OBVIOUS
<1> HIDE DEF a
<1>3. NameMeaning(bufs, k, names, parts,
                  IncludedIn(bufs, k, names[1].directive, parts))
  BY <1>1, <1>2 DEF NameMeaning
<1>4. ASSUME NEW texts, NameMeaning(bufs, k, names, parts, texts)
      PROVE  texts = IncludedIn(bufs, k, names[1].directive, parts)
  BY <1>4 DEF NameMeaning
<1> QED
  BY <1>3, <1>4

-----------------------------------------------------------------------------
(***************************************************************************)
(* The invariant.  Whatever the expansion began with, its meaning is the   *)
(* output, then what the directive being read and the rest of the source   *)
(* on top still mean, then the rest of each source below.  A directive     *)
(* whose source is gone has no meaning left, and neither has the           *)
(* expansion.                                                              *)
(***************************************************************************)

\* What is left of a source means, for the one at height k.
SourceMeaning(bufs, s, k) ==
    IF s.literal THEN {Rest(s)} ELSE MeaningAt(bufs, k)[Rest(s)]

\* The next character is protected.
ProtectedMeaning(bufs, k, r) ==
    IF r = <<>> THEN {} ELSE Prefixed(<<r[1]>>, MeaningAt(bufs, k)[Behind(r, 1)])

\* What a name in progress may still be, by what is left of its source.
NameRest(bufs, mode, i, text, r) ==
    CASE mode = "open"        -> Led(text, Opened(NamesAt(bufs, i), r))
      [] mode = "name"        -> Led(text, NamesAt(bufs, i)[r])
      [] mode = "name_escape" -> Led(text, NamesAt(bufs, i)[<<"\\">> \o r])
      [] mode = "name_protect" ->
           IF r = <<>> THEN {}
           ELSE Led(text \o <<r[1]>>, NamesAt(bufs, i)[Behind(r, 1)])

\* What the source on top still means, with the directive being read.
PendingMeaning(bufs, k, s, p, texts) ==
    /\ p.mode = "text" => texts = SourceMeaning(bufs, s, k)
    /\ p.mode = "escape" => texts = MeaningAt(bufs, k)[<<"\\">> \o Rest(s)]
    /\ p.mode = "protect" => texts = ProtectedMeaning(bufs, k, Rest(s))
    /\ p.mode \in NamingModes =>
         NameMeaning(bufs, k, p.names,
                     NameRest(bufs, p.mode, Len(p.names),
                              p.names[Len(p.names)].text, Rest(s)),
                     texts)

\* w[k] is what the lowest k sources still mean.
Below(bufs, st, w) ==
    /\ w \in [Nat -> SUBSET Text]
    /\ w[0] = {<<>>}
    /\ \A k \in 1 .. Len(st) - 1 :
         w[k] = Followed(SourceMeaning(bufs, st[k], k), w[k - 1])

\* The sources, from the one on top down, amount to all.
Stands(bufs, st, p, out, all) ==
    \E w, texts :
        /\ Below(bufs, st, w) /\ texts \in SUBSET Text
        /\ PendingMeaning(bufs, Len(st), st[Len(st)], p, texts)
        /\ all = Prefixed(out, Followed(texts, w[Len(st) - 1]))

\* A directive is read where it began, or is none.
InItsSource(st, p) == p.mode = "text" \/ st[Len(st)].level = p.level

\* The output, the directive and the sources amount to all.
Amounts(bufs, st, p, out, all) ==
    /\ st # <<>> /\ InItsSource(st, p) => Stands(bufs, st, p, out, all)
    /\ st # <<>> /\ ~InItsSource(st, p) => all = {}
    /\ st = <<>> => all = CASE p.mode = "text"   -> {out}
                            [] p.mode = "escape" -> {out \o <<"\\">>}
                            [] OTHER             -> {}

\* No more sources than may be, each in its lines.
StackStands(st) ==
    Len(st) <= MaximumDepth /\ \A i \in 1 .. Len(st) : InItsLines(st[i])

MeaningInv ==
    /\ outcome = "running" =>
         /\ StackStands(stack)
         /\ Len(pending.names) <= MaximumDepth + 1
         /\ Amounts(buffers, stack, pending, output, Expansion)
    /\ ExpansionIsSubstitution

\* One stack is another one whose top has moved on.
TopMoves(st, st2) ==
    /\ Len(st2) = Len(st) /\ st2 # <<>>
    /\ \A i \in 1 .. Len(st) - 1 : st2[i] = st[i]
    /\ InItsLines(st2[Len(st)])
    /\ st2[Len(st)].level = st[Len(st)].level
    /\ st2[Len(st)].literal = st[Len(st)].literal

LEMMA BelowStays ==
    ASSUME NEW bufs, NEW st, NEW st2, TopMoves(st, st2), NEW w, Below(bufs, st, w)
    PROVE  Below(bufs, st2, w)
BY DEF Below, TopMoves

LEMMA StackStillStands ==
    ASSUME NEW st, NEW st2, TopMoves(st, st2), StackStands(st),
           Len(st) \in Nat \ {0}
    PROVE  StackStands(st2)
<1>1. \A i \in 1 .. Len(st) : i = Len(st) \/ i \in 1 .. Len(st) - 1
  OBVIOUS
<1> QED
  BY <1>1 DEF StackStands, TopMoves

LEMMA BuffersAreOK == FlowInv => BuffersOK(buffers)
BY FlowEngineAssumption DEF FlowInv, BuffersOK

\* The source on top, and the character that is read from it.
LEMMA TopIsRead ==
    ASSUME FlowInv, MeaningInv, Available
    PROVE  /\ Len(stack) \in Heights /\ Len(stack) \in Nat \ {0}
           /\ StackStands(stack)
           /\ TopMoves(stack, Consumed)
           /\ Char \in Character
           /\ Rest(Consumed[Len(stack)]) \in Text
           /\ Rest(Top) = <<Char>> \o Rest(Consumed[Len(stack)])
           /\ Consumed[Len(stack)].literal = Top.literal
           /\ Len(Consumed) = Len(stack)
<1> DEFINE n == Len(stack)
<1>1. stack \in Seq(Source) /\ n \in Nat \ {0}
  BY LenProperties, EmptySeq DEF FlowInv, StackInv, Available
<1>2. /\ StackStands(stack) /\ HasMore(Top)
  BY DEF MeaningInv, Available
<1>3. n \in Heights /\ n \in 1 .. Len(stack)
  BY <1>1, <1>2, FlowEngineAssumption DEF Heights, StackStands
<1>4. InItsLines(Top) /\ Top \in Source
  BY <1>2, <1>3 DEF StackStands, Top, InItsLines
<1>5. /\ InItsLines(Advance(Top)) /\ Rest(Advance(Top)) \in Text
      /\ Char \in Character /\ Rest(Top) = <<Char>> \o Rest(Advance(Top))
  BY <1>2, <1>4, ReadOff DEF Char
<1>6. /\ Advance(Top) \in Source
      /\ Advance(Top).level = Top.level /\ Advance(Top).literal = Top.literal
  BY <1>2, <1>4, SourcesGoOn
<1>7. Consumed = [stack EXCEPT ![n] = Advance(Top)]
  BY DEF Consumed, Top
<1>8. /\ Consumed \in Seq(Source) /\ Len(Consumed) = n
      /\ \A j \in 1 .. n : Consumed[j] = IF j = n THEN Advance(Top) ELSE stack[j]
  BY <1>1, <1>3, <1>6, <1>7, ExceptSeq
<1>9. Consumed[n] = Advance(Top) /\ Top = stack[n]
  BY <1>3, <1>8 DEF Top
<1>10. \A i \in 1 .. n - 1 : Consumed[i] = stack[i]
  BY <1>1, <1>8
<1>11. Consumed # <<>>
  BY <1>1, <1>8, EmptySeq
<1>12. TopMoves(stack, Consumed)
  BY <1>5, <1>6, <1>8, <1>9, <1>10, <1>11 DEF TopMoves
<1> QED
  BY <1>1, <1>2, <1>3, <1>5, <1>6, <1>8, <1>9, <1>12

-----------------------------------------------------------------------------
(***************************************************************************)
(* The ways a step can end.                                                *)
(***************************************************************************)

\* What the source on top means begins with what was emitted.
Becomes(t, st2, p2) ==
    \A texts \in SUBSET Text :
        PendingMeaning(buffers, Len(stack), Top, pending, texts) =>
          \E more \in SUBSET Text :
            /\ texts = Prefixed(t, more)
            /\ PendingMeaning(buffers, Len(stack), st2[Len(stack)], p2, more)

\* The expansion goes on: what was emitted is what is no longer to be read.
LEMMA Onward ==
    ASSUME FlowInv, DataInv, MeaningInv, outcome = "running", stack # <<>>,
           UNCHANGED <<buffers, request, outcome>>,
           TopMoves(stack, stack'), InItsSource(stack, pending),
           InItsSource(stack', pending'), Len(pending'.names) <= MaximumDepth + 1,
           NEW t \in Text, output' = output \o t, Becomes(t, stack', pending')
    PROVE  MeaningInv'
<1> DEFINE n == Len(stack)
<1>1. stack \in Seq(Source) /\ n \in Nat \ {0} /\ output \in Text
  BY LenProperties, EmptySeq DEF FlowInv, StackInv, DataInv
<1>2. StackStands(stack) /\ Stands(buffers, stack, pending, output, Expansion)
  BY DEF MeaningInv, Amounts
<1>3. PICK w, texts :
        /\ Below(buffers, stack, w) /\ texts \in SUBSET Text
        /\ PendingMeaning(buffers, n, Top, pending, texts)
        /\ Expansion = Prefixed(output, Followed(texts, w[n - 1]))
  BY <1>2 DEF Stands, Top
<1>4. PICK more \in SUBSET Text :
        /\ texts = Prefixed(t, more)
        /\ PendingMeaning(buffers, n, stack'[n], pending', more)
  BY <1>3 DEF Becomes
<1>5. w[n - 1] \in SUBSET Text
  BY <1>1, <1>3 DEF Below
<1>6. Expansion = Prefixed(output', Followed(more, w[n - 1]))
  <2> DEFINE below == w[n - 1]
             both == Followed(more, below)
  <2>1. Followed(texts, below) = Prefixed(t, both)
    BY <1>4, <1>5, PrefixFollowed
  <2>2. both \in SUBSET Text
    BY <1>5, FollowedTexts
  <2> HIDE DEF below, both
  <2>3. Prefixed(output, Prefixed(t, both)) = Prefixed(output \o t, both)
    BY <1>1, <2>2, PrefixesJoin
  <2> QED
    BY <1>3, <2>1, <2>3 DEF below, both
<1>7. Expansion' = Expansion
  BY DEF Expansion
<1>8. Below(buffers, stack', w) /\ StackStands(stack')
  BY <1>1, <1>2, <1>3, BelowStays, StackStillStands
<1>9. Len(stack') = n /\ stack' # <<>>
  BY DEF TopMoves
<1>10. Stands(buffers, stack', pending', output', Expansion)
  BY <1>4, <1>6, <1>8, <1>9 DEF Stands
<1>11. Amounts(buffers', stack', pending', output', Expansion')
  BY <1>7, <1>9, <1>10 DEF Amounts
<1> QED
  BY <1>8, <1>11 DEF MeaningInv, ExpansionIsSubstitution, Ended

\* An expansion fails where it has no meaning.
LEMMA Downward ==
    ASSUME FlowInv, DataInv, MeaningInv, outcome = "running", stack # <<>>,
           UNCHANGED <<buffers, request>>, Fail,
           InItsSource(stack, pending) =>
             \A texts \in SUBSET Text :
               PendingMeaning(buffers, Len(stack), Top, pending, texts) => texts = {}
    PROVE  MeaningInv'
<1> DEFINE n == Len(stack)
<1>1. stack \in Seq(Source) /\ n \in Nat \ {0} /\ output \in Text
  BY LenProperties, EmptySeq DEF FlowInv, StackInv, DataInv
<1>2. Expansion = {}
  <2>1. CASE ~InItsSource(stack, pending)
    BY <2>1 DEF MeaningInv, Amounts
  <2>2. CASE InItsSource(stack, pending)
    <3>1. Stands(buffers, stack, pending, output, Expansion)
      BY <2>2 DEF MeaningInv, Amounts
    <3>2. PICK w, texts :
            /\ Below(buffers, stack, w) /\ texts \in SUBSET Text
            /\ PendingMeaning(buffers, n, Top, pending, texts)
            /\ Expansion = Prefixed(output, Followed(texts, w[n - 1]))
      BY <3>1 DEF Stands, Top
    <3>3. texts = {}
      BY <2>2, <3>2
    <3> QED
      BY <3>2, <3>3 DEF Followed, Prefixed
  <2> QED
    BY <2>1, <2>2
<1>3. Expansion' = {}
  BY <1>2 DEF Expansion
<1>4. outcome' = "failed"
  BY DEF Fail, Finish
<1> QED
  BY <1>3, <1>4 DEF MeaningInv, ExpansionIsSubstitution, Yields

-----------------------------------------------------------------------------
(***************************************************************************)
(* What a character does to a name in progress.                            *)
(***************************************************************************)

LEMMA OpenedParts ==
    ASSUME NEW bufs, BuffersOK(bufs), NEW i \in Places, NEW r \in Text
    PROVE  /\ Opened(NamesAt(bufs, i), r) \in SUBSET Part
           /\ Opened(NamesAt(bufs, i), <<>>) = {}
           /\ Opened(NamesAt(bufs, i), <<"(">> \o r) = NamesAt(bufs, i)[r]
           /\ \A c \in Character \ {"("} : Opened(NamesAt(bufs, i), <<c>> \o r) = {}
<1> DEFINE N == NamesAt(bufs, i)
<1>1. \A text \in Text : N[text] \in SUBSET Part
  BY NamesOfText
<1> HIDE DEF N
<1>2. Opened(N, r) \in SUBSET Part
  <2>1. CASE r = <<>>
    BY <2>1 DEF Opened
  <2>2. CASE r # <<>>
    BY <1>1, <2>2, FirstAndRest DEF Opened
  <2> QED
    BY <2>1, <2>2
<1>3. ASSUME NEW c \in Character
      PROVE  Opened(N, <<c>> \o r) = IF c = "(" THEN N[r] ELSE {}
  <2> DEFINE t == <<c>> \o r
  <2>1. t # <<>> /\ t[1] = c /\ Behind(t, 1) = r
    BY Leads
  <2> HIDE DEF t
  <2>2. Opened(N, t) = IF c = "(" THEN N[r] ELSE {}
    BY <2>1 DEF Opened
  <2> QED
    BY <2>2 DEF t
<1>4. "(" \in Character
  BY FlowEngineAssumption DEF Syntax
<1>5. Opened(N, <<>>) = {}
  BY DEF Opened
<1> QED
  BY <1>2, <1>3, <1>4, <1>5 DEF N

\* A name in progress is parts of what is left; none when nothing is.
LEMMA NameRestIsParts ==
    ASSUME NEW bufs, BuffersOK(bufs), NEW i \in Places, NEW r \in Text,
           NEW text \in Text, NEW mode \in NamingModes
    PROVE  /\ NameRest(bufs, mode, i, text, r) \in SUBSET Part
           /\ NameRest(bufs, mode, i, text, <<>>) = {}
<1> DEFINE N == NamesAt(bufs, i)
<1>1. /\ \A u \in Text : N[u] \in SUBSET Part
      /\ N[<<>>] = {} /\ N[<<"\\">>] = {}
  BY NamesOfText
<1>2. Opened(N, r) \in SUBSET Part /\ Opened(N, <<>>) = {}
  BY OpenedParts
<1>3. /\ "\\" \in Character /\ <<"\\">> \o r \in Text /\ <<"\\">> \o <<>> = <<"\\">>
  BY EmittedTexts, Concatenations
<1> HIDE DEF N
<1>4. CASE mode = "open"
  BY <1>2, <1>4, LedParts DEF NameRest, N
<1>5. CASE mode = "name"
  BY <1>1, <1>5, LedParts DEF NameRest, N
<1>6. CASE mode = "name_escape"
  BY <1>1, <1>3, <1>6, LedParts DEF NameRest, N
<1>7. CASE mode = "name_protect"
  <2>1. NameRest(bufs, mode, i, text, <<>>) = {}
    BY <1>7 DEF NameRest
  <2>2. CASE r # <<>>
    <3> DEFINE more == text \o <<r[1]>>
               left == N[Behind(r, 1)]
    <3>1. more \in Text /\ left \in SUBSET Part
      BY <1>1, <2>2, FirstAndRest, EmittedTexts
    <3>2. NameRest(bufs, mode, i, text, r) = Led(more, left)
      BY <1>7, <2>2 DEF NameRest, N
    <3> HIDE DEF more, left
    <3> QED
      BY <2>1, <3>1, <3>2, LedParts
  <2> QED
    BY <2>1, <2>2
<1> QED
  BY <1>4, <1>5, <1>6, <1>7 DEF NamingModes

LEMMA NoNameIsOpened ==
    ASSUME NEW bufs, BuffersOK(bufs), NEW r \in Text
    PROVE  NameRest(bufs, "open", MaximumDepth + 2, <<>>, r) = {}
<1>1. Opened(NamesAt(bufs, MaximumDepth + 2), r) = {}
  <2>1. r # <<>> => Behind(r, 1) \in Text
    BY FirstAndRest
  <2> QED
    BY <2>1, NoNamesAreLeft DEF Opened
<1> QED
  BY <1>1 DEF NameRest, Led

\* The character behind S, and behind what was read of a name.
LEMMA NameRestReads ==
    ASSUME NEW bufs, BuffersOK(bufs), NEW i \in Places, NEW r \in Text,
           NEW text \in Text, NEW c \in Character
    PROVE  LET N(mode, t) == NameRest(bufs, mode, i, t, r)
               M(mode) == NameRest(bufs, mode, i, text, <<c>> \o r)
           IN /\ M("open") = IF c = "(" THEN N("name", text) ELSE {}
              /\ c = ")" => M("name") = {PartOf(text, r)}
              /\ c = "\\" => M("name") = N("name_escape", text)
              /\ c = "nl" => M("name") = {}
              /\ c \notin {")", "\\", "nl"} => M("name") = N("name", text \o <<c>>)
              /\ M("name_protect") = N("name", text \o <<c>>)
<1> DEFINE NN == NamesAt(bufs, i)
           t == <<c>> \o r
           more == text \o <<c>>
<1>1. /\ NN[r] \in SUBSET Part
      /\ c = ")" => NN[t] = {PartOf(<<>>, r)}
      /\ c = "nl" => NN[t] = {}
      /\ c \notin {")", "nl", "\\"} => NN[t] = Led(<<c>>, NN[r])
  BY NamesOfText
<1>2. Opened(NN, t) = IF c = "(" THEN NN[r] ELSE {}
  BY OpenedParts
<1>3. t # <<>> /\ t[1] = c /\ Behind(t, 1) = r /\ <<c>> \in Text
  BY Leads
<1> HIDE DEF NN
<1>4. Led(text, {}) = {} /\ Led(text, {PartOf(<<>>, r)}) = {PartOf(text, r)}
  BY LedByNothing DEF Led
<1>5. Led(text, Led(<<c>>, NN[r])) = Led(more, NN[r])
  BY <1>1, <1>3, LedParts
<1> HIDE DEF t, more
<1>6. /\ NameRest(bufs, "open", i, text, t) = Led(text, Opened(NN, t))
      /\ NameRest(bufs, "name", i, text, t) = Led(text, NN[t])
      /\ NameRest(bufs, "name", i, text, r) = Led(text, NN[r])
      /\ NameRest(bufs, "name", i, more, r) = Led(more, NN[r])
      /\ NameRest(bufs, "name_escape", i, text, r) = Led(text, NN[<<"\\">> \o r])
  BY DEF NameRest, NN
<1>7. NameRest(bufs, "name_protect", i, text, t) = Led(more, NN[r])
  BY <1>3 DEF NameRest, NN, more
<1>8. NameRest(bufs, "open", i, text, t)
        = IF c = "(" THEN NameRest(bufs, "name", i, text, r) ELSE {}
  BY <1>2, <1>4, <1>6
<1>9. c = ")" => NameRest(bufs, "name", i, text, t) = {PartOf(text, r)}
  BY <1>1, <1>4, <1>6
<1>10. c = "\\" => NameRest(bufs, "name", i, text, t) = NameRest(bufs, "name_escape", i, text, r)
  BY <1>6 DEF t
<1>11. c = "nl" => NameRest(bufs, "name", i, text, t) = {}
  BY <1>1, <1>4, <1>6
<1>12. c \notin {")", "\\", "nl"} =>
         NameRest(bufs, "name", i, text, t) = NameRest(bufs, "name", i, more, r)
  BY <1>1, <1>5, <1>6
<1>13. NameRest(bufs, "name_protect", i, text, t) = NameRest(bufs, "name", i, more, r)
  BY <1>6, <1>7
<1> QED
  BY <1>8, <1>9, <1>10, <1>11, <1>12, <1>13 DEF t, more

\* The letter of a directive inside a name.
LEMMA NameRestReadsLetter ==
    ASSUME NEW bufs, BuffersOK(bufs), NEW i \in Places, NEW r \in Text,
           NEW text \in Text, NEW c \in Character
    PROVE  LET M == NameRest(bufs, "name_escape", i, text, <<c>> \o r)
           IN /\ c = "C" => M = NameRest(bufs, "name_protect", i, text, r)
              /\ c \notin {"C", "S"} =>
                   M = NameRest(bufs, "name", i, text \o <<"\\", c>>, r)
              /\ c = "S" =>
                   M = NamesIn(bufs, i, text,
                               Opened(NamesAt(bufs, i + 1), r))
<1> DEFINE NN == NamesAt(bufs, i)
           t == <<"\\">> \o (<<c>> \o r)
           b == <<"\\", c>>
           known == Known(bufs, Opened(NamesAt(bufs, i + 1), r))
           lines(p) == Joined(bufs[p.text])
           M == NameRest(bufs, "name_escape", i, text, <<c>> \o r)
<1>1. BackslashThen(t, c, r)
  BY DEF BackslashThen
<1>2. M = Led(text, NN[t])
  BY DEF NameRest
<1>3. /\ \A u \in Text : NN[u] \in SUBSET Part
  BY NamesOfText
<1>4. b \in Text
  BY EmittedTexts
<1> HIDE DEF t
<1>5. /\ c \notin {"C", "S"} => NN[t] = Led(b, NN[r])
      /\ c = "C" => NN[t] = IF r = <<>> THEN {} ELSE Led(<<r[1]>>, NN[Behind(r, 1)])
      /\ c = "S" => NN[t] = UNION { Led(lines(p), NN[p.rest]) : p \in known }
  BY <1>1, NamesOfLetter
<1> HIDE DEF NN, M, b, known, lines
<1>6. c \notin {"C", "S"} => M = NameRest(bufs, "name", i, text \o b, r)
  <2>1. Led(text, Led(b, NN[r])) = Led(text \o b, NN[r])
    BY <1>3, <1>4, LedParts
  <2> QED
    BY <1>2, <1>5, <2>1 DEF NameRest, NN
<1>7. c = "C" => M = NameRest(bufs, "name_protect", i, text, r)
  <2> SUFFICES ASSUME c = "C" PROVE M = NameRest(bufs, "name_protect", i, text, r)
    OBVIOUS
  <2>1. CASE r = <<>>
    <3>1. M = Led(text, {})
      BY <1>2, <1>5, <2>1
    <3>2. M = {}
      BY <3>1 DEF Led
    <3> QED
      BY <2>1, <3>2 DEF NameRest
  <2>2. CASE r # <<>>
    <3> DEFINE one == <<r[1]>>
               left == NN[Behind(r, 1)]
    <3>1. one \in Text /\ left \in SUBSET Part
      BY <1>3, <2>2, FirstAndRest, EmittedTexts
    <3>2. M = Led(text, Led(one, left))
      BY <1>2, <1>5, <2>2
    <3>3. NameRest(bufs, "name_protect", i, text, r) = Led(text \o one, left)
      BY <2>2 DEF NameRest, NN
    <3> HIDE DEF one, left
    <3> QED
      BY <3>1, <3>2, <3>3, LedParts
  <2> QED
    BY <2>1, <2>2
<1>8. c = "S" => M = NamesIn(bufs, i, text, Opened(NamesAt(bufs, i + 1), r))
  <2> SUFFICES ASSUME c = "S"
               PROVE  M = NamesIn(bufs, i, text, Opened(NamesAt(bufs, i + 1), r))
    OBVIOUS
  <2> DEFINE right == UNION { Led(text \o lines(p), NN[p.rest]) : p \in known }
             inner == UNION { Led(lines(p), NN[p.rest]) : p \in known }
  <2>1. NamesIn(bufs, i, text, Opened(NamesAt(bufs, i + 1), r)) = right
    BY DEF NamesIn, known, lines, NN
  <2>2. M = Led(text, inner)
    BY <1>2, <1>5
  <2>3. \A p \in known : /\ lines(p) \in Text /\ NN[p.rest] \in SUBSET Part
                         /\ Led(text, Led(lines(p), NN[p.rest]))
                              = Led(text \o lines(p), NN[p.rest])
    <3>1. ASSUME NEW p \in known
          PROVE  lines(p) \in Text /\ NN[p.rest] \in SUBSET Part
      <4>1. p \in Opened(NamesAt(bufs, i + 1), r) /\ p.text \in DOMAIN bufs
        BY <3>1 DEF known, Known
      <4>2. \A u \in Text : NamesAt(bufs, i + 1)[u] \in SUBSET Part
        BY NamesAtPlace DEF Readers
      <4>3. r # <<>> /\ p \in NamesAt(bufs, i + 1)[Behind(r, 1)]
        BY <4>1 DEF Opened
      <4>4. p \in Part
        BY <4>2, <4>3, FirstAndRest
      <4>5. lines(p) \in Text
        BY <4>1, JoinedIsText DEF BuffersOK, lines
      <4> QED
        BY <1>3, <4>4, <4>5 DEF Part
    <3> QED
      BY <3>1, LedParts
  <2>4. \A z : z \in Led(text, inner) <=>
              \E p \in known : z \in Led(text, Led(lines(p), NN[p.rest]))
    BY DEF Led
  <2>5. \A z : z \in right <=> \E p \in known : z \in Led(text \o lines(p), NN[p.rest])
    OBVIOUS
  <2> HIDE DEF right, inner
  <2>6. \A z : z \in Led(text, inner) <=> z \in right
    BY <2>3, <2>4, <2>5
  <2>7. Led(text, inner) = right
    BY <2>6
  <2> QED
    BY <2>1, <2>2, <2>7
<1> QED
  BY <1>6, <1>7, <1>8 DEF M, b

-----------------------------------------------------------------------------
(***************************************************************************)
(* The actions that read text, and the letter of a directive.              *)
(***************************************************************************)

\* In a directive, the source on top is the one it is read from.
LEMMA DirectiveIsActive ==
    ASSUME FlowInv, Available, pending.mode # "text"
    PROVE  /\ pending.mode # "name" => OwnLevel
           /\ OwnLevel => ~Top.literal
           /\ OwnLevel <=> InItsSource(stack, pending)
<1>1. Top.level = Len(stack) - 1 /\ Len(stack) \in Nat \ {0}
  BY Reads
<1>2. DirectiveInv(stack, pending) /\ stack # <<>>
  BY DEF FlowInv, Available
<1> QED
  BY <1>1, <1>2 DEF DirectiveInv, OwnLevel, InItsSource, Top

\* What is emitted is behind what was emitted before.
LEMMA EmptyEmission == DataInv => output = output \o <<>>
BY Concatenations DEF DataInv

LEMMA ReadTextMeans ==
    ASSUME FlowInv, DataInv, MeaningInv, ReadText
    PROVE  MeaningInv'
<1> DEFINE n == Len(stack)
           r == Rest(Consumed[n])
           M == MeaningAt(buffers, n)
<1>1. /\ Available /\ pending.mode = "text" /\ stack' = Consumed /\ stack # <<>>
      /\ UNCHANGED <<buffers, request, outcome>> /\ outcome = "running"
  BY DEF ReadText, Reading, Available
<1>2. /\ n \in Heights /\ TopMoves(stack, Consumed) /\ Char \in Character
      /\ r \in Text /\ Rest(Top) = <<Char>> \o r
      /\ Consumed[n].literal = Top.literal /\ Len(Consumed) = n
      /\ Consumed[n].level = Top.level
  BY <1>1, TopIsRead DEF TopMoves, Top
<1>3. BuffersOK(buffers)
  BY BuffersAreOK
<1>4. InItsSource(stack, pending)
  BY <1>1 DEF InItsSource
<1>5. Len(pending.names) <= MaximumDepth + 1
  BY <1>1 DEF MeaningInv
<1>6. CASE /\ Char # "\\" \/ Top.literal
           /\ Emit(<<Char>>) /\ UNCHANGED pending
  <2>1. Becomes(<<Char>>, Consumed, pending)
    <3> SUFFICES ASSUME NEW texts \in SUBSET Text, texts = SourceMeaning(buffers, Top, n)
                 PROVE  \E more \in SUBSET Text :
                          /\ texts = Prefixed(<<Char>>, more)
                          /\ PendingMeaning(buffers, n, Consumed[n], pending, more)
      BY <1>1 DEF Becomes, PendingMeaning
    <3> DEFINE more == SourceMeaning(buffers, Consumed[n], n)
    <3>1. PendingMeaning(buffers, n, Consumed[n], pending, more)
      BY <1>1 DEF PendingMeaning, NamingModes
    <3>2. CASE Top.literal
      <4>1. more = {r} /\ texts = {<<Char>> \o r}
        BY <1>2, <3>2 DEF SourceMeaning
      <4>2. texts = Prefixed(<<Char>>, more) /\ more \in SUBSET Text
        BY <1>2, <4>1 DEF Prefixed
      <4> QED
        BY <3>1, <4>2
    <3>3. CASE ~Top.literal
      <4>1. Char # "\\"
        BY <1>6, <3>3
      <4>2. more = M[r] /\ texts = M[<<Char>> \o r]
        BY <1>2, <3>3 DEF SourceMeaning
      <4>3. /\ M[r] \in SUBSET Text
            /\ M[<<Char>> \o r] = Prefixed(<<Char>>, M[r])
        BY <1>2, <1>3, <4>1, MeaningOfText
      <4> QED
        BY <3>1, <4>2, <4>3
    <3> QED
      BY <3>2, <3>3
  <2>2. InItsSource(stack', pending')
    BY <1>1, <1>6 DEF InItsSource
  <2>3. <<Char>> \in Text
    BY <1>2, Leads
  <2> QED
    BY <1>1, <1>2, <1>4, <1>5, <1>6, <2>1, <2>2, <2>3, Onward DEF Emit
<1>7. CASE /\ Char = "\\" /\ ~Top.literal
           /\ pending' = [mode |-> "escape", level |-> Top.level, names |-> <<>>]
           /\ UNCHANGED output
  <2>1. Becomes(<<>>, Consumed, pending')
    <3> SUFFICES ASSUME NEW texts \in SUBSET Text, texts = SourceMeaning(buffers, Top, n)
                 PROVE  \E more \in SUBSET Text :
                          /\ texts = Prefixed(<<>>, more)
                          /\ PendingMeaning(buffers, n, Consumed[n], pending', more)
      BY <1>1 DEF Becomes, PendingMeaning
    <3>1. texts = M[<<"\\">> \o r]
      BY <1>2, <1>7 DEF SourceMeaning
    <3>2. PendingMeaning(buffers, n, Consumed[n], pending', texts)
      BY <1>7, <3>1 DEF PendingMeaning, NamingModes
    <3>3. texts = Prefixed(<<>>, texts)
      BY PrefixesAreTexts, Concatenations
    <3> QED
      BY <3>2, <3>3
  <2>2. InItsSource(stack', pending')
    BY <1>1, <1>2, <1>7 DEF InItsSource
  <2>3. <<>> \in Text /\ output' = output \o <<>> /\ Len(pending'.names) <= MaximumDepth + 1
    BY <1>7, EmptyEmission, Concatenations, FlowEngineAssumption
  <2> QED
    BY <1>1, <1>2, <1>4, <2>1, <2>2, <2>3, Onward
<1> QED
  BY <1>6, <1>7 DEF ReadText

\* The text behind a directive, and the directive that is none.
LEMMA TextGoesOn ==
    ASSUME NEW st2, ~st2[Len(stack)].literal,
           NEW texts,
           texts = MeaningAt(buffers, Len(stack))[Rest(st2[Len(stack)])]
    PROVE  PendingMeaning(buffers, Len(stack), st2[Len(stack)], NoDirective, texts)
BY DEF PendingMeaning, NoDirective, SourceMeaning, NamingModes

LEMMA NoDirectiveIsInItsSource ==
    ASSUME NEW st
    PROVE  InItsSource(st, NoDirective) /\ Len(NoDirective.names) <= MaximumDepth + 1
BY FlowEngineAssumption DEF InItsSource, NoDirective

LEMMA ReadLetterMeans ==
    ASSUME FlowInv, DataInv, MeaningInv, ReadLetter
    PROVE  MeaningInv'
<1> DEFINE n == Len(stack)
           r == Rest(Consumed[n])
           M == MeaningAt(buffers, n)
           t == <<"\\">> \o (<<Char>> \o r)
<1>1. /\ Available /\ pending.mode = "escape" /\ stack' = Consumed /\ stack # <<>>
      /\ UNCHANGED <<buffers, request, outcome>> /\ outcome = "running"
  BY DEF ReadLetter, Reading, Available
<1>2. /\ n \in Heights /\ TopMoves(stack, Consumed) /\ Char \in Character
      /\ r \in Text /\ Rest(Top) = <<Char>> \o r
      /\ Consumed[n].literal = Top.literal /\ Len(Consumed) = n
      /\ Consumed[n].level = Top.level
  BY <1>1, TopIsRead DEF TopMoves, Top
<1>3. BuffersOK(buffers)
  BY BuffersAreOK
<1>4. OwnLevel /\ ~Top.literal /\ InItsSource(stack, pending)
  BY <1>1, DirectiveIsActive
<1>5. BackslashThen(t, Char, r)
  BY DEF BackslashThen
<1>6. \A texts : PendingMeaning(buffers, n, Top, pending, texts) => texts = M[t]
  BY <1>1, <1>2 DEF PendingMeaning
<1> HIDE DEF t, M
<1>7. /\ Char \notin {"\\", "C", "O", "B", "S", "L"} =>
           M[t] = Prefixed(<<"\\", Char>>, M[r])
      /\ Char = "\\" => M[t] = Prefixed(<<"\\">>, M[r])
      /\ Char \in {"C", "O"} => M[t] = ProtectedMeaning(buffers, n, r)
      /\ Char \in {"B", "S", "L"} =>
           M[t] = IncludedIn(buffers, n, Char, Opened(NamesAt(buffers, 1), r))
  BY <1>2, <1>3, <1>5, MeaningOfLetter DEF ProtectedMeaning, M
<1>8. M[r] \in SUBSET Text
  BY <1>2, <1>3, MeaningOfText DEF M
<1>9. PendingMeaning(buffers, n, Consumed[n], NoDirective, M[r])
  BY <1>2, <1>4, TextGoesOn DEF M
<1>10. <<"\\", Char>> \in Text /\ <<"\\">> \in Text /\ <<>> \in Text
  BY <1>2, EmittedTexts
<1>11. ASSUME NEW e \in Text, Emit(e), pending' = NoDirective, M[t] = Prefixed(e, M[r])
       PROVE  MeaningInv'
  <2>1. Becomes(e, stack', pending')
    BY <1>1, <1>6, <1>8, <1>9, <1>11 DEF Becomes
  <2>2. InItsSource(stack', pending') /\ Len(pending'.names) <= MaximumDepth + 1
    BY <1>11, NoDirectiveIsInItsSource
  <2> QED
    BY <1>1, <1>2, <1>4, <1>11, <2>1, <2>2, Onward DEF Emit
<1>12. ASSUME pending'.level = pending.level, UNCHANGED output,
              Len(pending'.names) <= MaximumDepth + 1,
              \A texts \in SUBSET Text :
                texts = M[t] => PendingMeaning(buffers, n, Consumed[n], pending', texts)
       PROVE  MeaningInv'
  <2>1. Becomes(<<>>, stack', pending')
    BY <1>1, <1>6, <1>12, PrefixesAreTexts, <1>10 DEF Becomes
  <2>2. InItsSource(stack', pending')
    BY <1>1, <1>2, <1>4, <1>12 DEF InItsSource, OwnLevel
  <2>3. output' = output \o <<>>
    BY <1>12, EmptyEmission
  <2> QED
    BY <1>1, <1>2, <1>4, <1>10, <1>12, <2>1, <2>2, <2>3, Onward
<1>13. CASE /\ Char \notin {"\\", "C", "O", "B", "S", "L"}
            /\ Emit(<<"\\", Char>>) /\ pending' = NoDirective
  BY <1>7, <1>10, <1>11, <1>13
<1>14. CASE Char = "\\" /\ Emit(<<"\\">>) /\ pending' = NoDirective
  BY <1>7, <1>10, <1>11, <1>14
<1>15. CASE Char \in {"C", "O"} /\ pending' = NowIn("protect", <<>>) /\ UNCHANGED output
  <2>1. /\ pending'.level = pending.level /\ pending'.mode = "protect"
        /\ Len(pending'.names) <= MaximumDepth + 1
    BY <1>15, FlowEngineAssumption DEF NowIn
  <2>2. \A texts : texts = M[t] => PendingMeaning(buffers, n, Consumed[n], pending', texts)
    BY <1>7, <1>15, <2>1 DEF PendingMeaning, NamingModes
  <2> QED
    BY <1>12, <1>15, <2>1, <2>2
<1>16. CASE /\ Char \in {"B", "S", "L"} /\ UNCHANGED output
            /\ pending' = NowIn("open", <<[directive |-> Char, text |-> <<>>]>>)
  <2> DEFINE names == <<[directive |-> Char, text |-> <<>>]>>
             parts == Opened(NamesAt(buffers, 1), r)
  <2>1. /\ pending'.level = pending.level /\ pending'.mode = "open"
        /\ pending'.names = names
    BY <1>16 DEF NowIn
  <2>2. /\ names \in Seq(Name) /\ Len(names) = 1
        /\ names[1].directive = Char /\ names[1].text = <<>>
    BY <1>10, <1>16 DEF Name
  <2>3. 1 \in Places /\ 1 <= MaximumDepth + 1
    BY FlowEngineAssumption DEF Places
  <2>4. parts \in SUBSET Part
    BY <1>2, <1>3, <2>3, OpenedParts
  <2> HIDE DEF names
  <2>5. NameRest(buffers, "open", 1, names[1].text, r) = parts
    <3>1. Led(<<>>, parts) = parts
      BY <1>10, <2>4, LedParts
    <3> QED
      BY <2>2, <3>1 DEF NameRest
  <2> HIDE DEF parts
  <2>6. NameMeaning(buffers, n, names, parts, IncludedIn(buffers, n, Char, parts))
    BY <2>2, <2>4, MeaningOfOneName
  <2>7. M[t] = IncludedIn(buffers, n, Char, parts)
    BY <1>7, <1>16 DEF parts
  <2>8. \A texts : texts = M[t] => PendingMeaning(buffers, n, Consumed[n], pending', texts)
    BY <2>1, <2>2, <2>5, <2>6, <2>7 DEF PendingMeaning, NamingModes
  <2> QED
    BY <1>12, <1>16, <2>1, <2>2, <2>3, <2>8
<1> QED
  BY <1>4, <1>13, <1>14, <1>15, <1>16 DEF ReadLetter

LEMMA ReadProtectedMeans ==
    ASSUME FlowInv, DataInv, MeaningInv, ReadProtected
    PROVE  MeaningInv'
<1> DEFINE n == Len(stack)
           r == Rest(Consumed[n])
           M == MeaningAt(buffers, n)
           t == <<Char>> \o r
<1>1. /\ Available /\ pending.mode = "protect" /\ stack' = Consumed /\ stack # <<>>
      /\ UNCHANGED <<buffers, request>> /\ outcome = "running"
  BY DEF ReadProtected, Reading, Available
<1>2. /\ n \in Heights /\ TopMoves(stack, Consumed) /\ Char \in Character
      /\ r \in Text /\ Rest(Top) = t
      /\ Consumed[n].literal = Top.literal
  BY <1>1, TopIsRead
<1>3. BuffersOK(buffers)
  BY BuffersAreOK
<1>4. OwnLevel /\ ~Top.literal /\ InItsSource(stack, pending)
  BY <1>1, DirectiveIsActive
<1>5. Emit(<<Char>>) /\ pending' = NoDirective /\ outcome' = outcome
  BY <1>4 DEF ReadProtected
<1>6. t # <<>> /\ t[1] = Char /\ Behind(t, 1) = r /\ <<Char>> \in Text
  BY <1>2, Leads
<1> HIDE DEF t
<1>7. \A texts : PendingMeaning(buffers, n, Top, pending, texts) =>
                   texts = Prefixed(<<Char>>, M[r])
  BY <1>1, <1>2, <1>6 DEF PendingMeaning, ProtectedMeaning
<1>8. M[r] \in SUBSET Text
  BY <1>2, <1>3, MeaningOfText
<1>9. PendingMeaning(buffers, n, Consumed[n], NoDirective, M[r])
  BY <1>2, <1>4, TextGoesOn
<1>10. Becomes(<<Char>>, stack', pending')
  BY <1>1, <1>5, <1>7, <1>8, <1>9 DEF Becomes
<1>11. InItsSource(stack', pending') /\ Len(pending'.names) <= MaximumDepth + 1
  BY <1>5, NoDirectiveIsInItsSource
<1> QED
  BY <1>1, <1>2, <1>4, <1>5, <1>6, <1>10, <1>11, Onward DEF Emit

\* What the name in progress may still be.
Remaining == NameRest(buffers, pending.mode, Len(pending.names), Innermost.text, Rest(Top))

\* A name is being read, in the source on top.
ReadingName ==
    /\ FlowInv /\ DataInv /\ MeaningInv
    /\ Available /\ pending.mode \in NamingModes
    /\ UNCHANGED <<buffers, request>>

LEMMA NamesInProgress ==
    ASSUME ReadingName
    PROVE  /\ pending.names \in Seq(Name) /\ pending.names # <<>>
           /\ Len(pending.names) \in Places
           /\ Len(pending.names) \in Nat \ {0}
           /\ Innermost \in Name /\ Innermost.text \in Text
           /\ BuffersOK(buffers) /\ outcome = "running" /\ stack # <<>>
           /\ pending.mode # "text"
           /\ \A texts : PendingMeaning(buffers, Len(stack), Top, pending, texts) =>
                NameMeaning(buffers, Len(stack), pending.names, Remaining, texts)
<1>1. /\ FlowInv /\ DataInv /\ MeaningInv /\ outcome = "running" /\ stack # <<>>
      /\ pending.mode \in NamingModes
  BY DEF ReadingName, Available
<1>2. /\ pending.names \in Seq(Name) /\ pending.names # <<>> /\ Innermost \in Name
  BY <1>1, NamesOfPending
<1>3. Len(pending.names) \in Nat \ {0} /\ Len(pending.names) <= MaximumDepth + 1
  BY <1>1, <1>2, EmptySeq DEF MeaningInv
<1>4. Innermost.text \in Text
  BY <1>2 DEF Name
<1>5. Len(pending.names) \in Places
  BY <1>3, FlowEngineAssumption DEF Places
<1>6. pending.mode # "text"
  BY <1>1 DEF NamingModes
<1>7. \A texts : PendingMeaning(buffers, Len(stack), Top, pending, texts) =>
        NameMeaning(buffers, Len(stack), pending.names, Remaining, texts)
  BY <1>1 DEF PendingMeaning, Remaining, Innermost
<1> QED
  BY <1>1, <1>2, <1>3, <1>4, <1>5, <1>6, <1>7, BuffersAreOK

\* The name goes on in its source.
LEMMA NameMeansOnward ==
    ASSUME ReadingName, OwnLevel, stack' = Consumed, UNCHANGED <<output, outcome>>,
           NEW mode \in NamingModes, NEW names, pending' = NowIn(mode, names),
           Len(names) <= MaximumDepth + 1,
           \A texts :
             NameMeaning(buffers, Len(stack), pending.names, Remaining, texts) =>
               NameMeaning(buffers, Len(stack), names,
                           NameRest(buffers, mode, Len(names), names[Len(names)].text,
                                    Rest(Consumed[Len(stack)])), texts)
    PROVE  MeaningInv'
<1> DEFINE n == Len(stack)
<1>1. /\ FlowInv /\ DataInv /\ MeaningInv /\ Available
      /\ UNCHANGED <<buffers, request, outcome>>
  BY DEF ReadingName
<1>2. /\ outcome = "running" /\ stack # <<>> /\ pending.mode # "text"
      /\ \A texts : PendingMeaning(buffers, n, Top, pending, texts) =>
           NameMeaning(buffers, n, pending.names, Remaining, texts)
  BY NamesInProgress
<1>3. TopMoves(stack, stack') /\ Len(stack') = n
  BY <1>1, TopIsRead
<1>4. InItsSource(stack, pending)
  BY <1>1, <1>2, DirectiveIsActive
<1>5. pending'.mode = mode /\ pending'.level = pending.level /\ pending'.names = names
  BY DEF NowIn
<1>6. InItsSource(stack', pending')
  BY <1>3, <1>5 DEF TopMoves, InItsSource, OwnLevel, Top
<1>7. <<>> \in Text /\ output' = output \o <<>>
  BY <1>1, EmptyEmission, Concatenations
<1>8. Becomes(<<>>, stack', pending')
  <2> SUFFICES ASSUME NEW texts \in SUBSET Text,
                      PendingMeaning(buffers, n, Top, pending, texts)
               PROVE  \E more \in SUBSET Text :
                        /\ texts = Prefixed(<<>>, more)
                        /\ PendingMeaning(buffers, n, stack'[n], pending', more)
    BY DEF Becomes
  <2>1. PendingMeaning(buffers, n, stack'[n], pending', texts)
    BY <1>2, <1>5 DEF PendingMeaning, NamingModes
  <2>2. texts = Prefixed(<<>>, texts)
    BY <1>7, PrefixesAreTexts
  <2> QED
    BY <2>1, <2>2
<1> QED
  BY <1>1, <1>2, <1>3, <1>4, <1>5, <1>6, <1>7, <1>8, Onward

\* There is no such name.
LEMMA NameMeansNothing ==
    ASSUME ReadingName, Fail, OwnLevel => Remaining = {}
    PROVE  MeaningInv'
<1>1. /\ FlowInv /\ DataInv /\ MeaningInv /\ Available
      /\ UNCHANGED <<buffers, request>>
  BY DEF ReadingName
<1>2. /\ outcome = "running" /\ stack # <<>> /\ pending.mode # "text"
      /\ pending.names \in Seq(Name) /\ pending.names # <<>>
      /\ \A texts : PendingMeaning(buffers, Len(stack), Top, pending, texts) =>
           NameMeaning(buffers, Len(stack), pending.names, Remaining, texts)
  BY NamesInProgress
<1>3. ASSUME InItsSource(stack, pending), NEW texts,
             PendingMeaning(buffers, Len(stack), Top, pending, texts)
      PROVE  texts = {}
  <2>1. OwnLevel
    BY <1>1, <1>2, <1>3, DirectiveIsActive
  <2>2. NameMeaning(buffers, Len(stack), pending.names, {}, texts)
    BY <1>2, <1>3, <2>1
  <2> QED
    BY <1>2, <2>2, NoNameNoMeaning
<1> QED
  BY <1>1, <1>2, <1>3, Downward

\* The name goes on with more text.
LEMMA ContinuedNameMeans ==
    ASSUME ReadingName, OwnLevel, stack' = Consumed, NEW text \in Text,
           Continue(pending.names, text),
           Remaining = NameRest(buffers, "name", Len(pending.names),
                                Innermost.text \o text, Rest(Consumed[Len(stack)]))
    PROVE  MeaningInv'
<1> DEFINE names == Extended(pending.names, text)
           n == Len(stack)
<1>1. /\ pending.names \in Seq(Name) /\ pending.names # <<>>
      /\ Len(pending.names) \in Places
  BY NamesInProgress
<1>2. /\ Len(names) = Len(pending.names)
      /\ names[Len(names)].text = Innermost.text \o text
  BY <1>1, ExtendedNames DEF Innermost
<1>3. Len(names) <= MaximumDepth + 1
  BY <1>1, <1>2 DEF Places
<1>4. pending' = NowIn("name", names) /\ UNCHANGED <<output, outcome>>
  BY DEF Continue
<1>5. ASSUME NEW texts, NameMeaning(buffers, n, pending.names, Remaining, texts)
      PROVE  NameMeaning(buffers, n, names, Remaining, texts)
  BY <1>1, <1>5, NameMeaningGoesOn
<1>6. "name" \in NamingModes
  BY DEF NamingModes
<1> HIDE DEF names
<1>7. Remaining = NameRest(buffers, "name", Len(names), names[Len(names)].text,
                           Rest(Consumed[n]))
  BY <1>2
<1>8. \A texts : NameMeaning(buffers, n, pending.names, Remaining, texts) =>
         NameMeaning(buffers, n, names,
                     NameRest(buffers, "name", Len(names), names[Len(names)].text,
                              Rest(Consumed[n])), texts)
  BY <1>5, <1>7
<1> QED
  BY <1>3, <1>4, <1>6, <1>8, NameMeansOnward

\* The name goes on in another way.
LEMMA NameModeMeans ==
    ASSUME ReadingName, OwnLevel, stack' = Consumed, UNCHANGED <<output, outcome>>,
           NEW mode \in NamingModes, pending' = NowIn(mode, pending.names),
           Remaining = NameRest(buffers, mode, Len(pending.names),
                                Innermost.text, Rest(Consumed[Len(stack)]))
    PROVE  MeaningInv'
<1>1. Len(pending.names) <= MaximumDepth + 1
  BY NamesInProgress DEF Places
<1> QED
  BY <1>1, NameMeansOnward DEF Innermost

-----------------------------------------------------------------------------
(***************************************************************************)
(* The actions that read a name.                                           *)
(***************************************************************************)

LEMMA ReadParenthesisMeans ==
    ASSUME FlowInv, DataInv, MeaningInv, ReadParenthesis
    PROVE  MeaningInv'
<1> DEFINE n == Len(stack)
           r == Rest(Consumed[n])
           m == Len(pending.names)
           text == Innermost.text
<1>1. /\ ReadingName /\ pending.mode = "open" /\ stack' = Consumed
  BY DEF ReadParenthesis, Reading, ReadingName, NamingModes
<1>2. Char \in Character /\ r \in Text /\ Rest(Top) = <<Char>> \o r
  BY <1>1, TopIsRead DEF ReadingName
<1>3. m \in Places /\ text \in Text /\ BuffersOK(buffers)
  BY <1>1, NamesInProgress
<1> HIDE DEF r, m, text
<1>4. Remaining = IF Char = "(" THEN NameRest(buffers, "name", m, text, r) ELSE {}
  <2>1. Remaining = NameRest(buffers, "open", m, text, <<Char>> \o r)
    BY <1>1, <1>2 DEF Remaining, m, text
  <2> QED
    BY <1>2, <1>3, <2>1, NameRestReads
<1>5. CASE /\ OwnLevel /\ Char = "("
           /\ pending' = NowIn("name", pending.names)
           /\ UNCHANGED <<output, outcome>>
  <2>1. "name" \in NamingModes
    BY DEF NamingModes
  <2>2. Remaining = NameRest(buffers, "name", m, text, r)
    BY <1>4, <1>5
  <2> QED
    BY <1>1, <1>5, <2>1, <2>2, NameModeMeans DEF m, text, r
<1>6. CASE ~(OwnLevel /\ Char = "(") /\ Fail
  BY <1>1, <1>4, <1>6, NameMeansNothing
<1> QED
  BY <1>5, <1>6 DEF ReadParenthesis

LEMMA ReadNameProtectedMeans ==
    ASSUME FlowInv, DataInv, MeaningInv, ReadNameProtected
    PROVE  MeaningInv'
<1> DEFINE n == Len(stack)
           r == Rest(Consumed[n])
           m == Len(pending.names)
           text == Innermost.text
<1>1. /\ ReadingName /\ pending.mode = "name_protect" /\ stack' = Consumed
  BY DEF ReadNameProtected, Reading, ReadingName, NamingModes
<1>2. Char \in Character /\ r \in Text /\ Rest(Top) = <<Char>> \o r
  BY <1>1, TopIsRead DEF ReadingName
<1>3. m \in Places /\ text \in Text /\ BuffersOK(buffers)
  BY <1>1, NamesInProgress
<1> HIDE DEF r, m, text
<1>4. Remaining = NameRest(buffers, "name", m, text \o <<Char>>, r)
  <2>1. Remaining = NameRest(buffers, "name_protect", m, text, <<Char>> \o r)
    BY <1>1, <1>2 DEF Remaining, m, text
  <2> QED
    BY <1>2, <1>3, <2>1, NameRestReads
<1>5. <<Char>> \in Text
  BY <1>2, EmittedTexts
<1>6. CASE OwnLevel /\ Continue(pending.names, <<Char>>)
  BY <1>1, <1>4, <1>5, <1>6, ContinuedNameMeans DEF m, text, r
<1>7. CASE ~OwnLevel /\ Fail
  BY <1>1, <1>7, NameMeansNothing
<1> QED
  BY <1>6, <1>7 DEF ReadNameProtected

LEMMA ReadNameLetterMeans ==
    ASSUME FlowInv, DataInv, MeaningInv, ReadNameLetter
    PROVE  MeaningInv'
<1> DEFINE n == Len(stack)
           r == Rest(Consumed[n])
           m == Len(pending.names)
           text == Innermost.text
           parts == Opened(NamesAt(buffers, m + 1), r)
<1>1. /\ ReadingName /\ pending.mode = "name_escape" /\ stack' = Consumed
  BY DEF ReadNameLetter, Reading, ReadingName, NamingModes
<1>2. Char \in Character /\ r \in Text /\ Rest(Top) = <<Char>> \o r
  BY <1>1, TopIsRead DEF ReadingName
<1>3. /\ m \in Places /\ m \in Nat \ {0} /\ text \in Text /\ BuffersOK(buffers)
      /\ pending.names \in Seq(Name) /\ pending.names # <<>>
  BY <1>1, NamesInProgress
<1> HIDE DEF r, m, text
<1>4. /\ Char = "C" => Remaining = NameRest(buffers, "name_protect", m, text, r)
      /\ Char \notin {"C", "S"} =>
           Remaining = NameRest(buffers, "name", m, text \o <<"\\", Char>>, r)
      /\ Char = "S" => Remaining = NamesIn(buffers, m, text, parts)
  <2>1. Remaining = NameRest(buffers, "name_escape", m, text, <<Char>> \o r)
    BY <1>1, <1>2 DEF Remaining, m, text
  <2> QED
    BY <1>2, <1>3, <2>1, NameRestReadsLetter
<1>5. <<"\\", Char>> \in Text /\ <<>> \in Text
  BY <1>2, EmittedTexts
<1>6. CASE /\ OwnLevel /\ Char = "C"
           /\ pending' = NowIn("name_protect", pending.names)
           /\ UNCHANGED <<output, outcome>>
  <2>1. "name_protect" \in NamingModes
    BY DEF NamingModes
  <2>2. Remaining = NameRest(buffers, "name_protect", m, text, r)
    BY <1>4, <1>6
  <2> QED
    BY <1>1, <1>6, <2>1, <2>2, NameModeMeans DEF m, text, r
<1>7. CASE /\ OwnLevel /\ Char \notin {"C", "S"}
           /\ Continue(pending.names, <<"\\", Char>>)
  BY <1>1, <1>4, <1>5, <1>7, ContinuedNameMeans DEF m, text, r
<1>8. CASE /\ OwnLevel /\ Char = "S" /\ m <= MaximumDepth
           /\ pending' = NowIn("open", Append(pending.names,
                                              [directive |-> "S", text |-> <<>>]))
           /\ UNCHANGED <<output, outcome>>
  <2> DEFINE name == [directive |-> "S", text |-> <<>>]
             names == Append(pending.names, name)
  <2>1. name \in Name /\ name.text = <<>>
    BY <1>5 DEF Name
  <2>2. m + 1 \in Places /\ m + 1 <= MaximumDepth + 1
    BY <1>3, <1>8, FlowEngineAssumption DEF Places
  <2>3. parts \in SUBSET Part
    BY <1>2, <1>3, <2>2, OpenedParts
  <2> HIDE DEF name, parts
  <2>4. Len(names) = m + 1 /\ names[m + 1] = name
    BY <1>3, <2>1, AppendProperties DEF m
  <2>5. NameRest(buffers, "open", m + 1, <<>>, r) = parts
    <3>1. Led(<<>>, parts) = parts
      BY <1>5, <2>3, LedParts
    <3> QED
      BY <3>1 DEF NameRest, parts
  <2>6. ASSUME NEW texts, NameMeaning(buffers, n, pending.names, Remaining, texts)
        PROVE  NameMeaning(buffers, n, names, parts, texts)
    <3>1. Remaining = NamesIn(buffers, Len(pending.names),
                              pending.names[Len(pending.names)].text, parts)
      BY <1>4, <1>8 DEF m, text, Innermost
    <3> QED
      BY <1>3, <2>1, <2>3, <2>6, <3>1, NameMeaningNests
  <2> HIDE DEF names
  <2>7. \A texts : NameMeaning(buffers, n, pending.names, Remaining, texts) =>
          NameMeaning(buffers, n, names,
                      NameRest(buffers, "open", Len(names), names[Len(names)].text, r),
                      texts)
    BY <2>1, <2>4, <2>5, <2>6
  <2>8. "open" \in NamingModes /\ pending' = NowIn("open", names)
    BY <1>8 DEF NamingModes, names, name
  <2> QED
    BY <1>1, <1>8, <2>2, <2>4, <2>7, <2>8, NameMeansOnward DEF r
<1>9. CASE (~OwnLevel \/ (Char = "S" /\ m > MaximumDepth)) /\ Fail
  <2>1. ASSUME OwnLevel PROVE Remaining = {}
    <3>1. Char = "S" /\ m + 1 = MaximumDepth + 2
      BY <1>3, <1>9, <2>1, FlowEngineAssumption DEF Places
    <3>2. NameRest(buffers, "open", MaximumDepth + 2, <<>>, r) = {}
      BY <1>2, <1>3, NoNameIsOpened
    <3>3. parts = {}
      <4>1. \A p \in parts : PartOf(<<>> \o p.text, p.rest)
                               \in NameRest(buffers, "open", MaximumDepth + 2, <<>>, r)
        BY <3>1 DEF NameRest, Led
      <4> QED
        BY <3>2, <4>1
    <3> QED
      BY <1>4, <3>1, <3>3, NothingIsKnown
  <2> QED
    BY <1>1, <1>9, <2>1, NameMeansNothing
<1> QED
  BY <1>6, <1>7, <1>8, <1>9 DEF ReadNameLetter, m

-----------------------------------------------------------------------------
(***************************************************************************)
(* The end of a name.                                                      *)
(***************************************************************************)

\* A name is found where a buffer has it.
Found(text) == ValidName(text) /\ text \in DOMAIN buffers

LEMMA OneIsKnown ==
    ASSUME NEW text, NEW r
    PROVE  Known(buffers, {PartOf(text, r)}) = IF Found(text) THEN {PartOf(text, r)} ELSE {}
<1>1. PartOf(text, r).text = text
  BY DEF PartOf
<1> HIDE DEF PartOf
<1> QED
  BY <1>1 DEF Known, Found

\* A name that is closed goes into the one it stands in, or comes to nothing.
LEMMA ClosedNameMeans ==
    ASSUME NEW i, NEW text, NEW outer, NEW r
    PROVE  NamesIn(buffers, i, outer, {PartOf(text, r)})
             = IF Found(text)
               THEN NameRest(buffers, "name", i, outer \o Joined(buffers[text]), r)
               ELSE {}
<1> DEFINE p == PartOf(text, r)
<1>1. p.text = text /\ p.rest = r
  BY DEF PartOf
<1>2. Known(buffers, {p}) = IF Found(text) THEN {p} ELSE {}
  BY OneIsKnown
<1> HIDE DEF p
<1>3. NamesIn(buffers, i, outer, {p})
        = UNION { Led(outer \o Joined(buffers[q.text]), NamesAt(buffers, i)[q.rest]) :
                  q \in Known(buffers, {p}) }
  BY DEF NamesIn
<1>4. CASE Found(text)
  <2>1. NamesIn(buffers, i, outer, {p})
          = Led(outer \o Joined(buffers[p.text]), NamesAt(buffers, i)[p.rest])
    BY <1>2, <1>3, <1>4
  <2> QED
    BY <1>1, <1>4, <2>1 DEF NameRest, p
<1>5. CASE ~Found(text)
  <2>1. NamesIn(buffers, i, outer, {p}) = {}
    BY <1>2, <1>3, <1>5
  <2> QED
    BY <1>5, <2>1 DEF p
<1> QED
  BY <1>4, <1>5

\* The name of a directive is closed: its buffer goes in its place.
LEMMA ClosedDirectiveMeans ==
    ASSUME NEW k, NEW directive, NEW text, NEW r
    PROVE  IncludedIn(buffers, k, directive, {PartOf(text, r)})
             = IF Found(text)
               THEN Followed(IncludedAt(buffers, k, directive, buffers[text]),
                             MeaningAt(buffers, k)[r])
               ELSE {}
<1> DEFINE p == PartOf(text, r)
<1>1. p.text = text /\ p.rest = r
  BY DEF PartOf
<1>2. Known(buffers, {p}) = IF Found(text) THEN {p} ELSE {}
  BY OneIsKnown
<1> HIDE DEF p
<1>3. IncludedIn(buffers, k, directive, {p})
        = UNION { Followed(IncludedAt(buffers, k, directive, buffers[q.text]),
                           MeaningAt(buffers, k)[q.rest]) : q \in Known(buffers, {p}) }
  BY DEF IncludedIn
<1>4. CASE Found(text)
  <2>1. IncludedIn(buffers, k, directive, {p})
          = Followed(IncludedAt(buffers, k, directive, buffers[p.text]),
                     MeaningAt(buffers, k)[p.rest])
    BY <1>2, <1>3, <1>4
  <2> QED
    BY <1>1, <1>4, <2>1 DEF p
<1>5. CASE ~Found(text)
  <2>1. IncludedIn(buffers, k, directive, {p}) = {}
    BY <1>2, <1>3, <1>5
  <2> QED
    BY <1>5, <2>1 DEF p
<1> QED
  BY <1>4, <1>5

\* A directive in the source at height k, and the lines of its buffer.
MayInclude(k, directive, lines, level) ==
    /\ k \in Heights /\ directive \in {"B", "S", "L"}
    /\ lines \in Seq(Text) /\ level \in Nat

MeansItsInclusion(bufs, k, directive, lines, s) ==
    /\ k < MaximumDepth =>
         IncludedAt(bufs, k, directive, lines) = SourceMeaning(bufs, s, k + 1)
    /\ k >= MaximumDepth => IncludedAt(bufs, k, directive, lines) = {}

\* What is pushed means what goes in the place of the directive, and at the
\* limit nothing does.
LEMMA PushedSourceMeans ==
    ASSUME NEW bufs, NEW k, NEW directive, NEW lines, NEW level,
           MayInclude(k, directive, lines, level)
    PROVE  /\ InItsLines(Inclusion(directive, lines, level))
           /\ Inclusion(directive, lines, level).level = level
           /\ MeansItsInclusion(bufs, k, directive, lines,
                                Inclusion(directive, lines, level))
<1> DEFINE s == Inclusion(directive, lines, level)
           n == Depth(k)
<1>1. /\ k \in Heights /\ directive \in {"B", "S", "L"}
      /\ lines \in Seq(Text) /\ level \in Nat
  BY DEF MayInclude
<1>2. /\ s = NewSource(lines, directive # "S", directive # "B", level)
      /\ s.lines = lines /\ s.literal = (directive # "B")
      /\ s.newlines = (directive # "S") /\ s.level = level
  BY DEF Inclusion, NewSource
<1>3. InItsLines(s) /\ Rest(s) = TextOf(s)
  <2> DEFINE newlines == directive # "S"
             literal == directive # "B"
  <2>1. newlines \in BOOLEAN /\ literal \in BOOLEAN
    OBVIOUS
  <2>2. s = NewSource(lines, newlines, literal, level)
    BY <1>2
  <2> HIDE DEF newlines, literal, s
  <2> QED
    BY <1>1, <2>1, <2>2, AllIsLeft
<1> HIDE DEF s
<1>4. TextOf(s) = IF directive = "S" THEN Joined(lines) ELSE Joined(WithNewlines(lines))
  BY <1>2 DEF TextOf, Contents
<1>5. /\ n \in Nat \ {0} /\ Depth(k + 1) = n - 1
      /\ k < MaximumDepth => n > 1
      /\ k >= MaximumDepth => n = 1
  BY <1>1, FlowEngineAssumption DEF Heights, Depth
<1> HIDE DEF n
<1>6. IncludedAt(bufs, k, directive, lines)
        = Included(n, Meanings(bufs)[n - 1], directive, lines)
  BY DEF IncludedAt, n
<1>7. ASSUME k >= MaximumDepth PROVE IncludedAt(bufs, k, directive, lines) = {}
  BY <1>5, <1>6, <1>7 DEF Included
<1>8. ASSUME k < MaximumDepth
      PROVE  IncludedAt(bufs, k, directive, lines) = SourceMeaning(bufs, s, k + 1)
  <2>1. n > 1 /\ n # 1
    BY <1>5, <1>8
  <2>2. CASE directive = "B"
    <3>1. Included(n, Meanings(bufs)[n - 1], directive, lines)
            = Meanings(bufs)[n - 1][Joined(WithNewlines(lines))]
      BY <2>1, <2>2 DEF Included
    <3>2. SourceMeaning(bufs, s, k + 1) = Meanings(bufs)[n - 1][TextOf(s)]
      BY <1>2, <1>3, <1>5, <2>2 DEF SourceMeaning, MeaningAt
    <3> QED
      BY <1>4, <1>6, <2>2, <3>1, <3>2
  <2>3. CASE directive = "S"
    <3>1. Included(n, Meanings(bufs)[n - 1], directive, lines) = {Joined(lines)}
      BY <2>1, <2>3 DEF Included
    <3> QED
      BY <1>2, <1>3, <1>4, <1>6, <2>3, <3>1 DEF SourceMeaning
  <2>4. CASE directive = "L"
    <3>1. Included(n, Meanings(bufs)[n - 1], directive, lines)
            = {Joined(WithNewlines(lines))}
      BY <2>1, <2>4 DEF Included
    <3> QED
      BY <1>2, <1>3, <1>4, <1>6, <2>4, <3>1 DEF SourceMeaning
  <2> QED
    BY <1>1, <2>2, <2>3, <2>4
<1> QED
  BY <1>2, <1>3, <1>7, <1>8 DEF s, MeansItsInclusion

\* A source is pushed in the place of a directive.
LEMMA InclusionMeans ==
    ASSUME ReadingName, OwnLevel, Len(stack) < MaximumDepth,
           NEW s, InItsLines(s), s.level = Len(stack), stack' = Append(Consumed, s),
           pending' = NoDirective, UNCHANGED <<output, outcome>>,
           \A texts :
             PendingMeaning(buffers, Len(stack), Top, pending, texts) =>
               texts = Followed(SourceMeaning(buffers, s, Len(stack) + 1),
                                MeaningAt(buffers, Len(stack))[Rest(Consumed[Len(stack)])]),
           SourceMeaning(buffers, s, Len(stack) + 1) \in SUBSET Text
    PROVE  MeaningInv'
<1> DEFINE n == Len(stack)
           r == Rest(Consumed[n])
           included == SourceMeaning(buffers, s, n + 1)
           M == MeaningAt(buffers, n)
<1>1. /\ FlowInv /\ DataInv /\ MeaningInv /\ Available
      /\ UNCHANGED <<buffers, request, outcome>>
  BY DEF ReadingName
<1>2. /\ outcome = "running" /\ stack # <<>> /\ pending.mode # "text" /\ BuffersOK(buffers)
  BY NamesInProgress
<1>3. /\ n \in Heights /\ n \in Nat \ {0} /\ StackStands(stack)
      /\ TopMoves(stack, Consumed) /\ r \in Text
      /\ Consumed[n].literal = Top.literal /\ Len(Consumed) = n
  BY <1>1, TopIsRead
<1>4. InItsSource(stack, pending) /\ ~Top.literal
  BY <1>1, <1>2, DirectiveIsActive
<1>5. Stands(buffers, stack, pending, output, Expansion)
  BY <1>1, <1>2, <1>4 DEF MeaningInv, Amounts
<1>6. PICK w, texts :
        /\ Below(buffers, stack, w) /\ texts \in SUBSET Text
        /\ PendingMeaning(buffers, n, Top, pending, texts)
        /\ Expansion = Prefixed(output, Followed(texts, w[n - 1]))
  BY <1>5 DEF Stands, Top
<1>7. texts = Followed(included, M[r])
  BY <1>6
<1>8. M[r] \in SUBSET Text /\ w[n - 1] \in SUBSET Text /\ included \in SUBSET Text
  BY <1>2, <1>3, <1>6, MeaningOfText DEF Below
<1>9. SourceMeaning(buffers, Consumed[n], n) = M[r]
  BY <1>3, <1>4 DEF SourceMeaning
<1> DEFINE both == Followed(M[r], w[n - 1])
           v == [w EXCEPT ![n] = both]
           st2 == Append(Consumed, s)
<1>10. both \in SUBSET Text
  BY <1>8, FollowedTexts
<1>11. Followed(texts, w[n - 1]) = Followed(included, both)
  BY <1>7, <1>8, FollowedTwice
<1>12. /\ Consumed \in Seq(Source) /\ s \in Source
  BY <1>1, Reads DEF StackInv, InItsLines
<1>13. /\ Len(st2) = n + 1 /\ st2[n + 1] = s /\ st2 # <<>>
       /\ \A i \in 1 .. n : st2[i] = Consumed[i]
  BY <1>3, <1>12, AppendProperties
<1> HIDE DEF n, r, included, M, both, st2
<1>14. /\ v \in [Nat -> SUBSET Text] /\ v[n] = both /\ v[0] = {<<>>}
       /\ \A i \in 0 .. n - 1 : v[i] = w[i]
  BY <1>3, <1>6, <1>10 DEF Below
<1> HIDE DEF v
<1>15. Below(buffers, Consumed, w)
  BY <1>3, <1>6, BelowStays
<1>16. ASSUME NEW i \in 1 .. n
       PROVE  v[i] = Followed(SourceMeaning(buffers, st2[i], i), v[i - 1])
  <2>1. i - 1 \in 0 .. n - 1 /\ (i = n \/ i \in 1 .. n - 1)
    BY <1>3
  <2>2. CASE i = n
    <3>1. v[n - 1] = w[n - 1]
      BY <1>14, <2>1, <2>2
    <3> QED
      BY <1>9, <1>13, <1>14, <2>2, <3>1 DEF both
  <2>3. CASE i # n
    <3>1. i \in 1 .. n - 1 /\ i \in 0 .. n - 1
      BY <2>1, <2>3
    <3>2. w[i] = Followed(SourceMeaning(buffers, Consumed[i], i), w[i - 1])
      BY <1>3, <1>15, <3>1 DEF Below
    <3> QED
      BY <1>13, <1>14, <2>1, <3>1, <3>2
  <2> QED
    BY <2>2, <2>3
<1>17. Below(buffers, st2, v)
  <2>1. Len(st2) - 1 = n
    BY <1>3, <1>13
  <2> QED
    BY <1>14, <1>16, <2>1 DEF Below
<1>18. PendingMeaning(buffers, n + 1, st2[n + 1], NoDirective, included)
  BY <1>13 DEF PendingMeaning, NoDirective, NamingModes, included
<1>19. Stands(buffers, st2, NoDirective, output, Expansion)
  <2>1. v[Len(st2) - 1] = both
    BY <1>3, <1>13, <1>14
  <2>2. Expansion = Prefixed(output, Followed(included, v[Len(st2) - 1]))
    BY <1>6, <1>11, <2>1
  <2> QED
    BY <1>8, <1>13, <1>17, <1>18, <2>2 DEF Stands
<1>20. StackStands(st2)
  <2>1. StackStands(Consumed)
    BY <1>3, StackStillStands DEF n
  <2>2. \A i \in 1 .. n + 1 : i \in 1 .. n \/ i = n + 1
    BY <1>3
  <2>3. n + 1 <= MaximumDepth
    BY <1>3, FlowEngineAssumption DEF n
  <2> QED
    BY <1>3, <1>13, <2>1, <2>2, <2>3 DEF StackStands
<1>21. Expansion' = Expansion /\ stack' = st2
  BY <1>1 DEF Expansion, st2
<1>22. InItsSource(st2, NoDirective) /\ Len(NoDirective.names) <= MaximumDepth + 1
  BY NoDirectiveIsInItsSource
<1>23. Amounts(buffers', stack', pending', output', Expansion')
  BY <1>1, <1>13, <1>19, <1>21, <1>22 DEF Amounts
<1> QED
  BY <1>1, <1>2, <1>20, <1>21, <1>22, <1>23 DEF MeaningInv, ExpansionIsSubstitution, Ended

LEMMA CloseNameMeans ==
    ASSUME ReadingName, pending.mode = "name", OwnLevel, Char = ")", CloseName
    PROVE  MeaningInv'
<1> DEFINE n == Len(stack)
           r == Rest(Consumed[n])
           m == Len(pending.names)
           text == Innermost.text
<1>1. Char \in Character /\ r \in Text /\ Rest(Top) = <<Char>> \o r
  BY TopIsRead DEF ReadingName
<1>2. /\ m \in Places /\ m \in Nat \ {0} /\ text \in Text /\ BuffersOK(buffers)
      /\ pending.names \in Seq(Name) /\ Innermost \in Name
      /\ \A texts : PendingMeaning(buffers, n, Top, pending, texts) =>
           NameMeaning(buffers, n, pending.names, Remaining, texts)
  BY NamesInProgress
<1> HIDE DEF r, m, text
<1> DEFINE one == {PartOf(text, r)}
<1>3. Remaining = one
  <2>1. Remaining = NameRest(buffers, "name", m, text, <<Char>> \o r)
    BY <1>1 DEF Remaining, m, text
  <2> QED
    BY <1>1, <1>2, <2>1, NameRestReads
<1>4. one \in SUBSET Part
  BY <1>1, <1>2 DEF Part, PartOf
<1> HIDE DEF one
<1>5. Nested => m > 1 /\ Outer = SubSeq(pending.names, 1, m - 1)
  BY DEF Nested, Outer, m
<1>6. ~Nested => m = 1
  <2>1. ~Nested => ~(m > 1)
    BY DEF Nested, m
  <2> QED
    BY <1>2, <2>1
<1> DEFINE outer == pending.names[m - 1].text
           rest == NamesIn(buffers, m - 1, outer, one)
<1>7. ASSUME Nested
      PROVE  /\ Outer \in Seq(Name) /\ Outer # <<>> /\ Len(Outer) = m - 1
             /\ Outer[m - 1] = pending.names[m - 1] /\ m - 1 \in Nat \ {0}
             /\ outer \in Text
             /\ \A texts : NameMeaning(buffers, n, pending.names, one, texts) =>
                             NameMeaning(buffers, n, Outer, rest, texts)
  <2>1. Len(pending.names) > 1
    BY <1>5, <1>7 DEF m
  <2>2. ASSUME NEW texts, NameMeaning(buffers, n, pending.names, one, texts)
        PROVE  NameMeaning(buffers, n, Outer, rest, texts)
    BY <1>2, <2>1, <2>2, NameMeaningCloses DEF Outer, m
  <2> DEFINE k == m - 1
  <2>3. /\ k \in Nat \ {0} /\ k <= Len(pending.names)
    BY <1>2, <1>5, <1>7 DEF m
  <2>4. pending.names[k] \in Name
    BY <1>2, <2>3, ElementOfSeq
  <2>5. /\ Outer \in Seq(Name) /\ Outer # <<>>
    BY <1>2, <1>7, OuterNames
  <2>6. Outer = SubSeq(pending.names, 1, k)
    BY <1>5, <1>7
  <2>7. Len(Outer) = k /\ Outer[k] = pending.names[k]
    <3> HIDE DEF k
    <3>1. \A j \in 1 .. k : pending.names[j] \in Name
      <4>1. \A j \in 1 .. k : j \in 1 .. Len(pending.names)
        BY <1>2, <2>3
      <4> QED
        BY <1>2, <4>1, ElementOfSeq
    <3>2. /\ Len(SubSeq(pending.names, 1, k)) = IF 1 <= k THEN k - 1 + 1 ELSE 0
          /\ \A j \in 1 .. k - 1 + 1 : SubSeq(pending.names, 1, k)[j] = pending.names[1 + j - 1]
      BY <2>3, <3>1, SubSeqProperties
    <3>3. 1 <= k /\ k - 1 + 1 = k /\ k \in 1 .. k /\ 1 + k - 1 = k
      BY <2>3
    <3> QED
      BY <2>6, <3>2, <3>3
  <2> QED
    BY <2>2, <2>3, <2>4, <2>5, <2>7 DEF Name
<1>8. rest = IF Found(text)
             THEN NameRest(buffers, "name", m - 1, outer \o Joined(buffers[text]), r)
             ELSE {}
  BY ClosedNameMeans DEF one
<1>9. CASE /\ Found(text) /\ Nested /\ stack' = Consumed
           /\ Continue(Outer, Joined(buffers[text]))
  <2> DEFINE more == Joined(buffers[text])
             names == Extended(Outer, more)
  <2>1. more \in Text
    BY <1>2, <1>9, JoinedIsText DEF BuffersOK, Found
  <2>2. /\ Outer \in Seq(Name) /\ Outer # <<>> /\ Len(Outer) = m - 1
        /\ Outer[m - 1].text = outer /\ m - 1 \in Nat \ {0}
    BY <1>7, <1>9
  <2> HIDE DEF more, outer
  <2>3. Len(names) = m - 1 /\ names[m - 1].text = outer \o more
    BY <2>1, <2>2, ExtendedNames
  <2>4. pending' = NowIn("name", names) /\ UNCHANGED <<output, outcome>>
    BY <1>9 DEF Continue, more
  <2>5. Len(names) <= MaximumDepth + 1
    BY <1>2, <2>3, FlowEngineAssumption DEF Places
  <2>6. ASSUME NEW texts, NameMeaning(buffers, n, pending.names, Remaining, texts)
        PROVE  NameMeaning(buffers, n, names, rest, texts)
    <3>1. NameMeaning(buffers, n, Outer, rest, texts)
      BY <1>3, <1>7, <1>9, <2>6
    <3> HIDE DEF rest
    <3> QED
      BY <2>1, <2>2, <3>1, NameMeaningGoesOn
  <2>7. rest = NameRest(buffers, "name", m - 1, outer \o more, r)
    BY <1>8, <1>9 DEF more
  <2> HIDE DEF names, rest
  <2>8. \A texts : NameMeaning(buffers, n, pending.names, Remaining, texts) =>
          NameMeaning(buffers, n, names,
                      NameRest(buffers, "name", Len(names), names[Len(names)].text, r),
                      texts)
    BY <2>3, <2>6, <2>7
  <2>9. "name" \in NamingModes
    BY DEF NamingModes
  <2> QED
    BY <1>9, <2>4, <2>5, <2>8, <2>9, NameMeansOnward DEF r
<1> DEFINE d == Innermost.directive
<1>10. d \in {"B", "S", "L"}
  BY <1>2 DEF Name
<1>11. ASSUME ~Nested, NEW texts,
              PendingMeaning(buffers, n, Top, pending, texts)
       PROVE  texts = IF Found(text)
                      THEN Followed(IncludedAt(buffers, n, d, buffers[text]),
                                    MeaningAt(buffers, n)[r])
                      ELSE {}
  <2>1. Len(pending.names) = 1 /\ pending.names[1] = Innermost
    BY <1>6, <1>11 DEF m, Innermost
  <2>2. NameMeaning(buffers, n, pending.names, one, texts)
    BY <1>2, <1>3, <1>11
  <2>3. texts = IncludedIn(buffers, n, d, one)
    BY <1>2, <1>4, <2>1, <2>2, MeaningOfOneName
  <2> QED
    BY <2>3, ClosedDirectiveMeans DEF one
<1>12. /\ n \in Heights /\ n \in Nat \ {0} /\ Top.level = n - 1
       /\ FlowInv /\ DataInv /\ MeaningInv /\ Available
  BY TopIsRead, Reads DEF ReadingName
<1>13. CASE /\ Found(text) /\ ~Nested /\ n < MaximumDepth
            /\ stack' = Pushed(Consumed, Inclusion(d, buffers[text], pending.level + 1))
            /\ pending' = NoDirective /\ UNCHANGED <<output, outcome>>
  <2> DEFINE s == Inclusion(d, buffers[text], pending.level + 1)
  <2>1. pending.level + 1 = n /\ pending.level + 1 \in Nat
    <3>1. pending.level = n - 1
      BY <1>12 DEF OwnLevel
    <3> HIDE DEF n
    <3> QED
      BY <1>12, <3>1
  <2>2. buffers[text] \in Seq(Text)
    BY <1>2, <1>13 DEF BuffersOK, Found
  <2>3. /\ InItsLines(s) /\ s.level = n
        /\ IncludedAt(buffers, n, d, buffers[text]) = SourceMeaning(buffers, s, n + 1)
    <3> DEFINE level == pending.level + 1
               lines == buffers[text]
    <3>1. level = n /\ lines \in Seq(Text) /\ n < MaximumDepth
      BY <1>13, <2>1, <2>2
    <3>2. MayInclude(n, d, lines, level)
      BY <1>10, <1>12, <2>1, <3>1 DEF MayInclude
    <3>3. s = Inclusion(d, lines, level)
      OBVIOUS
    <3> HIDE DEF level, lines, s, d, n
    <3>4. /\ InItsLines(s) /\ s.level = level
          /\ MeansItsInclusion(buffers, n, d, lines, s)
      BY <3>2, <3>3, PushedSourceMeans
    <3> QED
      BY <3>1, <3>4 DEF lines, MeansItsInclusion
  <2>4. IncludedAt(buffers, n, d, buffers[text]) \in SUBSET Text
    BY <1>2, <1>10, <1>12, <2>2, MeaningAtHeight, IncludedTexts DEF IncludedAt
  <2>5. stack' = Append(Consumed, s)
    BY <1>13 DEF Pushed
  <2> HIDE DEF s, d
  <2>6. \A texts :
          PendingMeaning(buffers, n, Top, pending, texts) =>
            texts = Followed(SourceMeaning(buffers, s, n + 1), MeaningAt(buffers, n)[r])
    BY <1>11, <1>13, <2>3
  <2> QED
    BY <1>13, <2>3, <2>4, <2>5, <2>6, InclusionMeans DEF r
<1>14. CASE /\ ~Found(text) \/ (~Nested /\ n >= MaximumDepth)
            /\ Fail
  <2>1. CASE Nested
    <3>1. rest = {}
      BY <1>8, <1>14, <2>1
    <3>2. ASSUME NEW texts, PendingMeaning(buffers, n, Top, pending, texts)
          PROVE  texts = {}
      <4>1. NameMeaning(buffers, n, Outer, {}, texts)
        BY <1>2, <1>3, <1>7, <2>1, <3>1, <3>2
      <4>2. Outer \in Seq(Name) /\ Outer # <<>>
        BY <1>7, <2>1
      <4> QED
        BY <4>1, <4>2, NoNameNoMeaning
    <3> QED
      BY <1>12, <1>14, <3>2, Downward DEF ReadingName, Available
  <2>2. CASE ~Nested
    <3>1. ASSUME NEW texts, PendingMeaning(buffers, n, Top, pending, texts)
          PROVE  texts = {}
      <4>1. CASE ~Found(text)
        BY <1>11, <2>2, <3>1, <4>1
      <4>2. CASE Found(text)
        <5>1. buffers[text] \in Seq(Text) /\ n >= MaximumDepth
          BY <1>2, <1>14, <2>2, <4>2 DEF BuffersOK, Found
        <5>2. IncludedAt(buffers, n, d, buffers[text]) = {}
          <6> DEFINE lines == buffers[text]
          <6>1. MayInclude(n, d, lines, 0)
            BY <1>10, <1>12, <5>1 DEF MayInclude
          <6> HIDE DEF lines
          <6>2. MeansItsInclusion(buffers, n, d, lines, Inclusion(d, lines, 0))
            BY <6>1, PushedSourceMeans
          <6> QED
            BY <5>1, <6>2 DEF lines, MeansItsInclusion
        <5>3. texts = Followed({}, MeaningAt(buffers, n)[r])
          BY <1>11, <2>2, <3>1, <4>2, <5>2
        <5> QED
          BY <5>3 DEF Followed
      <4> QED
        BY <4>1, <4>2
    <3> QED
      BY <1>12, <1>14, <3>1, Downward DEF ReadingName, Available
  <2> QED
    BY <2>1, <2>2
<1> QED
  BY <1>9, <1>13, <1>14 DEF CloseName, Found, text

LEMMA ReadNameMeans ==
    ASSUME FlowInv, DataInv, MeaningInv, ReadName
    PROVE  MeaningInv'
<1> DEFINE n == Len(stack)
           r == Rest(Consumed[n])
           m == Len(pending.names)
           text == Innermost.text
<1>1. /\ ReadingName /\ pending.mode = "name"
  BY DEF ReadName, Reading, ReadingName, NamingModes
<1>2. Char \in Character /\ r \in Text /\ Rest(Top) = <<Char>> \o r
  BY <1>1, TopIsRead DEF ReadingName
<1>3. m \in Places /\ text \in Text /\ BuffersOK(buffers)
  BY <1>1, NamesInProgress
<1> HIDE DEF r, m, text
<1>4. /\ Char = "\\" => Remaining = NameRest(buffers, "name_escape", m, text, r)
      /\ Char = "nl" => Remaining = {}
      /\ Char \notin {")", "\\", "nl"} =>
           Remaining = NameRest(buffers, "name", m, text \o <<Char>>, r)
  <2>1. Remaining = NameRest(buffers, "name", m, text, <<Char>> \o r)
    BY <1>1, <1>2 DEF Remaining, m, text
  <2> QED
    BY <1>2, <1>3, <2>1, NameRestReads
<1>5. <<Char>> \in Text
  BY <1>2, EmittedTexts
<1>6. CASE OwnLevel /\ Char = ")" /\ CloseName
  BY <1>1, <1>6, CloseNameMeans
<1>7. CASE /\ stack' = Consumed /\ OwnLevel /\ Char = "\\"
           /\ pending' = NowIn("name_escape", pending.names)
           /\ UNCHANGED <<output, outcome>>
  <2>1. "name_escape" \in NamingModes
    BY DEF NamingModes
  <2>2. Remaining = NameRest(buffers, "name_escape", m, text, r)
    BY <1>4, <1>7
  <2> QED
    BY <1>1, <1>7, <2>1, <2>2, NameModeMeans DEF m, text, r
<1>8. CASE /\ stack' = Consumed /\ OwnLevel /\ Char \notin {")", "\\", "nl"}
           /\ Continue(pending.names, <<Char>>)
  BY <1>1, <1>4, <1>5, <1>8, ContinuedNameMeans DEF m, text, r
<1>9. CASE stack' = Consumed /\ (~OwnLevel \/ Char = "nl") /\ Fail
  BY <1>1, <1>4, <1>9, NameMeansNothing
<1> QED
  BY <1>6, <1>7, <1>8, <1>9 DEF ReadName

-----------------------------------------------------------------------------
(***************************************************************************)
(* Leaving a line, a source, and the input.                                *)
(***************************************************************************)

LEMMA EndLineMeans ==
    ASSUME FlowInv, DataInv, MeaningInv, EndLine
    PROVE  MeaningInv'
<1> DEFINE n == Len(stack)
           next == NextLine(Top)
<1>1. /\ stack # <<>> /\ ~HasMore(Top) /\ ~Exhausted(Top) /\ outcome = "running"
      /\ UNCHANGED <<buffers, pending, output, request, outcome>>
      /\ stack' = [stack EXCEPT ![n] = next]
  BY DEF EndLine, Top
<1>2. /\ stack \in Seq(Source) /\ n \in Nat \ {0} /\ n \in 1 .. Len(stack)
      /\ StackStands(stack)
  BY <1>1, LenProperties, EmptySeq DEF FlowInv, StackInv, MeaningInv
<1>3. InItsLines(Top) /\ Top \in Source
  BY <1>2 DEF StackStands, Top, InItsLines
<1>4. InItsLines(next) /\ Rest(next) = Rest(Top)
  BY <1>1, <1>3, LineEnds
<1>5. next \in Source /\ next.level = Top.level /\ next.literal = Top.literal
  BY <1>3, SourcesGoOn
<1> HIDE DEF next
<1>6. /\ stack' \in Seq(Source) /\ Len(stack') = n
      /\ \A j \in 1 .. n : stack'[j] = IF j = n THEN next ELSE stack[j]
  BY <1>1, <1>2, <1>5, ExceptSeq
<1>7. /\ stack'[n] = next /\ Top = stack[n] /\ stack' # <<>>
      /\ \A i \in 1 .. n - 1 : stack'[i] = stack[i]
  BY <1>2, <1>6, EmptySeq DEF Top
<1>8. TopMoves(stack, stack')
  BY <1>4, <1>5, <1>6, <1>7 DEF TopMoves
<1>9. InItsSource(stack', pending') <=> InItsSource(stack, pending)
  BY <1>1, <1>5, <1>6, <1>7 DEF InItsSource
<1>10. CASE InItsSource(stack, pending)
  <2>1. ASSUME NEW texts, PendingMeaning(buffers, n, Top, pending, texts)
        PROVE  PendingMeaning(buffers, n, stack'[n], pending', texts)
    BY <1>1, <1>4, <1>5, <1>7, <2>1 DEF PendingMeaning, SourceMeaning
  <2>2. <<>> \in Text /\ output' = output \o <<>>
    BY <1>1, EmptyEmission, Concatenations
  <2>3. Becomes(<<>>, stack', pending')
    <3>1. \A texts \in SUBSET Text : texts = Prefixed(<<>>, texts)
      BY <2>2, PrefixesAreTexts
    <3> QED
      BY <2>1, <3>1 DEF Becomes
  <2>4. Len(pending'.names) <= MaximumDepth + 1
    BY <1>1 DEF MeaningInv
  <2> QED
    BY <1>1, <1>8, <1>9, <1>10, <2>2, <2>3, <2>4, Onward
<1>11. CASE ~InItsSource(stack, pending)
  <2>1. Expansion' = {}
    BY <1>1, <1>11 DEF MeaningInv, Amounts, Expansion
  <2>2. StackStands(stack')
    BY <1>2, <1>8, StackStillStands
  <2>3. Amounts(buffers', stack', pending', output', Expansion')
    BY <1>7, <1>9, <1>11, <2>1 DEF Amounts
  <2> QED
    BY <1>1, <2>2, <2>3 DEF MeaningInv, ExpansionIsSubstitution, Ended
<1> QED
  BY <1>10, <1>11

\* The sources below the one that is left are as they were.
LEMMA SourceIsDropped ==
    ASSUME FlowInv, MeaningInv, DropSource
    PROVE  /\ Len(stack) \in Heights /\ Len(stack) \in Nat \ {0}
           /\ Len(stack') = Len(stack) - 1
           /\ stack' = <<>> <=> Len(stack) = 1
           /\ \A i \in 1 .. Len(stack) - 1 : stack'[i] = stack[i]
           /\ \A i \in 1 .. Len(stack) : stack[i].level = i - 1
           /\ Rest(Top) = <<>> /\ ~HasMore(Top)
           /\ StackStands(stack')
<1> DEFINE n == Len(stack)
           m == n - 1
           left == SubSeq(stack, 1, m)
<1>1. /\ stack # <<>> /\ Exhausted(Top) /\ outcome = "running" /\ stack' = left
  BY DEF DropSource
<1>2. /\ stack \in Seq(Source) /\ n \in Nat \ {0} /\ StackStands(stack)
      /\ \A i \in 1 .. n : stack[i].level = i - 1
  BY <1>1, LenProperties, EmptySeq DEF FlowInv, StackInv, MeaningInv
<1>3. /\ m \in Int /\ m \in Nat /\ 1 \in Int /\ \A i \in 1 .. m : i \in 1 .. n
      /\ n \in 1 .. n
  BY <1>2
<1>4. InItsLines(Top) /\ Top \in Source
  BY <1>2, <1>3 DEF StackStands, Top, InItsLines
<1>5. Rest(Top) = <<>>
  BY <1>1, <1>4, NothingIsLeft
<1>6. ~HasMore(Top)
  <2>1. Len(Top.lines) \in Nat /\ Top.line \in Nat
    BY <1>4, LinesAreTexts DEF Source
  <2> QED
    BY <1>1, <2>1 DEF Exhausted, HasMore
<1>7. \A i \in 1 .. m : stack[i] \in Source
  BY <1>2, <1>3, ElementOfSeq
<1> HIDE DEF m
<1>8. /\ left \in Seq(Source)
      /\ Len(left) = IF 1 <= m THEN m - 1 + 1 ELSE 0
      /\ \A i \in 1 .. m - 1 + 1 : left[i] = stack[1 + i - 1]
  BY <1>3, <1>7, SubSeqProperties
<1> HIDE DEF left
<1>9. m - 1 + 1 = m /\ (1 <= m \/ m = 0) /\ \A i \in 1 .. m : 1 + i - 1 = i
  BY <1>3
<1>10. Len(left) = m /\ \A i \in 1 .. m : left[i] = stack[i]
  BY <1>3, <1>8, <1>9
<1>11. left = <<>> <=> n = 1
  <2>1. left = <<>> <=> Len(left) = 0
    BY <1>8, EmptySeq
  <2>2. m = 0 <=> n = 1
    BY <1>2 DEF m
  <2> QED
    BY <1>10, <2>1, <2>2
<1>12. StackStands(left)
  <2>1. m <= n /\ n <= MaximumDepth /\ m <= MaximumDepth
    BY <1>2, FlowEngineAssumption DEF m, StackStands
  <2> QED
    BY <1>2, <1>3, <1>10, <2>1 DEF StackStands
<1>13. n \in Heights
  BY <1>2 DEF Heights, StackStands
<1> QED
  BY <1>1, <1>2, <1>5, <1>6, <1>10, <1>11, <1>12, <1>13 DEF m

\* A directive means nothing at the end of its source, but for a backslash.
LEMMA NothingMoreMeans ==
    ASSUME FlowInv, DataInv, MeaningInv, outcome = "running",
           Len(stack) \in Heights, Rest(Top) = <<>>,
           NEW texts, PendingMeaning(buffers, Len(stack), Top, pending, texts)
    PROVE  /\ pending.mode = "text" => texts = {<<>>}
           /\ pending.mode = "escape" => texts = {<<"\\">>}
           /\ pending.mode \notin {"text", "escape"} => texts = {}
<1> DEFINE n == Len(stack)
<1>1. BuffersOK(buffers) /\ <<>> \in Text
  BY BuffersAreOK, EmittedTexts
<1>2. MeaningAt(buffers, n)[<<>>] = {<<>>} /\ MeaningAt(buffers, n)[<<"\\">>] = {<<"\\">>}
  BY <1>1, MeaningOfText
<1>3. CASE pending.mode = "text"
  <2>1. texts = SourceMeaning(buffers, Top, n)
    BY <1>3 DEF PendingMeaning
  <2> QED
    BY <1>2, <1>3, <2>1 DEF SourceMeaning
<1>4. CASE pending.mode = "escape"
  <2>1. texts = MeaningAt(buffers, n)[<<"\\">> \o Rest(Top)]
    BY <1>4 DEF PendingMeaning
  <2>2. <<"\\">> \o <<>> = <<"\\">>
    BY EmittedTexts, Concatenations
  <2> QED
    BY <1>2, <1>4, <2>1, <2>2
<1>5. CASE pending.mode = "protect"
  BY <1>5 DEF PendingMeaning, ProtectedMeaning
<1>6. CASE pending.mode \in NamingModes
  <2> DEFINE m == Len(pending.names)
             text == Innermost.text
             mode == pending.mode
  <2>1. NameMeaning(buffers, n, pending.names,
                    NameRest(buffers, mode, m, text, <<>>), texts)
    BY <1>6 DEF PendingMeaning, Innermost
  <2>2. /\ pending.names \in Seq(Name) /\ pending.names # <<>> /\ text \in Text
    BY <1>6, NamesOfPending DEF Name
  <2>3. m \in Nat \ {0} /\ m <= MaximumDepth + 1
    BY <2>2, EmptySeq DEF MeaningInv
  <2>4. m \in Places
    BY <2>3, FlowEngineAssumption DEF Places
  <2> HIDE DEF m, text
  <2>5. NameRest(buffers, mode, m, text, <<>>) = {}
    BY <1>1, <1>6, <2>2, <2>4, NameRestIsParts
  <2>6. NameMeaning(buffers, n, pending.names, {}, texts)
    BY <2>1, <2>5
  <2>7. texts = {}
    BY <2>2, <2>6, NoNameNoMeaning
  <2> QED
    BY <1>6, <2>7 DEF NamingModes
<1>7. pending.mode \in Modes
  BY DEF FlowInv, PendingInv
<1> QED
  BY <1>3, <1>4, <1>5, <1>6, <1>7 DEF Modes, NamingModes

LEMMA DropSourceMeans ==
    ASSUME FlowInv, DataInv, MeaningInv, DropSource
    PROVE  MeaningInv'
<1> DEFINE n == Len(stack)
<1>1. /\ stack # <<>> /\ outcome = "running"
      /\ UNCHANGED <<buffers, pending, output, request, outcome>>
  BY DEF DropSource
<1>2. /\ n \in Heights /\ n \in Nat \ {0} /\ Len(stack') = n - 1
      /\ stack' = <<>> <=> n = 1
      /\ \A i \in 1 .. n - 1 : stack'[i] = stack[i]
      /\ \A i \in 1 .. n : stack[i].level = i - 1
      /\ Rest(Top) = <<>> /\ ~HasMore(Top) /\ StackStands(stack')
  BY SourceIsDropped
<1>3. Top = stack[n] /\ stack[n].level = n - 1
  BY <1>2 DEF Top
<1>4. DirectiveInv(stack, pending) /\ PendingInv /\ output \in Text
  BY DEF FlowInv, DataInv
<1>5. ASSUME n # 1
      PROVE  /\ n - 1 \in 1 .. n - 1 /\ stack'[n - 1] = stack[n - 1]
             /\ stack[n - 1].level = n - 2 /\ stack' # <<>>
  <2>1. n - 1 \in 1 .. n - 1 /\ n - 1 \in 1 .. n
    BY <1>2, <1>5
  <2>2. n - 1 - 1 = n - 2
    BY <1>2
  <2> QED
    BY <1>2, <1>5, <2>1, <2>2
<1>6. Expansion' = Expansion
  BY <1>1 DEF Expansion
<1> SUFFICES Amounts(buffers, stack', pending, output, Expansion)
  BY <1>1, <1>2, <1>6 DEF MeaningInv, ExpansionIsSubstitution, Ended
<1>7. ASSUME pending.mode = "name", n - 1 <= pending.level, Expansion = {}
      PROVE  Amounts(buffers, stack', pending, output, Expansion)
  <2>1. n # 1 => ~InItsSource(stack', pending)
    <3> SUFFICES ASSUME n # 1 PROVE ~InItsSource(stack', pending)
      OBVIOUS
    <3>1. n - 2 # pending.level
      BY <1>2, <1>4, <1>7 DEF PendingInv
    <3> QED
      BY <1>2, <1>5, <1>7, <3>1 DEF InItsSource
  <2> QED
    BY <1>2, <1>7, <2>1 DEF Amounts
<1>8. CASE ~InItsSource(stack, pending)
  <2>1. pending.mode # "text" /\ n - 1 # pending.level
    BY <1>3, <1>8 DEF InItsSource
  <2>2. pending.mode = "name" /\ n - 1 <= pending.level
    BY <1>1, <1>4, <2>1 DEF DirectiveInv
  <2>3. Expansion = {}
    BY <1>1, <1>8 DEF MeaningInv, Amounts
  <2> QED
    BY <1>7, <2>2, <2>3
<1>9. CASE InItsSource(stack, pending)
  <2>1. Stands(buffers, stack, pending, output, Expansion)
    BY <1>1, <1>9 DEF MeaningInv, Amounts
  <2>2. PICK w, texts :
          /\ Below(buffers, stack, w) /\ texts \in SUBSET Text
          /\ PendingMeaning(buffers, n, Top, pending, texts)
          /\ Expansion = Prefixed(output, Followed(texts, w[n - 1]))
    BY <2>1 DEF Stands, Top
  <2>3. /\ pending.mode = "text" => texts = {<<>>}
        /\ pending.mode = "escape" => texts = {<<"\\">>}
        /\ pending.mode \notin {"text", "escape"} => texts = {}
    BY <1>1, <1>2, <2>2, NothingMoreMeans
  <2>4. w[n - 1] \in SUBSET Text /\ w[0] = {<<>>}
    BY <1>2, <2>2 DEF Below
  <2>5. texts = {} => Expansion = {}
    BY <2>2 DEF Followed, Prefixed
  <2>6. CASE n = 1
    <3>1. n - 1 = 0
      BY <2>6
    <3>2. /\ <<>> \in Text /\ <<"\\">> \in Text /\ output \o <<>> = output
          /\ <<"\\">> \o <<>> = <<"\\">>
      BY <1>4, EmittedTexts, Concatenations
    <3>3. CASE pending.mode = "text"
      <4>1. Expansion = Prefixed(output, Followed({<<>>}, {<<>>}))
        BY <2>2, <2>3, <2>4, <3>1, <3>3
      <4>2. Followed({<<>>}, {<<>>}) = {<<>>}
        <5>1. {<<>>} \in SUBSET Text
          BY <3>2
        <5> QED
          BY <5>1, FollowedTexts
      <4>3. Expansion = {output}
        BY <1>4, <3>2, <4>1, <4>2, PrefixesAreTexts
      <4> QED
        BY <1>2, <2>6, <3>3, <4>3 DEF Amounts
    <3>4. CASE pending.mode = "escape"
      <4>1. Expansion = Prefixed(output, Followed({<<"\\">>}, {<<>>}))
        BY <2>2, <2>3, <2>4, <3>1, <3>4
      <4> DEFINE b == <<"\\">>
      <4>2. b \in Text /\ b \o <<>> = b
        BY <3>2
      <4>3. Expansion = Prefixed(output, Followed({b}, {<<>>}))
        BY <4>1
      <4> HIDE DEF b
      <4>4. Expansion = {output \o b}
        BY <4>2, <4>3 DEF Followed, Prefixed
      <4>5. Expansion = {output \o <<"\\">>}
        BY <4>4 DEF b
      <4> QED
        BY <1>2, <2>6, <3>4, <4>5 DEF Amounts
    <3>5. CASE pending.mode \notin {"text", "escape"}
      BY <1>2, <2>3, <2>5, <2>6, <3>5 DEF Amounts
    <3> QED
      BY <3>3, <3>4, <3>5
  <2>7. CASE n # 1 /\ pending.mode = "text"
    <3>1. /\ stack' # <<>> /\ Len(stack') = n - 1 /\ stack'[n - 1] = stack[n - 1]
          /\ n - 1 \in 1 .. n - 1
      BY <1>2, <1>5, <2>7
    <3> DEFINE m == n - 1
               more == SourceMeaning(buffers, stack'[m], m)
    <3>2. w[m] = Followed(more, w[m - 1])
      BY <2>2, <3>1 DEF Below
    <3>3. Expansion = Prefixed(output, Followed(more, w[m - 1]))
      <4>1. Followed(texts, w[n - 1]) = w[n - 1]
        BY <2>3, <2>4, <2>7, FollowedTexts
      <4> QED
        BY <2>2, <3>2, <4>1
    <3>4. more \in SUBSET Text
      <4>1. m \in Heights /\ m \in 1 .. Len(stack')
        BY <1>2, <3>1, FlowEngineAssumption DEF Heights
      <4>2. InItsLines(stack'[m])
        BY <1>2, <4>1 DEF StackStands
      <4>3. Rest(stack'[m]) \in Text
        BY <4>2, RestIsText
      <4> QED
        BY <4>1, <4>3, BuffersAreOK, MeaningOfText DEF SourceMeaning
    <3>5. Below(buffers, stack', w)
      <4> HIDE DEF n
      <4>1. \A i \in 1 .. m - 1 : i \in 1 .. n - 1
        BY <1>2
      <4> QED
        BY <1>2, <2>2, <4>1 DEF Below, n
    <3>6. PendingMeaning(buffers, m, stack'[m], pending, more)
      BY <2>7 DEF PendingMeaning, NamingModes
    <3> HIDE DEF more
    <3>7. Stands(buffers, stack', pending, output, Expansion)
      BY <3>1, <3>3, <3>4, <3>5, <3>6 DEF Stands
    <3>8. InItsSource(stack', pending)
      BY <2>7 DEF InItsSource
    <3> QED
      BY <3>1, <3>7, <3>8 DEF Amounts
  <2>8. CASE n # 1 /\ pending.mode # "text"
    <3>1. /\ n - 1 <= pending.level
          /\ pending.mode # "name" => (Len(stack) >= 2 => HasMore(Top))
      BY <1>1, <1>3, <1>4, <2>8 DEF DirectiveInv
    <3>2. pending.mode = "name"
      BY <1>2, <2>8, <3>1
    <3> QED
      BY <1>7, <2>3, <2>5, <3>1, <3>2
  <2> QED
    BY <2>6, <2>7, <2>8
<1> QED
  BY <1>8, <1>9

LEMMA EndOfInputMeans ==
    ASSUME FlowInv, DataInv, MeaningInv, EndOfInput
    PROVE  MeaningInv'
<1>1. /\ outcome = "running" /\ stack = <<>>
      /\ UNCHANGED <<buffers, stack, request>>
  BY DEF EndOfInput, NoSourceIsLeft
<1>2. /\ pending.mode = "text" => Expansion = {output}
      /\ pending.mode = "escape" => Expansion = {output \o <<"\\">>}
      /\ pending.mode \notin {"text", "escape"} => Expansion = {}
  BY <1>1 DEF MeaningInv, Amounts
<1>3. Expansion' = Expansion
  BY <1>1 DEF Expansion
<1>4. CASE pending.mode = "text" /\ Finish("ok") /\ UNCHANGED output
  BY <1>2, <1>3, <1>4 DEF Finish, MeaningInv, ExpansionIsSubstitution, Yields
<1>5. CASE pending.mode = "escape" /\ Finish("ok") /\ Emit(<<"\\">>)
  BY <1>2, <1>3, <1>5 DEF Finish, Emit, MeaningInv, ExpansionIsSubstitution, Yields
<1>6. CASE pending.mode \notin {"text", "escape"} /\ Fail
  BY <1>2, <1>3, <1>6 DEF Fail, Finish, MeaningInv, ExpansionIsSubstitution, Yields
<1> QED
  BY <1>4, <1>5, <1>6 DEF EndOfInput

-----------------------------------------------------------------------------
(***************************************************************************)
(* The callers.                                                            *)
(***************************************************************************)

\* An expansion begins with all of its source to be read.
LEMMA BeginMeans ==
    ASSUME FlowInv, DataInv, NEW lines \in Seq(Text), NEW newlines \in BOOLEAN,
           Begin(NewSource(lines, newlines, FALSE, 0))
    PROVE  MeaningInv'
<1> DEFINE s == NewSource(lines, newlines, FALSE, 0)
           w == [i \in Nat |-> {<<>>}]
           texts == SourceMeaning(buffers, s, 1)
<1>1. /\ stack' = <<s>> /\ request' = s /\ pending' = NoDirective
      /\ output' = <<>> /\ outcome' = "running" /\ buffers' = buffers
  BY DEF Begin
<1>2. InItsLines(s) /\ Rest(s) = TextOf(s) /\ TextOf(s) \in Text
  BY AllIsLeft
<1>3. ~s.literal
  BY DEF NewSource
<1> HIDE DEF s
<1>4. Depth(1) = MaximumDepth /\ 1 \in Heights /\ 1 <= MaximumDepth
  BY FlowEngineAssumption DEF Depth, Heights
<1>5. texts = Meanings(buffers)[MaximumDepth][TextOf(s)]
  BY <1>2, <1>3, <1>4 DEF SourceMeaning, MeaningAt
<1>6. texts \in SUBSET Text
  BY <1>2, <1>3, <1>4, BuffersAreOK, MeaningOfText DEF SourceMeaning
<1>7. Expansion' = texts
  BY <1>1, <1>5 DEF Expansion
<1> HIDE DEF texts
<1>8. /\ Len(<<s>>) = 1 /\ <<s>>[1] = s /\ <<s>> # <<>> /\ Len(<<s>>) - 1 = 0
  OBVIOUS
<1>9. Below(buffers, <<s>>, w) /\ w[0] = {<<>>}
  <2>1. <<>> \in Text
    BY EmittedTexts
  <2>2. w \in [Nat -> SUBSET Text] /\ w[0] = {<<>>}
    BY <2>1
  <2> HIDE DEF w
  <2> QED
    BY <1>8, <2>2 DEF Below
<1> HIDE DEF w
<1>10. texts = Prefixed(<<>>, Followed(texts, w[0]))
  <2>1. \A t \in texts : t \o <<>> = t
    BY <1>6, Concatenations
  <2>2. Followed(texts, {<<>>}) = texts
    BY <2>1 DEF Followed, Prefixed
  <2>3. <<>> \in Text
    BY EmittedTexts
  <2> QED
    BY <1>6, <1>9, <2>2, <2>3, PrefixesAreTexts
<1>11. PendingMeaning(buffers, 1, s, NoDirective, texts)
  BY DEF PendingMeaning, NoDirective, NamingModes, texts
<1>12. Stands(buffers, <<s>>, NoDirective, <<>>, texts)
  BY <1>6, <1>8, <1>9, <1>10, <1>11 DEF Stands
<1>13. InItsSource(<<s>>, NoDirective) /\ Len(NoDirective.names) <= MaximumDepth + 1
  BY NoDirectiveIsInItsSource
<1>14. StackStands(<<s>>)
  BY <1>2, <1>4, <1>8 DEF StackStands
<1>15. Amounts(buffers, <<s>>, NoDirective, <<>>, texts)
  BY <1>8, <1>12, <1>13 DEF Amounts
<1> QED
  BY <1>1, <1>7, <1>13, <1>14, <1>15 DEF MeaningInv, ExpansionIsSubstitution, Ended

LEMMA CallerMeans ==
    ASSUME FlowInv, DataInv, MeaningInv, Caller
    PROVE  MeaningInv'
<1>1. CASE ExpandInput
  <2>1. PICK text \in Inputs : Begin(NewSource(<<text>>, FALSE, FALSE, 0))
    BY <1>1 DEF ExpandInput
  <2>2. <<text>> \in Seq(Text)
    BY FlowEngineAssumption
  <2> QED
    BY <2>1, <2>2, BeginMeans
<1>2. CASE ExpandBuffer
  <2>1. PICK name \in Requested :
          \/ /\ name \in DOMAIN buffers
             /\ Begin(NewSource(buffers[name], TRUE, FALSE, 0))
          \/ /\ name \notin DOMAIN buffers
             /\ Fail
             /\ request' = NoRequest
    BY <1>2 DEF ExpandBuffer
  <2>2. CASE /\ name \in DOMAIN buffers
             /\ Begin(NewSource(buffers[name], TRUE, FALSE, 0))
    <3>1. buffers[name] \in Seq(Text)
      BY <2>2, FlowEngineAssumption DEF FlowInv
    <3> QED
      BY <2>2, <3>1, BeginMeans
  <2>3. CASE Fail /\ request' = NoRequest
    BY <2>3 DEF Fail, Finish, MeaningInv, ExpansionIsSubstitution, Ended
  <2> QED
    BY <2>1, <2>2, <2>3
<1>3. CASE Refuse
  BY <1>3 DEF Refuse, MeaningInv, ExpansionIsSubstitution, Ended
<1> QED
  BY <1>1, <1>2, <1>3 DEF Caller

-----------------------------------------------------------------------------
LEMMA MeaningInitially == FlowInit => MeaningInv
  BY DEF FlowInit, MeaningInv, ExpansionIsSubstitution, Ended

LEMMA MeaningIsKept ==
    FlowInv /\ DataInv /\ MeaningInv /\ [FlowNext]_vars => MeaningInv'
<1> SUFFICES ASSUME FlowInv, DataInv, MeaningInv, [FlowNext]_vars
             PROVE  MeaningInv'
  OBVIOUS
<1>1. CASE Caller
  BY <1>1, CallerMeans
<1>2. CASE Expand
  BY <1>2, EndLineMeans, DropSourceMeans, EndOfInputMeans, ReadTextMeans,
     ReadLetterMeans, ReadProtectedMeans, ReadParenthesisMeans, ReadNameMeans,
     ReadNameLetterMeans, ReadNameProtectedMeans
     DEF Expand
<1>3. CASE UNCHANGED vars
  BY <1>3 DEF vars, MeaningInv, ExpansionIsSubstitution, Ended, Yields, Expansion
<1> QED
  BY <1>1, <1>2, <1>3 DEF FlowNext

\* The meaning of a text is a set of texts, and is what its first part and
\* the meaning of the rest make of it, for every depth of inclusion; so the
\* definition the engine is compared with has a function that satisfies it,
\* though buffers may include themselves.
THEOREM MeaningsAreDefined ==
    ASSUME NEW bufs \in BufferSets, NEW n \in 1 .. MaximumDepth, NEW text \in Text
    PROVE  /\ Meanings(bufs)[n][text] \in SUBSET Text
           /\ Meanings(bufs)[n][text]
                = MeaningStep(bufs, n, Meanings(bufs)[n - 1], Meanings(bufs)[n], text)
<1>1. BuffersOK(bufs)
  BY FlowEngineAssumption DEF BuffersOK
<1>2. n \in 0 .. MaximumDepth /\ n - 1 \in 0 .. MaximumDepth /\ n \in Nat \ {0}
  BY FlowEngineAssumption
<1>3. /\ Meanings(bufs)[n] \in Meaners /\ Meanings(bufs)[n - 1] \in Meaners
      /\ Meanings(bufs)[n] = MeaningOver(bufs, n, Meanings(bufs)[n - 1])
  BY <1>1, <1>2, MeaningsByDepth
<1>4. Meanings(bufs)[n][text]
        = MeaningStep(bufs, n, Meanings(bufs)[n - 1], Meanings(bufs)[n], text)
  BY <1>1, <1>2, <1>3, MeaningRecursion
<1>5. Meanings(bufs)[n][text] \in SUBSET Text
  BY <1>3 DEF Meaners
<1> QED
  BY <1>4, <1>5

\* What FlowEngine::expand_input and expand_buffer return, reading from a
\* stack of sources with levels, is the text with each directive replaced by
\* what its buffer expands to, with every buffer inside it; and they throw
\* exactly where that is not defined.
THEOREM ExpansionSubstitutes == FlowSpec => []ExpansionIsSubstitution
<1>1. FlowSpec => []DataInv
  BY DataInitially, DataStep, FlowInvariant, PTL DEF FlowSpec
<1>2. FlowSpec => []MeaningInv
  BY <1>1, MeaningInitially, MeaningIsKept, FlowInvariant, PTL DEF FlowSpec
<1>3. MeaningInv => ExpansionIsSubstitution
  BY DEF MeaningInv
<1> QED
  BY <1>2, <1>3, PTL

=============================================================================
