------------------------ MODULE AndroidSessionProofs ------------------------
(***************************************************************************)
(* The Android session: what holds of the runtime holds of it as well, and *)
(* its queue keeps the order of submission.                                *)
(*                                                                         *)
(* The inductive invariant adds to the runtime's own that a command waits  *)
(* for its text only between two calls of a session that goes on.          *)
(***************************************************************************)
EXTENDS AndroidSession, CommandExecutorProofs

WaitingIsIdle ==
    /\ pending_text_command # NoCommand => Idle
    /\ pending_text_command = NoCommand => pending_text_lines = <<>>

SessionInv ==
    /\ IInv
    /\ SessionTypeOK
    /\ taken <= parsed
    /\ CommandsKeepTheirOrder
    /\ WaitingIsIdle

-----------------------------------------------------------------------------
(***************************************************************************)
(* The queue.                                                              *)
(***************************************************************************)

LEMMA EmptyInOrder == \A low, high : InOrder(<<>>, low, high)
BY DEF InOrder

LEMMA NumbersAreNat ==
    ASSUME NEW queue \in Seq(Entry)
    PROVE  \A i \in 1 .. Len(queue) : queue[i].number \in Nat
<1>1. \A i \in 1 .. Len(queue) : queue[i] \in Entry
  BY ElementOfSeq
<1> QED
  BY <1>1 DEF Entry

LEMMA TailInOrder ==
    ASSUME NEW queue \in Seq(Entry), queue # <<>>, NEW low \in Nat, NEW high \in Nat,
           InOrder(queue, low, high)
    PROVE  /\ Head(queue) \in Entry
           /\ Tail(queue) \in Seq(Entry)
           /\ Head(queue).number \in Nat
           /\ Head(queue).number <= high
           /\ InOrder(Tail(queue), Head(queue).number, high)
<1>1. /\ Head(queue) \in Entry /\ Tail(queue) \in Seq(Entry)
      /\ Len(Tail(queue)) = Len(queue) - 1
      /\ \A i \in 1 .. Len(Tail(queue)) : Tail(queue)[i] = queue[i + 1]
  BY HeadTailProperties
<1>2. Len(queue) \in Nat /\ Len(queue) >= 1
  BY EmptySeq
<1>3. Head(queue) = queue[1]
  OBVIOUS
<1>4. \A i \in 1 .. Len(queue) : queue[i].number \in Nat
  BY NumbersAreNat
<1> DEFINE tail == Tail(queue)
<1>5. \A i \in 1 .. Len(tail) : tail[i] = queue[i + 1] /\ i + 1 \in 1 .. Len(queue)
  BY <1>1, <1>2
<1>6. InOrder(tail, queue[1].number, high)
  <2> HIDE DEF tail
  <2>1. ASSUME NEW i \in 1 .. Len(tail)
        PROVE  queue[1].number < tail[i].number /\ tail[i].number <= high
    <3>1. i + 1 \in 1 .. Len(queue) /\ 1 \in 1 .. Len(queue) /\ 1 < i + 1
      BY <1>2, <1>5
    <3> QED
      BY <1>5, <3>1 DEF InOrder
  <2>2. ASSUME NEW i \in 1 .. Len(tail), NEW j \in 1 .. Len(tail), i < j
        PROVE  tail[i].number < tail[j].number
    <3>1. /\ i + 1 \in 1 .. Len(queue) /\ j + 1 \in 1 .. Len(queue)
          /\ i + 1 < j + 1
      BY <1>5, <2>2
    <3> QED
      BY <1>5, <3>1 DEF InOrder
  <2> QED
    BY <2>1, <2>2 DEF InOrder
<1> QED
  BY <1>1, <1>2, <1>3, <1>4, <1>6 DEF InOrder

LEMMA BehindInOrder ==
    ASSUME NEW queue \in Seq(Entry), NEW new \in Seq(Entry),
           NEW low \in Nat, NEW high \in Nat, low <= high,
           InOrder(queue, low, high),
           \A i \in 1 .. Len(new) : new[i].number = high + i
    PROVE  InOrder(queue \o new, low, high + Len(new))
<1> DEFINE n == Len(queue)
           k == Len(new)
           both == queue \o new
<1>1. n \in Nat /\ k \in Nat
  BY LenProperties
<1>2. Len(both) = n + k
  BY ConcatProperties
<1>3. \A i \in 1 .. n + k : both[i] = IF i <= n THEN queue[i] ELSE new[i - n]
  BY ConcatProperties
<1>4. \A i \in 1 .. n : queue[i].number \in Nat
  BY NumbersAreNat
<1>5. \A i \in 1 .. n : low < queue[i].number /\ queue[i].number <= high
  BY DEF InOrder
<1>6. \A i, j \in 1 .. n : i < j => queue[i].number < queue[j].number
  BY DEF InOrder
<1>7. \A i \in 1 .. k : new[i].number = high + i
  OBVIOUS
<1> HIDE DEF both, n, k
<1>8. ASSUME NEW i \in 1 .. n + k
      PROVE  \/ i \in 1 .. n /\ both[i].number = queue[i].number
             \/ i - n \in 1 .. k /\ both[i].number = high + (i - n)
  <2>1. CASE i <= n
    BY <1>1, <1>3, <2>1
  <2>2. CASE ~(i <= n)
    <3>1. i - n \in 1 .. k
      BY <1>1, <2>2
    <3>2. both[i] = new[i - n]
      BY <1>3, <2>2
    <3> QED
      BY <1>7, <3>1, <3>2
  <2> QED
    BY <2>1, <2>2
<1>9. ASSUME NEW i \in 1 .. n + k
      PROVE  low < both[i].number /\ both[i].number <= high + k
  <2>1. CASE i \in 1 .. n /\ both[i].number = queue[i].number
    BY <1>1, <1>4, <1>5, <2>1
  <2>2. CASE i - n \in 1 .. k /\ both[i].number = high + (i - n)
    BY <1>1, <2>2
  <2> QED
    BY <1>8, <2>1, <2>2
<1>10. ASSUME NEW i \in 1 .. n + k, NEW j \in 1 .. n + k, i < j
       PROVE  both[i].number < both[j].number
  <2>1. CASE j \in 1 .. n /\ both[j].number = queue[j].number
    <3>1. i \in 1 .. n /\ ~(i - n \in 1 .. k)
      BY <1>1, <1>10, <2>1
    <3> QED
      BY <1>6, <1>8, <1>10, <2>1, <3>1
  <2>2. CASE j - n \in 1 .. k /\ both[j].number = high + (j - n)
    <3>1. CASE i \in 1 .. n /\ both[i].number = queue[i].number
      BY <1>1, <1>4, <1>5, <2>2, <3>1
    <3>2. CASE i - n \in 1 .. k /\ both[i].number = high + (i - n)
      BY <1>1, <1>10, <2>2, <3>2
    <3> QED
      BY <1>8, <3>1, <3>2
  <2> QED
    BY <1>8, <2>1, <2>2
<1>11. InOrder(both, low, high + k)
  BY <1>2, <1>9, <1>10 DEF InOrder
<1> QED
  BY <1>11 DEF both, k

LEMMA EntriesOK ==
    ASSUME NEW line \in CommandLine, parsed \in Nat
    PROVE  /\ Entries(line.commands) \in Seq(Entry)
           /\ Len(Entries(line.commands)) = Len(line.commands)
           /\ Len(line.commands) \in Nat
           /\ \A i \in 1 .. Len(line.commands) :
                 Entries(line.commands)[i].number = parsed + i
<1> DEFINE cs == line.commands
<1>1. cs \in Seq(Commands) /\ Len(cs) \in Nat
  BY LenProperties DEF CommandLine
<1>2. \A i \in 1 .. Len(cs) : cs[i] \in Commands
  BY <1>1, ElementOfSeq
<1> QED
  BY <1>1, <1>2, IsASeq DEF Entries, Entry

-----------------------------------------------------------------------------
(***************************************************************************)
(* The steps of the session.                                               *)
(***************************************************************************)

LEMMA SubmitCommandsStep ==
    ASSUME SessionInv, NEW line \in CommandLines, SubmitCommands(line)
    PROVE  SessionInv'
<1>1. line \in CommandLine
  BY AndroidSessionAssumption
<1>2. /\ queued_commands' = queued_commands \o Entries(line.commands)
      /\ parsed' = parsed + Len(line.commands)
      /\ call' = "commands"
      /\ pending_text_command = NoCommand
      /\ UNCHANGED <<vars, pending_text_command, pending_text_lines, taken>>
  BY DEF SubmitCommands, QueueBehind
<1>3. IInv'
  BY <1>2, RuntimeUnchanged DEF SessionInv
<1>4. /\ queued_commands \in Seq(Entry) /\ parsed \in Nat /\ taken \in Nat
      /\ taken <= parsed /\ InOrder(queued_commands, taken, parsed)
  BY DEF SessionInv, SessionTypeOK, CommandsKeepTheirOrder
<1>5. /\ queued_commands' \in Seq(Entry) /\ parsed' \in Nat
      /\ taken' <= parsed'
      /\ CommandsKeepTheirOrder'
  <2>1. InOrder(queued_commands', taken, parsed')
    BY <1>1, <1>2, <1>4, EntriesOK, BehindInOrder
  <2>2. queued_commands' \in Seq(Entry)
    BY <1>1, <1>2, <1>4, EntriesOK, ConcatProperties
  <2> QED
    BY <1>1, <1>2, <1>4, <2>1, <2>2, EntriesOK DEF CommandsKeepTheirOrder
<1> QED
  BY <1>2, <1>3, <1>5 DEF SessionInv, SessionTypeOK, IInv, WaitingIsIdle

LEMMA SubmitWrongLineStep ==
    ASSUME SessionInv, NEW line \in CommandLines, SubmitWrongLine(line)
    PROVE  SessionInv'
<1>1. IInv'
  BY RuntimeUnchanged DEF SubmitWrongLine, SessionInv
<1> QED
  BY <1>1, EmptyInOrder, EmptySeq
  DEF SubmitWrongLine, SessionInv, SessionTypeOK, IInv, WaitingIsIdle,
      CommandsKeepTheirOrder

LEMMA SubmitTextStep ==
    ASSUME SessionInv, NEW text \in Text, SubmitText(text)
    PROVE  SessionInv'
<1>1. IInv'
  BY RuntimeUnchanged DEF SubmitText, SessionInv
<1>2. pending_text_lines' \in Seq(Text)
  BY AppendProperties DEF SubmitText, SessionInv, SessionTypeOK
<1> QED
  BY <1>1, <1>2
  DEF SubmitText, SessionInv, SessionTypeOK, IInv, WaitingIsIdle, Idle,
      CommandsKeepTheirOrder, vars, registers

LEMMA SubmitEndOfTextStep ==
    ASSUME SessionInv, SubmitEndOfText
    PROVE  SessionInv'
<1>1. IInv'
  BY ExecuteTextStep DEF SubmitEndOfText, SessionInv, SessionTypeOK
<1> QED
  BY <1>1, EmptySeq
  DEF SubmitEndOfText, SessionInv, SessionTypeOK, IInv, WaitingIsIdle,
      CommandsKeepTheirOrder

\* Taking the front of the queue.
LEMMA TakeFrontStep ==
    ASSUME SessionInv, LoopGoesOn, TakeFront, UNCHANGED parsed
    PROVE  /\ Front \in Entry
           /\ queued_commands' \in Seq(Entry)
           /\ taken' \in Nat
           /\ taken' <= parsed'
           /\ CommandsKeepTheirOrder'
BY TailInOrder
DEF SessionInv, SessionTypeOK, LoopGoesOn, TakeFront, Front,
    CommandsKeepTheirOrder

LEMMA TakeAllStep ==
    ASSUME SessionInv, LoopGoesOn, TakeAll, UNCHANGED parsed
    PROVE  /\ queued_commands' \in Seq(Entry)
           /\ taken' \in Nat
           /\ taken' <= parsed'
           /\ CommandsKeepTheirOrder'
BY TailInOrder, EmptyInOrder, EmptySeq
DEF SessionInv, SessionTypeOK, LoopGoesOn, TakeAll, Front,
    CommandsKeepTheirOrder

LEMMA SuspendForTextStep ==
    ASSUME SessionInv, SuspendForText
    PROVE  SessionInv'
<1>1. IInv'
  BY RuntimeUnchanged DEF SuspendForText, SessionInv
<1>2. LoopGoesOn /\ TakeFront /\ UNCHANGED parsed /\ UNCHANGED vars
  BY DEF SuspendForText
<1>3. Idle'
  BY <1>2 DEF SuspendForText, LoopGoesOn, Idle, vars, registers
<1> QED
  BY <1>1, <1>2, <1>3, TakeFrontStep, EmptySeq
  DEF SuspendForText, SessionInv, SessionTypeOK, IInv, WaitingIsIdle

\* During a call no command waits for its text, before and after a step of
\* the loop.
LEMMA LoopStepWaitsForNoText ==
    ASSUME SessionInv, call # "none", GoOn \/ Abandon
    PROVE  /\ pending_text_command' = NoCommand
           /\ pending_text_lines' = <<>>
           /\ call' \in {"none", "commands", "text"}
           /\ UNCHANGED parsed
BY DEF SessionInv, SessionTypeOK, WaitingIsIdle, Idle, GoOn, Abandon

LEMMA RunCommandStep ==
    ASSUME SessionInv, RunCommand
    PROVE  SessionInv'
<1>1. IInv'
  BY ExecuteIsNext, NextIInv DEF RunCommand, SessionInv
<1>2. /\ pending_text_command' = NoCommand
      /\ pending_text_lines' = <<>>
      /\ call' \in {"none", "commands", "text"}
      /\ UNCHANGED parsed
  BY LoopStepWaitsForNoText DEF RunCommand
<1>3. LoopGoesOn /\ (TakeFront \/ TakeAll)
  BY DEF RunCommand
<1>4. /\ queued_commands' \in Seq(Entry)
      /\ taken' \in Nat /\ taken' <= parsed'
      /\ CommandsKeepTheirOrder'
  BY <1>2, <1>3, TakeFrontStep, TakeAllStep
<1> QED
  BY <1>1, <1>2, <1>4, EmptySeq
  DEF SessionInv, SessionTypeOK, IInv, WaitingIsIdle

LEMMA ContinueCommandStep ==
    ASSUME SessionInv, ContinueCommand
    PROVE  SessionInv'
<1>1. IInv'
  BY NextIInv DEF ContinueCommand, SessionInv
<1>2. /\ pending_text_command' = NoCommand
      /\ pending_text_lines' = <<>>
      /\ call' \in {"none", "commands", "text"}
      /\ UNCHANGED parsed
  BY LoopStepWaitsForNoText DEF ContinueCommand
<1>3. /\ UNCHANGED taken
      /\ queued_commands' = queued_commands \/ queued_commands' = <<>>
  BY DEF ContinueCommand
<1>4. queued_commands' \in Seq(Entry) /\ CommandsKeepTheirOrder'
  BY <1>2, <1>3, EmptySeq, EmptyInOrder
  DEF SessionInv, SessionTypeOK, CommandsKeepTheirOrder
<1> QED
  BY <1>1, <1>2, <1>3, <1>4, EmptySeq
  DEF SessionInv, SessionTypeOK, IInv, WaitingIsIdle

LEMMA ReturnStep ==
    ASSUME SessionInv, Return
    PROVE  SessionInv'
<1>1. IInv'
  BY RuntimeUnchanged DEF Return, SessionInv
<1> QED
  BY <1>1
  DEF Return, SessionInv, SessionTypeOK, IInv, WaitingIsIdle, Idle,
      CommandsKeepTheirOrder

LEMMA ResetStep ==
    ASSUME SessionInv, Reset
    PROVE  SessionInv'
<1>1. IInv'
  <2>1. ManagerCore(mgr)'
    BY InitialManagerOK, ManagerParts DEF Reset
  <2>2. TypeOK'
    <3>1. counter' \in Int
      BY DEF Reset
    <3> QED
      BY <2>1, <3>1, EmptySeq DEF Reset, SessionInv, IInv, TypeOK, ManagerCore
  <2> QED
    BY <2>1, <2>2 DEF Reset, IInv, GlobalPosition
<1> QED
  BY <1>1, EmptySeq, EmptyInOrder
  DEF Reset, SessionInv, SessionTypeOK, IInv, WaitingIsIdle,
      CommandsKeepTheirOrder

-----------------------------------------------------------------------------
(***************************************************************************)
(* The theorems.                                                           *)
(***************************************************************************)

LEMMA SessionInitInv == SessionInit => SessionInv
BY InitIInv, EmptySeq, EmptyInOrder
DEF SessionInit, SessionInv, SessionTypeOK, IInv, WaitingIsIdle,
    CommandsKeepTheirOrder

LEMMA SessionNextInv == SessionInv /\ [SessionNext]_allvars => SessionInv'
<1> SUFFICES ASSUME SessionInv, [SessionNext]_allvars PROVE SessionInv'
  OBVIOUS
<1>1. CASE UNCHANGED allvars
  <2>1. IInv'
    BY <1>1, RuntimeUnchanged DEF allvars, SessionInv
  <2> QED
    BY <1>1, <2>1
    DEF allvars, session, vars, registers, SessionInv, SessionTypeOK, IInv,
        WaitingIsIdle, Idle, CommandsKeepTheirOrder
<1>2. CASE Submit
  BY <1>2, SubmitCommandsStep, SubmitWrongLineStep, SubmitTextStep,
     SubmitEndOfTextStep DEF Submit
<1>3. CASE Run
  BY <1>3, SuspendForTextStep, RunCommandStep, ContinueCommandStep, ReturnStep
  DEF Run
<1>4. CASE Reset
  BY <1>4, ResetStep
<1> QED
  BY <1>1, <1>2, <1>3, <1>4 DEF SessionNext

LEMMA SessionInvariance == SessionSpec => []SessionInv
BY SessionInitInv, SessionNextInv, PTL DEF SessionSpec

\* Whatever is submitted, the state of a session keeps its type.
THEOREM SessionTypeCorrect == SessionSpec => []SessionTypeOK
<1>1. SessionInv => SessionTypeOK
  BY DEF SessionInv
<1> QED
  BY <1>1, SessionInvariance, PTL

\* Suspended, resumed or left behind by a failure, the commands of a session
\* run in the order they were submitted, each of them once at most.
THEOREM QueueIsOrdered == SessionSpec => []CommandsKeepTheirOrder
<1>1. SessionInv => CommandsKeepTheirOrder
  BY DEF SessionInv
<1> QED
  BY <1>1, SessionInvariance, PTL

\* A session that has ended asks for no text.
THEOREM NoTextAfterExit == SessionSpec => []EndedSessionWantsNoText
<1>1. SessionInv => EndedSessionWantsNoText
  BY DEF SessionInv, WaitingIsIdle, Idle, EndedSessionWantsNoText
<1> QED
  BY <1>1, SessionInvariance, PTL

\* The disposable buffers, as IInv leaves them out.
LEMMA SessionNextTidy ==
    SessionInv /\ TransientsAreCurrent /\ [SessionNext]_allvars => TransientsAreCurrent'
<1> SUFFICES ASSUME SessionInv, TransientsAreCurrent, [SessionNext]_allvars
             PROVE  TransientsAreCurrent'
  OBVIOUS
<1>1. IInv
  BY DEF SessionInv
<1>2. CASE UNCHANGED vars
  BY <1>1, <1>2, NextTidy
<1>3. CASE Next
  BY <1>1, <1>3, NextTidy
<1>4. CASE SubmitEndOfText
  <2>1. EditsCurrent
    BY <1>4, TextCommandsEditCurrent DEF SubmitEndOfText
  <2> QED
    BY <1>1, <2>1, EditsCurrentTidy
<1>5. CASE Reset
  BY <1>5, InitialManagerOK, ManagerParts DEF Reset, TransientsAreCurrent
<1>6. CASE UNCHANGED allvars
  BY <1>2, <1>6 DEF allvars
<1>7. CASE Submit /\ ~SubmitEndOfText
  BY <1>2, <1>7 DEF Submit, SubmitCommands, SubmitWrongLine, SubmitText
<1>8. CASE Run
  BY <1>2, <1>3, <1>8, ExecuteIsNext
  DEF Run, SuspendForText, RunCommand, ContinueCommand, Return
<1> QED
  BY <1>4, <1>5, <1>6, <1>7, <1>8 DEF SessionNext

\* The runtime is as safe under the session's queue as it is by itself: the
\* text blocks come from the user, line by line, and Reset starts over.
THEOREM SessionKeepsTheRuntimeSafe ==
    SessionSpec => [](/\ CursorsInBuffers /\ CleanBuffersAreSaved
                      /\ CurrentBufferIsOpen /\ UsageListIsSound
                      /\ TransientsAreCurrent)
<1>1. SessionInv => /\ CursorsInBuffers /\ CleanBuffersAreSaved
                    /\ CurrentBufferIsOpen /\ UsageListIsSound
  BY DEF SessionInv, IInv, ManagerCore, BuffersOK, BufferOK, CursorsInBuffers,
         CleanBuffersAreSaved, CurrentBufferIsOpen, UsageListIsSound
<1>2. SessionInit => TransientsAreCurrent
  BY InitialManagerOK, ManagerParts DEF SessionInit, Init, TransientsAreCurrent
<1> QED
  BY <1>1, <1>2, SessionNextTidy, SessionInvariance, PTL DEF SessionSpec

=============================================================================
