---------------------------- MODULE AndroidSession ----------------------------
(***************************************************************************)
(* The Android front end: one native session, and the lines its user       *)
(* submits.  A line is parsed as a whole into a queue; the commands of the *)
(* queue go to the executor one by one, until the queue is empty, a        *)
(* command asks to exit, a command throws, or A, I or C suspends the rest  *)
(* and the lines that follow, up to \F, become its text.                   *)
(*                                                                         *)
(* The session's mutex is held during a call: `call` tells which call is   *)
(* in progress.  Lines without effect on the state (help, version, empty   *)
(* ones, those submitted after the exit) are no steps.  Lines that call a  *)
(* procedure buffer are left out.                                          *)
(***************************************************************************)
EXTENDS CommandExecutor

CONSTANTS CommandLines,   \* the lines of commands the user submits
          NoCommand,      \* no text command is pending
          MaxQueued,      \* bound: commands parsed since the session began
          MaxBlock        \* bound: lines of text submitted for one command

CommandLine == [commands : Seq(Commands), parses : BOOLEAN]

ASSUME AndroidSessionAssumption ==
    /\ CommandLines \subseteq CommandLine
    /\ NoCommand \notin Commands
    /\ MaxQueued \in Nat
    /\ MaxBlock \in Nat

VARIABLES
    pending_text_command,   \* the A, I or C that waits for its text
    pending_text_lines,     \* the text it has so far
    queued_commands,        \* the parsed commands that have not been taken
    call,                   \* "none", "commands" or "text": executeLine()
    parsed,                 \* history: how many commands were parsed
    taken                   \* history: the number of the last one taken

session ==
    <<pending_text_command, pending_text_lines, queued_commands, call,
      parsed, taken>>
allvars == <<vars, session>>

\* A command in the queue, with its place in the order of submission.
Entry == [command : Commands, number : Nat]

SessionInit ==
    /\ Init
    /\ pending_text_command = NoCommand
    /\ pending_text_lines = <<>>
    /\ queued_commands = <<>>
    /\ call = "none"
    /\ parsed = 0
    /\ taken = 0

-----------------------------------------------------------------------------
(***************************************************************************)
(* executeLine(): what the user submits.                                   *)
(***************************************************************************)

Idle == call = "none" /\ exit = "no"

Entries(commands) ==
    [i \in 1 .. Len(commands) |->
        [command |-> commands[i], number |-> parsed + i]]

\* Mutant: the new commands go before those that are still queued.
QueueInFront(commands) ==
    /\ queued_commands' = Entries(commands) \o queued_commands
    /\ parsed' = parsed + Len(commands)

QueueBehind(commands) ==
    /\ queued_commands' = queued_commands \o Entries(commands)
    /\ parsed' = parsed + Len(commands)

\* The line is parsed before any of its commands runs.
SubmitCommands(line) ==
    /\ Idle
    /\ pending_text_command = NoCommand
    /\ line.parses
    /\ parsed + Len(line.commands) <= MaxQueued
    /\ QueueBehind(line.commands)
    /\ call' = "commands"
    /\ UNCHANGED <<vars, pending_text_command, pending_text_lines, taken>>

\* A line that does not expand or parse takes the queue with it.
SubmitWrongLine(line) ==
    /\ Idle
    /\ pending_text_command = NoCommand
    /\ ~line.parses
    /\ queued_commands' = <<>>
    /\ pending_text_lines' = <<>>
    /\ UNCHANGED <<vars, pending_text_command, call, parsed, taken>>

SubmitText(text) ==
    /\ Idle
    /\ pending_text_command # NoCommand
    /\ Len(pending_text_lines) < MaxBlock
    /\ pending_text_lines' = Append(pending_text_lines, text)
    /\ UNCHANGED <<vars, pending_text_command, queued_commands, call,
                   parsed, taken>>

\* \F: the text command is executed.  When it throws, nothing catches the
\* exception in this branch of execute_line(), and the queue is kept.
SubmitEndOfText ==
    /\ Idle
    /\ pending_text_command # NoCommand
    /\ ExecuteText(pending_text_command, pending_text_lines)
    /\ pending_text_command' = NoCommand
    /\ pending_text_lines' = <<>>
    /\ call' = IF outcome' = "error" THEN "none" ELSE "text"
    /\ UNCHANGED <<queued_commands, parsed, taken>>

-----------------------------------------------------------------------------
(***************************************************************************)
(* run_queued_commands().                                                  *)
(***************************************************************************)

\* Mutant: the loop does not look at the exit request.
LoopIgnoresExit == queued_commands # <<>>

LoopGoesOn == queued_commands # <<>> /\ exit = "no"

Front == Head(queued_commands)

\* Mutant: the front of the queue is read and left there.
LeaveFront ==
    /\ taken' = Front.number
    /\ UNCHANGED queued_commands

\* The front is taken, and what is behind it is thrown away.
TakeAll ==
    /\ taken' = Front.number
    /\ queued_commands' = <<>>

TakeFront ==
    /\ taken' = Front.number
    /\ queued_commands' = Tail(queued_commands)

\* A, I and C: their text comes with the lines submitted next.
SuspendForText ==
    /\ call # "none"
    /\ ~Busy
    /\ LoopGoesOn
    /\ Front.command \in TextCommands
    /\ pending_text_command' = Front.command
    /\ pending_text_lines' = <<>>
    /\ TakeFront
    /\ call' = "none"
    /\ UNCHANGED <<vars, parsed>>

\* An exception ends the call: with the clean-up of execute_line() for a line
\* of commands, without it after \F.
GoOn == UNCHANGED <<pending_text_command, pending_text_lines, call, parsed>>

Abandon ==
    /\ pending_text_command' = NoCommand
    /\ pending_text_lines' = <<>>
    /\ call' = "none"
    /\ UNCHANGED parsed

RunCommand ==
    /\ call # "none"
    /\ ~Busy
    /\ LoopGoesOn
    /\ Front.command \notin TextCommands
    /\ Execute(Front.command)
    /\ \/ ~Thrown /\ TakeFront /\ GoOn
       \/ Thrown /\ call = "text" /\ TakeFront /\ Abandon
       \/ Thrown /\ call = "commands" /\ TakeAll /\ Abandon

\* G and ZG have steps of their own.
ContinueCommand ==
    /\ call # "none"
    /\ Busy
    /\ Next
    /\ \/ ~Thrown /\ GoOn /\ UNCHANGED queued_commands
       \/ Thrown /\ call = "text"     /\ Abandon /\ UNCHANGED queued_commands
       \/ Thrown /\ call = "commands" /\ Abandon /\ queued_commands' = <<>>
    /\ UNCHANGED taken

Return ==
    /\ call # "none"
    /\ ~Busy
    /\ ~LoopGoesOn
    /\ call' = "none"
    /\ UNCHANGED <<vars, pending_text_command, pending_text_lines,
                   queued_commands, parsed, taken>>

-----------------------------------------------------------------------------
(***************************************************************************)
(* The specification.                                                      *)
(***************************************************************************)

\* The Reset button: the session is destroyed and a new one is created,
\* whatever the old one held.  Files stay.
Reset ==
    /\ call = "none"
    /\ mgr' = InitialManager
    /\ counter' = 0
    /\ condition' = FALSE
    /\ options' = [input_parentheses |-> TRUE, monitor |-> FALSE]
    /\ exit' = "no"
    /\ sinks' = <<>>
    /\ global' = NoGlobal
    /\ outcome' = "none"
    /\ pending_text_command' = NoCommand
    /\ pending_text_lines' = <<>>
    /\ queued_commands' = <<>>
    /\ call' = "none"
    /\ parsed' = 0
    /\ taken' = 0
    /\ UNCHANGED disk

Submit ==
    \/ \E line \in CommandLines : SubmitCommands(line) \/ SubmitWrongLine(line)
    \/ \E text \in Text : SubmitText(text)
    \/ SubmitEndOfText

Run == SuspendForText \/ RunCommand \/ ContinueCommand \/ Return

SessionNext == Submit \/ Run \/ Reset

SessionSpec == SessionInit /\ [][SessionNext]_allvars

\* The thread that entered executeLine() runs on until it returns.
FairSession == SessionSpec /\ WF_allvars(Run)

-----------------------------------------------------------------------------
(***************************************************************************)
(* Properties.                                                             *)
(***************************************************************************)

\* The state of a session; the executor's own is TypeOK.
SessionTypeOK ==
    /\ TypeOK
    /\ pending_text_command \in {NoCommand} \cup TextCommands
    /\ pending_text_lines \in Seq(Text)
    /\ queued_commands \in Seq(Entry)
    /\ call \in {"none", "commands", "text"}
    /\ parsed \in Nat
    /\ taken \in Nat

\* The numbers in the queue increase, above `low` and up to `high`.
InOrder(queue, low, high) ==
    /\ \A i \in 1 .. Len(queue) :
          low < queue[i].number /\ queue[i].number <= high
    /\ \A i, j \in 1 .. Len(queue) :
          i < j => queue[i].number < queue[j].number

\* Commands are taken in the order they were submitted, none of them twice,
\* although a text command may suspend the queue and failed lines may leave
\* commands in it that are joined by those of later lines.
CommandsKeepTheirOrder == InOrder(queued_commands, taken, parsed)

\* A session that has ended asks for no text: the prompt is "[Q] " and never
\* "text> ", and no line was collected for a command that will not run.
EndedSessionWantsNoText ==
    exit # "no" => pending_text_command = NoCommand /\ pending_text_lines = <<>>

\* Every submitted line is answered: the chain of commands ends, whatever
\* they do, and the mutex is released.
LinesAreAnswered == call # "none" ~> call = "none"

\* ANDROID.md, section 16: a failure clears the queue.  So between two lines
\* commands are queued only behind a text command that waits for its text.
FailureClearsTheQueue ==
    Idle /\ pending_text_command = NoCommand => queued_commands = <<>>

=============================================================================
