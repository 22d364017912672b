------------------------------- MODULE FrontEnd -------------------------------
(***************************************************************************)
(* The command line front end: main().  Started without an argument it     *)
(* prompts; started with the name of a procedure it first makes three      *)
(* buffers (the date, the time, the user), runs the user's init file in a  *)
(* buffer of its own, which it removes, puts the other arguments into      *)
(* buffer 0, and runs the procedure.  A procedure that fails ends at the   *)
(* prompt, with everything as it was; whatever fails before it ends the    *)
(* process with status 1.                                                  *)
(*                                                                         *)
(* At the prompt a typed line is what the parser makes of it: a chain of   *)
(* commands, a call (\B(name) on its own), or nothing (`?` and the `:`     *)
(* commands of the developers, which change no state).                     *)
(***************************************************************************)
EXTENDS ProcedureRunner, FiniteSets

CONSTANTS DateBuffer, TimeBuffer, UserBuffer,  \* d, t and u
          InitBuffer,      \* __init, where the init file runs
          ScriptBuffer,    \* `.`, where the procedure runs
          Environment,     \* the line of each of d, t and u
          Candidates,      \* the files a requested procedure may be in, in order
          NoRequest,       \* no argument was given
          NoInit,          \* FREDPP_INIT is empty, or there is no home
          Starts,          \* the ways the process may be started
          TypedLines       \* the lines the user types, as their steps

SpecialBuffers == {DateBuffer, TimeBuffer, UserBuffer}

\* The init file, and whether FREDPP_INIT names it or it is the default one.
InitLocation == [file : Files, named : BOOLEAN]

Requests == DOMAIN Candidates

Start == [ request    : Requests \cup {NoRequest},
           parameters : Seq(Text),
           init       : InitLocation \cup {NoInit} ]

ASSUME FrontEndAssumption ==
    /\ SpecialBuffers \cup {InitBuffer, ScriptBuffer} \subseteq Names \ TooLong
    /\ Cardinality(SpecialBuffers \cup {Zero}) = 4
    /\ InitBuffer \notin SpecialBuffers \cup {Zero}
    /\ ScriptBuffer \notin SpecialBuffers \cup {Zero, InitBuffer}
    /\ Environment \in [SpecialBuffers -> Text]
    /\ Candidates \in [Requests -> Seq(Files)]
    /\ Starts \subseteq Start
    /\ TypedLines \subseteq Seq(Step)
    /\ InitialBuffers = InitialManager
    /\ MaximumDepth > 0

VARIABLES
    stage,    \* how far main() is
    start,    \* the arguments and the environment
    typed,    \* what is left of the line typed at the prompt
    status    \* what the process returned, once it has ended

front == <<stage, start, typed, status>>
process == <<allvars, front>>

Stages == {"start", "init", "in init", "parameters", "procedure",
           "in procedure", "prompt", "ended"}

FrontEndInit ==
    /\ RunnerInit
    /\ stage = "start"
    /\ start \in Starts
    /\ typed = <<>>
    /\ status = 0

Enter(next) == stage' = next /\ UNCHANGED <<start, typed, status>>

\* Mutant: failures return -1.
EndNegated(code) ==
    /\ stage' = "ended"
    /\ status' = -code
    /\ typed' = <<>>
    /\ UNCHANGED start

End(code) ==
    /\ stage' = "ended"
    /\ status' = code
    /\ typed' = <<>>
    /\ UNCHANGED start

\* Nothing runs: main() has the control.
Idle == ~Running /\ ~Busy

-----------------------------------------------------------------------------
(***************************************************************************)
(* The buffers of the start-up.                                            *)
(***************************************************************************)

\* Mutant: only an association with a file is looked at.
UnfiledOnly(b) == b.file = NoFile

\* The buffers the start-up fills must be as a new one is.
Untouched(b) == IsEmpty(b) /\ ~b.modified /\ b.file = NoFile

\* One special buffer: filled, and selected so that FB lists it.
WithSpecial(m, name) ==
    LET made == GetOrCreate(m, name)
    IN Select(Put(made, name, AppendLines(made.buffers[name], <<Environment[name]>>)),
              name)

Bootstrapped(m) ==
    Select(WithSpecial(WithSpecial(WithSpecial(m, DateBuffer), TimeBuffer),
                       UserBuffer),
           UserBuffer)

\* Without an argument there is no bootstrap.  The clock may fail.  (Nothing
\* has run yet, so the special buffers are always new.)
BeginPrompt ==
    /\ stage = "start"
    /\ start.request = NoRequest
    /\ Enter("prompt")
    /\ UNCHANGED allvars

Bootstrap ==
    /\ stage = "start"
    /\ start.request # NoRequest
    /\ \/ mgr' = Bootstrapped(mgr) /\ Enter("init")
       \/ End(1) /\ UNCHANGED mgr
    /\ UNCHANGED <<disk, registers, sinks, global, outcome, runner>>

-----------------------------------------------------------------------------
(***************************************************************************)
(* Files of procedures.                                                    *)
(***************************************************************************)

\* Mutant: after a failure the new buffer stays the current one.
BackUnlessFailed(m, previous, failed) ==
    IF failed THEN m ELSE Select(m, previous)

\* select() throws when the buffer that was current is gone by now.
Back(m, previous, failed) ==
    IF previous \in Open(m) THEN Select(m, previous) ELSE m

\* load_and_execute_file(): R into a buffer of its own, then back to the
\* former one, then the call.  m is the manager before; R sets the counter
\* and the condition.
LoadScript(m, file, name) ==
    LET arrived == CreateOrSelect(m, name)
        b       == CurrentBuffer(arrived)
        loads   == Untouched(b) /\ Decodable(disk[file])
        failed  == ~loads \/ m.current \notin Open(arrived)
        filled  == IF loads THEN PutCurrent(arrived, Loaded(b, disk[file], file))
                            ELSE arrived
    IN /\ mgr' = Back(filled, m.current, failed)
       /\ counter' = IF loads THEN Len(disk[file].lines) ELSE counter
       /\ condition' = (loads \/ condition)
       /\ outcome' = CASE loads        -> "ok"
                        [] Untouched(b) -> "error"
                        [] OTHER        -> outcome
       /\ \/ ~failed /\ frames' = <<NewFrame(name)'>> /\ answer' = "none"
          \/ failed /\ frames' = <<>> /\ answer' = "error"
       /\ reported' = NoReport
       /\ UNCHANGED <<disk, options, exit, sinks, global, numeric_registers>>

-----------------------------------------------------------------------------
(***************************************************************************)
(* The user's init file.                                                   *)
(***************************************************************************)

InitFile == disk[start.init.file]

\* A default init file that is missing is no error.
SkipInit ==
    /\ stage = "init"
    /\ \/ start.init = NoInit
       \/ start.init # NoInit /\ ~start.init.named /\ InitFile = Absent
    /\ Enter("parameters")
    /\ UNCHANGED allvars

\* One that FREDPP_INIT names is.  What cannot be read may be no regular file.
\* (No command has run, so __init does not exist yet.)
RefuseInit ==
    /\ stage = "init"
    /\ start.init # NoInit
    /\ \/ start.init.named /\ InitFile = Absent
       \/ InitFile = Unreadable
    /\ End(1)
    /\ UNCHANGED allvars

LoadInit ==
    /\ stage = "init"
    /\ start.init # NoInit
    /\ InitFile # Absent
    /\ LoadScript(mgr, start.init.file, InitBuffer)
    /\ Enter("in init")

\* Mutant: the temporary buffer is kept.
WithInit(m) == {m}

\* The temporary buffer is removed, if it is still there.
WithoutInit(m) ==
    IF InitBuffer \in Open(m) THEN Erased(m, InitBuffer) ELSE {m}

\* The temporary buffer is removed however the init file ended.
EndInit ==
    /\ stage = "in init"
    /\ Idle
    /\ mgr' \in WithoutInit(mgr)
    /\ \/ answer = "error" /\ End(1)
       \/ answer # "error" /\ exit # "no" /\ End(0)
       \/ answer # "error" /\ exit = "no" /\ Enter("parameters")
    /\ UNCHANGED <<disk, registers, sinks, global, outcome, runner>>

-----------------------------------------------------------------------------
(***************************************************************************)
(* The arguments and the procedure.                                        *)
(***************************************************************************)

\* The first candidate that exists, if any does.
Resolved ==
    LET files == Candidates[start.request]
    IN { files[i] : i \in First({ j \in 1 .. Len(files) : disk[files[j]] # Absent }) }

\* One line of buffer 0 for each argument; none leaves it unmarked.
WithParameters(m) ==
    LET made == GetOrCreate(m, Zero)
    IN IF start.parameters = <<>> THEN made
       ELSE Put(made, Zero, AppendLines(made.buffers[Zero], start.parameters))

PassParameters ==
    /\ stage = "parameters"
    /\ LET fresh == Untouched(GetOrCreate(mgr, Zero).buffers[Zero])
       IN \/ fresh /\ Resolved # {} /\ mgr' = WithParameters(mgr) /\ Enter("procedure")
          \/ fresh /\ Resolved = {} /\ mgr' = WithParameters(mgr) /\ End(1)
          \/ ~fresh /\ UNCHANGED mgr /\ End(1)
    /\ UNCHANGED <<disk, registers, sinks, global, outcome, runner>>

\* Mutant: the procedure begins wherever the init file left off.
WhereInitEnded(m) == m

AtZero(m) == Select(m, Zero)

LoadProcedure ==
    /\ stage = "procedure"
    /\ \E file \in Resolved : LoadScript(AtZero(mgr), file, ScriptBuffer)
    /\ Enter("in procedure")

\* Mutant: a procedure that failed is started again.
EndMainRetries ==
    /\ stage = "in procedure"
    /\ Idle
    /\ \/ answer = "error" /\ Enter("procedure")
       \/ answer # "error" /\ End(0)
    /\ UNCHANGED allvars

\* A procedure that failed is left to the user.
EndMain ==
    /\ stage = "in procedure"
    /\ Idle
    /\ \/ answer = "error" /\ Enter("prompt")
       \/ answer # "error" /\ End(0)
    /\ UNCHANGED allvars

-----------------------------------------------------------------------------
(***************************************************************************)
(* The prompt.                                                             *)
(***************************************************************************)

AtPrompt == stage = "prompt" /\ Idle

TypeLine(steps) ==
    /\ AtPrompt
    /\ exit = "no"
    /\ typed = <<>>
    /\ typed' = steps
    /\ UNCHANGED <<allvars, stage, start, status>>

\* The rest of the line; an exception drops it.
Rest(steps) ==
    /\ typed' = IF Thrown THEN <<>> ELSE steps
    /\ UNCHANGED <<stage, start, status>>

\* The step of the typed line that is about to be made.
Making(kind) ==
    /\ AtPrompt
    /\ exit = "no"
    /\ typed # <<>>
    /\ Head(typed).kind = kind

TypedCommand ==
    /\ Making("command")
    /\ Head(typed).command \notin TextCommands
    /\ Execute(Head(typed).command)
    /\ Rest(Tail(typed))
    /\ UNCHANGED runner

\* The text of A, I and C is read up to \F.  At the end of the input the
\* command is cancelled, and the prompt finds nothing more to read.
TypedText ==
    /\ Making("command")
    /\ Head(typed).command \in TextCommands
    /\ \/ \E block \in Blocks :
            ExecuteText(Head(typed).command, block) /\ Rest(Tail(typed))
       \/ End(0) /\ UNCHANGED vars
    /\ UNCHANGED runner

TypedCall ==
    /\ Making("call")
    /\ CallProcedure(Head(typed).name)
    /\ typed' = <<>>
    /\ UNCHANGED <<stage, start, status>>

TypedError ==
    /\ Making("malformed")
    /\ typed' = <<>>
    /\ UNCHANGED <<allvars, stage, start, status>>

\* G and ZG have steps of their own.
ContinueTyped ==
    /\ stage = "prompt"
    /\ ~Running
    /\ Busy
    /\ Next
    /\ Rest(typed)
    /\ UNCHANGED runner

\* Mutant: the exit is not looked at after a call that returned.
SeesExitOfLines == answer # "ok"

SeesExit == TRUE

\* The loop ends when a command asked for it.
LeavePrompt ==
    /\ AtPrompt
    /\ exit # "no"
    /\ SeesExit
    /\ End(0)
    /\ UNCHANGED allvars

EndOfInput ==
    /\ AtPrompt
    /\ exit = "no"
    /\ typed = <<>>
    /\ End(0)
    /\ UNCHANGED allvars

-----------------------------------------------------------------------------
(***************************************************************************)
(* The specification.                                                      *)
(***************************************************************************)

\* Whatever runs, runs as a procedure of the runner.
RunScript == Run /\ UNCHANGED front

\* What the process does without the user.
Proceed ==
    \/ BeginPrompt \/ Bootstrap
    \/ SkipInit \/ RefuseInit \/ LoadInit \/ EndInit
    \/ PassParameters \/ LoadProcedure \/ EndMain
    \/ RunScript \/ TypedCommand \/ TypedCall \/ TypedError
    \/ ContinueTyped \/ LeavePrompt

FrontEndNext ==
    \/ Proceed \/ TypedText \/ EndOfInput
    \/ \E steps \in TypedLines : TypeLine(steps)

FrontEndSpec == FrontEndInit /\ [][FrontEndNext]_process

\* The process is scheduled; the user need not type.
FairFrontEnd == FrontEndSpec /\ WF_process(Proceed)

-----------------------------------------------------------------------------
(***************************************************************************)
(* Properties.                                                             *)
(***************************************************************************)

\* The state of the front end; the runner's own is RunnerTypeOK.
FrontEndTypeOK ==
    /\ RunnerTypeOK
    /\ stage \in Stages
    /\ start \in Start
    /\ typed \in Seq(Step)
    /\ status \in {0, 1}

\* The procedure begins in buffer 0, which holds the arguments and nothing
\* else, with the lines of its file, after the buffer of the init file is
\* gone: whatever the init file did, in whichever buffer it ended.
ProcedureStartsClean ==
    stage = "in procedure" /\ Running /\ frames[1].index = 0 =>
        /\ mgr.current = Zero
        /\ mgr.buffers[Zero].lines = start.parameters
        /\ InitBuffer \notin Open(mgr)
        /\ \E file \in Resolved : frames[1].lines = disk[file].lines

ScriptOf == IF stage = "init" THEN InitBuffer ELSE ScriptBuffer

\* Loading a file of procedures, done or failed, leaves every other buffer as
\* it was and is not left in the new one.
LoadsDisturbNothing ==
    [][ (LoadInit \/ LoadProcedure) =>
          /\ mgr'.current # ScriptOf
          /\ \A n \in Open(mgr) \ {ScriptOf} :
               n \in Open(mgr') /\ mgr'.buffers[n] = mgr.buffers[n] ]_process

\* From start to prompt or end: neither the init file nor the procedure, nor a
\* failure of either, leaves the process waiting for nobody.
StartsSettle == stage = "start" ~> stage \in {"prompt", "ended"}

\* Q and QQ end the process, wherever they come from: the init file, the
\* procedure, a typed line or a procedure called by one.
ExitEndsTheProcess == exit # "no" ~> stage = "ended"

=============================================================================
