--------------------------- MODULE CommandReader ---------------------------
(***************************************************************************)
(* The front ends read the commands of a line one at a time, and have each *)
(* executed before the next is read (main.cpp, and                         *)
(* ProcedureRunner::execute_single_command).                               *)
(***************************************************************************)
EXTENDS CommandParser

CONSTANTS Chains,      \* chains of commands that are typed
          LinesOf(_),  \* the lines that hold a chain
          Fragments    \* other lines

VARIABLES line,     \* the characters of the line
          typed,    \* the commands the line is to hold, if it is a chain
          tokens,   \* its tokens
          position, \* the next token
          commands, \* the commands read
          status    \* how the reading stands

vars == <<line, typed, tokens, position, commands, status>>

Unknown == <<>>

Init ==
    /\ typed \in Chains \cup { Unknown }
    /\ line \in IF typed = Unknown THEN Fragments ELSE LinesOf(typed)
    /\ tokens = Tokens(line)
    /\ position = 1 /\ commands = <<>> /\ status = "reading"

AtEndOfLine == tokens[position].type = "End"

\* The command is executed with success; Q and QQ that succeed end it all.
ReadCommand ==
    /\ status = "reading" /\ ~AtEndOfLine
    /\ \E read \in { ParseOne(tokens, position) } :
          /\ read.ok
          /\ commands' = Append(commands, read.node)
          /\ position' = read.next
          /\ status' = IF read.node.command = "Q" THEN "left" ELSE "reading"
    /\ UNCHANGED <<line, typed, tokens>>

\* The parser throws, and the rest of the line is dropped.
RefuseLine ==
    /\ status = "reading" /\ ~AtEndOfLine
    /\ ~ParseOne(tokens, position).ok
    /\ status' = "refused"
    /\ UNCHANGED <<line, typed, tokens, position, commands>>

\* The execution of the command read last throws, and the rest of the line is dropped.
FailCommand ==
    /\ status = "reading" /\ commands # <<>>
    /\ status' = "failed"
    /\ UNCHANGED <<line, typed, tokens, position, commands>>

FinishLine ==
    /\ status = "reading" /\ AtEndOfLine
    /\ status' = "done"
    /\ UNCHANGED <<line, typed, tokens, position, commands>>

Next == ReadCommand \/ RefuseLine \/ FailCommand \/ FinishLine

Spec == Init /\ [][Next]_vars
============================================================================
