------------------------------ MODULE MCFrontEnd ------------------------------
(***************************************************************************)
(* The values the run gives to the constants of FrontEnd; those of the     *)
(* executor are MCCommandExecutor's.  A line is the text a user would      *)
(* write, without the operands that the commands choose for themselves:    *)
(* B may go to any buffer, the one it runs in included.                    *)
(***************************************************************************)
EXTENDS MCCommandExecutor, FrontEnd, TLC

Command(c) == [kind |-> "command", command |-> c]
Call(name) == [kind |-> "call", name |-> name]
Wrong      == [kind |-> "malformed"]

AllBuffers == {"0", "d", "t", "u", "__init", ".", "x"}
AllFiles   == {"wander", "quit", "fail", "main", "end", "locked", "absent"}
UsualAddressOnly == {NoAddress}
NoLabels   == {}
NoRegister == {}

\* `wander` goes to any buffer and leaves a line there; `quit` asks to exit,
\* unless there is no line to delete; `fail` does not succeed, for Q is refused
\* while the special buffers are modified; `main` deletes a line, if there is
\* one, and calls itself, up to the limit; `end` ends by itself.
WanderScript == <<"B A", "a", "\\F">>
QuitScript   == <<"D", "QQ A">>
FailScript   == <<"Q">>
MainScript   == <<"D", "\\B(.)">>
EndScript    == <<"D">>

ScriptLines ==
    "" :> <<>>
    @@ "a"      :> <<>>
    @@ "now"    :> <<>>
    @@ "\\F"    :> <<Wrong>>
    @@ "B A"    :> <<Command("B"), Command("A")>>
    @@ "Q"      :> <<Command("Q")>>
    @@ "QQ A"   :> <<Command("QQ"), Command("A")>>
    @@ "D"      :> <<Command("D")>>
    @@ "\\B(.)" :> <<Call(".")>>

ScriptText     == DOMAIN ScriptLines
ScriptMeaning  == ScriptLines
NothingInclude == [t \in ScriptText |-> NoBuffer]
NothingLabels  == [t \in ScriptText |-> NoLabel]
TextEnd        == {"\\F"}

ImageOf(lines) == [lines |-> lines, final_newline |-> TRUE, bom |-> FALSE]

ScriptDisk ==
    [ f \in AllFiles |->
        CASE f = "wander" -> ImageOf(WanderScript)
          [] f = "quit"   -> ImageOf(QuitScript)
          [] f = "fail"   -> ImageOf(FailScript)
          [] f = "main"   -> ImageOf(MainScript)
          [] f = "end"    -> ImageOf(EndScript)
          [] f = "locked" -> Unreadable
          [] OTHER        -> Absent ]

\* `main` is found at its second place; there is a locked file; `nowhere`
\* has no file at all.
RequestedFiles ==
    "main" :> <<"absent", "main">> @@ "locked" :> <<"locked">>
    @@ "end" :> <<"end">> @@ "quit" :> <<"quit">> @@ "nowhere" :> <<"absent">>

Started(request, parameters, init) ==
    [request |-> request, parameters |-> parameters, init |-> init]

Named(file)   == [file |-> file, named |-> TRUE]
Default(file) == [file |-> file, named |-> FALSE]

StartsOfTheRun ==
    { Started(NoRequest, <<>>, NoInit),
      Started("nowhere", <<>>, NoInit),
      Started("main", <<>>, Named("absent")),
      Started("main", <<"a", "a">>, NoInit),
      Started("locked", <<"a">>, Default("absent")),
      Started("locked", <<>>, Default("locked")),
      Started("locked", <<>>, Named("wander")),
      Started("quit", <<>>, NoInit) }
      \cup { Started("end", <<"a">>, init) :
               init \in {Named("wander"), Default("quit"), Named("fail")} }
      \cup { Started("main", <<"a", "a">>, Default("wander")) }

SpecialLines == [b \in {"d", "t", "u"} |-> "now"]

\* A chain of commands, a call, and a line that is wrong half-way.
LinesOfTheUser ==
    { <<>>, <<Command("A"), Command("Q")>>, <<Command("G"), Wrong>>,
      <<Call(".")>> }

CommandsOfTheRun == {"A", "B", "D", "G", "Q", "QQ"}

=============================================================================
