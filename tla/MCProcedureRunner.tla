-------------------------- MODULE MCProcedureRunner --------------------------
(***************************************************************************)
(* The values the runs give to the constants of ProcedureRunner; those of  *)
(* the executor are MCCommandExecutor's.  Every line is the text a user    *)
(* would write; small letters are commands too, and a pattern of G or an   *)
(* address is not written out.                                             *)
(***************************************************************************)
EXTENDS MCCommandExecutor, ProcedureRunner, TLC

Command(c)       == [kind |-> "command", command |-> c]
Call(name)       == [kind |-> "call", name |-> name]
Jump(label)      == [kind |-> "jump", label |-> label, when |-> {TRUE}]
Wrong            == [kind |-> "malformed"]
Operation(op, v) ==
    [kind |-> "operation", register |-> "n", operator |-> op, operand |-> v]

TheNumber(n) == [of |-> "number", number |-> n]
TheLast      == [of |-> "$", number |-> 0]
TheCurrent   == [of |-> ".", number |-> 0]

UsualAddress   == {NoAddress}
ProcedureNames == {"0", "p", "q"}
TwoLabels      == {"l", "m"}
OneRegister    == {"n"}

Line(steps, label, included) ==
    [steps |-> steps, label |-> label, included |-> included]
Plain(steps) == Line(steps, NoLabel, NoBuffer)

\* The lines of all procedures below.
AllLines ==
    "" :> Plain(<<>>)
    @@ "a"      :> Plain(<<Command("A")>>)
    @@ "\\F"    :> Plain(<<Wrong>>)
    @@ "D"      :> Plain(<<Command("D")>>)
    @@ "A"      :> Plain(<<Command("A")>>)
    @@ "I D"    :> Plain(<<Command("I"), Command("D")>>)
    @@ "QQ A"   :> Plain(<<Command("QQ"), Command("A")>>)
    @@ "G"      :> Plain(<<Command("G")>>)
    @@ "\\B(q)" :> Plain(<<Call("q")>>)
    @@ "\\S(q)" :> Line(<<Wrong>>, NoLabel, "q")
    @@ "\\S(x)" :> Line(<<Wrong>>, NoLabel, "x")
    @@ "@(l)"   :> Line(<<>>, "l", NoBuffer)
    @@ "@(m)"   :> Line(<<>>, "m", NoBuffer)
    @@ "N(n):$>0 J(l)T" :>
         Plain(<<Operation(":", TheLast), Operation(">", TheNumber(0)), Jump("l")>>)
    @@ "N(n):.<1 J(l)T" :>
         Plain(<<Operation(":", TheCurrent), Operation("<", TheNumber(1)), Jump("l")>>)
    @@ "N(n):.<1 J(m)T" :>
         Plain(<<Operation(":", TheCurrent), Operation("<", TheNumber(1)), Jump("m")>>)
    @@ "N(n):.<1 J(l)TG.." :>
         Plain(<<Operation(":", TheCurrent), Operation("<", TheNumber(1)), Wrong>>)

MeaningOfLines  == [t \in Text |-> AllLines[t].steps]
LabelOfLines    == [t \in Text |-> AllLines[t].label]

\* Included from a buffer, a blank or a pattern is of no use to the parser.
QuotedLines ==
    "I D" :> <<Command("I"), Wrong>> @@ "QQ A" :> <<Command("QQ"), Wrong>>
    @@ "G" :> <<Wrong>>
QuotedMeaningOfLines == [t \in Text |-> (QuotedLines @@ MeaningOfLines)[t]]

IncludedByLines == [t \in Text |-> AllLines[t].included]
EndOfText       == {"\\F"} \cap Text

-----------------------------------------------------------------------------
(***************************************************************************)
(* How the buffers came about: the user loaded `p` and `q` from files,     *)
(* went to the first line of each, back to buffer 0 and typed two lines.   *)
(***************************************************************************)

ImageOf(lines) == [lines |-> lines, final_newline |-> TRUE, bom |-> FALSE]

Loading(m, name, lines, file) ==
    LET arrived == CreateOrSelect(m, name)
        loaded  == Loaded(CurrentBuffer(arrived), ImageOf(lines), file)
    IN PutCurrent(arrived, SetCurrentLine(loaded, 1))

Prepared(p, q) ==
    LET loaded == Loading(Loading(InitialManager, "p", p, "f"), "q", q, "g")
        back   == CreateOrSelect(loaded, "0")
    IN PutCurrent(back, InsertAfter(CurrentBuffer(back), 0, <<"a", "a">>))

Stored(p, q) == "f" :> ImageOf(p) @@ "g" :> ImageOf(q)

-----------------------------------------------------------------------------
(***************************************************************************)
(* The procedures of the runs.                                             *)
(***************************************************************************)

\* `p` adds and deletes a line, empties the current buffer in a loop and
\* executes what `q` holds; `q` calls itself, and exits.  Either may be the
\* current buffer.
LoopingP == <<"I D", "a", "\\F", "@(l)", "N(n):.<1 J(m)T", "D", "@(m)",
              "N(n):$>0 J(l)T", "\\S(q)", "\\S(x)">>
LoopingQ == <<"N(n):.<1 J(l)T", "G", "\\B(q)", "@(l)", "QQ A", "a", "\\F">>
LoopingText ==
    {"", "a", "I D", "\\F", "@(l)", "@(m)", "D", "G", "\\B(q)", "\\S(q)", "\\S(x)",
     "QQ A", "N(n):$>0 J(l)T", "N(n):.<1 J(l)T", "N(n):.<1 J(m)T", "N(n):.<1 J(l)TG.."}
LoopingCommands == {"A", "I", "B", "D", "G", "QQ"}
LoopingTyped    == {"B"}
LoopingBuffers  == Prepared(LoopingP, LoopingQ)
LoopingDisk     == Stored(LoopingP, LoopingQ)

MoreNames    == ProcedureNames \cup {"x"}
RefusedNames == {"x"}
=============================================================================
