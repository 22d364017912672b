-------------------------- MODULE MCCommandReader --------------------------
(***************************************************************************)
(* The lines of the run `language`.                                        *)
(***************************************************************************)
EXTENDS CommandSpelling

----------------------------------------------------------------------------
(* Chains. *)

Command(letter, address) == [command |-> letter, address |-> address]
Line(n) == AbsoluteAddress(n)
ALine == Group(SequenceOf(<<LiteralNode("a"), Repetition(AnyCharacter, "*")>>))
Substitution == [pattern |-> LiteralNode("a"), replacement |-> <<"&", "\\", "/">>]

\* Commands that another may follow on the line.
ClosedCommands ==
    { Command("P", NoAddress), Command("P", WholeBuffer), Command("D", Line(255)),
      Command("Z", CurrentAddress), Command("A", LastAddress), Command("I", NoAddress),
      Command("C", RangeAddress(ForwardAddress(1), BackwardAddress(20))),
      Command("Q", NoAddress) @@ [immediate |-> FALSE],
      Command("Q", NoAddress) @@ [immediate |-> TRUE],
      Command("F", NoAddress) @@ [facts |-> "B"],
      Command("O", NoAddress) @@ [option |-> "monitor", enabled |-> TRUE],
      Command("O", NoAddress) @@ [option |-> "input_parenthesis", enabled |-> FALSE],
      Command("B", NoAddress) @@ [buffer |-> <<"x">>],
      Command("B", NoAddress) @@ [buffer |-> <<"q", "(", "1">>],
      Command("M", RangeAddress(Line(1), CurrentAddress)) @@ [buffer |-> <<"P", " ", "D">>],
      Command("T", NoAddress) @@ [destination |-> Line(2)],
      Command("J", NoAddress) @@ [text |-> <<"x", " ", "P">>, newline |-> FALSE],
      Command("S", WholeBuffer) @@ Substitution @@ [print_after |-> TRUE],
      Command("S", NoAddress) @@ Substitution @@ [print_after |-> FALSE] }

\* Commands that take the rest of the line.
OpenCommands ==
    { Command("R", Line(0)) @@ [filename |-> <<>>],
      Command("R", NoAddress) @@ [filename |-> <<"b", " ", "*">>],
      Command("L", NoAddress) @@ [filename |-> <<"x", "1">>],
      Command("W", NoAddress) @@ [filename |-> <<>>, mode |-> "A"],
      Command("W", WholeBuffer) @@ [filename |-> <<"x", ".", "b">>, mode |-> ""],
      Command("!", NoAddress) @@ [text |-> <<"d", " ", ",">>],
      Command("\"", NoAddress) @@ [text |-> <<"Q", "Q">>],
      Command("J", NoAddress) @@ [text |-> <<"P", " ", "1">>, newline |-> TRUE] }

\* Commands that must be the last.
LastCommands ==
    { Command("G", WholeBuffer) @@ [pattern |-> ALine, inverted |-> TRUE, nested |-> nested] :
        nested \in { Command("D", NoAddress),
                     Command("S", NoAddress) @@ Substitution @@ [print_after |-> TRUE] } }
    \cup { Command("ZG", NoAddress) @@ [buffer |-> <<"x">>, nested |->
             Command("G", NoAddress) @@ [pattern |-> EndOfLine, inverted |-> FALSE,
                                         nested |-> Command("P", NoAddress)]] }

CommandsInUse == ClosedCommands \cup OpenCommands \cup LastCommands
AllChains == { <<c>> : c \in CommandsInUse } \cup { <<c, d>> : c, d \in CommandsInUse }

----------------------------------------------------------------------------
(* Lines of pieces that may make no sense. *)

Beginnings == { <<>>, <<"S", "/">>, <<"G", "/", "a", "/">>, <<"B", "(">>, <<"J", "M">>,
                <<"Z", "G", "(", "x", ")">> }
Pieces == { Plain(s) : s \in { <<"2", "5", "6">>, <<"$">>, <<",">>, <<"*">>, <<"+">>, <<"p">>, <<"B">>,
                               <<"S">>, <<"G">>, <<"M">>, <<"(">>, <<")">>, <<"/">>, <<"\"">>, <<"W">>,
                               <<"Q">>, <<"!">>, <<" ">>, <<"\\">>, <<"1">>, <<"O">>, <<"NL">> } }
          \cup { <<Protected("/")>>, <<Protected("*")>> }

Pasted(pieces) == pieces[1] \o pieces[2] \o pieces[3]
AllFragments ==
    { Plain(b) \o Pasted(pieces) : b \in Beginnings, pieces \in [1 .. 3 -> Pieces \cup { <<>> }] }
============================================================================
