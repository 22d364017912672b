---------------------------- MODULE MCFlowEngine ----------------------------
(***************************************************************************)
(* The values the run gives to the constants of FlowEngine.  The letters   *)
(* of the names, a and b, are also the text of the buffers, so that one    *)
(* may hold the name of the other.                                         *)
(***************************************************************************)
EXTENDS CommandInput

a == <<"a">>
b == <<"b">>

Characters == Syntax \cup {"a", "b"}

\* A directive whose argument is a text, and the name another computes.
Of(letter, text) == <<"\\", letter, "(">> \o text \o <<")">>

\* The lines of a buffer: a name, nothing, itself or the other one, a
\* directive that is cut off by the end of the line or of the buffer, a
\* name that protects that end.
LinesOfBuffers ==
    { <<>>,
      << <<>>, a >>,
      << b >>,
      << Of("B", a) >>,
      << a, Of("B", b) \o Of("L", b) >>,
      << Of("S", b), b \o <<"\\">> >>,
      << <<"\\", "B", "(">>, <<"\\", "C">> >>,
      << <<"\\", "L", "(", "a", "\\">> >>,
      << <<"\\", "S", "(", "\\", "C">> >> }

BufferPairs == [{a, b} -> LinesOfBuffers]

Common ==
    { Of("S", a) \o Of("L", b),
      Of("S", Of("S", b)) \o a,
      Of("L", Of("S", Of("S", b))),
      Of("S", <<"\\", "C", ")">>),
      Of("S", <<"\\", "C">>),
      Of("S", Of("S", a) \o Of("S", b)),
      Of("L", <<>>),
      <<"\\", "C", "\\", "S">> \o <<"(">> \o a,
      a \o <<"\\", "O">>,
      <<"\\">> }

Texts ==
    Common \cup
    { Of("B", a) \o Of("B", b),
      Of("B", a) \o <<")", "\\", "\\">>,
      Of("B", Of("S", b)) \o <<"\\">>,
      Of("L", <<"\\", "B">>),
      Of("S", Of("S", Of("S", Of("S", Of("S", b))))),
      <<"\\", "S", ")">> }

Names == {a, <<"S">>}
=============================================================================
