--------------------------- MODULE MCSubstitution ---------------------------
(***************************************************************************)
(* The patterns, lines and replacements of the run `patterns`.             *)
(***************************************************************************)
EXTENDS PatternGrammar

AnyByte == <<"$", "(", ")", "*", "+", "-", ".", "/", "[", "\\", "]", "^", "a", "b", "|">>

\* Every pattern of up to ShortPattern characters of this alphabet.
Alphabet == { Normal(value) : value \in Bytes \ {"-"} } \cup { Protected("*"), Protected("/") }

ShortPattern == 3
Enclosed(d, inside) == <<Normal(d)>> \o inside \o <<Normal(d)>>
ShortSources ==
    { Enclosed("/", inside) : inside \in UNION { [1 .. n -> Alphabet] : n \in 0 .. ShortPattern } }
    \cup { Enclosed(d, inside) : d \in Bytes \ {"/", "b"},
                                 inside \in UNION { [1 .. n -> Alphabet] : n \in 0 .. 1 } }
    \cup { Enclosed(d, inside) : d \in {"*", "+", "|"}, inside \in [1 .. 2 -> Alphabet] }

\* Longer ones, for repetitions of empty and of overlapping operands.
Plain(values) == [i \in DOMAIN values |-> Normal(values[i])]
LongSources == { Enclosed("/", Plain(s)) : s \in {
    <<"(", "a", "*", ")", "*">>,
    <<"(", "a", "*", ")", "+", "b">>,
    <<"(", "^", "|", "a", ")", "*">>,
    <<"(", "$", "|", "a", ")", "+">>,
    <<"(", "a", "b", "|", "a", ")", "*", "b">>,
    <<"a", "|", "a", "b", "|", "b", "*">>,
    <<"(", "|", "a", ")", "+", "b">>,
    <<"b", "|", "(", "|", "a", ")">>,
    <<"b", "|", "(", "a", "|", ")">>,
    <<"(", "b", "|", "a", "b", ")", "(", "a", "|", "b", "a", ")">>,
    <<"[", "^", "a", "]", "+">>,
    <<"[", "a", "-", "b", "]", "*", "$">>,
    <<"[", "\\", "]", "a", "-", "]", "b">>,
    <<"[", "b", "-", "a", "]">>,
    <<"[", "-", "-", "a", "-", "]">>,
    <<"^", ".", "*", "$">>,
    <<"(", "a", ")", "*", "*">>,
    <<"(", "(", "a", ")">>,
    <<"a", "\\", "/", "b">> } }

\* The longest of all, delimiters and all.
Longest == 14

AllSources == ShortSources \cup LongSources

LongestText == 3
AllTexts == UNION { [1 .. n -> {"a", "b"}] : n \in 0 .. LongestText }

AllReplacements == { <<"b", "&", "\\", "&", "\\">>, <<>> }
============================================================================
