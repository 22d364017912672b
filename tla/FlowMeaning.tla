---------------------------- MODULE FlowMeaning ----------------------------
(***************************************************************************)
(* What the flow directives mean, without a stack, levels or sources: a    *)
(* text is cut into parts, and a part that is a directive is replaced by   *)
(* what the buffer it names means.  Nothing here is a step of the engine.  *)
(*                                                                         *)
(* A result is a set, empty where the code throws.                         *)
(***************************************************************************)
EXTENDS FlowEngine

\* What the first part of a text stands for, and the text behind it.
Part == [text : Text, rest : Text]

PartOf(text, rest)  == [text |-> text, rest |-> rest]
Behind(text, n)     == SubSeq(text, n + 1, Len(text))
Prefixed(text, all) == { text \o t : t \in all }
Led(text, parts)    == { PartOf(text \o p.text, p.rest) : p \in parts }

WithNewlines(lines) ==
    [l \in 1 .. Len(lines) |-> Append(lines[l], "nl")]

\* The first characters of a text, as they are; the one that is protected.
Plain(text, n) == {PartOf(SubSeq(text, 1, n), Behind(text, n))}
Protected(text) ==
    IF Len(text) > 2 THEN {PartOf(<<text[3]>>, Behind(text, 3))} ELSE {}

-----------------------------------------------------------------------------
(***************************************************************************)
(* The name of a buffer.  names[text] is the name that closes in a text    *)
(* behind the parenthesis that opened it.                                  *)
(***************************************************************************)

\* The name in parentheses at the start of a text.
Opened(names, text) ==
    IF text # <<>> /\ text[1] = "(" THEN names[Behind(text, 1)] ELSE {}

\* Those that name a buffer.
Known(bufs, parts) ==
    { p \in parts : ValidName(p.text) /\ p.text \in DOMAIN bufs }

Named(bufs, names, text) == Known(bufs, Opened(names, text))

\* \C protects a character of the name, \S includes a buffer in it.
NameParts(bufs, inner, text) ==
    IF text[1] = "nl" THEN {}
    ELSE IF text[1] # "\\" THEN Plain(text, 1)
    ELSE IF Len(text) = 1 THEN {}
    ELSE IF text[2] = "C" THEN Protected(text)
    ELSE IF text[2] = "S" THEN { PartOf(Joined(bufs[p.text]), p.rest) :
                                   p \in Named(bufs, inner, Behind(text, 2)) }
    ELSE Plain(text, 2)

NameStep(bufs, inner, names, text) ==
    IF text = <<>> THEN {}
    ELSE IF text[1] = ")" THEN {PartOf(<<>>, Behind(text, 1))}
    ELSE UNION { Led(p.text, names[p.rest]) : p \in NameParts(bufs, inner, text) }

Nothing == [text \in Text |-> {}]

\* inner are the names that may stand inside.
NamesOver(bufs, inner) ==
    LET names[text \in Text] == NameStep(bufs, inner, names, text) IN names

\* The names of which no more than n are inside one another.
NamesNested(bufs) ==
    LET nested[n \in 0 .. MaximumDepth + 1] ==
          IF n = 0 THEN Nothing ELSE NamesOver(bufs, nested[n - 1])
    IN nested

-----------------------------------------------------------------------------
(***************************************************************************)
(* The meaning of a text.                                                  *)
(***************************************************************************)

\* What a directive puts in its place; n texts may be expanded at once.
Included(n, inner, directive, lines) ==
    CASE n = 1           -> {}
      [] n > 1 /\ directive = "B" -> inner[Joined(WithNewlines(lines))]
      [] n > 1 /\ directive = "S" -> {Joined(lines)}
      [] n > 1 /\ directive = "L" -> {Joined(WithNewlines(lines))}

Inclusions(bufs, n, inner, text) ==
    UNION { { PartOf(t, p.rest) : t \in Included(n, inner, text[2], bufs[p.text]) } :
            p \in Named(bufs, NamesNested(bufs)[MaximumDepth + 1], Behind(text, 2)) }

TextParts(bufs, n, inner, text) ==
    IF text[1] # "\\" \/ Len(text) = 1 THEN Plain(text, 1)
    ELSE IF text[2] \in {"B", "S", "L"} THEN Inclusions(bufs, n, inner, text)
    ELSE IF text[2] \in {"C", "O"} THEN Protected(text)
    ELSE IF text[2] = "\\" THEN {PartOf(<<"\\">>, Behind(text, 2))}
    ELSE Plain(text, 2)

MeaningStep(bufs, n, inner, meaning, text) ==
    IF text = <<>> THEN {<<>>}
    ELSE UNION { Prefixed(p.text, meaning[p.rest]) :
                 p \in TextParts(bufs, n, inner, text) }

\* inner is what the texts mean that may be expanded in their course.
MeaningOver(bufs, n, inner) ==
    LET meaning[text \in Text] == MeaningStep(bufs, n, inner, meaning, text)
    IN meaning

\* What texts mean when no more than n of them are expanded at once.
Meanings(bufs) ==
    LET depth[n \in 0 .. MaximumDepth] ==
          IF n = 0 THEN Nothing ELSE MeaningOver(bufs, n, depth[n - 1])
    IN depth

-----------------------------------------------------------------------------
(***************************************************************************)
(* The property.                                                           *)
(***************************************************************************)

Contents(source) ==
    IF source.newlines THEN WithNewlines(source.lines) ELSE source.lines

TextOf(source) == Joined(Contents(source))

Expansion == Meanings(buffers)[MaximumDepth][TextOf(request)]

Ended == outcome \in {"ok", "failed"} /\ request # NoRequest

Yields(texts) == IF outcome = "ok" THEN texts = {output} ELSE texts = {}

\* The stack of sources computes substitution: what comes out is the text
\* with each directive replaced by the expansion of its buffer, and an error
\* wherever that has none.
ExpansionIsSubstitution == Ended => Yields(Expansion)

=============================================================================
