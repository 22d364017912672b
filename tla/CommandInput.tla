---------------------------- MODULE CommandInput ----------------------------
(***************************************************************************)
(* The other expansion of the program, that of command lines.  It knows    *)
(* \S, \L, \C and \O, and is a recursion over one text; the interpretation *)
(* that the characters carry to the lexer is left out.                     *)
(*                                                                         *)
(* A result is a set, empty where the code throws.                         *)
(***************************************************************************)
EXTENDS FlowMeaning

CONSTANT CommonInputs   \* the texts both expansions are meant for

\* The directive letter at place i of a text.
IsDirective(text, i, letters) ==
    text[i] = "\\" /\ i < Len(text) /\ text[i + 1] \in letters

RECURSIVE Segment(_, _, _, _)

\* The text from place i on, up to its end or, inside a directive, to the
\* parenthesis that closes it.
Segment(text, i, depth, closing) ==
    LET Then(prefix, next) ==
          { [r EXCEPT !.text = prefix \o @]
            : r \in Segment(text, next, depth, closing) }
        Lines(directive, name) ==
          IF directive = "L" THEN WithNewlines(buffers[name]) ELSE buffers[name]
    IN IF i > Len(text)
         THEN IF closing THEN {} ELSE {[text |-> <<>>, next |-> i]}
       ELSE IF closing /\ text[i] = ")"
         THEN {[text |-> <<>>, next |-> i + 1]}
       ELSE IF IsDirective(text, i, {"C", "O"})
         THEN IF i + 2 > Len(text) THEN {} ELSE Then(<<text[i + 2]>>, i + 3)
       ELSE IF IsDirective(text, i, {"\\"})
         THEN Then(<<"\\", "\\">>, i + 2)
       ELSE IF IsDirective(text, i, {"S", "L"}) /\ i + 2 <= Len(text) /\ text[i + 2] = "("
         THEN IF depth >= MaximumDepth THEN {}
              ELSE UNION { Then(Joined(Lines(text[i + 1], name.text)), name.next)
                           : name \in { n \in Segment(text, i + 3, depth + 1, TRUE) :
                                          ValidName(n.text) /\ n.text \in DOMAIN buffers } }
       ELSE Then(<<text[i]>>, i + 1)

ExpandCommandInput(text) == { r.text : r \in Segment(text, 1, 0, FALSE) }

\* The program has two expansions.  On texts of \S, \L, \C and \O whose
\* names nest less deep than the limit they agree, on errors too.
CommandInputAgrees ==
    Ended /\ ~request.newlines /\ request.lines[1] \in CommonInputs =>
        Yields(ExpandCommandInput(request.lines[1]))

=============================================================================
