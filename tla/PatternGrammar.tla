--------------------------- MODULE PatternGrammar ---------------------------
(***************************************************************************)
(* What the parser of patterns should do, said without its steps: the      *)
(* trees that docs/specs/SPEC-007-PATTERNS.md gives a source, and where    *)
(* the parser is known to differ.                                          *)
(***************************************************************************)
EXTENDS PatternMeaning

----------------------------------------------------------------------------
(* The grammar of SPEC-007 (lines 18 to 24).  Trees of the characters      *)
(* i .. j - 1 of a source: every way to cut them is tried.                 *)

\* Characters that are syntax where they are not protected or escaped.
Syntax(d) == {".", "^", "$", "(", ")", "[", "\\", "*", "+", "|", d}

\* One character of a class.
ClassItems(s, i, j) ==
    CASE j = i + 1 -> IF Ahead(s, i, "]") \/ Ahead(s, i, "\\") THEN {} ELSE { s[i].value }
      [] j = i + 2 -> IF Ahead(s, i, "\\") THEN { s[i + 1].value } ELSE {}
      [] OTHER     -> {}

\* c, or c1-c2.  A - between two characters makes them a range.
ClassRange(s, i, j, stop) ==
    { <<c, c>> : c \in IF Ahead(s, j, "-") /\ j + 1 < stop THEN {} ELSE ClassItems(s, i, j) }
    \cup UNION { ClassItems(s, i, k) \X ClassItems(s, k + 1, j) :
                    k \in { k \in i + 1 .. j - 2 : Ahead(s, k, "-") } }

RECURSIVE ClassContents(_, _, _)
ClassContents(s, i, stop) ==
    IF i = stop THEN { <<>> }
    ELSE UNION { { <<range>> \o others : range \in ClassRange(s, i, k, stop),
                                         others \in ClassContents(s, k, stop) } :
                    k \in { k \in i + 1 .. stop : k <= i + 5 } }

ClassTrees(s, i, j) ==
    IF ~(j > i + 2 /\ Ahead(s, i, "[") /\ Ahead(s, j - 1, "]")) THEN {}
    ELSE LET negated == Ahead(s, i + 1, "^")
             first   == IF negated THEN i + 2 ELSE i + 1
         IN  { CharacterClass(negated, ranges) :
                 ranges \in { r \in ClassContents(s, first, j - 1) : r # <<>> } }

RECURSIVE AlternationTrees(_, _, _, _), AlternativeLists(_, _, _, _),
          SequenceTrees(_, _, _, _), ElementLists(_, _, _, _), AtomTrees(_, _, _, _)

AtomTrees(s, d, i, j) ==
    IF Ahead(s, i, d) THEN {}
    ELSE IF Ahead(s, i, "[") THEN ClassTrees(s, i, j)
    ELSE IF Ahead(s, i, "(") /\ j > i + 1 /\ Ahead(s, j - 1, ")")
      THEN { Group(tree) : tree \in AlternationTrees(s, d, i + 1, j - 1) }
    ELSE IF j = i + 2 THEN { LiteralNode(s[k].value) : k \in { k \in {i + 1} : Ahead(s, i, "\\") } }
    ELSE IF j > i + 1 THEN {}
    ELSE CASE Ahead(s, i, ".") -> { AnyCharacter }
           [] Ahead(s, i, "^") -> { StartOfLine }
           [] Ahead(s, i, "$") -> { EndOfLine }
           [] ~IsSpecial(s, i) \/ s[i].value \notin Syntax(d) -> { LiteralNode(s[i].value) }
           [] OTHER -> {}

RepetitionTrees(s, d, i, j) ==
    AtomTrees(s, d, i, j)
    \cup IF j > i + 1 /\ Operator(s, j - 1)
           THEN { Repetition(tree, s[j - 1].value) : tree \in AtomTrees(s, d, i, j - 1) }
           ELSE {}

ElementLists(s, d, i, j) ==
    IF i = j THEN { <<>> }
    ELSE UNION { { <<tree>> \o others : tree   \in RepetitionTrees(s, d, i, k),
                                        others \in ElementLists(s, d, k, j) } :
                    k \in { k \in i + 1 .. j : RepetitionTrees(s, d, i, k) # {} } }

SequenceTrees(s, d, i, j) ==
    { IF Len(list) = 1 THEN list[1] ELSE SequenceOf(list) : list \in ElementLists(s, d, i, j) }

AlternativeLists(s, d, i, j) ==
    { <<tree>> : tree \in SequenceTrees(s, d, i, j) }
    \cup UNION { { <<tree>> \o others : tree   \in SequenceTrees(s, d, i, k),
                                        others \in AlternativeLists(s, d, k + 1, j) } :
                    k \in { k \in i .. j - 1 : Ahead(s, k, "|") } }

AlternationTrees(s, d, i, j) ==
    { IF Len(list) = 1 THEN list[1] ELSE AlternationOf(list) :
         list \in AlternativeLists(s, d, i, j) }

\* Any symbol but _ and \ delimits (include/fred/parser/PatternParser.hpp, line 89).
Delimiters == Bytes \ (Letters \cup Digits \cup Blanks \cup {"_", "\\"})

\* A pattern stands between two delimiters; the closing one is not protected.
Derivations(s) ==
    IF Len(s) >= 2 /\ Ahead(s, Len(s), s[1].value) /\ s[1].value \in Delimiters
      THEN AlternationTrees(s, s[1].value, 2, Len(s))
      ELSE {}

----------------------------------------------------------------------------
(* The errors of SPEC-007 (lines 58 and 59) that the grammar leaves open:  *)
(* empty groups, and missing operands around |.                            *)

RECURSIVE Subtrees(_)
Subtrees(tree) ==
    {tree} \cup
      CASE tree.kind = "group"       -> Subtrees(tree.expression)
        [] tree.kind = "repetition"  -> Subtrees(tree.operand)
        [] tree.kind = "sequence"    -> UNION { Subtrees(tree.elements[k]) : k \in DOMAIN tree.elements }
        [] tree.kind = "alternation" ->
              UNION { Subtrees(tree.alternatives[k]) : k \in DOMAIN tree.alternatives }
        [] OTHER -> {}

Nothing == SequenceOf(<<>>)
HasEmptyGroup(tree) == Group(Nothing) \in Subtrees(tree)

\* The places, among the operands of their |, of those that are missing.
MissingOperands(tree) ==
    UNION { { k \in DOMAIN part.alternatives : part.alternatives[k] = Nothing } :
              part \in { part \in Subtrees(tree) : part.kind = "alternation" } }

PatternTrees(s) ==
    { tree \in Derivations(s) : MissingOperands(tree) = {} /\ ~HasEmptyGroup(tree) }

----------------------------------------------------------------------------
(* Where the parser differs.  It takes an | without its first operand; and *)
(* it takes a delimiter that is an operator for one, so that it finds no   *)
(* end of anything but an empty pattern.                                   *)

TreesWithoutFirstOperand(s) ==
    { tree \in Derivations(s) : MissingOperands(tree) = {1} /\ ~HasEmptyGroup(tree) }

OperatorDelimits(s) == s[1].value \in {"*", "+", "|"}

----------------------------------------------------------------------------
(* Property. *)

\* A source that is accepted has exactly one tree in SPEC-007, the one that is
\* built: no protected or escaped character acts as syntax, operators bind as
\* they should, and nothing is left over.  Every other source is refused.  There
\* are two exceptions, and no more.  The first operand of an | may be missing, against
\* line 59 of SPEC-007; the tree that is built is again the only one.  Between
\* operators, against line 89 of PatternParser.hpp, only the empty pattern is
\* accepted (PatternParser::parse and all it calls).
ParserFollowsTheGrammar ==
    /\ status = "parsed" =>
         /\ \/ PatternTrees(source) = {pattern} /\ TreesWithoutFirstOperand(source) = {}
            \/ PatternTrees(source) = {} /\ TreesWithoutFirstOperand(source) = {pattern}
         /\ OperatorDelimits(source) => Len(source) = 2
    /\ status = "refused" =>
         \/ PatternTrees(source) = {} /\ TreesWithoutFirstOperand(source) = {}
         \/ OperatorDelimits(source)
============================================================================
