--------------------------- MODULE PatternMatcher ---------------------------
(***************************************************************************)
(* Matching a pattern (src/runtime/PatternMatcher.cpp).                    *)
(*                                                                         *)
(* A text is a sequence of bytes, a position the number of bytes before    *)
(* it.  match_from() answers with the end positions of the matches that    *)
(* begin at a position; their vector, without duplicates, is a set here.   *)
(***************************************************************************)
EXTENDS Pattern, FiniteSets

CONSTANTS Collation,      \* the bytes in use, in the order in which char compares them
          LongestPattern  \* no pattern has more characters

ASSUME PatternMatcherAssumption ==
    /\ Collation \in Seq(STRING)
    /\ \A i, j \in DOMAIN Collation : Collation[i] = Collation[j] => i = j
    /\ LongestPattern \in Nat

Bytes == { Collation[i] : i \in DOMAIN Collation }
Code(byte) == CHOOSE i \in DOMAIN Collation : Collation[i] = byte

InClass(class, byte) ==
    LET contained == \E i \in DOMAIN class.ranges :
                        Code(byte) \in Code(class.ranges[i][1]) .. Code(class.ranges[i][2])
    IN  contained # class.negated

\* The next byte of the text is one the node takes.
Takes(node, text, p) ==
    /\ p < Len(text)
    /\ CASE node.kind = "literal" -> text[p + 1] = node.value
         [] node.kind = "any"     -> TRUE
         [] node.kind = "class"   -> InClass(node, text[p + 1])

----------------------------------------------------------------------------
(* The trees there are, by height.  No tree is higher than its pattern is  *)
(* long.                                                                   *)

TreesOver(Smaller) ==
    [kind : {"literal"}, value : Bytes]
    \cup { AnyCharacter, StartOfLine, EndOfLine }
    \cup [kind : {"class"}, negated : BOOLEAN, ranges : Seq(Bytes \X Bytes)]
    \cup [kind : {"sequence"}, elements : Seq(Smaller)]
    \cup [kind : {"alternation"}, alternatives : Seq(Smaller)]
    \cup [kind : {"repetition"}, operand : Smaller, type : {"*", "+"}]
    \cup [kind : {"group"}, expression : Smaller]

TreesByHeight ==
    LET trees[n \in 0 .. LongestPattern] == TreesOver(IF n = 0 THEN {} ELSE trees[n - 1])
    IN  trees

Trees == TreesByHeight[LongestPattern]

----------------------------------------------------------------------------
(* ends[p] are the ends of the matches of a node that begin at p.          *)

EndsOfSequence(ends, p) ==
    LET positions[i \in 0 .. Len(ends)] ==
            IF i = 0 THEN {p} ELSE UNION { ends[i][q] : q \in positions[i - 1] }
    IN  positions[Len(ends)]

\* Mutant: the operand is tried once more, and not again.
RepeatedOnce(ends, once) == once \cup UNION { ends[q] : q \in once }

\* match_repetition(): only ends not met before are gone on from, so that an
\* operand that takes no byte does not repeat for ever.
Met(ends, repeated, result, frontier) ==
    IF frontier = {} THEN result
    ELSE LET new == (UNION { ends[q] : q \in frontier }) \ result
         IN  repeated[<<result \cup new, new>>]

Repeated(ends, once) ==
    LET repeated[at \in (SUBSET DOMAIN ends) \X (SUBSET DOMAIN ends)] ==
            Met(ends, repeated, at[1], at[2])
    IN  repeated[<<once, once>>]

\* match_from()
EndsOf(node, ends, text, p) ==
    CASE node.kind \in {"literal", "any", "class"} -> IF Takes(node, text, p) THEN {p + 1} ELSE {}
      [] node.kind = "start"       -> IF p = 0 THEN {p} ELSE {}
      [] node.kind = "end"         -> IF p = Len(text) THEN {p} ELSE {}
      [] node.kind = "sequence"    ->
            EndsOfSequence([i \in DOMAIN node.elements |-> ends[node.elements[i]]], p)
      [] node.kind = "alternation" ->
            UNION { ends[node.alternatives[i]][p] : i \in DOMAIN node.alternatives }
      [] node.kind = "repetition"  ->
            Repeated(ends[node.operand], IF node.type = "*" THEN {p} ELSE ends[node.operand][p])
      [] node.kind = "group"       -> ends[node.expression][p]

EndsIn(text) ==
    LET ends[node \in Trees] == [p \in 0 .. Len(text) |-> EndsOf(node, ends, text, p)]
    IN  ends

Ends(node, text, p) == EndsIn(text)[node][p]

\* PatternMatcher::find(): the first start that has a match, and its longest
\* match; no element when there is none.
MatchesFrom(node, text, from) ==
    UNION { [start : {p}, end : Ends(node, text, p)] : p \in from .. Len(text) }

Find(node, text, from) ==
    { m \in MatchesFrom(node, text, from) :
        /\ \A p \in from .. m.start - 1 : Ends(node, text, p) = {}
        /\ \A q \in Ends(node, text, m.start) : q <= m.end }

Search(node, text) == Find(node, text, 0) # {}
============================================================================
