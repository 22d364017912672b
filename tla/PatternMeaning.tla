--------------------------- MODULE PatternMeaning ---------------------------
(***************************************************************************)
(* What patterns and S should do, said without the matcher's steps: the    *)
(* language of a pattern as the set of all ways to cut a text, and the     *)
(* line that S should make.                                                *)
(***************************************************************************)
EXTENDS Substitution

----------------------------------------------------------------------------
(* The language.  language[node][i] are the places j at which a text that  *)
(* the node stands for ends, if it begins at i.                            *)

\* One piece of i .. j for each element.
StandForAll(languages, i, j) ==
    \E cuts \in [0 .. Len(languages) -> i .. j] :
        /\ cuts[0] = i /\ cuts[Len(languages)] = j
        /\ \A k \in DOMAIN languages : cuts[k] \in languages[k][cuts[k - 1]]

\* One or more pieces, none of them empty: they are what lies between two
\* cuts that have none between them.
Adjacent(cuts, a, b) == a < b /\ \A c \in cuts : ~(a < c /\ c < b)
StandForRepeats(language, i, j) ==
    /\ i < j
    /\ \E cuts \in SUBSET (i .. j) :
          /\ {i, j} \subseteq cuts
          /\ \A a, b \in cuts : Adjacent(cuts, a, b) => b \in language[a]

Stands(node, language, t, i, j) ==
    CASE node.kind = "literal" -> j = i + 1 /\ t[j] = node.value
      [] node.kind = "any"     -> j = i + 1
      [] node.kind = "class"   -> j = i + 1 /\ InClass(node, t[j])
      [] node.kind = "start"   -> i = j /\ i = 0
      [] node.kind = "end"     -> i = j /\ j = Len(t)
      [] node.kind = "group"   -> j \in language[node.expression][i]
      [] node.kind = "alternation" ->
            \E k \in DOMAIN node.alternatives : j \in language[node.alternatives[k]][i]
      [] node.kind = "sequence" ->
            StandForAll([k \in DOMAIN node.elements |-> language[node.elements[k]]], i, j)
      [] node.kind = "repetition" ->
            \/ i = j /\ (node.type = "*" \/ j \in language[node.operand][i])
            \/ StandForRepeats(language[node.operand], i, j)

Language(t) ==
    LET language[node \in Trees] ==
            [i \in 0 .. Len(t) |-> { j \in i .. Len(t) : Stands(node, language, t, i, j) }]
    IN  language

StandsFor(node, t, i, j) == j \in Language(t)[node][i]

----------------------------------------------------------------------------
(* Properties. *)

\* match_from() finds every end of a match, and no other, at every position,
\* whatever repetitions of empty matches, anchors and alternatives it goes
\* through; in particular it comes to an end (match_repetition).
EndsAreTheLanguage ==
    (status = "searching" /\ searchFrom = 0) =>
        \A i \in 0 .. Len(text) :
            Ends(pattern, text, i) = { j \in i .. Len(text) : StandsFor(pattern, text, i, j) }

IsMatch(i) == \E j \in i .. Len(text) : StandsFor(pattern, text, i, j)

\* Position i is in a match that is replaced, or at the end of one that
\* reaches the end of the line, where substitute_all() looks no further.
Covered(i) ==
    \E m \in matches :
        \/ m.start = i
        \/ m.start < i /\ i < m.end
        \/ m.start < i /\ i = Len(text) /\ m.end = i

\* The line with the bytes of each match replaced: what is written of it
\* before position i.
WrittenAt(written, i) ==
    LET starting == { m \in matches : m.start = i - 1 }
        inside   == \E m \in matches : m.start < i /\ i <= m.end
        before   == IF starting = {} THEN written[i - 1]
                    ELSE LET m == CHOOSE m \in starting : TRUE
                         IN  written[i - 1] \o Expanded(replacement, Slice(text, m.start, m.end))
    IN  IF inside \/ i > Len(text) THEN before ELSE Append(before, text[i])

Written ==
    LET written[i \in 0 .. Len(text) + 1] == IF i = 0 THEN <<>> ELSE WrittenAt(written, i)
    IN  written

Rewritten == Written[Len(text) + 1]

\* S replaces the matches from left to right, each the longest at its place,
\* none twice and none overlapping, leaves out no position where a match
\* begins, and keeps every other byte of the line; a line is reported as
\* unchanged when it has no match, which is also when G does not select it.
SubstitutionIsLeftmostLongest ==
    status \in {"changed", "unchanged"} =>
        /\ \A m \in matches :
              /\ StandsFor(pattern, text, m.start, m.end)
              /\ \A j \in m.end + 1 .. Len(text) : ~StandsFor(pattern, text, m.start, j)
        /\ \A m, n \in matches :
              m # n => m.start # n.start /\ (m.end <= n.start \/ n.end <= m.start)
        /\ \A i \in 0 .. Len(text) : IsMatch(i) => Covered(i)
        /\ (status = "changed") = \E i \in 0 .. Len(text) : IsMatch(i)
        /\ (status = "changed") = Search(pattern, text)
        /\ status = "changed" => result = Rewritten

\* The loop of substitute_all() ends, also when matches take no byte.
SubstitutionEnds == (status = "searching") ~> (status \in {"changed", "unchanged"})
============================================================================
