---------------------------- MODULE Substitution ----------------------------
(***************************************************************************)
(* S on one line: the pattern is parsed, and every match in the line is    *)
(* replaced (substitute_all() and expand_substitution_replacement() of     *)
(* src/runtime/CommandExecutor.cpp).                                       *)
(*                                                                         *)
(* One step is one turn of the loop over the matches.                      *)
(***************************************************************************)
EXTENDS PatternMatcher, TLC

CONSTANTS Sources,       \* patterns that are typed, with their delimiters
          Texts,         \* lines
          Replacements   \* what stands after the pattern

ASSUME SubstitutionAssumption ==
    /\ Sources \subseteq Seq([value : Bytes, as : Interpretations])
    /\ \A s \in Sources : Len(s) <= LongestPattern
    /\ Texts \subseteq Seq(Bytes)
    /\ Replacements \subseteq Seq(STRING)

VARIABLES source,       \* the pattern as typed
          status,       \* how far the command is
          pattern,      \* the tree of the pattern
          text,         \* the line
          replacement,
          result,       \* what has been made of the line so far
          copiedUntil,  \* the bytes of the line that are in the result
          searchFrom,   \* where the next search begins
          matches       \* history: the matches replaced

vars == <<source, status, pattern, text, replacement, result, copiedUntil,
          searchFrom, matches>>

Slice(t, from, to) == SubSeq(t, from + 1, to)

\* What a match is replaced by: & stands for its bytes, \ quotes the next one.
ExpandedAt(r, matched, others, i) ==
    IF i > Len(r) THEN <<>>
    ELSE IF r[i] = "\\" /\ i < Len(r) THEN <<r[i + 1]>> \o others[i + 2]
    ELSE IF r[i] = "&" THEN matched \o others[i + 1]
    ELSE <<r[i]>> \o others[i + 1]

Expanded(r, matched) ==
    LET from[i \in 1 .. Len(r) + 1] == ExpandedAt(r, matched, from, i) IN from[1]

Init ==
    /\ source \in Sources
    /\ status = "typed"
    /\ pattern = SequenceOf(<<>>)
    /\ text = <<>> /\ replacement = <<>> /\ result = <<>>
    /\ copiedUntil = 0 /\ searchFrom = 0
    /\ matches = {}

Read ==
    /\ status = "typed"
    /\ LET parsed == ParsePattern(source)
       IN  IF parsed.ok
             THEN pattern' = parsed.node /\ status' = "parsed"
             ELSE pattern' = pattern /\ status' = "refused"
    /\ UNCHANGED <<source, text, replacement, result, copiedUntil, searchFrom, matches>>

Start ==
    /\ status = "parsed"
    /\ status' = "searching"
    /\ text' \in Texts
    /\ replacement' \in Replacements
    /\ UNCHANGED <<source, pattern, result, copiedUntil, searchFrom, matches>>

\* What both kinds of match append: the bytes before it, and its replacement.
WithMatch(m) ==
    result \o Slice(text, copiedUntil, m.start)
           \o Expanded(replacement, Slice(text, m.start, m.end))

\* Mutant: an empty match does not move the search.
StepOverNothing(m) ==
    result' = WithMatch(m) /\ copiedUntil' = m.start /\ searchFrom' = m.start

\* Mutant: the byte behind an empty match is lost.
StepOverLosing(m) ==
    /\ result' = WithMatch(m)
    /\ copiedUntil' = IF m.start = Len(text) THEN m.start ELSE m.start + 1
    /\ searchFrom' = m.start + 1

\* After an empty match the byte behind it is kept, and passed.
StepOver(m) ==
    IF m.start = Len(text)
      THEN result' = WithMatch(m) /\ copiedUntil' = m.start /\ searchFrom' = Len(text) + 1
      ELSE /\ result' = Append(WithMatch(m), text[m.start + 1])
           /\ copiedUntil' = m.start + 1
           /\ searchFrom' = m.start + 1

\* After another match the search goes on at its end, unless the line ends there.
StepBehind(m) ==
    /\ result' = WithMatch(m)
    /\ copiedUntil' = m.end
    /\ searchFrom' = IF m.end = Len(text) THEN Len(text) + 1 ELSE m.end

Replace ==
    /\ status = "searching" /\ searchFrom <= Len(text)
    /\ \E m \in Find(pattern, text, searchFrom) :
          /\ matches' = matches \cup {m}
          /\ IF m.end > m.start THEN StepBehind(m) ELSE StepOver(m)
    /\ UNCHANGED <<source, status, pattern, text, replacement>>

Finish ==
    /\ status = "searching"
    /\ searchFrom > Len(text) \/ Find(pattern, text, searchFrom) = {}
    /\ IF matches = {}
         THEN status' = "unchanged" /\ UNCHANGED result
         ELSE status' = "changed" /\ result' = result \o Slice(text, copiedUntil, Len(text))
    /\ UNCHANGED <<source, pattern, text, replacement, copiedUntil, searchFrom, matches>>

Substitute == Replace \/ Finish
Next == Read \/ Start \/ Substitute

Spec == Init /\ [][Next]_vars /\ WF_vars(Substitute)
============================================================================
