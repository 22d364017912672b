------------------------------ MODULE Pattern ------------------------------
(***************************************************************************)
(* FRED patterns: their trees and the recursive-descent parser             *)
(* (src/parser/PatternParser.cpp, include/fred/ast/PatternNodes.hpp).      *)
(*                                                                         *)
(* A source is a sequence of characters, each with the interpretation that *)
(* the flow engine gave it; a character that came out "literal" never acts *)
(* as syntax.  What a parser operator reads at a place of the source is    *)
(* the node and the place after it, or Refused where the code throws.      *)
(***************************************************************************)
EXTENDS Naturals, Sequences

Interpretations == {"normal", "literal", "special"}
Normal(value) == [value |-> value, as |-> "normal"]
Protected(value) == [value |-> value, as |-> "literal"]

\* Each letter with its capital.
ToUpper == [a |-> "A", b |-> "B", c |-> "C", d |-> "D", e |-> "E", f |-> "F",
            g |-> "G", h |-> "H", i |-> "I", j |-> "J", k |-> "K", l |-> "L",
            m |-> "M", n |-> "N", o |-> "O", p |-> "P", q |-> "Q", r |-> "R",
            s |-> "S", t |-> "T", u |-> "U", v |-> "V", w |-> "W", x |-> "X",
            y |-> "Y", z |-> "Z"]
Letters == DOMAIN ToUpper \cup { ToUpper[c] : c \in DOMAIN ToUpper }
Digits == {"0", "1", "2", "3", "4", "5", "6", "7", "8", "9"}
Blanks == {" ", "TAB", "CR", "NL"}

----------------------------------------------------------------------------
(* The trees. *)

LiteralNode(value) == [kind |-> "literal", value |-> value]
AnyCharacter == [kind |-> "any"]
StartOfLine == [kind |-> "start"]
EndOfLine == [kind |-> "end"]
SequenceOf(elements) == [kind |-> "sequence", elements |-> elements]
AlternationOf(trees) == [kind |-> "alternation", alternatives |-> trees]
Repetition(operand, type) == [kind |-> "repetition", operand |-> operand, type |-> type]
CharacterClass(negated, ranges) ==
    [kind |-> "class", negated |-> negated, ranges |-> ranges]
Group(expression) == [kind |-> "group", expression |-> expression]

----------------------------------------------------------------------------
(* Reading the source. *)

Refused == [ok |-> FALSE]
Parsed(node, p) == [ok |-> TRUE, node |-> node, next |-> p]

AtEnd(s, p) == p > Len(s)

IsSpecial(s, p) == ~AtEnd(s, p) /\ s[p].as # "literal"

Ahead(s, p, v) == IsSpecial(s, p) /\ s[p].value = v
Operator(s, p) == Ahead(s, p, "*") \/ Ahead(s, p, "+")

\* Mutant: the \ of an escape is taken for the character.
ClassCharacterPlain(s, p) ==
    IF AtEnd(s, p) \/ Ahead(s, p, "]") THEN Refused ELSE Parsed(s[p].value, p + 1)

\* The character of a class at p, after the escape if there is one.
ClassCharacter(s, p) ==
    LET q == IF Ahead(s, p, "\\") THEN p + 1 ELSE p
    IN  IF AtEnd(s, p) \/ Ahead(s, p, "]") \/ AtEnd(s, q)
          THEN Refused
          ELSE Parsed(s[q].value, q + 1)

\* One range of a class, of one character or of two.
RangeAt(s, p) ==
    LET first   == ClassCharacter(s, p)
        isRange == /\ Ahead(s, first.next, "-")
                   /\ ~AtEnd(s, first.next + 1)
                   /\ ~Ahead(s, first.next + 1, "]")
        last    == IF isRange THEN ClassCharacter(s, first.next + 1) ELSE first
    IN  IF ~first.ok THEN Refused
        ELSE IF ~last.ok THEN Refused
        ELSE Parsed(<<first.node, last.node>>, last.next)

----------------------------------------------------------------------------
(* The parser.  What is read at a place depends on the place alone, so     *)
(* that the recursion is one over places; a loop that collects nodes is a  *)
(* list here, made from its first node and the rest of it.                 *)

Places(s) == 1 .. Len(s) + 1

InFront(first, others) ==
    IF others.ok THEN Parsed(<<first.node>> \o others.node, others.next) ELSE Refused

\* What stands between the brackets, up to the bracket that closes.
RangesBehind(ranges, first) ==
    IF first.ok THEN InFront(first, ranges[first.next]) ELSE Refused

RangesAt(s, ranges, p) ==
    IF AtEnd(s, p) \/ Ahead(s, p, "]") THEN Parsed(<<>>, p)
    ELSE RangesBehind(ranges, RangeAt(s, p))

ClassRanges(s) == LET ranges[p \in Places(s)] == RangesAt(s, ranges, p) IN ranges

ClassOf(s, negated, inside) ==
    IF inside.ok /\ Ahead(s, inside.next, "]") /\ inside.node # <<>>
      THEN Parsed(CharacterClass(negated, inside.node), inside.next + 1)
      ELSE Refused

ParseClass(s, p) ==
    LET negated == Ahead(s, p + 1, "^")
    IN  ClassOf(s, negated, ClassRanges(s)[IF negated THEN p + 2 ELSE p + 1])

\* d is the delimiter of the whole pattern.
OperandEnds(s, d, p) == AtEnd(s, p) \/ \E v \in {d, ")", "|"} : Ahead(s, p, v)

\* A list of one is its only element.
Simplified(list, several) == IF Len(list) = 1 THEN list[1] ELSE several

\* read[<<rule, p>>] is the list that a rule reads at place p: the alternatives
\* of a pattern, or the elements of one of them.
ListRules == {"alternatives", "elements"}

ParseAlternation(read, p) ==
    LET list == read[<<"alternatives", p>>]
    IN  IF list.ok THEN Parsed(Simplified(list.node, AlternationOf(list.node)), list.next)
                   ELSE Refused

ParseSequence(read, p) ==
    LET list == read[<<"elements", p>>]
    IN  IF list.ok THEN Parsed(Simplified(list.node, SequenceOf(list.node)), list.next)
                   ELSE Refused

GroupOf(s, inside) ==
    IF inside.ok /\ Ahead(s, inside.next, ")")
      THEN Parsed(Group(inside.node), inside.next + 1)
      ELSE Refused

ParseGroup(s, read, p) ==
    IF Ahead(s, p + 1, ")") THEN Refused ELSE GroupOf(s, ParseAlternation(read, p + 1))

ParseAtom(s, read, p) ==
    IF AtEnd(s, p) THEN Refused
    ELSE IF ~IsSpecial(s, p) THEN Parsed(LiteralNode(s[p].value), p + 1)
    ELSE CASE s[p].value = "."  -> Parsed(AnyCharacter, p + 1)
           [] s[p].value = "^"  -> Parsed(StartOfLine, p + 1)
           [] s[p].value = "$"  -> Parsed(EndOfLine, p + 1)
           [] s[p].value = "("  -> ParseGroup(s, read, p)
           [] s[p].value = "["  -> ParseClass(s, p)
           [] s[p].value = "\\" -> IF AtEnd(s, p + 1) THEN Refused
                                   ELSE Parsed(LiteralNode(s[p + 1].value), p + 2)
           [] Operator(s, p)    -> Refused
           [] OTHER             -> Parsed(LiteralNode(s[p].value), p + 1)

\* An operator behind the atom repeats it; two are refused.
WithOperator(s, atom) ==
    IF ~atom.ok THEN Refused
    ELSE IF ~Operator(s, atom.next) THEN atom
    ELSE IF Operator(s, atom.next + 1) THEN Refused
    ELSE Parsed(Repetition(atom.node, s[atom.next].value), atom.next + 1)

ParseRepetition(s, read, p) == WithOperator(s, ParseAtom(s, read, p))

ElementsBehind(read, first) ==
    IF first.ok THEN InFront(first, read[<<"elements", first.next>>]) ELSE Refused

ElementsAt(s, d, read, p) ==
    IF OperandEnds(s, d, p) THEN Parsed(<<>>, p)
    ELSE ElementsBehind(read, ParseRepetition(s, read, p))

AlternativesBehind(s, d, read, first) ==
    IF ~first.ok THEN Refused
    ELSE IF ~Ahead(s, first.next, "|") THEN Parsed(<<first.node>>, first.next)
    ELSE IF OperandEnds(s, d, first.next + 1) THEN Refused
    ELSE InFront(first, read[<<"alternatives", first.next + 1>>])

AlternativesAt(s, d, read, p) == AlternativesBehind(s, d, read, ParseSequence(read, p))

ListAt(s, d, read, at) ==
    IF at[1] = "elements" THEN ElementsAt(s, d, read, at[2])
                          ELSE AlternativesAt(s, d, read, at[2])

Lists(s, d) ==
    LET read[at \in ListRules \X Places(s)] == ListAt(s, d, read, at) IN read

\* The closing delimiter is the last character.
WholeOf(s, inside) ==
    IF inside.ok /\ Ahead(s, inside.next, s[1].value) /\ inside.next = Len(s)
      THEN Parsed(inside.node, inside.next + 1)
      ELSE Refused

\* PatternParser::parse(): the whole source, between its delimiters.
ParsePattern(s) ==
    IF s = <<>> \/ s[1].value \in Letters \cup Digits \cup Blanks \cup {"_", "\\"}
      THEN Refused
      ELSE WholeOf(s, ParseAlternation(Lists(s, s[1].value), 2))
============================================================================
