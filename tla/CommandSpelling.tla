-------------------------- MODULE CommandSpelling --------------------------
(***************************************************************************)
(* What the reading of a line should do, said the other way around: the    *)
(* ways to type a command, and the lines that hold a chain of them.        *)
(***************************************************************************)
EXTENDS CommandReader

Decimal[n \in Nat] ==
    IF n < 10 THEN <<DigitsInOrder[n + 1]>> ELSE Append(Decimal[n \div 10], DigitsInOrder[(n % 10) + 1])

RECURSIVE AddressSpellings(_)
AddressSpellings(a) ==
    CASE a.kind = "none"     -> { <<>> }
      [] a.kind = "absolute" -> { Decimal[a.line] }
      [] a.kind = "current"  -> { <<".">> }
      [] a.kind = "last"     -> { <<"$">> }
      [] a.kind = "forward"  -> { <<"+">> \o Decimal[a.distance] }
      [] a.kind = "backward" -> { <<"-">> \o Decimal[a.distance] }
      [] a.kind = "range"    ->
            { first \o <<",">> \o last : first \in AddressSpellings(a.first),
                                         last  \in AddressSpellings(a.last) }
            \cup IF a = WholeBuffer THEN { <<"*">> } ELSE {}

\* Characters that are not syntax are typed as they are, here.
RECURSIVE PatternSpelling(_)
PatternSpelling(tree) ==
    CASE tree.kind = "literal"     -> <<tree.value>>
      [] tree.kind = "any"         -> <<".">>
      [] tree.kind = "start"       -> <<"^">>
      [] tree.kind = "end"         -> <<"$">>
      [] tree.kind = "repetition"  -> Append(PatternSpelling(tree.operand), tree.type)
      [] tree.kind = "group"       -> <<"(">> \o PatternSpelling(tree.expression) \o <<")">>
      [] tree.kind = "sequence"    ->
            LET From[i \in 1 .. Len(tree.elements) + 1] ==
                    IF i > Len(tree.elements) THEN <<>>
                    ELSE PatternSpelling(tree.elements[i]) \o From[i + 1]
            IN  From[1]
      [] tree.kind = "alternation" ->
            LET From[i \in 1 .. Len(tree.alternatives)] ==
                    PatternSpelling(tree.alternatives[i])
                    \o IF i = Len(tree.alternatives) THEN <<>> ELSE <<"|">> \o From[i + 1]
            IN  From[1]

FilenameSpellings(filename) ==
    IF filename = <<>> THEN { <<>> } ELSE { <<" ">> \o filename, <<"\"">> \o filename \o <<"\"">> }

Delimited(d, text) == <<d>> \o text \o <<d>>
Parenthesized(name) == <<"(">> \o name \o <<")">>

\* What a pattern of S and a message may stand between.
SubstitutionSigns == {"/", "?", "!", "$", "\""}
MessageSigns == {"/", "!", "$", "\"", "*", "+", ",", "(", ")", "\\"}

RECURSIVE Spellings(_)

\* What follows the address.
BodySpellings(c) ==
    CASE c.command \in {"P", "D", "A", "I", "C", "Z"} -> { <<c.command>> }
      [] c.command = "Q" -> { IF c.immediate THEN <<"Q", "Q">> ELSE <<"Q">> }
      [] c.command = "F" -> { <<"F", c.facts>> }
      [] c.command = "O" ->
            { <<"O", IF c.enabled THEN "+" ELSE "-">>
              \o IF c.option = "monitor" THEN <<"M">> ELSE <<"I", "(">> }
      [] c.command \in {"!", "\""} -> { <<c.command>> \o c.text }
      [] c.command \in {"R", "L"} -> { <<c.command>> \o f : f \in FilenameSpellings(c.filename) }
      [] c.command = "W" ->
            { <<"W">> \o (IF c.mode = "" THEN <<>> ELSE <<c.mode>>) \o f :
                f \in FilenameSpellings(c.filename) }
      [] c.command = "J" ->
            { <<"J", IF c.newline THEN "M" ELSE "P">> \o m :
                m \in { <<" ">> \o c.text } \cup { Delimited(d, c.text) : d \in MessageSigns } }
      [] c.command = "B" ->
            { <<"B">> \o Parenthesized(c.buffer) }
            \cup IF Len(c.buffer) = 1 THEN { <<"B">> \o c.buffer } ELSE {}
      [] c.command = "M" -> { <<"M">> \o Parenthesized(c.buffer) }
      [] c.command = "T" -> { <<"T">> \o a : a \in AddressSpellings(c.destination) }
      [] c.command = "S" ->
            { <<"S">> \o Delimited(d, PatternSpelling(c.pattern)) \o c.replacement \o <<d>>
                      \o IF c.print_after THEN <<"P">> ELSE <<>> : d \in SubstitutionSigns }
      [] c.command = "G" ->
            { <<"G">> \o (IF c.inverted THEN <<"~">> ELSE <<>>)
                      \o Delimited(d, PatternSpelling(c.pattern)) \o n :
                d \in {"/", "?"}, n \in Spellings(c.nested) }
      [] c.command = "ZG" ->
            { <<"Z", "G">> \o Parenthesized(c.buffer) \o n : n \in Spellings(c.nested) }

PrintsAll(c) == c.command = "P" /\ c.address = WholeBuffer

Spellings(c) ==
    { a \o b : a \in AddressSpellings(c.address), b \in BodySpellings(c) }
    \cup IF PrintsAll(c) THEN { <<"*">> } ELSE {}

RECURSIVE SpellingsOfAll(_)
SpellingsOfAll(chain) ==
    IF chain = <<>> THEN { <<>> }
    ELSE { s \o others : s \in Spellings(Head(chain)), others \in SpellingsOfAll(Tail(chain)) }

\* Spelled like this, the command takes the rest of the line.  J does so unless
\* its text is between delimiters, * prints only at the end of a line.
TakesTheRest(c, spelling) ==
    \/ c.command \in {"!", "\"", "R", "W", "L"}
    \/ c.command = "J" /\ spelling[3] \notin MessageSigns
    \/ spelling = <<"*">>

\* An S takes a P behind it for its own, a Q a ! for Q!, which is not there.
TakesTheNext(c, next) ==
    \/ c.command = "S" /\ ~c.print_after /\ next.command = "P" /\ next.address = NoAddress
    \/ c.command = "Q" /\ ~c.immediate /\ next.command = "!"

\* What may be typed between a command and the next; behind G and ZG nothing.
Separators(c, spelling, next) ==
    IF c.command \in {"G", "ZG"} THEN {}
    ELSE { <<"NL">> } \cup IF TakesTheRest(c, spelling) \/ TakesTheNext(c, next) THEN {}
                           ELSE { <<" ">> }

RECURSIVE ChainSpellings(_)
ChainSpellings(chain) ==
    IF Len(chain) = 1 THEN Spellings(chain[1])
    ELSE LET others == ChainSpellings(Tail(chain))
         IN  UNION { { s \o separator \o o : separator \in Separators(chain[1], s, chain[2]),
                                            o \in others } : s \in Spellings(chain[1]) }

Plain(values) == [i \in DOMAIN values |-> Normal(values[i])]
LinesOfChain(chain) == { Plain(s) : s \in ChainSpellings(chain) }

----------------------------------------------------------------------------
(* Properties. *)

\* Letters in capitals; blanks, newlines and \ left out.
Squeezed(s) ==
    LET From[i \in 1 .. Len(s) + 1] ==
            IF i > Len(s) THEN <<>>
            ELSE IF s[i] \in Blanks \cup {"\\"} THEN From[i + 1]
            ELSE <<Capital(s[i])>> \o From[i + 1]
    IN  From[1]

Consumed == Values(SubSeq(line, 1, tokens[position].at - 1))

\* What has been read of a line is the commands read and nothing else: no
\* operand is cut short or takes what belongs to the next command, no number
\* is another one, and a command that is refused has taken nothing, however
\* the characters stand together (CommandParser::parse and parse_one, with
\* the lexer and AddressParser below them).
NothingIsLost == Squeezed(Consumed) \in { Squeezed(s) : s \in SpellingsOfAll(commands) }

\* The commands before and with the first Q.
UpToQuit(chain) ==
    LET quits == { i \in DOMAIN chain : chain[i].command = "Q" }
    IN  IF quits = {} THEN chain ELSE SubSeq(chain, 1, LeastOf(quits))

\* A line that holds a chain of commands is read as that chain, whatever
\* command stands beside which, up to the Q that ends it: every way to type a
\* command is understood, and stays so behind and before the others
\* (parse_one() in the loop of main.cpp and of ProcedureRunner.cpp).
ChainIsReadBack ==
    (typed # Unknown) =>
        /\ commands = SubSeq(UpToQuit(typed), 1, Len(commands))
        /\ status # "refused"
        /\ status \in {"done", "left"} => commands = UpToQuit(typed)

\* G and ZG run the command they were typed with and no other, on the lines
\* they find: the nested command has no address of its own, and the line ends
\* behind it, so that no command of the line is left to run once more or never
\* (the nested parsers of CommandParser.cpp).
RECURSIVE NestsWell(_)
NestsWell(c) ==
    c.command \in {"G", "ZG"} => c.nested.address = NoAddress /\ NestsWell(c.nested)
GlobalEndsTheLine ==
    \A i \in DOMAIN commands :
        commands[i].command \in {"G", "ZG"} =>
            NestsWell(commands[i]) /\ i = Len(commands) /\ AtEndOfLine
============================================================================
