--------------------------- MODULE CommandParser ---------------------------
(***************************************************************************)
(* Reading one command from the tokens of a line (src/parser/              *)
(* CommandParser.cpp and AddressParser.cpp, with the mnemonics of          *)
(* src/command/CommandRegistry.cpp).                                       *)
(*                                                                         *)
(* t is the sequence of tokens, p the position of the next one.  As in     *)
(* Pattern, an operator answers with a node and the position behind it, or *)
(* with Refused where the code throws; the position the code rewinds to is *)
(* the one the operator was given.                                         *)
(***************************************************************************)
EXTENDS Lexer, FiniteSets, TLC

CONSTANTS SizeMax,       \* the largest size_t
          MessageLimit   \* the longest message of J

ASSUME CommandParserAssumption == SizeMax \in Nat /\ SizeMax >= 9 /\ MessageLimit \in Nat

AtLineEnd(t, p) == t[p].type \in {"End", "NewLine"}
IsSymbol(t, p, byte) == t[p].type = "Symbol" /\ t[p].lexeme = <<byte>>
Capital(byte) == IF byte \in DOMAIN ToUpper THEN ToUpper[byte] ELSE byte

LeastOf(S) == CHOOSE q \in S : \A k \in S : q <= k
LineEnd(t, p) == LeastOf({ q \in p .. Len(t) : AtLineEnd(t, q) })

----------------------------------------------------------------------------
(* Text put together from tokens: where there is a gap between two of      *)
(* them, blanks stood, and blanks are put there.                           *)

EndOf(token) == token.at + Len(token.lexeme)
Characters(token) ==
    [k \in DOMAIN token.lexeme |-> [value |-> token.lexeme[k], as |-> token.as]]
Gap(from, to) == [k \in 1 .. to - from |-> Normal(" ")]
Values(s) == [k \in DOMAIN s |-> s[k].value]

\* Everything behind token p and before token q.
RECURSIVE Between(_, _, _)
Between(t, p, q) ==
    Gap(EndOf(t[p]), t[p + 1].at)
    \o IF q = p + 1 THEN <<>> ELSE Characters(t[p + 1]) \o Between(t, p + 1, q)

\* Tokens p .. q - 1, without the blanks in front and behind.
Text(t, p, q) ==
    IF q = p THEN <<>>
    ELSE Values(Characters(t[p]) \o IF q = p + 1 THEN <<>>
                                    ELSE Between(t, p, q - 1) \o Characters(t[q - 1]))

----------------------------------------------------------------------------
(* Addresses: the nodes that AddressEvaluator evaluates. *)

NoAddress == [kind |-> "none"]
AbsoluteAddress(n) == [kind |-> "absolute", line |-> n]
CurrentAddress == [kind |-> "current"]
LastAddress == [kind |-> "last"]
ForwardAddress(n) == [kind |-> "forward", distance |-> n]
BackwardAddress(n) == [kind |-> "backward", distance |-> n]
RangeAddress(a, b) == [kind |-> "range", first |-> a, last |-> b]
WholeBuffer == RangeAddress(AbsoluteAddress(1), LastAddress)

DigitsInOrder == <<"0", "1", "2", "3", "4", "5", "6", "7", "8", "9">>
DigitValue(digit) == CHOOSE n \in 0 .. 9 : DigitsInOrder[n + 1] = digit

\* Mutant: the sum is not looked at.
WouldOverflowProduct(value, digit) == value > SizeMax \div 10

\* value * 10 + digit has no place in a size_t.
WouldOverflow(value, digit) == value > (SizeMax - digit) \div 10

\* parse_number(): the sum is one of unsigned numbers.
RECURSIVE ParseNumber(_, _, _)
ParseNumber(digits, value, next) ==
    IF digits = <<>> THEN Parsed(value, next)
    ELSE LET digit == DigitValue(Head(digits))
         IN  IF WouldOverflow(value, digit) THEN Refused
             ELSE ParseNumber(Tail(digits), (value * 10 + digit) % (SizeMax + 1), next)

BeginsAddress(t, p) ==
    t[p].type = "Number" \/ \E byte \in {".", "$", "+", "-"} : IsSymbol(t, p, byte)

ParseSingleAddress(t, p) ==
    LET signed == IsSymbol(t, p, "+") \/ IsSymbol(t, p, "-")
        q == IF signed THEN p + 1 ELSE p
    IN  IF t[q].type = "Number"
          THEN LET number == ParseNumber(t[q].lexeme, 0, q + 1)
               IN  IF ~number.ok THEN Refused
                   ELSE Parsed(CASE ~signed -> AbsoluteAddress(number.node)
                                 [] IsSymbol(t, p, "+") -> ForwardAddress(number.node)
                                 [] IsSymbol(t, p, "-") -> BackwardAddress(number.node),
                               number.next)
        ELSE IF IsSymbol(t, p, ".") THEN Parsed(CurrentAddress, p + 1)
        ELSE IF IsSymbol(t, p, "$") THEN Parsed(LastAddress, p + 1)
        ELSE Refused

\* AddressParser::parse_prefix()
ParsePrefix(t, p) ==
    LET first == ParseSingleAddress(t, p)
        last  == ParseSingleAddress(t, first.next + 1)
    IN  IF ~first.ok \/ t[first.next].type # "Comma" THEN first
        ELSE IF last.ok THEN Parsed(RangeAddress(first.node, last.node), last.next)
        ELSE Refused

----------------------------------------------------------------------------
(* The head of a command: its address, letter and variant (the second      *)
(* letter of the spellings that have two).                                 *)

\* Spellings of two letters.
Compact(first, second) ==
    \/ first \in {"J", "B"}
    \/ <<first, second>> \in {<<"Q", "Q">>, <<"Z", "G">>}
    \/ first = "W" /\ second \in {"A", "U", "B"}
    \/ first = "F" /\ second \in {"B", "O"}

CoreCommands == {"P", "L", "D", "A", "I", "B", "C", "M", "T", "G", "Z", "R", "W",
                 "S", "J", "F", "O", "Q"}

\* What a token may be the letters of.
Mnemonic(token) ==
    LET letters == [k \in DOMAIN token.lexeme |-> Capital(token.lexeme[k])]
    IN  IF token.type = "Identifier" /\ Len(letters) = 2 /\ Compact(letters[1], letters[2])
          THEN [letter |-> letters[1], variant |-> token.lexeme[2]]
        ELSE IF token.type \in {"Command", "Symbol"} THEN [letter |-> letters[1], variant |-> ""]
        ELSE [letter |-> "", variant |-> ""]

HeadOf(t, address, p) ==
    LET m == Mnemonic(t[p])
    IN  IF m.letter \notin CoreCommands \cup {"!", "\""} THEN Refused
        ELSE Parsed([address |-> address, letter |-> m.letter, variant |-> m.variant,
                     at |-> t[p].at], p + 1)

\* A * that ends the line prints the whole buffer.
ParseHead(t, p) ==
    IF IsSymbol(t, p, "*")
      THEN IF AtLineEnd(t, p + 1)
             THEN Parsed([address |-> WholeBuffer, letter |-> "P", variant |-> "",
                          at |-> t[p].at], p + 1)
             ELSE HeadOf(t, WholeBuffer, p + 1)
    ELSE IF BeginsAddress(t, p)
      THEN LET prefix == ParsePrefix(t, p)
           IN  IF prefix.ok THEN HeadOf(t, prefix.node, prefix.next) ELSE Refused
    ELSE HeadOf(t, NoAddress, p)

AcceptsAddress(head) ==
    /\ head.letter \in {"!", "\"", "Q", "J", "F", "O", "B", "L"} => head.address = NoAddress
    /\ head.letter = "Z" /\ head.variant # "" => head.address = NoAddress
    /\ head.letter \in {"R", "Z", "A", "I"} => head.address.kind # "range"

----------------------------------------------------------------------------
(* Operands.  h is the head, p the position behind it; the node is a       *)
(* function from the operand's names, to which the command is added.       *)

NoOperand == <<>>

\* parse_optional_filename()
ParseFilename(t, p) ==
    LET stop   == LineEnd(t, p)
        quotes == { q \in p + 1 .. stop - 1 : IsSymbol(t, q, "\"") }
    IN  IF p = stop THEN Parsed(<<>>, p)
        ELSE IF ~IsSymbol(t, p, "\"") THEN Parsed(Text(t, p, stop), stop)
        ELSE IF quotes = {} THEN Refused
        ELSE LET closing == LeastOf(quotes)
             IN  IF closing = p + 1 \/ closing + 1 # stop THEN Refused
                 ELSE Parsed(Text(t, p + 1, closing), stop)

\* parse_parenthesized_buffer_name()
ParseBufferName(t, p) ==
    LET closings == { q \in p .. LineEnd(t, p) - 1 : t[q].type = "RightParenthesis" }
    IN  IF t[p].type # "LeftParenthesis" \/ closings = {} THEN Refused
        ELSE LET closing == LeastOf(closings)
             IN  IF closing = p + 1 THEN Refused ELSE Parsed(Text(t, p + 1, closing), closing + 1)

\* The one-character name of B.
IsShortBufferName(t, h, p) ==
    /\ t[p].at = h.at + 1 /\ Len(t[p].lexeme) = 1
    /\ t[p].type \notin {"NewLine", "LeftParenthesis", "RightParenthesis"}

ParseBuffer(t, h, p) ==
    IF h.variant # "" THEN Parsed(<<h.variant>>, p)
    ELSE IF t[p].type = "LeftParenthesis" THEN ParseBufferName(t, p)
    ELSE IF IsShortBufferName(t, h, p) THEN Parsed(t[p].lexeme, p + 1)
    ELSE Refused

BackslashesAtEnd(s) ==
    Cardinality({ k \in DOMAIN s : \A j \in k .. Len(s) : s[j].value = "\\" })

\* Token q, in the text that begins behind token p, is the delimiter d.
Closes(t, p, q, d) ==
    /\ t[q].lexeme = d /\ t[q].as # "literal"
    /\ BackslashesAtEnd(Between(t, p, q)) % 2 = 0

\* Mutant: a delimiter closes behind a \, too.
ClosingsAll(t, p, d) ==
    { q \in p + 1 .. LineEnd(t, p) - 1 : t[q].lexeme = d /\ t[q].as # "literal" }

Closings(t, p, d) == { q \in p + 1 .. LineEnd(t, p) - 1 : Closes(t, p, q, d) }

\* Token p and the next delimiter, closing, with the pattern in between.
PatternUpTo(t, p, closing) ==
    LET tree == ParsePattern(Characters(t[p]) \o Between(t, p, closing)
                                              \o Characters(t[closing]))
    IN  IF tree.ok THEN Parsed(tree.node, closing + 1) ELSE Refused

\* parse_delimited_pattern(), and the first half of parse_substitution_parts().
ParseDelimitedPattern(t, p) ==
    LET closings == Closings(t, p, t[p].lexeme)
    IN  IF t[p].type # "Symbol" \/ closings = {} THEN Refused
        ELSE PatternUpTo(t, p, LeastOf(closings))

\* A P behind the replacement belongs to S.
PrintsAfter(t, p) == t[p].type = "Command" /\ Capital(t[p].lexeme[1]) = "P"

ReplacementUpTo(t, pattern, closing) ==
    LET prints == PrintsAfter(t, closing + 1)
    IN  Parsed([pattern |-> pattern.node,
                replacement |-> Values(Between(t, pattern.next - 1, closing)),
                print_after |-> prints],
               IF prints THEN closing + 2 ELSE closing + 1)

\* The delimiter that closes the pattern opens the replacement.
ParseReplacement(t, pattern) ==
    LET closings == Closings(t, pattern.next - 1, t[pattern.next - 1].lexeme)
    IN  IF ~pattern.ok \/ closings = {} THEN Refused
        ELSE ReplacementUpTo(t, pattern, LeastOf(closings))

ParseSubstitution(t, p) == ParseReplacement(t, ParseDelimitedPattern(t, p))

\* The message begins right behind the two letters, with a sign.
IsMessageDelimiter(t, h, p) ==
    /\ ~AtLineEnd(t, p) /\ Len(t[p].lexeme) = 1 /\ t[p].at = h.at + 2
    /\ t[p].lexeme[1] \notin Letters \cup Digits \cup Blanks

ParseMessage(t, h, p) ==
    LET stop      == LineEnd(t, p)
        delimited == IsMessageDelimiter(t, h, p)
        closings  == { q \in p + 1 .. stop - 1 : t[q].lexeme = t[p].lexeme }
        closing   == LeastOf(closings)
        message   == IF delimited THEN Values(Between(t, p, closing)) ELSE Text(t, p, stop)
    IN  IF \/ Capital(h.variant) \notin {"M", "P"}
           \/ delimited /\ closings = {}
           \/ Len(message) > MessageLimit
          THEN Refused
          ELSE Parsed([text |-> message, newline |-> Capital(h.variant) = "M"],
                      IF delimited THEN closing + 1 ELSE stop)

ParseOption(t, p) ==
    LET enabled == IsSymbol(t, p, "+")
        option  == IF t[p + 1].type = "Command" THEN Capital(t[p + 1].lexeme[1]) ELSE ""
    IN  IF ~enabled /\ ~IsSymbol(t, p, "-") THEN Refused
        ELSE IF option = "M" THEN Parsed([option |-> "monitor", enabled |-> enabled], p + 2)
        ELSE IF option = "I" /\ t[p + 2].type = "LeftParenthesis"
          THEN Parsed([option |-> "input_parenthesis", enabled |-> enabled], p + 3)
        ELSE Refused

ParseDestination(t, p) ==
    LET destination == ParsePrefix(t, p)
    IN  IF BeginsAddress(t, p) /\ destination.ok /\ destination.node.kind # "range"
          THEN destination
          ELSE Refused

\* The operand of a command, with the name of its field.
Named(name, parsed) == IF parsed.ok THEN Parsed((name :> parsed.node), parsed.next) ELSE Refused

\* The branches of CommandParser::parse() on the letter, but for G and ZG.
Operands(t, h, p) ==
    LET line == LineEnd(t, p)
    IN  CASE h.letter = "!"  -> IF p = line THEN Refused
                                ELSE Parsed([text |-> Text(t, p, line)], line)
          [] h.letter = "\"" -> Parsed([text |-> Text(t, p, line)], line)
          [] h.letter \in {"R", "L"} -> Named("filename", ParseFilename(t, p))
          [] h.letter = "W" ->
                LET filename == ParseFilename(t, p)
                IN  IF ~filename.ok THEN Refused
                    ELSE Parsed([filename |-> filename.node, mode |-> Capital(h.variant)],
                                filename.next)
          [] h.letter = "S" -> ParseSubstitution(t, p)
          [] h.letter = "Q" ->
                IF h.variant = "" /\ IsSymbol(t, p, "!") THEN Refused
                ELSE Parsed([immediate |-> h.variant # ""], p)
          [] h.letter = "J" -> ParseMessage(t, h, p)
          [] h.letter = "F" -> IF h.variant = "" THEN Refused
                               ELSE Parsed([facts |-> Capital(h.variant)], p)
          [] h.letter = "O" -> ParseOption(t, p)
          [] h.letter = "B" -> Named("buffer", ParseBuffer(t, h, p))
          [] h.letter = "M" -> Named("buffer", ParseBufferName(t, p))
          [] h.letter = "T" -> Named("destination", ParseDestination(t, p))
          [] OTHER -> Parsed(NoOperand, p)

----------------------------------------------------------------------------
(* One whole command. *)

\* Mutant: what is behind a command inside G or ZG is left for the next one.
AnyCommandEnds(t, p, alone) == TRUE

\* require_command_end(): a command of a chain may be followed by anything.
CommandEnds(t, p, alone) == alone => t[p].type = "End"

SkipNewLine(t, p) == IF t[p].type = "NewLine" THEN p + 1 ELSE p

\* alone: nothing may stand behind the command.
RECURSIVE ParseCommand(_, _, _)

WithoutAddress(nested) ==
    IF nested.ok /\ nested.node.address = NoAddress THEN nested ELSE Refused

\* The command inside G or ZG.
ParseNested(t, p) ==
    IF AtLineEnd(t, p) THEN Refused ELSE WithoutAddress(ParseCommand(t, p, TRUE))

GlobalOf(h, inverted, pattern, nested) ==
    IF nested.ok
      THEN Parsed([command |-> "G", address |-> h.address, pattern |-> pattern.node,
                   inverted |-> inverted, nested |-> nested.node], nested.next)
      ELSE Refused

GlobalBehind(t, h, inverted, pattern) ==
    IF pattern.ok THEN GlobalOf(h, inverted, pattern, ParseNested(t, pattern.next)) ELSE Refused

ParseGlobal(t, h, p) ==
    LET inverted == IsSymbol(t, p, "~")
        opening  == IF inverted THEN p + 1 ELSE p
    IN  IF IsSymbol(t, opening, "/") \/ IsSymbol(t, opening, "?")
          THEN GlobalBehind(t, h, inverted, ParseDelimitedPattern(t, opening))
          ELSE Refused

GatherOf(buffer, nested) ==
    IF nested.ok
      THEN Parsed([command |-> "ZG", address |-> NoAddress, buffer |-> buffer.node,
                   nested |-> nested.node], nested.next)
      ELSE Refused

GatherBehind(t, buffer) ==
    IF buffer.ok THEN GatherOf(buffer, ParseNested(t, buffer.next)) ELSE Refused

CommandOf(t, h, operands, alone) ==
    LET next == SkipNewLine(t, operands.next)
    IN  IF operands.ok /\ CommandEnds(t, next, alone)
          THEN Parsed([command |-> h.letter, address |-> h.address] @@ operands.node, next)
          ELSE Refused

CommandBehind(t, head, alone) ==
    IF ~head.ok THEN Refused
    ELSE IF ~AcceptsAddress(head.node) THEN Refused
    ELSE IF head.node.letter = "G" THEN ParseGlobal(t, head.node, head.next)
    ELSE IF head.node.letter = "Z" /\ head.node.variant # ""
      THEN GatherBehind(t, ParseBufferName(t, head.next))
    ELSE CommandOf(t, head.node, Operands(t, head.node, head.next), alone)

ParseCommand(t, p, alone) == CommandBehind(t, ParseHead(t, p), alone)

\* CommandParser::parse_one()
ParseOne(t, p) == ParseCommand(t, p, FALSE)
============================================================================
