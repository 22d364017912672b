------------------------------- MODULE Lexer -------------------------------
(***************************************************************************)
(* The tokens of a line (src/lexer/Lexer.cpp).                             *)
(*                                                                         *)
(* The lexer is asked for one token at a time (TokenStream.cpp); what it   *)
(* answers depends on the line alone, so that here the tokens are made at  *)
(* once.  The last one is the End token, which is never consumed.  `at` is *)
(* the place of the first character, from 1; a token has the               *)
(* interpretation of that character.                                       *)
(***************************************************************************)
EXTENDS Pattern

WordCharacters == Letters \cup Digits \cup {"_"}
HorizontalBlanks == {" ", "TAB", "CR"}

\* The first position from p on whose character is not among the bytes.
AfterRun(s, p, bytes) ==
    CHOOSE q \in p .. Len(s) + 1 :
        /\ q > Len(s) \/ s[q].value \notin bytes
        /\ \A k \in p .. q - 1 : s[k].value \in bytes

Token(type, s, p, q) ==
    [type |-> type, at |-> p, as |-> s[p].as,
     lexeme |-> [k \in 1 .. q - p |-> s[p + k - 1].value]]
EndToken(s) == [type |-> "End", at |-> Len(s) + 1, as |-> "normal", lexeme |-> <<>>]

\* Only blanks that no directive has marked are passed.
IsBlank(character) == character.as = "normal" /\ character.value \in HorizontalBlanks

\* A protected character that is not part of a word is a symbol, whatever it is.
IsNeutralized(character) ==
    character.as = "literal" /\ character.value \notin WordCharacters

\* A command letter with a number right behind it is not a word.
NumberFollows(s, p) == p < Len(s) /\ s[p + 1].value \in Digits

\* A letter that stands alone may be a command.
WordToken(s, p) ==
    LET q == AfterRun(s, p, WordCharacters)
    IN  IF s[p].value \in Letters /\ (q = p + 1 \/ NumberFollows(s, p))
          THEN Token("Command", s, p, p + 1)
          ELSE Token("Identifier", s, p, q)

SignToken(s, p) ==
    CASE s[p].value = ","  -> Token("Comma", s, p, p + 1)
      [] s[p].value = "("  -> Token("LeftParenthesis", s, p, p + 1)
      [] s[p].value = ")"  -> Token("RightParenthesis", s, p, p + 1)
      [] s[p].value = "\\" -> Token("Backslash", s, p, p + 1)
      [] s[p].value = "NL" -> Token("NewLine", s, p, p + 1)
      [] s[p].value \in {"TAB", "CR"} -> Token("Unknown", s, p, p + 1)
      [] OTHER -> Token("Symbol", s, p, p + 1)

\* Lexer::next(), behind the blanks.
TokenAt(s, p) ==
    IF IsNeutralized(s[p]) THEN Token("Symbol", s, p, p + 1)
    ELSE IF s[p].value \in Digits THEN Token("Number", s, p, AfterRun(s, p, Digits))
    ELSE IF s[p].value \in WordCharacters THEN WordToken(s, p)
    ELSE SignToken(s, p)

RECURSIVE TokensFrom(_, _)
TokensFrom(s, p) ==
    IF AtEnd(s, p) THEN <<EndToken(s)>>
    ELSE IF IsBlank(s[p]) THEN TokensFrom(s, p + 1)
    ELSE LET token == TokenAt(s, p)
         IN  <<token>> \o TokensFrom(s, p + Len(token.lexeme))

Tokens(s) == TokensFrom(s, 1)
============================================================================
