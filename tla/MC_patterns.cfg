CONSTANTS
    Collation <- AnyByte
    LongestPattern <- Longest
    Sources <- AllSources
    Texts <- AllTexts
    Replacements <- AllReplacements
SPECIFICATION Spec
INVARIANTS
    ParserFollowsTheGrammar
    EndsAreTheLanguage
    SubstitutionIsLeftmostLongest
PROPERTY SubstitutionEnds
CHECK_DEADLOCK FALSE
