SPECIFICATION FairFlow
CONSTANTS
    Character <- Characters
    BufferSets <- BufferPairs
    Inputs <- Texts
    Requested <- Names
    CommonInputs <- Common
    MaximumDepth = 3
    MaximumName = 1
CHECK_DEADLOCK FALSE
INVARIANTS FlowTypeOK LevelsIncrease DirectivesStayInTheirSource OnlyFailuresBlock ExpansionIsSubstitution CommandInputAgrees
PROPERTIES ExpansionsEnd
