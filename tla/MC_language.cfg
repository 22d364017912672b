CONSTANTS
    SizeMax = 255
    MessageLimit = 3
    Chains <- AllChains
    LinesOf <- LinesOfChain
    Fragments <- AllFragments
SPECIFICATION Spec
INVARIANTS
    ChainIsReadBack
    NothingIsLost
    GlobalEndsTheLine
CHECK_DEADLOCK FALSE
