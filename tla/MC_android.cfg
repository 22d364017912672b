SPECIFICATION FairSession
CONSTANTS
    Text <- OneText
    NonAscii <- NoNames
    Malformed <- NoNames
    Names <- OnlyZero
    TooLong <- NoNames
    Files <- NoNames
    Addresses <- NearAddresses
    Blocks <- OneBlocks
    Patterns <- MatchA
    Substitutions <- NoSubstitutions
    InitialDisk <- EmptyDisk
    WriteFaults <- NoNames
    Commands <- ChainCommands
    CommandLines <- ChainLines
    MaxLines = 8
    MaxNesting = 1
    MaxQueued = 8
    MaxBlock = 1
    SizeModulus = 8
    Fact = "a"
    Blank = ""
    Zero = "0"
    NoFile = NoFile
    Absent = Absent
    Unreadable = Unreadable
    NoGlobal = NoGlobal
    NoCommand = NoCommand
CHECK_DEADLOCK FALSE
INVARIANTS CommandsKeepTheirOrder EndedSessionWantsNoText
PROPERTIES LinesAreAnswered
