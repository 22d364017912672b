SPECIFICATION SessionSpec
CONSTANTS
    Text <- OneText
    NonAscii <- NoNames
    Malformed <- NoNames
    Names <- OnlyZero
    TooLong <- NoNames
    Files <- NoNames
    Addresses <- NearAddresses
    Blocks <- OneBlocks
    Patterns <- MatchA
    Substitutions <- NoSubstitutions
    InitialDisk <- EmptyDisk
    WriteFaults <- NoNames
    Commands <- ShortCommands
    CommandLines <- ShortLines
    MaxLines = 4
    MaxNesting = 1
    MaxQueued = 4
    MaxBlock = 1
    SizeModulus = 8
    Fact = "a"
    Blank = ""
    Zero = "0"
    NoFile = NoFile
    Absent = Absent
    Unreadable = Unreadable
    NoGlobal = NoGlobal
    NoCommand = NoCommand
CHECK_DEADLOCK FALSE
INVARIANT FailureClearsTheQueue
