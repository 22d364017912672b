SPECIFICATION FairSpec
CONSTANTS
    Text <- OneText
    NonAscii <- NoNames
    Malformed <- NoNames
    Names <- FewNames
    TooLong <- LongNames
    Files <- NoNames
    Addresses <- FewAddresses
    Blocks <- OneBlocks
    Patterns <- NoNames
    Substitutions <- NoNames
    InitialDisk <- EmptyDisk
    WriteFaults <- NoNames
    Commands <- BufferCommands
    MaxLines = 2
    MaxNesting = 2
    SizeModulus = 8
    Fact = "a"
    Blank = ""
    Zero = "0"
    NoFile = NoFile
    Absent = Absent
    Unreadable = Unreadable
    NoGlobal = NoGlobal
CHECK_DEADLOCK FALSE
INVARIANTS UsageListIsSound TransientsAreCurrent
PROPERTIES MoveDividesTheSource EveryCommandEnds KeepsThePromise
