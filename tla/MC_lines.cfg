SPECIFICATION FairSpec
CONSTANTS
    Text <- PlainText
    NonAscii <- NoNames
    Malformed <- NoNames
    Names <- OnlyZero
    TooLong <- NoNames
    Files <- OneFile
    Addresses <- AllAddresses
    Blocks <- PlainBlocks
    Patterns <- MatchAll
    Substitutions <- PlainSubstitutions
    InitialDisk <- UnreadableFile
    WriteFaults <- NoNames
    Commands <- LineCommands
    MaxLines = 3
    MaxNesting = 0
    SizeModulus = 8
    Fact = "a"
    Blank = ""
    Zero = "0"
    NoFile = NoFile
    Absent = Absent
    Unreadable = Unreadable
    NoGlobal = NoGlobal
CHECK_DEADLOCK FALSE
INVARIANTS TypeOK CursorsInBuffers CleanBuffersAreSaved GlobalExaminesEachLineOnce GlobalKeepsTheUnselected
