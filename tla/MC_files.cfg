SPECIFICATION Spec
CONSTANTS
    Text <- FileText
    NonAscii <- AccentedText
    Malformed <- MalformedText
    Names <- OnlyZero
    TooLong <- NoNames
    Files <- TwoFiles
    Addresses <- FileAddresses
    Blocks <- FileBlocks
    Patterns <- NoNames
    Substitutions <- NoNames
    InitialDisk <- MixedDisk
    WriteFaults <- SeenFaults
    Commands <- FileCommands
    MaxLines = 2
    MaxNesting = 0
    SizeModulus = 8
    Fact = "a"
    Blank = ""
    Zero = "0"
    NoFile = NoFile
    Absent = Absent
    Unreadable = Unreadable
    NoGlobal = NoGlobal
VIEW TextsAndFiles
CHECK_DEADLOCK FALSE
PROPERTIES CleanIsOnDisk KeepsThePromise
