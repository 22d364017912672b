SPECIFICATION Spec
CONSTANTS
    Text <- BlankText
    NonAscii <- NoNames
    Malformed <- NoNames
    Names <- OnlyZero
    TooLong <- NoNames
    Files <- OneFile
    Addresses <- FewAddresses
    Blocks <- BlankBlocks
    Patterns <- NoNames
    Substitutions <- NoNames
    InitialDisk <- EmptyFile
    WriteFaults <- NoNames
    Commands <- EditFile
    MaxLines = 2
    MaxNesting = 0
    SizeModulus = 8
    Fact = "a"
    Blank = ""
    Zero = "0"
    NoFile = NoFile
    Absent = Absent
    Unreadable = Unreadable
    NoGlobal = NoGlobal
CHECK_DEADLOCK FALSE
PROPERTIES RoundTrip
