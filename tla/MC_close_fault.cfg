SPECIFICATION Spec
CONSTANTS
    Text <- OneText
    NonAscii <- NoNames
    Malformed <- NoNames
    Names <- OnlyZero
    TooLong <- NoNames
    Files <- OneFile
    Addresses <- FewAddresses
    Blocks <- OneBlocks
    Patterns <- NoNames
    Substitutions <- NoNames
    InitialDisk <- AbsentFile
    WriteFaults <- CloseFaults
    Commands <- AppendWrite
    MaxLines = 2
    MaxNesting = 0
    SizeModulus = 8
    Fact = "a"
    Blank = ""
    Zero = "0"
    NoFile = NoFile
    Absent = Absent
    Unreadable = Unreadable
    NoGlobal = NoGlobal
CHECK_DEADLOCK FALSE
PROPERTIES CleanIsOnDisk
