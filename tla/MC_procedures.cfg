SPECIFICATION FairRunner
CONSTANTS
    Text <- LoopingText
    NonAscii <- NoNames
    Malformed <- NoNames
    Names <- MoreNames
    TooLong <- RefusedNames
    Files <- TwoFiles
    Addresses <- UsualAddress
    Blocks <- NoNames
    Patterns <- MatchA
    Substitutions <- NoNames
    InitialDisk <- LoopingDisk
    WriteFaults <- NoNames
    Commands <- LoopingCommands
    Typed <- LoopingTyped
    Meaning <- MeaningOfLines
    QuotedMeaning <- QuotedMeaningOfLines
    Included <- IncludedByLines
    Labels <- TwoLabels
    Label <- LabelOfLines
    Terminators <- EndOfText
    Registers <- OneRegister
    InitialBuffers <- LoopingBuffers
    RunTogether = "N(n):.<1 J(l)TG.."
    MaximumDepth = 3
    MaxLines = 16
    MaxNesting = 0
    SizeModulus = 32
    Fact = "a"
    Blank = ""
    Zero = "0"
    NoFile = NoFile
    Absent = Absent
    Unreadable = Unreadable
    NoGlobal = NoGlobal
    NoBuffer = NoBuffer
    NoLabel = NoLabel
CHECK_DEADLOCK FALSE
INVARIANTS DepthIsLimited ProceduresRunTheirSnapshot
PROPERTIES ReturnsPassedEverything NothingRunsAfterExit ProceduresEnd
