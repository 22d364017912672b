SPECIFICATION FairFrontEnd
CONSTANTS
    Text <- ScriptText
    NonAscii <- NoNames
    Malformed <- NoNames
    Names <- AllBuffers
    TooLong <- NoNames
    Files <- AllFiles
    Addresses <- UsualAddressOnly
    Blocks <- OneBlocks
    Patterns <- MatchA
    Substitutions <- NoNames
    InitialDisk <- ScriptDisk
    WriteFaults <- NoNames
    Commands <- CommandsOfTheRun
    Typed <- NoNames
    Meaning <- ScriptMeaning
    QuotedMeaning <- ScriptMeaning
    Included <- NothingInclude
    Labels <- NoLabels
    Label <- NothingLabels
    Terminators <- TextEnd
    Registers <- NoRegister
    InitialBuffers <- InitialManager
    Environment <- SpecialLines
    Candidates <- RequestedFiles
    Starts <- StartsOfTheRun
    TypedLines <- LinesOfTheUser
    RunTogether = "a"
    MaximumDepth = 2
    MaxLines = 4
    MaxNesting = 0
    SizeModulus = 16
    Fact = "a"
    Blank = ""
    Zero = "0"
    DateBuffer = "d"
    TimeBuffer = "t"
    UserBuffer = "u"
    InitBuffer = "__init"
    ScriptBuffer = "."
    NoFile = NoFile
    Absent = Absent
    Unreadable = Unreadable
    NoGlobal = NoGlobal
    NoBuffer = NoBuffer
    NoLabel = NoLabel
    NoRequest = NoRequest
    NoInit = NoInit
CHECK_DEADLOCK FALSE
INVARIANTS FrontEndTypeOK CurrentBufferIsOpen ProcedureStartsClean
PROPERTIES LoadsDisturbNothing StartsSettle ExitEndsTheProcess
