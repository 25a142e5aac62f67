CONSTANTS
    Char <- MCChar
    Colon = ":"
    Newline = "NL"
    Space <- MCSpace
    FileDataBufferLength = 10
    Policies <- ListPolicies
    Networks = {"prompt"}
    Junk <- MCJunk
    SegmentLengths = {3}
    MaxOutstanding = 1
    MaxFaults = 3
SPECIFICATION Spec
INVARIANTS
    TypeOK
    FilesGenuine
    WrittenInOrder
    NothingReadPastEnd
    ReadersJudgeByOneVersion
