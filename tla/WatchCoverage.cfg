CONSTANTS
    p1 = p1
    p2 = p2
    p3 = p3
    Pids = {p1, p2}
    NoPid = NoPid
    Programs <- MCPrograms
    SystemPrograms <- MCSystem
    Lists <- MCLists
    Unknown <- MCUnknown
    Char <- MCChar
    Colon = ":"
    Newline = "NL"
    Space <- MCSpace
    FileDataBufferLength = 10
    Failures <- Misread
    MaxIds = 2
    MaxStarts = 2
SPECIFICATION FairSpec
PROPERTY ScanCovers
PROPERTY WatchCovers
CHECK_DEADLOCK FALSE
