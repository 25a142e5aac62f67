CONSTANTS
    p1 = p1
    p2 = p2
    p3 = p3
    Pids = {p1, p2}
    NoPid = NoPid
    Programs <- MCPrograms
    SystemPrograms <- MCSystem
    Lists <- MCLists
    Unknown <- MCUnknown
    Char <- MCChar
    Colon = ":"
    Newline = "NL"
    Space <- MCSpace
    FileDataBufferLength = 10
    Failures <- NoFailures
    MaxIds = 4
    MaxStarts = 1
SPECIFICATION FairSpec
PROPERTY EveryProcessCovered
CHECK_DEADLOCK FALSE
