CONSTANTS
    p1 = p1
    p2 = p2
    p3 = p3
    Pids = {p1, p2, p3}
    NoPid = NoPid
    Programs <- MCPrograms
    SystemPrograms <- MCSystem
    Lists <- MCLists
    Unknown <- MCUnknown
    Char <- MCChar
    Colon = ":"
    Newline = "NL"
    Space <- MCSpace
    FileDataBufferLength = 10
    Failures <- AllFailures
    MaxIds = 2
    MaxStarts = 2
SPECIFICATION Spec
INVARIANT TypeOK
INVARIANT ScanKeepsThreadsOnly
INVARIANT SubscribedOrUndone
PROPERTY SafeNeverHooked
CHECK_DEADLOCK FALSE
SYMMETRY AnyPid
