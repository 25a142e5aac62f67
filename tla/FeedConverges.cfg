CONSTANTS
    Char <- MCChar
    Colon = ":"
    Newline = "NL"
    Space <- MCSpace
    FileDataBufferLength = 10
    Policies <- OneWordPolicies
    Networks = {"whole", "segmented"}
    Junk <- MCJunk
    SegmentLengths = {3}
    MaxOutstanding = 1
    MaxFaults = 1
SPECIFICATION FairSpec
INVARIANT
    ProcessesAndPathsGenuine
PROPERTIES
    Converges
