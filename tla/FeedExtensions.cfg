CONSTANTS
    Char <- MCChar
    Colon = ":"
    Newline = "NL"
    Space <- MCSpace
    FileDataBufferLength = 10
    Policies <- OneWordPolicies
    Networks = {"whole"}
    Junk <- MCJunk
    SegmentLengths = {3}
    MaxOutstanding = 2
    MaxFaults = 0
SPECIFICATION Spec
INVARIANTS
    ExtensionsGenuine
