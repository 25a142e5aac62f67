CONSTANTS
    Architectures = {32, 64}
    Functions <- MCFunctions
SPECIFICATION Spec
INVARIANT TypeOK
INVARIANT WholeInstructions
INVARIANT RelativesRecorded
INVARIANT NoTransferTaken
INVARIANT RoomInTrampoline
