CONSTANTS
    Architectures = {32, 64}
    Functions <- Extensions
SPECIFICATION Spec
INVARIANT PatchedIsDisplacement
