CONSTANTS
    Architectures = {32, 64}
    Functions <- Fences
SPECIFICATION Spec
INVARIANT AlwaysOnBoundary
