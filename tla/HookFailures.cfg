SPECIFICATION Spec

CONSTANTS
    t1 = t1
    t2 = t2
    t3 = t3
    Nobody = Nobody
    Threads = {t1, t2, t3}
    Frozen = {t3}
    Failures <- FailureKinds
    StackFrames = 2

INVARIANT TypeOK
INVARIANT SuspensionBalanced
INVARIANT HookedMeansPublished

CHECK_DEADLOCK FALSE
