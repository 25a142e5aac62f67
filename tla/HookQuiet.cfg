SPECIFICATION FairSpec

CONSTANTS
    t1 = t1
    t2 = t2
    t3 = t3
    Nobody = Nobody
    Threads = {t1, t2, t3}
    Frozen = {t3}
    Failures <- NoFailures
    StackFrames = 2

INVARIANT NoCrash
PROPERTY HookingEnds
PROPERTY HookIsAtomic
