CONSTANTS
    t1 = t1
    t2 = t2
    t3 = t3
    c1 = c1
    c2 = c2
    none = none
    NoFrame = none
    Threads <- MCThreads
    Classes <- MCClasses
    Nesting = {"plain"}
    MaxDepth = 2
SPECIFICATION Spec
SYMMETRY MCSymmetry
CHECK_DEADLOCK FALSE
INVARIANT UnlockedAcrossInvoke
