SPECIFICATION Spec
CONSTANTS
    c1 = c1
    c2 = c2
    Notifier = Notifier
    MaxEpoch = 1
    Clients <- MCOneClient
    Answers <- MCFull
INVARIANTS
    ClearedWhenDown
