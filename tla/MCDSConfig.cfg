SPECIFICATION LiveSpec
CONSTANTS
    c1 = c1
    c2 = c2
    Notifier = Notifier
    MaxEpoch = 2
    Clients <- MCOneClient
    Answers <- MCAudioOrVideo
INVARIANTS
    TypeOK
    OneLoader
    StaleOnlyLeftover
    HandlesHaveConfig
PROPERTIES
    MutexReleased
    WaitersSkip
    AudioKeptByReload
    ImplementsAbs
