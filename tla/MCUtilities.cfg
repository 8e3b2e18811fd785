\* The utilities, each alone.
SPECIFICATION Spec
CONSTANTS
    None = None
    Empty = Empty
    Torn = Torn
    Token = Token
    MaxFound = 2
    MaxLines = 2
    MaxLetters = 4
    MaxCalls = 2
    Retries = 2
    MaxCrashes = 2
    MaxNested = 1
    Calls = 1
    MaxLeaks = 2
    MaxUint8 = 3
    MaxNoted = 3
    Threads <- MCThreads
    TokenCallers <- MCTokenCallers
    Names <- MCNames
    Strings <- MCStrings
    JsonKeys <- MCJsonKeys
    JsonValues <- MCJsonValues
    Content <- MCContent
    Other <- MCOther
    ModesAsked <- MCModesAsked
    States <- MCStates
    Callsigns <- MCCallsigns
    Trees <- MCTrees
    Patterns <- MCPatterns
    Exclusions <- MCExclusions
    Properties <- MCProperties
    Contents <- MCContents
    Texts <- MCTexts
    Words <- MCWords
    Pieces <- MCPieces
    Images <- MCImages
    Events <- MCEvents
    Handlers <- MCHandlers
    Workers <- MCWorkers
    Clients <- MCClients
    SecurityTokens <- MCSecurityTokens
    Refs <- MCRefs
    RetryCounts <- MCRetryCounts
    Currents <- MCCurrents
    Methods <- MCMethods
INVARIANTS
    SavedIsRead
    PersistedWhole
    NothingLost
    LoneUpdateExact
    
    ReferencesFollowed
    TextKept
    PendingIfActive
    RemovedNotCalled
    OthersDoNoHarm
    JobsHaveCallers
    TokensKept
    ReferencesOwned
    VersionsAlike
PROPERTY CallsReturn
CHECK_DEADLOCK FALSE
