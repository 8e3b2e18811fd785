SPECIFICATION Spec
CONSTANTS
    VideoTypes <- MCVideoTypes
    AudioTypes <- MCAudioTypes
    Indexes = {0, 1}
    ResolutionNames = {"720p", "1080p"}
    Modes = {1, 2}
    Configs <- MCConfigs
    TypeAnswers <- MCTypeAnswers
INVARIANTS
    
    HandlesOfPorts
    NamesAgree
    DefaultsListed
    ConnectedIsConfigured
