SPECIFICATION Spec
CONSTANTS
    c1 = c1
    Notifier = Notifier
    MaxEpoch = 2
    Clients <- MCClients
    Answers <- MCAnswers
    ClientKinds <- MCVideoKind
CONSTRAINT ClosesEarly
PROPERTIES
    CfgSpec
INVARIANTS
    CallbackResolutions
    FreshLoad
    HandlesOfActivation
