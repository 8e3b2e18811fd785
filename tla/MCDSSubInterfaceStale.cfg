SPECIFICATION Spec
CONSTANTS
    c1 = c1
    c2 = c2
    video = video
    audio = audio
    Notifier = Notifier
    MaxEpoch = 1
    Clients <- MCClients
    Kinds <- MCOneKind
INVARIANTS
    NullInDeactivated
