SPECIFICATION Spec
CONSTANTS
    c1 = c1
    c2 = c2
    video = video
    audio = audio
    Notifier = Notifier
    MaxEpoch = 2
    Clients <- MCClients
    Kinds <- MCTwoKinds
SYMMETRY MCSymmetry
INVARIANTS
    TypeOK
    RefsAccounted
    StaleOnlyLate
