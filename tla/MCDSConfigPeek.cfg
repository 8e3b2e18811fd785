SPECIFICATION Spec
CONSTANTS
    c1 = c1
    c2 = c2
    Notifier = Notifier
    MaxEpoch = 1
    Clients <- MCTwoClients
    Answers <- MCFull
PROPERTIES
    ReadersUndisturbed
