SPECIFICATION QueueSpec
CONSTANTS
    N = 3
    Binding = {b1}
    MaxRecords = 2
    CountCap = 3
    MaxWait = 1
    Slots = 1
    MaxTroubles = 1
INVARIANTS
    QueueTypeOK
    NothingLostSilently
    Bounded
PROPERTIES
    QueueEmpties
