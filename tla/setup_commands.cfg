SPECIFICATION Spec
CONSTANTS
    Repo = {r1}
    Dest = {d0, d1, d2}
    Home = d0
    Nowhere = nowhere
    MaxCommands = 3
    MaxFaults = 2
INVARIANTS TypeOK ReportsAreTrue NoDeadRoute ReceiptIsTrue RepairIsPossible
PROPERTIES RecoveryKept PurgeEnds
CHECK_DEADLOCK FALSE
