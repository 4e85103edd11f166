SPECIFICATION Spec
CONSTANTS
    Session = {a, b}
    Run = {r1, r2}
    NoFile = NoFile
    MaxKills = 1
SYMMETRY LedgerSymmetry
INVARIANTS
    OneHomeAtRest
    FinishedUnderOrigin
CHECK_DEADLOCK FALSE
