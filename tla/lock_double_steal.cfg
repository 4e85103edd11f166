SPECIFICATION Spec
CONSTANTS
    Proc = {p1, p2, p3}
    Nobody = Nobody
    Stale = 1
    Retries = 2
    MaxHold = 1
    MaxCrashes = 1
SYMMETRY ProcSymmetry
INVARIANT NoLostUpdate
CHECK_DEADLOCK FALSE
