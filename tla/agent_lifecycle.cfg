SPECIFICATION Spec
CONSTANTS
    Ver = {v1, v2, v3}
    NoVer = NoVer
    NoState = NoState
    NoDef = NoDef
    Foreign = Foreign
SYMMETRY Versions
INVARIANTS
    ServiceRunnable
    Recoverable
PROPERTIES
    ReportsAreTrue
    TouchesOnlyItsOwn
