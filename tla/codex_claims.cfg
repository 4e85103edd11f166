SPECIFICATION Spec
CONSTANTS
    N = 3
    s1 = s1
    s2 = s2
    Session <- Sessions
    Of <- SessionOf
    Binding = {b1, b2}
    NoBinding = NoBinding
    Cap = 2
    MaxClaims = 2
    MaxTroubles = 1
INVARIANTS
    TypeOK
    AcceptedIsHeld
PROPERTIES
    SessionIsPinned
SYMMETRY AnyBinding
CHECK_DEADLOCK FALSE
