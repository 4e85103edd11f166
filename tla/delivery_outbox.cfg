SPECIFICATION Spec
CONSTANTS
    Command = {c1, c2}
    Event = {1, 2}
    Refused = {2}
    NoEvent = NoEvent
    Limit = 1
    MaxKills = 1
    Housekeeping = {"fold", "ack"}
SYMMETRY CommandSymmetry
INVARIANTS
    EveryEventAccountedFor
    NotesAreTrue
PROPERTY
    KeepsUntilJudged
CHECK_DEADLOCK FALSE
