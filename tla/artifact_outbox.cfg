SPECIFICATION Spec
CONSTANTS
    Command = {c1, c2}
    Artifact = {a}
    Digest = {x, y, z}
    None = none
    MaxOutbox = 2
    MaxQuarantine = 1
    MaxSequence = 3
    MaxChanges = 2
    MaxStarts = 4
    MaxFaults = 1
SYMMETRY AnyName
INVARIANTS TypeOK NothingForgotten
 
CHECK_DEADLOCK FALSE
