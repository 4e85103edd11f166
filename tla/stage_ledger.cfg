SPECIFICATION FairSpec
CONSTANTS
    s1 = s1
    s2 = s2
    s3 = s3
    None = None
    Proc = {p1, p2}
    Stage <- MCPair
    After <- MCPairAfter
    StageOutcome = {"success", "failed"}
    MaxAttempt = 2
    MaxKills = 1
INVARIANTS
    AtMostOneOpen
    OpenStageHasBasis
    OneStoryPerOccurrence
PROPERTIES
    OccurrencesAreFinal
    ClaimedRunEnds
