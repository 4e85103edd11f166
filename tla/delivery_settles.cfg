SPECIFICATION FairSpec
CONSTANTS
    Command = {c1, c2}
    Event = {1, 2}
    Refused = {2}
    NoEvent = NoEvent
    Limit = 1
    MaxKills = 0
    Housekeeping = {}
PROPERTY
    EventsSettle
CHECK_DEADLOCK FALSE
