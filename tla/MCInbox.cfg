SPECIFICATION FairSpec
CONSTANTS
    e1 = e1
    e2 = e2
    e3 = e3
    None = None
    Event = {e1, e2, e3}
    Old = {e1, e2}
    CreatedAt <- Created
    MaxItems = 2
    MaxSends = 1
    MaxDrops = 1
    MaxMarks = 2
CHECK_DEADLOCK FALSE
INVARIANTS NothingMissed ShownReadIsRead
PROPERTIES GhostsEnd
