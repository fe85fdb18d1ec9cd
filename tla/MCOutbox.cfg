CONSTANTS
    Event = {ev1, ev2, ev3}
    AccountEvent = {ev1, ev2}
    NoEvent = NoEvent
    Producer = {p1, p2}
    Sweeper = {s1, s2}
    MaxAttempts = 2
    BatchLimit = 2
    MaxRollbacks = 1
    MaxAborts = 1
SPECIFICATION FairSpec
INVARIANTS SinglePublisher CopiesBounded OrphansBounded
PROPERTIES SettledUnlessStranded ImplementsContract
CHECK_DEADLOCK FALSE
