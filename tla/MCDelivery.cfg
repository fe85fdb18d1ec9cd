CONSTANTS
    c1 = c1
    c2 = c2
    s1 = s1
    s2 = s2
    w1 = w1
    w2 = w2
    ev = ev
    mail = mail
    inbox = inbox
    Event = {ev}
    NoEvent = NoEvent
    Delivery = {mail, inbox}
    EventOf <- OneEvent
    ChannelOf <- Channels
    Worker = {w1, w2}
    NoWorker = NoWorker
    Consumer = {c1, c2}
    Sweeper = {s1, s2}
    WorkerOf <- Processes
    SendOutcome = {"sent", "failed", "unsure"}
    MaxAttempts = 2
    Messages = 2
    MaxFaults = 1
    MaxSlow = 1
SPECIFICATION FairSpec
INVARIANTS SendsBounded OneClaimerPerDelivery
PROPERTIES ImplementsContract EventuallySettled
CHECK_DEADLOCK FALSE
