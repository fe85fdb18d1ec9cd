CONSTANTS
    c1 = c1
    c2 = c2
    s1 = s1
    s2 = s2
    w1 = w1
    w2 = w2
    ev = ev
    mail = mail
    inbox = inbox
    Event = {ev}
    NoEvent = NoEvent
    Delivery = {inbox}
    EventOf <- OneEvent
    ChannelOf <- Channels
    Worker = {w1, w2}
    NoWorker = NoWorker
    Consumer = {c1, c2}
    Sweeper = {s1, s2}
    WorkerOf <- Processes
    SendOutcome = {"sent"}
    MaxAttempts = 3
    Messages = 1
    MaxFaults = 1
    MaxSlow = 0
SPECIFICATION FairSpec
PROPERTIES CrashRecovered
CHECK_DEADLOCK FALSE
