CONSTANTS
    c1 = c1
    s1 = s1
    w1 = w1
    p1 = p1
    ev = ev
    mail = mail
    inbox = inbox
    Event = {ev}
    NoEvent = NoEvent
    Delivery = {mail, inbox}
    EventOf <- OneEvent
    ChannelOf <- Channels
    Worker = {w1}
    NoWorker = NoWorker
    Consumer = {c1}
    Sweeper = {s1}
    WorkerOf <- OneProcess
    SendOutcome = {"sent", "unsure"}
    MaxAttempts = 2
    Messages = 0
    MaxFaults = 1
    MaxSlow = 0
    AccountEvent = {}
    Producer = {p1}
    Publisher = {w1}
    PublishAttempts = 2
    BatchLimit = 1
    MaxRollbacks = 1
    MaxAborts = 1
    MaxDoubles = 1
SPECIFICATION FairPipelineSpec
INVARIANTS NothingSlips
PROPERTIES ImplementsEndToEnd EventuallyDecided
CHECK_DEADLOCK FALSE
