CONSTANTS
    h1 = h1
    h2 = h2
    h3 = h3
    w1 = w1
    w2 = w2
    flaky = flaky
    garbled = garbled
    Message = {flaky, garbled}
    NoCopy = NoCopy
    Handler = {h1, h2, h3}
    Worker = {w1, w2}
    WorkerOf <- Deployed
    OutcomesOf <- Fates
    MaxRetries = 1
    BrokerRetries = {w1}
    Concurrency = 2
    MaxFaults = 1
SPECIFICATION FairSpec
INVARIANTS NothingLost DeadLettersEarned NoDuplicateWithoutFault
PROPERTIES EventuallyResolved DrainSparesRunningWork
CHECK_DEADLOCK FALSE
