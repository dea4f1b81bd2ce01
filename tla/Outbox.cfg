SPECIFICATION FairSpec
CONSTANTS
    Events = {e1}
    NoEvent = NoEvent
    Written <- MCWritten
    Relays = {r1}
    Workers = {w1, w2}
    MaxAttempts = 3
    MaxJobs = 1
    MaxChanges = 1
    MaxFaults = 1
INVARIANTS
    AttemptsAreLimited
    JournalIsTrue
PROPERTIES
    ImplementsDelivery
    EveryEventIsSettled
CHECK_DEADLOCK FALSE
