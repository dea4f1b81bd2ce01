SPECIFICATION FairSpec
CONSTANTS
    confirmation = confirmation
    extension = extension
    payment = payment
    rival = rival
    Messages = {confirmation, extension, payment, rival}
    Kind <- MCKind
    Seq <- MCSeq
    Until <- MCUntil
    Workers = {w1, w2}
    MaxAttempts = 2
    MaxFaults = 1
    MaxReplays = 1
INVARIANTS
    AppliedIsTaken
PROPERTIES
    VerdictStands
    ImplementsStream
    ImplementsOrder
    AcceptedIsSettled
