SPECIFICATION Spec
CONSTANTS
    confirmation = confirmation
    extension = extension
    payment = payment
    rival = rival
    Messages = {confirmation, extension, rival}
    Kind <- MCKind
    Seq <- MCSeq
    Until <- MCUntil
    Workers = {w1}
    MaxAttempts = 2
    MaxFaults = 1
    MaxReplays = 0
INVARIANTS
    StaleClaimRecovers
