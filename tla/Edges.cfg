SPECIFICATION EdgesSpec
CONSTANTS
    Callers = {caller}
    Handlers = {h1, h2}
    Mailers = {h1, h2}
    Nonces = {1, 2}
    NoNonce = 0
    Contents = {p, q}
    NoContent = NoContent
    MaxTries = 2
    Tolerance = 1
    Second = 2
    Drift = 1
    MaxTime = 4
    MaxMails = 2
    NewOrders = {1, 2, 3}
    Limit = 1
    Moments = {1, 2}
    Long = {"ca", "cal"}
    Short = {"", "c"}
    Spellings <- WordSpellings
    Synonyms <- OneSynonym
    Entries <- CatalogEntries
    AnswerLimit = 7
    Keys = {p, q}
    NoKey = NoKey
    Files = {file}
    NoFile = NoFile
    Invoice = Invoice
    Documents = {d1}
    NoDocument = NoDocument
    Attempts = {h1, h2}
    MaxPayment = 3
    MaxDeadline = 2
SYMMETRY EdgesSym
CHECK_DEADLOCK FALSE
INVARIANT AnswersAreTrue
INVARIANT CopiesAreLimited
INVARIANT WalksAreComplete
INVARIANT BoxAnswersTheText
INVARIANT ProofIsSubmittedOnce
INVARIANT DocumentsCanBeOpened
INVARIANT SeedingHeals
PROPERTY OnlySlowGuardsReadmit
