SPECIFICATION SiteSpec
CONSTANTS
    Users = {1, 2}
    Emails = {a, b}
    NoEmail = NoEmail
    Passwords = {p, q}
    NoPassword = NoPassword
    Profiles = {f, g}
    Sessions = {s1}
    NoSession = NoSession
    Links = {1, 2, 3}
    Requests = {r1, r2}
    GuestOrders = {o1}
    NoUser = NoUser
    MaxVersion = 3
    Attributes = {"form", "purpose", "tempering"}
    Skus = {"PD-1", "CB-811"}
    NoSku = "-"
    Values = {"v1", "v2", "seed", "mock"}
    NoValue = "none"
    Batches <- MockBatches
    Seeds <- DemoSeeds
    Sections = {"couverture", "new"}
    Mapped = {"couverture"}
    Holds = {h1, h2}
    Pieces = {1, 2, 5, 10}
    Pages = {r1, r2}
    Texts = {x, y}
    MaxEdits = 3
    LastDay = 2
    Products <- ThreeProducts
    Brands = {"Callebaut", "Belcolade"}
    NoBrand = "none"
    Categories = {"chocolate", "couverture", "drops"}
    Anywhere = "anywhere"
    Under <- Subtrees
    AttributeValues <- Tastes
    Words = {"dark"}
    NoWord = "none"
    Orders = {"popular", "price"}
    Versions <- TheirVersions
    Ranges <- PriceRanges
    PageLimit = 2
    MaxFilters = 2
SYMMETRY SiteSym
CHECK_DEADLOCK FALSE
INVARIANT OwnersProvedTheirAddress
INVARIANT BalancesFit
INVARIANT CountsComeTrue
INVARIANT PagesCoverTheResult
PROPERTY PasswordReplacedKnowingly
PROPERTY EditsAreInformed
PROPERTY VersionsSettleTheCatalog
PROPERTY EditorsSawWhatTheyReplace
