SPECIFICATION Spec
CONSTANTS
    Orders <- MCOrders
    Variants = {cake, pie}
    Qty <- MCQty
    Available <- MCAvailable
    BaseReserved <- MCBaseReserved
    Batches = {}
    Staff = {anna}
    SweepLimit = 1
    MaxTime = 2
    MaxOneCVersion = 3
    MaxPaymentVersion = 4
INVARIANTS
    HoldMatchesStatus
    PaymentMatchesStatus
    OutboxKeysStayBehind
PROPERTIES
    DeadlineDecides
    ImplementsOrder
    StaffDecideOnWhatTheySaw
