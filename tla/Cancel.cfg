SPECIFICATION StoriesSpec
CONSTANTS
    cake = cake
    pie = pie
    Orders <- MCOrders
    Variants <- MCVariants
    Qty <- MCQty
    Available <- MCAvailable
    BaseReserved <- MCBaseReserved
    Batches = {}
    Staff = {anna}
    SweepLimit = 2
    MaxTime = 1
    MaxOneCVersion = 2
    MaxPaymentVersion = 1
INVARIANTS
    CancelledHoldsNoStock
