SPECIFICATION FairStoriesSpec
CONSTANTS
    cake = cake
    pie = pie
    Orders <- MCOrders
    Variants <- MCVariants
    Qty <- MCQty
    Available <- MCAvailable
    BaseReserved <- MCBaseReserved
    Batches <- MCBatches
    Staff = {anna}
    SweepLimit = 2
    MaxTime = 1
    MaxOneCVersion = 2
    MaxPaymentVersion = 2
PROPERTIES
    StockConserved
    ImplementsAllocation
    OnlyImportsBlockExpiry
    OverdueIsSettled
