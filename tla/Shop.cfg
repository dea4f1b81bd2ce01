SPECIFICATION Spec
CONSTANTS
    Variants = {boots}
    Customer = customer
    Guests = {guest}
    NoCart = none
    Tabs = {tab}
    Attempts = {first, second}
    NoAttempt = idle
    Keys = {k1, k2}
    NoKey = unkeyed
    Forms = {form, amended}
    Dated = {amended}
    Quantities = {1}
    MaxAsked = 2
    MaxClock = 3
    Offers <- MCOffers
INVARIANTS BuysWhatWasShown RevisionIsOrderedOnce NothingFromNothing ReviewSettles
PROPERTY ImplementsBaskets
CHECK_DEADLOCK FALSE
SYMMETRY MCSymmetry
