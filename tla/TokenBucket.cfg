\* Two callers and the refill goroutine race on a bucket of two tokens.
CONSTANTS
    Users = {u1, u2}
    Refill = refill
    Capacity = 2
    MaxAdded = 3
SPECIFICATION BucketSpec
SYMMETRY UserSymmetry
CHECK_DEADLOCK FALSE
INVARIANTS
    TokensConserved
PROPERTIES
    IsAtomic
