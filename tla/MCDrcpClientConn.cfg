\* Both chains of the second implementation, two concurrent callers.
CONSTANTS
    A = A
    B = B
    c1 = c1
    c2 = c2
    Interceptors <- MCInterceptors
    Calls <- MCCalls
    MaxInts = 2
    MaxNext = 1
    MaxDepth = 1
SYMMETRY MCSymmetry
INIT Init
NEXT Next
\* Every caller issues one call; after the calls (or a failed dial) the
\* program has nothing left to do.
CHECK_DEADLOCK FALSE
INVARIANTS
    TypeOK
    ChainOrder
    ResultFidelity
    NoPanic
