\* Unary chain: ordering and result fidelity, one caller, retrying interceptors.
CONSTANTS
    A = A
    B = B
    c1 = c1
    c2 = c2
    Interceptors <- MCInterceptors
    Calls <- MCOneCall
    MaxInts = 2
    MaxNext = 2
SYMMETRY MCSymmetry
INIT Init
NEXT Next
\* Every caller issues one call; after the calls (or a failed dial) the
\* program has nothing left to do.
CHECK_DEADLOCK FALSE
INVARIANTS
    TypeOK
    UnaryChainOrder
    ResultFidelity
