\* Violation expected: NewStream on a ClientConn with more stream than unary interceptors.
CONSTANTS
    A = A
    B = B
    c1 = c1
    c2 = c2
    Interceptors <- MCInterceptors
    Calls <- MCOneCall
    MaxInts = 2
    MaxNext = 1
SYMMETRY MCSymmetry
INIT Init
NEXT Next
CHECK_DEADLOCK FALSE
INVARIANT StreamChainOrder
