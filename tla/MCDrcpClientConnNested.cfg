\* One caller whose interceptors call back into the ClientConn (nested calls).
CONSTANTS
    A = A
    B = B
    c1 = c1
    c2 = c2
    Interceptors <- MCInterceptors
    Calls <- MCOneCall
    MaxInts = 2
    MaxNext = 1
    MaxDepth = 4
SYMMETRY MCSymmetry
INIT Init
NEXT Next
\* Every caller issues one call; after the calls (or a failed dial) the
\* program has nothing left to do.
CHECK_DEADLOCK FALSE
INVARIANTS
    TypeOK
    
    ResultFidelity
    NoPanic
