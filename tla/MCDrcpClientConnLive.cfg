\* Liveness and refinement of the second implementation: one caller whose
\* interceptors call back into the ClientConn up to four frames deep.  No
\* symmetry: it is not sound for liveness checking.
CONSTANTS
    A = A
    B = B
    c1 = c1
    c2 = c2
    Interceptors <- MCInterceptors
    Calls <- MCOneCall
    MaxInts = 2
    MaxNext = 1
    MaxDepth = 4
SPECIFICATION LiveSpec
\* Every caller issues one call; after the calls (or a failed dial) the
\* program has nothing left to do.
CHECK_DEADLOCK FALSE
PROPERTIES
    ChainSpecRefined
