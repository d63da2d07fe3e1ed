-------------------------- MODULE MCDrcpClientConn --------------------------
(***************************************************************************)
(* Model-checking instance of DrcpClientConn: two interceptor identities,  *)
(* lists of up to two interceptors of each kind (so the nil, single and    *)
(* chained cases of the compiler's switch all occur), two callers.         *)
(***************************************************************************)
EXTENDS DrcpClientConn, TLC

CONSTANTS A, B, c1, c2

MCInterceptors == {A, B}
MCCalls        == {c1, c2}
MCOneCall      == {c1}
MCSymmetry     == Permutations(MCInterceptors) \cup Permutations(MCCalls)

=============================================================================
