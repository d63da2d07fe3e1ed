---------------------------- MODULE MCDrcpClient ----------------------------
(***************************************************************************)
(* Model-checking instance of DrcpClient: two interceptor identities, so   *)
(* that an out-of-order chain is visible, lists of up to two interceptors  *)
(* of each kind, and retrying interceptors.                                *)
(***************************************************************************)
EXTENDS DrcpClient, TLC

CONSTANTS A, B, c1, c2

MCInterceptors == {A, B}
MCCalls        == {c1, c2}
MCOneCall      == {c1}
MCSymmetry     == Permutations(MCInterceptors) \cup Permutations(MCCalls)

=============================================================================
