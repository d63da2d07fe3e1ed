------------------------------ MODULE ChainSpec ------------------------------
(***************************************************************************)
(* What an intercepted connection promises its callers (spec sections 4.1 *)
(* and 5), independent of how the chain is compiled.  A call is a stack of *)
(* links: link i < n+1 of the chain of kind k is the i-th configured       *)
(* interceptor of that kind, link n+1 the underlying connection.  A call   *)
(* enters at link 1; the running interceptor may proceed to the next link  *)
(* or, through the connection handle it is given, start a new call at link *)
(* 1 of either chain; links return innermost first, and the caller gets a  *)
(* result only when its outermost link returns.  Every issued call         *)
(* eventually returns.                                                     *)
(***************************************************************************)
EXTENDS Naturals, Sequences

CONSTANTS Interceptors, Calls

VARIABLES
    conn,     \* "none", "ready" or "failed"
    lists,    \* the configured interceptor list of each kind
    active,   \* per call: its stack of links [k, i], innermost last
    result    \* per call: what the caller got back

vars == <<conn, lists, active, result>>

Kinds    == {"unary", "stream"}
NoResult == "none"
Outcomes == {"ok", "errT", "errI"}

Top(c)         == active[c][Len(active[c])]
IsInterceptor(l) == l.i <= Len(lists[l.k])

Init ==
    /\ conn   = "none"
    /\ lists  = [k \in Kinds |-> << >>]
    /\ active = [c \in Calls |-> << >>]
    /\ result = [c \in Calls |-> NoResult]

\* The connection is made (with some lists of interceptors) or fails.
Connect ==
    /\ conn = "none"
    /\ \/ conn' = "failed" /\ UNCHANGED lists
       \/ conn' = "ready" /\ lists' \in [Kinds -> Seq(Interceptors)]
    /\ UNCHANGED <<active, result>>

\* A caller issues a call of kind k: it starts at the first link.
Issue(c, k) ==
    /\ conn = "ready"
    /\ active[c] = << >>
    /\ result[c] = NoResult
    /\ active' = [active EXCEPT ![c] = << [k |-> k, i |-> 1] >>]
    /\ UNCHANGED <<conn, lists, result>>

\* The running interceptor proceeds to the next link of its own chain.
Proceed(c) ==
    /\ active[c] /= << >>
    /\ IsInterceptor(Top(c))
    /\ active' = [active EXCEPT ![c] =
                     Append(@, [k |-> Top(c).k, i |-> Top(c).i + 1])]
    /\ UNCHANGED <<conn, lists, result>>

\* The running interceptor starts a call of kind k through the connection.
Nest(c, k) ==
    /\ active[c] /= << >>
    /\ IsInterceptor(Top(c))
    /\ active' = [active EXCEPT ![c] = Append(@, [k |-> k, i |-> 1])]
    /\ UNCHANGED <<conn, lists, result>>

\* The innermost link returns; if it was the outermost, the caller gets an
\* outcome.
Finish(c) ==
    /\ active[c] /= << >>
    /\ active' = [active EXCEPT ![c] = SubSeq(@, 1, Len(@) - 1)]
    /\ IF Len(active[c]) = 1
       THEN \E r \in Outcomes : result' = [result EXCEPT ![c] = r]
       ELSE UNCHANGED result
    /\ UNCHANGED <<conn, lists>>

Next ==
    \/ Connect
    \/ \E c \in Calls :
          \/ \E k \in Kinds : Issue(c, k) \/ Nest(c, k)
          \/ Proceed(c)
          \/ Finish(c)

SafeSpec == Init /\ [][Next]_vars

\* Every issued call eventually returns: each link returns.
Spec == SafeSpec /\ \A c \in Calls : WF_vars(Finish(c))

=============================================================================
