----------------------------- MODULE DrcpClient -----------------------------
(***************************************************************************)
(* Package drcpclient (src/drcpclient/clientconn.go): a ClientConn that   *)
(* wraps one drpc.Conn and splices the interceptor chains compiled by      *)
(* newDialOptions between the caller and the connection.                   *)
(*                                                                         *)
(* Each call is modelled as its Go call stack: a sequence of frames, one   *)
(* per interceptor that has been entered and not yet returned, topped by   *)
(* a terminal frame while the underlying Conn.Invoke / Conn.NewStream is   *)
(* in flight.  The forwarding closures built by the chaining loops (the    *)
(* `chained` values) carry no state of their own: calling the k-th of them *)
(* is the step that pushes the frame of interceptor k, or of the terminal  *)
(* when k is past the chain.  Interceptors are user code: the model lets   *)
(* each one call `next` up to MaxNext times (a retrying interceptor), and  *)
(* return what `next` returned, its own error, or success.                 *)
(***************************************************************************)
EXTENDS Naturals, Sequences

CONSTANTS
    Interceptors,   \* identities of the interceptor function values
    Calls,          \* concurrent callers of Invoke / NewStream
    MaxInts,        \* longest interceptor list a caller configures
    MaxNext         \* how often one interceptor may call its `next`

ASSUME ConstantsAssumption ==
    /\ MaxInts \in Nat
    /\ MaxNext \in Nat \ {0}

VARIABLES
    conn,     \* outcome of NewClientConnWithOptions: "none", "ready", "failed"
    dopts,    \* the *DialOptions the ClientConn holds
    kind,     \* per call: "none" (not issued), "unary" or "stream"
    stack,    \* per call: the frames of its Go call stack, innermost last
    result,   \* per call: what Invoke / NewStream returned to the caller
    trace     \* per call: history of interceptor entries, exits, terminal

vars == <<conn, dopts, kind, stack, result, trace>>

(***************************************************************************)
(* Values.  "ok" stands for a nil error (and, for NewStream, a stream);    *)
(* "errT" for an error of the underlying connection, "errI" for one an     *)
(* interceptor makes up, "panic" for a Go runtime panic in the call.       *)
(***************************************************************************)
Results == {"ok", "errT", "errI", "panic"}
NoResult == "none"

IntLists == UNION {[1..m -> Interceptors] : m \in 0..MaxInts}

\* A compiled chain: `present` is chainedXInt != nil, `n` the length the
\* chaining closure captured when it was built.
Chain == [present : BOOLEAN, n : Nat]

Options == [unaryInts : Seq(Interceptors), streamInts : Seq(Interceptors),
            chainedUnaryInt : Chain, chainedStreamInt : Chain]

IcptFrame == [fn : {"icpt"}, pos : Nat \ {0}, id : Interceptors,
              calls : 0..MaxNext, got : Results \cup {NoResult}]
TermFrame == [fn : {"term"}]
Frame == IcptFrame \cup TermFrame

Event == [ev : {"before"}, id : Interceptors]
         \cup [ev : {"after"}, id : Interceptors,
               got : Results \cup {NoResult}, ret : Results]
         \cup [ev : {"term"}, ret : Results]

(***************************************************************************)
(* DialOptions and the chaining functions.                                 *)
(***************************************************************************)

\* chainUnaryClientInterceptors: the chained closure always exists and
\* captures n = len(d.unaryInts).
ChainUnary(unaryInts, streamInts) == [present |-> TRUE, n |-> Len(unaryInts)]

\* chainStreamClientInterceptors: the chained closure always exists and
\* captures n = len(d.unaryInts), not len(d.streamInts).
ChainStream(unaryInts, streamInts) == [present |-> TRUE, n |-> Len(unaryInts)]

\* newDialOptions: every WithChainUnaryInterceptor / WithChainStreamInterceptor
\* option appends its interceptors to one of the two lists, so the options
\* are represented by the two lists they accumulate; then both chains are
\* compiled.
NewDialOptions(unaryInts, streamInts) ==
    [unaryInts        |-> unaryInts,
     streamInts       |-> streamInts,
     chainedUnaryInt  |-> ChainUnary(unaryInts, streamInts),
     chainedStreamInt |-> ChainStream(unaryInts, streamInts)]

NoOptions == [unaryInts |-> << >>, streamInts |-> << >>,
              chainedUnaryInt |-> [present |-> FALSE, n |-> 0],
              chainedStreamInt |-> [present |-> FALSE, n |-> 0]]

\* The list and the compiled chain a call of kind k runs through.
Ints(k)     == IF k = "unary" THEN dopts.unaryInts ELSE dopts.streamInts
ChainOf(k)  == IF k = "unary" THEN dopts.chainedUnaryInt
                              ELSE dopts.chainedStreamInt

(***************************************************************************)
(* Call-stack helpers.                                                     *)
(***************************************************************************)
Top(c) == stack[c][Len(stack[c])]
Pop(s) == SubSeq(s, 1, Len(s) - 1)

\* Mutant of Callee: the closures are chained in the wrong direction, so the
\* last-added interceptor runs outermost.
CalleeReversed(k, n, ints) ==
    IF k <= n
    THEN [fn |-> "icpt", pos |-> k, id |-> ints[n - k + 1], calls |-> 0,
          got |-> NoResult]
    ELSE [fn |-> "term"]

\* Calling the k-th `chained` closure of a chain of length n: it calls
\* interceptor ints[k] with the (k+1)-th closure as next; the closure past
\* the last interceptor is the terminal invoker / streamer.
Callee(k, n, ints) ==
    IF k <= n
    THEN [fn |-> "icpt", pos |-> k, id |-> ints[k], calls |-> 0,
          got |-> NoResult]
    ELSE [fn |-> "term"]

EntryEvent(f) ==
    IF f.fn = "icpt" THEN << [ev |-> "before", id |-> f.id] >> ELSE << >>

\* Mutant of Return: the closure drops the error it was handed
\* (`_ = interceptor(...); return nil`).
ReturnDiscardsError(c, r) ==
    LET rest == Pop(stack[c]) IN
    IF rest = << >>
    THEN /\ stack'  = [stack EXCEPT ![c] = rest]
         /\ result' = [result EXCEPT ![c] = "ok"]
    ELSE /\ stack'  = [stack EXCEPT ![c] =
                 [rest EXCEPT ![Len(rest)] = [@ EXCEPT !.got = "ok"]]]
         /\ UNCHANGED result

\* A frame returns r: it is popped and r is handed to the frame below, or
\* to the caller of Invoke / NewStream when the stack becomes empty.
Return(c, r) ==
    LET rest == Pop(stack[c]) IN
    IF rest = << >>
    THEN /\ stack'  = [stack EXCEPT ![c] = rest]
         /\ result' = [result EXCEPT ![c] = r]
    ELSE /\ stack'  = [stack EXCEPT ![c] =
                 [rest EXCEPT ![Len(rest)] = [@ EXCEPT !.got = r]]]
         /\ UNCHANGED result

(***************************************************************************)
(* Operations.                                                             *)
(***************************************************************************)
Init ==
    /\ conn   = "none"
    /\ dopts  = NoOptions
    /\ kind   = [c \in Calls |-> "none"]
    /\ stack  = [c \in Calls |-> << >>]
    /\ result = [c \in Calls |-> NoResult]
    /\ trace  = [c \in Calls |-> << >>]

\* NewClientConnWithOptions: dial first; on a dial error return it and build
\* nothing; otherwise build the DialOptions and the ClientConn.
NewClientConnWithOptions ==
    /\ conn = "none"
    /\ \/ /\ conn' = "failed"
          /\ UNCHANGED dopts
       \/ /\ conn' = "ready"
          /\ \E u, s \in IntLists : dopts' = NewDialOptions(u, s)
    /\ UNCHANGED <<kind, stack, result, trace>>

\* Invoke (k = "unary") and NewStream (k = "stream") on the ClientConn:
\* with no chain, call the terminal directly; otherwise call the chain,
\* whose loop first builds the closures from the last down to the first,
\* reading d.xInts[i] for i = n-1 .. 0 (an index past the slice panics),
\* and then calls the first closure.
Call(c, k) ==
    LET ch   == ChainOf(k)
        ints == Ints(k)
    IN
    /\ conn = "ready"
    /\ kind[c] = "none"
    /\ kind' = [kind EXCEPT ![c] = k]
    /\ IF ~ch.present
       THEN /\ stack' = [stack EXCEPT ![c] = << [fn |-> "term"] >>]
            /\ UNCHANGED <<result, trace>>
       ELSE IF ch.n > Len(ints)
       THEN /\ result' = [result EXCEPT ![c] = "panic"]
            /\ UNCHANGED <<stack, trace>>
       ELSE LET f == Callee(1, ch.n, ints) IN
            /\ stack' = [stack EXCEPT ![c] = << f >>]
            /\ trace' = [trace EXCEPT ![c] = @ \o EntryEvent(f)]
            /\ UNCHANGED result
    /\ UNCHANGED <<conn, dopts>>

Invoke(c)    == Call(c, "unary")
NewStream(c) == Call(c, "stream")

\* Mutant of CallNext: the retry loop of the interceptor is off by one.
CallNextOffByOne(c) ==
    /\ stack[c] /= << >>
    /\ Top(c).fn = "icpt"
    /\ Top(c).calls <= MaxNext
    /\ LET top == Top(c)
           f   == Callee(top.pos + 1, ChainOf(kind[c]).n, Ints(kind[c]))
       IN
       /\ stack' = [stack EXCEPT ![c] =
              Append([@ EXCEPT ![Len(@)] = [top EXCEPT !.calls = @ + 1]], f)]
       /\ trace' = [trace EXCEPT ![c] = @ \o EntryEvent(f)]
    /\ UNCHANGED <<conn, dopts, kind, result>>

\* The running interceptor calls its `next`: the closure after its own.
CallNext(c) ==
    /\ stack[c] /= << >>
    /\ Top(c).fn = "icpt"
    /\ Top(c).calls < MaxNext
    /\ LET top == Top(c)
           f   == Callee(top.pos + 1, ChainOf(kind[c]).n, Ints(kind[c]))
       IN
       /\ stack' = [stack EXCEPT ![c] =
              Append([@ EXCEPT ![Len(@)] = [top EXCEPT !.calls = @ + 1]], f)]
       /\ trace' = [trace EXCEPT ![c] = @ \o EntryEvent(f)]
    /\ UNCHANGED <<conn, dopts, kind, result>>

\* The running interceptor returns: what its last `next` returned, an error
\* of its own, or success.
InterceptorReturn(c) ==
    /\ stack[c] /= << >>
    /\ Top(c).fn = "icpt"
    /\ \E r \in ({Top(c).got} \ {NoResult}) \cup {"ok", "errI"} :
          /\ Return(c, r)
          /\ trace' = [trace EXCEPT ![c] = Append(@,
                 [ev |-> "after", id |-> Top(c).id, got |-> Top(c).got,
                  ret |-> r])]
    /\ UNCHANGED <<conn, dopts, kind>>

\* The underlying Conn.Invoke / Conn.NewStream returns, with or without error.
TerminalReturn(c) ==
    /\ stack[c] /= << >>
    /\ Top(c).fn = "term"
    /\ \E r \in {"ok", "errT"} :
          /\ Return(c, r)
          /\ trace' = [trace EXCEPT ![c] = Append(@, [ev |-> "term", ret |-> r])]
    /\ UNCHANGED <<conn, dopts, kind>>

Next ==
    \/ NewClientConnWithOptions
    \/ \E c \in Calls :
          \/ Invoke(c)
          \/ NewStream(c)
          \/ CallNext(c)
          \/ InterceptorReturn(c)
          \/ TerminalReturn(c)

Spec == Init /\ [][Next]_vars

(***************************************************************************)
(* Properties.                                                             *)
(***************************************************************************)

\* Every variable holds a value of its intended kind.
TypeOK ==
    /\ conn \in {"none", "ready", "failed"}
    /\ dopts \in Options
    /\ kind \in [Calls -> {"none", "unary", "stream"}]
    /\ stack \in [Calls -> Seq(Frame)]
    /\ result \in [Calls -> Results \cup {NoResult}]
    /\ trace \in [Calls -> Seq(Event)]

\* The call stack of call c runs through the interceptor list ints in its
\* configured order: the j-th frame is the j-th configured interceptor, and
\* the terminal operation is reached only beneath all of them.
ChainOrder(c, ints) ==
    \A j \in 1..Len(stack[c]) :
        IF stack[c][j].fn = "icpt"
        THEN j <= Len(ints) /\ stack[c][j].id = ints[j]
        ELSE j = Len(ints) + 1

\* Invoke runs the unary interceptors first-added outermost, each exactly
\* once per entry, and reaches Conn.Invoke only after entering all of them
\* (ChainUnaryClientInterceptors' loop and ClientConn.Invoke).
UnaryChainOrder ==
    \A c \in Calls : kind[c] = "unary" => ChainOrder(c, dopts.unaryInts)

\* NewStream runs the stream interceptors in their configured order and
\* opens the stream only after entering all of them
\* (chainStreamClientInterceptors' loop and ClientConn.NewStream).
StreamChainOrder ==
    \A c \in Calls : kind[c] = "stream" => ChainOrder(c, dopts.streamInts)

\* The result the caller of c got was produced by the terminal operation
\* (or an interceptor error) without being touched by the wrapper layer:
\* when every interceptor returned exactly what its last `next` returned,
\* Invoke / NewStream return what the last terminal call returned, through
\* any nesting and any retries.
Transparent(c) ==
    \A i \in 1..Len(trace[c]) :
        trace[c][i].ev = "after" => trace[c][i].ret = trace[c][i].got
LastTerminal(c) ==
    LET ts == {i \in 1..Len(trace[c]) : trace[c][i].ev = "term"}
    IN  trace[c][CHOOSE i \in ts : \A j \in ts : j <= i].ret
ResultFidelity ==
    \A c \in Calls :
        (result[c] \in {"ok", "errT", "errI"} /\ Transparent(c))
            => result[c] = LastTerminal(c)

\* No call on the ClientConn panics (a Go panic in Invoke / NewStream tears
\* down the caller).
NoPanic == \A c \in Calls : result[c] /= "panic"

\* The doc comment of chainUnaryClientInterceptors: "If there are no
\* interceptors, d.UnaryInt is set to nil", so that Invoke calls the
\* connection directly.
ChainNilWhenEmpty ==
    conn = "ready" =>
        (dopts.chainedUnaryInt.present <=> dopts.unaryInts /= << >>)

=============================================================================
