--------------------------- MODULE DrcpClientConn ---------------------------
(***************************************************************************)
(* Packages drpcinterceptors and drcpclientconn (src/unnamed/part_001):    *)
(* the second implementation of the intercepted ClientConn.  The options   *)
(* are built by the caller with NewDialOptions, copied into the ClientConn *)
(* and compiled there by initInterceptors; the compilers switch on the     *)
(* length of the list (nil for none, the interceptor itself for one, a     *)
(* chain of closures otherwise).                                           *)
(*                                                                         *)
(* Calls are modelled as in DrcpClient: each call is its Go call stack, a  *)
(* sequence of frames, the forwarding closures are folded into the step    *)
(* that pushes the frame they call, and interceptors are user code that    *)
(* may call `next` up to MaxNext times and return what it got, its own     *)
(* error or success.                                                       *)
(***************************************************************************)
EXTENDS Naturals, Sequences

CONSTANTS
    Interceptors,   \* identities of the interceptor function values
    Calls,          \* concurrent callers of Invoke / NewStream
    MaxInts,        \* longest interceptor list a caller configures
    MaxNext,        \* how many calls one interceptor makes (next or conn)
    MaxDepth        \* deepest Go call stack a call may build by nesting

ASSUME ConnConstantsAssumption ==
    /\ MaxInts \in Nat
    /\ MaxNext \in Nat \ {0}
    /\ MaxDepth \in Nat \ {0}

VARIABLES
    conn,     \* outcome of NewClientConnWithOptions: "none", "ready", "failed"
    dopts,    \* the ClientConn's own copy of the DialOptions
    kind,     \* per call: "none" (not issued), "unary" or "stream"
    stack,    \* per call: the frames of its Go call stack, innermost last
    result,   \* per call: what Invoke / NewStream returned to the caller
    trace     \* per call: history of interceptor entries, exits, terminal

vars == <<conn, dopts, kind, stack, result, trace>>

\* "ok" is a nil error (and a stream), "errT" an error of the underlying
\* connection, "errI" one an interceptor makes up, "panic" a Go panic.
Results == {"ok", "errT", "errI", "panic"}
NoResult == "none"

Kinds == {"unary", "stream"}

IntLists == UNION {[1..m -> Interceptors] : m \in 0..MaxInts}

\* A compiled chain: `present` is UnaryInt / StreamInt != nil, `n` the length
\* the switch saw.  For n = 1 the field holds the interceptor itself, which
\* calls `next` exactly as a one-closure chain would.
Chain == [present : BOOLEAN, n : Nat]

Options == [unaryInts : Seq(Interceptors), streamInts : Seq(Interceptors),
            UnaryInt : Chain, StreamInt : Chain]

\* Frames record the kind of the chain they belong to: an interceptor may
\* call Invoke or NewStream on the connection it is handed, so one Go stack
\* can hold frames of both chains.
IcptFrame == [fn : {"icpt"}, k : Kinds, pos : Nat \ {0}, id : Interceptors,
              calls : 0..MaxNext, got : Results \cup {NoResult}]
TermFrame == [fn : {"term"}, k : Kinds]
Frame == IcptFrame \cup TermFrame

Event == [ev : {"before"}, id : Interceptors]
         \cup [ev : {"after"}, id : Interceptors,
               got : Results \cup {NoResult}, ret : Results]
         \cup [ev : {"term"}, ret : Results]

(***************************************************************************)
(* DialOptions and the chaining methods.                                   *)
(***************************************************************************)

\* NewDialOptions: the options append to the two lists; nothing is chained.
NewDialOptions(unaryInts, streamInts) ==
    [unaryInts |-> unaryInts, streamInts |-> streamInts,
     UnaryInt  |-> [present |-> FALSE, n |-> 0],
     StreamInt |-> [present |-> FALSE, n |-> 0]]

\* The switch of ChainUnaryClientInterceptors / ChainStreamClientInterceptors
\* on the length n of a list: case 0 nil, otherwise a chain over n entries.
Compile(n) == [present |-> n # 0, n |-> n]

\* Mutant of ChainStreamClientInterceptors: the length is taken from the
\* unary list, as drcpclient's chainStreamClientInterceptors does.
ChainStreamUnaryLen(d) == [d EXCEPT !.StreamInt = Compile(Len(d.unaryInts))]

ChainUnaryClientInterceptors(d) ==
    [d EXCEPT !.UnaryInt = Compile(Len(d.unaryInts))]

ChainStreamClientInterceptors(d) ==
    [d EXCEPT !.StreamInt = Compile(Len(d.streamInts))]

\* initInterceptors: both chains compiled, unary first.
InitInterceptors(d) ==
    ChainStreamClientInterceptors(ChainUnaryClientInterceptors(d))

NoOptions == NewDialOptions(<< >>, << >>)

\* The list and the compiled chain a call of kind k runs through.
Ints(k)     == IF k = "unary" THEN dopts.unaryInts ELSE dopts.streamInts
ChainOf(k)  == IF k = "unary" THEN dopts.UnaryInt
                              ELSE dopts.StreamInt

(***************************************************************************)
(* Call-stack helpers.                                                     *)
(***************************************************************************)
Top(c) == stack[c][Len(stack[c])]
Pop(s) == SubSeq(s, 1, Len(s) - 1)

\* The caller's stack once its running interceptor has made one more call.
Bumped(c) == [stack[c] EXCEPT ![Len(stack[c])].calls = @ + 1]

\* Mutant of Callee: the closures are chained in the wrong direction, so the
\* last-added interceptor runs outermost.
CalleeReversed(knd, k, n, ints) ==
    IF k <= n
    THEN [fn |-> "icpt", k |-> knd, pos |-> k, id |-> ints[n - k + 1],
          calls |-> 0, got |-> NoResult]
    ELSE [fn |-> "term", k |-> knd]

\* Calling the k-th `chained` closure of the chain of kind knd, of length
\* n: it calls interceptor ints[k] with the (k+1)-th closure as next; the
\* closure past the last interceptor is the `next` adapter of the terminal.
Callee(knd, k, n, ints) ==
    IF k <= n
    THEN [fn |-> "icpt", k |-> knd, pos |-> k, id |-> ints[k], calls |-> 0,
          got |-> NoResult]
    ELSE [fn |-> "term", k |-> knd]

EntryEvent(f) ==
    IF f.fn = "icpt" THEN << [ev |-> "before", id |-> f.id] >> ELSE << >>

\* Mutant of Return: the closure drops the error it was handed
\* (`_ = interceptor(...); return nil`).
ReturnDiscardsError(c, r) ==
    LET rest == Pop(stack[c]) IN
    IF rest = << >>
    THEN /\ stack'  = [stack EXCEPT ![c] = rest]
         /\ result' = [result EXCEPT ![c] = "ok"]
    ELSE /\ stack'  = [stack EXCEPT ![c] =
                 [rest EXCEPT ![Len(rest)].got = "ok"]]
         /\ UNCHANGED result

\* A frame returns r: it is popped and r is handed to the frame below, or
\* to the caller of Invoke / NewStream when the stack becomes empty.
Return(c, r) ==
    LET rest == Pop(stack[c]) IN
    IF rest = << >>
    THEN /\ stack'  = [stack EXCEPT ![c] = rest]
         /\ result' = [result EXCEPT ![c] = r]
    ELSE /\ stack'  = [stack EXCEPT ![c] =
                 [rest EXCEPT ![Len(rest)].got = r]]
         /\ UNCHANGED result

(***************************************************************************)
(* Operations.                                                             *)
(***************************************************************************)
Init ==
    /\ conn   = "none"
    /\ dopts  = NoOptions
    /\ kind   = [c \in Calls |-> "none"]
    /\ stack  = [c \in Calls |-> << >>]
    /\ result = [c \in Calls |-> NoResult]
    /\ trace  = [c \in Calls |-> << >>]

\* NewClientConnWithOptions(dopts, connSupplier): the caller has built the
\* options with NewDialOptions; the supplier is called, and on an error it is
\* returned; otherwise the ClientConn takes a copy of the options and
\* initInterceptors compiles both chains on that copy.
NewClientConnWithOptions ==
    /\ conn = "none"
    /\ \/ /\ conn' = "failed"
          /\ UNCHANGED dopts
       \/ /\ conn' = "ready"
          /\ \E u, s \in IntLists :
                dopts' = InitInterceptors(NewDialOptions(u, s))
    /\ UNCHANGED <<kind, stack, result, trace>>

\* The body of Invoke (k = "unary") and NewStream (k = "stream") on the
\* ClientConn: both wrap Conn.Invoke / Conn.NewStream in a `next` adapter;
\* with no chain they call it directly, otherwise they call the chain.  For
\* n = 1 the chain is the interceptor itself, called with the adapter as
\* next; for n >= 2 the chain's loop builds the closures from the last down
\* to the first, reading d.xInts[i] for i = n-1 .. 0, and calls the first.
\* Either way the frame of interceptor 1 is pushed on the caller's stack.  An
\* index past the slice panics, which unwinds the whole goroutine.
Enter(c, k, st) ==
    LET ch   == ChainOf(k)
        ints == Ints(k)
    IN
    IF ~ch.present
    THEN /\ stack' = [stack EXCEPT ![c] = Append(st, [fn |-> "term", k |-> k])]
         /\ UNCHANGED <<result, trace>>
    ELSE IF ch.n > Len(ints)
    THEN /\ stack'  = [stack EXCEPT ![c] = << >>]
         /\ result' = [result EXCEPT ![c] = "panic"]
         /\ UNCHANGED trace
    ELSE LET f == Callee(k, 1, ch.n, ints) IN
         /\ stack' = [stack EXCEPT ![c] = Append(st, f)]
         /\ trace' = [trace EXCEPT ![c] = @ \o EntryEvent(f)]
         /\ UNCHANGED result

\* A caller issues Invoke / NewStream on the ready ClientConn.
Call(c, k) ==
    /\ conn = "ready"
    /\ kind[c] = "none"
    /\ kind' = [kind EXCEPT ![c] = k]
    /\ Enter(c, k, << >>)
    /\ UNCHANGED <<conn, dopts>>

Invoke(c)    == Call(c, "unary")
NewStream(c) == Call(c, "stream")

\* Mutant of NestedCall: the interceptor is handed the raw c.Conn instead of
\* the ClientConn, so its call skips the chain.
NestedCallRawConn(c, k) ==
    /\ stack[c] /= << >>
    /\ Top(c).fn = "icpt"
    /\ Top(c).calls < MaxNext
    /\ Len(stack[c]) < MaxDepth
    /\ stack' = [stack EXCEPT ![c] = Append(Bumped(c), [fn |-> "term", k |-> k])]
    /\ UNCHANGED <<conn, dopts, kind, result, trace>>

\* The running interceptor calls Invoke / NewStream on the connection handle
\* it was given (c, Invoke line 38 / NewStream line 48): a new call through
\* the chain of that kind, nested on the same goroutine.
NestedCall(c, k) ==
    /\ stack[c] /= << >>
    /\ Top(c).fn = "icpt"
    /\ Top(c).calls < MaxNext
    /\ Len(stack[c]) < MaxDepth
    /\ Enter(c, k, Bumped(c))
    /\ UNCHANGED <<conn, dopts, kind>>

\* Mutant of CallNext: the retry loop of the interceptor is off by one.
CallNextOffByOne(c) ==
    /\ stack[c] /= << >>
    /\ Top(c).fn = "icpt"
    /\ Top(c).calls <= MaxNext
    /\ LET top == Top(c)
           f   == Callee(top.k, top.pos + 1, ChainOf(top.k).n, Ints(top.k))
       IN
       /\ stack' = [stack EXCEPT ![c] = Append(Bumped(c), f)]
       /\ trace' = [trace EXCEPT ![c] = @ \o EntryEvent(f)]
    /\ UNCHANGED <<conn, dopts, kind, result>>

\* The running interceptor calls its `next`: the closure after its own.
CallNext(c) ==
    /\ stack[c] /= << >>
    /\ Top(c).fn = "icpt"
    /\ Top(c).calls < MaxNext
    /\ LET top == Top(c)
           f   == Callee(top.k, top.pos + 1, ChainOf(top.k).n, Ints(top.k))
       IN
       /\ stack' = [stack EXCEPT ![c] = Append(Bumped(c), f)]
       /\ trace' = [trace EXCEPT ![c] = @ \o EntryEvent(f)]
    /\ UNCHANGED <<conn, dopts, kind, result>>

\* The running interceptor returns: what its last `next` returned, an error
\* of its own, or success.
InterceptorReturn(c) ==
    /\ stack[c] /= << >>
    /\ Top(c).fn = "icpt"
    /\ \E r \in ({Top(c).got} \ {NoResult}) \cup {"ok", "errI"} :
          /\ Return(c, r)
          /\ trace' = [trace EXCEPT ![c] = Append(@,
                 [ev |-> "after", id |-> Top(c).id, got |-> Top(c).got,
                  ret |-> r])]
    /\ UNCHANGED <<conn, dopts, kind>>

\* The underlying Conn.Invoke / Conn.NewStream returns, with or without error.
TerminalReturn(c) ==
    /\ stack[c] /= << >>
    /\ Top(c).fn = "term"
    /\ \E r \in {"ok", "errT"} :
          /\ Return(c, r)
          /\ trace' = [trace EXCEPT ![c] = Append(@, [ev |-> "term", ret |-> r])]
    /\ UNCHANGED <<conn, dopts, kind>>

Next ==
    \/ NewClientConnWithOptions
    \/ \E c \in Calls :
          \/ Invoke(c)
          \/ NewStream(c)
          \/ CallNext(c)
          \/ \E k \in Kinds : NestedCall(c, k)
          \/ InterceptorReturn(c)
          \/ TerminalReturn(c)

Spec == Init /\ [][Next]_vars

\* Each caller runs on its own goroutine, which the Go scheduler keeps
\* running; the interceptors and the underlying Conn are assumed to return.
\* Nothing forces a caller to issue a call or an interceptor to call next.
Fairness == \A c \in Calls : WF_vars(InterceptorReturn(c) \/ TerminalReturn(c))

LiveSpec == Spec /\ Fairness

(***************************************************************************)
(* Properties.                                                             *)
(***************************************************************************)

\* Every variable holds a value of its intended kind.
TypeOK ==
    /\ conn \in {"none", "ready", "failed"}
    /\ dopts \in Options
    /\ kind \in [Calls -> {"none", "unary", "stream"}]
    /\ stack \in [Calls -> Seq(Frame)]
    /\ result \in [Calls -> Results \cup {NoResult}]
    /\ trace \in [Calls -> Seq(Event)]

\* The position of a frame in its chain; the terminal comes after the list.
Link(f) == IF f.fn = "icpt" THEN f.pos ELSE Len(Ints(f.k)) + 1

\* Every call, and every call an interceptor makes through its connection
\* handle, runs its own interceptor list first-added outermost and reaches
\* the underlying Conn only beneath all of them: each frame is the
\* interceptor at its position, a frame is either the first link of a chain
\* (a call entered through the ClientConn) or the link after the frame
\* below it, the outermost chain is the caller's kind, and the terminal is
\* always the innermost frame.  This holds whether the switch chose nil, the
\* single interceptor, or the closure chain.
ChainOrder ==
    \A c \in Calls : \A j \in 1..Len(stack[c]) :
        LET f == stack[c][j] IN
        /\ f.fn = "icpt" => f.pos <= Len(Ints(f.k)) /\ f.id = Ints(f.k)[f.pos]
        /\ f.fn = "term" => j = Len(stack[c])
        /\ j = 1 => Link(f) = 1 /\ f.k = kind[c]
        /\ j > 1 => \/ Link(f) = 1
                   \/ /\ stack[c][j - 1].k = f.k
                      /\ Link(stack[c][j - 1]) = Link(f) - 1

\* The wrapper hands results through untouched: when every interceptor
\* returned what its last `next` returned, Invoke / NewStream return what
\* the last call of the underlying Conn returned.
Transparent(c) ==
    \A i \in 1..Len(trace[c]) :
        trace[c][i].ev = "after" => trace[c][i].ret = trace[c][i].got
LastTerminal(c) ==
    LET ts == {i \in 1..Len(trace[c]) : trace[c][i].ev = "term"}
    IN  trace[c][CHOOSE i \in ts : \A j \in ts : j <= i].ret
ResultFidelity ==
    \A c \in Calls :
        (result[c] \in {"ok", "errT", "errI"} /\ Transparent(c))
            => result[c] = LastTerminal(c)

\* No Invoke / NewStream panics: the chain never indexes past its list.
NoPanic == \A c \in Calls : result[c] /= "panic"

(***************************************************************************)
(* Refinement: the ClientConn implements ChainSpec, with each frame mapped *)
(* to its link and the lists read from the ClientConn's options.           *)
(***************************************************************************)
AbsLinks(st) == [j \in 1..Len(st) |-> [k |-> st[j].k, i |-> Link(st[j])]]

Abstract == INSTANCE ChainSpec WITH
    lists  <- [k \in Kinds |-> Ints(k)],
    active <- [c \in Calls |-> AbsLinks(stack[c])]

\* The calls of the ClientConn go through the chains as ChainSpec allows:
\* they start at the first link, step one link at a time or nest a call at
\* the first link of a chain, unwind innermost first, and all return.
ChainSpecRefined == Abstract!Spec

=============================================================================
