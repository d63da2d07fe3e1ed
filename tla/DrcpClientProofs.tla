-------------------------- MODULE DrcpClientProofs --------------------------
(***************************************************************************)
(* Proofs about DrcpClient for every value of the constants.               *)
(***************************************************************************)
EXTENDS DrcpClient, SequenceTheorems, TLAPS

(***************************************************************************)
(* TypeOK is not inductive by itself: CallNext reads ints[pos + 1], which  *)
(* is an interceptor only because the chain a running call uses is no      *)
(* longer than its list (true of every call that got past the loop that    *)
(* builds the closures), and Return writes the `got` field of the frame    *)
(* below the top, which exists because only the top frame can be the       *)
(* terminal.  The options are fixed once the ClientConn exists, so no call *)
(* starts before it does.                                                  *)
(***************************************************************************)
DoptsInv ==
    conn = "ready" => dopts = NewDialOptions(dopts.unaryInts, dopts.streamInts)

StackInv ==
    \A c \in Calls :
        /\ conn /= "ready" => stack[c] = << >> /\ kind[c] = "none"
        /\ stack[c] /= << >> =>
              /\ kind[c] \in {"unary", "stream"}
              /\ ChainOf(kind[c]).n <= Len(Ints(kind[c]))
              /\ \A j \in 1..Len(stack[c]) - 1 : stack[c][j].fn = "icpt"
              /\ \A j \in 1..Len(stack[c]) :
                    stack[c][j].fn = "icpt" => stack[c][j].pos <= ChainOf(kind[c]).n

TypeInv == TypeOK /\ DoptsInv /\ StackInv

LEMMA IntListsAreSeqs == IntLists \subseteq Seq(Interceptors)
  BY DEF IntLists

\* Popping the top of a non-empty stack keeps the frames below it.
LEMMA PopProperties ==
    ASSUME NEW T, NEW sq \in Seq(T), Len(sq) >= 1
    PROVE  /\ Pop(sq) \in Seq(T)
           /\ Len(Pop(sq)) = Len(sq) - 1
           /\ \A j \in 1..Len(Pop(sq)) : Pop(sq)[j] = sq[j]
  <1>1. \A i \in 1..Len(sq) - 1 : sq[i] \in T
    BY ElementOfSeq
  <1>2. Len(sq) \in Nat /\ Len(sq) - 1 \in Nat
    BY LenProperties
  <1>3. /\ SubSeq(sq, 1, Len(sq) - 1) \in Seq(T)
        /\ Len(SubSeq(sq, 1, Len(sq) - 1)) = IF 1 <= Len(sq) - 1 THEN Len(sq) - 1 ELSE 0
        /\ \A i \in 1 .. Len(sq) - 1 : SubSeq(sq, 1, Len(sq) - 1)[i] = sq[i]
    BY <1>1, <1>2, SubSeqProperties
  <1>4. Pop(sq) = SubSeq(sq, 1, Len(sq) - 1)
    BY DEF Pop
  <1>5. Len(SubSeq(sq, 1, Len(sq) - 1)) = Len(sq) - 1
    <2>1. CASE Len(sq) = 1
      BY <2>1, <1>3
    <2>2. CASE Len(sq) >= 2
      BY <2>2, <1>3
    <2>3. QED
      BY <2>1, <2>2, <1>2
  <1>6. QED
    BY <1>3, <1>4, <1>5

LEMMA NewDialOptionsType ==
    ASSUME NEW u \in Seq(Interceptors), NEW s \in Seq(Interceptors)
    PROVE  NewDialOptions(u, s) \in Options
  BY DEF NewDialOptions, Options, Chain, ChainUnary, ChainStream

LEMMA InitTypeInv == Init => TypeInv
  BY DEF Init, TypeInv, TypeOK, DoptsInv, StackInv, NoOptions, Options, Chain

LEMMA ConstructTypeInv ==
    TypeInv /\ NewClientConnWithOptions => TypeInv'
  <1> SUFFICES ASSUME TypeInv, NewClientConnWithOptions PROVE TypeInv'
    OBVIOUS
  <1>1. CASE conn' = "failed" /\ UNCHANGED dopts
    BY <1>1 DEF NewClientConnWithOptions, TypeInv, TypeOK, DoptsInv, StackInv
  <1>2. CASE conn' = "ready" /\ \E u, s \in IntLists : dopts' = NewDialOptions(u, s)
    <2>1. PICK u, s \in IntLists : dopts' = NewDialOptions(u, s)
      BY <1>2
    <2>2. dopts' \in Options
      BY <2>1, IntListsAreSeqs, NewDialOptionsType
    <2>3. DoptsInv'
      BY <2>1 DEF DoptsInv, NewDialOptions
    <2>4. StackInv'
      BY DEF NewClientConnWithOptions, TypeInv, StackInv
    <2>5. TypeOK'
      BY <1>2, <2>2 DEF NewClientConnWithOptions, TypeInv, TypeOK
    <2>6. QED
      BY <2>3, <2>4, <2>5 DEF TypeInv
  <1>3. QED
    BY <1>1, <1>2 DEF NewClientConnWithOptions

\* The frame a `chained` closure pushes is a frame, and it lies within the
\* chain when it is an interceptor.
LEMMA CalleeType ==
    ASSUME NEW k \in Nat \ {0}, NEW n \in Nat, NEW ints \in Seq(Interceptors),
           n <= Len(ints)
    PROVE  /\ Callee(k, n, ints) \in Frame
           /\ Callee(k, n, ints).fn = "icpt" => Callee(k, n, ints).pos <= n
           /\ EntryEvent(Callee(k, n, ints)) \in Seq(Event)
  <1>1. CASE k <= n
    <2>1. ints[k] \in Interceptors
      BY <1>1
    <2>2. Callee(k, n, ints) \in IcptFrame /\ Callee(k, n, ints).pos <= n
      BY <1>1, <2>1, ConstantsAssumption DEF Callee, IcptFrame, NoResult, Results
    <2>3. EntryEvent(Callee(k, n, ints)) = << [ev |-> "before", id |-> ints[k]] >>
      BY <1>1 DEF Callee, EntryEvent
    <2>4. [ev |-> "before", id |-> ints[k]] \in Event
      BY <2>1 DEF Event
    <2>5. QED
      BY <2>2, <2>3, <2>4 DEF Frame
  <1>2. CASE ~(k <= n)
    BY <1>2 DEF Callee, Frame, TermFrame, EntryEvent
  <1>3. QED
    BY <1>1, <1>2

LEMMA CallTypeInv ==
    ASSUME NEW c \in Calls, NEW k \in {"unary", "stream"}, TypeInv, Call(c, k)
    PROVE  TypeInv'
  <1> DEFINE ch == ChainOf(k)
             ints == Ints(k)
  <1>1. conn = "ready" /\ kind[c] = "none" /\ UNCHANGED <<conn, dopts>>
    BY DEF Call
  <1>2. ints \in Seq(Interceptors) /\ ch \in Chain /\ ch.present
    BY <1>1 DEF TypeInv, TypeOK, DoptsInv, Options, Ints, ChainOf, NewDialOptions,
                ChainUnary, ChainStream, Chain
  <1>3. stack[c] = << >>
    <2>1. kind[c] \notin {"unary", "stream"}
      BY <1>1
    <2>2. QED
      BY <2>1 DEF TypeInv, StackInv
  <1>4. kind' = [kind EXCEPT ![c] = k] /\ kind' \in [Calls -> {"none", "unary", "stream"}]
    BY DEF Call, TypeInv, TypeOK
  <1>5. CASE ch.n > Len(ints)
    <2>1. result' = [result EXCEPT ![c] = "panic"] /\ UNCHANGED <<stack, trace>>
      BY <1>2, <1>5 DEF Call
    <2>2. TypeOK'
      BY <1>1, <1>4, <2>1 DEF TypeInv, TypeOK, Results
    <2>3. StackInv'
      BY <1>1, <1>3, <1>4, <2>1 DEF TypeInv, StackInv, ChainOf, Ints
    <2>4. QED
      BY <1>1, <2>2, <2>3 DEF TypeInv, DoptsInv
  <1>6. CASE ~(ch.n > Len(ints))
    <2> DEFINE f == Callee(1, ch.n, ints)
    <2>1. stack' = [stack EXCEPT ![c] = << f >>]
          /\ trace' = [trace EXCEPT ![c] = @ \o EntryEvent(f)]
          /\ UNCHANGED result
      BY <1>2, <1>6 DEF Call
    <2>2. ch.n \in Nat /\ ch.n <= Len(ints)
      BY <1>2, <1>6 DEF Chain
    <2>3. f \in Frame /\ (f.fn = "icpt" => f.pos <= ch.n) /\ EntryEvent(f) \in Seq(Event)
      BY <1>2, <2>2, CalleeType
    <2>4. TypeOK'
      BY <1>1, <1>4, <2>1, <2>3 DEF TypeInv, TypeOK
    <2>5. StackInv'
      BY <1>1, <1>3, <1>4, <2>1, <2>2, <2>3 DEF TypeInv, StackInv, ChainOf, Ints
    <2>6. QED
      BY <1>1, <2>4, <2>5 DEF TypeInv, DoptsInv
  <1>7. QED
    BY <1>5, <1>6

LEMMA CallNextTypeInv ==
    ASSUME NEW c \in Calls, TypeInv, CallNext(c)
    PROVE  TypeInv'
  <1> DEFINE top  == Top(c)
             n    == ChainOf(kind[c]).n
             ints == Ints(kind[c])
             f    == Callee(top.pos + 1, n, ints)
             st   == stack[c]
             upd  == [st EXCEPT ![Len(st)] = [top EXCEPT !.calls = @ + 1]]
  <1>1. st \in Seq(Frame) /\ st /= << >> /\ top.fn = "icpt" /\ top.calls < MaxNext
    BY DEF CallNext, TypeInv, TypeOK
  <1>2. /\ kind[c] \in {"unary", "stream"}
        /\ n <= Len(ints)
        /\ \A j \in 1..Len(st) - 1 : st[j].fn = "icpt"
        /\ \A j \in 1..Len(st) : st[j].fn = "icpt" => st[j].pos <= n
    BY <1>1 DEF TypeInv, StackInv
  <1>3. ints \in Seq(Interceptors) /\ n \in Nat
    BY <1>2 DEF TypeInv, TypeOK, Options, Chain, Ints, ChainOf
  <1>4. top \in IcptFrame /\ top.pos <= n
    BY <1>1, <1>2 DEF Top, Frame, TermFrame
  <1>5. f \in Frame /\ (f.fn = "icpt" => f.pos <= n) /\ EntryEvent(f) \in Seq(Event)
    <2>1. top.pos + 1 \in Nat \ {0}
      BY <1>4 DEF IcptFrame
    <2>2. QED
      BY <1>2, <1>3, <2>1, CalleeType DEF f
  <1>6. [top EXCEPT !.calls = @ + 1] \in IcptFrame
    BY <1>1, <1>4, ConstantsAssumption DEF IcptFrame
  <1>7. upd \in Seq(Frame) /\ Len(upd) = Len(st)
        /\ \A j \in 1..Len(upd) : upd[j].fn = "icpt" /\ upd[j].pos <= n
    BY <1>1, <1>2, <1>4, <1>6 DEF Frame, Top
  <1>8. LET ns == Append(upd, f) IN
        /\ ns \in Seq(Frame) /\ ns /= << >>
        /\ \A j \in 1..Len(ns) - 1 : ns[j].fn = "icpt"
        /\ \A j \in 1..Len(ns) : ns[j].fn = "icpt" => ns[j].pos <= n
    BY <1>5, <1>7
  <1>9. stack' = [stack EXCEPT ![c] = Append(upd, f)]
        /\ trace' = [trace EXCEPT ![c] = @ \o EntryEvent(f)]
        /\ UNCHANGED <<conn, dopts, kind, result>>
    BY DEF CallNext, Top
  <1>10. TypeOK'
    BY <1>5, <1>8, <1>9 DEF TypeInv, TypeOK
  <1>11. StackInv'
    <2>1. conn = "ready"
      BY <1>1 DEF TypeInv, StackInv
    <2>2. QED
      BY <1>2, <1>8, <1>9, <2>1 DEF TypeInv, StackInv, ChainOf, Ints
  <1>12. QED
    BY <1>9, <1>10, <1>11 DEF TypeInv, DoptsInv

\* A frame returning a result keeps the invariant, whatever the frame and
\* whatever it appends to the trace.
LEMMA ReturnTypeInv ==
    ASSUME NEW c \in Calls, NEW r \in Results, TypeInv,
           stack[c] /= << >>, Return(c, r),
           UNCHANGED <<conn, dopts, kind>>,
           trace' \in [Calls -> Seq(Event)]
    PROVE  TypeInv'
  <1> DEFINE st   == stack[c]
             rest == Pop(st)
             n    == ChainOf(kind[c]).n
  <1>1. st \in Seq(Frame) /\ Len(st) >= 1
    BY DEF TypeInv, TypeOK
  <1>2. /\ \A j \in 1..Len(st) - 1 : st[j].fn = "icpt"
        /\ \A j \in 1..Len(st) : st[j].fn = "icpt" => st[j].pos <= n
        /\ kind[c] \in {"unary", "stream"}
        /\ n <= Len(Ints(kind[c]))
        /\ conn = "ready"
    BY DEF TypeInv, StackInv
  <1>3. rest \in Seq(Frame) /\ Len(rest) = Len(st) - 1
        /\ \A j \in 1..Len(rest) : rest[j] = st[j]
    BY <1>1 DEF Pop
  <1>4. CASE rest = << >>
    <2>1. stack' = [stack EXCEPT ![c] = rest] /\ result' = [result EXCEPT ![c] = r]
      BY <1>4 DEF Return
    <2>2. TypeOK'
      BY <2>1, <1>3 DEF TypeInv, TypeOK
    <2>3. StackInv'
      <3>1. stack'[c] = << >>
        BY <2>1, <1>4 DEF TypeInv, TypeOK
      <3>2. \A d \in Calls \ {c} : stack'[d] = stack[d]
        BY <2>1 DEF TypeInv, TypeOK
      <3>3. QED
        BY <3>1, <3>2, <1>2 DEF TypeInv, StackInv, ChainOf, Ints
    <2>4. QED
      BY <2>2, <2>3 DEF TypeInv, DoptsInv
  <1>5. CASE rest /= << >>
    <2> DEFINE ns == [rest EXCEPT ![Len(rest)] = [@ EXCEPT !.got = r]]
    <2>1. stack' = [stack EXCEPT ![c] = ns] /\ UNCHANGED result
      BY <1>5 DEF Return
    <2>2. rest[Len(rest)] \in IcptFrame
      BY <1>1, <1>2, <1>3, <1>5 DEF Frame, TermFrame
    <2>3. [rest[Len(rest)] EXCEPT !.got = r] \in IcptFrame
      BY <2>2 DEF IcptFrame
    <2>4. /\ ns \in Seq(Frame) /\ ns /= << >>
          /\ \A j \in 1..Len(ns) : ns[j].fn = "icpt" /\ ns[j].pos <= n
      <3>0. DOMAIN rest = 1..Len(rest) /\ Len(rest) \in Nat \ {0}
        <4>1. rest \in Seq(Frame) /\ rest /= << >>
          BY <1>3, <1>5
        <4>2. QED
          BY <4>1, EmptySeq
      <3>1. ns = [j \in 1..Len(rest) |->
                    IF j = Len(rest) THEN [rest[Len(rest)] EXCEPT !.got = r]
                                     ELSE rest[j]]
        BY <3>0, Zenon DEF ns
      <3>2. \A j \in 1..Len(rest) : rest[j] \in Frame /\ rest[j].fn = "icpt"
                                    /\ rest[j].pos <= n
        <4>1. TAKE j \in 1..Len(rest)
        <4>2. j \in 1..Len(st) - 1 /\ j \in 1..Len(st) /\ rest[j] = st[j]
          BY <1>3
        <4>3. st[j] \in Frame
          BY <1>1, <4>2
        <4>4. st[j].fn = "icpt" /\ st[j].pos <= n
          BY <1>2, <4>2
        <4>5. QED
          BY <4>2, <4>3, <4>4
      <3>3. [rest[Len(rest)] EXCEPT !.got = r].pos = rest[Len(rest)].pos
        BY <2>2 DEF IcptFrame
      <3>4. QED
        BY <1>3, <1>5, <2>3, <3>1, <3>2, <3>3 DEF Frame
    <2>5. TypeOK'
      BY <2>1, <2>4 DEF TypeInv, TypeOK
    <2>6. StackInv'
      BY <2>1, <2>4, <1>2 DEF TypeInv, StackInv, ChainOf, Ints
    <2>7. QED
      BY <2>5, <2>6 DEF TypeInv, DoptsInv
  <1>6. QED
    BY <1>4, <1>5

LEMMA InterceptorReturnTypeInv ==
    ASSUME NEW c \in Calls, TypeInv, InterceptorReturn(c)
    PROVE  TypeInv'
  <1> DEFINE top == Top(c)
  <1>1. stack[c] \in Seq(Frame) /\ stack[c] /= << >> /\ top.fn = "icpt"
    BY DEF InterceptorReturn, TypeInv, TypeOK
  <1>2. top \in IcptFrame
    BY <1>1 DEF Top, Frame, TermFrame
  <1>3. PICK r \in ({top.got} \ {NoResult}) \cup {"ok", "errI"} :
          /\ Return(c, r)
          /\ trace' = [trace EXCEPT ![c] = Append(@,
                 [ev |-> "after", id |-> top.id, got |-> top.got, ret |-> r])]
    BY DEF InterceptorReturn
  <1>4. r \in Results
    BY <1>2 DEF IcptFrame, Results, NoResult
  <1>5. [ev |-> "after", id |-> top.id, got |-> top.got, ret |-> r] \in Event
    BY <1>2, <1>4 DEF IcptFrame, Event
  <1>6. trace' \in [Calls -> Seq(Event)]
    BY <1>3, <1>5 DEF TypeInv, TypeOK
  <1>7. QED
    BY <1>1, <1>3, <1>4, <1>6, ReturnTypeInv DEF InterceptorReturn

LEMMA TerminalReturnTypeInv ==
    ASSUME NEW c \in Calls, TypeInv, TerminalReturn(c)
    PROVE  TypeInv'
  <1>1. stack[c] /= << >>
    BY DEF TerminalReturn
  <1>2. PICK r \in {"ok", "errT"} :
          /\ Return(c, r)
          /\ trace' = [trace EXCEPT ![c] = Append(@, [ev |-> "term", ret |-> r])]
    BY DEF TerminalReturn
  <1>3. r \in Results
    BY DEF Results
  <1>4. trace' \in [Calls -> Seq(Event)]
    BY <1>2, <1>3 DEF TypeInv, TypeOK, Event
  <1>5. QED
    BY <1>1, <1>2, <1>3, <1>4, ReturnTypeInv DEF TerminalReturn

LEMMA NextTypeInv == TypeInv /\ [Next]_vars => TypeInv'
  <1> SUFFICES ASSUME TypeInv, [Next]_vars PROVE TypeInv'
    OBVIOUS
  <1>1. CASE NewClientConnWithOptions
    BY <1>1, ConstructTypeInv
  <1>2. ASSUME NEW c \in Calls, Invoke(c) PROVE TypeInv'
    BY <1>2, CallTypeInv DEF Invoke
  <1>3. ASSUME NEW c \in Calls, NewStream(c) PROVE TypeInv'
    BY <1>3, CallTypeInv DEF NewStream
  <1>4. ASSUME NEW c \in Calls, CallNext(c) PROVE TypeInv'
    BY <1>4, CallNextTypeInv
  <1>5. ASSUME NEW c \in Calls, InterceptorReturn(c) PROVE TypeInv'
    BY <1>5, InterceptorReturnTypeInv
  <1>6. ASSUME NEW c \in Calls, TerminalReturn(c) PROVE TypeInv'
    BY <1>6, TerminalReturnTypeInv
  <1>7. CASE UNCHANGED vars
    BY <1>7 DEF vars, TypeInv, TypeOK, DoptsInv, StackInv, ChainOf, Ints
  <1>8. QED
    BY <1>1, <1>2, <1>3, <1>4, <1>5, <1>6, <1>7 DEF Next

(***************************************************************************)
(* Every reachable state is well typed, for every set of interceptors and  *)
(* callers and every bound on list lengths and retries.                    *)
(***************************************************************************)
THEOREM TypeCorrect == Spec => []TypeOK
  <1>1. Init => TypeInv
    BY InitTypeInv
  <1>2. TypeInv /\ [Next]_vars => TypeInv'
    BY NextTypeInv
  <1>3. TypeInv => TypeOK
    BY DEF TypeInv
  <1>4. QED
    BY <1>1, <1>2, <1>3, PTL DEF Spec

(***************************************************************************)
(* Ordering.  The frame at depth j of a unary call is the one the j-th     *)
(* `chained` closure pushed: interceptor j, or the terminal when j is one  *)
(* past the list.  Its `pos` field, which CallNext uses to find the next   *)
(* closure, is therefore its depth.                                        *)
(***************************************************************************)
UnaryOrderInv ==
    \A c \in Calls : kind[c] = "unary" =>
        \A j \in 1..Len(stack[c]) :
            IF stack[c][j].fn = "icpt"
            THEN /\ stack[c][j].pos = j
                 /\ j <= Len(dopts.unaryInts)
                 /\ stack[c][j].id = dopts.unaryInts[j]
            ELSE j = Len(dopts.unaryInts) + 1

OrderIInv == TypeInv /\ UnaryOrderInv

\* Once the ClientConn exists, the unary chain is present and spans the
\* whole unary list.
LEMMA UnaryChainSpansList ==
    ASSUME TypeInv, conn = "ready"
    PROVE  /\ ChainOf("unary").present
           /\ ChainOf("unary").n = Len(dopts.unaryInts)
           /\ Ints("unary") = dopts.unaryInts
  BY DEF TypeInv, DoptsInv, ChainOf, Ints, NewDialOptions, ChainUnary

\* Popping the top frame, and handing a result to the frame below, keeps
\* every remaining frame's fn, pos and id.
LEMMA ReturnKeepsFrames ==
    ASSUME NEW c \in Calls, NEW r \in Results, TypeInv,
           stack[c] /= << >>, Return(c, r)
    PROVE  /\ \A d \in Calls \ {c} : stack'[d] = stack[d]
           /\ Len(stack'[c]) = Len(stack[c]) - 1
           /\ \A j \in 1..Len(stack'[c]) :
                 /\ stack'[c][j].fn = stack[c][j].fn
                 /\ stack[c][j].fn = "icpt" =>
                       /\ stack'[c][j].pos = stack[c][j].pos
                       /\ stack'[c][j].id = stack[c][j].id
  <1> DEFINE st == stack[c]
             rest == Pop(st)
  <1>1. st \in Seq(Frame) /\ Len(st) >= 1 /\ stack \in [Calls -> Seq(Frame)]
    BY DEF TypeInv, TypeOK
  <1>2. rest \in Seq(Frame) /\ Len(rest) = Len(st) - 1
        /\ \A j \in 1..Len(rest) : rest[j] = st[j]
    BY <1>1, PopProperties
  <1>3. CASE rest = << >>
    <2>1. stack' = [stack EXCEPT ![c] = rest]
      BY <1>3 DEF Return
    <2>2. stack'[c] = rest /\ Len(rest) = 0
      BY <1>1, <1>3, <2>1
    <2>3. QED
      BY <1>2, <2>1, <2>2
  <1>4. CASE rest /= << >>
    <2> DEFINE ns == [rest EXCEPT ![Len(rest)] = [@ EXCEPT !.got = r]]
    <2>1. stack' = [stack EXCEPT ![c] = ns]
      BY <1>4 DEF Return
    <2>2. Len(rest) \in Nat \ {0} /\ DOMAIN rest = 1..Len(rest)
      <3>1. rest \in Seq(Frame) /\ rest /= << >>
        BY <1>2, <1>4
      <3>2. QED
        BY <3>1, EmptySeq, LenProperties
    <2>3. ns = [j \in 1..Len(rest) |->
                  IF j = Len(rest) THEN [rest[j] EXCEPT !.got = r] ELSE rest[j]]
      BY <2>2, Zenon DEF ns
    <2>4. Len(ns) = Len(rest) /\ stack'[c] = ns
      BY <1>1, <2>1, <2>2, <2>3
    <2>5. QED
      BY <1>1, <1>2, <2>1, <2>3, <2>4
  <1>5. QED
    BY <1>3, <1>4

LEMMA ConstructOrder ==
    ASSUME OrderIInv, NewClientConnWithOptions
    PROVE  UnaryOrderInv'
  <1>1. \A c \in Calls : stack[c] = << >>
    BY DEF NewClientConnWithOptions, OrderIInv, TypeInv, StackInv
  <1>2. \A c \in Calls : stack'[c] = << >>
    BY <1>1 DEF NewClientConnWithOptions
  <1>3. QED
    BY <1>2 DEF UnaryOrderInv

LEMMA CallOrder ==
    ASSUME NEW c \in Calls, NEW k \in {"unary", "stream"}, OrderIInv, Call(c, k)
    PROVE  UnaryOrderInv'
  <1> DEFINE ints == dopts.unaryInts
             n    == Len(ints)
  <1>1. conn = "ready" /\ UNCHANGED <<conn, dopts>>
        /\ kind' = [kind EXCEPT ![c] = k]
        /\ kind \in [Calls -> {"none", "unary", "stream"}]
        /\ stack \in [Calls -> Seq(Frame)]
        /\ ints \in Seq(Interceptors)
    BY DEF Call, OrderIInv, TypeInv, TypeOK, Options
  <1>2. \A d \in Calls \ {c} : stack'[d] = stack[d] /\ kind'[d] = kind[d]
    BY <1>1 DEF Call
  <1>3. CASE k = "stream"
    BY <1>1, <1>2, <1>3 DEF OrderIInv, UnaryOrderInv
  <1>4. CASE k = "unary"
    <2>1. ChainOf(k).present /\ ChainOf(k).n = n /\ Ints(k) = ints
      BY <1>1, <1>4, UnaryChainSpansList DEF OrderIInv
    <2>2. stack'[c] = << Callee(1, n, ints) >>
      <3>1. ~(ChainOf(k).n > Len(Ints(k)))
        BY <2>1, <1>1, LenProperties
      <3>2. stack' = [stack EXCEPT ![c] = << Callee(1, ChainOf(k).n, Ints(k)) >>]
        BY <2>1, <3>1 DEF Call
      <3>3. QED
        BY <1>1, <2>1, <3>2
    <2>3. CASE n >= 1
      <3>1. Callee(1, n, ints) = [fn |-> "icpt", pos |-> 1, id |-> ints[1],
                                  calls |-> 0, got |-> NoResult]
        BY <2>3 DEF Callee
      <3>2. QED
        BY <1>1, <1>2, <2>2, <2>3, <3>1 DEF OrderIInv, UnaryOrderInv
    <2>4. CASE n = 0
      <3>1. Callee(1, n, ints) = [fn |-> "term"]
        BY <2>4 DEF Callee
      <3>2. QED
        BY <1>1, <1>2, <2>2, <2>4, <3>1 DEF OrderIInv, UnaryOrderInv
    <2>5. QED
      BY <2>3, <2>4, <1>1, LenProperties
  <1>5. QED
    BY <1>3, <1>4

LEMMA CallNextOrder ==
    ASSUME NEW c \in Calls, OrderIInv, CallNext(c)
    PROVE  UnaryOrderInv'
  <1> DEFINE st   == stack[c]
             L    == Len(st)
             top  == Top(c)
             ints == dopts.unaryInts
             n    == Len(ints)
  <1> USE DEF st, L, top, ints, n
  <1>1. UNCHANGED <<conn, dopts, kind>>
    BY DEF CallNext
  <1>2. \A d \in Calls \ {c} : stack'[d] = stack[d]
    BY DEF CallNext, OrderIInv, TypeInv, TypeOK
  <1>3. stack \in [Calls -> Seq(Frame)] /\ st /= << >> /\ top.fn = "icpt"
    BY DEF CallNext, OrderIInv, TypeInv, TypeOK
  <1>4. CASE kind[c] /= "unary"
    BY <1>1, <1>2, <1>4 DEF OrderIInv, UnaryOrderInv
  <1>5. CASE kind[c] = "unary"
    <2>1. st \in Seq(Frame) /\ L \in Nat \ {0} /\ top = st[L]
      BY <1>3 DEF Top
    <2>2. \A j \in 1..L :
             IF st[j].fn = "icpt"
             THEN st[j].pos = j /\ j <= n /\ st[j].id = ints[j]
             ELSE j = n + 1
      BY <1>5 DEF OrderIInv, UnaryOrderInv
    <2>3. top.pos = L /\ L <= n
      BY <1>3, <2>1, <2>2
    <2>4. conn = "ready"
      BY <1>3 DEF OrderIInv, TypeInv, StackInv
    <2>5. ints \in Seq(Interceptors)
      BY DEF OrderIInv, TypeInv, TypeOK, Options
    <2>6. ChainOf(kind[c]).n = n /\ Ints(kind[c]) = ints
      BY <1>5, <2>4, UnaryChainSpansList DEF OrderIInv
    <2> DEFINE f   == Callee(L + 1, n, ints)
               upd == [st EXCEPT ![L] = [top EXCEPT !.calls = @ + 1]]
    <2>7. stack'[c] = Append(upd, f)
      <3>1. stack' = [stack EXCEPT ![c] = Append(upd, f)]
        BY <2>3, <2>6 DEF CallNext, Top, f, upd
      <3>2. QED
        BY <1>3, <3>1
    <2>8. /\ Len(upd) = L
          /\ \A j \in 1..L : /\ upd[j].fn = st[j].fn
                             /\ upd[j].pos = st[j].pos
                             /\ upd[j].id = st[j].id
      BY <2>1 DEF upd
    <2>9. /\ Len(stack'[c]) = L + 1
          /\ \A j \in 1..L : /\ stack'[c][j].fn = st[j].fn
                             /\ stack'[c][j].pos = st[j].pos
                             /\ stack'[c][j].id = st[j].id
          /\ stack'[c][L + 1] = f
      BY <2>7, <2>8 DEF upd
    <2>10. \A j \in 1..L :
             IF stack'[c][j].fn = "icpt"
             THEN stack'[c][j].pos = j /\ j <= n /\ stack'[c][j].id = ints[j]
             ELSE j = n + 1
      BY <2>2, <2>9
    <2>11. IF f.fn = "icpt" THEN f.pos = L + 1 /\ L + 1 <= n /\ f.id = ints[L + 1]
                            ELSE L + 1 = n + 1
      <3>1. CASE L + 1 <= n
        BY <3>1 DEF f, Callee
      <3>2. CASE ~(L + 1 <= n)
        BY <2>3, <2>5, <3>2 DEF f, Callee
      <3>3. QED
        BY <3>1, <3>2
    <2>12. \A j \in 1..Len(stack'[c]) :
             IF stack'[c][j].fn = "icpt"
             THEN stack'[c][j].pos = j /\ j <= n /\ stack'[c][j].id = ints[j]
             ELSE j = n + 1
      BY <2>9, <2>10, <2>11, <2>1
    <2>13. QED
      BY <1>1, <1>2, <2>12 DEF OrderIInv, UnaryOrderInv
  <1>6. QED
    BY <1>4, <1>5

LEMMA ReturnOrder ==
    ASSUME NEW c \in Calls, NEW r \in Results, OrderIInv,
           stack[c] /= << >>, Return(c, r), UNCHANGED <<conn, dopts, kind>>
    PROVE  UnaryOrderInv'
  <1>1. /\ \A d \in Calls \ {c} : stack'[d] = stack[d]
        /\ Len(stack'[c]) = Len(stack[c]) - 1
        /\ \A j \in 1..Len(stack'[c]) :
              /\ stack'[c][j].fn = stack[c][j].fn
              /\ stack[c][j].fn = "icpt" =>
                    /\ stack'[c][j].pos = stack[c][j].pos
                    /\ stack'[c][j].id = stack[c][j].id
    BY ReturnKeepsFrames DEF OrderIInv
  <1>2. Len(stack[c]) \in Nat
    BY DEF OrderIInv, TypeInv, TypeOK
  <1>3. CASE kind[c] = "unary"
    <2>1. \A j \in 1..Len(stack[c]) :
             IF stack[c][j].fn = "icpt"
             THEN /\ stack[c][j].pos = j
                  /\ j <= Len(dopts.unaryInts)
                  /\ stack[c][j].id = dopts.unaryInts[j]
             ELSE j = Len(dopts.unaryInts) + 1
      BY <1>3 DEF OrderIInv, UnaryOrderInv
    <2>2. \A j \in 1..Len(stack'[c]) :
             IF stack'[c][j].fn = "icpt"
             THEN /\ stack'[c][j].pos = j
                  /\ j <= Len(dopts.unaryInts)
                  /\ stack'[c][j].id = dopts.unaryInts[j]
             ELSE j = Len(dopts.unaryInts) + 1
      <3>1. TAKE j \in 1..Len(stack'[c])
      <3>2. j \in 1..Len(stack[c]) - 1 /\ j \in 1..Len(stack[c])
        BY <1>1, <1>2
      <3>3. stack'[c][j].fn = stack[c][j].fn
        BY <1>1, <3>2
      <3>4. stack[c][j].fn = "icpt" /\ j < Len(stack[c])
        BY <2>1, <3>2, <1>2 DEF OrderIInv, TypeInv, StackInv
      <3>5. stack'[c][j].pos = stack[c][j].pos /\ stack'[c][j].id = stack[c][j].id
        BY <1>1, <3>2, <3>4
      <3>6. QED
        BY <2>1, <3>2, <3>3, <3>4, <3>5
    <2>3. QED
      BY <1>1, <2>2 DEF OrderIInv, UnaryOrderInv
  <1>4. CASE kind[c] /= "unary"
    BY <1>1, <1>4 DEF OrderIInv, UnaryOrderInv
  <1>5. QED
    BY <1>3, <1>4

LEMMA NextOrder == OrderIInv /\ [Next]_vars => UnaryOrderInv'
  <1> SUFFICES ASSUME OrderIInv, [Next]_vars PROVE UnaryOrderInv'
    OBVIOUS
  <1>1. CASE NewClientConnWithOptions
    BY <1>1, ConstructOrder
  <1>2. ASSUME NEW c \in Calls, Invoke(c) \/ NewStream(c) PROVE UnaryOrderInv'
    BY <1>2, CallOrder DEF Invoke, NewStream
  <1>3. ASSUME NEW c \in Calls, CallNext(c) PROVE UnaryOrderInv'
    BY <1>3, CallNextOrder
  <1>4. ASSUME NEW c \in Calls, InterceptorReturn(c) PROVE UnaryOrderInv'
    <2>1. PICK r \in ({Top(c).got} \ {NoResult}) \cup {"ok", "errI"} : Return(c, r)
      BY <1>4 DEF InterceptorReturn
    <2>2. r \in Results
      <3>1. Top(c) \in IcptFrame
        BY <1>4 DEF InterceptorReturn, OrderIInv, TypeInv, TypeOK, Top, Frame, TermFrame
      <3>2. QED
        BY <3>1 DEF IcptFrame, Results, NoResult
    <2>3. QED
      BY <1>4, <2>1, <2>2, ReturnOrder DEF InterceptorReturn
  <1>5. ASSUME NEW c \in Calls, TerminalReturn(c) PROVE UnaryOrderInv'
    <2>1. PICK r \in {"ok", "errT"} : Return(c, r)
      BY <1>5 DEF TerminalReturn
    <2>2. QED
      BY <1>5, <2>1, ReturnOrder DEF TerminalReturn, Results
  <1>6. CASE UNCHANGED vars
    BY <1>6 DEF vars, UnaryOrderInv, OrderIInv
  <1>7. QED
    BY <1>1, <1>2, <1>3, <1>4, <1>5, <1>6 DEF Next

(***************************************************************************)
(* For every set of interceptors, every unary list, every number of        *)
(* callers and any retrying interceptors: the frame at depth j of an       *)
(* Invoke is the j-th configured unary interceptor, and the connection's   *)
(* Invoke runs only beneath all of them (the ordering law P1 of the spec,  *)
(* on every intermediate state of every call).                             *)
(***************************************************************************)
THEOREM UnaryChainOrderHolds == Spec => []UnaryChainOrder
  <1>1. Init => OrderIInv
    BY InitTypeInv DEF Init, OrderIInv, UnaryOrderInv
  <1>2. OrderIInv /\ [Next]_vars => OrderIInv'
    BY NextTypeInv, NextOrder DEF OrderIInv
  <1>3. OrderIInv => UnaryChainOrder
    BY DEF OrderIInv, UnaryOrderInv, UnaryChainOrder, ChainOrder
  <1>4. QED
    BY <1>1, <1>2, <1>3, PTL DEF Spec

=============================================================================
