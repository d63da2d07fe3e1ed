------------------------ MODULE DrcpClientResultProofs ------------------------
(***************************************************************************)
(* ResultFidelity for the drcpclient ClientConn, for every value of the   *)
(* constants: when every interceptor of a call passed on what its last    *)
(* `next` returned, Invoke / NewStream return what the last call of the   *)
(* underlying Conn returned.  This holds although NewStream may skip      *)
(* stream interceptors (clientconn.go:156): a skipped interceptor records *)
(* nothing.                                                                *)
(***************************************************************************)
EXTENDS DrcpClientProofs, CallRecord

ReturnValues == {"ok", "errT", "errI"}

(***************************************************************************)
(* The invariant.  Only the running interceptor's `got` is claimed to be  *)
(* the last terminal result (a waiting frame's `got` is stale until its   *)
(* `next` returns), and, once the outermost frame has returned, the       *)
(* caller's result.  A call has frames or a result only once issued.      *)
(***************************************************************************)
RInv(c) ==
    /\ kind[c] = "none" => stack[c] = << >> /\ result[c] = NoResult
    /\ stack[c] /= << >> => result[c] = NoResult
    /\ Clean(trace[c]) =>
          /\ stack[c] /= << >> /\ Top(c).fn = "icpt" /\ Top(c).got /= NoResult
                => HasLast(trace[c]) /\ Top(c).got = LastTerm(trace[c])
          /\ result[c] \in ReturnValues
                => HasLast(trace[c]) /\ result[c] = LastTerm(trace[c])

ResultsInv == \A c \in Calls : RInv(c)

\* A closure pushes an interceptor that has not called next yet.
LEMMA CalleeFresh ==
    ASSUME NEW p, NEW n, NEW ints
    PROVE  Callee(p, n, ints).fn = "icpt" => Callee(p, n, ints).got = NoResult
  BY DEF Callee

\* A step that changes only call c, after which c runs a frame that holds no
\* result or has no frame, and has no outcome yet, keeps the invariant.
LEMMA FreshResults ==
    ASSUME ResultsInv, NEW c \in Calls,
           \A d \in Calls \ {c} : /\ stack'[d] = stack[d] /\ result'[d] = result[d]
                                  /\ trace'[d] = trace[d] /\ kind'[d] = kind[d],
           kind'[c] /= "none",
           stack'[c] /= << >> /\ Top(c)'.fn = "icpt" => Top(c)'.got = NoResult,
           result'[c] \notin ReturnValues,
           stack'[c] /= << >> => result'[c] = NoResult
    PROVE  ResultsInv'
  <1>1. RInv(c)'
    BY DEF RInv
  <1>2. ASSUME NEW d \in Calls \ {c} PROVE RInv(d)'
    <2>1. Top(d)' = Top(d)
      BY DEF Top
    <2>2. QED
      BY <2>1 DEF ResultsInv, RInv
  <1>3. QED
    BY <1>1, <1>2 DEF ResultsInv

\* Invoke and NewStream keep the invariant, the panicking case included.
LEMMA CallResults ==
    ASSUME TypeInv, ResultsInv, NEW c \in Calls, NEW k \in {"unary", "stream"},
           Call(c, k)
    PROVE  ResultsInv'
  <1>1. kind[c] = "none" /\ kind' = [kind EXCEPT ![c] = k]
    BY DEF Call
  <1>2. result[c] = NoResult
    BY <1>1 DEF ResultsInv, RInv
  <1>3. /\ \A d \in Calls \ {c} : /\ stack'[d] = stack[d] /\ result'[d] = result[d]
                                  /\ trace'[d] = trace[d] /\ kind'[d] = kind[d]
        /\ kind'[c] = k
    BY <1>1 DEF Call, TypeInv, TypeOK
  <1>4. CASE ~ChainOf(k).present
    <2>1. stack'[c] = << [fn |-> "term"] >> /\ result'[c] = NoResult
      BY <1>2, <1>4 DEF Call, TypeInv, TypeOK
    <2>2. Top(c)'.fn = "term"
      BY <2>1 DEF Top
    <2>3. QED
      BY <1>3, <2>1, <2>2, FreshResults DEF ReturnValues, NoResult
  <1>5. CASE ChainOf(k).present /\ ChainOf(k).n > Len(Ints(k))
    <2>1. stack'[c] = stack[c] /\ result'[c] = "panic"
      BY <1>5 DEF Call, TypeInv, TypeOK
    <2>2. stack[c] = << >>
      BY <1>1 DEF ResultsInv, RInv
    <2>3. QED
      BY <1>3, <2>1, <2>2, FreshResults DEF ReturnValues
  <1>6. CASE ChainOf(k).present /\ ~(ChainOf(k).n > Len(Ints(k)))
    <2>1. PICK f : f = Callee(1, ChainOf(k).n, Ints(k))
      OBVIOUS
    <2>2. stack'[c] = << f >> /\ result'[c] = NoResult
      BY <1>2, <1>6, <2>1 DEF Call, TypeInv, TypeOK
    <2>3. Top(c)' = f
      BY <2>2 DEF Top
    <2>4. f.fn = "icpt" => f.got = NoResult
      BY <2>1, CalleeFresh
    <2>5. QED
      BY <1>3, <2>2, <2>3, <2>4, FreshResults DEF ReturnValues, NoResult
  <1>7. QED
    BY <1>4, <1>5, <1>6

\* An interceptor calling next keeps the invariant.
LEMMA CallNextResults ==
    ASSUME TypeInv, ResultsInv, NEW c \in Calls, CallNext(c)
    PROVE  ResultsInv'
  <1> DEFINE top  == Top(c)
             f    == Callee(top.pos + 1, ChainOf(kind[c]).n, Ints(kind[c]))
             st   == stack[c]
             upd  == [st EXCEPT ![Len(st)] = [top EXCEPT !.calls = @ + 1]]
  <1>1. /\ st \in Seq(Frame) /\ st /= << >>
        /\ stack' = [stack EXCEPT ![c] = Append(upd, f)]
        /\ UNCHANGED <<kind, result>>
    BY DEF CallNext, TypeInv, TypeOK
  <1>2. upd \in Seq(Frame \cup {[top EXCEPT !.calls = @ + 1]})
    BY <1>1 DEF Top
  <1>3. stack'[c] /= << >> /\ Top(c)' = f
    BY <1>1, <1>2, AppendProperties DEF Top, TypeInv, TypeOK
  <1>4. f.fn = "icpt" => f.got = NoResult
    BY CalleeFresh
  <1>5. kind[c] /= "none" /\ result[c] = NoResult
    BY <1>1 DEF ResultsInv, RInv
  <1>6. \A d \in Calls \ {c} : /\ stack'[d] = stack[d] /\ result'[d] = result[d]
                                /\ trace'[d] = trace[d] /\ kind'[d] = kind[d]
    BY <1>1 DEF CallNext, TypeInv, TypeOK
  <1>7. QED
    BY <1>1, <1>3, <1>4, <1>5, <1>6, FreshResults DEF ReturnValues, NoResult

\* A stack of more than one frame has a frame below the top.
LEMMA BelowTop ==
    \A n \in Nat \ {0} : n /= 1 => n - 1 \in Nat \ {0} /\ n - 1 \in 1..n - 1
  OBVIOUS

\* A return pops the top frame and hands r to the interceptor below, or to
\* the caller when the frame was the outermost.
LEMMA ReturnShape ==
    ASSUME TypeInv, NEW c \in Calls, stack[c] /= << >>, NEW r, Return(c, r)
    PROVE  /\ \A d \in Calls \ {c} : stack'[d] = stack[d] /\ result'[d] = result[d]
           /\ Len(stack[c]) = 1 => stack'[c] = << >> /\ result'[c] = r
           /\ Len(stack[c]) /= 1 =>
                 /\ stack'[c] /= << >> /\ result'[c] = result[c]
                 /\ Top(c)'.fn = "icpt" /\ Top(c)'.got = r
  <1> DEFINE st   == stack[c]
             rest == Pop(st)
  <1>1. st \in Seq(Frame) /\ Len(st) \in Nat \ {0}
    BY EmptySeq DEF TypeInv, TypeOK
  <1>2. \A j \in 1..Len(st) - 1 : st[j].fn = "icpt"
    BY DEF TypeInv, StackInv
  <1>3. rest \in Seq(Frame) /\ Len(rest) = Len(st) - 1
        /\ \A j \in 1..Len(rest) : rest[j] = st[j]
    BY <1>1 DEF Pop
  <1>4. CASE Len(st) = 1
    <2>1. rest = << >>
      BY <1>3, <1>4
    <2>2. QED
      BY <1>4, <2>1 DEF Return, TypeInv, TypeOK
  <1>5. CASE Len(st) /= 1
    <2>0. Len(st) - 1 \in Nat \ {0} /\ Len(st) - 1 \in 1..Len(st) - 1
      BY <1>1, <1>5, BelowTop, Zenon
    <2>1. Len(rest) \in Nat \ {0} /\ Len(rest) \in 1..Len(st) - 1
      BY <1>3, <2>0, Zenon
    <2>2. rest /= << >>
      BY <1>3, <2>1
    <2>3. PICK ns : /\ ns = [rest EXCEPT ![Len(rest)] = [@ EXCEPT !.got = r]]
                    /\ stack' = [stack EXCEPT ![c] = ns] /\ UNCHANGED result
      BY <2>2 DEF Return
    <2>4. rest[Len(rest)].fn = "icpt"
      BY <1>2, <1>3, <2>1
    <2>5. ns = [j \in 1..Len(rest) |->
                  IF j = Len(rest) THEN [rest[Len(rest)] EXCEPT !.got = r]
                                   ELSE rest[j]]
      <3>1. DOMAIN rest = 1..Len(rest)
        BY <1>3
      <3>2. QED
        BY <2>3, <3>1, Zenon
    <2>6. ns /= << >> /\ Len(ns) = Len(rest)
          /\ ns[Len(ns)] = [rest[Len(rest)] EXCEPT !.got = r]
      BY <2>1, <2>5
    <2>7. rest[Len(rest)] \in IcptFrame
      BY <1>3, <2>1, <2>4 DEF Frame, TermFrame
    <2>8. ns[Len(ns)].fn = "icpt" /\ ns[Len(ns)].got = r
      BY <2>4, <2>6, <2>7 DEF IcptFrame
    <2>9. stack'[c] = ns
      BY <2>3 DEF TypeInv, TypeOK
    <2>10. QED
      BY <1>5, <2>3, <2>6, <2>8, <2>9 DEF Top, TypeInv, TypeOK
  <1>6. QED
    BY <1>4, <1>5

\* A frame returning r, recorded by the event e (the Conn's return, or the
\* interceptor's "after" with what it got), keeps the invariant.
LEMMA ReturnResults ==
    ASSUME TypeInv, ResultsInv, NEW c \in Calls, stack[c] /= << >>,
           NEW r \in Results, Return(c, r), UNCHANGED kind,
           NEW e \in Event, e.ret = r,
           e.ev = "term" \/ (e.ev = "after" /\ Top(c).fn = "icpt" /\ e.got = Top(c).got),
           trace' = [trace EXCEPT ![c] = Append(@, e)]
    PROVE  ResultsInv'
  <1>1. /\ \A d \in Calls \ {c} : stack'[d] = stack[d] /\ result'[d] = result[d]
        /\ Len(stack[c]) = 1 => stack'[c] = << >> /\ result'[c] = r
        /\ Len(stack[c]) /= 1 =>
              /\ stack'[c] /= << >> /\ result'[c] = result[c]
              /\ Top(c)'.fn = "icpt" /\ Top(c)'.got = r
    BY ReturnShape
  <1> DEFINE t == trace[c]
  <1>2. t \in Seq(Event) /\ trace'[c] = Append(t, e)
        /\ \A d \in Calls \ {c} : trace'[d] = trace[d]
    BY DEF TypeInv, TypeOK
  <1>3. ASSUME Clean(Append(t, e))
        PROVE  HasLast(Append(t, e)) /\ LastTerm(Append(t, e)) = r
    <2>1. CASE e.ev = "term"
      BY <1>2, <2>1, AppendTerm
    <2>2. CASE e.ev /= "term"
      <3>1. e.ev = "after" /\ Top(c).fn = "icpt" /\ e.got = Top(c).got
        BY <2>2
      <3>2. Clean(t) /\ e.ret = e.got
        BY <1>2, <1>3, <2>2, <3>1, AppendOther
      <3>3. Top(c).got = r /\ Top(c).got /= NoResult
        BY <3>1, <3>2 DEF Results, NoResult
      <3>4. HasLast(t) /\ Top(c).got = LastTerm(t)
        BY <3>1, <3>2, <3>3 DEF ResultsInv, RInv
      <3>5. QED
        BY <1>2, <2>2, <3>3, <3>4, AppendOther
    <2>3. QED
      BY <2>1, <2>2
  <1>4. kind[c] /= "none" /\ result[c] = NoResult
    BY DEF ResultsInv, RInv
  <1>5. RInv(c)'
    <2>1. CASE Len(stack[c]) = 1
      BY <1>1, <1>2, <1>3, <1>4, <2>1 DEF RInv
    <2>2. CASE Len(stack[c]) /= 1
      <3>1. NoResult \notin ReturnValues
        BY DEF NoResult, ReturnValues
      <3>2. QED
        BY <1>1, <1>2, <1>3, <1>4, <2>2, <3>1 DEF RInv
    <2>3. QED
      BY <2>1, <2>2
  <1>6. ASSUME NEW d \in Calls \ {c} PROVE RInv(d)'
    <2>1. Top(d)' = Top(d)
      BY <1>1 DEF Top
    <2>2. QED
      BY <1>1, <1>2, <2>1 DEF ResultsInv, RInv
  <1>7. QED
    BY <1>5, <1>6 DEF ResultsInv

\* An interceptor returning keeps the invariant.
LEMMA InterceptorReturnResults ==
    ASSUME TypeInv, ResultsInv, NEW c \in Calls, InterceptorReturn(c)
    PROVE  ResultsInv'
  <1>1. /\ stack[c] \in Seq(Frame) /\ stack[c] /= << >> /\ Top(c).fn = "icpt"
        /\ UNCHANGED kind
    BY DEF InterceptorReturn, TypeInv, TypeOK
  <1>2. PICK top : top = Top(c)
    OBVIOUS
  <1>3. top \in IcptFrame
    BY <1>1, <1>2 DEF Top, Frame, TermFrame
  <1>4. PICK r \in ({top.got} \ {NoResult}) \cup {"ok", "errI"} :
          /\ Return(c, r)
          /\ trace' = [trace EXCEPT ![c] = Append(@,
                 [ev |-> "after", id |-> top.id, got |-> top.got, ret |-> r])]
    BY <1>2 DEF InterceptorReturn
  <1>5. r \in Results
    BY <1>3 DEF IcptFrame, Results, NoResult
  <1>6. PICK e : e = [ev |-> "after", id |-> top.id, got |-> top.got, ret |-> r]
    OBVIOUS
  <1>7. e \in Event /\ e.ret = r /\ e.ev = "after" /\ e.got = top.got
    BY <1>3, <1>5, <1>6 DEF IcptFrame, Event
  <1>8. QED
    BY <1>1, <1>2, <1>4, <1>5, <1>6, <1>7, ReturnResults

\* The Conn returning keeps the invariant.
LEMMA TerminalReturnResults ==
    ASSUME TypeInv, ResultsInv, NEW c \in Calls, TerminalReturn(c)
    PROVE  ResultsInv'
  <1>1. stack[c] /= << >> /\ UNCHANGED kind
    BY DEF TerminalReturn
  <1>2. PICK r \in {"ok", "errT"} :
          /\ Return(c, r)
          /\ trace' = [trace EXCEPT ![c] = Append(@, [ev |-> "term", ret |-> r])]
    BY DEF TerminalReturn
  <1>3. r \in Results /\ [ev |-> "term", ret |-> r] \in Event
    BY DEF Results, Event
  <1>4. QED
    BY <1>1, <1>2, <1>3, ReturnResults

LEMMA ResultsInit == Init => ResultsInv
  BY DEF Init, ResultsInv, RInv, Clean, ReturnValues, NoResult

LEMMA ResultsStep ==
    ASSUME TypeInv, ResultsInv, [Next]_vars
    PROVE  ResultsInv'
  <1>1. CASE NewClientConnWithOptions
    BY <1>1 DEF NewClientConnWithOptions, ResultsInv, RInv, Top
  <1>2. ASSUME NEW c \in Calls, Invoke(c) PROVE ResultsInv'
    BY <1>2, CallResults DEF Invoke
  <1>3. ASSUME NEW c \in Calls, NewStream(c) PROVE ResultsInv'
    BY <1>3, CallResults DEF NewStream
  <1>4. ASSUME NEW c \in Calls, CallNext(c) PROVE ResultsInv'
    BY <1>4, CallNextResults
  <1>5. ASSUME NEW c \in Calls, InterceptorReturn(c) PROVE ResultsInv'
    BY <1>5, InterceptorReturnResults
  <1>6. ASSUME NEW c \in Calls, TerminalReturn(c) PROVE ResultsInv'
    BY <1>6, TerminalReturnResults
  <1>7. CASE UNCHANGED vars
    BY <1>7 DEF vars, ResultsInv, RInv, Top
  <1>8. QED
    BY <1>1, <1>2, <1>3, <1>4, <1>5, <1>6, <1>7 DEF Next

\* ResultFidelity: when every interceptor of a call returned what its last
\* `next` returned, Invoke / NewStream return what the last call of the
\* underlying Conn returned, through any retries, and whichever stream
\* interceptors the chain skips.
THEOREM ClientResultFidelity == Spec => []ResultFidelity
  <1>1. Init => TypeInv /\ ResultsInv
    BY InitTypeInv, ResultsInit
  <1>2. TypeInv /\ ResultsInv /\ [Next]_vars => (TypeInv /\ ResultsInv)'
    BY NextTypeInv, ResultsStep
  <1>3. ResultsInv => ResultFidelity
    <2>1. SUFFICES ASSUME ResultsInv, NEW c \in Calls,
                          result[c] \in {"ok", "errT", "errI"}, Transparent(c)
                   PROVE  result[c] = LastTerminal(c)
      BY DEF ResultFidelity
    <2>2. Clean(trace[c]) /\ result[c] \in ReturnValues
      BY <2>1 DEF Transparent, Clean, ReturnValues
    <2>3. RInv(c)
      BY <2>1 DEF ResultsInv
    <2>4. result[c] = LastTerm(trace[c])
      BY <2>2, <2>3, Zenon DEF RInv
    <2>5. LastTerm(trace[c]) = LastTerminal(c)
      BY DEF LastTerm, LastTerminal, TermIdx
    <2>6. QED
      BY <2>4, <2>5
  <1>4. QED
    BY <1>1, <1>2, <1>3, PTL DEF Spec

=============================================================================
