--------------------- MODULE DrcpClientConnResultProofs ---------------------
(***************************************************************************)
(* Proofs about what the callers of the drcpclientconn ClientConn get     *)
(* back: no call panics, and when every interceptor passes on what its    *)
(* last `next` returned, the caller gets what the last call of the        *)
(* underlying Conn returned (ResultFidelity), for every value of the      *)
(* constants, nested calls and retries included.                          *)
(***************************************************************************)
EXTENDS DrcpClientConnProofs, CallRecord

(***************************************************************************)
(* The invariant behind ResultFidelity.  A frame's `got` is stale while   *)
(* the frame is waiting on a later `next`; it is overwritten before the   *)
(* frame runs again.  So only the running interceptor's `got` is claimed  *)
(* to be the last terminal result, and, once the outermost frame has      *)
(* returned, the caller's result.                                          *)
(***************************************************************************)
RInv(c) ==
    /\ result[c] \in ReturnValues \cup {NoResult}
    /\ stack[c] /= << >> => result[c] = NoResult
    /\ Clean(trace[c]) =>
          /\ stack[c] /= << >> /\ Top(c).fn = "icpt" /\ Top(c).got /= NoResult
                => HasLast(trace[c]) /\ Top(c).got = LastTerm(trace[c])
          /\ result[c] \in ReturnValues
                => HasLast(trace[c]) /\ result[c] = LastTerm(trace[c])

ResultsInv == \A c \in Calls : RInv(c)

\* A step that leaves the record of every other call alone and adds to the
\* record of c no terminal event and no interceptor return.
TraceKept(c) ==
    /\ trace' \in [Calls -> Seq(Event)]
    /\ \A d \in Calls \ {c} : trace'[d] = trace[d]
    /\ HasLast(trace'[c]) <=> HasLast(trace[c])
    /\ HasLast(trace[c]) => LastTerm(trace'[c]) = LastTerm(trace[c])
    /\ Clean(trace'[c]) => Clean(trace[c])

(***************************************************************************)
(* Entering a frame.                                                      *)
(***************************************************************************)

\* Entering a frame records at most a "before" event.
LEMMA EntryOther ==
    ASSUME NEW s \in Seq(Event), NEW f \in Frame
    PROVE  /\ s \o EntryEvent(f) \in Seq(Event)
           /\ HasLast(s \o EntryEvent(f)) <=> HasLast(s)
           /\ HasLast(s) => LastTerm(s \o EntryEvent(f)) = LastTerm(s)
           /\ Clean(s \o EntryEvent(f)) <=> Clean(s)
  <1>1. CASE f.fn = "icpt"
    <2>1. PICK e : e = [ev |-> "before", id |-> f.id]
      OBVIOUS
    <2>2. e \in Event /\ e.ev /= "term" /\ e.ev /= "after"
      BY <1>1, <2>1 DEF Frame, IcptFrame, TermFrame, Event
    <2>3. s \o EntryEvent(f) = Append(s, e)
      BY <1>1, <2>1, <2>2, AppendIsConcat DEF EntryEvent
    <2>4. Append(s, e) \in Seq(Event)
      BY <2>2, AppendProperties
    <2>5. QED
      BY <2>2, <2>3, <2>4, AppendOther
  <1>2. CASE f.fn /= "icpt"
    <2>1. s \o EntryEvent(f) = s
      BY <1>2, ConcatEmptySeq DEF EntryEvent
    <2>2. QED
      BY <2>1
  <1>3. QED
    BY <1>1, <1>2

(***************************************************************************)
(* Steps that push a frame.                                                *)
(***************************************************************************)

\* A closure pushes an interceptor that has not called next yet.
LEMMA CalleeFresh ==
    ASSUME NEW knd, NEW p, NEW n, NEW ints
    PROVE  Callee(knd, p, n, ints).fn = "icpt" => Callee(knd, p, n, ints).got = NoResult
  BY DEF Callee

\* Pushing a frame that holds no result keeps the invariant: the new running
\* frame claims nothing, and the record keeps its last terminal result.
LEMMA PushResults ==
    ASSUME ResultsInv, NEW c \in Calls, NEW st \in Seq(Frame), NEW f \in Frame,
           f.fn = "icpt" => f.got = NoResult,
           stack \in [Calls -> Seq(Frame)],
           stack' = [stack EXCEPT ![c] = Append(st, f)],
           result' = result, stack[c] = << >> => result[c] = NoResult,
           TraceKept(c)
    PROVE  ResultsInv'
  <1>1. /\ stack'[c] /= << >>
        /\ stack'[c][Len(stack'[c])] = f
    BY AppendProperties
  <1>2. RInv(c)'
    <2>1. result'[c] = result[c] /\ result[c] \in ReturnValues \cup {NoResult}
      BY DEF ResultsInv, RInv
    <2>2. stack'[c] /= << >> => result'[c] = NoResult
      BY DEF ResultsInv, RInv
    <2>3. ASSUME Clean(trace'[c])
          PROVE  result'[c] \in ReturnValues
                    => HasLast(trace'[c]) /\ result'[c] = LastTerm(trace'[c])
      BY <2>3 DEF ResultsInv, RInv, TraceKept
    <2>4. ~(Top(c)'.fn = "icpt" /\ Top(c)'.got /= NoResult)
      BY <1>1 DEF Top
    <2>5. QED
      BY <2>1, <2>2, <2>3, <2>4 DEF RInv
  <1>3. ASSUME NEW d \in Calls \ {c} PROVE RInv(d)'
    <2>1. stack'[d] = stack[d] /\ result'[d] = result[d] /\ trace'[d] = trace[d]
      BY DEF TraceKept
    <2>2. Top(d)' = Top(d)
      BY <2>1 DEF Top
    <2>3. QED
      BY <2>1, <2>2 DEF ResultsInv, RInv
  <1>4. QED
    BY <1>2, <1>3 DEF ResultsInv

\* Entering a chain adds at most a "before" event to the record.
LEMMA EnterTrace ==
    ASSUME TypeOK, DoptsInv, NEW c \in Calls, NEW k \in Kinds, NEW st,
           Enter(c, k, st)
    PROVE  TraceKept(c)
  <1>1. /\ Ints(k) \in Seq(Interceptors)
        /\ ChainOf(k).n = Len(Ints(k))
        /\ ChainOf(k).present <=> Len(Ints(k)) /= 0
    BY ChainFacts
  <1>2. trace[c] \in Seq(Event)
    BY DEF TypeOK
  <1>3. CASE ~ChainOf(k).present
    BY <1>2, <1>3 DEF Enter, TraceKept, TypeOK
  <1>4. CASE ChainOf(k).present
    <2>1. PICK f : f = Callee(k, 1, Len(Ints(k)), Ints(k))
      OBVIOUS
    <2>2. f \in Frame
      BY <1>1, <2>1, CalleeFacts DEF FrameOK
    <2>3. trace' = [trace EXCEPT ![c] = @ \o EntryEvent(f)]
      BY <1>1, <1>4, <2>1 DEF Enter
    <2>4. /\ trace[c] \o EntryEvent(f) \in Seq(Event)
          /\ HasLast(trace[c] \o EntryEvent(f)) <=> HasLast(trace[c])
          /\ HasLast(trace[c]) => LastTerm(trace[c] \o EntryEvent(f)) = LastTerm(trace[c])
          /\ Clean(trace[c] \o EntryEvent(f)) <=> Clean(trace[c])
      BY <1>2, <2>2, EntryOther
    <2>5. QED
      BY <2>3, <2>4 DEF TraceKept, TypeOK
  <1>5. QED
    BY <1>3, <1>4

\* Invoke and NewStream keep the invariant.
LEMMA CallResults ==
    ASSUME Inv, ResultsInv, NEW c \in Calls, NEW k \in Kinds, Call(c, k)
    PROVE  ResultsInv'
  <1>1. kind[c] = "none" /\ Enter(c, k, << >>)
    BY DEF Call
  <1>2. stack[c] = << >> /\ result[c] = NoResult
    BY <1>1 DEF Inv, StackInv
  <1>3. PICK f : f = Callee(k, 1, Len(Ints(k)), Ints(k))
    OBVIOUS
  <1>4. /\ stack' = [stack EXCEPT ![c] = Append(<< >>, f)]
        /\ result' = result
    BY <1>1, <1>3, EnterFacts DEF Inv
  <1>5. f \in Frame /\ (f.fn = "icpt" => f.got = NoResult)
    <2>1. Ints(k) \in Seq(Interceptors)
      BY ChainFacts DEF Inv
    <2>2. QED
      BY <1>3, <2>1, CalleeFacts, CalleeFresh DEF FrameOK
  <1>6. TraceKept(c)
    BY <1>1, EnterTrace DEF Inv
  <1>7. QED
    BY <1>2, <1>4, <1>5, <1>6, PushResults DEF Inv, TypeOK

\* An interceptor calling Invoke / NewStream on its handle keeps the
\* invariant.
LEMMA NestedCallResults ==
    ASSUME Inv, ResultsInv, NEW c \in Calls, NEW k \in Kinds, NestedCall(c, k)
    PROVE  ResultsInv'
  <1>1. /\ stack[c] /= << >> /\ Top(c).fn = "icpt" /\ Top(c).calls < MaxNext
        /\ Enter(c, k, Bumped(c))
    BY DEF NestedCall
  <1>2. PICK f : f = Callee(k, 1, Len(Ints(k)), Ints(k))
    OBVIOUS
  <1>3. /\ stack' = [stack EXCEPT ![c] = Append(Bumped(c), f)]
        /\ result' = result
    BY <1>1, <1>2, EnterFacts DEF Inv
  <1>4. f \in Frame /\ (f.fn = "icpt" => f.got = NoResult)
    <2>1. Ints(k) \in Seq(Interceptors)
      BY ChainFacts DEF Inv
    <2>2. QED
      BY <1>2, <2>1, CalleeFacts, CalleeFresh DEF FrameOK
  <1>5. Bumped(c) \in Seq(Frame)
    BY <1>1, BumpedFacts
  <1>6. TraceKept(c)
    BY <1>1, EnterTrace DEF Inv
  <1>7. stack \in [Calls -> Seq(Frame)]
    BY DEF Inv, TypeOK
  <1>8. stack[c] = << >> => result[c] = NoResult
    BY <1>1
  <1>9. QED
    BY <1>3, <1>4, <1>5, <1>6, <1>7, <1>8, PushResults

\* An interceptor calling next keeps the invariant.
LEMMA CallNextResults ==
    ASSUME Inv, ResultsInv, NEW c \in Calls, CallNext(c)
    PROVE  ResultsInv'
  <1>1. /\ stack[c] /= << >> /\ Top(c).fn = "icpt" /\ Top(c).calls < MaxNext
        /\ UNCHANGED result
    BY DEF CallNext
  <1>2. PICK top : top = Top(c)
    OBVIOUS
  <1>3. /\ top.k \in Kinds /\ top.pos \in Nat \ {0} /\ top.pos <= Len(Ints(top.k))
    BY <1>1, <1>2, TopFacts DEF IcptFrame
  <1>4. /\ Ints(top.k) \in Seq(Interceptors)
        /\ ChainOf(top.k).n = Len(Ints(top.k))
    BY <1>3, ChainFacts DEF Inv
  <1>5. PICK f : f = Callee(top.k, top.pos + 1, Len(Ints(top.k)), Ints(top.k))
    OBVIOUS
  <1>6. /\ stack' = [stack EXCEPT ![c] = Append(Bumped(c), f)]
        /\ trace' = [trace EXCEPT ![c] = @ \o EntryEvent(f)]
    BY <1>2, <1>4, <1>5 DEF CallNext
  <1>7. f \in Frame /\ (f.fn = "icpt" => f.got = NoResult)
    <2>1. top.pos + 1 \in Nat \ {0} /\ top.pos + 1 <= Len(Ints(top.k)) + 1
      BY <1>3
    <2>2. QED
      BY <1>3, <1>4, <1>5, <2>1, CalleeFacts, CalleeFresh DEF FrameOK
  <1>8. Bumped(c) \in Seq(Frame)
    BY <1>1, BumpedFacts
  <1>9. TraceKept(c)
    <2>1. trace[c] \in Seq(Event)
      BY DEF Inv, TypeOK
    <2>2. /\ trace[c] \o EntryEvent(f) \in Seq(Event)
          /\ HasLast(trace[c] \o EntryEvent(f)) <=> HasLast(trace[c])
          /\ HasLast(trace[c]) => LastTerm(trace[c] \o EntryEvent(f)) = LastTerm(trace[c])
          /\ Clean(trace[c] \o EntryEvent(f)) <=> Clean(trace[c])
      BY <1>7, <2>1, EntryOther
    <2>3. QED
      BY <1>6, <2>2 DEF TraceKept, Inv, TypeOK
  <1>10. QED
    BY <1>1, <1>6, <1>7, <1>8, <1>9, PushResults DEF Inv, TypeOK

(***************************************************************************)
(* Steps that pop a frame.                                                 *)
(***************************************************************************)

\* A frame returning r, recorded by the event e (the Conn's return, or the
\* interceptor's "after" with what it got), keeps the invariant: when the
\* record is clean, r is the last terminal result, and it is what the frame
\* below, or the caller, now holds.
LEMMA ReturnResults ==
    ASSUME Inv, ResultsInv, NEW c \in Calls, stack[c] /= << >>,
           NEW r \in ReturnValues, Return(c, r),
           NEW e \in Event, e.ret = r,
           e.ev = "term" \/ (e.ev = "after" /\ Top(c).fn = "icpt" /\ e.got = Top(c).got),
           trace' = [trace EXCEPT ![c] = Append(@, e)]
    PROVE  ResultsInv'
  <1>0. \E x :
           /\ stack' = [stack EXCEPT ![c] = x]
           /\ FramesOK(x, kind[c], AbsLists)
           /\ AbsLinks(x) = SubSeq(AbsLinks(stack[c]), 1, Len(AbsLinks(stack[c])) - 1)
           /\ x = << >> <=> Len(stack[c]) = 1
           /\ Len(stack[c]) = 1 => result' = [result EXCEPT ![c] = r]
           /\ Len(stack[c]) /= 1 => result' = result
           /\ x /= << >> => x[Len(x)].fn = "icpt" /\ x[Len(x)].got = r
    BY ReturnFacts
  <1>1. PICK x : /\ stack' = [stack EXCEPT ![c] = x]
                 /\ x = << >> <=> Len(stack[c]) = 1
                 /\ Len(stack[c]) = 1 => result' = [result EXCEPT ![c] = r]
                 /\ Len(stack[c]) /= 1 => result' = result
                 /\ x /= << >> => x[Len(x)].fn = "icpt" /\ x[Len(x)].got = r
    BY <1>0, Zenon
  <1> DEFINE t == trace[c]
  <1>2. t \in Seq(Event) /\ trace'[c] = Append(t, e)
    BY DEF Inv, TypeOK
  <1>3. ASSUME Clean(Append(t, e))
        PROVE  HasLast(Append(t, e)) /\ LastTerm(Append(t, e)) = r
    <2>1. CASE e.ev = "term"
      BY <1>2, <2>1, AppendTerm
    <2>2. CASE e.ev /= "term"
      <3>1. e.ev = "after" /\ Top(c).fn = "icpt" /\ e.got = Top(c).got
        BY <2>2
      <3>2. Clean(t) /\ e.ret = e.got
        BY <1>2, <1>3, <2>2, <3>1, AppendOther
      <3>3. Top(c).got = r /\ Top(c).got /= NoResult
        BY <3>1, <3>2 DEF ReturnValues, NoResult
      <3>4. HasLast(t) /\ Top(c).got = LastTerm(t)
        BY <3>1, <3>2, <3>3 DEF ResultsInv, RInv
      <3>5. QED
        BY <1>2, <2>2, <3>3, <3>4, AppendOther
    <2>3. QED
      BY <2>1, <2>2
  <1>4. RInv(c)'
    <2>1. result[c] = NoResult
      BY DEF ResultsInv, RInv
    <2>2. stack'[c] = x /\ trace'[c] = Append(t, e)
      BY <1>1, <1>2 DEF Inv, TypeOK
    <2>3. CASE Len(stack[c]) = 1
      <3>1. x = << >> /\ result'[c] = r
        BY <1>1, <2>3 DEF Inv, TypeOK
      <3>2. Clean(Append(t, e)) => HasLast(Append(t, e)) /\ r = LastTerm(Append(t, e))
        BY <1>3
      <3>3. QED
        BY <2>2, <3>1, <3>2 DEF RInv, ReturnValues
    <2>4. CASE Len(stack[c]) /= 1
      <3>1. x /= << >> /\ result'[c] = NoResult
        BY <1>1, <2>1, <2>4
      <3>2. Top(c)' = x[Len(x)]
        BY <2>2 DEF Top
      <3>3. Top(c)'.fn = "icpt" /\ Top(c)'.got = r
        BY <1>1, <3>1, <3>2
      <3>4. Clean(Append(t, e)) => HasLast(Append(t, e)) /\ r = LastTerm(Append(t, e))
        BY <1>3
      <3>5. NoResult \notin ReturnValues
        BY DEF NoResult, ReturnValues
      <3>6. QED
        BY <2>2, <3>1, <3>3, <3>4, <3>5 DEF RInv
    <2>5. QED
      BY <2>3, <2>4
  <1>5. ASSUME NEW d \in Calls \ {c} PROVE RInv(d)'
    <2>1. stack'[d] = stack[d] /\ result'[d] = result[d] /\ trace'[d] = trace[d]
      BY <1>1 DEF Inv, TypeOK
    <2>2. Top(d)' = Top(d)
      BY <2>1 DEF Top
    <2>3. QED
      BY <2>1, <2>2 DEF ResultsInv, RInv
  <1>6. QED
    BY <1>4, <1>5 DEF ResultsInv

\* An interceptor returning keeps the invariant.
LEMMA InterceptorReturnResults ==
    ASSUME Inv, ResultsInv, NEW c \in Calls, InterceptorReturn(c)
    PROVE  ResultsInv'
  <1>1. stack[c] /= << >> /\ Top(c).fn = "icpt"
    BY DEF InterceptorReturn
  <1>2. PICK top : top = Top(c)
    OBVIOUS
  <1>3. top \in IcptFrame /\ top.got \in ReturnValues \cup {NoResult}
    <2>1. /\ stack[c] \in Seq(Frame)
          /\ FramesOK(stack[c], kind[c], AbsLists)
      BY DEF Inv, TypeOK, StackInv
    <2>2. Len(stack[c]) \in 1..Len(stack[c])
      BY <1>1, <2>1, EmptySeq
    <2>3. FrameOK(top, AbsLists)
      BY <1>2, <2>1, <2>2 DEF FramesOK, Top
    <2>4. QED
      BY <1>1, <1>2, <2>3 DEF FrameOK, Frame, TermFrame
  <1>4. PICK r \in ({top.got} \ {NoResult}) \cup {"ok", "errI"} :
          /\ Return(c, r)
          /\ trace' = [trace EXCEPT ![c] = Append(@,
                 [ev |-> "after", id |-> top.id, got |-> top.got, ret |-> r])]
    BY <1>2 DEF InterceptorReturn
  <1>5. r \in ReturnValues
    BY <1>3, <1>4 DEF ReturnValues
  <1>6. PICK e : e = [ev |-> "after", id |-> top.id, got |-> top.got, ret |-> r]
    OBVIOUS
  <1>7. e \in Event /\ e.ret = r /\ e.ev = "after" /\ e.got = top.got
    BY <1>3, <1>5, <1>6 DEF IcptFrame, Event, ReturnValues, Results
  <1>8. QED
    BY <1>1, <1>2, <1>4, <1>5, <1>6, <1>7, ReturnResults

\* The Conn returning keeps the invariant.
LEMMA TerminalReturnResults ==
    ASSUME Inv, ResultsInv, NEW c \in Calls, TerminalReturn(c)
    PROVE  ResultsInv'
  <1>1. stack[c] /= << >>
    BY DEF TerminalReturn
  <1>2. PICK r \in {"ok", "errT"} :
          /\ Return(c, r)
          /\ trace' = [trace EXCEPT ![c] = Append(@, [ev |-> "term", ret |-> r])]
    BY DEF TerminalReturn
  <1>3. r \in ReturnValues /\ [ev |-> "term", ret |-> r] \in Event
    BY DEF ReturnValues, Event, Results
  <1>4. QED
    BY <1>1, <1>2, <1>3, ReturnResults

(***************************************************************************)
(* The invariant is inductive, on top of Inv.                              *)
(***************************************************************************)

LEMMA ResultsInit == Init => ResultsInv
  BY DEF Init, ResultsInv, RInv, Clean, ReturnValues, NoResult

LEMMA ResultsStep ==
    ASSUME Inv, ResultsInv, [Next]_vars
    PROVE  ResultsInv'
  <1>1. CASE NewClientConnWithOptions
    BY <1>1 DEF NewClientConnWithOptions, ResultsInv, RInv, Top
  <1>2. ASSUME NEW c \in Calls, NEW k \in Kinds, Call(c, k) PROVE ResultsInv'
    BY <1>2, CallResults
  <1>3. ASSUME NEW c \in Calls, CallNext(c) PROVE ResultsInv'
    BY <1>3, CallNextResults
  <1>4. ASSUME NEW c \in Calls, NEW k \in Kinds, NestedCall(c, k) PROVE ResultsInv'
    BY <1>4, NestedCallResults
  <1>5. ASSUME NEW c \in Calls, InterceptorReturn(c) PROVE ResultsInv'
    BY <1>5, InterceptorReturnResults
  <1>6. ASSUME NEW c \in Calls, TerminalReturn(c) PROVE ResultsInv'
    BY <1>6, TerminalReturnResults
  <1>7. CASE UNCHANGED vars
    BY <1>7 DEF vars, ResultsInv, RInv, Top
  <1>8. QED
    BY <1>1, <1>2, <1>3, <1>4, <1>5, <1>6, <1>7 DEF Next, Invoke, NewStream, Kinds

(***************************************************************************)
(* Theorems.                                                               *)
(***************************************************************************)

\* Inv and ResultsInv hold together in every reachable state.
THEOREM ResultsInvariant == Spec => [](Inv /\ ResultsInv)
  <1>1. Init => Inv /\ ResultsInv
    BY InitStep, ResultsInit
  <1>2. Inv /\ ResultsInv /\ [Next]_vars => (Inv /\ ResultsInv)'
    BY NextStep, ResultsStep
  <1>3. QED
    BY <1>1, <1>2, PTL DEF Spec

\* No Invoke or NewStream panics, whatever the lists configured for either
\* kind (the panic is initInterceptors' chain indexing past its slice).
THEOREM ConnNoPanic == Spec => []NoPanic
  <1>1. ResultsInv => NoPanic
    BY DEF ResultsInv, RInv, NoPanic, ReturnValues, NoResult
  <1>2. QED
    BY ResultsInvariant, <1>1, PTL

\* ResultFidelity: when every interceptor of a call returned what its last
\* `next` returned, Invoke / NewStream return what the last call of the
\* underlying Conn returned, through retries and nested calls.
THEOREM ConnResultFidelity == Spec => []ResultFidelity
  <1>1. ResultsInv => ResultFidelity
    <2>1. SUFFICES ASSUME ResultsInv, NEW c \in Calls,
                          result[c] \in {"ok", "errT", "errI"}, Transparent(c)
                   PROVE  result[c] = LastTerminal(c)
      BY DEF ResultFidelity
    <2>2. Clean(trace[c]) /\ result[c] \in ReturnValues
      BY <2>1 DEF Transparent, Clean, ReturnValues
    <2>3. result[c] = LastTerm(trace[c])
      <3>1. RInv(c)
        BY <2>1 DEF ResultsInv
      <3>2. QED
        BY <2>2, <3>1, Zenon DEF RInv
    <2>4. LastTerm(trace[c]) = LastTerminal(c)
      BY DEF LastTerm, LastTerminal, TermIdx
    <2>5. QED
      BY <2>3, <2>4
  <1>2. QED
    BY ResultsInvariant, <1>1, PTL

=============================================================================
