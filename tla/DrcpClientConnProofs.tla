------------------------ MODULE DrcpClientConnProofs ------------------------
(***************************************************************************)
(* Proofs about DrcpClientConn for every value of the constants: the type *)
(* invariant, ChainOrder (also for calls nested through the connection     *)
(* handle), and that the ClientConn implements the safety part of          *)
(* ChainSpec under the refinement mapping of DrcpClientConn.               *)
(***************************************************************************)
EXTENDS DrcpClientConn, SequenceTheorems, TLAPS

(***************************************************************************)
(* The inductive invariant.  Neither TypeOK nor ChainOrder is inductive by *)
(* itself: CallNext reads ints[pos + 1] and pushes link pos + 1, which is  *)
(* the right one only because the compiled chain spans the whole list      *)
(* (DoptsInv); Return writes the `got` field of the frame below the top,   *)
(* which is an interceptor because only the top can be the terminal; and a *)
(* call is issued with an empty stack and no result only because none is   *)
(* running before the ClientConn exists or before the call is issued.  For *)
(* the refinement, an interceptor only ever holds a result ChainSpec calls *)
(* an outcome, so the outermost return hands the caller one.               *)
(***************************************************************************)
ReturnValues == {"ok", "errT", "errI"}

DoptsInv ==
    /\ dopts.UnaryInt  = Compile(Len(dopts.unaryInts))
    /\ dopts.StreamInt = Compile(Len(dopts.streamInts))

\* The configured lists, the `lists` of ChainSpec.
AbsLists == [k \in Kinds |-> Ints(k)]

\* Link of a frame, for lists L of the interceptors of each kind.
LinkIn(f, L) == IF f.fn = "icpt" THEN f.pos ELSE Len(L[f.k]) + 1

\* One frame: an interceptor frame is the interceptor at its position.
FrameOK(f, L) ==
    /\ f \in Frame
    /\ f.fn = "icpt" =>
          /\ f.pos <= Len(L[f.k])
          /\ f.id = L[f.k][f.pos]
          /\ f.got \in ReturnValues \cup {NoResult}

\* Frame f sits directly on frame g: it starts a chain or is g's next link.
Linked(g, f, L) ==
    LinkIn(f, L) = 1 \/ (g.k = f.k /\ LinkIn(g, L) = LinkIn(f, L) - 1)

\* A call stack of a call of kind kd.
FramesOK(st, kd, L) ==
    /\ st \in Seq(Frame)
    /\ \A j \in 1..Len(st) : FrameOK(st[j], L)
    /\ \A j \in 1..Len(st) - 1 : st[j].fn = "icpt"
    /\ Len(st) >= 1 => LinkIn(st[1], L) = 1 /\ st[1].k = kd
    /\ \A j \in 2..Len(st) : Linked(st[j - 1], st[j], L)

StackInv ==
    \A c \in Calls :
        /\ FramesOK(stack[c], kind[c], AbsLists)
        /\ conn /= "ready" => stack[c] = << >>
        /\ kind[c] = "none" => stack[c] = << >> /\ result[c] = NoResult

Inv == TypeOK /\ DoptsInv /\ StackInv

(***************************************************************************)
(* Lemmas about the stack operations.                                      *)
(***************************************************************************)

\* A non-empty stack has one frame or more than one.
LEMMA PositiveCases == \A n \in Nat \ {0} : n = 1 \/ n >= 2
  OBVIOUS

\* A stack one frame shorter than a stack of n frames, n > 1.
LEMMA PredCases ==
    \A a, b \in Nat \ {0} : a = b - 1 => a \in 1..b - 1 /\ a \in 1..b /\ b /= 1
  OBVIOUS

\* A position of a stack one frame longer is an old one or the new top.
LEMMA AppendCases == \A n \in Nat : \A j \in 1..n + 1 : j \in 1..n \/ j = n + 1
  OBVIOUS

\* Replacing the top frame by one at the same link keeps a call stack.
LEMMA ReplaceTopFramesOK ==
    ASSUME NEW st, NEW kd, NEW L, NEW g, NEW ns, FramesOK(st, kd, L), st /= << >>, FrameOK(g, L),
           g.fn = st[Len(st)].fn, g.k = st[Len(st)].k, LinkIn(g, L) = LinkIn(st[Len(st)], L),
           ns \in Seq(Frame), Len(ns) = Len(st),
           \A j \in 1..Len(st) : ns[j] = IF j = Len(st) THEN g ELSE st[j]
    PROVE  FramesOK(ns, kd, L)
  <1>1. Len(st) \in Nat \ {0}
    BY EmptySeq DEF FramesOK
  <1>4. \A j \in 1..Len(ns) : FrameOK(ns[j], L)
    BY DEF FramesOK
  <1>5. \A j \in 1..Len(ns) - 1 : ns[j].fn = "icpt"
    <2>1. TAKE j \in 1..Len(ns) - 1
    <2>2. ns[j] = st[j] /\ j \in 1..Len(st) - 1
      BY <1>1
    <2>3. QED
      BY <2>2 DEF FramesOK
  <1>6. Len(ns) >= 1 => LinkIn(ns[1], L) = 1 /\ ns[1].k = kd
    <2>1. CASE Len(st) = 1
      BY <2>1 DEF FramesOK
    <2>2. CASE Len(st) > 1
      BY <2>2 DEF FramesOK
    <2>3. QED
      BY <1>1, <2>1, <2>2
  <1>7. \A j \in 2..Len(ns) : Linked(ns[j - 1], ns[j], L)
    <2>1. TAKE j \in 2..Len(ns)
    <2>2. Linked(st[j - 1], st[j], L)
      BY DEF FramesOK
    <2>3. ns[j - 1] = st[j - 1]
      BY <1>1
    <2>4. CASE j = Len(st)
      <3>1. ns[j] = g
        BY <2>4
      <3>2. QED
        BY <2>2, <2>3, <2>4, <3>1 DEF Linked
    <2>5. CASE j /= Len(st)
      <3>1. ns[j] = st[j]
        BY <1>1, <2>5
      <3>2. QED
        BY <2>2, <2>3, <3>1
    <2>6. QED
      BY <2>4, <2>5
  <1>8. QED
    BY <1>4, <1>5, <1>6, <1>7 DEF FramesOK

\* Pushing a frame linked to the running interceptor keeps a call stack.
LEMMA PushFramesOK ==
    ASSUME NEW st, NEW kd, NEW L, NEW f, FramesOK(st, kd, L), st /= << >>,
           st[Len(st)].fn = "icpt", FrameOK(f, L), Linked(st[Len(st)], f, L)
    PROVE  FramesOK(Append(st, f), kd, L)
  <1> DEFINE ns == Append(st, f)
  <1>1. st \in Seq(Frame) /\ Len(st) \in Nat \ {0} /\ f \in Frame
    BY EmptySeq DEF FramesOK, FrameOK
  <1>2. ns \in Seq(Frame) /\ Len(ns) = Len(st) + 1
        /\ \A j \in 1..Len(st) : ns[j] = st[j]
        /\ ns[Len(ns)] = f
    BY <1>1, AppendProperties
  <1>3. \A j \in 1..Len(ns) : FrameOK(ns[j], L)
    BY <1>1, <1>2 DEF FramesOK
  <1>4. \A j \in 1..Len(ns) - 1 : ns[j].fn = "icpt"
    <2>1. TAKE j \in 1..Len(ns) - 1
    <2>2. CASE j = Len(st)
      BY <1>1, <1>2, <2>2
    <2>3. CASE j < Len(st)
      BY <1>1, <1>2, <2>3 DEF FramesOK
    <2>4. QED
      BY <1>1, <1>2, <2>2, <2>3
  <1>5. Len(ns) >= 1 => LinkIn(ns[1], L) = 1 /\ ns[1].k = kd
    BY <1>1, <1>2 DEF FramesOK
  <1>6. \A j \in 2..Len(ns) : Linked(ns[j - 1], ns[j], L)
    <2>1. TAKE j \in 2..Len(ns)
    <2>2. CASE j = Len(ns)
      BY <1>1, <1>2, <2>2
    <2>3. CASE j < Len(ns)
      BY <1>1, <1>2, <2>3 DEF FramesOK
    <2>4. QED
      BY <1>1, <1>2, <2>2, <2>3
  <1>7. QED
    BY <1>2, <1>3, <1>4, <1>5, <1>6 DEF FramesOK

\* A frame that starts a chain of kind kd is a whole call stack.
LEMMA SingletonFramesOK ==
    ASSUME NEW f, NEW kd, NEW L, FrameOK(f, L), LinkIn(f, L) = 1, f.k = kd
    PROVE  FramesOK(<< f >>, kd, L)
  BY DEF FramesOK, FrameOK

\* Popping the top frame keeps a call stack.
LEMMA PopFramesOK ==
    ASSUME NEW st, NEW kd, NEW L, FramesOK(st, kd, L), st /= << >>
    PROVE  /\ FramesOK(Pop(st), kd, L)
           /\ Len(Pop(st)) = Len(st) - 1
           /\ \A j \in 1..Len(Pop(st)) : Pop(st)[j] = st[j]
  <1> DEFINE ps == Pop(st)
  <1>0. Len(st) \in Nat \ {0}
    BY EmptySeq DEF FramesOK
  <1>1. st \in Seq(Frame) /\ Len(st) \in Nat \ {0}
    BY <1>0 DEF FramesOK
  <1>2. ps \in Seq(Frame) /\ Len(ps) = Len(st) - 1
        /\ \A j \in 1..Len(ps) : ps[j] = st[j]
    <2>1. \A i \in 1..Len(st) - 1 : st[i] \in Frame
      BY <1>1, ElementOfSeq
    <2>2. /\ SubSeq(st, 1, Len(st) - 1) \in Seq(Frame)
          /\ Len(SubSeq(st, 1, Len(st) - 1)) = IF 1 <= Len(st) - 1 THEN Len(st) - 1 ELSE 0
          /\ \A i \in 1..Len(st) - 1 : SubSeq(st, 1, Len(st) - 1)[i] = st[i]
      BY <1>1, <2>1, SubSeqProperties
    <2>3. Len(SubSeq(st, 1, Len(st) - 1)) = Len(st) - 1
      <3>1. CASE Len(st) = 1
        BY <2>2, <3>1
      <3>2. CASE Len(st) >= 2
        BY <2>2, <3>2
      <3>3. Len(st) = 1 \/ Len(st) >= 2
        BY <1>0, PositiveCases
      <3>4. QED
        BY <3>1, <3>2, <3>3
    <2>4. ps = SubSeq(st, 1, Len(st) - 1)
      BY DEF Pop
    <2>5. QED
      BY <2>2, <2>3, <2>4
  <1>3. FramesOK(ps, kd, L)
    BY <1>1, <1>2 DEF FramesOK
  <1>4. QED
    BY <1>2, <1>3

(***************************************************************************)
(* Lemmas about the refinement mapping of a call stack to its links.      *)
(***************************************************************************)
LinkRec == [k : Kinds, i : Int]

IntsTyped == \A k \in Kinds : Ints(k) \in Seq(Interceptors)

LEMMA AbsLinksType ==
    ASSUME NEW st \in Seq(Frame), IntsTyped
    PROVE  /\ AbsLinks(st) \in Seq(LinkRec)
           /\ Len(AbsLinks(st)) = Len(st)
           /\ \A j \in 1..Len(st) : AbsLinks(st)[j] = [k |-> st[j].k, i |-> Link(st[j])]
  <1>1. Len(st) \in Nat
    BY LenProperties
  <1>2. \A j \in 1..Len(st) : [k |-> st[j].k, i |-> Link(st[j])] \in LinkRec
    <2>1. TAKE j \in 1..Len(st)
    <2>2. st[j] \in Frame
      BY ElementOfSeq
    <2>3. st[j].k \in Kinds /\ Len(Ints(st[j].k)) \in Nat
      BY <2>2, LenProperties DEF Frame, IcptFrame, TermFrame, IntsTyped
    <2>4. Link(st[j]) \in Int
      BY <2>2, <2>3 DEF Link, Frame, IcptFrame, TermFrame
    <2>5. QED
      BY <2>3, <2>4 DEF LinkRec
  <1>3. AbsLinks(st) \in [1..Len(st) -> LinkRec]
    BY <1>2 DEF AbsLinks
  <1>4. QED
    BY <1>1, <1>3 DEF AbsLinks

\* A frame replaced by one of the same kind at the same link maps to the
\* same links.
LEMMA AbsLinksReplace ==
    ASSUME NEW st \in Seq(Frame), NEW ns \in Seq(Frame), IntsTyped,
           Len(ns) = Len(st),
           \A j \in 1..Len(st) : ns[j].k = st[j].k /\ Link(ns[j]) = Link(st[j])
    PROVE  AbsLinks(ns) = AbsLinks(st)
  <1>1. /\ AbsLinks(st) \in Seq(LinkRec) /\ Len(AbsLinks(st)) = Len(st)
        /\ \A j \in 1..Len(st) : AbsLinks(st)[j] = [k |-> st[j].k, i |-> Link(st[j])]
    BY AbsLinksType
  <1>2. /\ AbsLinks(ns) \in Seq(LinkRec) /\ Len(AbsLinks(ns)) = Len(st)
        /\ \A j \in 1..Len(st) : AbsLinks(ns)[j] = [k |-> ns[j].k, i |-> Link(ns[j])]
    BY AbsLinksType
  <1>3. \A j \in 1..Len(st) : AbsLinks(ns)[j] = AbsLinks(st)[j]
    BY <1>1, <1>2
  <1>4. QED
    BY <1>1, <1>2, <1>3, SeqEqual

\* Pushing a frame pushes its link.
LEMMA AbsLinksAppend ==
    ASSUME NEW st \in Seq(Frame), NEW f \in Frame, IntsTyped
    PROVE  AbsLinks(Append(st, f)) = Append(AbsLinks(st), [k |-> f.k, i |-> Link(f)])
  <1> DEFINE ns == Append(st, f)
             l  == [k |-> f.k, i |-> Link(f)]
  <1>1. ns \in Seq(Frame) /\ Len(ns) = Len(st) + 1
        /\ \A j \in 1..Len(st) : ns[j] = st[j]
        /\ ns[Len(ns)] = f
    BY AppendProperties
  <1>2. /\ AbsLinks(ns) \in Seq(LinkRec) /\ Len(AbsLinks(ns)) = Len(ns)
        /\ \A j \in 1..Len(ns) : AbsLinks(ns)[j] = [k |-> ns[j].k, i |-> Link(ns[j])]
    BY <1>1, AbsLinksType
  <1>3. /\ AbsLinks(st) \in Seq(LinkRec) /\ Len(AbsLinks(st)) = Len(st)
        /\ \A j \in 1..Len(st) : AbsLinks(st)[j] = [k |-> st[j].k, i |-> Link(st[j])]
    BY AbsLinksType
  <1>4. l \in LinkRec
    BY <1>1, <1>2, LenProperties DEF LinkRec
  <1>5. /\ Append(AbsLinks(st), l) \in Seq(LinkRec)
        /\ Len(Append(AbsLinks(st), l)) = Len(st) + 1
        /\ \A j \in 1..Len(st) : Append(AbsLinks(st), l)[j] = AbsLinks(st)[j]
        /\ Append(AbsLinks(st), l)[Len(st) + 1] = l
    BY <1>3, <1>4, AppendProperties
  <1>6. \A j \in 1..Len(ns) : AbsLinks(ns)[j] = Append(AbsLinks(st), l)[j]
    <2>1. TAKE j \in 1..Len(ns)
    <2>2. CASE j \in 1..Len(st)
      BY <1>1, <1>2, <1>3, <1>5, <2>2, LenProperties
    <2>3. CASE j = Len(st) + 1
      BY <1>1, <1>2, <1>5, <2>3
    <2>4. Len(st) \in Nat
      BY LenProperties
    <2>5. QED
      BY <1>1, <2>2, <2>3, <2>4, AppendCases
  <1>7. QED
    BY <1>1, <1>2, <1>5, <1>6, SeqEqual

\* Popping a frame pops its link.
LEMMA AbsLinksPop ==
    ASSUME NEW st \in Seq(Frame), st /= << >>, IntsTyped
    PROVE  AbsLinks(Pop(st)) = SubSeq(AbsLinks(st), 1, Len(AbsLinks(st)) - 1)
  <1> DEFINE as == AbsLinks(st)
             ps == Pop(st)
  <1>1. Len(st) \in Nat \ {0}
    BY EmptySeq
  <1>2. /\ as \in Seq(LinkRec) /\ Len(as) = Len(st)
        /\ \A j \in 1..Len(st) : as[j] = [k |-> st[j].k, i |-> Link(st[j])]
    BY AbsLinksType
  <1>3. /\ ps \in Seq(Frame) /\ Len(ps) = Len(st) - 1
        /\ \A j \in 1..Len(ps) : ps[j] = st[j]
    <2>1. \A i \in 1..Len(st) - 1 : st[i] \in Frame
      BY <1>1, ElementOfSeq
    <2>2. /\ SubSeq(st, 1, Len(st) - 1) \in Seq(Frame)
          /\ Len(SubSeq(st, 1, Len(st) - 1)) = IF 1 <= Len(st) - 1 THEN Len(st) - 1 ELSE 0
          /\ \A i \in 1..Len(st) - 1 : SubSeq(st, 1, Len(st) - 1)[i] = st[i]
      BY <1>1, <2>1, SubSeqProperties
    <2>3. Len(st) = 1 \/ Len(st) >= 2
      BY <1>1, PositiveCases
    <2>4. ps = SubSeq(st, 1, Len(st) - 1)
      BY DEF Pop
    <2>5. QED
      BY <2>2, <2>3, <2>4
  <1>4. /\ AbsLinks(ps) \in Seq(LinkRec) /\ Len(AbsLinks(ps)) = Len(ps)
        /\ \A j \in 1..Len(ps) : AbsLinks(ps)[j] = [k |-> ps[j].k, i |-> Link(ps[j])]
    BY <1>3, AbsLinksType
  <1>5. /\ SubSeq(as, 1, Len(as) - 1) \in Seq(LinkRec)
        /\ Len(SubSeq(as, 1, Len(as) - 1)) = Len(st) - 1
        /\ \A i \in 1..Len(st) - 1 : SubSeq(as, 1, Len(as) - 1)[i] = as[i]
    <2>1. \A i \in 1..Len(st) - 1 : as[i] \in LinkRec
      BY <1>1, <1>2, ElementOfSeq
    <2>2. /\ SubSeq(as, 1, Len(st) - 1) \in Seq(LinkRec)
          /\ Len(SubSeq(as, 1, Len(st) - 1)) = IF 1 <= Len(st) - 1 THEN Len(st) - 1 ELSE 0
          /\ \A i \in 1..Len(st) - 1 : SubSeq(as, 1, Len(st) - 1)[i] = as[i]
      BY <1>1, <2>1, SubSeqProperties
    <2>3. Len(st) = 1 \/ Len(st) >= 2
      BY <1>1, PositiveCases
    <2>4. QED
      BY <1>2, <2>2, <2>3
  <1>6. Len(AbsLinks(ps)) = Len(SubSeq(as, 1, Len(as) - 1))
    BY <1>3, <1>4, <1>5
  <1>7. \A j \in 1..Len(AbsLinks(ps)) : AbsLinks(ps)[j] = SubSeq(as, 1, Len(as) - 1)[j]
    <2>1. TAKE j \in 1..Len(AbsLinks(ps))
    <2>2. j \in 1..Len(ps) /\ j \in 1..Len(st) - 1 /\ j \in 1..Len(st)
      BY <1>1, <1>3, <1>4
    <2>3. AbsLinks(ps)[j] = [k |-> st[j].k, i |-> Link(st[j])]
      BY <1>3, <1>4, <2>2
    <2>4. QED
      BY <1>2, <1>5, <2>2, <2>3
  <1>8. QED
    BY <1>4, <1>5, <1>6, <1>7, SeqEqual

(***************************************************************************)
(* Facts about the compiled chains, the frames the closures push and the  *)
(* running interceptor's frame, under the invariant.                      *)
(***************************************************************************)

\* The compiled chain of each kind spans its whole list.
LEMMA ChainFacts ==
    ASSUME TypeOK, DoptsInv, NEW k \in Kinds
    PROVE  /\ Ints(k) \in Seq(Interceptors)
           /\ ChainOf(k).n = Len(Ints(k))
           /\ ChainOf(k).present <=> Len(Ints(k)) /= 0
  <1>1. Ints(k) \in Seq(Interceptors)
    BY DEF TypeOK, Options, Ints
  <1>2. ChainOf(k) = Compile(Len(Ints(k)))
    BY DEF DoptsInv, Ints, ChainOf
  <1>3. Compile(Len(Ints(k))).n = Len(Ints(k))
    BY DEF Compile
  <1>4. Compile(Len(Ints(k))).present <=> Len(Ints(k)) /= 0
    BY Zenon DEF Compile
  <1>5. QED
    BY <1>1, <1>2, <1>3, <1>4

LEMMA TypedInts == TypeOK => IntsTyped
  BY DEF TypeOK, Options, IntsTyped, Ints, Kinds

\* Link reads the lists of the ClientConn's options.
LEMMA LinkAbs == \A f \in Frame : Link(f) = LinkIn(f, AbsLists)
  BY DEF Link, LinkIn, AbsLists, Frame, IcptFrame, TermFrame

\* The p-th closure of the chain of kind knd pushes a well-formed frame at
\* link p of that chain.
LEMMA CalleeFacts ==
    ASSUME NEW knd \in Kinds, Ints(knd) \in Seq(Interceptors),
           NEW p \in Nat \ {0}, p <= Len(Ints(knd)) + 1
    PROVE  LET f == Callee(knd, p, Len(Ints(knd)), Ints(knd)) IN
           /\ FrameOK(f, AbsLists)
           /\ f.k = knd
           /\ Link(f) = p
           /\ LinkIn(f, AbsLists) = p
           /\ EntryEvent(f) \in Seq(Event)
  <1> DEFINE ints == Ints(knd)
             f == Callee(knd, p, Len(ints), ints)
  <1>0. AbsLists[knd] = ints
    BY DEF AbsLists
  <1>1. Len(ints) \in Nat
    BY LenProperties
  <1>2. CASE p <= Len(ints)
    <2>1. ints[p] \in Interceptors
      BY <1>2, ElementOfSeq
    <2>2. f = [fn |-> "icpt", k |-> knd, pos |-> p, id |-> ints[p], calls |-> 0,
               got |-> NoResult]
      BY <1>2 DEF Callee
    <2>3. f \in IcptFrame
      BY <2>1, <2>2, ConnConstantsAssumption DEF IcptFrame, NoResult, Results
    <2>4. FrameOK(f, AbsLists)
      BY <1>0, <1>2, <2>2, <2>3 DEF FrameOK, Frame, NoResult
    <2>5. EntryEvent(f) = << [ev |-> "before", id |-> ints[p]] >>
      BY <2>2 DEF EntryEvent
    <2>6. f.k = knd /\ Link(f) = p /\ LinkIn(f, AbsLists) = p
      BY <2>2 DEF Link, LinkIn
    <2>7. [ev |-> "before", id |-> ints[p]] \in Event
      BY <2>1 DEF Event
    <2>8. QED
      BY <2>4, <2>5, <2>6, <2>7
  <1>3. CASE ~(p <= Len(ints))
    <2>1. f = [fn |-> "term", k |-> knd]
      BY <1>3 DEF Callee
    <2>2. p = Len(ints) + 1
      BY <1>1, <1>3
    <2>3. QED
      BY <1>0, <2>1, <2>2 DEF FrameOK, Frame, TermFrame, Link, LinkIn, EntryEvent
  <1>4. QED
    BY <1>2, <1>3

\* Entering the chain of kind k pushes the frame of its first closure.
LEMMA EnterFacts ==
    ASSUME TypeOK, DoptsInv, NEW c \in Calls, NEW k \in Kinds, NEW st,
           Enter(c, k, st)
    PROVE  LET f == Callee(k, 1, Len(Ints(k)), Ints(k)) IN
           /\ stack' = [stack EXCEPT ![c] = Append(st, f)]
           /\ result' = result
           /\ trace' \in [Calls -> Seq(Event)]
  <1> DEFINE ints == Ints(k)
             f == Callee(k, 1, Len(ints), ints)
  <1>1. /\ ints \in Seq(Interceptors)
        /\ ChainOf(k).n = Len(ints)
        /\ ChainOf(k).present <=> Len(ints) /= 0
    BY ChainFacts
  <1>2. EntryEvent(f) \in Seq(Event)
    BY <1>1, CalleeFacts
  <1>3. CASE Len(ints) = 0
    <2>1. f = [fn |-> "term", k |-> k]
      BY <1>3 DEF Callee
    <2>2. QED
      BY <1>1, <1>3, <2>1 DEF Enter, TypeOK
  <1>4. CASE Len(ints) /= 0
    <2>1. stack' = [stack EXCEPT ![c] = Append(st, f)]
          /\ trace' = [trace EXCEPT ![c] = @ \o EntryEvent(f)]
          /\ result' = result
      BY <1>1, <1>4 DEF Enter
    <2>2. trace[c] \o EntryEvent(f) \in Seq(Event)
      BY <1>2 DEF TypeOK
    <2>3. QED
      BY <2>1, <2>2 DEF TypeOK
  <1>5. QED
    BY <1>3, <1>4

\* The running interceptor's frame, once it has made one more call, is at
\* the same link of the same chain.
LEMMA BumpedFacts ==
    ASSUME Inv, NEW c \in Calls, stack[c] /= << >>, Top(c).fn = "icpt",
           Top(c).calls < MaxNext
    PROVE  /\ Bumped(c) \in Seq(Frame)
           /\ Len(Bumped(c)) = Len(stack[c])
           /\ FramesOK(Bumped(c), kind[c], AbsLists)
           /\ Bumped(c)[Len(stack[c])].fn = "icpt"
           /\ Bumped(c)[Len(stack[c])].k = Top(c).k
           /\ Link(Bumped(c)[Len(stack[c])]) = Link(Top(c))
           /\ LinkIn(Bumped(c)[Len(stack[c])], AbsLists) = LinkIn(Top(c), AbsLists)
           /\ AbsLinks(Bumped(c)) = AbsLinks(stack[c])
  <1> DEFINE st  == stack[c]
             top == Top(c)
             g   == [top EXCEPT !.calls = @ + 1]
  <1>1. /\ st \in Seq(Frame)
        /\ FramesOK(st, kind[c], AbsLists)
    BY DEF Inv, TypeOK, StackInv
  <1>2. Len(st) \in Nat \ {0}
    BY <1>1, EmptySeq
  <1>3. top \in IcptFrame /\ FrameOK(top, AbsLists)
    BY <1>1, <1>2 DEF Top, FramesOK, FrameOK, Frame, TermFrame
  <1>4. g \in IcptFrame
    BY <1>3, ConnConstantsAssumption DEF IcptFrame
  <1>5. /\ g.fn = top.fn /\ g.k = top.k /\ g.pos = top.pos /\ g.id = top.id
        /\ g.got = top.got
    BY <1>3 DEF IcptFrame
  <1>6. FrameOK(g, AbsLists) /\ Link(g) = Link(top)
        /\ LinkIn(g, AbsLists) = LinkIn(top, AbsLists)
    BY <1>3, <1>4, <1>5 DEF FrameOK, Frame, Link, LinkIn
  <1>7. Bumped(c) = [st EXCEPT ![Len(st)] = g]
    BY DEF Bumped, Top, st, top, g
  <1>8. /\ Bumped(c) \in Seq(Frame)
        /\ Len(Bumped(c)) = Len(st)
        /\ \A j \in 1..Len(st) : Bumped(c)[j] = IF j = Len(st) THEN g ELSE st[j]
    BY <1>1, <1>2, <1>4, <1>7, ExceptSeq DEF Frame
  <1>9. FramesOK(Bumped(c), kind[c], AbsLists)
    BY <1>1, <1>5, <1>6, <1>8, ReplaceTopFramesOK DEF Top
  <1>10. \A j \in 1..Len(st) : Bumped(c)[j].k = st[j].k /\ Link(Bumped(c)[j]) = Link(st[j])
    BY <1>5, <1>6, <1>8 DEF Top
  <1>11. AbsLinks(Bumped(c)) = AbsLinks(st)
    BY <1>1, <1>8, <1>10, TypedInts, AbsLinksReplace DEF Inv
  <1>12. Bumped(c)[Len(st)] = g
    BY <1>2, <1>8
  <1>13. QED
    BY <1>5, <1>6, <1>8, <1>9, <1>11, <1>12, Zenon DEF st, top

\* A frame returning an outcome leaves a call stack one link shorter, and
\* hands the outcome to the caller exactly when it was the last frame.
LEMMA ReturnFacts ==
    ASSUME Inv, NEW c \in Calls, stack[c] /= << >>, NEW r \in ReturnValues,
           Return(c, r)
    PROVE  \E x :
             /\ stack' = [stack EXCEPT ![c] = x]
             /\ FramesOK(x, kind[c], AbsLists)
             /\ AbsLinks(x) = SubSeq(AbsLinks(stack[c]), 1, Len(AbsLinks(stack[c])) - 1)
             /\ x = << >> <=> Len(stack[c]) = 1
             /\ Len(stack[c]) = 1 => result' = [result EXCEPT ![c] = r]
             /\ Len(stack[c]) /= 1 => result' = result
             /\ x /= << >> => x[Len(x)].fn = "icpt" /\ x[Len(x)].got = r
  <1> DEFINE st   == stack[c]
             rest == Pop(st)
  <1>1. /\ st \in Seq(Frame)
        /\ FramesOK(st, kind[c], AbsLists)
        /\ IntsTyped
    BY TypedInts DEF Inv, TypeOK, StackInv
  <1>2. Len(st) \in Nat \ {0}
    BY <1>1, EmptySeq
  <1>3. /\ FramesOK(rest, kind[c], AbsLists)
        /\ Len(rest) = Len(st) - 1
        /\ \A j \in 1..Len(rest) : rest[j] = st[j]
    BY <1>1, PopFramesOK
  <1>4. AbsLinks(rest) = SubSeq(AbsLinks(st), 1, Len(AbsLinks(st)) - 1)
    BY <1>1, AbsLinksPop
  <1>5. rest \in Seq(Frame)
    BY <1>3 DEF FramesOK
  <1>6. CASE rest = << >>
    <2>1. Len(st) = 1
      BY <1>2, <1>3, <1>6
    <2>2. stack' = [stack EXCEPT ![c] = rest] /\ result' = [result EXCEPT ![c] = r]
      BY <1>6 DEF Return
    <2>3. QED
      BY <1>3, <1>4, <1>6, <2>1, <2>2
  <1>7. CASE rest /= << >>
    <2>0. Len(rest) \in Nat \ {0}
      BY <1>5, <1>7, EmptySeq
    <2>1. Len(rest) \in Nat \ {0} /\ Len(st) /= 1
      BY <1>2, <1>3, <2>0, PredCases
    <2>2. Len(rest) \in 1..Len(st) - 1 /\ Len(rest) \in 1..Len(st)
      BY <1>2, <1>3, <2>0, PredCases
    <2>3. PICK top : top = rest[Len(rest)]
      OBVIOUS
    <2>4. top = st[Len(rest)] /\ top.fn = "icpt" /\ FrameOK(top, AbsLists)
      BY <1>1, <1>3, <2>2, <2>3 DEF FramesOK
    <2>5. top \in IcptFrame
      BY <2>4 DEF FrameOK, Frame, TermFrame
    <2>6. PICK g : g = [top EXCEPT !.got = r]
      OBVIOUS
    <2>7. g \in IcptFrame
          /\ g.fn = top.fn /\ g.k = top.k /\ g.pos = top.pos /\ g.id = top.id
          /\ g.got = r
      BY <2>5, <2>6 DEF IcptFrame, ReturnValues, Results
    <2>8. FrameOK(g, AbsLists) /\ Link(g) = Link(top)
          /\ LinkIn(g, AbsLists) = LinkIn(top, AbsLists)
      BY <2>4, <2>5, <2>7 DEF FrameOK, Frame, Link, LinkIn
    <2>9. PICK x : x = [rest EXCEPT ![Len(rest)] = g]
      OBVIOUS
    <2>10. stack' = [stack EXCEPT ![c] = x] /\ result' = result
      BY <1>7, <2>3, <2>6, <2>9 DEF Return
    <2>11. /\ x \in Seq(Frame)
           /\ Len(x) = Len(rest)
           /\ \A j \in 1..Len(rest) : x[j] = IF j = Len(rest) THEN g ELSE rest[j]
      BY <1>5, <2>0, <2>7, <2>9, ExceptSeq DEF Frame
    <2>12. FramesOK(x, kind[c], AbsLists)
      BY <1>3, <1>7, <2>3, <2>7, <2>8, <2>11, ReplaceTopFramesOK
    <2>13. \A j \in 1..Len(rest) : x[j].k = rest[j].k /\ Link(x[j]) = Link(rest[j])
      BY <2>3, <2>7, <2>8, <2>11
    <2>14. AbsLinks(x) = AbsLinks(rest)
      BY <1>1, <1>5, <2>11, <2>13, AbsLinksReplace
    <2>15. x /= << >>
      BY <2>0, <2>11
    <2>16. x[Len(x)] = g
      BY <2>0, <2>11
    <2>17. QED
      BY <1>4, <2>1, <2>4, <2>7, <2>10, <2>12, <2>14, <2>15, <2>16
  <1>8. QED
    BY <1>6, <1>7

(***************************************************************************)
(* The steps.  Each action keeps the invariant and is a step of ChainSpec *)
(* under the refinement mapping.                                           *)
(***************************************************************************)
AbsActive == [c \in Calls |-> AbsLinks(stack[c])]

\* The empty stack maps to no links.
LEMMA AbsLinksEmpty == AbsLinks(<< >>) = << >>
  BY DEF AbsLinks

\* A step that changes only the stack of c, and not the options, changes
\* only the links of c.
LEMMA ActiveUpdate ==
    ASSUME NEW c \in Calls, NEW x, stack \in [Calls -> Seq(Frame)],
           stack' = [stack EXCEPT ![c] = x], dopts' = dopts
    PROVE  AbsActive' = [AbsActive EXCEPT ![c] = AbsLinks(x)]
  <1>1. \A d \in Calls : stack'[d] = IF d = c THEN x ELSE stack[d]
    OBVIOUS
  <1>2. \A st : AbsLinks(st)' = AbsLinks(st')
    BY DEF AbsLinks, Link, Ints
  <1>3. QED
    BY <1>1, <1>2 DEF AbsActive

LEMMA InitStep == Init => Inv /\ Abstract!Init
  <1> SUFFICES ASSUME Init PROVE Inv /\ Abstract!Init
    OBVIOUS
  <1>1. dopts = NoOptions /\ \A k \in Kinds : Ints(k) = << >>
    BY DEF Init, NoOptions, NewDialOptions, Ints
  <1>2. TypeOK
    BY <1>1, EmptySeq DEF Init, TypeOK, NoOptions, NewDialOptions, Options, Chain
  <1>3. DoptsInv
    BY <1>1 DEF DoptsInv, NoOptions, NewDialOptions, Compile
  <1>4. StackInv
    BY DEF Init, StackInv, FramesOK
  <1>5. AbsLists = [k \in Kinds |-> << >>]
    BY <1>1 DEF AbsLists
  <1>6. AbsActive = [c \in Calls |-> << >>]
    BY AbsLinksEmpty DEF Init, AbsActive
  <1>7. Abstract!Init
    BY <1>5, <1>6 DEF Init, Abstract!Init, AbsLists, AbsActive, Abstract!Kinds, Abstract!NoResult, NoResult, Kinds
  <1>8. QED
    BY <1>2, <1>3, <1>4, <1>7 DEF Inv

LEMMA ConnectStep ==
    ASSUME Inv, NewClientConnWithOptions
    PROVE  Inv' /\ Abstract!Connect
  <1>1. conn = "none" /\ UNCHANGED <<kind, stack, result, trace>>
    BY DEF NewClientConnWithOptions
  <1>2. \A c \in Calls : stack[c] = << >> /\ stack'[c] = << >>
    BY <1>1 DEF Inv, StackInv
  <1>3. AbsActive' = AbsActive
    BY <1>1, <1>2, AbsLinksEmpty DEF AbsActive, AbsLinks
  <1>4. StackInv'
    BY <1>1, <1>2 DEF Inv, StackInv, FramesOK
  <1>5. CASE conn' = "failed" /\ UNCHANGED dopts
    <2>1. Inv'
      BY <1>1, <1>4, <1>5 DEF Inv, TypeOK, DoptsInv
    <2>2. AbsLists' = AbsLists
      BY <1>5 DEF AbsLists, Ints
    <2>3. QED
      BY <1>1, <1>3, <1>5, <2>1, <2>2 DEF Abstract!Connect, AbsLists, AbsActive
  <1>6. CASE conn' = "ready" /\ \E u, s \in IntLists : dopts' = InitInterceptors(NewDialOptions(u, s))
    <2>1. PICK u, s \in IntLists : dopts' = InitInterceptors(NewDialOptions(u, s))
      BY <1>6
    <2>2. u \in Seq(Interceptors) /\ s \in Seq(Interceptors)
      BY DEF IntLists
    <2>3. dopts' = [unaryInts |-> u, streamInts |-> s,
                    UnaryInt |-> Compile(Len(u)), StreamInt |-> Compile(Len(s))]
      BY <2>1 DEF InitInterceptors, NewDialOptions, ChainUnaryClientInterceptors,
                  ChainStreamClientInterceptors
    <2>4. Compile(Len(u)) \in Chain /\ Compile(Len(s)) \in Chain
      BY <2>2, LenProperties DEF Compile, Chain
    <2>5. TypeOK'
      BY <1>1, <1>6, <2>2, <2>3, <2>4 DEF Inv, TypeOK, Options
    <2>6. DoptsInv'
      BY <2>3 DEF DoptsInv
    <2>7. AbsLists' \in [Kinds -> Seq(Interceptors)]
      BY <2>2, <2>3 DEF AbsLists, Ints, Kinds
    <2>8. Inv'
      BY <1>4, <2>5, <2>6 DEF Inv
    <2>9. Abstract!Connect
      <3>1. conn = "none" /\ conn' = "ready" /\ result' = result
        BY <1>1, <1>6
      <3>2. QED
        BY <1>3, <2>7, <3>1 DEF Abstract!Connect, AbsLists, AbsActive, Abstract!Kinds, Kinds
    <2>10. QED
      BY <2>8, <2>9
  <1>7. QED
    BY <1>5, <1>6 DEF NewClientConnWithOptions

LEMMA StutterStep ==
    ASSUME Inv, UNCHANGED vars
    PROVE  Inv' /\ UNCHANGED Abstract!vars
  <1>1. Inv'
    BY DEF Inv, TypeOK, DoptsInv, StackInv, AbsLists, Ints, vars
  <1>2. AbsLists' = AbsLists /\ AbsActive' = AbsActive
    BY DEF AbsLists, AbsActive, AbsLinks, Link, Ints, vars
  <1>3. QED
    BY <1>1, <1>2 DEF Abstract!vars, AbsLists, AbsActive, vars

\* The lists are those of the options, which only the dial sets.
LEMMA AbsListsUnchanged == dopts' = dopts => AbsLists' = AbsLists
  BY DEF AbsLists, Ints

LEMMA CallStep ==
    ASSUME Inv, NEW c \in Calls, NEW k \in Kinds, Call(c, k)
    PROVE  Inv' /\ Abstract!Issue(c, k)
  <1>1. /\ conn = "ready" /\ kind[c] = "none" /\ kind' = [kind EXCEPT ![c] = k]
        /\ conn' = conn /\ dopts' = dopts /\ Enter(c, k, << >>)
    BY DEF Call
  <1>2. stack[c] = << >> /\ result[c] = NoResult
    BY <1>1 DEF Inv, StackInv
  <1>3. PICK f : f = Callee(k, 1, Len(Ints(k)), Ints(k))
    OBVIOUS
  <1>4. /\ stack' = [stack EXCEPT ![c] = Append(<< >>, f)]
        /\ result' = result
        /\ trace' \in [Calls -> Seq(Event)]
    BY <1>1, <1>3, EnterFacts DEF Inv
  <1>5. Ints(k) \in Seq(Interceptors) /\ Len(Ints(k)) \in Nat
    BY ChainFacts, LenProperties DEF Inv
  <1>6. FrameOK(f, AbsLists) /\ f.k = k /\ Link(f) = 1 /\ LinkIn(f, AbsLists) = 1
    BY <1>3, <1>5, CalleeFacts
  <1>7. Append(<< >>, f) = << f >> /\ << f >> \in Seq(Frame)
    BY <1>6 DEF FrameOK
  <1>8. FramesOK(<< f >>, k, AbsLists)
    BY <1>6, SingletonFramesOK
  <1>9. AbsLists' = AbsLists
    BY <1>1, AbsListsUnchanged
  <1>10. TypeOK'
    BY <1>1, <1>4, <1>7 DEF Inv, TypeOK, Kinds
  <1>11. StackInv'
    BY <1>1, <1>2, <1>4, <1>7, <1>8, <1>9 DEF Inv, StackInv, TypeOK, Kinds
  <1>12. AbsActive' = [AbsActive EXCEPT ![c] = << [k |-> k, i |-> 1] >>]
    <2>1. AbsActive' = [AbsActive EXCEPT ![c] = AbsLinks(<< f >>)]
      BY <1>1, <1>4, <1>7, ActiveUpdate DEF Inv, TypeOK
    <2>2. AbsLinks(<< f >>) = << [k |-> k, i |-> 1] >>
      <3>1. AbsLinks(Append(<< >>, f)) = Append(AbsLinks(<< >>), [k |-> f.k, i |-> Link(f)])
        BY <1>6, EmptySeq, TypedInts, AbsLinksAppend DEF Inv, FrameOK
      <3>2. QED
        BY <1>6, <1>7, <3>1, AbsLinksEmpty
    <2>3. QED
      BY <2>1, <2>2
  <1>13. Abstract!Issue(c, k)
    BY <1>1, <1>2, <1>4, <1>9, <1>12, AbsLinksEmpty
       DEF Abstract!Issue, AbsActive, AbsLists, NoResult, Abstract!NoResult
  <1>14. QED
    BY <1>1, <1>10, <1>11, <1>13 DEF Inv, DoptsInv

\* The innermost link of a running call is the link of its top frame.
LEMMA AbsTop ==
    ASSUME NEW st \in Seq(Frame), st /= << >>, IntsTyped
    PROVE  /\ AbsLinks(st) /= << >>
           /\ Len(AbsLinks(st)) = Len(st)
           /\ AbsLinks(st)[Len(AbsLinks(st))] = [k |-> st[Len(st)].k, i |-> Link(st[Len(st)])]
           /\ Len(AbsLinks(st)) = 1 <=> Len(st) = 1
  <1>1. Len(st) \in Nat \ {0}
    BY EmptySeq
  <1>2. /\ AbsLinks(st) \in Seq(LinkRec) /\ Len(AbsLinks(st)) = Len(st)
        /\ \A j \in 1..Len(st) : AbsLinks(st)[j] = [k |-> st[j].k, i |-> Link(st[j])]
    BY AbsLinksType
  <1>3. AbsLinks(st) /= << >>
    BY <1>1, <1>2
  <1>4. QED
    BY <1>1, <1>2, <1>3

\* The running interceptor's frame under the invariant.
LEMMA TopFacts ==
    ASSUME Inv, NEW c \in Calls, stack[c] /= << >>, Top(c).fn = "icpt"
    PROVE  /\ Top(c) \in IcptFrame
           /\ Top(c).k \in Kinds
           /\ Top(c).pos <= Len(Ints(Top(c).k))
           /\ Link(Top(c)) = Top(c).pos
           /\ LinkIn(Top(c), AbsLists) = Top(c).pos
           /\ conn = "ready" /\ kind[c] /= "none"
  <1>1. /\ stack[c] \in Seq(Frame)
        /\ FramesOK(stack[c], kind[c], AbsLists)
    BY DEF Inv, TypeOK, StackInv
  <1>2. Len(stack[c]) \in 1..Len(stack[c])
    BY <1>1, EmptySeq
  <1>3. FrameOK(Top(c), AbsLists)
    BY <1>1, <1>2 DEF FramesOK, Top
  <1>4. Top(c) \in IcptFrame
    BY <1>3 DEF FrameOK, Frame, TermFrame
  <1>5. AbsLists[Top(c).k] = Ints(Top(c).k)
    BY <1>4 DEF AbsLists, IcptFrame
  <1>6. conn = "ready" /\ kind[c] /= "none"
    BY DEF Inv, StackInv
  <1>7. QED
    BY <1>3, <1>4, <1>5, <1>6 DEF FrameOK, IcptFrame, Link, LinkIn

LEMMA CallNextStep ==
    ASSUME Inv, NEW c \in Calls, CallNext(c)
    PROVE  Inv' /\ Abstract!Proceed(c)
  <1>1. /\ stack[c] /= << >> /\ Top(c).fn = "icpt" /\ Top(c).calls < MaxNext
        /\ UNCHANGED <<conn, dopts, kind, result>>
    BY DEF CallNext
  <1>2. PICK top : top = Top(c)
    OBVIOUS
  <1>3. /\ top \in IcptFrame /\ top.k \in Kinds /\ top.pos <= Len(Ints(top.k))
        /\ Link(top) = top.pos /\ LinkIn(top, AbsLists) = top.pos
        /\ conn = "ready" /\ kind[c] /= "none"
    BY <1>1, <1>2, TopFacts
  <1>4. Ints(top.k) \in Seq(Interceptors) /\ ChainOf(top.k).n = Len(Ints(top.k))
    BY <1>3, ChainFacts DEF Inv
  <1>5. PICK f : f = Callee(top.k, top.pos + 1, Len(Ints(top.k)), Ints(top.k))
    OBVIOUS
  <1>6. /\ FrameOK(f, AbsLists) /\ f.k = top.k /\ Link(f) = top.pos + 1
        /\ LinkIn(f, AbsLists) = top.pos + 1 /\ EntryEvent(f) \in Seq(Event)
    <2>1. top.pos + 1 \in Nat \ {0} /\ top.pos + 1 <= Len(Ints(top.k)) + 1
      BY <1>3 DEF IcptFrame
    <2>2. QED
      BY <1>3, <1>4, <1>5, <2>1, CalleeFacts
  <1>7. /\ stack' = [stack EXCEPT ![c] = Append(Bumped(c), f)]
        /\ trace' = [trace EXCEPT ![c] = @ \o EntryEvent(f)]
    BY <1>2, <1>4, <1>5 DEF CallNext
  <1>8. /\ Bumped(c) \in Seq(Frame)
        /\ Len(Bumped(c)) = Len(stack[c])
        /\ FramesOK(Bumped(c), kind[c], AbsLists)
        /\ Bumped(c)[Len(stack[c])].fn = "icpt"
        /\ Bumped(c)[Len(stack[c])].k = top.k
        /\ LinkIn(Bumped(c)[Len(stack[c])], AbsLists) = top.pos
        /\ AbsLinks(Bumped(c)) = AbsLinks(stack[c])
    BY <1>1, <1>2, <1>3, BumpedFacts
  <1>9. Bumped(c) /= << >>
    BY <1>1, <1>8 DEF Inv, TypeOK
  <1>10. FramesOK(Append(Bumped(c), f), kind[c], AbsLists)
    <2>0. Bumped(c)[Len(Bumped(c))].k = top.k
          /\ LinkIn(Bumped(c)[Len(Bumped(c))], AbsLists) = top.pos
      BY <1>8
    <2>1. Linked(Bumped(c)[Len(Bumped(c))], f, AbsLists)
      BY <1>3, <1>6, <2>0 DEF Linked, IcptFrame
    <2>2. QED
      BY <1>6, <1>8, <1>9, <2>1, PushFramesOK
  <1>11. Append(Bumped(c), f) \in Seq(Frame)
    BY <1>10 DEF FramesOK
  <1>12. TypeOK'
    <2>1. trace[c] \o EntryEvent(f) \in Seq(Event)
      BY <1>6 DEF Inv, TypeOK
    <2>2. QED
      BY <1>1, <1>7, <1>11, <2>1 DEF Inv, TypeOK
  <1>13. StackInv'
    BY <1>1, <1>3, <1>7, <1>10, AbsListsUnchanged DEF Inv, StackInv, TypeOK
  <1>14. Abstract!Proceed(c)
    <2>1. IntsTyped
      BY TypedInts DEF Inv
    <2>2. /\ AbsLinks(stack[c]) /= << >>
          /\ AbsLinks(stack[c])[Len(AbsLinks(stack[c]))] = [k |-> top.k, i |-> top.pos]
      BY <1>1, <1>2, <1>3, <2>1, AbsTop DEF Inv, TypeOK, Top
    <2>3. AbsLists[top.k] = Ints(top.k)
      BY <1>3 DEF AbsLists
    <2>4. AbsLinks(Append(Bumped(c), f))
            = Append(AbsLinks(stack[c]), [k |-> top.k, i |-> top.pos + 1])
      BY <1>6, <1>8, <2>1, AbsLinksAppend DEF FrameOK
    <2>5. AbsActive' = [AbsActive EXCEPT ![c] = AbsLinks(Append(Bumped(c), f))]
      BY <1>1, <1>7, ActiveUpdate DEF Inv, TypeOK
    <2>6. AbsLists' = AbsLists
      BY <1>1, AbsListsUnchanged
    <2>7. AbsActive[c] /= << >>
          /\ AbsActive[c][Len(AbsActive[c])].i <= Len(AbsLists[AbsActive[c][Len(AbsActive[c])].k])
      BY <1>3, <2>2, <2>3 DEF AbsActive
    <2>8. AbsActive' = [AbsActive EXCEPT ![c] =
              Append(@, [k |-> AbsActive[c][Len(AbsActive[c])].k,
                         i |-> AbsActive[c][Len(AbsActive[c])].i + 1])]
      <3>1. AbsActive[c] = AbsLinks(stack[c])
        BY DEF AbsActive
      <3>2. [k |-> AbsActive[c][Len(AbsActive[c])].k,
             i |-> AbsActive[c][Len(AbsActive[c])].i + 1] = [k |-> top.k, i |-> top.pos + 1]
        BY <2>2, <3>1
      <3>3. QED
        BY <2>4, <2>5, <3>1, <3>2
    <2>9. QED
      BY <1>1, <2>6, <2>7, <2>8
         DEF Abstract!Proceed, Abstract!Top, Abstract!IsInterceptor, AbsActive, AbsLists
  <1>15. QED
    BY <1>1, <1>12, <1>13, <1>14 DEF Inv, DoptsInv

LEMMA NestedCallStep ==
    ASSUME Inv, NEW c \in Calls, NEW k \in Kinds, NestedCall(c, k)
    PROVE  Inv' /\ Abstract!Nest(c, k)
  <1>1. /\ stack[c] /= << >> /\ Top(c).fn = "icpt" /\ Top(c).calls < MaxNext
        /\ Enter(c, k, Bumped(c)) /\ UNCHANGED <<conn, dopts, kind>>
    BY DEF NestedCall
  <1>2. PICK top : top = Top(c)
    OBVIOUS
  <1>3. /\ top \in IcptFrame /\ top.k \in Kinds /\ top.pos <= Len(Ints(top.k))
        /\ Link(top) = top.pos /\ conn = "ready" /\ kind[c] /= "none"
    BY <1>1, <1>2, TopFacts
  <1>4. PICK f : f = Callee(k, 1, Len(Ints(k)), Ints(k))
    OBVIOUS
  <1>5. /\ stack' = [stack EXCEPT ![c] = Append(Bumped(c), f)]
        /\ result' = result
        /\ trace' \in [Calls -> Seq(Event)]
    BY <1>1, <1>4, EnterFacts DEF Inv
  <1>6. FrameOK(f, AbsLists) /\ f.k = k /\ Link(f) = 1 /\ LinkIn(f, AbsLists) = 1
    <2>1. Ints(k) \in Seq(Interceptors) /\ Len(Ints(k)) \in Nat
      BY ChainFacts, LenProperties DEF Inv
    <2>2. QED
      BY <1>4, <2>1, CalleeFacts
  <1>7. /\ Bumped(c) \in Seq(Frame)
        /\ Len(Bumped(c)) = Len(stack[c])
        /\ FramesOK(Bumped(c), kind[c], AbsLists)
        /\ Bumped(c)[Len(stack[c])].fn = "icpt"
        /\ AbsLinks(Bumped(c)) = AbsLinks(stack[c])
    BY <1>1, BumpedFacts
  <1>8. Bumped(c) /= << >>
    BY <1>1, <1>7 DEF Inv, TypeOK
  <1>9. FramesOK(Append(Bumped(c), f), kind[c], AbsLists)
    <2>1. Linked(Bumped(c)[Len(Bumped(c))], f, AbsLists)
      BY <1>6 DEF Linked
    <2>2. Bumped(c)[Len(Bumped(c))].fn = "icpt"
      BY <1>7
    <2>3. QED
      BY <1>6, <1>7, <1>8, <2>1, <2>2, PushFramesOK
  <1>10. TypeOK'
    <2>1. Append(Bumped(c), f) \in Seq(Frame)
      BY <1>9 DEF FramesOK
    <2>2. QED
      BY <1>1, <1>5, <2>1 DEF Inv, TypeOK
  <1>11. StackInv'
    BY <1>1, <1>3, <1>5, <1>9, AbsListsUnchanged DEF Inv, StackInv, TypeOK
  <1>12. Abstract!Nest(c, k)
    <2>1. IntsTyped
      BY TypedInts DEF Inv
    <2>2. /\ AbsLinks(stack[c]) /= << >>
          /\ AbsLinks(stack[c])[Len(AbsLinks(stack[c]))] = [k |-> top.k, i |-> top.pos]
      BY <1>1, <1>2, <1>3, <2>1, AbsTop DEF Inv, TypeOK, Top
    <2>3. AbsLists[top.k] = Ints(top.k)
      BY <1>3 DEF AbsLists
    <2>4. AbsLinks(Append(Bumped(c), f)) = Append(AbsLinks(stack[c]), [k |-> k, i |-> 1])
      BY <1>6, <1>7, <2>1, AbsLinksAppend DEF FrameOK
    <2>5. AbsActive' = [AbsActive EXCEPT ![c] = AbsLinks(Append(Bumped(c), f))]
      BY <1>1, <1>5, ActiveUpdate DEF Inv, TypeOK
    <2>6. AbsLists' = AbsLists
      BY <1>1, AbsListsUnchanged
    <2>7. AbsActive[c] = AbsLinks(stack[c])
      BY DEF AbsActive
    <2>8. AbsActive[c] /= << >>
          /\ AbsActive[c][Len(AbsActive[c])].i <= Len(AbsLists[AbsActive[c][Len(AbsActive[c])].k])
      BY <1>3, <2>2, <2>3, <2>7
    <2>9. AbsActive' = [AbsActive EXCEPT ![c] = Append(@, [k |-> k, i |-> 1])]
      BY <2>4, <2>5, <2>7
    <2>10. QED
      BY <1>1, <1>5, <2>6, <2>8, <2>9
         DEF Abstract!Nest, Abstract!Top, Abstract!IsInterceptor, AbsActive, AbsLists
  <1>13. QED
    BY <1>1, <1>10, <1>11, <1>12 DEF Inv, DoptsInv

\* A frame returning an outcome is a Finish step of ChainSpec.
LEMMA ReturnStep ==
    ASSUME Inv, NEW c \in Calls, stack[c] /= << >>, NEW r \in ReturnValues,
           Return(c, r), UNCHANGED <<conn, dopts, kind>>,
           trace' \in [Calls -> Seq(Event)]
    PROVE  Inv' /\ Abstract!Finish(c)
  <1>1. PICK x : /\ stack' = [stack EXCEPT ![c] = x]
                 /\ FramesOK(x, kind[c], AbsLists)
                 /\ AbsLinks(x) = SubSeq(AbsLinks(stack[c]), 1, Len(AbsLinks(stack[c])) - 1)
                 /\ x = << >> <=> Len(stack[c]) = 1
                 /\ Len(stack[c]) = 1 => result' = [result EXCEPT ![c] = r]
                 /\ Len(stack[c]) /= 1 => result' = result
    BY ReturnFacts
  <1>2. x \in Seq(Frame)
    BY <1>1 DEF FramesOK
  <1>3. conn = "ready" /\ kind[c] /= "none"
    BY DEF Inv, StackInv
  <1>4. r \in Results
    BY DEF ReturnValues, Results
  <1>5. TypeOK'
    BY <1>1, <1>2, <1>4 DEF Inv, TypeOK
  <1>6. StackInv'
    <2>1. AbsLists' = AbsLists
      BY AbsListsUnchanged
    <2>2. \A d \in Calls \ {c} : stack'[d] = stack[d] /\ result'[d] = result[d]
      BY <1>1 DEF Inv, TypeOK
    <2>3. QED
      BY <1>1, <1>3, <2>1, <2>2 DEF Inv, StackInv, TypeOK
  <1>7. Abstract!Finish(c)
    <2>1. IntsTyped
      BY TypedInts DEF Inv
    <2>2. /\ AbsLinks(stack[c]) /= << >>
          /\ Len(AbsLinks(stack[c])) = 1 <=> Len(stack[c]) = 1
      BY <2>1, AbsTop DEF Inv, TypeOK
    <2>3. AbsActive[c] = AbsLinks(stack[c])
      BY DEF AbsActive
    <2>4. AbsActive' = [AbsActive EXCEPT ![c] = SubSeq(@, 1, Len(@) - 1)]
      <3>1. AbsActive' = [AbsActive EXCEPT ![c] = AbsLinks(x)]
        BY <1>1, ActiveUpdate DEF Inv, TypeOK
      <3>2. QED
        BY <1>1, <2>3, <3>1
    <2>5. AbsLists' = AbsLists
      BY AbsListsUnchanged
    <2>6. IF Len(AbsActive[c]) = 1
          THEN \E o \in Abstract!Outcomes : result' = [result EXCEPT ![c] = o]
          ELSE result' = result
      <3>1. CASE Len(stack[c]) = 1
        BY <1>1, <2>2, <2>3, <3>1 DEF Abstract!Outcomes, ReturnValues
      <3>2. CASE Len(stack[c]) /= 1
        BY <1>1, <2>2, <2>3, <3>2
      <3>3. QED
        BY <3>1, <3>2
    <2>7. QED
      BY <2>2, <2>3, <2>4, <2>5, <2>6 DEF Abstract!Finish, AbsActive, AbsLists
  <1>8. QED
    BY <1>5, <1>6, <1>7 DEF Inv, DoptsInv

LEMMA InterceptorReturnStep ==
    ASSUME Inv, NEW c \in Calls, InterceptorReturn(c)
    PROVE  Inv' /\ Abstract!Finish(c)
  <1>1. stack[c] /= << >> /\ Top(c).fn = "icpt" /\ UNCHANGED <<conn, dopts, kind>>
    BY DEF InterceptorReturn
  <1>2. PICK top : top = Top(c)
    OBVIOUS
  <1>3. top \in IcptFrame /\ FrameOK(top, AbsLists)
    <2>1. /\ stack[c] \in Seq(Frame)
          /\ FramesOK(stack[c], kind[c], AbsLists)
      BY DEF Inv, TypeOK, StackInv
    <2>2. Len(stack[c]) \in 1..Len(stack[c])
      BY <1>1, <2>1, EmptySeq
    <2>3. FrameOK(top, AbsLists)
      BY <1>2, <2>1, <2>2 DEF FramesOK, Top
    <2>4. QED
      BY <1>1, <1>2, <2>3 DEF FrameOK, Frame, TermFrame
  <1>4. PICK r \in ({top.got} \ {NoResult}) \cup {"ok", "errI"} :
          /\ Return(c, r)
          /\ trace' = [trace EXCEPT ![c] = Append(@,
                 [ev |-> "after", id |-> top.id, got |-> top.got, ret |-> r])]
    BY <1>2 DEF InterceptorReturn
  <1>5. r \in ReturnValues
    <2>1. top.got \in ReturnValues \cup {NoResult}
      BY <1>1, <1>2, <1>3 DEF FrameOK
    <2>2. QED
      BY <1>4, <2>1 DEF ReturnValues
  <1>6. [ev |-> "after", id |-> top.id, got |-> top.got, ret |-> r] \in Event
    BY <1>3, <1>5 DEF IcptFrame, Event, ReturnValues, Results
  <1>7. trace' \in [Calls -> Seq(Event)]
    BY <1>4, <1>6 DEF Inv, TypeOK
  <1>8. QED
    BY <1>1, <1>4, <1>5, <1>7, ReturnStep

LEMMA TerminalReturnStep ==
    ASSUME Inv, NEW c \in Calls, TerminalReturn(c)
    PROVE  Inv' /\ Abstract!Finish(c)
  <1>1. stack[c] /= << >> /\ UNCHANGED <<conn, dopts, kind>>
    BY DEF TerminalReturn
  <1>2. PICK r \in {"ok", "errT"} :
          /\ Return(c, r)
          /\ trace' = [trace EXCEPT ![c] = Append(@, [ev |-> "term", ret |-> r])]
    BY DEF TerminalReturn
  <1>3. r \in ReturnValues
    BY DEF ReturnValues
  <1>4. trace' \in [Calls -> Seq(Event)]
    BY <1>2 DEF Inv, TypeOK, Event, Results
  <1>5. QED
    BY <1>1, <1>2, <1>3, <1>4, ReturnStep

\* Every step of the ClientConn keeps the invariant and is a step of
\* ChainSpec or leaves its variables alone.
LEMMA NextStep ==
    ASSUME Inv, [Next]_vars
    PROVE  Inv' /\ [Abstract!Next]_Abstract!vars
  <1>1. CASE NewClientConnWithOptions
    BY <1>1, ConnectStep DEF Abstract!Next
  <1>2. ASSUME NEW c \in Calls, NEW k \in Kinds, Call(c, k)
        PROVE  Inv' /\ [Abstract!Next]_Abstract!vars
    BY <1>2, CallStep DEF Abstract!Next, Abstract!Kinds, Kinds
  <1>3. ASSUME NEW c \in Calls, CallNext(c)
        PROVE  Inv' /\ [Abstract!Next]_Abstract!vars
    BY <1>3, CallNextStep DEF Abstract!Next
  <1>4. ASSUME NEW c \in Calls, NEW k \in Kinds, NestedCall(c, k)
        PROVE  Inv' /\ [Abstract!Next]_Abstract!vars
    BY <1>4, NestedCallStep DEF Abstract!Next, Abstract!Kinds, Kinds
  <1>5. ASSUME NEW c \in Calls, InterceptorReturn(c)
        PROVE  Inv' /\ [Abstract!Next]_Abstract!vars
    BY <1>5, InterceptorReturnStep DEF Abstract!Next
  <1>6. ASSUME NEW c \in Calls, TerminalReturn(c)
        PROVE  Inv' /\ [Abstract!Next]_Abstract!vars
    BY <1>6, TerminalReturnStep DEF Abstract!Next
  <1>7. CASE UNCHANGED vars
    BY <1>7, StutterStep
  <1>8. QED
    BY <1>1, <1>2, <1>3, <1>4, <1>5, <1>6, <1>7 DEF Next, Invoke, NewStream, Kinds

\* The invariant gives ChainOrder: FramesOK over the options' lists is
\* ChainOrder stated with LinkIn for Link.
LEMMA InvChainOrder == Inv => ChainOrder
  <1> SUFFICES ASSUME Inv, NEW c \in Calls, NEW j \in 1..Len(stack[c])
               PROVE  LET f == stack[c][j] IN
                      /\ f.fn = "icpt" => f.pos <= Len(Ints(f.k)) /\ f.id = Ints(f.k)[f.pos]
                      /\ f.fn = "term" => j = Len(stack[c])
                      /\ j = 1 => Link(f) = 1 /\ f.k = kind[c]
                      /\ j > 1 => \/ Link(f) = 1
                                 \/ /\ stack[c][j - 1].k = f.k
                                    /\ Link(stack[c][j - 1]) = Link(f) - 1
    BY DEF ChainOrder
  <1>1. /\ stack[c] \in Seq(Frame)
        /\ FramesOK(stack[c], kind[c], AbsLists)
    BY DEF Inv, TypeOK, StackInv
  <1>2. PICK f : f = stack[c][j]
    OBVIOUS
  <1>3. f \in Frame /\ FrameOK(f, AbsLists) /\ Link(f) = LinkIn(f, AbsLists)
    BY <1>1, <1>2, LinkAbs DEF FramesOK
  <1>4. f.k \in Kinds /\ AbsLists[f.k] = Ints(f.k)
    BY <1>3 DEF Frame, IcptFrame, TermFrame, AbsLists
  <1>5. f.fn = "icpt" => f.pos <= Len(Ints(f.k)) /\ f.id = Ints(f.k)[f.pos]
    BY <1>3, <1>4 DEF FrameOK
  <1>6. f.fn = "term" => j = Len(stack[c])
    <2>1. j \in 1..Len(stack[c]) - 1 => f.fn = "icpt"
      BY <1>1, <1>2 DEF FramesOK
    <2>2. QED
      BY <2>1, <1>1 DEF Frame, IcptFrame, TermFrame
  <1>7. j = 1 => Link(f) = 1 /\ f.k = kind[c]
    BY <1>1, <1>2, <1>3 DEF FramesOK
  <1>8. j > 1 => \/ Link(f) = 1
                \/ /\ stack[c][j - 1].k = f.k
                   /\ Link(stack[c][j - 1]) = Link(f) - 1
    <2>1. HAVE j > 1
    <2>2. j - 1 \in 1..Len(stack[c]) /\ j \in 2..Len(stack[c])
      BY <2>1
    <2>3. Link(stack[c][j - 1]) = LinkIn(stack[c][j - 1], AbsLists)
      BY <1>1, <2>2, LinkAbs
    <2>4. Linked(stack[c][j - 1], f, AbsLists)
      BY <1>1, <1>2, <2>2 DEF FramesOK
    <2>5. QED
      BY <1>3, <2>3, <2>4 DEF Linked
  <1>9. QED
    BY <1>2, <1>5, <1>6, <1>7, <1>8

(***************************************************************************)
(* Theorems.                                                               *)
(***************************************************************************)

\* The inductive invariant holds in every reachable state of the ClientConn.
THEOREM ConnInvariant == Spec => []Inv
  BY InitStep, NextStep, PTL DEF Spec

\* Every reachable state of the ClientConn is well typed: the stacks hold
\* frames of the configured lists, no retry counter passes MaxNext and the
\* results are outcomes of the model ("panic" among them; that no call
\* panics is ConnNoPanic).
THEOREM ConnTypeCorrect == Spec => []TypeOK
  BY ConnInvariant, PTL DEF Inv

\* ChainOrder (the chain of every call, nested calls included, runs its
\* interceptors first-added outermost and reaches the Conn beneath all of
\* them) holds for every number of callers, interceptors and retries.
THEOREM ConnChainOrderHolds == Spec => []ChainOrder
  BY ConnInvariant, InvChainOrder, PTL

\* The ClientConn implements the safety part of ChainSpec under the mapping
\* of DrcpClientConn: every call enters link 1, moves one link on or starts
\* a nested chain at link 1, and unwinds innermost first.
THEOREM RefinesChainSpec == Spec => Abstract!SafeSpec
  <1>1. Spec => [][Abstract!Next]_Abstract!vars
    BY InitStep, NextStep, PTL DEF Spec
  <1>2. Spec => Abstract!Init
    BY InitStep DEF Spec
  <1>3. QED
    BY <1>1, <1>2 DEF Abstract!SafeSpec

=============================================================================
