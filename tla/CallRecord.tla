----------------------------- MODULE CallRecord -----------------------------
(***************************************************************************)
(* The record the test interceptors keep of a call (part_000, part_001:   *)
(* "before" when an interceptor starts, "after" with what its next        *)
(* returned and what it returns, and the underlying Conn's return), read  *)
(* as a sequence s of events, with the facts the proofs of ResultFidelity *)
(* use about appending to it.                                             *)
(***************************************************************************)
EXTENDS Naturals, Sequences, SequenceTheorems

\* The indices of the terminal events of s.
TermIdx(s) == {i \in 1..Len(s) : s[i].ev = "term"}

\* s has a last terminal event.
HasLast(s) == \E i \in TermIdx(s) : \A j \in TermIdx(s) : j <= i

\* What the last terminal event of s returned.
LastTerm(s) ==
    s[CHOOSE i \in TermIdx(s) : \A j \in TermIdx(s) : j <= i].ret

\* Every interceptor of s returned what its last next returned.
Clean(s) == \A i \in 1..Len(s) : s[i].ev = "after" => s[i].ret = s[i].got

\* Appending an event other than a terminal one keeps the terminal events,
\* hence the last terminal result.
LEMMA AppendOther ==
    ASSUME NEW E, NEW s \in Seq(E), NEW e \in E, e.ev /= "term"
    PROVE  /\ TermIdx(Append(s, e)) = TermIdx(s)
           /\ HasLast(Append(s, e)) <=> HasLast(s)
           /\ HasLast(s) => LastTerm(Append(s, e)) = LastTerm(s)
           /\ Clean(Append(s, e)) <=> Clean(s) /\ (e.ev = "after" => e.ret = e.got)
  <1>1. /\ Len(Append(s, e)) = Len(s) + 1
        /\ \A i \in 1..Len(s) : Append(s, e)[i] = s[i]
        /\ Append(s, e)[Len(s) + 1] = e
    BY AppendProperties
  <1>2. TermIdx(Append(s, e)) = TermIdx(s)
    BY <1>1 DEF TermIdx
  <1>3. HasLast(Append(s, e)) <=> HasLast(s)
    BY <1>2 DEF HasLast
  <1>4. HasLast(s) => LastTerm(Append(s, e)) = LastTerm(s)
    <2>1. HAVE HasLast(s)
    <2>2. PICK i \in TermIdx(s) : /\ \A j \in TermIdx(s) : j <= i
                                 /\ i = CHOOSE m \in TermIdx(s) : \A j \in TermIdx(s) : j <= m
      BY <2>1 DEF HasLast
    <2>3. i \in 1..Len(s)
      BY DEF TermIdx
    <2>4. QED
      BY <1>1, <1>2, <2>2, <2>3 DEF LastTerm
  <1>5. Clean(Append(s, e)) <=> Clean(s) /\ (e.ev = "after" => e.ret = e.got)
    BY <1>1 DEF Clean
  <1>6. QED
    BY <1>2, <1>3, <1>4, <1>5

\* After a terminal event, it is the last one.
LEMMA AppendTerm ==
    ASSUME NEW E, NEW s \in Seq(E), NEW e \in E, e.ev = "term"
    PROVE  /\ HasLast(Append(s, e))
           /\ LastTerm(Append(s, e)) = e.ret
           /\ Clean(Append(s, e)) <=> Clean(s)
  <1>1. /\ Len(Append(s, e)) = Len(s) + 1
        /\ \A i \in 1..Len(s) : Append(s, e)[i] = s[i]
        /\ Append(s, e)[Len(s) + 1] = e
    BY AppendProperties
  <1>2. /\ Len(s) + 1 \in TermIdx(Append(s, e))
        /\ \A j \in TermIdx(Append(s, e)) : j <= Len(s) + 1
    BY <1>1 DEF TermIdx
  <1>3. \A m \in TermIdx(Append(s, e)) :
            (\A j \in TermIdx(Append(s, e)) : j <= m) => m = Len(s) + 1
    BY <1>1, <1>2 DEF TermIdx
  <1>4. HasLast(Append(s, e))
    BY <1>2 DEF HasLast
  <1>5. LastTerm(Append(s, e)) = e.ret
    BY <1>1, <1>2, <1>3 DEF LastTerm
  <1>6. Clean(Append(s, e)) <=> Clean(s)
    BY <1>1 DEF Clean
  <1>7. QED
    BY <1>4, <1>5, <1>6

=============================================================================
