--------------------------- MODULE SequenceLemmas ---------------------------
(***************************************************************************)
(* Sequences without repetition, as the queues of the system are: what     *)
(* appending, splitting and taking the tail do to their range.             *)
(***************************************************************************)
EXTENDS Integers, Sequences, Functions, TLAPS

\* A sequence takes its values in the set it is over.
LEMMA RangeInSet ==
    ASSUME NEW S, NEW q \in Seq(S)
    PROVE  Range(q) \subseteq S
  BY DEF Range

\* A sequence is empty exactly when its length is zero, and when its range is empty.
LEMMA EmptySequence ==
    ASSUME NEW S, NEW q \in Seq(S)
    PROVE  /\ (q = <<>>) <=> (Len(q) = 0)
           /\ (q = <<>>) <=> (Range(q) = {})
  BY DEF Range

\* Appending adds one value to the range.
LEMMA AppendRange ==
    ASSUME NEW S, NEW q \in Seq(S), NEW e \in S
    PROVE  /\ Append(q, e) \in Seq(S)
           /\ Range(Append(q, e)) = Range(q) \cup {e}
           /\ IsInjective(q) /\ e \notin Range(q) => IsInjective(Append(q, e))
  <1>1. Append(q, e) \in Seq(S)
    OBVIOUS
  <1> DEFINE r == Append(q, e)
  <1>a. /\ Len(q) \in Nat /\ Len(r) = Len(q) + 1 /\ DOMAIN r = 1 .. Len(r)
        /\ r[Len(q) + 1] = e /\ DOMAIN q = 1 .. Len(q)
        /\ \A i \in 1 .. Len(q) : r[i] = q[i]
    OBVIOUS
  <1> HIDE DEF r
  <1>2. Range(r) = Range(q) \cup {e}
    <2>1. Range(r) \subseteq Range(q) \cup {e}
      BY <1>a DEF Range
    <2>2. Range(q) \cup {e} \subseteq Range(r)
      BY <1>a DEF Range
    <2> QED BY <2>1, <2>2
  <1>3. IsInjective(q) /\ e \notin Range(q) => IsInjective(Append(q, e))
    BY DEF Range, IsInjective
  <1> QED BY <1>1, <1>2, <1>3 DEF r

\* splice(0, n): a sequence without repetition splits into two disjoint ones.
LEMMA SplitRange ==
    ASSUME NEW S, NEW q \in Seq(S), NEW n \in 0 .. Len(q), IsInjective(q)
    PROVE  /\ SubSeq(q, 1, n) \in Seq(S) /\ SubSeq(q, n + 1, Len(q)) \in Seq(S)
           /\ Len(SubSeq(q, 1, n)) = n
           /\ Range(SubSeq(q, 1, n)) \cup Range(SubSeq(q, n + 1, Len(q))) = Range(q)
           /\ Range(SubSeq(q, 1, n)) \cap Range(SubSeq(q, n + 1, Len(q))) = {}
           /\ IsInjective(SubSeq(q, 1, n)) /\ IsInjective(SubSeq(q, n + 1, Len(q)))
  <1> DEFINE front == SubSeq(q, 1, n)
             back == SubSeq(q, n + 1, Len(q))
  <1>1. /\ front \in Seq(S) /\ back \in Seq(S)
        /\ Len(front) = n /\ Len(back) = Len(q) - n
        /\ DOMAIN front = 1 .. n /\ DOMAIN back = 1 .. (Len(q) - n)
        /\ DOMAIN q = 1 .. Len(q) /\ Len(q) \in Nat /\ n \in Nat /\ n <= Len(q)
        /\ \A i \in 1 .. n : front[i] = q[i]
        /\ \A i \in 1 .. (Len(q) - n) : back[i] = q[i + n]
    OBVIOUS
  <1> HIDE DEF front, back
  <1>2. \A i \in 1 .. Len(q) : i \in 1 .. n \/ (i - n \in 1 .. (Len(q) - n) /\ q[i] = back[i - n])
    BY <1>1
  <1>3. Range(front) \cup Range(back) = Range(q)
    <2>1. Range(front) \subseteq Range(q)
      BY <1>1 DEF Range
    <2>2. \A i \in 1 .. (Len(q) - n) : back[i] \in Range(q)
      BY <1>1 DEF Range
    <2>3. Range(back) \subseteq Range(q)
      BY <1>1, <2>2 DEF Range
    <2>4. Range(q) \subseteq Range(front) \cup Range(back)
      <3>1. \A i \in 1 .. n : q[i] \in Range(front)
        BY <1>1 DEF Range
      <3>2. \A i \in 1 .. (Len(q) - n) : back[i] \in Range(back)
        BY <1>1 DEF Range
      <3>3. \A i \in 1 .. Len(q) : q[i] \in Range(front) \cup Range(back)
        BY <1>2, <3>1, <3>2
      <3> QED BY <1>1, <3>3 DEF Range
    <2> QED BY <2>1, <2>3, <2>4
  <1>4. \A i, j \in 1 .. Len(q) : q[i] = q[j] => i = j
    BY <1>1 DEF IsInjective
  <1>5. Range(front) \cap Range(back) = {}
    <2>1. \A i \in 1 .. n, j \in 1 .. (Len(q) - n) : front[i] # back[j]
      BY <1>1, <1>4
    <2> QED BY <1>1, <2>1 DEF Range
  <1>6. IsInjective(front)
    BY <1>1, <1>4 DEF IsInjective
  <1>7. IsInjective(back)
    <2>1. \A i, j \in 1 .. (Len(q) - n) : back[i] = back[j] => i = j
      <3> SUFFICES ASSUME NEW i \in 1 .. (Len(q) - n), NEW j \in 1 .. (Len(q) - n),
                          back[i] = back[j]
                   PROVE  i = j
        OBVIOUS
      <3>1. i + n \in 1 .. Len(q) /\ j + n \in 1 .. Len(q) /\ q[i + n] = q[j + n]
        BY <1>1
      <3>2. i + n = j + n
        BY <3>1, <1>4
      <3> QED BY <3>2, <1>1
    <2> QED BY <1>1, <2>1 DEF IsInjective
  <1> QED BY <1>1, <1>3, <1>5, <1>6, <1>7 DEF front, back

\* The tail loses exactly the head.
LEMMA TailRange ==
    ASSUME NEW S, NEW q \in Seq(S), q # <<>>, IsInjective(q)
    PROVE  /\ Head(q) \in Range(q)
           /\ Tail(q) \in Seq(S) /\ Len(Tail(q)) = Len(q) - 1
           /\ Range(Tail(q)) = Range(q) \ {Head(q)}
           /\ IsInjective(Tail(q))
  <1>1. /\ Tail(q) \in Seq(S) /\ Len(Tail(q)) = Len(q) - 1
        /\ \A i \in 1 .. (Len(q) - 1) : Tail(q)[i] = q[i + 1]
        /\ Head(q) = q[1] /\ Len(q) \in Nat \ {0}
    OBVIOUS
  <1>2. Head(q) \in Range(q)
    BY <1>1 DEF Range
  <1>3. Range(Tail(q)) \subseteq Range(q) \ {Head(q)}
    BY <1>1 DEF Range, IsInjective
  <1> DEFINE t == Tail(q)
  <1>4. /\ DOMAIN t = 1 .. (Len(q) - 1) /\ DOMAIN q = 1 .. Len(q)
        /\ \A i \in 1 .. Len(q) : i = 1 \/ (i - 1 \in 1 .. (Len(q) - 1) /\ t[i - 1] = q[i])
    BY <1>1
  <1> HIDE DEF t
  <1>5. Range(q) \ {Head(q)} \subseteq Range(t)
    <2>1. \A i \in 1 .. (Len(q) - 1) : t[i] \in Range(t)
      BY <1>4 DEF Range
    <2>2. \A i \in 1 .. Len(q) : q[i] = Head(q) \/ q[i] \in Range(t)
      BY <1>1, <1>4, <2>1
    <2> QED BY <1>4, <2>2 DEF Range
  <1>6. IsInjective(Tail(q))
    BY <1>1 DEF IsInjective
  <1> QED BY <1>1, <1>2, <1>3, <1>5, <1>6 DEF t
=============================================================================
