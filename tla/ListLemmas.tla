----------------------------- MODULE ListLemmas -----------------------------
(***************************************************************************)
(* What the proofs about loops and lists share: induction over the rounds  *)
(* of a loop, from the least round that lacks the property, and sequences  *)
(* whose items move from one to the other.                                 *)
(***************************************************************************)
EXTENDS Naturals, Sequences, SequenceTheorems, WellFoundedInduction, TLAPS

\* A leaf that names no prover is tried with these, in this order.
USE SMT, Zenon, SMTT(30)

\* A set of naturals that is not empty has a least element.
LEMMA LeastElement ==
    ASSUME NEW T \in SUBSET Nat, T # {}
    PROVE  \E x \in T : \A y \in T : x <= y
<1> DEFINE R == OpToRel(<, Nat)
<1>1. IsWellFoundedOn(R, Nat)
  BY NatLessThanWellFounded, Zenon
<1>2. \A x, y \in Nat : y < x => <<y, x>> \in R
  BY Zenon DEF OpToRel
<1> HIDE DEF R
<1>3. PICK x \in T : \A y \in T : ~(<<y, x>> \in R)
  BY <1>1, WFMin, Zenon
<1>4. \A y \in T : ~(y < x)
  BY <1>2, <1>3, Zenon
<1> QED BY ONLY <1>4, T \in SUBSET Nat, x \in T

\* Induction, for a property given as the set of the naturals that have it.
LEMMA InductionUpTo ==
    ASSUME NEW n \in Nat, NEW T, 0 \in T, \A i \in 0 .. n - 1 : i \in T => i + 1 \in T
    PROVE  0 .. n \subseteq T
<1> DEFINE B == {i \in 0 .. n : i \notin T}
<1> SUFFICES ASSUME B # {} PROVE FALSE
  BY Zenon
<1>1. PICK x \in B : \A y \in B : x <= y
  <2>1. B \in SUBSET Nat
    OBVIOUS
  <2> HIDE DEF B
  <2> QED BY <2>1, LeastElement, Zenon
<1>2. x \in 0 .. n /\ x \notin T /\ x # 0
  BY <1>1, Zenon
<1>3. x - 1 \in 0 .. n - 1 /\ x - 1 \notin B /\ (x - 1) + 1 = x
  BY <1>1, <1>2
<1>4. x - 1 \in T
  BY <1>2, <1>3
<1> QED BY <1>2, <1>3, <1>4, Zenon

\* The head of b goes to the end of a.
LEMMA MoveHead ==
    ASSUME NEW S, NEW a \in Seq(S), NEW b \in Seq(S), b # << >>
    PROVE  Append(a, Head(b)) \o Tail(b) = a \o b
<1> DEFINE l == Append(a, Head(b)) \o Tail(b)
           m == a \o b
<1>1. Head(b) \in S /\ Tail(b) \in Seq(S) /\ Len(b) \in Nat \ {0} /\ Len(a) \in Nat
      /\ Len(Tail(b)) = Len(b) - 1
  OBVIOUS
<1>2. l \in Seq(S) /\ m \in Seq(S) /\ Len(l) = Len(m)
  <2>1. Append(a, Head(b)) \in Seq(S) /\ Len(Append(a, Head(b))) = Len(a) + 1
    BY <1>1
  <2> QED BY <1>1, <2>1
<1>3. ASSUME NEW i \in 1 .. Len(m) PROVE l[i] = m[i]
  <2> DEFINE c == Append(a, Head(b))
  <2>1. c \in Seq(S) /\ Len(c) = Len(a) + 1 /\ Len(m) = Len(a) + Len(b)
    BY <1>1
  <2>2. CASE i <= Len(a)
    BY <1>1, <2>1, <2>2
  <2>3. CASE i = Len(a) + 1
    BY <1>1, <2>1, <2>3
  <2>4. CASE i > Len(a) + 1
    <3>1. m[i] = b[i - Len(a)]
      BY <1>1, <2>1, <2>4
    <3>2. l[i] = Tail(b)[i - Len(c)] /\ i - Len(c) \in 1 .. Len(b) - 1
      BY <1>1, <2>1, <2>4
    <3>3. (i - Len(c)) + 1 = i - Len(a)
      BY <1>1, <2>1
    <3> QED BY <1>1, <3>1, <3>2, <3>3
  <2> QED BY <1>1, <2>1, <2>2, <2>3, <2>4
<1> HIDE DEF l, m
<1>4. \A i \in 1 .. Len(l) : l[i] = m[i]
  BY <1>2, <1>3, Zenon
<1>5. l = m
  BY <1>2, <1>4, SeqEqual, Zenon
<1> QED BY <1>5, Zenon DEF l, m

=============================================================================
