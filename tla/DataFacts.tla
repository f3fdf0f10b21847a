----------------------------- MODULE DataFacts -----------------------------
(***************************************************************************)
(* Facts about data that the proofs about the components share, and that   *)
(* are about no code of their own: sets of naturals have ends, and what    *)
(* Head, Tail, Append and SubSeq leave at each place of a sequence.        *)
(***************************************************************************)
EXTENDS Integers, FiniteSetsExt, FiniteSetTheorems, SequenceTheorems,
        WellFoundedInduction, TLAPS

-----------------------------------------------------------------------------
(* Sets of naturals. *)

\* A set of naturals that is not empty has a least member.  The intervals
\* 0 .. n are ordered by strict inclusion as their ends are by <.
LEMMA LeastNatural ==
    ASSUME NEW S \in SUBSET Nat, S # {}
    PROVE  \E m \in S : \A n \in S : m <= n
<1> DEFINE T == {0 .. n : n \in S}
<1>1. T \subseteq FiniteSubsetsOf(Nat)
  <2> SUFFICES ASSUME NEW n \in S
               PROVE  0 .. n \in FiniteSubsetsOf(Nat)
    OBVIOUS
  <2>1. 0 .. n \in SUBSET Nat
    OBVIOUS
  <2>2. n \in Int /\ 0 \in Int
    OBVIOUS
  <2>3. IsFiniteSet(0 .. n)
    BY <2>2, FS_Interval, Zenon
  <2> QED BY <2>1, <2>3 DEF FiniteSubsetsOf
<1>2. T # {}
  OBVIOUS
<1>3. PICK x \in T : \A y \in T : <<y, x>> \notin StrictSubsetOrdering(Nat)
  BY <1>1, <1>2, FS_StrictSubsetOrderingWellFounded, WFMin, Zenon
<1>4. PICK m \in S : x = 0 .. m
  OBVIOUS
<1>5. \A n \in S : m <= n
  <2> SUFFICES ASSUME NEW n \in S, n < m
               PROVE  FALSE
    OBVIOUS
  <2>1. 0 .. n \in T /\ x \in T
    OBVIOUS
  <2>2. 0 .. n \subseteq x /\ 0 .. n # x
    <3>1. m \in x /\ m \notin 0 .. n
      BY <1>4
    <3> QED BY <1>4, <3>1
  <2>3. <<0 .. n, x>> \in StrictSubsetOrdering(Nat)
    BY <1>1, <2>1, <2>2 DEF StrictSubsetOrdering, FiniteSubsetsOf
  <2> QED BY <1>3, <2>1, <2>3
<1> QED BY <1>5

\* One that is bounded as well has a greatest member: the one that leaves the
\* least room below the bound.
LEMMA GreatestNatural ==
    ASSUME NEW S \in SUBSET Nat, S # {}, NEW top \in Nat, \A n \in S : n <= top
    PROVE  \E m \in S : \A n \in S : n <= m
<1> DEFINE room == {top - n : n \in S}
<1>1. room \in SUBSET Nat /\ room # {}
  <2>1. \A n \in S : top - n \in Nat
    OBVIOUS
  <2>2. room \subseteq Nat
    BY <2>1
  <2>3. PICK n \in S : TRUE
    OBVIOUS
  <2>4. top - n \in room
    BY <2>3
  <2> QED BY <2>2, <2>4
<1>2. PICK r \in room : \A n \in room : r <= n
  BY <1>1, LeastNatural
<1>3. PICK m \in S : r = top - m
  BY <1>2
<1>4. \A n \in S : top - m <= top - n
  BY <1>2, <1>3
<1> QED BY <1>4

\* Min picks the least member of a set of naturals.
LEMMA LeastOfNaturals ==
    ASSUME NEW S \in SUBSET Nat, S # {}
    PROVE  /\ Min(S) \in S
           /\ \A n \in S : Min(S) <= n
<1>1. \E m \in S : \A n \in S : m <= n
  BY LeastNatural
<1> QED BY <1>1 DEF Min

\* Min and Max of two numbers.
LEMMA MinOfTwo ==
    ASSUME NEW a \in Nat, NEW b \in Nat
    PROVE  Min({a, b}) \in {a, b} /\ Min({a, b}) <= a /\ Min({a, b}) <= b
<1>1. {a, b} \in SUBSET Nat /\ {a, b} # {}
  OBVIOUS
<1>2. Min({a, b}) \in {a, b} /\ \A n \in {a, b} : Min({a, b}) <= n
  BY <1>1, LeastOfNaturals
<1> QED
  BY <1>2

LEMMA MaxOfTwo ==
    ASSUME NEW a \in Nat, NEW b \in Nat
    PROVE  Max({a, b}) \in {a, b} /\ a <= Max({a, b}) /\ b <= Max({a, b})
<1>1. \E m \in {a, b} : \A n \in {a, b} : m >= n
  OBVIOUS
<1> QED
  BY <1>1 DEF Max

-----------------------------------------------------------------------------
(* Sequences. *)

LEMMA TailFacts ==
    ASSUME NEW S, NEW q \in Seq(S), q # <<>>
    PROVE  /\ Len(q) \in Nat \ {0} /\ Head(q) = q[1] /\ q[1] \in S
           /\ Tail(q) \in Seq(S) /\ Len(Tail(q)) = Len(q) - 1
           /\ \A i \in 1 .. Len(q) - 1 : Tail(q)[i] = q[i + 1]
OBVIOUS

LEMMA AppendFacts ==
    ASSUME NEW S, NEW q \in Seq(S), NEW e
    PROVE  /\ Len(q) \in Nat /\ Len(Append(q, e)) = Len(q) + 1
           /\ \A i \in 1 .. Len(q) : Append(q, e)[i] = q[i]
           /\ Append(q, e)[Len(q) + 1] = e
OBVIOUS

LEMMA CutFacts ==
    ASSUME NEW S, NEW q \in Seq(S), NEW first \in 1 .. Len(q)
    PROVE  LET rest == SubSeq(q, first + 1, Len(q))
           IN  /\ Len(rest) = Len(q) - first
               /\ \A i \in 1 .. Len(q) - first : rest[i] = q[first + i]
               /\ rest = <<>> <=> Len(q) = first
<1> DEFINE n == Len(q)
           rest == SubSeq(q, first + 1, n)
<1>1. n \in Nat /\ first \in 1 .. n /\ \A i \in first + 1 .. n : q[i] \in S
  BY ElementOfSeq
<1> HIDE DEF n
<1>2. first + 1 \in Int /\ n \in Int
  BY <1>1
<1>3. rest \in Seq(S)
  BY <1>1, <1>2, SubSeqProperties
<1>4. Len(rest) = n - first /\ \A i \in 1 .. n - first : rest[i] = q[first + i]
  BY <1>1
<1> HIDE DEF rest
<1>5. rest = <<>> <=> n = first
  <2>1. rest = <<>> <=> Len(rest) = 0
    BY <1>3, EmptySeq, Zenon
  <2>2. Len(rest) = 0 <=> n = first
    BY <1>1, <1>4
  <2> QED
    BY <2>1, <2>2
<1> QED
  BY <1>4, <1>5 DEF n, rest

LEMMA FrontFacts ==
    ASSUME NEW S, NEW q \in Seq(S), NEW lost \in 0 .. Len(q), NEW r,
           r = SubSeq(q, lost + 1, Len(q))
    PROVE  /\ Len(r) = Len(q) - lost
           /\ \A i \in 1 .. Len(q) - lost : r[i] = q[i + lost]
OBVIOUS

LEMMA ConcatFacts ==
    ASSUME NEW S, NEW q \in Seq(S), NEW r \in Seq(S)
    PROVE  /\ q \o r \in Seq(S) /\ Len(q \o r) = Len(q) + Len(r)
           /\ \A i \in 1 .. Len(q) : (q \o r)[i] = q[i]
           /\ \A i \in 1 .. Len(r) : (q \o r)[Len(q) + i] = r[i]
<1>1. /\ q \o r \in Seq(S) /\ Len(q \o r) = Len(q) + Len(r)
      /\ Len(q) \in Nat /\ Len(r) \in Nat
  OBVIOUS
<1>2. \A i \in 1 .. Len(q) : (q \o r)[i] = q[i]
  OBVIOUS
<1>3. ASSUME NEW i \in 1 .. Len(r)
      PROVE  (q \o r)[Len(q) + i] = r[i]
  <2>1. Len(q) + i \in 1 .. Len(q) + Len(r) /\ Len(q) + i > Len(q) /\ Len(q) + i - Len(q) = i
    BY <1>1
  <2> QED
    BY <2>1
<1> QED
  BY <1>1, <1>2, <1>3
=============================================================================
