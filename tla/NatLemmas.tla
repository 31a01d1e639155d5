----------------------------- MODULE NatLemmas -----------------------------
(***************************************************************************)
(* The least-number principle and what follows from it, in the form of     *)
(* statements about sets.  Inductions in the proofs of this project are    *)
(* arguments about a least counterexample.                                 *)
(***************************************************************************)
EXTENDS Integers, FiniteSetsExt, FiniteSetTheorems, TLAPS

\* A nonempty set of natural numbers has a least element.
LEMMA LeastNat ==
    ASSUME NEW T \in SUBSET Nat, T # {}
    PROVE  \E x \in T : \A y \in T : x <= y
<1> DEFINE F == {0 .. x : x \in T}
<1>1. F \subseteq FiniteSubsetsOf(Nat) /\ F # {}
  <2>1. \A x \in T : IsFiniteSet(0 .. x)
    BY FS_Interval
  <2>2. \A x \in T : 0 .. x \in FiniteSubsetsOf(Nat)
    BY <2>1 DEF FiniteSubsetsOf
  <2> QED
    BY Zenon, <2>2
<1>2. IsWellFoundedOn(StrictSubsetOrdering(Nat), FiniteSubsetsOf(Nat))
  BY FS_StrictSubsetOrderingWellFounded
<1> HIDE DEF F
<1>3. \E s \in F : \A t \in F : ~(<<t, s>> \in StrictSubsetOrdering(Nat))
  BY <1>1, <1>2, WFMin
<1> USE DEF F
<1>4. PICK x \in T : \A y \in T : ~(<<0 .. y, 0 .. x>> \in StrictSubsetOrdering(Nat))
  BY Zenon, <1>3
<1>5. ASSUME NEW y \in T, y < x
      PROVE  FALSE
  <2>1. 0 .. y \in SUBSET Nat /\ 0 .. x \in SUBSET Nat /\ 0 .. y \subseteq 0 .. x
    BY <1>5
  <2>2. x \in 0 .. x /\ x \notin 0 .. y
    BY <1>5
  <2>3. <<0 .. y, 0 .. x>> \in StrictSubsetOrdering(Nat)
    BY <2>1, <2>2 DEF StrictSubsetOrdering
  <2> QED
    BY <2>3, <1>4
<1> QED
  BY <1>4, <1>5

\* A nonempty bounded set of natural numbers has a greatest element, which is Max.
LEMMA MaxOfBounded ==
    ASSUME NEW S \in SUBSET Nat, S # {}, NEW n \in Nat, \A x \in S : x <= n
    PROVE  Max(S) \in S /\ \A x \in S : x <= Max(S)
<1> DEFINE T == {n - x : x \in S}
<1>1. T \in SUBSET Nat /\ T # {}
  <2>1. \A x \in S : n - x \in Nat
    OBVIOUS
  <2> QED
    BY Zenon, <2>1
<1>2. PICK d \in T : \A y \in T : d <= y
  BY Zenon, <1>1, LeastNat
<1>3. PICK x \in S : d = n - x
  BY <1>2
<1>4. ASSUME NEW y \in S
      PROVE  x >= y
  <2>1. n - y \in T
    OBVIOUS
  <2>2. n - x <= n - y
    BY <2>1, <1>2, <1>3
  <2>3. x \in Nat /\ y \in Nat
    OBVIOUS
  <2> QED
    BY <2>2, <2>3
<1> QED
  BY Zenon, <1>4 DEF Max

\* A nonempty set of natural numbers has Min as its least element.
LEMMA MinOfNats ==
    ASSUME NEW S \in SUBSET Nat, S # {}
    PROVE  Min(S) \in S /\ \A x \in S : Min(S) <= x
<1>1. PICK x \in S : \A y \in S : x <= y
  BY LeastNat
<1> QED
  BY Zenon, <1>1 DEF Min

\* A loop that starts with s0 and whose i-th iteration is step[i] has a run.
LEMMA LoopExists ==
    ASSUME NEW S, NEW s0 \in S, NEW n \in Nat, NEW step \in [1 .. n -> [S -> S]]
    PROVE  \E f \in [0 .. n -> S] : f[0] = s0 /\ \A i \in 1 .. n : f[i] = step[i][f[i - 1]]
<1> DEFINE Run(k, f) == f \in [0 .. k -> S] /\ f[0] = s0 /\ \A i \in 1 .. k : f[i] = step[i][f[i - 1]]
           T == {k \in 0 .. n : ~\E f : Run(k, f)}
<1>1. SUFFICES ASSUME T # {}
               PROVE  FALSE
  <2>1. n \in 0 .. n
    OBVIOUS
  <2> QED
    BY Zenon, <2>1
<1>2. PICK k \in T : \A y \in T : k <= y
  <2>1. T \in SUBSET Nat
    OBVIOUS
  <2> HIDE DEF T
  <2> QED
    BY <1>1, <2>1, LeastNat
<1>3. k \in 0 .. n /\ ~\E f : Run(k, f)
  BY <1>2
<1>4. CASE k = 0
  <2>1. Run(0, [i \in 0 .. 0 |-> s0])
    OBVIOUS
  <2> HIDE DEF Run
  <2> QED
    BY <1>3, <1>4, <2>1
<1>5. CASE k # 0
  <2>1. k - 1 \in 0 .. n /\ ~(k <= k - 1)
    BY <1>3, <1>5
  <2>2. PICK f : Run(k - 1, f)
    <3> HIDE DEF Run
    <3> QED
      BY <1>2, <2>1
  <2> DEFINE g == [i \in 0 .. k |-> IF i = k THEN step[k][f[k - 1]] ELSE f[i]]
  <2>3. k \in 1 .. n /\ k \in Nat /\ k - 1 \in 0 .. (k - 1)
    BY <1>3, <1>5
  <2>4. f \in [0 .. (k - 1) -> S] /\ f[0] = s0 /\ \A i \in 1 .. (k - 1) : f[i] = step[i][f[i - 1]]
    BY <2>2
  <2>5. step[k][f[k - 1]] \in S
    BY <2>3, <2>4
  <2>6. g \in [0 .. k -> S] /\ g[0] = s0
    BY <2>3, <2>4, <2>5
  <2>7. ASSUME NEW i \in 1 .. k
        PROVE  g[i] = step[i][g[i - 1]]
    <3>1. g[i - 1] = f[i - 1]
      BY <2>3
    <3>2. CASE i = k
      BY <2>3, <3>1, <3>2
    <3>3. CASE i # k
      BY <2>3, <2>4, <3>1, <3>3
    <3> QED
      BY <3>2, <3>3
  <2>8. Run(k, g)
    BY Zenon, <2>6, <2>7
  <2> HIDE DEF Run
  <2> QED
    BY <1>3, <2>8
<1> QED
  BY <1>4, <1>5

\* A smaller set has no more elements.
LEMMA FewerElements ==
    ASSUME NEW T, IsFiniteSet(T), NEW S \in SUBSET T
    PROVE  /\ IsFiniteSet(S) /\ Cardinality(S) \in Nat /\ Cardinality(T) \in Nat
           /\ Cardinality(S) <= Cardinality(T)
BY FS_Subset, FS_CardinalityType
=============================================================================
