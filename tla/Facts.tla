-------------------------------- MODULE Facts --------------------------------
(***************************************************************************)
(* What the proofs need of numbers and of functions defined by recursion.  *)
(***************************************************************************)
EXTENDS Integers, WellFoundedInduction, TLAPS

\* A nonempty set of naturals has a least element.
LEMMA LeastElement ==
  ASSUME NEW S \in SUBSET Nat, S # {}
  PROVE  \E i \in S : \A j \in S : i <= j
<1> DEFINE R == OpToRel(<, Nat)
<1>1. IsWellFoundedOn(R, Nat)
  BY NatLessThanWellFounded
<1>2. \A x, y \in Nat : y < x => <<y, x>> \in R
  BY DEF OpToRel
<1> HIDE DEF R
<1>3. PICK x \in S : \A y \in S : ~(<<y, x>> \in R)
  BY <1>1, WFMin
<1>4. \A y \in S : ~(y < x)
  <2> SUFFICES ASSUME NEW y \in S, y < x PROVE FALSE
    OBVIOUS
  <2>1. y \in Nat /\ x \in Nat
    OBVIOUS
  <2>2. <<y, x>> \in R
    BY <1>2, <2>1
  <2> QED
    BY <1>3, <2>2
<1> QED
  BY <1>4

\* Induction up to n, with a set in the place of the predicate.
LEMMA Induction ==
  ASSUME NEW n \in Nat, NEW A, 0 \in A, \A i \in 0 .. n - 1 : i \in A => i + 1 \in A
  PROVE  \A i \in 0 .. n : i \in A
<1> DEFINE B == {i \in 0 .. n : i \notin A}
<1> SUFFICES ASSUME B # {} PROVE FALSE
  OBVIOUS
<1>1. B \in SUBSET Nat
  OBVIOUS
<1>2. PICK m \in B : \A j \in B : m <= j
  <2> HIDE DEF B
  <2> QED BY <1>1, LeastElement
<1>3. m # 0 /\ m - 1 \in 0 .. n - 1 /\ m - 1 \notin B
  BY <1>2
<1>4. m - 1 \in A
  BY <1>3
<1> QED
  BY <1>3, <1>4

\* Some sequence starts with x and takes n steps of g, the i-th one with g[i].
Iterable(X, n, x, g) ==
  \E f \in [0 .. n -> X] : f[0] = x /\ \A i \in 1 .. n : f[i] = g[i][f[i - 1]]

\* Such a sequence exists, so that a function defined by recursion on 0..n is
\* the one its equation describes.
LEMMA Iterates ==
  ASSUME NEW X, NEW n \in Nat, NEW x \in X, NEW g,
         \A i \in 1 .. n : \A q \in X : g[i][q] \in X
  PROVE  Iterable(X, n, x, g)
<1> DEFINE Runs(m, f) == f[0] = x /\ \A i \in 1 .. m : f[i] = g[i][f[i - 1]]
           Run(m) == \E f \in [0 .. m -> X] : Runs(m, f)
           A == {m \in 0 .. n : Run(m)}
<1>1. Run(0)
  <2> DEFINE f == [i \in 0 .. 0 |-> x]
  <2>1. f \in [0 .. 0 -> X] /\ Runs(0, f)
    OBVIOUS
  <2> HIDE DEF f
  <2> QED BY <2>1
<1>2. ASSUME NEW m \in 0 .. n - 1, Run(m) PROVE Run(m + 1)
  <2>1. PICK f \in [0 .. m -> X] : Runs(m, f)
    BY <1>2
  <2> DEFINE h == [i \in 0 .. m + 1 |-> IF i = m + 1 THEN g[m + 1][f[m]] ELSE f[i]]
  <2>2. h \in [0 .. m + 1 -> X]
    OBVIOUS
  <2>3. h[0] = x
    BY <2>1
  <2>4. ASSUME NEW i \in 1 .. m + 1 PROVE h[i] = g[i][h[i - 1]]
    <3>1. CASE i = m + 1
      BY <3>1
    <3>2. CASE i # m + 1
      BY <3>2, <2>1
    <3> QED BY <3>1, <3>2
  <2> HIDE DEF h
  <2> QED BY <2>2, <2>3, <2>4
<1> HIDE DEF Run
<1>3. 0 \in A /\ \A i \in 0 .. n - 1 : i \in A => i + 1 \in A
  BY <1>1, <1>2
<1>4. \A i \in 0 .. n : i \in A
  <2> HIDE DEF A
  <2> QED BY <1>3, Induction
<1>5. Run(n)
  BY <1>4
<1> QED
  BY <1>5 DEF Run, Iterable

=============================================================================
