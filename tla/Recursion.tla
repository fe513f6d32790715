----------------------------- MODULE Recursion -----------------------------
(***************************************************************************)
(* What the proofs about recursive functions over 0 .. n rest on: numbers  *)
(* are well-founded, so a set closed under "the next one" holds them all,  *)
(* and a function defined by recursion exists.                             *)
(***************************************************************************)
EXTENDS Integers, WellFoundedInduction, TLAPS

\* A set of numbers that is not empty has a least one.
LEMMA LeastNumber ==
    ASSUME NEW T \in SUBSET Nat, T # {}
    PROVE  \E n \in T : \A m \in T : n <= m
<1> DEFINE R == {p \in Nat \X Nat : p[1] < p[2]}
<1>1. IsWellFoundedOn(OpToRel(<, Nat), Nat)  BY NatLessThanWellFounded
<1>2. OpToRel(<, Nat) = R  BY DEF OpToRel
<1>3. IsWellFoundedOn(R, Nat)  BY <1>1, <1>2
<1> HIDE DEF R
<1>4. PICK n \in T : \A m \in T : ~ (<<m, n>> \in R)  BY <1>3, WFMin
<1>5. \A m \in T : ~ (m < n)  BY <1>4 DEF R
<1> QED  BY <1>5

\* Induction up to n.
LEMMA Induction ==
    ASSUME NEW n \in Nat, NEW T, 0 \in T, \A i \in 1 .. n : i - 1 \in T => i \in T
    PROVE  0 .. n \subseteq T
<1> DEFINE F == {i \in 0 .. n : i \notin T}
<1> SUFFICES ASSUME F # {}  PROVE FALSE
  OBVIOUS
<1>1. F \in SUBSET Nat  OBVIOUS
<1>2. PICK i \in F : \A j \in F : i <= j  BY <1>1, LeastNumber
<1>3. i \in 1 .. n /\ i \notin T  BY <1>2
<1>4. i - 1 \notin F  BY <1>2, <1>3
<1>5. i - 1 \in T  BY <1>3, <1>4
<1> QED  BY <1>3, <1>5

\* What n maps of S to itself, applied one after the other, make of b.
Iterates(n, S, b, R, f) ==
    /\ f \in [0 .. n -> S]
    /\ f[0] = b
    /\ \A i \in 1 .. n : f[i] = R[i][f[i - 1]]

LEMMA Iteration ==
    ASSUME NEW n \in Nat, NEW S, NEW b \in S, NEW R \in [1 .. n -> [S -> S]]
    PROVE  \E f : Iterates(n, S, b, R, f)
<1> DEFINE T == {k \in 0 .. n : \E f : Iterates(k, S, b, R, f)}
<1>1. 0 \in T
  <2> DEFINE f == [i \in 0 .. 0 |-> b]
  <2>1. f \in [0 .. 0 -> S] /\ f[0] = b  OBVIOUS
  <2>2. 1 .. 0 = {} /\ 0 \in 0 .. n  OBVIOUS
  <2> HIDE DEF f
  <2>3. Iterates(0, S, b, R, f)  BY <2>1, <2>2 DEF Iterates
  <2> QED  BY <2>2, <2>3
<1>2. ASSUME NEW k \in 1 .. n, k - 1 \in T  PROVE k \in T
  <2>1. PICK f : Iterates(k - 1, S, b, R, f)
    BY <1>2
  <2>2. f \in [0 .. k - 1 -> S] /\ f[0] = b /\ \A i \in 1 .. k - 1 : f[i] = R[i][f[i - 1]]
    BY <2>1 DEF Iterates
  <2> DEFINE g == [i \in 0 .. k |-> IF i = k THEN R[k][f[k - 1]] ELSE f[i]]
  <2>3. R[k][f[k - 1]] \in S
    <3>1. f[k - 1] \in S  BY <2>2
    <3> QED  BY <3>1
  <2>4. g \in [0 .. k -> S]  BY <2>2, <2>3
  <2>5. g[0] = b  BY <2>2
  <2>6. ASSUME NEW i \in 1 .. k  PROVE g[i] = R[i][g[i - 1]]
    <3>1. g[i - 1] = f[i - 1]  OBVIOUS
    <3> QED  BY <2>2, <3>1
  <2> HIDE DEF g
  <2>7. Iterates(k, S, b, R, g)  BY <2>4, <2>5, <2>6 DEF Iterates
  <2>8. k \in 0 .. n  OBVIOUS
  <2> QED  BY <2>7, <2>8
<1> HIDE DEF T
<1>3. 0 .. n \subseteq T  BY <1>1, <1>2, Induction
<1>4. n \in T  BY <1>3
<1> QED  BY <1>4 DEF T
=============================================================================
