------------------------------ MODULE Induction ------------------------------
(***************************************************************************)
(* Induction and recursion over the natural numbers, in the form in which  *)
(* the proofs of this project use them: about sets of numbers and about    *)
(* functions, so that they are instantiated with values.                   *)
(***************************************************************************)
EXTENDS Integers, TLAPS, WellFoundedInduction

\* Every set of natural numbers that is not empty has a least member.
LEMMA LeastNumber ==
  ASSUME NEW T \in SUBSET Nat, T # {}
  PROVE  \E x \in T : \A y \in T : x <= y
<1> DEFINE R == OpToRel(<, Nat)
<1>1. IsWellFoundedOn(R, Nat)
  BY NatLessThanWellFounded
<1>2. ASSUME NEW x \in Nat, NEW y \in Nat, y < x PROVE <<y, x>> \in R
  BY <1>2 DEF OpToRel
<1> HIDE DEF R
<1>3. PICK x \in T : \A y \in T : ~ (<<y, x>> \in R)
  BY <1>1, WFMin
<1>4. \A y \in T : ~(y < x)
  BY <1>2, <1>3
<1>5. QED
  BY <1>4

\* A set of numbers up to N that is not empty has a greatest member.
LEMMA GreatestNumber ==
  ASSUME NEW N \in Nat, NEW T \in SUBSET (1..N), T # {}
  PROVE  \E x \in T : \A y \in T : y <= x
<1> DEFINE Below == {n \in 0..N : N - n \in T}
<1>1. \A y \in T : N - y \in Below
  OBVIOUS
<1>2. Below # {}
  <2>1. PICK y : y \in T
    OBVIOUS
  <2>2. N - y \in Below
    BY <1>1, <2>1
  <2> HIDE DEF Below
  <2>3. QED
    BY <2>2
<1>3. Below \in SUBSET Nat
  <2>1. 0..N \subseteq Nat
    OBVIOUS
  <2>2. QED
    BY <2>1
<1> HIDE DEF Below
<1>4. PICK x \in Below : \A y \in Below : x <= y
  BY <1>2, <1>3, LeastNumber
<1>5. x \in 0..N /\ N - x \in T
  BY DEF Below
<1>6. QED
  BY <1>1, <1>4, <1>5

\* A set with 0 that has the successor of each of its members below N has all
\* numbers up to N.
LEMMA UpTo ==
  ASSUME NEW N \in Nat, NEW T, 0 \in T, \A n \in 1..N : n - 1 \in T => n \in T
  PROVE  0..N \subseteq T
<1> DEFINE Out == {n \in 0..N : n \notin T}
<1> SUFFICES ASSUME Out # {} PROVE FALSE
  OBVIOUS
<1>1. Out \in SUBSET Nat
  OBVIOUS
<1>2. PICK x \in Out : \A y \in Out : x <= y
  BY <1>1, LeastNumber
<1>3. x \in 1..N /\ x - 1 \in 0..N /\ ~(x <= x - 1)
  BY <1>2
<1>4. x - 1 \in T
  BY <1>2, <1>3
<1>5. QED
  BY <1>2, <1>3, <1>4

\* The function on 0..N that starts at first and takes the given steps.
Recursive(N, S, first, step) ==
  CHOOSE f \in [0..N -> S] : f[0] = first /\ \A n \in 1..N : f[n] = step[n][f[n - 1]]

\* It exists if each step stays in S: its beginnings do, one number after the other.
LEMMA RecursionExists ==
  ASSUME NEW N \in Nat, NEW S, NEW first \in S, NEW step \in [1..N -> [S -> S]],
         NEW f, f = Recursive(N, S, first, step)
  PROVE  f \in [0..N -> S] /\ f[0] = first /\ \A n \in 1..N : f[n] = step[n][f[n - 1]]
<1> DEFINE Fits(h, m) == h[0] = first /\ \A n \in 1..m : h[n] = step[n][h[n - 1]]
           T == {m \in 0..N : \E h \in [0..m -> S] : Fits(h, m)}
<1>1. 0 \in T
  <2>1. PICK h : h = [n \in 0..0 |-> first]
    OBVIOUS
  <2>2. h \in [0..0 -> S] /\ h[0] = first
    BY <2>1
  <2>3. QED
    BY <2>2
<1>2. ASSUME NEW m \in 1..N, m - 1 \in T PROVE m \in T
  <2>1. PICK h \in [0..(m - 1) -> S] : Fits(h, m - 1)
    BY <1>2
  <2>2. PICK next : next = step[m][h[m - 1]]
    OBVIOUS
  <2>3. m - 1 \in 0..(m - 1) /\ next \in S
    BY <2>2
  <2>4. PICK g : g = [n \in 0..m |-> IF n = m THEN next ELSE h[n]]
    OBVIOUS
  <2>5. g \in [0..m -> S] /\ g[m] = next /\ \A n \in 0..(m - 1) : g[n] = h[n]
    BY <2>3, <2>4
  <2>6. g[m - 1] = h[m - 1] /\ g[0] = first
    BY <2>1, <2>3, <2>5
  <2>7. \A n \in 1..(m - 1) : g[n] = h[n] /\ g[n - 1] = h[n - 1]
    BY <2>5
  <2>8. \A n \in 1..m : n = m \/ n \in 1..(m - 1)
    OBVIOUS
  <2>9. \A n \in 1..m : g[n] = step[n][g[n - 1]]
    <3> TAKE n \in 1..m
    <3>1. CASE n = m
      BY <2>2, <2>5, <2>6, <3>1
    <3>2. CASE n \in 1..(m - 1)
      BY <2>1, <2>7, <3>2
    <3>3. QED
      BY <2>8, <3>1, <3>2
  <2>10. \E k \in [0..m -> S] : Fits(k, m)
    BY <2>5, <2>6, <2>9
  <2>11. QED
    BY <2>10
<1> HIDE DEF T
<1>3. 0..N \subseteq T
  BY <1>1, <1>2, UpTo
<1>4. N \in T
  BY <1>3
<1>5. PICK h \in [0..N -> S] : Fits(h, N)
  BY <1>4 DEF T
<1>6. QED
  BY <1>5 DEF Recursive
=============================================================================
