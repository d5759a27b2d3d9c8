------------------------------ MODULE Recursion ------------------------------
(***************************************************************************)
(* What proofs about recursive functions over 0..n rest on: the least      *)
(* element of a set of numbers, induction in the form of a set that holds  *)
(* zero and the successor of what it holds, and the function a recursion   *)
(* defines.  Sets and functions stand where the library's theorems have    *)
(* operators as parameters.                                                *)
(***************************************************************************)
EXTENDS Integers, Sequences, SequenceTheorems, WellFoundedInduction, TLAPS

\* A set of numbers that is not empty has a least one.
LEMMA LeastOf ==
  ASSUME NEW T, T \subseteq Nat, T # {}
  PROVE  \E x \in T : \A y \in T : x <= y
<1> DEFINE R == {ss \in Nat \X Nat : ss[1] < ss[2]}
<1>1. IsWellFoundedOn(R, Nat)
  BY NatLessThanWellFounded DEF OpToRel
<1>2. \E x \in T : \A y \in T : ~ (<<y, x>> \in R)
  <2> HIDE DEF R
  <2> QED
    BY <1>1, WFMin
<1>3. \A x, y \in T : <<y, x>> \notin R => x <= y
  OBVIOUS
<1> HIDE DEF R
<1> QED
  BY <1>2, <1>3

\* A set of numbers up to n with 0 and the successor of each of its members
\* below n has them all.
LEMMA UpTo ==
  ASSUME NEW n \in Nat, NEW S, 0 \in S,
         \A k \in 0..(n - 1) : k \in S => k + 1 \in S
  PROVE  0..n \subseteq S
<1> DEFINE T == 0..n \ S
<1>1. ASSUME T # {} PROVE FALSE
  <2>1. T \subseteq Nat
    OBVIOUS
  <2>2. PICK x \in T : \A y \in T : x <= y
    <3> HIDE DEF T
    <3> QED
      BY <1>1, <2>1, LeastOf
  <2>3. x \in Nat /\ x # 0 /\ x <= n
    BY <2>2
  <2>4. x - 1 \in 0..(n - 1) /\ x - 1 \in 0..n /\ x - 1 \notin T
    BY <2>2, <2>3
  <2>5. x - 1 + 1 = x
    BY <2>3
  <2> QED
    BY <2>2, <2>4, <2>5
<1> QED
  BY <1>1

\* f is what a recursion over 1..n computes.
Recurses(f, n, S, base, rule) ==
    /\ f \in [0..n -> S] /\ f[0] = base
    /\ \A i \in 1..n : f[i] = rule[i][f[i - 1]]

\* A recursion over 1..n defines a function.
LEMMA Recursive ==
  ASSUME NEW n \in Nat, NEW S, NEW base \in S, NEW rule \in [1..n -> [S -> S]]
  PROVE  \E f : Recurses(f, n, S, base, rule)
<1> USE DEF Recurses
<1> DEFINE Is(f, k) == Recurses(f, k, S, base, rule)
           T == {k \in 0..n : \E f : Is(f, k)}
<1>1. 0 \in T
  <2>1. Is([i \in 0..0 |-> base], 0)
    OBVIOUS
  <2>2. \E f : Is(f, 0)
    <3> HIDE DEF Is
    <3> QED
      BY <2>1
  <2> QED
    BY <2>2
<1>2. ASSUME NEW k \in 0..(n - 1), k \in T PROVE k + 1 \in T
  <2>1. PICK f : Is(f, k)
    BY <1>2
  <2> DEFINE g == [i \in 0..(k + 1) |-> IF i <= k THEN f[i] ELSE rule[k + 1][f[k]]]
  <2>2. k + 1 \in 1..n /\ k \in 0..k /\ f[k] \in S
    BY <2>1
  <2>3. rule[k + 1][f[k]] \in S
    BY <2>2
  <2>4. g \in [0..(k + 1) -> S] /\ g[0] = base
    BY <2>1, <2>3
  <2>5. \A i \in 1..(k + 1) : g[i] = rule[i][g[i - 1]]
    BY <2>1
  <2>6. Is(g, k + 1)
    BY <2>4, <2>5
  <2>7. \E h : Is(h, k + 1)
    <3> HIDE DEF Is, g
    <3> QED
      BY <2>6
  <2> QED
    BY <2>2, <2>7
<1>3. n \in T
  <2>1. \A k \in 0..(n - 1) : k \in T => k + 1 \in T
    BY <1>2
  <2>2. 0..n \subseteq T
    <3> HIDE DEF T
    <3> QED
      BY <1>1, <2>1, UpTo
  <2>3. n \in 0..n
    OBVIOUS
  <2> HIDE DEF T
  <2> QED
    BY <2>2, <2>3
<1> QED
  BY <1>3
=============================================================================
