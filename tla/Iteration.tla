----------------------------- MODULE Iteration ------------------------------
(***************************************************************************)
(* Facts about functions that are defined by recursion on 0 .. N, the form *)
(* the loops of the modelled code take:                                    *)
(*                                                                         *)
(*    f[n \in 0 .. N] == IF n = 0 THEN v0 ELSE (something with f[n - 1])   *)
(*                                                                         *)
(* Such a definition chooses a function that satisfies the equation; that  *)
(* there is one is the lemma Iteration.  Induction is over a set, the      *)
(* numbers of which a statement holds.                                     *)
(***************************************************************************)
EXTENDS Integers, WellFoundedInduction, TLAPS

\* The relation that the library's operator stands for.
LEMMA LessThan == OpToRel(<, Nat) = {ss \in Nat \X Nat : ss[1] < ss[2]}
  BY Zenon DEF OpToRel

LEMMA LeastNumber ==
    ASSUME NEW T, T \subseteq Nat, T # {}
    PROVE  \E n \in T : \A m \in T : n <= m
<1> DEFINE R == {ss \in Nat \X Nat : ss[1] < ss[2]}
<1>1. IsWellFoundedOn(R, Nat)
    BY LessThan, NatLessThanWellFounded
<1>2. PICK n \in T : \A m \in T : ~ (<<m, n>> \in R)
    BY <1>1, WFMin
<1>3. \A x, y \in Nat : <<x, y>> \in R <=> x < y
    OBVIOUS
<1>4. ASSUME NEW m \in T PROVE n <= m
  <2>1. ~ (<<m, n>> \in R) /\ m \in Nat /\ n \in Nat
      BY <1>2
  <2>2. ~ (m < n)
      BY <1>3, <2>1
  <2> QED BY <2>1, <2>2
<1> QED BY <1>4

(* Induction over the numbers up to N. *)
LEMMA InductionUpTo ==
    ASSUME NEW N \in Nat, NEW S, 0 \in S,
           \A n \in 0 .. N : n < N /\ n \in S => n + 1 \in S
    PROVE  0 .. N \subseteq S
<1> SUFFICES ASSUME (0 .. N) \ S # {} PROVE FALSE
    OBVIOUS
<1> DEFINE T == (0 .. N) \ S
<1>1. PICK n \in T : \A m \in T : n <= m
  <2>1. T \subseteq Nat /\ T # {}
      OBVIOUS
  <2> HIDE DEF T
  <2> QED BY <2>1, LeastNumber
<1>2. n # 0 /\ n - 1 \in 0 .. N /\ n - 1 < N /\ n - 1 \in S
    BY <1>1
<1> QED BY <1>1, <1>2

\* f is v0 at 0, and each further value is made from the one before it.
Iterates(f, v0, N, D) == \A k \in 0 .. N : f[k] = IF k = 0 THEN v0 ELSE D[<<k, f[k - 1]>>]

(* Every recursion on 0 .. N has a solution. *)
LEMMA Iteration ==
    ASSUME NEW V, NEW v0 \in V, NEW N \in Nat, NEW D \in [(1 .. N) \X V -> V]
    PROVE  \E f \in [0 .. N -> V] : Iterates(f, v0, N, D)
<1> DEFINE Solved(n) ==
              \E f \in [0 .. n -> V] :
                 \A k \in 0 .. n : f[k] = IF k = 0 THEN v0 ELSE D[<<k, f[k - 1]>>]
           S == {n \in 0 .. N : Solved(n)}
<1>1. Solved(0)
  <2> DEFINE f == [k \in 0 .. 0 |-> v0]
  <2>1. f \in [0 .. 0 -> V] /\ \A k \in 0 .. 0 : f[k] = IF k = 0 THEN v0 ELSE D[<<k, f[k - 1]>>]
      OBVIOUS
  <2> QED BY <2>1
<1>2. ASSUME NEW n \in 0 .. N, n < N, Solved(n) PROVE Solved(n + 1)
  <2>1. PICK f \in [0 .. n -> V] :
           \A k \in 0 .. n : f[k] = IF k = 0 THEN v0 ELSE D[<<k, f[k - 1]>>]
      BY <1>2
  <2>2. D[<<n + 1, f[n]>>] \in V
    <3>1. n + 1 \in 1 .. N /\ f[n] \in V
        BY <1>2
    <3> QED BY <3>1
  <2> DEFINE g == [k \in 0 .. n + 1 |-> IF k = n + 1 THEN D[<<n + 1, f[n]>>] ELSE f[k]]
  <2>3. g \in [0 .. n + 1 -> V]
    <3>1. \A k \in 0 .. n + 1 : k # n + 1 => k \in 0 .. n
        BY <1>2
    <3> QED BY <2>2, <3>1
  <2>4. ASSUME NEW k \in 0 .. n + 1
        PROVE  g[k] = IF k = 0 THEN v0 ELSE D[<<k, g[k - 1]>>]
    <3>1. CASE k = n + 1
      <4>1. k # 0 /\ k - 1 = n /\ n \in 0 .. n + 1 /\ n # n + 1
          BY <1>2, <3>1
      <4>2. g[k] = D[<<n + 1, f[n]>>] /\ g[n] = f[n]
          BY <3>1, <4>1
      <4> HIDE DEF g
      <4> QED BY <3>1, <4>1, <4>2
    <3>2. CASE k # n + 1
      <4>1. k \in 0 .. n
          BY <1>2, <3>2
      <4>2. g[k] = f[k] /\ (k # 0 => k - 1 \in 0 .. n + 1 /\ k - 1 # n + 1 /\ g[k - 1] = f[k - 1])
          BY <1>2, <3>2
      <4> HIDE DEF g
      <4> QED BY <2>1, <4>1, <4>2
    <3> QED BY <3>1, <3>2
  <2> HIDE DEF g
  <2> QED BY <2>3, <2>4
<1>3. N \in S
  <2>1. 0 \in S
      BY <1>1
  <2>2. \A n \in 0 .. N : n < N /\ n \in S => n + 1 \in S
      BY <1>2
  <2> HIDE DEF S
  <2> QED BY <2>1, <2>2, InductionUpTo
<1> QED BY <1>3 DEF Iterates
=============================================================================
