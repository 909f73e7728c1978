------------------------------ MODULE Recursion ------------------------------
(***************************************************************************)
(* Induction over the natural numbers and the existence of functions that  *)
(* are defined by recursion over them, from the fact that < is             *)
(* well-founded.  The predicate of an induction is the set of the numbers  *)
(* it holds for.                                                           *)
(***************************************************************************)
EXTENDS Integers, WellFoundedInduction, TLAPS

(* Every set of natural numbers that is not empty has a least element. *)
LEMMA LeastNat ==
  ASSUME NEW T \in SUBSET Nat, T # {}
  PROVE  \E m \in T : \A k \in T : m <= k
<1>1. PICK m \in T : \A k \in T : ~ (<<k, m>> \in OpToRel(<, Nat))
  BY NatLessThanWellFounded, WFMin
<1>2. ASSUME NEW k \in T PROVE m <= k
  <2>1. <<k, m>> \notin OpToRel(<, Nat)
    BY <1>1
  <2> QED
    BY <2>1 DEF OpToRel
<1> QED
  BY <1>2

(* A set that has 0 and with each number the next one has them all. *)
LEMMA InductionNat ==
  ASSUME NEW T, 0 \in T, \A n \in Nat : n \in T => n + 1 \in T
  PROVE  Nat \subseteq T
<1> SUFFICES ASSUME Nat \ T # {} PROVE FALSE
  OBVIOUS
<1>1. PICK m \in Nat \ T : \A k \in Nat \ T : m <= k
  BY LeastNat
<1>2. m # 0 /\ m - 1 \in Nat /\ m - 1 \in T
  BY <1>1
<1> QED
  BY <1>1, <1>2

(* f follows the recursion from a by step up to n. *)
Follows(f, n, a, step, V) ==
  /\ f \in [0 .. n -> V]
  /\ f[0] = a
  /\ \A i \in 0 .. n - 1 : f[i + 1] = step[<<i, f[i]>>]

LEMMA FollowsUnique ==
  ASSUME NEW V, NEW a, NEW step, NEW n \in Nat, NEW f, NEW g,
         Follows(f, n, a, step, V), Follows(g, n, a, step, V)
  PROVE  f = g
<1> DEFINE T == {i \in Nat : i <= n => f[i] = g[i]}
<1>1. 0 \in T
  BY DEF Follows
<1>2. ASSUME NEW i \in Nat, i \in T PROVE i + 1 \in T
  <2>1. CASE i + 1 <= n
    <3>1. i \in 0 .. n - 1 /\ f[i] = g[i]
      BY <1>2, <2>1
    <3>2. f[i + 1] = step[<<i, f[i]>>] /\ g[i + 1] = step[<<i, g[i]>>]
      BY <3>1 DEF Follows
    <3> QED
      BY <3>1, <3>2
  <2> QED
    BY <2>1
<1> HIDE DEF T
<1>3. Nat \subseteq T
  BY <1>1, <1>2, InductionNat
<1>4. \A i \in 0 .. n : f[i] = g[i]
  BY <1>3 DEF T
<1> QED
  BY <1>4 DEF Follows

LEMMA FollowsExists ==
  ASSUME NEW V, NEW a \in V, NEW step \in [Nat \X V -> V], NEW n \in Nat
  PROVE  \E f : Follows(f, n, a, step, V)
<1> DEFINE T == {k \in Nat : \E f : Follows(f, k, a, step, V)}
<1>1. 0 \in T
  <2>1. Follows([i \in 0 .. 0 |-> a], 0, a, step, V)
    BY DEF Follows
  <2> QED
    BY <2>1
<1>2. ASSUME NEW k \in Nat, k \in T PROVE k + 1 \in T
  <2>1. PICK f : Follows(f, k, a, step, V)
    BY <1>2
  <2> DEFINE g == [i \in 0 .. k + 1 |-> IF i <= k THEN f[i] ELSE step[<<k, f[k]>>]]
  <2>2. f[k] \in V /\ step[<<k, f[k]>>] \in V
    BY <2>1 DEF Follows
  <2>3. g \in [0 .. k + 1 -> V]
    BY <2>1, <2>2 DEF Follows
  <2>4. g[0] = a
    BY <2>1 DEF Follows
  <2>5. ASSUME NEW i \in 0 .. (k + 1) - 1 PROVE g[i + 1] = step[<<i, g[i]>>]
    <3>1. CASE i = k
      BY <3>1
    <3>2. CASE i # k
      <4>1. i \in 0 .. k - 1 /\ i + 1 <= k /\ i <= k /\ i \in 0 .. k + 1 /\ i + 1 \in 0 .. k + 1
        BY <3>2
      <4> QED
        BY <4>1, <2>1 DEF Follows
    <3> QED
      BY <3>1, <3>2
  <2> HIDE DEF g
  <2>6. Follows(g, k + 1, a, step, V)
    BY <2>3, <2>4, <2>5 DEF Follows
  <2> QED
    BY <2>6
<1> HIDE DEF T
<1>3. Nat \subseteq T
  BY <1>1, <1>2, InductionNat
<1> QED
  BY <1>3 DEF T

(* g follows it through all numbers. *)
FollowsAll(g, a, step, V) ==
  /\ g \in [Nat -> V]
  /\ g[0] = a
  /\ \A n \in Nat : g[n + 1] = step[<<n, g[n]>>]

(* A first value and a step make a function on all numbers. *)
LEMMA PrimitiveRecursion ==
  ASSUME NEW V, NEW a \in V, NEW step \in [Nat \X V -> V]
  PROVE  \E g : FollowsAll(g, a, step, V)
<1> DEFINE F(n) == CHOOSE f : Follows(f, n, a, step, V)
           g == [n \in Nat |-> F(n)[n]]
<1>1. ASSUME NEW n \in Nat PROVE Follows(F(n), n, a, step, V)
  BY FollowsExists
<1> HIDE DEF F
<1>2. g \in [Nat -> V]
  BY <1>1 DEF Follows
<1>3. g[0] = a
  BY <1>1 DEF Follows
<1>4. ASSUME NEW n \in Nat PROVE g[n + 1] = step[<<n, g[n]>>]
  <2> DEFINE h == [i \in 0 .. n |-> F(n + 1)[i]]
  <2>1. Follows(F(n + 1), n + 1, a, step, V)
    BY <1>1
  <2>2. Follows(h, n, a, step, V)
    BY <2>1 DEF Follows
  <2>3. h = F(n)
    BY <1>1, <2>2, FollowsUnique
  <2>4. F(n)[n] = F(n + 1)[n]
    BY <2>3
  <2>5. F(n + 1)[n + 1] = step[<<n, F(n + 1)[n]>>]
    BY <2>1 DEF Follows
  <2> QED
    BY <2>4, <2>5
<1> HIDE DEF g
<1>5. FollowsAll(g, a, step, V)
  BY <1>2, <1>3, <1>4 DEF FollowsAll
<1> QED
  BY <1>5
=============================================================================
