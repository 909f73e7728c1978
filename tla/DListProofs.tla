----------------------------- MODULE DListProofs -----------------------------
(***************************************************************************)
(* The list stays whole through any sequence of calls and callbacks, for   *)
(* every set of nodes and keys and every number of cursors.                *)
(***************************************************************************)
EXTENDS DList, SequenceTheorems, FiniteSetTheorems, Recursion

(* All that is shown; each part of it is needed for another one: a cursor   *)
(* is moved to a neighbour, a neighbour is in the list because the chains   *)
(* agree, the search meets every key because no node is lost.               *)
Inv == TypeOK /\ WellLinked /\ NoDangling /\ DistinctKeys

-----------------------------------------------------------------------------
(* Nodes and reachability. *)
LEMMA NullIsNoNode == NULL \notin Nodes
BY DListAssumption

(* From a node in the list only nodes in the list are met. *)
LEMMA ReachIsLive ==
  ASSUME TypeOK, Neighbours, NEW x \in live \union {NULL}
  PROVE  Reach(x) \subseteq live
<1>1. live \in SUBSET Nodes /\ Closed(live)
  BY DEF TypeOK, Neighbours, Closed
<1> QED
  BY <1>1 DEF Reach

(* What is closed under n and holds the head holds the whole list. *)
LEMMA WholeList ==
  ASSUME TypeOK, NoLeak, NEW S \in SUBSET Nodes, head \in S, Closed(S)
  PROVE  live \subseteq S
BY NullIsNoNode DEF TypeOK, NoLeak, Reach

LEMMA EmptyList ==
  ASSUME TypeOK, NoLeak, head = NULL
  PROVE  live = {}
BY DEF TypeOK, NoLeak, Reach

LEMMA FoundIsLive ==
  ASSUME TypeOK, WellLinked, NEW k \in Keys
  PROVE  Found(k) = {p \in live : userData[p] = k}
<1>1. Reach(head) = live
  BY ReachIsLive DEF WellLinked, NoLeak, Neighbours
<1> QED
  BY <1>1 DEF Found

LEMMA LiveIsFinite ==
  ASSUME TypeOK
  PROVE  IsFiniteSet(live) /\ Cardinality(live) \in Nat
BY DListAssumption, FS_Subset, FS_CardinalityType DEF TypeOK

(* Behind every node met after the first there is one met before it. *)
LEMMA ReachBack ==
  ASSUME TypeOK, Neighbours, NEW q \in live, NEW x \in Reach(q), x # q
  PROVE  f[x] \in Reach(q)
<1>1. q \in Nodes /\ q # NULL /\ x \in live /\ x \in Nodes
  BY ReachIsLive, NullIsNoNode DEF TypeOK
<1>2. SUFFICES ASSUME NEW S \in SUBSET Nodes, q \in S, Closed(S), f[x] \notin S
               PROVE  FALSE
  <2>1. live \in SUBSET Nodes /\ q \in live /\ Closed(live)
    BY DEF TypeOK, Neighbours, Closed
  <2>2. \A S \in SUBSET Nodes : q \in S /\ Closed(S) => f[x] \in S
    BY <1>2
  <2>3. f[x] \in Nodes
    BY <2>1, <2>2 DEF TypeOK
  <2> QED
    BY <1>1, <2>2, <2>3 DEF Reach
<1> DEFINE T == (S \intersect live) \ {x}
<1>3. q \in T
  BY <1>2
<1>4. Closed(T)
  BY <1>1, <1>2 DEF Closed, Neighbours
<1>5. T \in SUBSET Nodes
  OBVIOUS
<1>6. x \in T
  BY <1>1, <1>3, <1>4, <1>5 DEF Reach
<1> QED
  BY <1>6

(* The chain never comes back to where it started. *)
LEMMA NoCycle ==
  ASSUME TypeOK, WellLinked, NEW q \in live, NEW r \in Reach(q)
  PROVE  n[r] # q
<1>1. SUFFICES ASSUME n[r] = q
               PROVE  FALSE
  OBVIOUS
<1>2. /\ Neighbours /\ NoLeak
      /\ Reach(q) \subseteq live /\ q \in Nodes /\ q # NULL /\ r \in live
      /\ r \in Nodes /\ r # NULL
  BY ReachIsLive, NullIsNoNode DEF WellLinked, TypeOK
<1>3. f[q] = r
  BY <1>1, <1>2 DEF Neighbours
<1>4. head \in live /\ f[head] = NULL
  BY <1>2, EmptyList DEF Neighbours
<1>5. head \in live \ Reach(q)
  <2>1. head # q
    BY <1>2, <1>3, <1>4
  <2>2. CASE head \in Reach(q)
    <3>1. f[head] \in Reach(q)
      BY <1>2, <2>1, <2>2, ReachBack
    <3>2. NULL \in live
      BY <1>2, <1>4, <3>1
    <3> QED
      BY <3>2, NullIsNoNode DEF TypeOK
  <2> QED
    BY <1>4, <2>2
<1>6. Closed(live \ Reach(q))
  <2>1. SUFFICES ASSUME NEW x \in live \ Reach(q), n[x] # NULL, n[x] \in Reach(q)
                 PROVE  FALSE
    BY <1>2 DEF Closed, Neighbours
  <2>2. f[n[x]] = x
    BY <1>2, <2>1 DEF Neighbours
  <2>3. n[x] # q
    BY <1>3, <2>1, <2>2
  <2>4. f[n[x]] \in Reach(q)
    BY <1>2, <2>1, <2>3, ReachBack
  <2> QED
    BY <2>1, <2>2, <2>4
<1>7. live \subseteq live \ Reach(q)
  BY <1>2, <1>5, <1>6, WholeList DEF TypeOK
<1>8. q \in Reach(q)
  BY <1>2 DEF Reach
<1> QED
  BY <1>7, <1>8

-----------------------------------------------------------------------------
(* One lemma per call. *)
LEMMA InitInv ==
  ASSUME Init
  PROVE  Inv
<1>1. TypeOK
  <2>1. DOMAIN frames = {} /\ frames \in Seq(Steps)
    BY DEF Init
  <2> QED
    BY <2>1 DEF Init, TypeOK
<1>2. WellLinked
  BY FS_EmptySet DEF Init, WellLinked, Neighbours, NoLeak
<1> QED
  BY <1>1, <1>2 DEF Init, Inv, NoDangling, DistinctKeys

LEMMA AddInv ==
  ASSUME Inv, NEW k \in Keys, Add(k)
  PROVE  Inv'
<1> USE DEF Inv
<1>1. PICK p \in Nodes \ live :
        /\ live' = live \union {p}
        /\ userData' = [userData EXCEPT ![p] = k]
        /\ n' = [n EXCEPT ![p] = head]
        /\ f' = [q \in Nodes |-> IF q = p THEN NULL
                                 ELSE IF q = head THEN p ELSE f[q]]
        /\ head' = p
  BY DEF Add
<1>2. cnt' = cnt + 1 /\ UNCHANGED stepVars
  BY DEF Add
<1>3. p \in Nodes /\ p \notin live /\ p # NULL
  BY <1>1, NullIsNoNode
<1>4. TypeOK'
  BY <1>1, <1>2, <1>3 DEF TypeOK, stepVars
<1>5. Neighbours'
  <2>1. \A r \in live : r \in Nodes /\ r # p /\ n'[r] = n[r]
    BY <1>1, <1>3 DEF TypeOK
  <2>2. n'[p] = head /\ f'[p] = NULL
    BY <1>1, <1>3 DEF TypeOK
  <2>3. \A r \in live : f'[r] = IF r = head THEN p ELSE f[r]
    BY <1>1, <2>1
  <2>4. head # NULL => head \in live /\ f[head] = NULL
    BY DEF WellLinked, Neighbours
  <2>5. ASSUME NEW r \in live
        PROVE  /\ n[r] # NULL => n[r] \in live /\ f[n[r]] = r /\ n[r] # head
               /\ f[r] # NULL => f[r] \in live /\ n[f[r]] = r
               /\ f[r] = NULL => r = head
    <3>1. r # NULL
      BY <2>1, NullIsNoNode
    <3> QED
      BY <3>1 DEF WellLinked, Neighbours
  <2>6. ASSUME NEW r \in live
        PROVE  /\ n'[r] # NULL => n'[r] \in live' /\ f'[n'[r]] = r
               /\ f'[r] # NULL => f'[r] \in live' /\ n'[f'[r]] = r
               /\ f'[r] = NULL => r = p
    BY <1>1, <1>3, <2>1, <2>2, <2>3, <2>5
  <2>7. /\ n'[p] # NULL => n'[p] \in live' /\ f'[n'[p]] = p
        /\ f'[p] = NULL
    BY <1>1, <2>2, <2>3, <2>4
  <2> QED
    BY <1>1, <2>6, <2>7 DEF Neighbours
<1>6. NoLeak'
  <2>1. SUFFICES ASSUME NEW x \in live', NEW S \in SUBSET Nodes, p \in S, Closed(S)'
                 PROVE  x \in S
    BY <1>1, <1>3, <1>4 DEF NoLeak, Reach, TypeOK
  <2>2. CASE x = p
    BY <2>1, <2>2
  <2>3. CASE x \in live
    <3>1. head # NULL /\ head \in live
      BY <2>3, EmptyList DEF WellLinked, Neighbours
    <3>2. n'[p] = head
      BY <1>1, <1>3 DEF TypeOK
    <3>3. head \in S
      BY <2>1, <3>1, <3>2 DEF Closed
    <3> DEFINE T == S \intersect live
    <3>4. \A r \in T : n'[r] = n[r]
      BY <1>1, <1>3 DEF TypeOK
    <3>5. Closed(T)
      BY <2>1, <3>4 DEF Closed, WellLinked, Neighbours
    <3>6. live \subseteq T
      BY <3>1, <3>3, <3>5, WholeList DEF WellLinked
    <3> QED
      BY <2>3, <3>6
  <2> QED
    BY <1>1, <2>2, <2>3
<1>7. (cnt = Cardinality(live))'
  BY <1>1, <1>2, <1>3, LiveIsFinite, FS_AddElement DEF WellLinked
<1>8. NoDangling'
  BY <1>1, <1>2 DEF NoDangling, stepVars
<1>9. DistinctKeys'
  <2>1. \A q \in live : userData[q] # k /\ userData'[q] = userData[q]
    BY <1>1, <1>3, FoundIsLive DEF Add, TypeOK
  <2>2. userData'[p] = k
    BY <1>1, <1>3 DEF TypeOK
  <2> QED
    BY <1>1, <2>1, <2>2 DEF DistinctKeys
<1> QED
  BY <1>4, <1>5, <1>6, <1>7, <1>8, <1>9 DEF WellLinked

LEMMA DelInv ==
  ASSUME Inv, NEW k \in Keys, Del(k)
  PROVE  Inv'
<1> USE DEF Inv
<1>1. PICK p \in Found(k) :
        /\ MoveCursors({p}, n[p])
        /\ head' = IF f[p] = NULL THEN n[p] ELSE head
        /\ n' = IF f[p] = NULL THEN n ELSE [n EXCEPT ![f[p]] = n[p]]
        /\ f' = IF n[p] = NULL THEN f ELSE [f EXCEPT ![n[p]] = f[p]]
        /\ live' = live \ {p}
        /\ cnt' = cnt - 1
        /\ UNCHANGED <<userData, useF, frames>>
  BY DEF Del
<1>2. p \in live /\ p \in Nodes /\ p # NULL
  BY <1>1, FoundIsLive, NullIsNoNode DEF TypeOK
<1>3. /\ n[p] # NULL => n[p] \in live /\ n[p] \in Nodes /\ f[n[p]] = p
      /\ f[p] # NULL => f[p] \in live /\ f[p] \in Nodes /\ n[f[p]] = p
      /\ f[p] = NULL => p = head
  BY <1>2 DEF WellLinked, Neighbours, TypeOK
<1>4. (cnt = Cardinality(live))' /\ cnt' \in Nat
  <2>1. IsFiniteSet(live) /\ Cardinality(live) \in Nat /\ cnt = Cardinality(live)
    BY LiveIsFinite DEF WellLinked
  <2>2. /\ IsFiniteSet(live \ {p})
        /\ Cardinality(live \ {p}) = Cardinality(live) - 1
    BY <1>2, <2>1, FS_RemoveElement
  <2>3. Cardinality(live \ {p}) \in Nat
    BY <2>2, FS_CardinalityType
  <2> QED
    BY <1>1, <2>1, <2>2, <2>3
<1>5. TypeOK'
  <2>1. use' \in [Steps -> Nodes \union {NULL}]
    BY <1>1, <1>2, <1>3 DEF MoveCursors, TypeOK
  <2>2. head' \in Nodes \union {NULL} /\ n' \in [Nodes -> Nodes \union {NULL}]
        /\ f' \in [Nodes -> Nodes \union {NULL}]
    BY <1>1, <1>2, <1>3 DEF TypeOK
  <2> QED
    BY <1>1, <1>4, <2>1, <2>2 DEF TypeOK
<1>5a. n[p] # p
  BY <1>2, NoCycle DEF Reach
<1>6. ASSUME NEW r \in live, r # p
      PROVE  /\ n'[r] = IF r = f[p] THEN n[p] ELSE n[r]
             /\ f'[r] = IF r = n[p] THEN f[p] ELSE f[r]
             /\ r # f[p] => n[r] # p
             /\ r # n[p] => f[r] # p
             /\ r \in Nodes /\ r # NULL
  <2>1. r \in Nodes /\ r # NULL
    BY NullIsNoNode DEF TypeOK
  <2>2. n'[r] = IF r = f[p] THEN n[p] ELSE n[r]
    BY <1>1, <1>3, <2>1 DEF TypeOK
  <2>3. f'[r] = IF r = n[p] THEN f[p] ELSE f[r]
    BY <1>1, <1>3, <2>1 DEF TypeOK
  <2>4. (r # f[p] => n[r] # p) /\ (r # n[p] => f[r] # p)
    BY <1>2 DEF WellLinked, Neighbours
  <2> QED
    BY <2>1, <2>2, <2>3, <2>4
<1>7. Neighbours'
  <2>1. n[p] # p /\ f[p] # p
    BY <1>2, <1>3, <1>5a
  <2>2. head' # NULL => head' \in live' /\ f'[head'] = NULL
    <3>1. CASE f[p] = NULL
      BY <1>1, <1>3, <1>6, <2>1, <3>1
    <3>2. CASE f[p] # NULL
      <4>1. head' = head /\ head # NULL /\ head \in live
        BY <1>1, <1>2, <3>2, EmptyList DEF WellLinked, Neighbours
      <4>2. f[head] = NULL /\ head # p
        BY <4>1, <3>2 DEF WellLinked, Neighbours
      <4>3. head # n[p]
        BY <1>2, <1>3, <4>1, <4>2
      <4> QED
        BY <1>1, <1>6, <4>1, <4>2, <4>3
    <3> QED
      BY <3>1, <3>2
  <2>3. ASSUME NEW r \in live, r # p
        PROVE  /\ n'[r] # NULL => n'[r] \in live' /\ f'[n'[r]] = r
               /\ f'[r] # NULL => f'[r] \in live' /\ n'[f'[r]] = r
               /\ f'[r] = NULL => r = head'
    <3>1. /\ n[r] # NULL => n[r] \in live /\ f[n[r]] = r
          /\ f[r] # NULL => f[r] \in live /\ n[f[r]] = r
          /\ f[r] = NULL => r = head
      BY <2>3 DEF WellLinked, Neighbours
    <3>2. n'[r] # NULL => n'[r] \in live' /\ f'[n'[r]] = r
      <4>1. CASE r = f[p]
        BY <1>1, <1>2, <1>3, <1>6, <2>1, <2>3, <4>1
      <4>2. CASE r # f[p]
        BY <1>1, <1>2, <1>3, <1>6, <2>3, <3>1, <4>2
      <4> QED
        BY <4>1, <4>2
    <3>3. f'[r] # NULL => f'[r] \in live' /\ n'[f'[r]] = r
      <4>1. CASE r = n[p]
        BY <1>1, <1>2, <1>3, <1>6, <2>1, <2>3, <4>1
      <4>2. CASE r # n[p]
        BY <1>1, <1>2, <1>3, <1>6, <2>3, <3>1, <4>2
      <4> QED
        BY <4>1, <4>2
    <3>4. f'[r] = NULL => r = head'
      <4>1. CASE r = n[p]
        BY <1>1, <1>6, <2>3, <4>1
      <4>2. CASE r # n[p]
        BY <1>1, <1>3, <1>6, <2>3, <3>1, <4>2
      <4> QED
        BY <4>1, <4>2
    <3> QED
      BY <3>2, <3>3, <3>4
  <2> QED
    BY <1>1, <2>2, <2>3 DEF Neighbours
<1>8. NoLeak'
  <2>1. SUFFICES ASSUME NEW x \in live', NEW S \in SUBSET Nodes,
                        head' # NULL => head' \in S, Closed(S)'
                 PROVE  x \in S
    <3>1. live' # {} => head' # NULL
      <4>1. CASE f[p] = NULL
        <5>1. CASE n[p] = NULL
          <6>1. Closed({p}) /\ head \in {p} /\ {p} \in SUBSET Nodes
            BY <1>2, <1>3, <4>1, <5>1 DEF Closed
          <6>2. live \subseteq {p}
            BY <6>1, WholeList DEF WellLinked
          <6> QED
            BY <1>1, <6>2
        <5> QED
          BY <1>1, <4>1, <5>1
      <4> QED
        BY <1>1, <1>2, <4>1, EmptyList DEF WellLinked
    <3>2. live' \subseteq Nodes
      BY <1>5 DEF TypeOK
    <3> QED
      BY <2>1, <3>1, <3>2 DEF NoLeak, Reach
  <2>2. x \in live /\ x # p
    BY <1>1
  <2> DEFINE before == f[p] = NULL \/ f[p] \in S
             T == IF before THEN (S \intersect live) \union {p} ELSE (S \intersect live) \ {p}
  <2>3. head \in T
    <3>1. CASE f[p] = NULL
      BY <1>3, <3>1
    <3>2. CASE f[p] # NULL
      <4>1. head' = head /\ head \in live /\ head # p /\ head # NULL
        BY <1>1, <1>2, <3>2, EmptyList DEF WellLinked, Neighbours
      <4> QED
        BY <2>1, <4>1
    <3> QED
      BY <3>1, <3>2
  <2>4. Closed(T)
    <3>1. SUFFICES ASSUME NEW r \in T, n[r] # NULL
                   PROVE  n[r] \in T
      BY DEF Closed
    <3>2. r \in live /\ n[r] \in live
      BY <1>2, <3>1 DEF WellLinked, Neighbours
    <3>3. CASE r = p
      <4>1. before
        BY <3>1, <3>3
      <4>2. CASE f[p] = NULL
        <5>1. n[p] \in S
          BY <1>1, <2>1, <3>1, <3>3, <4>2
        <5> QED
          BY <3>2, <3>3, <4>1, <5>1
      <4>3. CASE f[p] # NULL
        <5>1. f[p] \in S /\ f[p] \in Nodes /\ f[p] # NULL
          BY <1>3, <4>1, <4>3
        <5>2. n'[f[p]] = n[p]
          BY <1>1, <4>3, <5>1 DEF TypeOK
        <5>3. n[p] \in S
          BY <2>1, <3>1, <3>3, <5>1, <5>2 DEF Closed
        <5> QED
          BY <3>2, <3>3, <4>1, <5>3
      <4> QED
        BY <4>2, <4>3
    <3>4. CASE r # p /\ r = f[p]
      <4>1. r \in S /\ r # NULL
        BY <3>1, <3>2, <3>4, NullIsNoNode DEF TypeOK
      <4>2. n[r] = p
        BY <1>3, <3>4, <4>1
      <4> QED
        BY <3>4, <4>1, <4>2
    <3>5. CASE r # p /\ r # f[p]
      <4>1. n'[r] = n[r] /\ n[r] # p
        BY <1>6, <3>2, <3>5
      <4>2. r \in S
        BY <3>1, <3>5
      <4>3. n[r] \in S
        BY <2>1, <3>1, <4>1, <4>2 DEF Closed
      <4> QED
        BY <3>2, <4>1, <4>3
    <3> QED
      BY <3>3, <3>4, <3>5
  <2>5. T \in SUBSET Nodes
    BY <1>2
  <2>6. live \subseteq T
    BY <2>3, <2>4, <2>5, WholeList DEF WellLinked
  <2> QED
    BY <2>2, <2>6
<1>9. NoDangling'
  <2>2. n[p] \in live' \union {NULL}
    BY <1>1, <1>3, <1>5a
  <2> QED
    BY <1>1, <2>2 DEF NoDangling, MoveCursors, TypeOK
<1>10. DistinctKeys'
  BY <1>1 DEF DistinctKeys
<1> QED
  BY <1>4, <1>5, <1>7, <1>8, <1>9, <1>10 DEF WellLinked

LEMMA ClearInv ==
  ASSUME Inv, NEW q \in Nodes \union {NULL}, Clear(q)
  PROVE  Inv'
<1> USE DEF Inv
<1> DEFINE gone == Reach(head) \ Reach(q)
<1>1. /\ q \in Reach(head) \union {NULL}
      /\ MoveCursors(gone, q)
      /\ head' = q
      /\ f' = IF q = NULL THEN f ELSE [f EXCEPT ![q] = NULL]
      /\ live' = live \ gone
      /\ cnt' = cnt - Cardinality(gone)
      /\ UNCHANGED <<n, userData, useF, frames>>
  BY DEF Clear
<1>2. Reach(head) = live /\ q \in live \union {NULL} /\ Reach(q) \subseteq live
  <2>1. Reach(head) = live
    BY ReachIsLive DEF WellLinked, NoLeak, Neighbours
  <2> QED
    BY <1>1, <2>1, ReachIsLive DEF WellLinked
<1>3. live' = Reach(q)
  BY <1>1, <1>2
<1>4. q # NULL => q \in Reach(q)
  BY <1>2 DEF Reach, TypeOK
<1>5. (cnt = Cardinality(live))' /\ cnt' \in Nat
  <2>1. IsFiniteSet(live) /\ Cardinality(live) \in Nat /\ cnt = Cardinality(live)
    BY LiveIsFinite DEF WellLinked
  <2>2. /\ IsFiniteSet(live \ gone)
        /\ Cardinality(live \ gone) = Cardinality(live) - Cardinality(live \intersect gone)
    BY <2>1, FS_Difference
  <2>3. live \intersect gone = gone
    BY <1>2
  <2>4. Cardinality(live \ gone) \in Nat
    BY <2>2, FS_CardinalityType
  <2> QED
    BY <1>1, <2>1, <2>2, <2>3, <2>4
<1>6. TypeOK'
  <2>1. use' \in [Steps -> Nodes \union {NULL}]
    BY <1>1 DEF MoveCursors, TypeOK
  <2>2. f' \in [Nodes -> Nodes \union {NULL}]
    BY <1>1 DEF TypeOK
  <2> QED
    BY <1>1, <1>5, <2>1, <2>2 DEF TypeOK
<1>7. Neighbours'
  <2>1. SUFFICES ASSUME NEW r \in Reach(q)
                 PROVE  /\ n'[r] # NULL => n'[r] \in live' /\ f'[n'[r]] = r
                        /\ f'[r] # NULL => f'[r] \in live' /\ n'[f'[r]] = r
                        /\ f'[r] = NULL => r = q
    <3>1. q # NULL => f'[q] = NULL
      BY <1>1 DEF TypeOK
    <3> QED
      BY <1>1, <1>3, <1>4, <3>1 DEF Neighbours
  <2>2. /\ r \in live /\ r \in Nodes /\ r # NULL
        /\ q # NULL /\ q \in live /\ q \in Nodes
    BY <1>2, NullIsNoNode DEF Reach, TypeOK
  <2>3. /\ n[r] # NULL => n[r] \in live /\ n[r] \in Nodes /\ f[n[r]] = r
        /\ f[r] # NULL => f[r] \in live /\ n[f[r]] = r
        /\ f[r] = NULL => r = head
    BY <2>2 DEF WellLinked, Neighbours, TypeOK
  <2>4. n[r] # NULL => n[r] \in Reach(q)
    BY <2>2, <2>3 DEF Reach, Closed
  <2>5. n[r] # q
    BY <2>2, NoCycle
  <2>6. f'[r] = IF r = q THEN NULL ELSE f[r]
    BY <1>1, <2>2 DEF TypeOK
  <2>7. n[r] # NULL => f'[n[r]] = f[n[r]]
    BY <1>1, <2>2, <2>3, <2>5 DEF TypeOK
  <2>8. r # q => f[r] \in Reach(q) /\ f[r] # NULL
    <3>1. r # q => f[r] \in Reach(q)
      BY <2>2, ReachBack DEF WellLinked
    <3> QED
      BY <1>2, <3>1, NullIsNoNode DEF TypeOK
  <2> QED
    BY <1>1, <1>3, <2>3, <2>4, <2>6, <2>7, <2>8
<1>8. NoLeak'
  <2>1. (Reach(head))' = Reach(q)
    BY <1>1 DEF Reach, Closed
  <2> QED
    BY <1>3, <2>1 DEF NoLeak
<1>9. NoDangling'
  <2>1. \A i \in Steps : use'[i] = IF useF[i] /\ use[i] \in gone THEN q ELSE use[i]
    BY <1>1 DEF MoveCursors
  <2> QED
    BY <1>1, <1>2, <1>3, <1>4, <2>1 DEF NoDangling
<1>10. DistinctKeys'
  BY <1>1 DEF DistinctKeys
<1> QED
  BY <1>5, <1>6, <1>7, <1>8, <1>9, <1>10 DEF WellLinked

-----------------------------------------------------------------------------
(* The calls that only move cursors leave the nodes alone. *)
LEMMA NodesUnchanged ==
  ASSUME WellLinked, DistinctKeys, UNCHANGED nodeVars
  PROVE  WellLinked' /\ DistinctKeys'
<1>1. /\ head' = head /\ cnt' = cnt /\ n' = n /\ f' = f
      /\ userData' = userData /\ live' = live
  BY DEF nodeVars
<1>2. (Reach(head))' = Reach(head)
  BY <1>1 DEF Reach, Closed
<1>3. Neighbours' /\ (cnt = Cardinality(live))'
  BY <1>1 DEF WellLinked, Neighbours
<1> QED
  BY <1>1, <1>2, <1>3 DEF WellLinked, NoLeak, DistinctKeys

(* A cursor on a node of the list, or on none, moves to such a one. *)
LEMMA NextIsLive ==
  ASSUME TypeOK, WellLinked, NEW p \in live
  PROVE  n[p] \in live \union {NULL} /\ n[p] \in Nodes \union {NULL}
BY DEF TypeOK, WellLinked, Neighbours

LEMMA FirstFrame ==
  ASSUME TypeOK, frames # <<>>
  PROVE  /\ Head(frames) \in Steps /\ useF[Head(frames)]
         /\ Tail(frames) \in Seq(Steps)
         /\ \A d \in DOMAIN Tail(frames) :
              /\ useF[Tail(frames)[d]]
              /\ Tail(frames)[d] # Head(frames)
         /\ \A d, e \in DOMAIN Tail(frames) :
              Tail(frames)[d] = Tail(frames)[e] => d = e
<1>1. frames \in Seq(Steps) /\ Len(frames) \in Nat /\ Len(frames) > 0
  BY LenProperties, EmptySeq DEF TypeOK
<1>2. /\ Head(frames) = frames[1] /\ Tail(frames) \in Seq(Steps)
      /\ Len(Tail(frames)) = Len(frames) - 1
      /\ \A d \in 1 .. Len(Tail(frames)) : Tail(frames)[d] = frames[d + 1]
  BY <1>1, HeadTailProperties
<1>3. /\ DOMAIN frames = 1 .. Len(frames)
      /\ DOMAIN Tail(frames) = 1 .. Len(frames) - 1
      /\ 1 \in 1 .. Len(frames)
  BY <1>1, <1>2
<1>4. \A d \in 1 .. Len(frames) - 1 : d + 1 \in 1 .. Len(frames) /\ d + 1 # 1
  BY <1>1
<1>5. frames[1] \in Steps /\ useF[frames[1]]
  BY <1>1, <1>3, ElementOfSeq DEF TypeOK
<1>6. \A d \in 1 .. Len(frames) - 1 : useF[frames[d + 1]] /\ frames[d + 1] # frames[1]
  BY <1>3, <1>4 DEF TypeOK
<1>7. \A d, e \in 1 .. Len(frames) - 1 : frames[d + 1] = frames[e + 1] => d = e
  <2>1. \A d, e \in 1 .. Len(frames) - 1 : frames[d + 1] = frames[e + 1] => d + 1 = e + 1
    BY <1>3, <1>4 DEF TypeOK
  <2> QED
    BY <1>1, <2>1
<1> QED
  BY <1>2, <1>3, <1>5, <1>6, <1>7

LEMMA OpenInv ==
  ASSUME Inv, NEW i \in Steps, OpenStep(i)
  PROVE  Inv'
<1> USE DEF Inv
<1>1. WellLinked' /\ DistinctKeys'
  BY NodesUnchanged DEF OpenStep
<1>2. TypeOK'
  BY DEF OpenStep, nodeVars, TypeOK
<1>3. NoDangling'
  <2>1. head \in live \union {NULL}
    BY DEF WellLinked, Neighbours
  <2> QED
    BY <2>1 DEF OpenStep, nodeVars, NoDangling, TypeOK
<1> QED
  BY <1>1, <1>2, <1>3

LEMMA FetchInv ==
  ASSUME Inv, NEW i \in Steps, FetchStep(i)
  PROVE  Inv'
<1> USE DEF Inv
<1>1. WellLinked' /\ DistinctKeys'
  BY NodesUnchanged DEF FetchStep
<1>2. use[i] \in live /\ useF[i]
  BY DEF FetchStep, Opened, NoDangling
<1>3. n[use[i]] \in live \union {NULL} /\ n[use[i]] \in Nodes \union {NULL}
  BY <1>2, NextIsLive
<1>4. TypeOK'
  BY <1>3 DEF FetchStep, nodeVars, TypeOK
<1>5. NoDangling'
  BY <1>2, <1>3 DEF FetchStep, nodeVars, NoDangling, TypeOK
<1> QED
  BY <1>1, <1>4, <1>5

LEMMA CloseInv ==
  ASSUME Inv, NEW i \in Steps, CloseStep(i)
  PROVE  Inv'
<1> USE DEF Inv
<1>1. WellLinked' /\ DistinctKeys'
  BY NodesUnchanged DEF CloseStep
<1>2. TypeOK'
  <2>1. \A d \in DOMAIN frames : frames[d] # i /\ frames[d] \in Steps
    BY ElementOfSeq DEF CloseStep, Opened, TypeOK
  <2> QED
    BY <2>1 DEF CloseStep, nodeVars, TypeOK
<1>3. NoDangling'
  BY DEF CloseStep, nodeVars, NoDangling, TypeOK
<1> QED
  BY <1>1, <1>2, <1>3

LEMMA StepCallInv ==
  ASSUME Inv, NEW i \in Steps, StepCall(i)
  PROVE  Inv'
<1> USE DEF Inv
<1>1. WellLinked' /\ DistinctKeys'
  BY NodesUnchanged DEF StepCall
<1>2. n[head] \in live \union {NULL} /\ n[head] \in Nodes \union {NULL}
  BY NextIsLive DEF StepCall, WellLinked, Neighbours
<1>3. /\ ~ useF[i] /\ frames' = <<i>> \o frames
      /\ useF' = [useF EXCEPT ![i] = TRUE] /\ use' = [use EXCEPT ![i] = n[head]]
      /\ live' = live
  BY DEF StepCall, FirstUnused, nodeVars
<1>4. /\ frames' \in Seq(Steps)
      /\ \A d \in DOMAIN frames' : useF'[frames'[d]]
      /\ \A d, e \in DOMAIN frames' : frames'[d] = frames'[e] => d = e
  <2>1. /\ frames \in Seq(Steps) /\ <<i>> \in Seq(Steps) /\ Len(frames) \in Nat
        /\ Len(<<i>>) = 1 /\ <<i>>[1] = i
    BY DEF TypeOK
  <2>2. /\ frames' \in Seq(Steps) /\ Len(frames') = Len(frames) + 1
        /\ \A d \in 1 .. Len(frames) + 1 :
             frames'[d] = IF d = 1 THEN i ELSE frames[d - 1]
    BY <1>3, <2>1, ConcatProperties
  <2>3. DOMAIN frames' = 1 .. Len(frames) + 1 /\ DOMAIN frames = 1 .. Len(frames)
    BY <2>1, <2>2
  <2>4. \A d \in 2 .. Len(frames) + 1 :
          d - 1 \in DOMAIN frames /\ frames'[d] = frames[d - 1] /\ d \in 1 .. Len(frames) + 1
    BY <2>1, <2>2, <2>3
  <2>5. \A d \in DOMAIN frames : frames[d] \in Steps /\ useF[frames[d]] /\ frames[d] # i
    BY <1>3, <2>1, <2>3, ElementOfSeq DEF TypeOK
  <2>6. \A d \in 2 .. Len(frames) + 1 : useF'[frames'[d]] /\ frames'[d] # i
    BY <1>3, <2>4, <2>5 DEF TypeOK
  <2>7. frames'[1] = i /\ useF'[i]
    BY <1>3, <2>1, <2>2 DEF TypeOK
  <2>8. \A d \in DOMAIN frames' : d = 1 \/ d \in 2 .. Len(frames) + 1
    BY <2>1, <2>3
  <2>9. \A d, e \in 2 .. Len(frames) + 1 : frames'[d] = frames'[e] => d = e
    <3>1. \A d, e \in 2 .. Len(frames) + 1 : frames'[d] = frames'[e] => d - 1 = e - 1
      BY <2>4 DEF TypeOK
    <3> QED
      BY <2>1, <3>1
  <2> QED
    BY <2>2, <2>6, <2>7, <2>8, <2>9
<1>5. TypeOK'
  BY <1>2, <1>3, <1>4 DEF StepCall, nodeVars, TypeOK
<1>6. NoDangling'
  BY <1>2, <1>3 DEF NoDangling, TypeOK
<1> QED
  BY <1>1, <1>5, <1>6

LEMMA StepNextInv ==
  ASSUME Inv, StepNext
  PROVE  Inv'
<1> USE DEF Inv
<1> DEFINE i == Head(frames)
<1>1. WellLinked' /\ DistinctKeys'
  BY NodesUnchanged DEF StepNext
<1>2. /\ frames # <<>> /\ i \in Steps /\ useF[i]
  BY FirstFrame DEF StepNext
<1>3. CASE use[i] # NULL
  <2>1. use[i] \in live
    BY <1>2, <1>3 DEF NoDangling
  <2>2. n[use[i]] \in live \union {NULL} /\ n[use[i]] \in Nodes \union {NULL}
    BY <2>1, NextIsLive
  <2>3. use' = [use EXCEPT ![i] = n[use[i]]] /\ UNCHANGED <<useF, frames, nodeVars>>
    BY <1>3 DEF StepNext
  <2>4. TypeOK'
    BY <1>2, <2>2, <2>3 DEF nodeVars, TypeOK
  <2>5. NoDangling'
    BY <1>2, <2>2, <2>3 DEF nodeVars, NoDangling, TypeOK
  <2> QED
    BY <1>1, <2>4, <2>5
<1>4. CASE use[i] = NULL
  <2>1. /\ useF' = [useF EXCEPT ![i] = FALSE] /\ frames' = Tail(frames)
        /\ UNCHANGED <<use, nodeVars>>
    BY <1>4 DEF StepNext
  <2>2. TypeOK'
    BY <1>2, <2>1, FirstFrame, ElementOfSeq DEF nodeVars, TypeOK
  <2>3. NoDangling'
    BY <1>2, <1>4, <2>1 DEF nodeVars, NoDangling, TypeOK
  <2> QED
    BY <1>1, <2>2, <2>3
<1> QED
  BY <1>3, <1>4

LEMMA StepErrorInv ==
  ASSUME Inv, StepError
  PROVE  Inv'
<1> USE DEF Inv
<1> DEFINE i == Head(frames)
<1>1. WellLinked' /\ DistinctKeys'
  BY NodesUnchanged DEF StepError
<1>2. /\ frames # <<>> /\ i \in Steps /\ useF[i]
  BY FirstFrame DEF StepError
<1>3. /\ useF' = [useF EXCEPT ![i] = FALSE] /\ frames' = Tail(frames)
      /\ use' = [use EXCEPT ![i] = NULL] /\ UNCHANGED nodeVars
  BY DEF StepError
<1>4. TypeOK'
  BY <1>2, <1>3, FirstFrame, ElementOfSeq DEF nodeVars, TypeOK
<1>5. NoDangling'
  BY <1>2, <1>3 DEF nodeVars, NoDangling, TypeOK
<1> QED
  BY <1>1, <1>4, <1>5

-----------------------------------------------------------------------------
LEMMA InvStep ==
  ASSUME Inv, [Next]_vars
  PROVE  Inv'
<1>1. CASE UNCHANGED vars
  <2>1. UNCHANGED nodeVars /\ UNCHANGED stepVars
    BY <1>1 DEF vars
  <2>2. WellLinked' /\ DistinctKeys'
    BY <2>1, NodesUnchanged DEF Inv
  <2> QED
    BY <2>1, <2>2 DEF Inv, nodeVars, stepVars, TypeOK, NoDangling
<1>2. ASSUME NEW k \in Keys, Add(k) \/ Del(k)
      PROVE  Inv'
  BY <1>2, AddInv, DelInv
<1>3. ASSUME NEW q \in Nodes \union {NULL}, Clear(q)
      PROVE  Inv'
  BY <1>3, ClearInv
<1>4. ASSUME NEW i \in Steps,
             OpenStep(i) \/ FetchStep(i) \/ CloseStep(i) \/ StepCall(i)
      PROVE  Inv'
  BY <1>4, OpenInv, FetchInv, CloseInv, StepCallInv
<1>5. CASE StepNext \/ StepError
  BY <1>5, StepNextInv, StepErrorInv
<1> QED
  BY <1>1, <1>2, <1>3, <1>4, <1>5 DEF Next

LEMMA InvAlways == Spec => []Inv
<1>1. Init => Inv
  BY InitInv
<1>2. Inv /\ [Next]_vars => Inv'
  BY InvStep
<1> QED
  BY <1>1, <1>2, PTL DEF Spec

(* The fields keep their types and no cursor serves two calls.             *)
THEOREM DListTypeCorrect == Spec => []TypeOK
BY InvAlways, PTL DEF Inv

(* The chains agree, no node is lost and cnt is the number of nodes, after  *)
(* any sequence of adds, deletes, clears and nested steps.                  *)
THEOREM StaysWhole == Spec => []WellLinked
BY InvAlways, PTL DEF Inv

(* No cursor in use ever stands on a freed node.                            *)
THEOREM CursorsSafe == Spec => []NoDangling
BY InvAlways, PTL DEF Inv

(* No key is ever in the list twice.                                        *)
THEOREM KeysDistinct == Spec => []DistinctKeys
BY InvAlways, PTL DEF Inv

-----------------------------------------------------------------------------
(* Sequences. *)
LEMMA ConsSeq ==
  ASSUME NEW V, NEW a \in V, NEW s \in Seq(V)
  PROVE  /\ <<a>> \o s \in Seq(V)
         /\ Len(<<a>> \o s) = Len(s) + 1
         /\ (<<a>> \o s)[1] = a
         /\ \A i \in 1 .. Len(s) : (<<a>> \o s)[i + 1] = s[i]
         /\ Tail(<<a>> \o s) = s
         /\ <<a>> \o s # <<>>
<1>1. <<a>> \in Seq(V) /\ Len(<<a>>) = 1 /\ <<a>>[1] = a /\ Len(s) \in Nat
  BY LenProperties
<1> DEFINE t == <<a>> \o s
<1>2. /\ t \in Seq(V) /\ Len(t) = Len(s) + 1
      /\ \A i \in 1 .. 1 + Len(s) : t[i] = IF i <= 1 THEN <<a>>[i] ELSE s[i - 1]
  BY <1>1, ConcatProperties
<1> HIDE DEF t
<1>3. t[1] = a /\ \A i \in 1 .. Len(s) : t[i + 1] = s[i]
  BY <1>1, <1>2
<1>4. t # <<>>
  BY <1>1, <1>2, EmptySeq
<1>5. Tail(t) = s
  <2>1. /\ Tail(t) \in Seq(V) /\ Len(Tail(t)) = Len(s)
        /\ \A i \in 1 .. Len(Tail(t)) : Tail(t)[i] = t[i + 1]
    BY <1>1, <1>2, <1>4, HeadTailProperties
  <2> QED
    BY <1>3, <2>1, SeqEqual
<1> QED
  BY <1>2, <1>3, <1>4, <1>5 DEF t

LEMMA ToSetSeq ==
  ASSUME NEW V, NEW s \in Seq(V)
  PROVE  L!ToSet(s) = {s[i] : i \in 1 .. Len(s)}
BY LenProperties DEF L!ToSet

LEMMA ToSetCons ==
  ASSUME NEW V, NEW a \in V, NEW s \in Seq(V)
  PROVE  L!ToSet(<<a>> \o s) = {a} \union L!ToSet(s)
<1> DEFINE t == <<a>> \o s
<1>1. /\ t \in Seq(V) /\ Len(t) = Len(s) + 1 /\ Len(s) \in Nat /\ t[1] = a
      /\ \A i \in 1 .. Len(s) : t[i + 1] = s[i]
  BY ConsSeq, LenProperties
<1> HIDE DEF t
<1>2. L!ToSet(t) = {t[i] : i \in 1 .. Len(s) + 1} /\ L!ToSet(s) = {s[i] : i \in 1 .. Len(s)}
  BY <1>1, ToSetSeq
<1>3. \A i \in 1 .. Len(s) + 1 : i = 1 \/ (i - 1 \in 1 .. Len(s) /\ t[i] = s[i - 1])
  <2>1. ASSUME NEW i \in 1 .. Len(s) + 1, i # 1 PROVE i - 1 \in 1 .. Len(s) /\ t[i] = s[i - 1]
    <3>1. i - 1 \in 1 .. Len(s) /\ (i - 1) + 1 = i
      BY <1>1, <2>1
    <3> QED
      BY <1>1, <3>1
  <2> QED
    BY <2>1
<1>4. L!ToSet(t) \subseteq {a} \union L!ToSet(s)
  <2>1. \A i \in 1 .. Len(s) + 1 : t[i] \in {a} \union L!ToSet(s)
    BY <1>1, <1>2, <1>3
  <2> QED
    BY <1>2, <2>1
<1>5. {a} \union L!ToSet(s) \subseteq L!ToSet(t)
  <2>1. 1 \in 1 .. Len(s) + 1 /\ \A i \in 1 .. Len(s) : i + 1 \in 1 .. Len(s) + 1
    BY <1>1
  <2> QED
    BY <1>1, <1>2, <2>1
<1> QED
  BY <1>4, <1>5 DEF t

(* The recursion that takes keys out of a sequence, from the front.         *)
TakesOut(F, s, S, V) ==
  /\ L!Without(s, S) = F[Len(s)]
  /\ F[0] = <<>>
  /\ \A i \in 0 .. Len(s) : F[i] \in Seq(V)
  /\ \A i \in Nat : i + 1 <= Len(s) =>
       F[i + 1] = IF s[i + 1] \in S THEN F[i] ELSE Append(F[i], s[i + 1])

LEMMA WithoutUnfold ==
  ASSUME NEW V, NEW s \in Seq(V), NEW S
  PROVE  \E F : TakesOut(F, s, S, V)
<1> DEFINE m == Len(s)
           Body(g) == [i \in 0 .. m |-> IF i = 0 THEN <<>>
                                        ELSE IF s[i] \in S THEN g[i - 1]
                                        ELSE Append(g[i - 1], s[i])]
           F == CHOOSE g : g = Body(g)
           step == [x \in Nat \X Seq(V) |->
                      IF x[1] + 1 \in 1 .. m
                      THEN IF s[x[1] + 1] \in S THEN x[2] ELSE Append(x[2], s[x[1] + 1])
                      ELSE x[2]]
<1>1. m \in Nat /\ \A i \in 1 .. m : s[i] \in V
  BY LenProperties, ElementOfSeq
<1>2. L!Without(s, S) = F[m]
  BY DEF L!Without
<1>3. step \in [Nat \X Seq(V) -> Seq(V)]
  <2>1. ASSUME NEW x \in Nat \X Seq(V) PROVE step[x] \in Seq(V)
    <3>1. x[1] \in Nat /\ x[2] \in Seq(V)
      OBVIOUS
    <3>2. CASE x[1] + 1 \in 1 .. m
      <4>1. s[x[1] + 1] \in V
        BY <1>1, <3>2
      <4>2. Append(x[2], s[x[1] + 1]) \in Seq(V)
        BY <3>1, <4>1, AppendProperties
      <4> QED
        BY <3>1, <4>2
    <3> QED
      BY <3>1, <3>2
  <2> QED
    BY <2>1
<1>4. <<>> \in Seq(V)
  OBVIOUS
<1> HIDE DEF step
<1>5. PICK g : Follows(g, m, <<>>, step, Seq(V))
  BY <1>1, <1>3, <1>4, FollowsExists
<1>6. ASSUME NEW i \in 0 .. m, i # 0
      PROVE  g[i] = IF s[i] \in S THEN g[i - 1] ELSE Append(g[i - 1], s[i])
  <2>1. i - 1 \in 0 .. m - 1 /\ (i - 1) + 1 = i /\ i \in 1 .. m /\ i - 1 \in Nat /\ i - 1 \in 0 .. m
    BY <1>1, <1>6
  <2>2. g[i] = step[<<i - 1, g[i - 1]>>] /\ g[i - 1] \in Seq(V)
    BY <1>5, <2>1 DEF Follows
  <2> QED
    BY <2>1, <2>2 DEF step
<1>7. g = [i \in 0 .. m |-> g[i]] /\ g[0] = <<>>
  BY <1>5 DEF Follows
<1>8. g = Body(g)
  BY <1>6, <1>7
<1> HIDE DEF Body
<1>9. F = Body(F)
  BY <1>8, Zenon
<1> HIDE DEF F, m
<1>10. F[0] = <<>>
  BY <1>1, <1>9 DEF Body
<1>11. ASSUME NEW i \in Nat, i + 1 <= m
       PROVE  F[i + 1] = IF s[i + 1] \in S THEN F[i] ELSE Append(F[i], s[i + 1])
  <2>1. i + 1 \in 0 .. m /\ i + 1 # 0 /\ (i + 1) - 1 = i
    BY <1>1, <1>11
  <2> QED
    BY <1>9, <2>1 DEF Body
<1> DEFINE T == {i \in Nat : i <= m => F[i] \in Seq(V)}
<1>12. 0 \in T
  BY <1>4, <1>10
<1>13. ASSUME NEW i \in Nat, i \in T PROVE i + 1 \in T
  <2> SUFFICES ASSUME i + 1 <= m PROVE F[i + 1] \in Seq(V)
    OBVIOUS
  <2>1. F[i] \in Seq(V) /\ s[i + 1] \in V
    BY <1>1, <1>13
  <2>2. Append(F[i], s[i + 1]) \in Seq(V)
    BY <2>1, AppendProperties
  <2> QED
    BY <1>11, <2>1, <2>2
<1> HIDE DEF T
<1>14. Nat \subseteq T
  BY <1>12, <1>13, InductionNat
<1>15. \A i \in 0 .. m : F[i] \in Seq(V)
  BY <1>1, <1>14 DEF T
<1>16. TakesOut(F, s, S, V)
  BY <1>2, <1>10, <1>11, <1>15 DEF m, TakesOut
<1> QED
  BY <1>16

LEMMA WithoutCons ==
  ASSUME NEW V, NEW a \in V, NEW s \in Seq(V), NEW S
  PROVE  L!Without(<<a>> \o s, S) = IF a \in S THEN L!Without(s, S)
                                    ELSE <<a>> \o L!Without(s, S)
<1> DEFINE t == <<a>> \o s
           p == IF a \in S THEN <<>> ELSE <<a>>
<1>1. /\ t \in Seq(V) /\ Len(t) = Len(s) + 1 /\ t[1] = a /\ Len(s) \in Nat
      /\ \A i \in 1 .. Len(s) : t[i + 1] = s[i]
  BY ConsSeq, LenProperties
<1>2. /\ p \in Seq(V)
      /\ a \in S => p = <<>>
      /\ a \notin S => p = <<a>>
  OBVIOUS
<1> HIDE DEF t, p
<1>2a. PICK F : TakesOut(F, t, S, V)
  BY <1>1, WithoutUnfold
<1>2b. PICK G : TakesOut(G, s, S, V)
  BY WithoutUnfold
<1>3. /\ L!Without(t, S) = F[Len(t)]
      /\ F[0] = <<>>
      /\ \A i \in Nat : i + 1 <= Len(t) =>
           F[i + 1] = IF t[i + 1] \in S THEN F[i] ELSE Append(F[i], t[i + 1])
  BY <1>2a DEF TakesOut
<1>4. /\ L!Without(s, S) = G[Len(s)]
      /\ G[0] = <<>>
      /\ \A i \in 0 .. Len(s) : G[i] \in Seq(V)
      /\ \A i \in Nat : i + 1 <= Len(s) =>
           G[i + 1] = IF s[i + 1] \in S THEN G[i] ELSE Append(G[i], s[i + 1])
  BY <1>2b DEF TakesOut
<1> DEFINE T == {i \in Nat : i <= Len(s) => F[i + 1] = p \o G[i]}
<1>4a. \A i \in Nat : i \in T <=> (i <= Len(s) => F[i + 1] = p \o G[i])
  OBVIOUS
<1> HIDE DEF T
<1>5. 0 \in T
  <2>1. F[1] = IF a \in S THEN <<>> ELSE Append(<<>>, a)
    <3>1. 0 \in Nat /\ 0 + 1 <= Len(t)
      BY <1>1
    <3>2. F[0 + 1] = IF t[0 + 1] \in S THEN F[0] ELSE Append(F[0], t[0 + 1])
      BY <1>3, <3>1
    <3> QED
      BY <1>1, <1>3, <3>2
  <2>2. Append(<<>>, a) = <<a>>
    OBVIOUS
  <2>3. F[1] = p
    BY <1>2, <2>1, <2>2
  <2>4. p \o <<>> = p
    BY <1>2, ConcatEmptySeq
  <2>5. F[0 + 1] = p \o G[0]
    BY <1>4, <2>3, <2>4
  <2> QED
    BY <1>4a, <2>5
<1>6. ASSUME NEW i \in Nat, i \in T PROVE i + 1 \in T
  <2> SUFFICES ASSUME i + 1 <= Len(s) PROVE F[(i + 1) + 1] = p \o G[i + 1]
    <3>1. i + 1 \in Nat
      OBVIOUS
    <3> QED
      BY <1>4a, <3>1
  <2>1. i + 1 \in Nat /\ (i + 1) + 1 <= Len(t) /\ i \in 0 .. Len(s) /\ i + 1 \in 1 .. Len(s)
    BY <1>1
  <2>2. F[i + 1] = p \o G[i] /\ G[i] \in Seq(V)
    BY <1>1, <1>4, <1>4a, <1>6, <2>1
  <2>3. t[(i + 1) + 1] = s[i + 1] /\ s[i + 1] \in V
    BY <1>1, <2>1, ElementOfSeq
  <2>4. F[(i + 1) + 1] = IF s[i + 1] \in S THEN F[i + 1] ELSE Append(F[i + 1], s[i + 1])
    BY <1>3, <2>1, <2>3
  <2>5. G[i + 1] = IF s[i + 1] \in S THEN G[i] ELSE Append(G[i], s[i + 1])
    BY <1>4
  <2>6. Append(p \o G[i], s[i + 1]) = p \o Append(G[i], s[i + 1])
    <3>1. PICK x \in Seq(V), y \in Seq(V), e \in V : x = p /\ y = G[i] /\ e = s[i + 1]
      BY <1>2, <2>2, <2>3
    <3>2. <<e>> \in Seq(V) /\ x \o y \in Seq(V)
      BY ConcatProperties
    <3>3. Append(x \o y, e) = (x \o y) \o <<e>> /\ Append(y, e) = y \o <<e>>
      BY <3>2, AppendIsConcat
    <3>4. (x \o y) \o <<e>> = x \o (y \o <<e>>)
      BY <3>2, ConcatAssociative
    <3> QED
      BY <3>1, <3>3, <3>4
  <2> QED
    BY <2>2, <2>4, <2>5, <2>6
<1>7. Nat \subseteq T
  BY <1>5, <1>6, InductionNat
<1>8. F[Len(s) + 1] = p \o G[Len(s)]
  BY <1>1, <1>4a, <1>7
<1>9. <<>> \o G[Len(s)] = G[Len(s)]
  <2>1. G[Len(s)] \in Seq(V)
    BY <1>1, <1>4
  <2> QED
    BY <2>1, ConcatEmptySeq
<1> QED
  BY <1>1, <1>2, <1>3, <1>4, <1>8, <1>9 DEF t

LEMMA WithoutEmpty == ASSUME NEW S PROVE L!Without(<<>>, S) = <<>>
<1>1. <<>> \in Seq({}) /\ Len(<<>>) = 0
  BY EmptySeq
<1>2. PICK F : TakesOut(F, <<>>, S, {})
  BY <1>1, WithoutUnfold
<1> QED
  BY <1>1, <1>2 DEF TakesOut

-----------------------------------------------------------------------------
(* A walk along the nodes. *)
LEMMA KeysFromUnfold ==
  ASSUME NEW next \in [Nodes -> Nodes \union {NULL}], NEW data \in [Nodes -> Keys]
  PROVE  \E w : /\ \A x : KeysFrom(next, data, x) = w[Cardinality(Nodes)][x]
                /\ \A d \in Nat : w[d] \in [Nodes \union {NULL} -> Seq(Keys)]
                /\ \A d \in Nat : w[d][NULL] = <<>>
                /\ \A d \in Nat, p \in Nodes : w[d + 1][p] = <<data[p]>> \o w[d][next[p]]
<1> DEFINE M == Nodes \union {NULL}
           V == [M -> Seq(Keys)]
           Body(g) == [d \in Nat |-> [p \in M |->
                         IF d = 0 \/ p = NULL THEN <<>> ELSE <<data[p]>> \o g[d - 1][next[p]]]]
           W == CHOOSE g : g = Body(g)
           none == [p \in M |-> <<>>]
           step == [x \in Nat \X V |->
                      [p \in M |-> IF p = NULL THEN <<>> ELSE <<data[p]>> \o x[2][next[p]]]]
<1>1. \A x : KeysFrom(next, data, x) = W[Cardinality(Nodes)][x]
  BY DEF KeysFrom
<1>2. none \in V
  OBVIOUS
<1>3. step \in [Nat \X V -> V]
  <2>1. ASSUME NEW v \in V, NEW p \in Nodes PROVE <<data[p]>> \o v[next[p]] \in Seq(Keys)
    <3>1. data[p] \in Keys /\ v[next[p]] \in Seq(Keys)
      OBVIOUS
    <3> QED
      BY <3>1, ConsSeq
  <2>2. ASSUME NEW v \in V
        PROVE  [p \in M |-> IF p = NULL THEN <<>> ELSE <<data[p]>> \o v[next[p]]] \in V
    BY <2>1
  <2> HIDE DEF V
  <2>3. \A x \in Nat \X V : x[2] \in V
    OBVIOUS
  <2> QED
    BY <2>2, <2>3
<1>4. \A x \in Nat \X V, p \in M :
        step[x][p] = IF p = NULL THEN <<>> ELSE <<data[p]>> \o x[2][next[p]]
  OBVIOUS
<1> HIDE DEF step, none
<1>5. PICK g : FollowsAll(g, none, step, V)
  BY <1>2, <1>3, PrimitiveRecursion
<1>6. g = Body(g)
  <2>1. ASSUME NEW d \in Nat PROVE g[d] \in V
    BY <1>5 DEF FollowsAll
  <2>2. ASSUME NEW d \in Nat, NEW p \in M
        PROVE  g[d][p] = IF d = 0 \/ p = NULL THEN <<>> ELSE <<data[p]>> \o g[d - 1][next[p]]
    <3>1. CASE d = 0
      BY <1>5, <3>1 DEF FollowsAll, none
    <3>2. CASE d # 0
      <4>1. d - 1 \in Nat /\ (d - 1) + 1 = d
        BY <3>2
      <4>2. g[d] = step[<<d - 1, g[d - 1]>>] /\ g[d - 1] \in V
        BY <1>5, <2>1, <4>1 DEF FollowsAll
      <4> HIDE DEF V
      <4>3. <<d - 1, g[d - 1]>> \in Nat \X V
        BY <4>1, <4>2
      <4> QED
        BY <1>4, <3>2, <4>2, <4>3
    <3> QED
      BY <3>1, <3>2
  <2>3. g = [d \in Nat |-> g[d]]
    BY <1>5 DEF FollowsAll
  <2>4. ASSUME NEW d \in Nat PROVE g[d] = Body(g)[d]
    <3>1. g[d] = [p \in M |-> g[d][p]]
      BY <2>1
    <3> QED
      BY <2>2, <3>1
  <2> HIDE DEF M
  <2> QED
    BY <2>3, <2>4
<1> HIDE DEF Body
<1>7. W = Body(W)
  BY <1>6, Zenon
<1> HIDE DEF W
<1>7a. \A v, d : d \in Nat => Body(v)[d] = [p \in M |->
          IF d = 0 \/ p = NULL THEN <<>> ELSE <<data[p]>> \o v[d - 1][next[p]]]
  BY DEF Body
<1>7b. \A d \in Nat : W[d] = [p \in M |->
          IF d = 0 \/ p = NULL THEN <<>> ELSE <<data[p]>> \o W[d - 1][next[p]]]
  <2>1. ASSUME NEW d \in Nat PROVE W[d] = Body(W)[d]
    BY <1>7
  <2> QED
    BY <1>7a, <2>1
<1>8. \A d \in Nat, p \in M :
        W[d][p] = IF d = 0 \/ p = NULL THEN <<>> ELSE <<data[p]>> \o W[d - 1][next[p]]
  BY <1>7b
<1>9. \A d \in Nat : W[d][NULL] = <<>>
  BY <1>8
<1>10. \A d \in Nat, p \in Nodes : W[d + 1][p] = <<data[p]>> \o W[d][next[p]]
  <2>1. ASSUME NEW d \in Nat, NEW p \in Nodes PROVE W[d + 1][p] = <<data[p]>> \o W[d][next[p]]
    <3>1. d + 1 \in Nat /\ d + 1 # 0 /\ (d + 1) - 1 = d /\ p # NULL
      BY NullIsNoNode
    <3> QED
      BY <1>8, <3>1
  <2> QED
    BY <2>1
<1> DEFINE T == {d \in Nat : W[d] \in V}
<1>11. 0 \in T
  <2>1. W[0] = none
    BY <1>7 DEF Body, none
  <2> QED
    BY <1>2, <2>1
<1>12. ASSUME NEW d \in Nat, d \in T PROVE d + 1 \in T
  <2>1. <<d, W[d]>> \in Nat \X V /\ d + 1 \in Nat /\ (d + 1) - 1 = d /\ d + 1 # 0
    BY <1>12
  <2>2. step[<<d, W[d]>>] = [p \in M |-> IF p = NULL THEN <<>> ELSE <<data[p]>> \o W[d][next[p]]]
    BY <2>1 DEF step
  <2>3. W[d + 1] = [p \in M |-> IF p = NULL THEN <<>> ELSE <<data[p]>> \o W[d][next[p]]]
    BY <1>7b, <2>1
  <2> HIDE DEF V
  <2>4. step[<<d, W[d]>>] \in V
    BY <1>3, <2>1
  <2> QED
    BY <2>2, <2>3, <2>4
<1> HIDE DEF T
<1>13. Nat \subseteq T
  BY <1>11, <1>12, InductionNat
<1>14. \A d \in Nat : W[d] \in V
  BY <1>13 DEF T
<1> QED
  BY <1>1, <1>9, <1>10, <1>14

(* Where a number falls from node to node, a walk is the key of its first   *)
(* node and the walk from the next one.                                     *)
LEMMA KeysFromStep ==
  ASSUME NEW next \in [Nodes -> Nodes \union {NULL}], NEW data \in [Nodes -> Keys],
         NEW S \in SUBSET Nodes, NEW rank,
         \A p \in S : /\ rank[p] \in 1 .. Cardinality(Nodes)
                      /\ next[p] \in S \union {NULL}
                      /\ next[p] # NULL => rank[next[p]] < rank[p]
  PROVE  /\ KeysFrom(next, data, NULL) = <<>>
         /\ \A x \in S : /\ KeysFrom(next, data, x) \in Seq(Keys)
                         /\ KeysFrom(next, data, x)
                              = <<data[x]>> \o KeysFrom(next, data, next[x])
<1> DEFINE N == Cardinality(Nodes)
<1>1. PICK w : /\ \A x : KeysFrom(next, data, x) = w[N][x]
               /\ \A d \in Nat : w[d] \in [Nodes \union {NULL} -> Seq(Keys)]
               /\ \A d \in Nat : w[d][NULL] = <<>>
               /\ \A d \in Nat, p \in Nodes : w[d + 1][p] = <<data[p]>> \o w[d][next[p]]
  BY KeysFromUnfold
<1>2. N \in Nat
  BY DListAssumption, FS_CardinalityType
<1> HIDE DEF N
<1>3. \A p \in S : p \in Nodes /\ rank[p] \in Nat /\ 1 <= rank[p] /\ rank[p] <= N
  BY <1>2 DEF N
<1> DEFINE T == {d \in Nat : \A p \in S : rank[p] <= d => w[d + 1][p] = w[d][p]}
<1>4. 0 \in T
  BY <1>3
<1>5. ASSUME NEW d \in Nat, d \in T PROVE d + 1 \in T
  <2> SUFFICES ASSUME NEW p \in S, rank[p] <= d + 1
               PROVE  w[(d + 1) + 1][p] = w[d + 1][p]
    OBVIOUS
  <2>1. /\ w[(d + 1) + 1][p] = <<data[p]>> \o w[d + 1][next[p]]
        /\ w[d + 1][p] = <<data[p]>> \o w[d][next[p]]
    <3>1. d + 1 \in Nat /\ p \in Nodes
      BY <1>3
    <3> QED
      BY <1>1, <3>1
  <2>2. CASE next[p] = NULL
    <3>1. d + 1 \in Nat
      OBVIOUS
    <3>2. w[d + 1][NULL] = w[d][NULL]
      BY <1>1, <3>1
    <3> QED
      BY <2>1, <2>2, <3>2
  <2>3. CASE next[p] # NULL
    <3>1. next[p] \in S /\ rank[next[p]] < rank[p] /\ rank[next[p]] \in Nat /\ rank[p] \in Nat
      BY <1>3, <2>3
    <3>2. rank[next[p]] <= d
      BY <3>1
    <3>3. w[d + 1][next[p]] = w[d][next[p]]
      BY <1>5, <3>1, <3>2
    <3> QED
      BY <2>1, <3>3
  <2> QED
    BY <2>2, <2>3
<1> HIDE DEF T
<1>6. Nat \subseteq T
  BY <1>4, <1>5, InductionNat
<1>7. \A p \in S : w[N + 1][p] = w[N][p]
  BY <1>2, <1>3, <1>6 DEF T
<1>8. ASSUME NEW x \in S
      PROVE  w[N][x] \in Seq(Keys) /\ w[N][x] = <<data[x]>> \o w[N][next[x]]
  <2>1. x \in Nodes /\ w[N] \in [Nodes \union {NULL} -> Seq(Keys)]
    BY <1>1, <1>2, <1>3
  <2>2. w[N + 1][x] = <<data[x]>> \o w[N][next[x]]
    BY <1>1, <1>2, <2>1
  <2> QED
    BY <1>7, <2>1, <2>2
<1> QED
  BY <1>1, <1>2, <1>8

LEMMA ReachClosed ==
  ASSUME TypeOK, NEW x \in Nodes \union {NULL}
  PROVE  Closed(Reach(x))
<1>1. SUFFICES ASSUME NEW p \in Reach(x), n[p] # NULL PROVE n[p] \in Reach(x)
  BY DEF Closed
<1>2. x # NULL /\ p \in Nodes /\ n[p] \in Nodes
  BY <1>1 DEF Reach, TypeOK
<1>3. \A S \in SUBSET Nodes : x \in S /\ Closed(S) => n[p] \in S
  BY <1>1, <1>2 DEF Reach, Closed
<1> QED
  BY <1>2, <1>3 DEF Reach

(* What is met after a node does not come back to it.                       *)
LEMMA ReachSplit ==
  ASSUME TypeOK, WellLinked, NEW x \in live
  PROVE  /\ Reach(x) = {x} \union Reach(n[x])
         /\ x \notin Reach(n[x])
<1>1. /\ x \in Nodes /\ x # NULL
      /\ n[x] \in live \union {NULL} /\ n[x] \in Nodes \union {NULL}
  BY NextIsLive, NullIsNoNode DEF TypeOK
<1>2. x \in Reach(x) /\ Reach(n[x]) \subseteq Nodes
  BY <1>1 DEF Reach
<1>3. \A S \in SUBSET Nodes : x \in S /\ Closed(S) => Reach(n[x]) \subseteq S
  <2>1. ASSUME NEW S \in SUBSET Nodes, x \in S, Closed(S) PROVE Reach(n[x]) \subseteq S
    <3>1. n[x] # NULL => n[x] \in S
      BY <2>1 DEF Closed
    <3> QED
      BY <2>1, <3>1 DEF Reach
  <2> QED
    BY <2>1
<1>4. Reach(n[x]) \subseteq Reach(x)
  <2>1. Reach(x) = {p \in Nodes : \A S \in SUBSET Nodes : x \in S /\ Closed(S) => p \in S}
    BY <1>1 DEF Reach
  <2> QED
    BY <1>2, <1>3, <2>1
<1>5. Closed({x} \union Reach(n[x]))
  <2>1. Closed(Reach(n[x]))
    BY <1>1, ReachClosed
  <2>2. n[x] # NULL => n[x] \in Reach(n[x])
    BY <1>1 DEF Reach
  <2> QED
    BY <2>1, <2>2 DEF Closed
<1>6. Reach(x) \subseteq {x} \union Reach(n[x])
  <2>1. {x} \union Reach(n[x]) \in SUBSET Nodes
    BY <1>1, <1>2
  <2> QED
    BY <1>1, <1>5, <2>1 DEF Reach
<1>7. x \notin Reach(n[x])
  <2>1. CASE n[x] = NULL
    BY <2>1 DEF Reach
  <2>2. CASE n[x] # NULL
    <3>1. n[x] \in live
      BY <1>1, <2>2
    <3>2. \A r \in Reach(n[x]) : n[r] # n[x]
      BY <3>1, NoCycle
    <3> QED
      BY <3>2
  <2> QED
    BY <2>1, <2>2
<1> QED
  BY <1>2, <1>4, <1>6, <1>7

LEMMA ReachCount ==
  ASSUME TypeOK, WellLinked, NEW x \in live
  PROVE  /\ Cardinality(Reach(x)) \in 1 .. Cardinality(Nodes)
         /\ n[x] # NULL => Cardinality(Reach(n[x])) < Cardinality(Reach(x))
<1>1. Reach(x) \subseteq Nodes /\ IsFiniteSet(Nodes) /\ Cardinality(Nodes) \in Nat
  BY DListAssumption, FS_CardinalityType DEF Reach
<1>2. /\ IsFiniteSet(Reach(x)) /\ Cardinality(Reach(x)) \in Nat
      /\ Cardinality(Reach(x)) <= Cardinality(Nodes)
  BY <1>1, FS_Subset, FS_CardinalityType
<1>3. Reach(n[x]) = Reach(x) \ {x} /\ x \in Reach(x)
  BY ReachSplit
<1>4. /\ Cardinality(Reach(n[x])) = Cardinality(Reach(x)) - 1
      /\ IsFiniteSet(Reach(n[x]))
  BY <1>2, <1>3, FS_RemoveElement
<1>5. Cardinality(Reach(n[x])) \in Nat
  BY <1>4, FS_CardinalityType
<1> QED
  BY <1>1, <1>2, <1>4, <1>5

(* A walk in the list: the key of a node and the walk from the next one.    *)
WalkOk ==
  /\ Walk(NULL) = <<>>
  /\ \A x \in live : /\ Walk(x) \in Seq(Keys)
                     /\ Walk(x) = <<userData[x]>> \o Walk(n[x])

LEMMA WalkFacts == Inv => WalkOk
<1> SUFFICES ASSUME Inv PROVE WalkOk
  OBVIOUS
<1> DEFINE rank == [p \in live |-> Cardinality(Reach(p))]
<1>1. TypeOK /\ WellLinked /\ live \in SUBSET Nodes
  BY DEF Inv, TypeOK
<1>2. ASSUME NEW p \in live
      PROVE  /\ rank[p] \in 1 .. Cardinality(Nodes)
             /\ n[p] \in live \union {NULL}
             /\ n[p] # NULL => rank[n[p]] < rank[p]
  BY <1>1, ReachCount, NextIsLive
<1> HIDE DEF rank
<1>3. n \in [Nodes -> Nodes \union {NULL}] /\ userData \in [Nodes -> Keys]
  BY <1>1 DEF TypeOK
<1> QED
  BY <1>1, <1>2, <1>3, KeysFromStep DEF WalkOk, Walk

(* What holds at the end, and at each node if at the next, holds all along. *)
LEMMA AlongTheList ==
  ASSUME TypeOK, WellLinked, NEW T, NULL \in T,
         \A x \in live : n[x] \in T => x \in T
  PROVE  live \union {NULL} \subseteq T
<1> SUFFICES ASSUME live \ T # {} PROVE FALSE
  OBVIOUS
<1> DEFINE R == {Cardinality(Reach(p)) : p \in live \ T}
<1>1. \A p \in live : Cardinality(Reach(p)) \in Nat
  BY ReachCount
<1>2. R \in SUBSET Nat /\ R # {}
  BY <1>1
<1>3. PICK m \in R : \A k \in R : m <= k
  BY <1>2, LeastNat
<1>4. PICK p \in live \ T : m = Cardinality(Reach(p))
  BY <1>3
<1>5. n[p] \in live \ T
  BY <1>4, NextIsLive
<1>6. Cardinality(Reach(n[p])) < Cardinality(Reach(p)) /\ n[p] # NULL
  <2>1. n[p] # NULL
    BY <1>5
  <2> QED
    BY <1>4, <2>1, ReachCount
<1>7. Cardinality(Reach(n[p])) \in R
  BY <1>5
<1> QED
  BY <1>1, <1>3, <1>4, <1>5, <1>6, <1>7

(* The keys of a walk are those of nodes in the list. *)
LEMMA WalkKeys ==
  ASSUME Inv, NEW x \in live \union {NULL}
  PROVE  /\ Walk(x) \in Seq(Keys)
         /\ L!ToSet(Walk(x)) \subseteq {userData[p] : p \in live}
<1> DEFINE D == {userData[p] : p \in live}
           T == {y \in live \union {NULL} :
                   Walk(y) \in Seq(Keys) /\ L!ToSet(Walk(y)) \subseteq D}
<1>1. WalkOk /\ TypeOK /\ WellLinked
  BY WalkFacts DEF Inv
<1>2. NULL \in T
  <2>1. Walk(NULL) = <<>> /\ L!ToSet(<<>>) = {} /\ <<>> \in Seq(Keys)
    BY <1>1 DEF WalkOk, L!ToSet
  <2> QED
    BY <2>1
<1>3. ASSUME NEW y \in live, n[y] \in T PROVE y \in T
  <2>1. Walk(y) \in Seq(Keys) /\ Walk(y) = <<userData[y]>> \o Walk(n[y])
    BY <1>1 DEF WalkOk
  <2>2. userData[y] \in Keys /\ userData[y] \in D
    BY <1>1 DEF TypeOK
  <2>3. Walk(n[y]) \in Seq(Keys) /\ L!ToSet(Walk(n[y])) \subseteq D
    BY <1>3
  <2>4. L!ToSet(Walk(y)) = {userData[y]} \union L!ToSet(Walk(n[y]))
    BY <2>1, <2>2, <2>3, ToSetCons
  <2> QED
    BY <2>1, <2>2, <2>3, <2>4
<1> HIDE DEF T
<1>4. live \union {NULL} \subseteq T
  BY <1>1, <1>2, <1>3, AlongTheList
<1> QED
  BY <1>4 DEF T

(* While n and userData stay as they are, so do the walks. *)
LEMMA WalksStay ==
  ASSUME n' = n, userData' = userData, NEW x
  PROVE  Walk(x)' = Walk(x)
BY DEF Walk

-----------------------------------------------------------------------------
(* One lemma per call: what it does to the sequence and the cursors.        *)
LEMMA ListInit == Init => L!Init
<1> SUFFICES ASSUME Init PROVE L!Init
  OBVIOUS
<1>1. Inv /\ head = NULL /\ useF = [i \in Steps |-> FALSE]
  BY InitInv DEF Init
<1>2. Walk(NULL) = <<>>
  BY <1>1, WalkFacts DEF WalkOk
<1>3. itemsBar = <<>> /\ openBar = {} /\ restBar = [i \in Steps |-> <<>>]
  BY <1>1, <1>2 DEF itemsBar, openBar, restBar
<1> QED
  BY <1>3 DEF L!Init

LEMMA ListAdd ==
  ASSUME Inv, NEW k \in Keys, Add(k)
  PROVE  L!Add(k)
<1>1. PICK p \in Nodes \ live :
        /\ live' = live \union {p}
        /\ userData' = [userData EXCEPT ![p] = k]
        /\ n' = [n EXCEPT ![p] = head]
        /\ head' = p
  BY DEF Add
<1>2. useF' = useF /\ use' = use /\ Found(k) = {}
  BY DEF Add, stepVars
<1>3. WalkOk /\ TypeOK /\ WellLinked /\ NoDangling
  BY WalkFacts DEF Inv
<1>4. Inv'
  BY AddInv
<1>5. WalkOk'
  BY <1>4, WalkFacts, PTL
<1>6. p \in Nodes /\ p \notin live /\ p # NULL
  BY <1>1, NullIsNoNode
<1>7. n'[p] = head /\ userData'[p] = k
  BY <1>1, <1>3 DEF TypeOK
<1>8. ASSUME NEW x \in live
      PROVE  x \in live' /\ n'[x] = n[x] /\ userData'[x] = userData[x]
  BY <1>1, <1>3, <1>6 DEF TypeOK
<1> DEFINE T == {x \in live \union {NULL} : Walk(x)' = Walk(x)}
<1>9. NULL \in T
  BY <1>3, <1>5 DEF WalkOk
<1>10. ASSUME NEW x \in live, n[x] \in T PROVE x \in T
  <2>1. PICK y : y = n[x]
    OBVIOUS
  <2>2. Walk(y)' = Walk(y)
    BY <1>10, <2>1
  <2>3. Walk(x) = <<userData[x]>> \o Walk(y)
    BY <1>3, <2>1 DEF WalkOk
  <2>4. Walk(x)' = <<userData[x]>> \o Walk(y)'
    BY <1>5, <1>8, <2>1 DEF WalkOk
  <2> QED
    BY <2>2, <2>3, <2>4
<1> HIDE DEF T
<1>11. live \union {NULL} \subseteq T
  BY <1>3, <1>9, <1>10, AlongTheList
<1>12. \A x \in live \union {NULL} : Walk(x)' = Walk(x)
  BY <1>11 DEF T
<1>13. head \in live \union {NULL}
  BY <1>3 DEF WellLinked, Neighbours
<1>14. itemsBar' = <<k>> \o itemsBar
  <2>1. PICK h : h = head
    OBVIOUS
  <2>2. Walk(p)' = <<k>> \o Walk(h)'
    BY <1>1, <1>5, <1>7, <2>1 DEF WalkOk
  <2>3. itemsBar' = Walk(p)' /\ itemsBar = Walk(h)
    BY <1>1, <2>1 DEF itemsBar
  <2> QED
    BY <1>12, <1>13, <2>1, <2>2, <2>3
<1>15. openBar' = openBar
  BY <1>2 DEF openBar
<1>16. restBar' = restBar
  <2>1. \A i \in Steps : useF[i] => use[i] \in live \union {NULL}
    BY <1>3 DEF NoDangling
  <2>2. ASSUME NEW i \in Steps, useF[i] PROVE (Walk(use[i]))' = Walk(use[i])
    <3>1. PICK y : y = use[i]
      OBVIOUS
    <3>2. Walk(y)' = Walk(y)
      BY <1>12, <2>1, <2>2, <3>1
    <3> QED
      BY <1>2, <3>1, <3>2
  <2> QED
    BY <1>2, <2>2 DEF restBar
<1>17. k \notin L!ToSet(itemsBar)
  <2>1. \A q \in live : userData[q] # k
    BY <1>2, <1>3, FoundIsLive
  <2>2. L!ToSet(Walk(head)) \subseteq {userData[q] : q \in live}
    BY <1>13, WalkKeys
  <2> QED
    BY <2>1, <2>2 DEF itemsBar
<1> QED
  BY <1>14, <1>15, <1>16, <1>17 DEF L!Add

(* Nodes that follow each other are taken out, and who stood on one of them *)
(* or led to one stands on or leads to the node behind them: the sequence   *)
(* and what each cursor owes lose their keys and no other.                  *)
LEMMA WalksCut ==
  ASSUME Inv, Inv', NEW gone \in SUBSET live, NEW q \in (live \ gone) \union {NULL},
         live' = live \ gone, userData' = userData, useF' = useF,
         MoveCursors(gone, q),
         head' = IF head \in gone THEN q ELSE head,
         \A x \in live \ gone : n'[x] = IF n[x] \in gone THEN q ELSE n[x],
         \A x \in gone : n[x] \in gone \union {q}
  PROVE  L!Forget({userData[x] : x \in gone})
<1> DEFINE G == {userData[x] : x \in gone}
           to(x) == IF x \in gone THEN q ELSE x
<1>1. WalkOk /\ WalkOk'
  <2>1. WalkOk'
    BY WalkFacts, PTL
  <2> QED
    BY <2>1, WalkFacts
<1>2. TypeOK /\ WellLinked /\ NoDangling /\ DistinctKeys
  BY DEF Inv
<1>3. NULL \notin live /\ q \notin gone
  BY <1>2, NullIsNoNode DEF TypeOK
<1>4. PICK g : g = G
  OBVIOUS
<1>5. \A x \in live : userData[x] \in g <=> x \in gone
  BY <1>2, <1>4 DEF DistinctKeys
<1> DEFINE T == {x \in live \union {NULL} : Walk(to(x))' = L!Without(Walk(x), g)}
<1>6. NULL \in T
  <2>1. to(NULL) = NULL /\ Walk(NULL) = <<>> /\ Walk(NULL)' = <<>>
    BY <1>1, <1>3 DEF WalkOk
  <2>2. Walk(to(NULL))' = <<>>
    BY <2>1
  <2> QED
    BY <2>1, <2>2, WithoutEmpty
<1>7. ASSUME NEW x \in live, n[x] \in T PROVE x \in T
  <2>1. PICK y : y = n[x]
    OBVIOUS
  <2>2. y \in live \union {NULL} /\ Walk(to(y))' = L!Without(Walk(y), g)
    BY <1>7, <2>1
  <2>3. userData[x] \in Keys /\ Walk(y) \in Seq(Keys)
    BY <1>2, <2>2, WalkKeys DEF TypeOK
  <2>4. Walk(x) = <<userData[x]>> \o Walk(y)
    BY <1>1, <2>1 DEF WalkOk
  <2>5. L!Without(Walk(x), g) = IF userData[x] \in g THEN L!Without(Walk(y), g)
                                ELSE <<userData[x]>> \o L!Without(Walk(y), g)
    BY <2>3, <2>4, WithoutCons
  <2>6. CASE x \in gone
    <3>1. to(x) = q /\ to(y) = q
      BY <1>3, <2>1, <2>6
    <3>2. Walk(q)' = L!Without(Walk(x), g)
      BY <1>5, <2>2, <2>5, <2>6, <3>1
    <3> QED
      BY <3>1, <3>2
  <2>7. CASE x \notin gone
    <3>1. PICK z : z = to(y)
      OBVIOUS
    <3>2. to(x) = x /\ n'[x] = z /\ x \in live'
      BY <2>1, <2>7, <3>1
    <3>3. Walk(x)' = <<userData[x]>> \o Walk(z)'
      BY <1>1, <3>2 DEF WalkOk
    <3>4. Walk(z)' = L!Without(Walk(y), g)
      BY <2>2, <3>1
    <3>5. Walk(x)' = L!Without(Walk(x), g)
      BY <1>5, <2>5, <2>7, <3>3, <3>4
    <3> QED
      BY <3>2, <3>5
  <2> QED
    BY <2>6, <2>7
<1> HIDE DEF T
<1>8. live \union {NULL} \subseteq T
  BY <1>2, <1>6, <1>7, AlongTheList
<1>9. ASSUME NEW x \in live \union {NULL} PROVE Walk(to(x))' = L!Without(Walk(x), g)
  BY <1>8 DEF T
<1> HIDE DEF to
<1>10. itemsBar' = L!Without(itemsBar, g)
  <2>1. PICK h, t : h = head /\ t = to(h)
    OBVIOUS
  <2>2. head' = t /\ h \in live \union {NULL}
    BY <1>2, <2>1 DEF to, WellLinked, Neighbours
  <2>3. itemsBar' = Walk(t)' /\ itemsBar = Walk(h)
    BY <2>1, <2>2 DEF itemsBar
  <2> QED
    BY <1>9, <2>1, <2>2, <2>3
<1>11. restBar' = [i \in Steps |-> L!Without(restBar[i], g)]
  <2>1. ASSUME NEW i \in Steps
        PROVE  (IF useF[i] THEN Walk(use[i]) ELSE <<>>)' = L!Without(restBar[i], g)
    <3>1. CASE useF[i]
      <4>1. PICK y, t : y = use[i] /\ t = to(y)
        OBVIOUS
      <4>2. use'[i] = t /\ y \in live \union {NULL}
        BY <1>2, <3>1, <4>1 DEF to, MoveCursors, NoDangling
      <4>3. restBar[i] = Walk(y) /\ (Walk(use[i]))' = Walk(t)'
        BY <3>1, <4>1, <4>2 DEF restBar
      <4> QED
        BY <1>9, <3>1, <4>1, <4>2, <4>3
    <3>2. CASE ~ useF[i]
      BY <3>2, WithoutEmpty DEF restBar
    <3> QED
      BY <3>1, <3>2
  <2> QED
    BY <2>1 DEF restBar
<1>12. openBar' = openBar
  BY DEF openBar
<1> QED
  BY <1>4, <1>10, <1>11, <1>12 DEF L!Forget

LEMMA ListDel ==
  ASSUME Inv, NEW k \in Keys, Del(k)
  PROVE  L!Forget({k})
<1>1. PICK p \in Found(k) :
        /\ MoveCursors({p}, n[p])
        /\ head' = IF f[p] = NULL THEN n[p] ELSE head
        /\ n' = IF f[p] = NULL THEN n ELSE [n EXCEPT ![f[p]] = n[p]]
        /\ live' = live \ {p}
        /\ UNCHANGED <<userData, useF, frames>>
  BY DEF Del
<1>2. PICK q : q = n[p]
  OBVIOUS
<1>3. TypeOK /\ WellLinked /\ Inv'
  BY DelInv DEF Inv
<1>4. p \in live /\ userData[p] = k /\ p \in Nodes /\ p # NULL
  BY <1>1, <1>3, FoundIsLive, NullIsNoNode DEF TypeOK
<1>5. q \in (live \ {p}) \union {NULL}
  <2>1. p \in Reach(p) /\ n[p] \in live \union {NULL}
    BY <1>3, <1>4, NextIsLive DEF Reach
  <2>2. n[p] # p
    BY <1>3, <1>4, <2>1, NoCycle
  <2> QED
    BY <1>2, <2>1, <2>2
<1>6. \A r \in live : r \in Nodes /\ r # NULL
  BY <1>3, NullIsNoNode DEF TypeOK
<1>7. /\ f[p] = NULL <=> p = head
      /\ f[p] # NULL => n[f[p]] = p
      /\ \A r \in live : n[r] = p => f[p] = r
  BY <1>3, <1>4 DEF WellLinked, Neighbours
<1>8. head' = IF head \in {p} THEN q ELSE head
  BY <1>1, <1>2, <1>7
<1>9. ASSUME NEW r \in live \ {p} PROVE n'[r] = IF n[r] \in {p} THEN q ELSE n[r]
  <2>1. CASE n[r] = p
    <3>1. f[p] = r /\ r # NULL /\ r \in Nodes
      BY <1>6, <1>7, <2>1
    <3> QED
      BY <1>1, <1>2, <1>3, <2>1, <3>1 DEF TypeOK
  <2>2. CASE n[r] # p
    <3>1. f[p] # NULL => f[p] # r
      BY <1>7, <2>2
    <3> QED
      BY <1>1, <1>3, <1>6, <2>2, <3>1 DEF TypeOK
  <2> QED
    BY <2>1, <2>2
<1>10. {p} \in SUBSET live /\ MoveCursors({p}, q) /\ \A x \in {p} : n[x] \in {p} \union {q}
  BY <1>1, <1>2, <1>4
<1>11. L!Forget({userData[x] : x \in {p}})
  <2>1. userData' = userData /\ useF' = useF
    BY <1>1
  <2> QED
    BY <1>1, <1>3, <1>5, <1>8, <1>9, <1>10, <2>1, WalksCut
<1>12. {userData[x] : x \in {p}} = {k}
  BY <1>4
<1> QED
  BY <1>11, <1>12

(* Either of two nodes of the list is met after the other. *)
LEMMA OneLine ==
  ASSUME TypeOK, WellLinked, NEW q \in live, NEW x \in live
  PROVE  x \in Reach(q) \/ q \in Reach(x)
<1> DEFINE S == {r \in live : r \in Reach(q) \/ q \in Reach(r)}
<1>1. head \in live
  BY EmptyList DEF WellLinked, Neighbours
<1>2. Reach(head) = live
  BY ReachIsLive DEF WellLinked, NoLeak, Neighbours
<1>3. Closed(Reach(q)) /\ q \in Reach(q)
  <2>1. q \in Nodes /\ q # NULL
    BY NullIsNoNode DEF TypeOK
  <2> QED
    BY <2>1, ReachClosed DEF Reach
<1>4. ASSUME NEW r \in S, n[r] # NULL PROVE n[r] \in S
  <2>1. n[r] \in live /\ Reach(r) = {r} \union Reach(n[r])
    BY <1>4, NextIsLive, ReachSplit
  <2>2. r \in Reach(q) => n[r] \in Reach(q)
    BY <1>3, <1>4 DEF Closed
  <2>3. q \in Reach(r) => q = r \/ q \in Reach(n[r])
    BY <2>1
  <2> QED
    BY <1>3, <1>4, <2>1, <2>2, <2>3
<1>5. Closed(S) /\ head \in S /\ S \in SUBSET Nodes
  BY <1>1, <1>2, <1>4 DEF Closed, TypeOK
<1>6. live \subseteq S
  BY <1>5, WholeList DEF WellLinked
<1> QED
  BY <1>6

(* The keys in front of a node are the start of the sequence. *)
LEMMA KeysInFront ==
  ASSUME Inv, NEW gone \in SUBSET live, NEW q \in live \union {NULL},
         \A x \in gone : n[x] \in gone \union {q},
         gone \intersect Reach(q) = {}, NEW x \in gone
  PROVE  \E P \in Seq(Keys) : /\ P # <<>>
                              /\ Walk(x) = P \o Walk(q)
                              /\ L!ToSet(P) = {userData[r] : r \in gone \intersect Reach(x)}
<1> DEFINE Front(P, y) == /\ P # <<>>
                          /\ Walk(y) = P \o Walk(q)
                          /\ L!ToSet(P) = {userData[r] : r \in gone \intersect Reach(y)}
           T == {y \in live \union {NULL} :
                   y \in gone => \E P \in Seq(Keys) : Front(P, y)}
<1>1. WalkOk /\ TypeOK /\ WellLinked
  BY WalkFacts DEF Inv
<1>2. NULL \in T
  BY <1>1, NullIsNoNode DEF TypeOK
<1>3. ASSUME NEW y \in live, n[y] \in T PROVE y \in T
  <2> SUFFICES ASSUME y \in gone PROVE \E P \in Seq(Keys) : Front(P, y)
    OBVIOUS
  <2>1. PICK a, z : a = userData[y] /\ z = n[y]
    OBVIOUS
  <2>2. a \in Keys /\ Walk(y) = <<a>> \o Walk(z) /\ <<a>> \in Seq(Keys)
    BY <1>1, <2>1 DEF WalkOk, TypeOK
  <2>3. Reach(y) = {y} \union Reach(z)
    BY <1>1, <2>1, ReachSplit
  <2>4. Walk(q) \in Seq(Keys)
    BY WalkKeys
  <2>5. CASE z = q
    <3>1. gone \intersect Reach(y) = {y}
      BY <2>3, <2>5
    <3>2. L!ToSet(<<a>>) = {a}
      BY DEF L!ToSet
    <3>3. {userData[r] : r \in gone \intersect Reach(y)} = {a}
      BY <2>1, <3>1
    <3>4. <<a>> # <<>> /\ Walk(y) = <<a>> \o Walk(q)
      BY <2>2, <2>5
    <3>5. Front(<<a>>, y)
      BY <3>2, <3>3, <3>4
    <3> HIDE DEF Front
    <3> QED
      BY <2>2, <3>5
  <2>6. CASE z # q
    <3>1. z \in gone
      BY <2>1, <2>6
    <3>2. PICK P \in Seq(Keys) : Front(P, z)
      BY <1>3, <2>1, <3>1
    <3> DEFINE R == <<a>> \o P
    <3>3. R \in Seq(Keys) /\ R # <<>> /\ L!ToSet(R) = {a} \union L!ToSet(P)
      BY <2>2, ConsSeq, ToSetCons
    <3>4. Walk(y) = R \o Walk(q)
      <4>1. (<<a>> \o P) \o Walk(q) = <<a>> \o (P \o Walk(q))
        BY <2>2, <2>4, ConcatAssociative
      <4> QED
        BY <2>2, <3>2, <4>1
    <3>5. gone \intersect Reach(y) = {y} \union (gone \intersect Reach(z))
      BY <2>3
    <3>6. {userData[r] : r \in gone \intersect Reach(y)}
            = {a} \union {userData[r] : r \in gone \intersect Reach(z)}
      BY <2>1, <3>5
    <3> HIDE DEF R
    <3>7. Front(R, y)
      BY <3>2, <3>3, <3>4, <3>6
    <3> HIDE DEF Front
    <3> QED
      BY <3>3, <3>7
  <2> QED
    BY <2>5, <2>6
<1> HIDE DEF T
<1>4. live \union {NULL} \subseteq T
  BY <1>1, <1>2, <1>3, AlongTheList
<1>5. \E P \in Seq(Keys) : Front(P, x)
  BY <1>4 DEF T
<1> QED
  BY <1>5

LEMMA FrontOfConcat ==
  ASSUME NEW V, NEW s \in Seq(V), NEW t \in Seq(V), s # <<>>
  PROVE  /\ Len(s) \in 1 .. Len(s \o t)
         /\ SubSeq(s \o t, 1, Len(s)) = s
<1> DEFINE u == s \o t
<1>1. /\ Len(s) \in Nat /\ Len(t) \in Nat /\ Len(s) >= 1
      /\ u \in Seq(V) /\ Len(u) = Len(s) + Len(t)
      /\ \A i \in 1 .. Len(s) : u[i] = s[i]
  <2>1. Len(s) \in Nat /\ Len(t) \in Nat /\ Len(s) >= 1
    BY LenProperties, EmptySeq
  <2>2. /\ u \in Seq(V) /\ Len(u) = Len(s) + Len(t)
        /\ \A i \in 1 .. Len(s) + Len(t) : u[i] = IF i <= Len(s) THEN s[i] ELSE t[i - Len(s)]
    BY ConcatProperties
  <2> HIDE DEF u
  <2> QED
    BY <2>1, <2>2
<1> HIDE DEF u
<1> DEFINE w == SubSeq(u, 1, Len(s))
<1>2. \A i \in 1 .. Len(s) : u[i] \in V
  BY <1>1, ElementOfSeq
<1>3. /\ w \in Seq(V) /\ Len(w) = Len(s)
      /\ \A i \in 1 .. Len(s) : w[i] = u[i]
  <2>1. /\ w \in Seq(V)
        /\ Len(w) = IF 1 <= Len(s) THEN Len(s) - 1 + 1 ELSE 0
        /\ \A i \in 1 .. Len(s) - 1 + 1 : w[i] = u[1 + i - 1]
    BY <1>1, <1>2, SubSeqProperties
  <2> HIDE DEF w
  <2>2. \A i \in 1 .. Len(s) : 1 + i - 1 = i
    BY <1>1
  <2>3. Len(s) - 1 + 1 = Len(s)
    BY <1>1
  <2> QED
    BY <1>1, <2>1, <2>2, <2>3
<1> HIDE DEF w
<1>4. w = s
  BY <1>1, <1>3, SeqEqual
<1> QED
  BY <1>1, <1>4 DEF u, w

LEMMA ListClear ==
  ASSUME Inv, NEW q \in Nodes \union {NULL}, Clear(q)
  PROVE  \/ \E j \in 1 .. Len(itemsBar) : L!Forget(L!ToSet(SubSeq(itemsBar, 1, j)))
         \/ UNCHANGED <<itemsBar, openBar, restBar>>
<1>1. /\ q \in Reach(head) \union {NULL}
      /\ MoveCursors(Reach(head) \ Reach(q), q)
      /\ head' = q
      /\ live' = live \ (Reach(head) \ Reach(q))
      /\ UNCHANGED <<n, userData, useF, frames>>
  BY DEF Clear
<1>2. TypeOK /\ WellLinked /\ NoDangling /\ Inv'
  BY ClearInv DEF Inv
<1>3. Reach(head) = live /\ head \in live \union {NULL}
  BY <1>2, ReachIsLive DEF WellLinked, NoLeak, Neighbours
<1>4. q \in live \union {NULL} /\ Reach(q) \subseteq live /\ (q # NULL => q \in Reach(q))
  <2>1. q \in live \union {NULL}
    BY <1>1, <1>3
  <2> QED
    BY <1>2, <2>1, ReachIsLive DEF WellLinked, Reach, TypeOK
<1>5. PICK gone : gone = live \ Reach(q)
  OBVIOUS
<1>6. \A r \in live : r \in Nodes /\ r # NULL
  BY <1>2, NullIsNoNode DEF TypeOK
<1>7. /\ gone \in SUBSET live /\ q \in (live \ gone) \union {NULL}
      /\ gone \intersect Reach(q) = {}
      /\ MoveCursors(gone, q) /\ live' = live \ gone
  BY <1>1, <1>3, <1>4, <1>5
<1>8. head \notin gone => q = head
  <2> SUFFICES ASSUME head \notin gone, q # head PROVE FALSE
    OBVIOUS
  <2>1. CASE head = NULL
    BY <1>1, <1>4, <2>1 DEF Reach
  <2>2. CASE head # NULL
    <3>1. head \in live /\ head \in Reach(q) /\ f[head] = NULL
      BY <1>2, <1>3, <1>5, <2>2 DEF WellLinked, Neighbours
    <3>2. q \in live
      BY <1>4, <3>1 DEF Reach
    <3>3. f[head] \in Reach(q)
      BY <1>2, <3>1, <3>2, ReachBack DEF WellLinked
    <3> QED
      BY <1>4, <1>6, <3>1, <3>3
  <2> QED
    BY <2>1, <2>2
<1>9. ASSUME NEW x \in live \ gone PROVE n'[x] = IF n[x] \in gone THEN q ELSE n[x]
  <2>1. x \in Reach(q) /\ Closed(Reach(q))
    BY <1>2, <1>4, <1>5, ReachClosed, <1>6
  <2>2. n[x] \notin gone
    BY <1>5, <1>6, <2>1 DEF Closed
  <2> QED
    BY <1>1, <2>2
<1>10. ASSUME NEW x \in gone PROVE n[x] \in gone \union {q}
  <2>1. x \in live /\ x \notin Reach(q) /\ n[x] \in live \union {NULL}
    BY <1>2, <1>5, NextIsLive
  <2>2. CASE n[x] = NULL
    <3>1. CASE q = NULL
      BY <2>2, <3>1
    <3>2. CASE q # NULL
      <4>1. q \in live
        BY <1>4, <3>2
      <4>2. q \in Reach(x)
        BY <1>2, <2>1, <4>1, OneLine
      <4>3. Reach(x) = {x} \union Reach(n[x])
        BY <1>2, <2>1, ReachSplit
      <4>4. q = x
        BY <2>2, <4>2, <4>3 DEF Reach
      <4> QED
        BY <1>4, <2>1, <3>2, <4>4
    <3> QED
      BY <3>1, <3>2
  <2>3. CASE n[x] # NULL
    <3>1. n[x] \in live /\ f[n[x]] = x
      BY <1>2, <2>1, <2>3 DEF WellLinked, Neighbours
    <3>2. CASE n[x] \in Reach(q) /\ n[x] # q
      <4>1. q \in live
        BY <1>4, <3>2 DEF Reach
      <4>2. f[n[x]] \in Reach(q)
        BY <1>2, <3>2, <4>1, ReachBack DEF WellLinked
      <4> QED
        BY <2>1, <3>1, <4>2
    <3> QED
      BY <1>5, <3>1, <3>2
  <2> QED
    BY <2>2, <2>3
<1>11. L!Forget({userData[x] : x \in gone})
  <2>1. userData' = userData /\ useF' = useF
    BY <1>1
  <2>2. head' = IF head \in gone THEN q ELSE head
    BY <1>1, <1>8
  <2> QED
    BY <1>2, <1>7, <1>9, <1>10, <2>1, <2>2, WalksCut
<1>12. CASE gone = {}
  <2>1. q = head /\ UNCHANGED <<head, n, userData, useF>>
    BY <1>1, <1>8, <1>12
  <2>2. use' = use
    <3>1. use' = [i \in Steps |-> use[i]] /\ use = [i \in Steps |-> use[i]]
      BY <1>2, <1>7, <1>12 DEF MoveCursors, TypeOK
    <3> QED
      BY <3>1
  <2> QED
    BY <2>1, <2>2 DEF itemsBar, openBar, restBar, Walk
<1>13. CASE gone # {}
  <2>1. head \in gone
    BY <1>1, <1>3, <1>4, <1>5, <1>8, <1>13
  <2>2. PICK P \in Seq(Keys) :
          /\ P # <<>>
          /\ Walk(head) = P \o Walk(q)
          /\ L!ToSet(P) = {userData[r] : r \in gone \intersect Reach(head)}
    BY <1>4, <1>7, <1>10, <2>1, KeysInFront
  <2>3. Walk(q) \in Seq(Keys)
    BY <1>4, WalkKeys
  <2>4. Len(P) \in 1 .. Len(itemsBar) /\ SubSeq(itemsBar, 1, Len(P)) = P
    BY <2>2, <2>3, FrontOfConcat DEF itemsBar
  <2>5. gone \intersect Reach(head) = gone
    BY <1>3, <1>7
  <2>6. L!ToSet(SubSeq(itemsBar, 1, Len(P))) = {userData[x] : x \in gone}
    BY <2>2, <2>4, <2>5
  <2> QED
    BY <1>11, <2>4, <2>6
<1> QED
  BY <1>12, <1>13

(* The calls that only move cursors. *)
LEMMA NodesStay ==
  ASSUME UNCHANGED nodeVars
  PROVE  itemsBar' = itemsBar /\ \A x : Walk(x)' = Walk(x)
BY DEF nodeVars, itemsBar, Walk

(* What a cursor owes, when only one of them was moved. *)
LEMMA CursorMoved ==
  ASSUME UNCHANGED nodeVars, NEW i \in Steps, NEW s,
         \A j \in Steps : j # i => useF'[j] = useF[j] /\ use'[j] = use[j],
         (IF useF[i] THEN Walk(use[i]) ELSE <<>>)' = s
  PROVE  restBar' = [restBar EXCEPT ![i] = s]
<1>1. ASSUME NEW j \in Steps, j # i
      PROVE  (IF useF[j] THEN Walk(use[j]) ELSE <<>>)' = IF useF[j] THEN Walk(use[j]) ELSE <<>>
  <2>1. (Walk(use[j]))' = Walk(use[j])
    BY <1>1 DEF nodeVars, Walk
  <2> QED
    BY <1>1, <2>1
<1> QED
  BY <1>1 DEF restBar

LEMMA ListOpen ==
  ASSUME Inv, NEW i \in Steps, OpenStep(i)
  PROVE  L!Open(i, itemsBar)
<1>1. /\ ~ useF[i] /\ UNCHANGED nodeVars
      /\ useF' = [useF EXCEPT ![i] = TRUE] /\ use' = [use EXCEPT ![i] = head]
  BY DEF OpenStep, FirstUnused
<1>2. /\ useF'[i] /\ use'[i] = head
      /\ \A j \in Steps : j # i => useF'[j] = useF[j] /\ use'[j] = use[j]
  BY <1>1 DEF Inv, TypeOK
<1>3. itemsBar' = itemsBar
  BY <1>1, NodesStay
<1>4. (IF useF[i] THEN Walk(use[i]) ELSE <<>>)' = itemsBar
  BY <1>1, <1>2 DEF itemsBar, Walk, nodeVars
<1>5. restBar' = [restBar EXCEPT ![i] = itemsBar]
  BY <1>1, <1>2, <1>4, CursorMoved
<1>6. i \notin openBar /\ openBar' = openBar \union {i}
  BY <1>1, <1>2 DEF openBar
<1> QED
  BY <1>3, <1>5, <1>6 DEF L!Open

LEMMA ListStepCall ==
  ASSUME Inv, NEW i \in Steps, StepCall(i)
  PROVE  itemsBar # <<>> /\ L!Open(i, Tail(itemsBar))
<1>1. /\ ~ useF[i] /\ UNCHANGED nodeVars /\ head # NULL
      /\ useF' = [useF EXCEPT ![i] = TRUE] /\ use' = [use EXCEPT ![i] = n[head]]
  BY DEF StepCall, FirstUnused
<1>2. /\ useF'[i] /\ use'[i] = n[head]
      /\ \A j \in Steps : j # i => useF'[j] = useF[j] /\ use'[j] = use[j]
  BY <1>1 DEF Inv, TypeOK
<1>3. itemsBar' = itemsBar
  BY <1>1, NodesStay
<1>4. itemsBar # <<>> /\ Tail(itemsBar) = Walk(n[head])
  <2>1. head \in live /\ userData[head] \in Keys /\ n[head] \in live \union {NULL}
    BY <1>1, NextIsLive DEF Inv, WellLinked, Neighbours, TypeOK
  <2>2. itemsBar = <<userData[head]>> \o Walk(n[head]) /\ Walk(n[head]) \in Seq(Keys)
    BY <2>1, WalkFacts, WalkKeys DEF WalkOk, itemsBar
  <2> QED
    BY <2>1, <2>2, ConsSeq
<1>5. (IF useF[i] THEN Walk(use[i]) ELSE <<>>)' = Tail(itemsBar)
  BY <1>1, <1>2, <1>4 DEF Walk, nodeVars
<1>6. restBar' = [restBar EXCEPT ![i] = Tail(itemsBar)]
  BY <1>1, <1>2, <1>5, CursorMoved
<1>7. i \notin openBar /\ openBar' = openBar \union {i}
  BY <1>1, <1>2 DEF openBar
<1> QED
  BY <1>3, <1>4, <1>6, <1>7 DEF L!Open

(* A cursor in use goes on to the next node. *)
LEMMA ListNextKey ==
  ASSUME Inv, NEW i \in Steps, useF[i], use[i] # NULL,
         use' = [use EXCEPT ![i] = n[use[i]]], useF' = useF, UNCHANGED nodeVars
  PROVE  L!Fetch(i)
<1>1. /\ use'[i] = n[use[i]]
      /\ \A j \in Steps : j # i => useF'[j] = useF[j] /\ use'[j] = use[j]
  BY DEF Inv, TypeOK
<1>2. restBar[i] # <<>> /\ Tail(restBar[i]) = Walk(n[use[i]])
  <2>1. use[i] \in live /\ userData[use[i]] \in Keys /\ n[use[i]] \in live \union {NULL}
    BY NextIsLive DEF Inv, NoDangling, TypeOK
  <2>2. /\ restBar[i] = <<userData[use[i]]>> \o Walk(n[use[i]])
        /\ Walk(n[use[i]]) \in Seq(Keys)
    BY <2>1, WalkFacts, WalkKeys DEF WalkOk, restBar
  <2> QED
    BY <2>1, <2>2, ConsSeq
<1>3. (IF useF[i] THEN Walk(use[i]) ELSE <<>>)' = Tail(restBar[i])
  BY <1>1, <1>2 DEF Walk, nodeVars
<1>4. restBar' = [restBar EXCEPT ![i] = Tail(restBar[i])]
  BY <1>1, <1>3, CursorMoved
<1>5. i \in openBar /\ openBar' = openBar /\ itemsBar' = itemsBar
  BY NodesStay DEF openBar
<1> QED
  BY <1>2, <1>4, <1>5 DEF L!Fetch

(* A cursor is given back. *)
LEMMA ListGivenBack ==
  ASSUME Inv, NEW i \in Steps, useF[i], useF' = [useF EXCEPT ![i] = FALSE],
         \A j \in Steps : j # i => use'[j] = use[j], UNCHANGED nodeVars
  PROVE  L!Close(i)
<1>1. /\ ~ useF'[i]
      /\ \A j \in Steps : j # i => useF'[j] = useF[j] /\ use'[j] = use[j]
  BY DEF Inv, TypeOK
<1>2. (IF useF[i] THEN Walk(use[i]) ELSE <<>>)' = <<>>
  BY <1>1
<1>3. restBar' = [restBar EXCEPT ![i] = <<>>]
  BY <1>1, <1>2, CursorMoved
<1>4. i \in openBar /\ openBar' = openBar \ {i} /\ itemsBar' = itemsBar
  BY <1>1, NodesStay DEF openBar
<1> QED
  BY <1>3, <1>4 DEF L!Close

LEMMA ListStepEnds ==
  ASSUME Inv, StepNext \/ StepError
  PROVE  \E i \in Steps : L!Fetch(i) \/ L!Close(i)
<1> DEFINE i == Head(frames)
<1>1. TypeOK /\ frames # <<>> /\ UNCHANGED nodeVars
  BY DEF Inv, StepNext, StepError
<1>2. i \in Steps /\ useF[i]
  BY <1>1, FirstFrame
<1>3. CASE StepNext /\ use[i] # NULL
  <2>1. use' = [use EXCEPT ![i] = n[use[i]]] /\ useF' = useF
    BY <1>3 DEF StepNext
  <2>2. L!Fetch(i)
    BY <1>1, <1>2, <1>3, <2>1, ListNextKey
  <2> QED
    BY <1>2, <2>2
<1>4. CASE (StepNext /\ use[i] = NULL) \/ StepError
  <2>1. useF' = [useF EXCEPT ![i] = FALSE] /\ \A j \in Steps : j # i => use'[j] = use[j]
    BY <1>1, <1>4 DEF StepNext, StepError, TypeOK
  <2>2. L!Close(i)
    BY <1>1, <1>2, <2>1, ListGivenBack
  <2> QED
    BY <1>2, <2>2
<1> QED
  BY <1>3, <1>4

LEMMA ListNext ==
  ASSUME Inv, [Next]_vars
  PROVE  [L!Next]_(L!vars)
<1>1. CASE UNCHANGED vars
  BY <1>1 DEF vars, nodeVars, stepVars, L!vars, itemsBar, openBar, restBar, Walk
<1>2. ASSUME NEW k \in Keys, Add(k) \/ Del(k)
      PROVE  L!Next
  BY <1>2, ListAdd, ListDel DEF L!Next
<1>3. ASSUME NEW q \in Nodes \union {NULL}, Clear(q)
      PROVE  [L!Next]_(L!vars)
  BY <1>3, ListClear DEF L!Next, L!vars
<1>4. ASSUME NEW i \in Steps, OpenStep(i)
      PROVE  L!Next
  BY <1>4, ListOpen DEF L!Next
<1>5. ASSUME NEW i \in Steps, StepCall(i)
      PROVE  L!Next
  BY <1>5, ListStepCall DEF L!Next
<1>6. ASSUME NEW i \in Steps, FetchStep(i)
      PROVE  L!Next
  <2>1. L!Fetch(i)
    BY <1>6, ListNextKey DEF FetchStep, Opened
  <2> QED
    BY <2>1 DEF L!Next
<1>7. ASSUME NEW i \in Steps, CloseStep(i)
      PROVE  L!Next
  <2>1. /\ useF[i] /\ useF' = [useF EXCEPT ![i] = FALSE] /\ UNCHANGED nodeVars
        /\ \A j \in Steps : j # i => use'[j] = use[j]
    BY <1>7 DEF CloseStep, Opened, Inv, TypeOK
  <2>2. L!Close(i)
    BY <2>1, ListGivenBack
  <2> QED
    BY <2>2 DEF L!Next
<1>8. CASE StepNext \/ StepError
  BY <1>8, ListStepEnds DEF L!Next
<1> QED
  BY <1>1, <1>2, <1>3, <1>4, <1>5, <1>6, <1>7, <1>8 DEF Next

(* Whatever the calls and the callbacks of walks in progress do to the      *)
(* nodes, it is what the list promises: each step is one of the abstract    *)
(* list's or changes neither the sequence nor what a cursor still owes.     *)
THEOREM ListRefinement == Spec => ImplementsList
<1>1. Init => L!Init
  BY ListInit
<1>2. Inv /\ [Next]_vars => [L!Next]_(L!vars)
  BY ListNext
<1> QED
  BY <1>1, <1>2, InvAlways, PTL DEF Spec, ImplementsList, L!Spec
=============================================================================
