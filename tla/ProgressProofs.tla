---------------------------- MODULE ProgressProofs ----------------------------
(***************************************************************************)
(* Proofs about the progress row, for every number of shards, every size   *)
(* of the tables, every TOTALCNT and every set of faults.                  *)
(***************************************************************************)
EXTENDS Progress, Recursion

(* The sums of the entries 1 .. n of t; Held is the one of the tables. *)
Sum(t) == CHOOSE h : h = [n \in 0 .. N |-> IF n = 0 THEN 0 ELSE h[n - 1] + t[n]]

LEMMA SumStep ==
  ASSUME NEW t \in [Shards -> Nat]
  PROVE  /\ Sum(t) \in [0 .. N -> Nat]
         /\ Sum(t)[0] = 0
         /\ \A n \in Shards : Sum(t)[n] = Sum(t)[n - 1] + t[n]
<1> DEFINE step == [p \in Nat \X Nat |-> IF p[1] < N THEN p[2] + t[p[1] + 1] ELSE p[2]]
<1>0. N \in Nat
  BY ProgressAssumption
<1>1. step \in [Nat \X Nat -> Nat]
  BY <1>0 DEF Shards
<1>2. PICK g : Follows(g, N, 0, step, Nat)
  <2> HIDE DEF step
  <2> QED
    BY <1>0, <1>1, FollowsExists
<1>3. g \in [0 .. N -> Nat] /\ g[0] = 0
  BY <1>2 DEF Follows
<1>4. ASSUME NEW n \in Shards PROVE g[n] = g[n - 1] + t[n]
  <2>1. n - 1 \in 0 .. N - 1 /\ n - 1 \in 0 .. N /\ (n - 1) + 1 = n /\ n - 1 < N /\ n - 1 \in Nat
    BY <1>0 DEF Shards
  <2>2. g[n] = step[<<n - 1, g[n - 1]>>]
    BY <1>2, <2>1 DEF Follows
  <2>3. g[n - 1] \in Nat
    BY <1>3, <2>1
  <2> QED
    BY <2>1, <2>2, <2>3
<1> HIDE DEF step
<1>5. g = [n \in 0 .. N |-> IF n = 0 THEN 0 ELSE g[n - 1] + t[n]]
  BY <1>0, <1>3, <1>4 DEF Shards
<1>6. Sum(t) = [n \in 0 .. N |-> IF n = 0 THEN 0 ELSE Sum(t)[n - 1] + t[n]]
  BY <1>5 DEF Sum
<1>7. \A n \in 0 .. N : Sum(t)[n] = IF n = 0 THEN 0 ELSE Sum(t)[n - 1] + t[n]
  BY <1>6
<1> DEFINE T == {n \in Nat : n <= N => Sum(t)[n] \in Nat}
<1>8. 0 \in T
  BY <1>0, <1>7
<1>9. ASSUME NEW n \in Nat, n \in T PROVE n + 1 \in T
  <2>1. CASE n + 1 <= N
    <3>1. n + 1 \in 0 .. N /\ n + 1 # 0 /\ (n + 1) - 1 = n /\ n <= N /\ n + 1 \in Shards
      BY <1>0, <2>1 DEF Shards
    <3>2. Sum(t)[n + 1] = Sum(t)[n] + t[n + 1]
      BY <1>7, <3>1
    <3>3. t[n + 1] \in Nat /\ Sum(t)[n] \in Nat
      BY <1>9, <3>1
    <3> QED
      BY <3>2, <3>3
  <2> QED
    BY <1>0, <2>1
<1> HIDE DEF T
<1>10. \A n \in 0 .. N : Sum(t)[n] \in Nat
  <2>1. Nat \subseteq T
    BY <1>8, <1>9, InductionNat
  <2>2. \A n \in 0 .. N : n \in Nat /\ n <= N
    BY <1>0
  <2> QED
    BY <2>1, <2>2 DEF T
<1>11. Sum(t) \in [0 .. N -> Nat]
  BY <1>6, <1>10
<1> QED
  BY <1>0, <1>7, <1>11 DEF Shards

(* Larger entries have larger sums. *)
LEMMA SumMonotone ==
  ASSUME NEW t \in [Shards -> Nat], NEW u \in [Shards -> Nat], NEW n \in 0 .. N,
         \A k \in 1 .. n : t[k] <= u[k]
  PROVE  Sum(t)[n] <= Sum(u)[n]
<1> DEFINE T == {m \in Nat : m <= n => Sum(t)[m] <= Sum(u)[m]}
<1>0. N \in Nat
  BY ProgressAssumption
<1>1. 0 \in T
  BY SumStep
<1>2. ASSUME NEW m \in Nat, m \in T PROVE m + 1 \in T
  <2>1. CASE m + 1 <= n
    <3>1. m + 1 \in Shards /\ m + 1 \in 1 .. n /\ (m + 1) - 1 = m /\ m \in 0 .. N /\ m <= n
      BY <1>0, <2>1 DEF Shards
    <3>2. /\ Sum(t)[m + 1] = Sum(t)[m] + t[m + 1]
          /\ Sum(u)[m + 1] = Sum(u)[m] + u[m + 1]
          /\ Sum(t)[m] \in Nat /\ Sum(u)[m] \in Nat
      BY <3>1, SumStep
    <3>3. t[m + 1] \in Nat /\ u[m + 1] \in Nat /\ t[m + 1] <= u[m + 1] /\ Sum(t)[m] <= Sum(u)[m]
      BY <1>2, <3>1
    <3> QED
      BY <3>2, <3>3
  <2> QED
    BY <1>0, <2>1
<1> HIDE DEF T
<1>3. n \in T
  BY <1>0, <1>1, <1>2, InductionNat
<1> QED
  BY <1>0, <1>3 DEF T

LEMMA HeldIsSum == Held = Sum(table)
BY DEF Held, Sum

-----------------------------------------------------------------------------
(* The percentage is one, and it goes up with the count. *)
LEMMA Times ==
  ASSUME NEW a \in Nat, NEW b \in Nat, NEW c \in Nat, a <= b
  PROVE  a * c <= b * c
OBVIOUS

LEMMA Quotient ==
  ASSUME NEW x \in Nat, NEW d \in Nat \ {0}
  PROVE  /\ x \div d \in Nat
         /\ (x \div d) * d <= x
         /\ x < (x \div d + 1) * d
OBVIOUS

LEMMA QuotientMonotone ==
  ASSUME NEW x \in Nat, NEW y \in Nat, NEW d \in Nat \ {0}, x <= y
  PROVE  x \div d <= y \div d
<1> DEFINE p == x \div d
           q == y \div d
<1>1. p \in Nat /\ q \in Nat /\ p * d <= x /\ y < (q + 1) * d
  BY Quotient
<1> HIDE DEF p, q
<1>2. CASE q + 1 <= p
  <2>1. (q + 1) * d <= p * d
    BY <1>1, <1>2, Times
  <2>2. (q + 1) * d \in Nat /\ p * d \in Nat
    BY <1>1
  <2> QED
    BY <1>1, <2>1, <2>2
<1>3. CASE p <= q
  BY <1>3 DEF p, q
<1> QED
  BY <1>1, <1>2, <1>3

LEMMA PercentMonotone ==
  ASSUME NEW a \in Nat, NEW b \in Nat, a <= b
  PROVE  Percent(a) \in 0 .. 100 /\ Percent(b) \in 0 .. 100 /\ Percent(a) <= Percent(b)
<1>1. TotalCnt \in Nat \ {0}
  BY ProgressAssumption
<1>2. ASSUME NEW n \in Nat, n <= TotalCnt
      PROVE  (n * 100) \div TotalCnt \in 0 .. 100
  <2>1. (TotalCnt * 100) \div TotalCnt <= 100
    <3> DEFINE q == (TotalCnt * 100) \div TotalCnt
    <3>1. q \in Nat /\ q * TotalCnt <= TotalCnt * 100
      BY <1>1, Quotient
    <3> HIDE DEF q
    <3>2. CASE 101 <= q
      <4>1. 101 * TotalCnt <= q * TotalCnt
        BY <1>1, <3>1, <3>2, Times
      <4>2. q * TotalCnt \in Nat
        BY <1>1, <3>1
      <4> QED
        BY <1>1, <3>1, <4>1, <4>2
    <3>3. CASE q <= 100
      BY <3>3 DEF q
    <3> QED
      BY <3>1, <3>2, <3>3
  <2>2. (n * 100) \div TotalCnt <= (TotalCnt * 100) \div TotalCnt
    BY <1>1, <1>2, QuotientMonotone
  <2>3. (n * 100) \div TotalCnt \in Nat /\ (TotalCnt * 100) \div TotalCnt \in Nat
    BY <1>1, Quotient
  <2> QED
    BY <2>1, <2>2, <2>3
<1>3. (a * 100) \div TotalCnt <= (b * 100) \div TotalCnt
  BY <1>1, QuotientMonotone
<1>4. ASSUME NEW n \in Nat PROVE Percent(n) \in 0 .. 100
  BY <1>1, <1>2 DEF Percent
<1>5. Percent(a) <= Percent(b)
  <2>1. CASE b > TotalCnt
    BY <1>1, <1>4, <2>1 DEF Percent
  <2>2. CASE ~ (b > TotalCnt)
    BY <1>1, <1>3, <2>2 DEF Percent
  <2> QED
    BY <2>1, <2>2
<1> QED
  BY <1>4, <1>5
-----------------------------------------------------------------------------
(* What the place of a supervisor says of its variables; the row is locked   *)
(* exactly by the one whose transaction is between its update and its end.   *)
Early == {"off", "connect", "open", "reap"}
PlaceInv ==
  /\ \A s \in Shards :
       /\ pc[s] \in Early => j[s] = 1 /\ icnt[s] = 0
       /\ pc[s] \in {"select", "update", "commit"} => j[s] = N + 1
       /\ pc[s] = "off" => ~ on[s] /\ ~ last[s] /\ row.pid # s
       /\ last[s] => ~ on[s]
       /\ pc[s] = "end" => last[s]
       /\ pc[s] \in {"count", "select", "update", "commit"} => ~ final[s]
       /\ lock = s <=> pc[s] = "commit"
  /\ row.pid = 0 => row.progress = 0

ProgressInv ==
  /\ TypeOK
  /\ \A s \in Shards : table[s] <= Cap
  /\ PlaceInv

(* A round that began when the crawl was over has all its claims from the   *)
(* moment it is past that shard's table.                                    *)
LastInv ==
  \A s \in Shards : last[s] =>
    /\ pc[s] \in {"count", "select", "update", "commit"} /\ j[s] > s => icnt[s] >= table[s]
    /\ row.pid = s /\ final[s] /\ pc[s] \in {"sleep", "end"}
         => row.progress >= Percent(table[s])

(* As long as no table is cleared under the supervisors, a count is the sum *)
(* of what was once in the tables and is still there.                       *)
Once == {c \in [Shards -> 0 .. Cap] : \A k \in Shards : c[k] <= table[k]}
CountInv ==
  ~ wiped => \A s \in Shards : \E c \in Once : icnt[s] = Sum(c)[j[s] - 1]

(* The row comes from such a count, and its writer, who counts again, has   *)
(* not less of the tables that it is past.                                  *)
RowInv ==
  ~ wiped => \E c \in Once :
    /\ row.progress <= Percent(Sum(c)[N])
    /\ row.pid # 0 => Sum(c)[j[row.pid] - 1] <= icnt[row.pid]

-----------------------------------------------------------------------------
LEMMA ProgressInit == Init => ProgressInv /\ LastInv
<1> SUFFICES ASSUME Init PROVE ProgressInv /\ LastInv
  OBVIOUS
<1>1. TypeOK /\ \A s \in Shards : table[s] <= Cap
  <2>1. N \in Nat \ {0} /\ Old \in [Shards -> 0 .. Cap] /\ Cap \in Nat
    BY ProgressAssumption
  <2>2. 1 \in 1 .. N + 1 /\ 0 \in 0 .. N
    BY <2>1
  <2>3. table \in [Shards -> Nat] /\ \A s \in Shards : table[s] <= Cap
    BY <2>1 DEF Init
  <2>4. row \in [progress : 0 .. 100, pid : 0 .. N]
    BY <2>2 DEF Init
  <2> QED
    BY <2>2, <2>3, <2>4 DEF Init, TypeOK, PC
<1>2. PlaceInv
  BY DEF Init, PlaceInv, Early, Shards
<1>3. LastInv
  BY DEF Init, LastInv
<1> QED
  BY <1>1, <1>2, <1>3 DEF ProgressInv

LEMMA TypeNext ==
  ASSUME ProgressInv, [Next]_vars
  PROVE  TypeOK' /\ \A s \in Shards : table'[s] <= Cap
<1> USE DEF ProgressInv, TypeOK, PC
<1>0. N \in Nat \ {0} /\ Cap \in Nat /\ \A s \in Shards : s \in 0 .. N /\ s \in Nat /\ s <= N
  BY ProgressAssumption DEF Shards
<1>1. ASSUME NEW s \in Shards, Start(s)
      PROVE  TypeOK' /\ \A r \in Shards : table'[r] <= Cap
  BY <1>0, <1>1 DEF Start, Goto
<1>2. ASSUME NEW s \in Shards, Claim(s)
      PROVE  TypeOK' /\ \A r \in Shards : table'[r] <= Cap
  BY <1>0, <1>2 DEF Claim
<1>3. ASSUME NEW s \in Shards, CrawlOver(s)
      PROVE  TypeOK' /\ \A r \in Shards : table'[r] <= Cap
  BY <1>0, <1>3 DEF CrawlOver
<1>4. ASSUME NEW s \in Shards, Connect(s)
      PROVE  TypeOK' /\ \A r \in Shards : table'[r] <= Cap
  BY <1>0, <1>4 DEF Connect, Goto
<1>5. ASSUME NEW s \in Shards, OpenTables(s)
      PROVE  TypeOK' /\ \A r \in Shards : table'[r] <= Cap
  BY <1>0, <1>5 DEF OpenTables, Goto
<1>6. ASSUME NEW s \in Shards, Reap(s)
      PROVE  TypeOK' /\ \A r \in Shards : table'[r] <= Cap
  BY <1>0, <1>6 DEF Reap, Goto
<1>7. ASSUME NEW s \in Shards, CountTable(s)
      PROVE  TypeOK' /\ \A r \in Shards : table'[r] <= Cap
  <2>1. j[s] \in Nat /\ j[s] + 1 \in 1 .. N + 1 /\ j[s] \in Shards
    <3>1. j[s] \in 1 .. N + 1 /\ j[s] <= N
      BY <1>7 DEF CountTable
    <3> QED
      BY <1>0, <3>1 DEF Shards
  <2>2. icnt[s] + table[j[s]] \in Nat
    BY <2>1
  <2> QED
    BY <1>7, <2>1, <2>2 DEF CountTable
<1>8. ASSUME NEW s \in Shards, Decide(s)
      PROVE  TypeOK' /\ \A r \in Shards : table'[r] <= Cap
  BY <1>0, <1>8 DEF Decide, Goto
<1>9. ASSUME NEW s \in Shards, SelectRow(s)
      PROVE  TypeOK' /\ \A r \in Shards : table'[r] <= Cap
  BY <1>0, <1>9 DEF SelectRow, Goto
<1>10. ASSUME NEW s \in Shards, UpdateRow(s)
      PROVE  TypeOK' /\ \A r \in Shards : table'[r] <= Cap
  BY <1>0, <1>10 DEF UpdateRow, Goto
<1>11. ASSUME NEW s \in Shards, UpdateFail(s)
      PROVE  TypeOK' /\ \A r \in Shards : table'[r] <= Cap
  BY <1>0, <1>11 DEF UpdateFail, Goto
<1>12. ASSUME NEW s \in Shards, Commit(s)
      PROVE  TypeOK' /\ \A r \in Shards : table'[r] <= Cap
  <2>1. Percent(icnt[s]) \in 0 .. 100
    BY PercentMonotone
  <2>2. s \in 0 .. N /\ 0 \in 0 .. N
    BY <1>0
  <2>3. [progress |-> Percent(icnt[s]), pid |-> s] \in [progress : 0 .. 100, pid : 0 .. N]
    BY <2>1, <2>2
  <2>4. row' \in [progress : 0 .. 100, pid : 0 .. N] /\ lock' \in 0 .. N
    BY <1>12, <2>2, <2>3 DEF Commit
  <2>5. pc' \in [Shards -> PC] /\ final' \in [Shards -> BOOLEAN]
    BY <1>12 DEF Commit, Goto
  <2> QED
    BY <1>12, <2>4, <2>5 DEF Commit
<1>13. ASSUME NEW s \in Shards, Sleep(s)
      PROVE  TypeOK' /\ \A r \in Shards : table'[r] <= Cap
  BY <1>0, <1>13 DEF Sleep, Goto, NextRound, LastRound
<1>14. ASSUME NEW s \in Shards, Kill(s)
      PROVE  TypeOK' /\ \A r \in Shards : table'[r] <= Cap
  BY <1>0, <1>14 DEF Kill, Goto, NextRound, Gone
<1>15. CASE Finished \/ UNCHANGED vars
  BY <1>15 DEF Finished, vars
<1> QED
  BY <1>1, <1>2, <1>3, <1>4, <1>5, <1>6, <1>7, <1>8, <1>9, <1>10, <1>11, <1>12, <1>13, <1>14, <1>15 DEF Next, Own

LEMMA PlaceNext ==
  ASSUME ProgressInv, [Next]_vars
  PROVE  PlaceInv'
<1> USE DEF ProgressInv, TypeOK, PlaceInv, Early
<1>0. N \in Nat \ {0} /\ \A s \in Shards : s \in 1 .. N
  BY ProgressAssumption DEF Shards
<1>1. ASSUME NEW s \in Shards, Start(s) PROVE PlaceInv'
  BY <1>0, <1>1 DEF Start, Goto
<1>2. ASSUME NEW s \in Shards, Claim(s) PROVE PlaceInv'
  BY <1>0, <1>2 DEF Claim
<1>3. ASSUME NEW s \in Shards, CrawlOver(s) PROVE PlaceInv'
  BY <1>0, <1>3 DEF CrawlOver
<1>4. ASSUME NEW s \in Shards, Connect(s) PROVE PlaceInv'
  BY <1>0, <1>4 DEF Connect, Goto
<1>5. ASSUME NEW s \in Shards, OpenTables(s) PROVE PlaceInv'
  BY <1>0, <1>5 DEF OpenTables, Goto
<1>6. ASSUME NEW s \in Shards, Reap(s) PROVE PlaceInv'
  BY <1>0, <1>6 DEF Reap, Goto
<1>7. ASSUME NEW s \in Shards, CountTable(s) PROVE PlaceInv'
  BY <1>0, <1>7 DEF CountTable
<1>8. ASSUME NEW s \in Shards, Decide(s) PROVE PlaceInv'
  BY <1>0, <1>8 DEF Decide, Goto
<1>9. ASSUME NEW s \in Shards, SelectRow(s) PROVE PlaceInv'
  BY <1>0, <1>9 DEF SelectRow, Goto
<1>10. ASSUME NEW s \in Shards, UpdateRow(s) PROVE PlaceInv'
  BY <1>0, <1>10 DEF UpdateRow, Goto
<1>11. ASSUME NEW s \in Shards, UpdateFail(s) PROVE PlaceInv'
  BY <1>0, <1>11 DEF UpdateFail, Goto
<1>12. ASSUME NEW s \in Shards, Commit(s) PROVE PlaceInv'
  BY <1>0, <1>12 DEF Commit, Goto
<1>13. ASSUME NEW s \in Shards, Sleep(s) PROVE PlaceInv'
  BY <1>0, <1>13 DEF Sleep, Goto, NextRound, LastRound
<1>14. ASSUME NEW s \in Shards, Kill(s) PROVE PlaceInv'
  BY <1>0, <1>14 DEF Kill, Goto, NextRound, Gone
<1>15. CASE Finished \/ UNCHANGED vars
  BY <1>15 DEF Finished, vars
<1> QED
  BY <1>1, <1>2, <1>3, <1>4, <1>5, <1>6, <1>7, <1>8, <1>9, <1>10, <1>11, <1>12, <1>13, <1>14, <1>15 DEF Next, Own

LEMMA ProgressNext ==
  ASSUME ProgressInv, [Next]_vars
  PROVE  ProgressInv'
BY TypeNext, PlaceNext DEF ProgressInv

(* The last children are asked about before the count begins, so no claim   *)
(* can come to a table that the last count is past.                         *)
LEMMA LastNext ==
  ASSUME ProgressInv, LastInv, [Next]_vars
  PROVE  LastInv'
<1> USE DEF ProgressInv, TypeOK, PlaceInv, Early, LastInv
<1>0. N \in Nat \ {0} /\ \A s \in Shards : s \in 1 .. N
  BY ProgressAssumption DEF Shards
<1>1. ASSUME NEW s \in Shards, Start(s) PROVE LastInv'
  BY <1>0, <1>1 DEF Start, Goto
<1>2. ASSUME NEW s \in Shards, Claim(s) PROVE LastInv'
  BY <1>0, <1>2 DEF Claim
<1>3. ASSUME NEW s \in Shards, CrawlOver(s) PROVE LastInv'
  BY <1>0, <1>3 DEF CrawlOver
<1>4. ASSUME NEW s \in Shards, Connect(s) PROVE LastInv'
  BY <1>0, <1>4 DEF Connect, Goto
<1>5. ASSUME NEW s \in Shards, OpenTables(s) PROVE LastInv'
  BY <1>0, <1>5 DEF OpenTables, Goto
<1>6. ASSUME NEW s \in Shards, Reap(s) PROVE LastInv'
  BY <1>0, <1>6 DEF Reap, Goto
<1>7. ASSUME NEW s \in Shards, CountTable(s) PROVE LastInv'
  <2>1. j[s] \in Shards /\ j[s] \in Nat
    BY <1>0, <1>7 DEF CountTable, Shards
  <2>2. /\ UNCHANGED <<table, pc, last, row, final>>
        /\ \A r \in Shards : r # s => icnt'[r] = icnt[r] /\ j'[r] = j[r]
        /\ icnt'[s] = icnt[s] + table[j[s]] /\ j'[s] = j[s] + 1
    BY <1>7 DEF CountTable
  <2>3. icnt[s] \in Nat /\ table[s] \in Nat /\ table[j[s]] \in Nat
    BY <2>1
  <2>4. ASSUME last[s], j'[s] > s,
               pc[s] \in {"count", "select", "update", "commit"}
        PROVE  icnt'[s] >= table[s]
    <3>1. CASE j[s] = s
      BY <2>2, <2>3, <3>1
    <3>2. CASE j[s] # s
      <4>1. j[s] > s
        BY <1>0, <2>1, <2>2, <2>4, <3>2
      <4>2. icnt[s] >= table[s]
        BY <2>4, <4>1
      <4> QED
        BY <2>2, <2>3, <4>2
    <3> QED
      BY <3>1, <3>2
  <2> QED
    BY <2>2, <2>4
<1>8. ASSUME NEW s \in Shards, Decide(s) PROVE LastInv'
  BY <1>0, <1>8 DEF Decide, Goto
<1>9. ASSUME NEW s \in Shards, SelectRow(s) PROVE LastInv'
  BY <1>0, <1>9 DEF SelectRow, Goto
<1>10. ASSUME NEW s \in Shards, UpdateRow(s) PROVE LastInv'
  BY <1>0, <1>10 DEF UpdateRow, Goto
<1>11. ASSUME NEW s \in Shards, UpdateFail(s) PROVE LastInv'
  BY <1>0, <1>11 DEF UpdateFail, Goto
<1>12. ASSUME NEW s \in Shards, Commit(s) PROVE LastInv'
  <2>1. /\ pc[s] = "commit" /\ pc'[s] = "sleep"
        /\ \A r \in Shards : r # s => pc'[r] = pc[r] /\ final'[r] = final[r]
        /\ UNCHANGED <<table, last, j, icnt>>
    BY <1>12 DEF Commit, Goto
  <2>2. j[s] > s /\ ~ final[s]
    BY <1>0, <2>1
  <2>3. CASE UNCHANGED <<row, final>>
    BY <2>1, <2>2, <2>3
  <2>4. CASE row' = [progress |-> Percent(icnt[s]), pid |-> s]
    <3>1. row'.progress = Percent(icnt[s]) /\ row'.pid = s
      BY <2>4
    <3>2. last[s] => Percent(icnt[s]) >= Percent(table[s])
      <4> SUFFICES ASSUME last[s] PROVE Percent(table[s]) <= Percent(icnt[s])
        BY PercentMonotone
      <4>1. icnt[s] >= table[s] /\ icnt[s] \in Nat /\ table[s] \in Nat
        BY <2>1, <2>2
      <4> QED
        BY <4>1, PercentMonotone
    <3> QED
      BY <2>1, <3>1, <3>2
  <2> QED
    BY <1>12, <2>3, <2>4 DEF Commit
<1>13. ASSUME NEW s \in Shards, Sleep(s) PROVE LastInv'
  BY <1>0, <1>13 DEF Sleep, Goto, NextRound, LastRound
<1>14. ASSUME NEW s \in Shards, Kill(s) PROVE LastInv'
  BY <1>0, <1>14 DEF Kill, Goto, NextRound, Gone
<1>15. CASE Finished \/ UNCHANGED vars
  BY <1>15 DEF Finished, vars
<1> QED
  BY <1>1, <1>2, <1>3, <1>4, <1>5, <1>6, <1>7, <1>8, <1>9, <1>10, <1>11, <1>12, <1>13, <1>14, <1>15 DEF Next, Own

-----------------------------------------------------------------------------
(* Tables that lose nothing keep what was once in them. *)
LEMMA OnceKept ==
  ASSUME \A k \in Shards : table[k] <= table'[k],
         table \in [Shards -> Nat], table' \in [Shards -> Nat],
         Cap \in Nat
  PROVE  Once \subseteq Once'
<1>1. ASSUME NEW c \in Once PROVE c \in Once'
  <2>1. c \in [Shards -> 0 .. Cap] /\ \A k \in Shards : c[k] <= table[k]
    BY DEF Once
  <2>2. \A k \in Shards : c[k] <= table'[k]
    BY <2>1
  <2> QED
    BY <2>1, <2>2 DEF Once
<1> QED
  BY <1>1

(* Without a clear under the supervisors no step but the first takes claims *)
(* out of a table.                                                          *)
LEMMA TablesGrow ==
  ASSUME ProgressInv, [Next]_vars, ~ wiped'
  PROVE  /\ ~ wiped
         /\ \/ \A k \in Shards : table[k] <= table'[k]
            \/ \A s \in Shards : pc[s] = "off"
<1> USE DEF ProgressInv, TypeOK
<1>1. ASSUME NEW s \in Shards, Start(s)
      PROVE  /\ ~ wiped
             /\ \/ \A k \in Shards : table[k] <= table'[k]
                \/ \A r \in Shards : pc[r] = "off"
  <2>1. ~ wiped /\ (table[s] > 0 => \A r \in Shards : pc[r] = "off")
    BY <1>1 DEF Start
  <2>2. ASSUME ~ (table[s] > 0), NEW k \in Shards PROVE table[k] <= table'[k]
    <3>1. table'[k] = (IF k = s THEN 0 ELSE table[k]) /\ table[k] \in Nat
      BY <1>1 DEF Start
    <3> QED
      BY <2>2, <3>1
  <2> QED
    BY <2>1, <2>2
<1>2. ASSUME NEW s \in Shards, Claim(s)
      PROVE  /\ ~ wiped
             /\ \/ \A k \in Shards : table[k] <= table'[k]
                \/ \A r \in Shards : pc[r] = "off"
  BY <1>2 DEF Claim
<1>3. ASSUME NEW s \in Shards, CrawlOver(s)
      PROVE  /\ ~ wiped
             /\ \/ \A k \in Shards : table[k] <= table'[k]
                \/ \A r \in Shards : pc[r] = "off"
  BY <1>3 DEF CrawlOver
<1>4. ASSUME NEW s \in Shards, Connect(s)
      PROVE  /\ ~ wiped
             /\ \/ \A k \in Shards : table[k] <= table'[k]
                \/ \A r \in Shards : pc[r] = "off"
  BY <1>4 DEF Connect
<1>5. ASSUME NEW s \in Shards, OpenTables(s)
      PROVE  /\ ~ wiped
             /\ \/ \A k \in Shards : table[k] <= table'[k]
                \/ \A r \in Shards : pc[r] = "off"
  BY <1>5 DEF OpenTables
<1>6. ASSUME NEW s \in Shards, Reap(s)
      PROVE  /\ ~ wiped
             /\ \/ \A k \in Shards : table[k] <= table'[k]
                \/ \A r \in Shards : pc[r] = "off"
  BY <1>6 DEF Reap
<1>7. ASSUME NEW s \in Shards, CountTable(s)
      PROVE  /\ ~ wiped
             /\ \/ \A k \in Shards : table[k] <= table'[k]
                \/ \A r \in Shards : pc[r] = "off"
  BY <1>7 DEF CountTable
<1>8. ASSUME NEW s \in Shards, Decide(s)
      PROVE  /\ ~ wiped
             /\ \/ \A k \in Shards : table[k] <= table'[k]
                \/ \A r \in Shards : pc[r] = "off"
  BY <1>8 DEF Decide
<1>9. ASSUME NEW s \in Shards, SelectRow(s)
      PROVE  /\ ~ wiped
             /\ \/ \A k \in Shards : table[k] <= table'[k]
                \/ \A r \in Shards : pc[r] = "off"
  BY <1>9 DEF SelectRow
<1>10. ASSUME NEW s \in Shards, UpdateRow(s)
      PROVE  /\ ~ wiped
             /\ \/ \A k \in Shards : table[k] <= table'[k]
                \/ \A r \in Shards : pc[r] = "off"
  BY <1>10 DEF UpdateRow
<1>11. ASSUME NEW s \in Shards, UpdateFail(s)
      PROVE  /\ ~ wiped
             /\ \/ \A k \in Shards : table[k] <= table'[k]
                \/ \A r \in Shards : pc[r] = "off"
  BY <1>11 DEF UpdateFail
<1>12. ASSUME NEW s \in Shards, Commit(s)
      PROVE  /\ ~ wiped
             /\ \/ \A k \in Shards : table[k] <= table'[k]
                \/ \A r \in Shards : pc[r] = "off"
  BY <1>12 DEF Commit
<1>13. ASSUME NEW s \in Shards, Sleep(s)
      PROVE  /\ ~ wiped
             /\ \/ \A k \in Shards : table[k] <= table'[k]
                \/ \A r \in Shards : pc[r] = "off"
  BY <1>13 DEF Sleep
<1>14. ASSUME NEW s \in Shards, Kill(s)
      PROVE  /\ ~ wiped
             /\ \/ \A k \in Shards : table[k] <= table'[k]
                \/ \A r \in Shards : pc[r] = "off"
  BY <1>14 DEF Kill
<1>15. CASE Finished \/ UNCHANGED vars
  BY <1>15 DEF Finished, vars
<1> QED
  BY <1>1, <1>2, <1>3, <1>4, <1>5, <1>6, <1>7, <1>8, <1>9, <1>10, <1>11, <1>12, <1>13, <1>14, <1>15 DEF Next, Own

(* A step leaves the count of a supervisor alone, begins it anew, or adds   *)
(* one table; only a commit writes the row.                                 *)
LEMMA CountSteps ==
  ASSUME ProgressInv, [Next]_vars, NEW r \in Shards
  PROVE  \/ icnt'[r] = icnt[r] /\ j'[r] = j[r]
         \/ icnt'[r] = 0 /\ j'[r] = 1
         \/ CountTable(r)
<1> USE DEF ProgressInv, TypeOK
<1>1. ASSUME NEW s \in Shards, CountTable(s)
      PROVE  (icnt'[r] = icnt[r] /\ j'[r] = j[r]) \/ CountTable(r)
  BY <1>1 DEF CountTable
<1>2. ASSUME NEW s \in Shards, Sleep(s) \/ Kill(s)
      PROVE  (icnt'[r] = icnt[r] /\ j'[r] = j[r]) \/ (icnt'[r] = 0 /\ j'[r] = 1)
  BY <1>2 DEF Sleep, Kill, NextRound
<1>3. ASSUME NEW s \in Shards,
             \/ Start(s) \/ Claim(s) \/ CrawlOver(s) \/ Connect(s) \/ OpenTables(s)
             \/ Reap(s) \/ Decide(s) \/ SelectRow(s) \/ UpdateRow(s) \/ UpdateFail(s)
             \/ Commit(s)
      PROVE  UNCHANGED <<icnt, j>>
  BY <1>3 DEF Start, Claim, CrawlOver, Connect, OpenTables, Reap, Decide, SelectRow,
              UpdateRow, UpdateFail, Commit
<1>4. CASE Finished \/ UNCHANGED vars
  BY <1>4 DEF Finished, vars
<1> QED
  BY <1>1, <1>2, <1>3, <1>4 DEF Next, Own

LEMMA RowSteps ==
  ASSUME ProgressInv, [Next]_vars
  PROVE  \/ row' = row
         \/ \E s \in Shards : Commit(s) /\ row' = [progress |-> Percent(icnt[s]), pid |-> s]
<1>1. ASSUME NEW s \in Shards, Commit(s)
      PROVE  row' = row \/ row' = [progress |-> Percent(icnt[s]), pid |-> s]
  BY <1>1 DEF Commit
<1>2. ASSUME NEW s \in Shards,
             \/ Start(s) \/ Claim(s) \/ CrawlOver(s) \/ Connect(s) \/ OpenTables(s)
             \/ Reap(s) \/ CountTable(s) \/ Decide(s) \/ SelectRow(s) \/ UpdateRow(s)
             \/ UpdateFail(s) \/ Sleep(s) \/ Kill(s)
      PROVE  row' = row
  BY <1>2 DEF Start, Claim, CrawlOver, Connect, OpenTables, Reap, CountTable, Decide,
              SelectRow, UpdateRow, UpdateFail, Sleep, Kill
<1>3. CASE Finished \/ UNCHANGED vars
  BY <1>3 DEF Finished, vars
<1> QED
  BY <1>1, <1>2, <1>3 DEF Next, Own

(* Before any supervisor has begun nothing is counted. *)
LEMMA Nothing ==
  ASSUME ProgressInv, ProgressInv'
  PROVE  /\ [k \in Shards |-> 0] \in Once'
         /\ Sum([k \in Shards |-> 0])[0] = 0
         /\ Sum([k \in Shards |-> 0])[N] \in Nat
<1>1. [k \in Shards |-> 0] \in [Shards -> 0 .. Cap] /\ [k \in Shards |-> 0] \in [Shards -> Nat]
  BY ProgressAssumption
<1>2. \A k \in Shards : table'[k] \in Nat /\ 0 <= table'[k]
  BY DEF ProgressInv, TypeOK
<1>3. N \in 0 .. N
  BY ProgressAssumption
<1> QED
  BY <1>1, <1>2, <1>3, SumStep DEF Once

LEMMA OnceType ==
  ASSUME NEW c \in Once
  PROVE  /\ c \in [Shards -> Nat] /\ c \in [Shards -> 0 .. Cap]
         /\ \A k \in Shards : c[k] <= table[k]
BY ProgressAssumption DEF Once

LEMMA CountNext ==
  ASSUME ProgressInv, CountInv, [Next]_vars
  PROVE  CountInv'
<1> SUFFICES ASSUME ~ wiped', NEW r \in Shards
             PROVE  \E c \in Once' : icnt'[r] = Sum(c)[j'[r] - 1]
  BY DEF CountInv
<1>0. ProgressInv' /\ N \in Nat \ {0} /\ Cap \in Nat
  BY ProgressNext, ProgressAssumption
<1>1. CASE icnt'[r] = 0 /\ j'[r] = 1
  <2>1. j'[r] - 1 = 0
    BY <1>1
  <2> QED
    BY <1>0, <1>1, <2>1, Nothing
<1>2. CASE \A s \in Shards : pc[s] = "off"
  <2>1. icnt[r] = 0 /\ j[r] = 1 /\ ~ CountTable(r)
    BY <1>2 DEF ProgressInv, PlaceInv, Early, CountTable
  <2>2. icnt'[r] = 0 /\ j'[r] = 1
    BY <2>1, CountSteps
  <2> QED
    BY <1>1, <2>2
<1>3. CASE \A k \in Shards : table[k] <= table'[k]
  <2>1. ~ wiped /\ Once \subseteq Once'
    BY <1>0, <1>3, TablesGrow, OnceKept DEF ProgressInv, TypeOK
  <2>2. PICK c \in Once : icnt[r] = Sum(c)[j[r] - 1]
    BY <2>1 DEF CountInv
  <2>3. CASE icnt'[r] = icnt[r] /\ j'[r] = j[r]
    BY <2>1, <2>2, <2>3
  <2>4. CASE CountTable(r)
    <3>1. /\ j[r] \in Shards /\ j'[r] = j[r] + 1 /\ j'[r] - 1 = j[r]
          /\ icnt'[r] = icnt[r] + table[j[r]] /\ table' = table
      BY <1>0, <2>4 DEF CountTable, Shards, ProgressInv, TypeOK
    <3>2. PICK d : d = [c EXCEPT ![j[r]] = table[j[r]]]
      OBVIOUS
    <3>3. d \in [Shards -> 0 .. Cap] /\ d \in [Shards -> Nat] /\ \A k \in Shards : d[k] <= table[k]
      <4>1. c \in [Shards -> 0 .. Cap] /\ \A k \in Shards : c[k] <= table[k]
        BY OnceType
      <4>2. table[j[r]] \in 0 .. Cap
        BY <1>0, <3>1 DEF ProgressInv, TypeOK
      <4> QED
        BY <1>0, <3>1, <3>2, <4>1, <4>2
    <3>4. d \in Once'
      BY <3>1, <3>3 DEF Once
    <3>5. Sum(d)[j[r]] = Sum(d)[j[r] - 1] + table[j[r]]
      BY <3>1, <3>2, <3>3, SumStep, OnceType
    <3>6. Sum(d)[j[r] - 1] = Sum(c)[j[r] - 1]
      <4>1. j[r] - 1 \in 0 .. N /\ \A k \in 1 .. j[r] - 1 : k \in Shards /\ k # j[r]
        BY <1>0, <3>1 DEF Shards
      <4>2. \A k \in 1 .. j[r] - 1 : d[k] = c[k] /\ c[k] \in Nat
        BY <3>2, <4>1, OnceType
      <4>3. c \in [Shards -> Nat]
        BY OnceType
      <4>4. Sum(d)[j[r] - 1] <= Sum(c)[j[r] - 1]
        BY <3>3, <4>1, <4>2, <4>3, SumMonotone
      <4>5. Sum(c)[j[r] - 1] <= Sum(d)[j[r] - 1]
        BY <3>3, <4>1, <4>2, <4>3, SumMonotone
      <4>6. Sum(d)[j[r] - 1] \in Nat /\ Sum(c)[j[r] - 1] \in Nat
        BY <3>3, <4>1, <4>3, SumStep
      <4> QED
        BY <4>4, <4>5, <4>6
    <3>7. icnt'[r] = Sum(d)[j'[r] - 1]
      BY <2>2, <3>1, <3>5, <3>6
    <3> QED
      BY <3>4, <3>7
  <2> QED
    BY <1>1, <2>3, <2>4, CountSteps
<1> QED
  BY <1>2, <1>3, TablesGrow

LEMMA RowNext ==
  ASSUME ProgressInv, CountInv, RowInv, [Next]_vars
  PROVE  RowInv'
<1> SUFFICES ASSUME ~ wiped'
             PROVE  \E c \in Once' :
                      /\ row'.progress <= Percent(Sum(c)[N])
                      /\ row'.pid # 0 => Sum(c)[j'[row'.pid] - 1] <= icnt'[row'.pid]
  BY DEF RowInv
<1>0. ProgressInv' /\ N \in Nat \ {0} /\ Cap \in Nat /\ N \in 0 .. N
  BY ProgressNext, ProgressAssumption
<1>1. CASE \A s \in Shards : pc[s] = "off"
  <2>1. row' = row
    BY <1>1, RowSteps DEF Commit
  <2>2. row.pid = 0 /\ row.progress = 0
    <3>1. row.pid \in 0 .. N /\ \A s \in Shards : row.pid # s
      BY <1>1 DEF ProgressInv, PlaceInv, TypeOK
    <3>2. row.pid = 0
      BY <1>0, <3>1 DEF Shards
    <3> QED
      BY <3>2 DEF ProgressInv, PlaceInv
  <2>3. 0 <= Percent(Sum([k \in Shards |-> 0])[N])
    BY <1>0, Nothing, PercentMonotone
  <2> QED
    BY <1>0, <2>1, <2>2, <2>3, Nothing
<1>2. CASE \A k \in Shards : table[k] <= table'[k]
  <2>1. ~ wiped /\ Once \subseteq Once'
    BY <1>0, <1>2, TablesGrow, OnceKept DEF ProgressInv, TypeOK
  <2>2. CASE row' = row
    <3>1. PICK c \in Once : /\ row.progress <= Percent(Sum(c)[N])
                            /\ row.pid # 0 => Sum(c)[j[row.pid] - 1] <= icnt[row.pid]
      BY <2>1 DEF RowInv
    <3>2. ASSUME row.pid # 0 PROVE Sum(c)[j'[row.pid] - 1] <= icnt'[row.pid]
      <4>1. PICK r \in Shards : r = row.pid
        BY <1>0, <3>2 DEF ProgressInv, TypeOK, Shards
      <4>2. c \in [Shards -> Nat] /\ \A k \in Shards : c[k] <= table[k]
        BY OnceType
      <4>3. CASE icnt'[r] = icnt[r] /\ j'[r] = j[r]
        BY <3>1, <3>2, <4>1, <4>3
      <4>4. CASE icnt'[r] = 0 /\ j'[r] = 1
        <5>1. Sum(c)[0] = 0 /\ j'[r] - 1 = 0
          BY <4>2, <4>4, SumStep
        <5> QED
          BY <4>1, <4>4, <5>1
      <4>5. CASE CountTable(r)
        <5>1. /\ j[r] \in Shards /\ j[r] - 1 \in 0 .. N /\ j'[r] - 1 = j[r]
              /\ icnt'[r] = icnt[r] + table[j[r]]
              /\ icnt[r] \in Nat /\ table[j[r]] \in Nat
          <6>1. /\ j[r] \in 1 .. N + 1 /\ j[r] <= N
                /\ icnt' = [icnt EXCEPT ![r] = icnt[r] + table[j[r]]]
                /\ j' = [j EXCEPT ![r] = j[r] + 1]
                /\ icnt \in [Shards -> Nat] /\ j \in [Shards -> 1 .. N + 1]
                /\ table \in [Shards -> Nat]
            BY <4>5 DEF CountTable, ProgressInv, TypeOK
          <6>2. j[r] \in Shards /\ j[r] - 1 \in 0 .. N
            BY <1>0, <6>1 DEF Shards
          <6>3. j'[r] = j[r] + 1 /\ icnt'[r] = icnt[r] + table[j[r]]
            BY <6>1
          <6> QED
            BY <6>1, <6>2, <6>3
        <5>2. /\ Sum(c)[j[r]] = Sum(c)[j[r] - 1] + c[j[r]]
              /\ c[j[r]] \in Nat /\ Sum(c)[j[r] - 1] \in Nat
              /\ c[j[r]] <= table[j[r]]
          BY <4>2, <5>1, SumStep
        <5>3. Sum(c)[j[r] - 1] <= icnt[r]
          BY <3>1, <3>2, <4>1
        <5> QED
          BY <4>1, <5>1, <5>2, <5>3
      <4> QED
        BY <4>3, <4>4, <4>5, CountSteps
    <3> QED
      BY <2>1, <2>2, <3>1, <3>2
  <2>3. ASSUME NEW s \in Shards, Commit(s), row' = [progress |-> Percent(icnt[s]), pid |-> s]
        PROVE  \E c \in Once' :
                 /\ row'.progress <= Percent(Sum(c)[N])
                 /\ row'.pid # 0 => Sum(c)[j'[row'.pid] - 1] <= icnt'[row'.pid]
    <3>1. PICK c \in Once : icnt[s] = Sum(c)[j[s] - 1]
      BY <2>1 DEF CountInv
    <3>2. /\ j[s] = N + 1 /\ j[s] - 1 = N /\ icnt[s] \in Nat
          /\ UNCHANGED <<j, icnt>>
      BY <1>0, <2>3 DEF Commit, ProgressInv, PlaceInv, TypeOK
    <3>3. row'.progress = Percent(Sum(c)[N]) /\ row'.pid = s
      BY <2>3, <3>1, <3>2
    <3>4. Percent(icnt[s]) \in 0 .. 100
      BY <3>2, PercentMonotone
    <3>5. Sum(c)[j'[s] - 1] <= icnt'[s] /\ row'.progress <= Percent(Sum(c)[N])
      BY <3>1, <3>2, <3>3, <3>4
    <3> QED
      BY <2>1, <3>3, <3>5
  <2> QED
    BY <2>2, <2>3, RowSteps
<1> QED
  BY <1>1, <1>2, TablesGrow

-----------------------------------------------------------------------------
LEMMA RowInit == Init => CountInv /\ RowInv
<1> SUFFICES ASSUME Init PROVE CountInv /\ RowInv
  OBVIOUS
<1>0. N \in Nat \ {0} /\ Cap \in Nat /\ N \in 0 .. N
  BY ProgressAssumption
<1>1. PICK z : z = [k \in Shards |-> 0]
  OBVIOUS
<1>2. z \in Once /\ z \in [Shards -> Nat]
  <2>1. \A k \in Shards : table[k] \in Nat
    BY ProgressInit DEF ProgressInv, TypeOK
  <2> QED
    BY <1>0, <1>1, <2>1 DEF Once
<1>3. Sum(z)[0] = 0 /\ Sum(z)[N] \in Nat
  BY <1>0, <1>2, SumStep
<1>4. CountInv
  <2>1. \A s \in Shards : icnt[s] = Sum(z)[j[s] - 1]
    BY <1>3 DEF Init
  <2> QED
    BY <1>2, <2>1 DEF CountInv
<1>5. RowInv
  <2>1. row.progress = 0 /\ row.pid = 0
    BY DEF Init
  <2>2. 0 <= Percent(Sum(z)[N])
    BY <1>3, PercentMonotone
  <2> QED
    BY <1>2, <2>1, <2>2 DEF RowInv
<1> QED
  BY <1>4, <1>5

FullInv == ProgressInv /\ LastInv /\ CountInv /\ RowInv

LEMMA FullAlways == Spec => []FullInv
<1>1. Init => FullInv
  BY ProgressInit, RowInit DEF FullInv
<1>2. FullInv /\ [Next]_vars => FullInv'
  BY ProgressNext, LastNext, CountNext, RowNext DEF FullInv
<1> QED
  BY <1>1, <1>2, PTL DEF Spec

(* The variables keep their types, for every number of shards and every     *)
(* fault: the percentage never leaves 0 .. 100, although the count may pass  *)
(* TOTALCNT, and no supervisor counts a table beyond the last.              *)
THEOREM ProgressTypeCorrect == Spec => []TypeOK
<1>1. FullInv => TypeOK
  BY DEF FullInv, ProgressInv
<1> QED
  BY FullAlways, <1>1, PTL

(* A transaction that has the row belongs to a supervisor between its       *)
(* update and its commit: no failing call, and no kill, leaves it locked.   *)
RowGivenBack == lock # 0 => pc[lock] = "commit"

THEOREM RowLockOwned == Spec => []RowGivenBack
<1>1. FullInv => RowGivenBack
  <2> SUFFICES ASSUME FullInv, lock # 0 PROVE pc[lock] = "commit"
    BY DEF RowGivenBack
  <2>1. PICK s \in Shards : s = lock
    BY ProgressAssumption DEF FullInv, ProgressInv, TypeOK, Shards
  <2> QED
    BY <2>1 DEF FullInv, ProgressInv, PlaceInv
<1> QED
  BY FullAlways, <1>1, PTL

(* The row is not ahead of the tables unless one was cleared under the      *)
(* supervisors, and not behind the shard whose supervisor wrote it last and *)
(* ended: for every number of shards, any TOTALCNT and every fault.         *)
THEOREM RowTells == Spec => []RowRight
<1>1. FullInv => RowRight
  <2> SUFFICES ASSUME FullInv PROVE RowRight
    OBVIOUS
  <2>0. N \in Nat /\ N \in 0 .. N /\ \A k \in 1 .. N : k \in Shards
    BY ProgressAssumption DEF Shards
  <2>1. ASSUME ~ wiped PROVE row.progress <= Percent(Held[N])
    <3>1. PICK c \in Once : row.progress <= Percent(Sum(c)[N])
      BY <2>1 DEF FullInv, RowInv
    <3>2. c \in [Shards -> Nat] /\ \A k \in Shards : c[k] <= table[k]
      BY OnceType
    <3>3. table \in [Shards -> Nat] /\ row.progress \in 0 .. 100
      BY DEF FullInv, ProgressInv, TypeOK
    <3>4. Sum(c)[N] <= Held[N] /\ Sum(c)[N] \in Nat /\ Held[N] \in Nat
      BY <2>0, <3>2, <3>3, SumMonotone, SumStep, HeldIsSum
    <3>5. /\ Percent(Sum(c)[N]) <= Percent(Held[N])
          /\ Percent(Sum(c)[N]) \in 0 .. 100 /\ Percent(Held[N]) \in 0 .. 100
      BY <3>4, PercentMonotone
    <3> QED
      BY <3>1, <3>3, <3>5
  <2>2. ASSUME NEW s \in Shards, row.pid = s, pc[s] = "end", final[s]
        PROVE  row.progress >= Percent(table[s])
    BY <2>2 DEF FullInv, ProgressInv, PlaceInv, LastInv
  <2> QED
    BY <2>1, <2>2 DEF RowRight
<1> QED
  BY FullAlways, <1>1, PTL

(* What one supervisor writes never goes back as long as no table was       *)
(* cleared under it: the row goes back only when another one writes over it. *)
THEOREM RowGoesBackByOther == Spec => BackOnlyByOther
<1>1. ASSUME FullInv, [Next]_vars, row'.pid = row.pid, ~ wiped
      PROVE  row'.progress >= row.progress
  <2>0. N \in Nat \ {0} /\ N \in 0 .. N /\ \A s \in Shards : s # 0
    BY ProgressAssumption DEF Shards
  <2>1. row.progress \in 0 .. 100
    BY <1>1 DEF FullInv, ProgressInv, TypeOK
  <2>2. ASSUME NEW s \in Shards, Commit(s), row' = [progress |-> Percent(icnt[s]), pid |-> s]
        PROVE  row'.progress >= row.progress
    <3>1. PICK c \in Once : /\ row.progress <= Percent(Sum(c)[N])
                            /\ row.pid # 0 => Sum(c)[j[row.pid] - 1] <= icnt[row.pid]
      BY <1>1 DEF FullInv, RowInv
    <3>2. row.pid = s /\ row'.progress = Percent(icnt[s])
      BY <1>1, <2>2
    <3>3. j[s] - 1 = N /\ icnt[s] \in Nat
      BY <1>1, <2>0, <2>2 DEF Commit, FullInv, ProgressInv, PlaceInv, TypeOK
    <3>4. Sum(c)[N] <= icnt[s] /\ Sum(c)[N] \in Nat
      BY <2>0, <3>1, <3>2, <3>3, OnceType, SumStep
    <3>5. /\ Percent(Sum(c)[N]) <= Percent(icnt[s])
          /\ Percent(Sum(c)[N]) \in 0 .. 100 /\ Percent(icnt[s]) \in 0 .. 100
      BY <3>3, <3>4, PercentMonotone
    <3> QED
      BY <2>1, <3>1, <3>2, <3>5
  <2> QED
    BY <1>1, <2>1, <2>2, RowSteps DEF FullInv
<1>2. FullInv /\ [Next]_vars => [row'.pid = row.pid /\ ~ wiped => row'.progress >= row.progress]_vars
  BY <1>1
<1> QED
  BY FullAlways, <1>2, PTL DEF Spec, BackOnlyByOther
=============================================================================
