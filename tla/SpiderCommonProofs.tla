-------------------------- MODULE SpiderCommonProofs --------------------------
(***************************************************************************)
(* Proofs about the single-process crawl: what its loop keeps true of the  *)
(* two lists, for every site, depth limit and mode, and that it is a crawl *)
(* in the sense of module Crawl.                                           *)
(***************************************************************************)
EXTENDS SpiderCommon, SequenceTheorems, Recursion

LEMMA TailSet ==
  ASSUME NEW V, NEW s \in Seq(V), s # <<>>
  PROVE  /\ Head(s) \in ToSet(s) /\ Head(s) \in V
         /\ Tail(s) \in Seq(V)
         /\ ToSet(s) = {Head(s)} \union ToSet(Tail(s))
<1>1. Len(s) \in Nat /\ Len(s) >= 1 /\ DOMAIN s = 1 .. Len(s) /\ Head(s) = s[1]
  BY EmptySeq, LenProperties
<1>2. /\ Tail(s) \in Seq(V) /\ Head(s) \in V
      /\ Len(Tail(s)) = Len(s) - 1
      /\ \A i \in 1 .. Len(Tail(s)) : Tail(s)[i] = s[i + 1]
  BY HeadTailProperties
<1>3. DOMAIN Tail(s) = 1 .. Len(s) - 1
  BY <1>2, LenProperties
<1>4. ASSUME NEW i \in 1 .. Len(s) PROVE s[i] = Head(s) \/ \E k \in 1 .. Len(s) - 1 : s[i] = Tail(s)[k]
  <2>1. CASE i = 1
    BY <1>1, <2>1
  <2>2. CASE i # 1
    <3>1. i - 1 \in 1 .. Len(s) - 1 /\ Tail(s)[i - 1] = s[i]
      BY <1>1, <1>2, <2>2
    <3> QED
      BY <3>1
  <2> QED
    BY <2>1, <2>2
<1>5. \A k \in 1 .. Len(s) - 1 : k + 1 \in 1 .. Len(s) /\ Tail(s)[k] = s[k + 1]
  BY <1>1, <1>2
<1>6. ToSet(s) = {s[i] : i \in 1 .. Len(s)} /\ ToSet(Tail(s)) = {Tail(s)[k] : k \in 1 .. Len(s) - 1}
  BY <1>1, <1>3 DEF ToSet
<1>7. Head(s) \in ToSet(s)
  BY <1>1, <1>6
<1>8. ToSet(s) \subseteq {Head(s)} \union ToSet(Tail(s))
  BY <1>4, <1>6
<1>9. ToSet(Tail(s)) \subseteq ToSet(s)
  BY <1>5, <1>6
<1> QED
  BY <1>2, <1>7, <1>8, <1>9

LEMMA ConsSet ==
  ASSUME NEW V, NEW s \in Seq(V), NEW k \in V
  PROVE  /\ <<k>> \o s \in Seq(V)
         /\ ToSet(<<k>> \o s) = {k} \union ToSet(s)
<1> DEFINE t == <<k>> \o s
<1>1. Len(s) \in Nat /\ DOMAIN s = 1 .. Len(s)
  BY LenProperties
<1>2. /\ t \in Seq(V) /\ Len(t) = Len(s) + 1
      /\ \A i \in 1 .. Len(t) : t[i] = IF i <= 1 THEN k ELSE s[i - 1]
  BY ConcatProperties
<1> HIDE DEF t
<1>3. DOMAIN t = 1 .. Len(s) + 1
  BY <1>2, LenProperties
<1>4. \A i \in 1 .. Len(s) : i + 1 \in 1 .. Len(s) + 1 /\ t[i + 1] = s[i]
  BY <1>1, <1>2
<1>5. \A i \in 1 .. Len(s) + 1 : t[i] = k \/ (i - 1 \in 1 .. Len(s) /\ t[i] = s[i - 1])
  BY <1>1, <1>2
<1>6. 1 \in 1 .. Len(s) + 1 /\ t[1] = k
  BY <1>1, <1>2
<1>7. ToSet(t) = {k} \union ToSet(s)
  BY <1>1, <1>3, <1>4, <1>5, <1>6 DEF ToSet
<1> QED
  BY <1>2, <1>7 DEF t

LEMMA AppendSet ==
  ASSUME NEW V, NEW s \in Seq(V), NEW k \in V
  PROVE  /\ Append(s, k) \in Seq(V)
         /\ ToSet(Append(s, k)) = ToSet(s) \union {k}
<1> DEFINE t == Append(s, k)
<1>1. Len(s) \in Nat /\ DOMAIN s = 1 .. Len(s)
  BY LenProperties
<1>2. /\ t \in Seq(V) /\ Len(t) = Len(s) + 1
      /\ \A i \in 1 .. Len(s) : t[i] = s[i]
      /\ t[Len(s) + 1] = k
  BY AppendProperties
<1> HIDE DEF t
<1>3. DOMAIN t = 1 .. Len(s) + 1
  BY <1>2, LenProperties
<1>4. 1 .. Len(s) + 1 = (1 .. Len(s)) \union {Len(s) + 1}
  BY <1>1
<1>5. ToSet(t) = ToSet(s) \union {k}
  BY <1>1, <1>2, <1>3, <1>4 DEF ToSet
<1> QED
  BY <1>2, <1>5 DEF t

(* Taking keys out of a list leaves the others. *)
LEMMA WithoutSet ==
  ASSUME NEW V, NEW s \in Seq(V), NEW S
  PROVE  /\ Todo!Without(s, S) \in Seq(V)
         /\ ToSet(Todo!Without(s, S)) = ToSet(s) \ S
<1> DEFINE n == Len(s)
           Body(f) == [i \in 0 .. n |-> IF i = 0 THEN <<>>
                                        ELSE IF s[i] \in S THEN f[i - 1]
                                        ELSE Append(f[i - 1], s[i])]
           F == CHOOSE f : f = Body(f)
           step == [x \in Nat \X Seq(V) |->
                      IF x[1] + 1 \in 1 .. n
                      THEN IF s[x[1] + 1] \in S THEN x[2] ELSE Append(x[2], s[x[1] + 1])
                      ELSE x[2]]
<1>1. n \in Nat /\ DOMAIN s = 1 .. n /\ \A i \in 1 .. n : s[i] \in V
  BY LenProperties, ElementOfSeq
<1>2. Todo!Without(s, S) = F[n]
  BY DEF Todo!Without
<1>3. \E f : f = Body(f)
  <2>1. step \in [Nat \X Seq(V) -> Seq(V)]
    <3>1. ASSUME NEW x \in Nat \X Seq(V) PROVE step[x] \in Seq(V)
      <4>1. x[1] \in Nat /\ x[2] \in Seq(V)
        OBVIOUS
      <4>2. CASE x[1] + 1 \in 1 .. n
        <5>1. s[x[1] + 1] \in V
          BY <1>1, <4>2
        <5>2. Append(x[2], s[x[1] + 1]) \in Seq(V)
          BY <4>1, <5>1, AppendProperties
        <5> QED
          BY <4>1, <5>2
      <4> QED
        BY <4>1, <4>2
    <3> QED
      BY <3>1
  <2>2. <<>> \in Seq(V)
    OBVIOUS
  <2> HIDE DEF step
  <2>3. PICK f : Follows(f, n, <<>>, step, Seq(V))
    BY <1>1, <2>1, <2>2, FollowsExists
  <2>4. ASSUME NEW i \in 0 .. n, i # 0
        PROVE  f[i] = IF s[i] \in S THEN f[i - 1] ELSE Append(f[i - 1], s[i])
    <3>1. i - 1 \in 0 .. n - 1 /\ (i - 1) + 1 = i /\ i \in 1 .. n /\ i - 1 \in Nat /\ i - 1 \in 0 .. n
      BY <1>1, <2>4
    <3>2. f[i] = step[<<i - 1, f[i - 1]>>] /\ f[i - 1] \in Seq(V)
      BY <2>3, <3>1 DEF Follows
    <3> QED
      BY <3>1, <3>2 DEF step
  <2>5. f = [i \in 0 .. n |-> f[i]] /\ f[0] = <<>>
    BY <2>3 DEF Follows
  <2>6. f = Body(f)
    BY <2>4, <2>5
  <2> QED
    BY <2>6
<1> HIDE DEF Body
<1>4. F = Body(F)
  BY <1>3, Zenon
<1> HIDE DEF F, n
<1>5. F[0] = <<>>
  BY <1>1, <1>4 DEF Body
<1>6. ASSUME NEW i \in Nat, i + 1 <= n
      PROVE  F[i + 1] = IF s[i + 1] \in S THEN F[i] ELSE Append(F[i], s[i + 1])
  <2>1. i + 1 \in 0 .. n /\ i + 1 # 0 /\ (i + 1) - 1 = i
    BY <1>1, <1>6
  <2> QED
    BY <1>4, <2>1 DEF Body
<1> DEFINE T == {i \in Nat : i <= n => /\ F[i] \in Seq(V)
                                       /\ ToSet(F[i]) = {s[k] : k \in 1 .. i} \ S}
<1>7. 0 \in T
  <2>1. ToSet(<<>>) = {} /\ <<>> \in Seq(V)
    BY DEF ToSet
  <2>2. {s[k] : k \in 1 .. 0} \ S = {}
    OBVIOUS
  <2>3. F[0] \in Seq(V) /\ ToSet(F[0]) = {s[k] : k \in 1 .. 0} \ S
    BY <1>5, <2>1, <2>2
  <2> HIDE DEF F
  <2> QED
    BY <2>3
<1>8. ASSUME NEW i \in Nat, i \in T PROVE i + 1 \in T
  <2> SUFFICES ASSUME i + 1 <= n
               PROVE  F[i + 1] \in Seq(V) /\ ToSet(F[i + 1]) = {s[k] : k \in 1 .. i + 1} \ S
    OBVIOUS
  <2>1. F[i] \in Seq(V) /\ ToSet(F[i]) = {s[k] : k \in 1 .. i} \ S
    BY <1>1, <1>8
  <2>2. {s[k] : k \in 1 .. i + 1} = {s[k] : k \in 1 .. i} \union {s[i + 1]}
    <3>1. 1 .. i + 1 = (1 .. i) \union {i + 1}
      OBVIOUS
    <3> QED
      BY <3>1
  <2>3. s[i + 1] \in V
    BY <1>1
  <2>4. CASE s[i + 1] \in S
    BY <1>6, <2>1, <2>2, <2>4
  <2>5. CASE s[i + 1] \notin S
    <3>1. F[i + 1] = Append(F[i], s[i + 1])
      BY <1>6, <2>5
    <3>2. F[i + 1] \in Seq(V) /\ ToSet(F[i + 1]) = ToSet(F[i]) \union {s[i + 1]}
      BY <2>1, <2>3, <3>1, AppendSet
    <3> QED
      BY <2>1, <2>2, <2>5, <3>2
  <2> QED
    BY <2>4, <2>5
<1> HIDE DEF T
<1>9. n \in T
  BY <1>1, <1>7, <1>8, InductionNat
<1>10. F[n] \in Seq(V) /\ ToSet(F[n]) = {s[k] : k \in 1 .. n} \ S
  BY <1>1, <1>9 DEF T
<1>11. ToSet(s) = {s[k] : k \in 1 .. n}
  BY <1>1 DEF ToSet
<1> QED
  BY <1>2, <1>10, <1>11

LEMMA EmptySet == ToSet(<<>>) = {}
BY DEF ToSet

LEMMA SetInUrls == ASSUME NEW s \in Seq(Urls) PROVE ToSet(s) \subseteq Urls
<1>1. \A i \in DOMAIN s : s[i] \in Urls
  BY ElementOfSeq, LenProperties
<1> QED
  BY <1>1 DEF ToSet

-----------------------------------------------------------------------------
(* What the loop sees of its lists: the pages on them, and the pages that a  *)
(* cursor still owes.                                                       *)
TodoSet == ToSet(todoList)
OwedSet == ToSet(todoRest[Cursor])
DoneSet == ToSet(doneList)
ToReport == ToSet(doneRest[Cursor])

(* What each call on a list does to them. *)
LEMMA TodoAdd ==
  ASSUME TypeOK, NEW k \in Urls, Todo!Add(k)
  PROVE  /\ todoList' \in Seq(Urls) /\ k \notin TodoSet /\ TodoSet' = TodoSet \union {k}
         /\ UNCHANGED <<todoOpen, todoRest>>
<1>1. todoList \in Seq(Urls) /\ todoList' = <<k>> \o todoList /\ k \notin ToSet(todoList)
  BY DEF TypeOK, Todo!Add, Todo!ToSet, ToSet
<1>2. <<k>> \o todoList \in Seq(Urls) /\ ToSet(<<k>> \o todoList) = {k} \union ToSet(todoList)
  BY <1>1, ConsSet
<1> QED
  BY <1>1, <1>2 DEF TodoSet, Todo!Add

LEMMA TodoForget ==
  ASSUME TypeOK, NEW k, Todo!Forget({k})
  PROVE  /\ todoList' \in Seq(Urls) /\ todoRest' \in [{Cursor} -> Seq(Urls)]
         /\ TodoSet' = TodoSet \ {k} /\ OwedSet' = OwedSet \ {k}
         /\ UNCHANGED todoOpen
<1>1. /\ todoList \in Seq(Urls) /\ todoRest[Cursor] \in Seq(Urls)
      /\ todoList' = Todo!Without(todoList, {k})
      /\ todoRest' = [i \in {Cursor} |-> Todo!Without(todoRest[i], {k})]
  BY DEF TypeOK, Todo!Forget
<1>2. /\ Todo!Without(todoList, {k}) \in Seq(Urls)
      /\ ToSet(Todo!Without(todoList, {k})) = ToSet(todoList) \ {k}
  BY <1>1, WithoutSet
<1>3. /\ Todo!Without(todoRest[Cursor], {k}) \in Seq(Urls)
      /\ ToSet(Todo!Without(todoRest[Cursor], {k})) = ToSet(todoRest[Cursor]) \ {k}
  BY <1>1, WithoutSet
<1> QED
  BY <1>1, <1>2, <1>3 DEF TodoSet, OwedSet, Todo!Forget

LEMMA TodoOpens ==
  ASSUME TypeOK, Todo!Open(Cursor, todoList)
  PROVE  /\ todoRest' \in [{Cursor} -> Seq(Urls)] /\ OwedSet' = TodoSet
         /\ todoOpen' = {Cursor} /\ UNCHANGED todoList
BY DEF TypeOK, Todo!Open, OwedSet, TodoSet

LEMMA TodoFetch ==
  ASSUME TypeOK, Todo!Fetch(Cursor)
  PROVE  /\ todoRest' \in [{Cursor} -> Seq(Urls)]
         /\ Head(todoRest[Cursor]) \in OwedSet /\ OwedSet' \subseteq OwedSet
         /\ UNCHANGED <<todoList, todoOpen>>
<1>1. /\ todoRest[Cursor] \in Seq(Urls) /\ todoRest[Cursor] # <<>>
      /\ todoRest' = [todoRest EXCEPT ![Cursor] = Tail(todoRest[Cursor])]
  BY DEF TypeOK, Todo!Fetch
<1>2. /\ Head(todoRest[Cursor]) \in ToSet(todoRest[Cursor])
      /\ Tail(todoRest[Cursor]) \in Seq(Urls)
      /\ ToSet(Tail(todoRest[Cursor])) \subseteq ToSet(todoRest[Cursor])
  BY <1>1, TailSet
<1> QED
  BY <1>1, <1>2 DEF TypeOK, OwedSet, Todo!Fetch

LEMMA TodoClose ==
  ASSUME TypeOK, Todo!Close(Cursor)
  PROVE  /\ todoRest' \in [{Cursor} -> Seq(Urls)] /\ OwedSet' = {}
         /\ todoOpen' = {} /\ UNCHANGED todoList
BY EmptySet DEF TypeOK, Todo!Close, OwedSet

LEMMA DoneAdd ==
  ASSUME TypeOK, NEW k \in Urls, Done!Add(k)
  PROVE  /\ doneList' \in Seq(Urls) /\ k \notin DoneSet /\ DoneSet' = DoneSet \union {k}
         /\ UNCHANGED <<doneOpen, doneRest>>
<1>1. doneList \in Seq(Urls) /\ doneList' = <<k>> \o doneList /\ k \notin ToSet(doneList)
  BY DEF TypeOK, Done!Add, Done!ToSet, ToSet
<1>2. <<k>> \o doneList \in Seq(Urls) /\ ToSet(<<k>> \o doneList) = {k} \union ToSet(doneList)
  BY <1>1, ConsSet
<1> QED
  BY <1>1, <1>2 DEF DoneSet, Done!Add

LEMMA DoneOpens ==
  ASSUME TypeOK, Done!Open(Cursor, doneList)
  PROVE  /\ doneRest' \in [{Cursor} -> Seq(Urls)] /\ ToReport' = DoneSet
         /\ doneOpen' = doneOpen \union {Cursor} /\ UNCHANGED doneList
BY DEF TypeOK, Done!Open, ToReport, DoneSet

LEMMA DoneFetch ==
  ASSUME TypeOK, Done!Fetch(Cursor)
  PROVE  /\ doneRest' \in [{Cursor} -> Seq(Urls)]
         /\ Head(doneRest[Cursor]) \in Urls
         /\ ToReport = {Head(doneRest[Cursor])} \union ToReport'
         /\ UNCHANGED <<doneList, doneOpen>>
<1>1. /\ doneRest[Cursor] \in Seq(Urls) /\ doneRest[Cursor] # <<>>
      /\ doneRest' = [doneRest EXCEPT ![Cursor] = Tail(doneRest[Cursor])]
  BY DEF TypeOK, Done!Fetch
<1>2. /\ Head(doneRest[Cursor]) \in Urls
      /\ Tail(doneRest[Cursor]) \in Seq(Urls)
      /\ ToSet(doneRest[Cursor]) = {Head(doneRest[Cursor])} \union ToSet(Tail(doneRest[Cursor]))
  BY <1>1, TailSet
<1> QED
  BY <1>1, <1>2 DEF TypeOK, ToReport, Done!Fetch

LEMMA DoneClose ==
  ASSUME TypeOK, Done!Close(Cursor)
  PROVE  /\ doneRest' \in [{Cursor} -> Seq(Urls)] /\ ToReport' = {}
         /\ doneOpen' = doneOpen \ {Cursor} /\ UNCHANGED doneList
BY EmptySet DEF TypeOK, Done!Close, ToReport

(* The links of a page in their order, and those that are followed. *)
LEMMA LinksInOrder ==
  ASSUME NEW u \in Urls
  PROVE  /\ Hrefs[u] \in Seq(Links)
         /\ \A i \in 1 .. Len(Hrefs[u]) : Hrefs[u][i].iflag => Hrefs[u][i] \in Accepted(u)
         /\ \A v \in LinksOf(u) :
              \E i \in 1 .. Len(Hrefs[u]) : Hrefs[u][i].iflag /\ Hrefs[u][i].href = v
<1>1. Hrefs[u] \in Seq(Links) /\ DOMAIN Hrefs[u] = 1 .. Len(Hrefs[u])
  BY CommonAssumption, LenProperties
<1> QED
  BY <1>1 DEF LinksOf, Accepted

LEMMA LinksAreUrls == \A u \in Urls : LinksOf(u) \subseteq Urls
<1> SUFFICES ASSUME NEW u \in Urls, NEW i \in DOMAIN Hrefs[u]
             PROVE  Hrefs[u][i].href \in Urls
  BY DEF LinksOf, Accepted
<1>1. Hrefs[u] \in Seq(Links)
  BY CommonAssumption
<1>2. Hrefs[u][i] \in Links
  BY <1>1
<1> QED
  BY <1>2 DEF Links

(* The next link of the page in work. *)
LEMMA LinkPlaces ==
  ASSUME TypeOK, hrefs # <<>>, hrefs' = Tail(hrefs)
  PROVE  /\ hrefs' \in Seq(Links) /\ Head(hrefs) \in Links
         /\ 1 \in 1 .. Len(hrefs) /\ Head(hrefs) = hrefs[1]
         /\ \A i \in 1 .. Len(hrefs') : i + 1 \in 1 .. Len(hrefs) /\ hrefs'[i] = hrefs[i + 1]
         /\ \A i \in 1 .. Len(hrefs) :
              i # 1 => i - 1 \in 1 .. Len(hrefs') /\ hrefs'[i - 1] = hrefs[i]
<1>1. hrefs \in Seq(Links) /\ Len(hrefs) \in Nat /\ Len(hrefs) >= 1 /\ Head(hrefs) = hrefs[1]
  BY EmptySeq, LenProperties DEF TypeOK
<1>2. /\ hrefs' \in Seq(Links) /\ Head(hrefs) \in Links /\ Len(hrefs') = Len(hrefs) - 1
      /\ \A i \in 1 .. Len(hrefs') : hrefs'[i] = hrefs[i + 1]
  BY <1>1, HeadTailProperties
<1> QED
  BY <1>1, <1>2

-----------------------------------------------------------------------------
(* The page in work: it is on the todo list until it is scanned, on the done *)
(* list once it is asked for, and the cursor owes no page that left.         *)
InHand ==
  /\ pc = "start" => /\ todoList = <<>> /\ doneList = <<>> /\ todoRest[Cursor] = <<>>
                     /\ fetched = {} /\ deep = {}
  /\ OwedSet \subseteq TodoSet
  /\ pc \in {"page", "fetch", "list"} => url \in TodoSet
  /\ pc \in {"fetch", "list", "scan"} => url \in DoneSet
  /\ pc \in {"page", "fetch", "list", "scan"} => url \in Urls
  /\ pc \in {"list", "scan"} =>
       /\ url \in fetched
       /\ \A i \in 1 .. Len(hrefs) : hrefs[i].iflag => hrefs[i] \in Accepted(url)

Inv == TypeOK /\ InHand /\ TriedOnce

LEMMA InvInit == Init => Inv
<1> SUFFICES ASSUME Init PROVE Inv
  OBVIOUS
<1> USE DEF Init, Todo!Init, Done!Init
<1>1. /\ todoList = <<>> /\ doneList = <<>> /\ todoRest = [i \in {Cursor} |-> <<>>]
      /\ doneRest = [i \in {Cursor} |-> <<>>]
  OBVIOUS
<1>2. <<>> \in Seq(Urls) /\ <<>> \in Seq(Links)
  OBVIOUS
<1>3. tries = [u \in Urls |-> 0] /\ 0 \in 0 .. FetchCap
  BY CommonAssumption
<1>4. TypeOK
  BY <1>1, <1>2, <1>3, CommonAssumption DEF TypeOK, PC, InWalk, AnyText
<1>5. InHand
  BY <1>1, EmptySet DEF InHand, OwedSet, TodoSet
<1>6. TriedOnce
  BY <1>1, <1>3, EmptySet DEF TriedOnce
<1> QED
  BY <1>4, <1>5, <1>6 DEF Inv

LEMMA TypeNext == ASSUME Inv, [Next]_vars PROVE TypeOK'
<1>0. TypeOK /\ InHand /\ TodoSet \subseteq Urls
  BY SetInUrls DEF Inv, TypeOK, TodoSet
<1> USE DEF todoVars, doneVars, nodeVars, pageVars, outVars, history, PC, InWalk
<1>1. CASE Start
  <2>1. todoList' \in Seq(Urls) /\ UNCHANGED <<todoOpen, todoRest>>
    BY <1>0, <1>1, TodoAdd, CommonAssumption DEF Start, NewNode
  <2> QED
    BY <1>0, <1>1, <2>1, CommonAssumption DEF Start, NewNode, TypeOK, AnyText
<1>2. CASE StartFail
  BY <1>0, <1>2 DEF StartFail, TypeOK
<1>3. CASE OpenPass
  <2>1. NoText \in AnyText
    BY DEF AnyText
  <2> QED
    BY <1>0, <1>3, <2>1, TodoOpens DEF OpenPass, TypeOK
<1>4. CASE FetchStep
  <2>1. /\ todoRest' \in [{Cursor} -> Seq(Urls)] /\ url' \in Urls
        /\ UNCHANGED <<todoList, todoOpen>>
    BY <1>0, <1>4, TodoFetch DEF FetchStep, InHand
  <2>2. urlcontent' \in AnyText
    BY <1>0, <1>4, <2>1 DEF FetchStep, TypeOK
  <2> QED
    BY <1>0, <1>4, <2>1, <2>2 DEF FetchStep, TypeOK
<1>5. CASE DropPage
  <2>1. /\ todoList' \in Seq(Urls) /\ todoRest' \in [{Cursor} -> Seq(Urls)]
        /\ UNCHANGED todoOpen
    BY <1>0, <1>5, TodoForget DEF DropPage
  <2>2. deep' \subseteq Urls
    BY <1>0, <1>5 DEF DropPage, TypeOK, InHand
  <2> QED
    BY <1>0, <1>5, <2>1, <2>2 DEF DropPage, TypeOK
<1>6. CASE MarkDone
  <2>1. doneList' \in Seq(Urls) /\ UNCHANGED <<doneOpen, doneRest>>
    BY <1>0, <1>6, DoneAdd DEF MarkDone, InHand
  <2>2. doneTexts' \in [Urls -> AnyText]
    BY <1>0, <1>6 DEF MarkDone, TypeOK
  <2> QED
    BY <1>0, <1>6, <2>1, <2>2 DEF MarkDone, TypeOK
<1>7. CASE FetchOk
  <2>1. url \in Urls /\ hrefs' \in Seq(Links)
    BY <1>0, <1>7, LinksInOrder DEF FetchOk, InHand
  <2>2. tries' \in [Urls -> 0 .. FetchCap]
    BY <1>0, <1>7, <2>1, CommonAssumption DEF FetchOk, Tried, TypeOK
  <2> QED
    BY <1>0, <1>7, <2>1, <2>2 DEF FetchOk, TypeOK
<1>8. CASE FetchFail
  <2>1. tries' \in [Urls -> 0 .. FetchCap]
    BY <1>0, <1>8, CommonAssumption DEF FetchFail, Tried, TypeOK, InHand
  <2> QED
    BY <1>0, <1>8, <2>1 DEF FetchFail, TypeOK
<1>9. CASE ListPage
  <2>1. /\ todoList' \in Seq(Urls) /\ todoRest' \in [{Cursor} -> Seq(Urls)]
        /\ UNCHANGED todoOpen
    BY <1>0, <1>9, TodoForget DEF ListPage
  <2>2. lines' \subseteq Urls /\ files' \subseteq Urls
    BY <1>0, <1>9 DEF ListPage, ListAndSave, TypeOK, InHand
  <2>3. ifileflag' \in BOOLEAN
    BY <1>9 DEF ListPage
  <2> QED
    BY <1>0, <1>9, <2>1, <2>2, <2>3 DEF ListPage, TypeOK
<1>10. CASE OpenFail
  BY <1>0, <1>10 DEF OpenFail, TypeOK
<1>11. CASE NextLink
  <2>1. PICK l : l = Head(hrefs)
    OBVIOUS
  <2>2. hrefs' \in Seq(Links) /\ l.href \in Urls /\ l.text \in AnyText /\ urlcontent' = l.text
    BY <1>0, <1>11, <2>1, LinkPlaces DEF NextLink, Links
  <2>3. CASE NewNode(l.href, l.text, depth)
    <3>1. todoList' \in Seq(Urls) /\ UNCHANGED <<todoOpen, todoRest>>
      BY <1>0, <2>2, <2>3, TodoAdd DEF NewNode
    <3> QED
      BY <1>0, <1>11, <2>2, <2>3, <3>1 DEF NextLink, NewNode, TypeOK
  <2>4. CASE UNCHANGED <<todoVars, nodeVars>>
    BY <1>0, <1>11, <2>2, <2>4 DEF NextLink, TypeOK
  <2> QED
    BY <1>11, <2>1, <2>3, <2>4 DEF NextLink
<1>12. CASE EndPage
  BY <1>0, <1>12 DEF EndPage, TypeOK, AnyText
<1>13. CASE ClosePass
  <2>1. /\ todoRest' \in [{Cursor} -> Seq(Urls)] /\ todoOpen' = {} /\ UNCHANGED todoList
    BY <1>0, <1>13, TodoClose DEF ClosePass
  <2> QED
    BY <1>0, <1>13, <2>1 DEF ClosePass, TypeOK
<1>14. CASE OpenReport
  <2>1. /\ doneRest' \in [{Cursor} -> Seq(Urls)] /\ doneOpen' = {Cursor} /\ UNCHANGED doneList
    BY <1>0, <1>14, DoneOpens DEF OpenReport, TypeOK
  <2> QED
    BY <1>0, <1>14, <2>1 DEF OpenReport, TypeOK
<1>15. CASE ReportFail
  BY <1>0, <1>15 DEF ReportFail, TypeOK
<1>16. CASE ReportPage
  <2>1. /\ doneRest' \in [{Cursor} -> Seq(Urls)] /\ Head(doneRest[Cursor]) \in Urls
        /\ UNCHANGED <<doneList, doneOpen>>
    BY <1>0, <1>16, DoneFetch DEF ReportPage
  <2>2. lines' \subseteq Urls /\ files' \subseteq Urls
    BY <1>0, <1>16, <2>1 DEF ReportPage, ListAndSave, TypeOK
  <2> QED
    BY <1>0, <1>16, <2>1, <2>2 DEF ReportPage, TypeOK
<1>17. CASE EndReport
  <2>1. /\ doneRest' \in [{Cursor} -> Seq(Urls)] /\ doneOpen' = {} /\ UNCHANGED doneList
    BY <1>0, <1>17, DoneClose DEF EndReport, TypeOK
  <2> QED
    BY <1>0, <1>17, <2>1 DEF EndReport, TypeOK
<1>18. CASE UNCHANGED vars
  BY <1>0, <1>18 DEF vars, TypeOK
<1> QED
  BY <1>1, <1>2, <1>3, <1>4, <1>5, <1>6, <1>7, <1>8, <1>9, <1>10, <1>11, <1>12, <1>13, <1>14, <1>15, <1>16, <1>17, <1>18 DEF Next, Step, Finished

LEMMA HandNext == ASSUME Inv, [Next]_vars PROVE InHand'
<1>0. TypeOK /\ InHand /\ TodoSet \subseteq Urls
  BY SetInUrls DEF Inv, TypeOK, TodoSet
<1> USE DEF todoVars, doneVars, nodeVars, pageVars, outVars, history
<1>1. CASE Start
  <2>1. TodoSet' = TodoSet \union {Seed} /\ UNCHANGED todoRest
    BY <1>0, <1>1, TodoAdd, CommonAssumption DEF Start, NewNode
  <2> QED
    BY <1>0, <1>1, <2>1 DEF Start, InHand, OwedSet
<1>2. CASE StartFail
  BY <1>0, <1>2 DEF StartFail, InHand, OwedSet, TodoSet, DoneSet
<1>3. CASE OpenPass
  <2>1. OwedSet' = TodoSet /\ UNCHANGED todoList
    BY <1>0, <1>3, TodoOpens DEF OpenPass
  <2> QED
    BY <1>0, <1>3, <2>1 DEF OpenPass, InHand, TodoSet
<1>4. CASE FetchStep
  <2>1. url' \in OwedSet /\ OwedSet' \subseteq OwedSet /\ UNCHANGED todoList
    BY <1>0, <1>4, TodoFetch DEF FetchStep
  <2>2. TodoSet' = TodoSet
    BY <2>1 DEF TodoSet
  <2> QED
    BY <1>0, <1>4, <2>1, <2>2 DEF FetchStep, InHand
<1>5. CASE DropPage
  <2>1. TodoSet' = TodoSet \ {url} /\ OwedSet' = OwedSet \ {url}
    BY <1>0, <1>5, TodoForget DEF DropPage
  <2> QED
    BY <1>0, <1>5, <2>1 DEF DropPage, InHand
<1>6. CASE MarkDone
  <2>1. DoneSet' = DoneSet \union {url}
    BY <1>0, <1>6, DoneAdd DEF MarkDone, InHand
  <2> QED
    BY <1>0, <1>6, <2>1 DEF MarkDone, InHand, TodoSet, OwedSet
<1>7. CASE FetchOk
  <2>1. \A i \in 1 .. Len(hrefs') : hrefs'[i].iflag => hrefs'[i] \in Accepted(url)
    BY <1>0, <1>7, LinksInOrder DEF FetchOk, InHand
  <2> QED
    BY <1>0, <1>7, <2>1 DEF FetchOk, InHand, TodoSet, OwedSet, DoneSet
<1>8. CASE FetchFail
  BY <1>0, <1>8 DEF FetchFail, InHand, OwedSet, TodoSet, DoneSet
<1>9. CASE ListPage
  <2>1. TodoSet' = TodoSet \ {url} /\ OwedSet' = OwedSet \ {url}
    BY <1>0, <1>9, TodoForget DEF ListPage
  <2> QED
    BY <1>0, <1>9, <2>1 DEF ListPage, InHand, DoneSet
<1>10. CASE OpenFail
  BY <1>0, <1>10 DEF OpenFail, InHand, OwedSet, TodoSet, DoneSet
<1>11. CASE NextLink
  <2>1. \A i \in 1 .. Len(hrefs') : hrefs'[i].iflag => hrefs'[i] \in Accepted(url)
    BY <1>0, <1>11, LinkPlaces DEF NextLink, InHand
  <2>2. TodoSet \subseteq TodoSet' /\ UNCHANGED todoRest
    <3>1. CASE NewNode(Head(hrefs).href, Head(hrefs).text, depth)
      <4>1. Head(hrefs).href \in Urls
        BY <1>0, <1>11, LinkPlaces DEF NextLink, Links
      <4> QED
        BY <1>0, <3>1, <4>1, TodoAdd DEF NewNode
    <3>2. CASE UNCHANGED todoVars
      BY <3>2 DEF TodoSet
    <3> QED
      BY <1>11, <3>1, <3>2 DEF NextLink
  <2> QED
    BY <1>0, <1>11, <2>1, <2>2 DEF NextLink, InHand, OwedSet, DoneSet
<1>12. CASE EndPage
  BY <1>0, <1>12 DEF EndPage, InHand, OwedSet, TodoSet, DoneSet
<1>13. CASE ClosePass
  <2>1. OwedSet' = {} /\ UNCHANGED todoList
    BY <1>0, <1>13, TodoClose DEF ClosePass
  <2> QED
    BY <1>0, <1>13, <2>1 DEF ClosePass, InHand
<1>14. CASE OpenReport
  <2>1. UNCHANGED doneList
    BY <1>0, <1>14, DoneOpens DEF OpenReport
  <2> QED
    BY <1>0, <1>14, <2>1 DEF OpenReport, InHand, OwedSet, TodoSet
<1>15. CASE ReportFail
  BY <1>0, <1>15 DEF ReportFail, InHand, OwedSet, TodoSet, DoneSet
<1>16. CASE ReportPage
  <2>1. UNCHANGED doneList
    BY <1>0, <1>16, DoneFetch DEF ReportPage
  <2> QED
    BY <1>0, <1>16, <2>1 DEF ReportPage, InHand, OwedSet, TodoSet
<1>17. CASE EndReport
  <2>1. UNCHANGED doneList
    BY <1>0, <1>17, DoneClose DEF EndReport
  <2> QED
    BY <1>0, <1>17, <2>1 DEF EndReport, InHand, OwedSet, TodoSet
<1>18. CASE UNCHANGED vars
  BY <1>0, <1>18 DEF vars, InHand, OwedSet, TodoSet, DoneSet
<1> QED
  BY <1>1, <1>2, <1>3, <1>4, <1>5, <1>6, <1>7, <1>8, <1>9, <1>10, <1>11, <1>12, <1>13, <1>14, <1>15, <1>16, <1>17, <1>18 DEF Next, Step, Finished

LEMMA TriedNext == ASSUME Inv, [Next]_vars PROVE TriedOnce'
<1>0. /\ TypeOK /\ InHand /\ tries \in [Urls -> 0 .. FetchCap]
      /\ \A u \in Urls : tries[u] = IF u \in DoneSet /\ ~ (pc = "fetch" /\ u = url) THEN 1 ELSE 0
      /\ TodoSet \subseteq Urls
  BY SetInUrls DEF Inv, TypeOK, TriedOnce, DoneSet, TodoSet
<1> SUFFICES \A u \in Urls :
               tries'[u] = IF u \in DoneSet' /\ ~ (pc' = "fetch" /\ u = url') THEN 1 ELSE 0
  BY DEF TriedOnce, DoneSet
<1> USE DEF todoVars, doneVars, nodeVars, pageVars, outVars, history
(* The steps that neither ask for a page nor record one. *)
<1>a. ASSUME UNCHANGED <<doneList, tries>>, pc # "fetch", pc' # "fetch"
      PROVE  \A u \in Urls :
               tries'[u] = IF u \in DoneSet' /\ ~ (pc' = "fetch" /\ u = url') THEN 1 ELSE 0
  BY <1>0, <1>a DEF DoneSet
<1>1. CASE Start
  BY <1>1, <1>a DEF Start
<1>2. CASE StartFail
  BY <1>2, <1>a DEF StartFail
<1>3. CASE OpenPass
  BY <1>3, <1>a DEF OpenPass
<1>4. CASE FetchStep
  BY <1>4, <1>a DEF FetchStep
<1>5. CASE DropPage
  BY <1>5, <1>a DEF DropPage
<1>6. CASE MarkDone
  <2>1. url \notin DoneSet /\ DoneSet' = DoneSet \union {url}
    BY <1>0, <1>6, DoneAdd DEF MarkDone, InHand
  <2> QED
    BY <1>0, <1>6, <2>1 DEF MarkDone
<1>7. CASE FetchOk
  <2>0. url \in Urls /\ url \in DoneSet /\ tries[url] = 0
    BY <1>0, <1>7 DEF FetchOk, InHand
  <2>i. (IF tries[url] < FetchCap THEN tries[url] + 1 ELSE tries[url]) = 1
    BY <2>0, CommonAssumption
  <2>1. url \in Urls /\ url \in DoneSet /\ tries[url] = 0 /\ tries' = [tries EXCEPT ![url] = 1]
    BY <1>7, <2>0, <2>i DEF FetchOk, Tried
  <2>2. DoneSet' = DoneSet /\ pc' = "list" /\ pc = "fetch"
    BY <1>7 DEF FetchOk, DoneSet
  <2> QED
    BY <1>0, <2>1, <2>2
<1>8. CASE FetchFail
  <2>0. url \in Urls /\ url \in DoneSet /\ tries[url] = 0
    BY <1>0, <1>8 DEF FetchFail, InHand
  <2>i. (IF tries[url] < FetchCap THEN tries[url] + 1 ELSE tries[url]) = 1
    BY <2>0, CommonAssumption
  <2>1. url \in Urls /\ url \in DoneSet /\ tries[url] = 0 /\ tries' = [tries EXCEPT ![url] = 1]
    BY <1>8, <2>0, <2>i DEF FetchFail, Tried
  <2>2. DoneSet' = DoneSet /\ pc' = "step" /\ pc = "fetch"
    BY <1>8 DEF FetchFail, DoneSet
  <2> QED
    BY <1>0, <2>1, <2>2
<1>9. CASE ListPage
  BY <1>9, <1>a DEF ListPage
<1>10. CASE OpenFail
  BY <1>10, <1>a DEF OpenFail
<1>11. CASE NextLink
  BY <1>11, <1>a DEF NextLink
<1>12. CASE EndPage
  BY <1>12, <1>a DEF EndPage
<1>13. CASE ClosePass
  BY <1>13, <1>a DEF ClosePass
<1>14. CASE OpenReport
  <2>1. UNCHANGED doneList
    BY <1>0, <1>14, DoneOpens DEF OpenReport
  <2> QED
    BY <1>14, <1>a, <2>1 DEF OpenReport
<1>15. CASE ReportFail
  BY <1>15, <1>a DEF ReportFail
<1>16. CASE ReportPage
  <2>1. UNCHANGED doneList
    BY <1>0, <1>16, DoneFetch DEF ReportPage
  <2> QED
    BY <1>16, <1>a, <2>1 DEF ReportPage
<1>17. CASE EndReport
  <2>1. UNCHANGED doneList
    BY <1>0, <1>17, DoneClose DEF EndReport
  <2> QED
    BY <1>17, <1>a, <2>1 DEF EndReport
<1>18. CASE UNCHANGED vars
  BY <1>0, <1>18 DEF vars, DoneSet
<1> QED
  BY <1>1, <1>2, <1>3, <1>4, <1>5, <1>6, <1>7, <1>8, <1>9, <1>10, <1>11, <1>12, <1>13, <1>14, <1>15, <1>16, <1>17, <1>18 DEF Next, Step, Finished

LEMMA InvAlways == Spec => []Inv
<1>1. Inv /\ [Next]_vars => Inv'
  BY TypeNext, HandNext, TriedNext DEF Inv
<1> QED
  BY InvInit, <1>1, PTL DEF Spec

(* The lists keep their types, and a cursor is open exactly while its walk   *)
(* is on: broken off or not, a walk closes the cursor it opened.             *)
THEOREM CommonTypeCorrect == Spec => []TypeOK
BY InvAlways, PTL DEF Inv

(* A page is asked for once, though it may come back to the todo list and    *)
(* walks are broken off and begun anew.                                      *)
THEOREM AskedOnce == Spec => []TriedOnce
BY InvAlways, PTL DEF Inv

-----------------------------------------------------------------------------
(* The recursion of Pages has a solution, and so Pages is one. *)
LEMMA PagesExist ==
  \E g : g = [n \in Nat |-> IF n = 0 THEN {}
                            ELSE IF n = 1 THEN {Seed}
                            ELSE UNION {LinksOf(u) : u \in g[n - 1]}]
<1> DEFINE V == SUBSET Urls
           step == [x \in Nat \X V |-> UNION {LinksOf(u) : u \in x[2]}]
<1>1. {Seed} \in V
  BY CommonAssumption
<1>2. step \in [Nat \X V -> V]
  BY LinksAreUrls
<1> HIDE DEF step, V
<1>3. PICK h : FollowsAll(h, {Seed}, step, V)
  BY <1>1, <1>2, PrimitiveRecursion
<1> DEFINE g == [n \in Nat |-> IF n = 0 THEN {} ELSE h[n - 1]]
<1>4. ASSUME NEW n \in Nat, n # 0, n # 1
      PROVE  g[n] = UNION {LinksOf(u) : u \in g[n - 1]}
  <2>1. n - 2 \in Nat /\ n - 1 \in Nat /\ n - 1 # 0 /\ (n - 2) + 1 = n - 1 /\ (n - 1) - 1 = n - 2
    BY <1>4
  <2>2. g[n] = h[n - 1] /\ g[n - 1] = h[n - 2] /\ h[n - 2] \in V
    BY <1>3, <1>4, <2>1 DEF FollowsAll
  <2>3. h[n - 1] = step[<<n - 2, h[n - 2]>>]
    BY <1>3, <2>1 DEF FollowsAll
  <2> QED
    BY <2>1, <2>2, <2>3 DEF step
<1>5. g[0] = {} /\ g[1] = {Seed}
  BY <1>3 DEF FollowsAll
<1> QED
  <2>1. \A n \in Nat : g[n] = IF n = 0 THEN {}
                              ELSE IF n = 1 THEN {Seed}
                              ELSE UNION {LinksOf(u) : u \in g[n - 1]}
    BY <1>4, <1>5
  <2>2. g = [n \in Nat |-> IF n = 0 THEN {}
                           ELSE IF n = 1 THEN {Seed}
                           ELSE UNION {LinksOf(u) : u \in g[n - 1]}]
    <3>1. g = [n \in Nat |-> g[n]]
      OBVIOUS
    <3> HIDE DEF g
    <3> QED
      BY <2>1, <3>1
  <2> QED
    BY <2>2

LEMMA PagesUnfold ==
  Pages = [n \in Nat |-> IF n = 0 THEN {}
                         ELSE IF n = 1 THEN {Seed}
                         ELSE UNION {LinksOf(u) : u \in Pages[n - 1]}]
<1> DEFINE F(g) == [n \in Nat |-> IF n = 0 THEN {}
                                  ELSE IF n = 1 THEN {Seed}
                                  ELSE UNION {LinksOf(u) : u \in g[n - 1]}]
<1>1. Pages = CHOOSE g : g = F(g)
  BY DEF Pages
<1>2. \E g : g = F(g)
  BY PagesExist
<1> HIDE DEF F
<1>3. Pages = F(Pages)
  BY <1>1, <1>2, Zenon
<1> QED
  BY <1>3 DEF F

(* One link leads one page further. *)
LEMMA PagesNext ==
  /\ Pages[1] = {Seed}
  /\ \A n \in Nat \ {0} : Pages[n + 1] = UNION {LinksOf(u) : u \in Pages[n]}
<1>1. Pages[1] = {Seed}
  BY PagesUnfold
<1>2. ASSUME NEW n \in Nat \ {0} PROVE Pages[n + 1] = UNION {LinksOf(u) : u \in Pages[n]}
  <2>1. n + 1 \in Nat /\ n + 1 # 0 /\ n + 1 # 1 /\ (n + 1) - 1 = n
    OBVIOUS
  <2>2. Pages[n + 1] = UNION {LinksOf(u) : u \in Pages[(n + 1) - 1]}
    BY <2>1, PagesUnfold
  <2> QED
    BY <2>1, <2>2
<1> QED
  BY <1>1, <1>2

(* The depth carried along: that of the nodes on the todo list, and that of  *)
(* the page in work, which becomes its links' once the page is listed.       *)
DepthInv ==
  /\ \A u \in TodoSet : depths[u] >= 1 /\ u \in Pages[depths[u]]
  /\ "icontrol" \in options => \A u \in TodoSet : depths[u] <= TravelDepth + 1
  /\ pc \in {"page", "fetch", "list"} => depth >= 1 /\ url \in Pages[depth]
  /\ pc = "scan" => depth >= 2 /\ url \in Pages[depth - 1]
  /\ "icontrol" \in options =>
       /\ pc \in {"page", "scan"} => depth <= TravelDepth + 1
       /\ pc \in {"fetch", "list"} => depth <= TravelDepth
       /\ fetched \subseteq UNION {Pages[m] : m \in 1 .. TravelDepth}
       /\ deep \subseteq Pages[TravelDepth + 1]
  /\ depths[Seed] = 0 => pc \in {"start", "failed"}
  /\ pc = "start" => depths[Seed] = 0

LEMMA DepthInit == Init => DepthInv
<1> SUFFICES ASSUME Init PROVE DepthInv
  OBVIOUS
<1>1. TodoSet = {}
  BY EmptySet DEF Init, Todo!Init, TodoSet
<1>2. pc = "start" /\ depths[Seed] = 0 /\ fetched = {} /\ deep = {}
  BY CommonAssumption DEF Init
<1> QED
  BY <1>1, <1>2 DEF DepthInv

LEMMA DepthNext == ASSUME Inv, DepthInv, [Next]_vars PROVE DepthInv'
<1>0. /\ TypeOK /\ InHand /\ DepthInv /\ TodoSet \subseteq Urls
      /\ depths \in [Urls -> Nat] /\ depth \in Nat /\ TravelDepth \in Nat
  BY SetInUrls, CommonAssumption DEF Inv, TypeOK, TodoSet
<1> USE DEF todoVars, doneVars, nodeVars, pageVars, outVars, history
<1>1. CASE Start
  <2>1. TodoSet = {} /\ TodoSet' = TodoSet \union {Seed}
    BY <1>0, <1>1, TodoAdd, CommonAssumption, EmptySet DEF Start, NewNode, InHand, TodoSet
  <2>2. /\ TodoSet' = {Seed} /\ depths'[Seed] = 1 /\ Seed \in Pages[1]
        /\ pc' = "pass" /\ UNCHANGED <<fetched, deep, options>>
    BY <1>0, <1>1, <2>1, PagesNext, CommonAssumption DEF Start, NewNode
  <2>3. 1 <= TravelDepth + 1 /\ 1 >= 1 /\ 1 # 0
    BY <1>0
  <2> HIDE DEF TodoSet
  <2> QED
    BY <1>0, <2>2, <2>3 DEF DepthInv
<1>2. CASE StartFail
  BY <1>0, <1>2 DEF StartFail, DepthInv, TodoSet
<1>3. CASE OpenPass
  <2>1. TodoSet' = TodoSet
    BY <1>0, <1>3, TodoOpens DEF OpenPass, TodoSet
  <2> QED
    BY <1>0, <1>3, <2>1 DEF OpenPass, DepthInv
<1>4. CASE FetchStep
  <2>1. TodoSet' = TodoSet /\ url' \in TodoSet
    BY <1>0, <1>4, TodoFetch DEF FetchStep, TodoSet, InHand
  <2> QED
    BY <1>0, <1>4, <2>1 DEF FetchStep, DepthInv
<1>5. CASE DropPage
  <2>1. TodoSet' = TodoSet \ {url}
    BY <1>0, <1>5, TodoForget DEF DropPage
  <2>2. ASSUME "icontrol" \in options PROVE deep' \subseteq Pages[TravelDepth + 1]
    <3>1. CASE TooDeep
      <4>1. depth > TravelDepth /\ depth <= TravelDepth + 1
        BY <1>0, <1>5, <2>2, <3>1 DEF DropPage, TooDeep, DepthInv
      <4>2. depth = TravelDepth + 1
        BY <1>0, <4>1
      <4> QED
        BY <1>0, <1>5, <2>2, <4>2 DEF DropPage, DepthInv
    <3>2. CASE ~ TooDeep
      BY <1>0, <1>5, <2>2, <3>2 DEF DropPage, DepthInv
    <3> QED
      BY <3>1, <3>2
  <2> QED
    BY <1>0, <1>5, <2>1, <2>2 DEF DropPage, DepthInv
<1>6. CASE MarkDone
  <2>1. TodoSet' = TodoSet
    BY <1>6 DEF MarkDone, TodoSet
  <2>2. "icontrol" \in options => depth <= TravelDepth
    BY <1>0, <1>6 DEF MarkDone, TooDeep
  <2> QED
    BY <1>0, <1>6, <2>1, <2>2 DEF MarkDone, DepthInv
<1>7. CASE FetchOk
  <2>1. TodoSet' = TodoSet
    BY <1>7 DEF FetchOk, TodoSet
  <2>2. (depth \in 1 .. TravelDepth /\ url \in Pages[depth]) \/ "icontrol" \notin options
    BY <1>0, <1>7 DEF FetchOk, DepthInv
  <2>3. "icontrol" \in options => fetched' \subseteq UNION {Pages[m] : m \in 1 .. TravelDepth}
    BY <1>0, <1>7, <2>2 DEF FetchOk, DepthInv
  <2> QED
    BY <1>0, <1>7, <2>1, <2>3 DEF FetchOk, DepthInv
<1>8. CASE FetchFail
  BY <1>0, <1>8 DEF FetchFail, DepthInv, TodoSet
<1>9. CASE ListPage
  <2>1. TodoSet' = TodoSet \ {url}
    BY <1>0, <1>9, TodoForget DEF ListPage
  <2>2. depth' = depth + 1 /\ depth' - 1 = depth /\ depth >= 1
    BY <1>0, <1>9 DEF ListPage, DepthInv
  <2> QED
    BY <1>0, <1>9, <2>1, <2>2 DEF ListPage, DepthInv
<1>10. CASE OpenFail
  BY <1>0, <1>10 DEF OpenFail, DepthInv, TodoSet
<1>11. CASE NextLink
  <2>1. CASE UNCHANGED <<todoVars, nodeVars>>
    BY <1>0, <1>11, <2>1 DEF NextLink, DepthInv, TodoSet
  <2>2. CASE Head(hrefs).iflag /\ NewNode(Head(hrefs).href, Head(hrefs).text, depth)
    <3>1. PICK v : v = Head(hrefs).href
      OBVIOUS
    <3>2. v \in LinksOf(url) /\ v \in Urls
      BY <1>0, <1>11, <2>2, <3>1, LinkPlaces DEF NextLink, InHand, Links, LinksOf
    <3>3. TodoSet' = TodoSet \union {v}
      BY <1>0, <2>2, <3>1, <3>2, TodoAdd DEF NewNode
    <3>4. depth >= 2 /\ url \in Pages[depth - 1]
      BY <1>0, <1>11 DEF NextLink, DepthInv
    <3>5. depth - 1 \in Nat \ {0} /\ (depth - 1) + 1 = depth
      BY <1>0, <3>4
    <3>6. v \in Pages[depth]
      BY <3>2, <3>4, <3>5, PagesNext
    <3>7. /\ depths' = [depths EXCEPT ![v] = depth] /\ pc = "scan"
          /\ UNCHANGED <<options, pc, url, depth, fetched, deep>>
      BY <1>11, <2>2, <3>1 DEF NextLink, NewNode
    <3>8. \A w \in TodoSet' : depths'[w] >= 1 /\ w \in Pages[depths'[w]]
      BY <1>0, <3>2, <3>3, <3>4, <3>6, <3>7 DEF DepthInv
    <3>9. "icontrol" \in options => \A w \in TodoSet' : depths'[w] <= TravelDepth + 1
      BY <1>0, <3>2, <3>3, <3>7 DEF DepthInv
    <3>10. depths'[Seed] # 0
      BY <1>0, <3>2, <3>4, <3>7, CommonAssumption DEF DepthInv
    <3> QED
      BY <1>0, <3>7, <3>8, <3>9, <3>10 DEF DepthInv
  <2> QED
    BY <1>11, <2>1, <2>2 DEF NextLink
<1>12. CASE EndPage
  BY <1>0, <1>12 DEF EndPage, DepthInv, TodoSet
<1>13. CASE ClosePass
  <2>1. TodoSet' = TodoSet
    BY <1>0, <1>13, TodoClose DEF ClosePass, TodoSet
  <2> QED
    BY <1>0, <1>13, <2>1 DEF ClosePass, DepthInv
<1>14. CASE OpenReport
  BY <1>0, <1>14 DEF OpenReport, DepthInv, TodoSet
<1>15. CASE ReportFail
  BY <1>0, <1>15 DEF ReportFail, DepthInv, TodoSet
<1>16. CASE ReportPage
  BY <1>0, <1>16 DEF ReportPage, DepthInv, TodoSet
<1>17. CASE EndReport
  BY <1>0, <1>17 DEF EndReport, DepthInv, TodoSet
<1>18. CASE UNCHANGED vars
  BY <1>0, <1>18 DEF vars, DepthInv, TodoSet
<1> QED
  BY <1>1, <1>2, <1>3, <1>4, <1>5, <1>6, <1>7, <1>8, <1>9, <1>10, <1>11, <1>12, <1>13, <1>14, <1>15, <1>16, <1>17, <1>18 DEF Next, Step, Finished

(* The depth of a node is the length of a walk of accepted links, also of a  *)
(* page dropped and found again; with icontrol none below travel_depth is    *)
(* fetched.                                                                  *)
THEOREM CommonDepth == Spec => []WithinDepth
<1>1. Inv /\ DepthInv /\ [Next]_vars => DepthInv'
  BY DepthNext
<1>2. DepthInv => WithinDepth
  BY DEF DepthInv, WithinDepth, TodoSet
<1> QED
  BY InvAlways, DepthInit, <1>1, <1>2, PTL DEF Spec

(* A page that is dealt with or will be. *)
Found(v) == v \in TodoSet \/ tries[v] > 0 \/ v \in deep

(* A link of the page in work that the scan has yet to come to. *)
ToCome(v) ==
  pc \in {"list", "scan"} /\ \E i \in 1 .. Len(hrefs) : hrefs[i].iflag /\ hrefs[i].href = v

FoundInv ==
  /\ pc \notin {"start", "failed"} => Found(Seed)
  /\ pc # "failed" => \A u \in fetched : \A v \in LinksOf(u) : Found(v) \/ (u = url /\ ToCome(v))
  /\ pc \in {"report", "exit"} => todoList = <<>>
  /\ \A u \in fetched : tries[u] > 0

LEMMA FoundInit == Init => FoundInv
<1> SUFFICES ASSUME Init PROVE FoundInv
  OBVIOUS
<1> QED
  BY DEF Init, FoundInv

(* A page that leaves the todo list was asked for or lies too deep. *)
LEMMA FoundKept ==
  ASSUME TypeOK, deep \subseteq deep',
         \A v \in Urls : tries[v] > 0 => tries'[v] > 0,
         \A v \in TodoSet : v \in TodoSet' \/ tries'[v] > 0 \/ v \in deep'
  PROVE  \A v \in Urls : Found(v) => Found(v)'
BY DEF Found

LEMMA FoundNext == ASSUME Inv, FoundInv, [Next]_vars PROVE FoundInv'
<1>0. /\ TypeOK /\ InHand /\ FoundInv /\ TodoSet \subseteq Urls
      /\ tries \in [Urls -> 0 .. FetchCap] /\ fetched \subseteq Urls /\ Seed \in Urls
      /\ \A u \in DoneSet : pc # "fetch" /\ u \in Urls => tries[u] > 0
  <2>1. TypeOK /\ InHand /\ FoundInv /\ TriedOnce /\ Seed \in Urls
    BY CommonAssumption DEF Inv
  <2>2. /\ TodoSet \subseteq Urls
        /\ tries \in [Urls -> 0 .. FetchCap] /\ fetched \subseteq Urls
    BY <2>1, SetInUrls DEF TypeOK, TodoSet
  <2>3. \A u \in DoneSet : pc # "fetch" /\ u \in Urls => tries[u] > 0
    BY <2>1 DEF TriedOnce, DoneSet
  <2> QED
    BY <2>1, <2>2, <2>3
<1>l. \A u \in Urls : LinksOf(u) \subseteq Urls
  BY LinksAreUrls
<1> USE DEF todoVars, doneVars, nodeVars, pageVars, outVars, history
(* The steps that neither scan a page nor take one off the todo list. *)
<1>a. ASSUME UNCHANGED <<tries, fetched, deep>>, TodoSet' = TodoSet,
             pc \notin {"start", "failed", "list", "scan"}, pc' \notin {"list", "scan"},
             pc' \in {"report", "exit"} => todoList' = <<>>
      PROVE  FoundInv'
  <2>1. \A v \in Urls : Found(v) => Found(v)'
    BY <1>0, <1>a, FoundKept
  <2>2. \A u \in fetched : \A v \in LinksOf(u) : Found(v) /\ v \in Urls
    BY <1>0, <1>a, <1>l DEF FoundInv, ToCome
  <2> QED
    BY <1>0, <1>a, <2>1, <2>2 DEF FoundInv
<1>1. CASE Start
  <2>1. TodoSet' = TodoSet \union {Seed}
    BY <1>0, <1>1, TodoAdd DEF Start, NewNode
  <2> QED
    BY <1>0, <1>1, <2>1 DEF Start, FoundInv, Found, InHand
<1>2. CASE StartFail
  BY <1>0, <1>2 DEF StartFail, FoundInv
<1>3. CASE OpenPass
  <2>1. TodoSet' = TodoSet
    BY <1>0, <1>3, TodoOpens DEF OpenPass, TodoSet
  <2> QED
    BY <1>3, <1>a, <2>1 DEF OpenPass
<1>4. CASE FetchStep
  <2>1. TodoSet' = TodoSet
    BY <1>0, <1>4, TodoFetch DEF FetchStep, TodoSet
  <2> QED
    BY <1>4, <1>a, <2>1 DEF FetchStep
<1>5. CASE DropPage
  <2>1. TodoSet' = TodoSet \ {url}
    BY <1>0, <1>5, TodoForget DEF DropPage
  <2>2. tries[url] > 0 \/ url \in deep'
    BY <1>0, <1>5 DEF DropPage, InHand, DoneSet
  <2>3. /\ pc = "page" /\ pc' = "close" /\ deep \subseteq deep'
        /\ UNCHANGED <<tries, fetched>>
    BY <1>5 DEF DropPage
  <2>4. \A v \in Urls : Found(v) => Found(v)'
    BY <1>0, <2>1, <2>2, <2>3, FoundKept
  <2>5. \A u \in fetched : \A v \in LinksOf(u) : Found(v) /\ v \in Urls
    BY <1>0, <1>l, <2>3 DEF FoundInv, ToCome
  <2>6. Found(Seed)
    BY <1>0, <2>3 DEF FoundInv
  <2> QED
    BY <1>0, <2>3, <2>4, <2>5, <2>6 DEF FoundInv
<1>6. CASE MarkDone
  BY <1>0, <1>6, <1>a DEF MarkDone, TodoSet, FoundInv
<1>7. CASE FetchOk
  <2>1. /\ pc = "fetch" /\ pc' = "list" /\ url' = url /\ url \in Urls
        /\ fetched' = fetched \union {url} /\ deep' = deep
        /\ hrefs' = Hrefs[url] /\ TodoSet' = TodoSet
    BY <1>0, <1>7 DEF FetchOk, InHand, TodoSet
  <2>2. tries'[url] > 0 /\ \A v \in Urls : tries[v] > 0 => tries'[v] > 0
    BY <1>0, <1>7, <2>1, CommonAssumption DEF FetchOk, Tried
  <2>3. \A v \in Urls : Found(v) => Found(v)'
    BY <1>0, <2>1, <2>2, FoundKept
  <2>4. \A u \in fetched : \A v \in LinksOf(u) : Found(v)'
    BY <1>0, <1>l, <2>1, <2>3 DEF FoundInv, ToCome
  <2>5. \A v \in LinksOf(url) : ToCome(v)'
    BY <2>1, LinksInOrder DEF ToCome
  <2>6. \A u \in fetched' : tries'[u] > 0
    BY <1>0, <2>1, <2>2 DEF FoundInv
  <2>7. Found(Seed)'
    BY <1>0, <2>1, <2>3 DEF FoundInv
  <2> QED
    BY <2>1, <2>4, <2>5, <2>6, <2>7 DEF FoundInv
<1>8. CASE FetchFail
  <2>1. /\ pc = "fetch" /\ pc' = "step" /\ url \in Urls /\ fetched' = fetched /\ deep' = deep
        /\ TodoSet' = TodoSet
    BY <1>0, <1>8 DEF FetchFail, InHand, TodoSet
  <2>2. \A v \in Urls : tries[v] > 0 => tries'[v] > 0
    BY <1>0, <1>8, <2>1, CommonAssumption DEF FetchFail, Tried
  <2>3. \A v \in Urls : Found(v) => Found(v)'
    BY <1>0, <2>1, <2>2, FoundKept
  <2>4. \A u \in fetched : \A v \in LinksOf(u) : Found(v)'
    BY <1>0, <1>l, <2>1, <2>3 DEF FoundInv, ToCome
  <2> QED
    BY <1>0, <2>1, <2>2, <2>3, <2>4 DEF FoundInv
<1>9. CASE ListPage
  <2>1. TodoSet' = TodoSet \ {url}
    BY <1>0, <1>9, TodoForget DEF ListPage
  <2>2. /\ pc = "list" /\ pc' = "scan" /\ tries[url] > 0
        /\ UNCHANGED <<tries, fetched, deep, url, hrefs>>
    BY <1>0, <1>9 DEF ListPage, InHand
  <2>3. \A v \in Urls : Found(v) => Found(v)'
    BY <1>0, <2>1, <2>2, FoundKept
  <2>4. \A v : ToCome(v) => ToCome(v)'
    BY <2>2 DEF ToCome
  <2>5. \A u \in fetched : \A v \in LinksOf(u) : Found(v)' \/ (u = url /\ ToCome(v)')
    BY <1>0, <1>l, <2>2, <2>3, <2>4 DEF FoundInv
  <2> QED
    BY <1>0, <2>2, <2>3, <2>5 DEF FoundInv
<1>10. CASE OpenFail
  BY <1>0, <1>10 DEF OpenFail, FoundInv
<1>11. CASE NextLink
  <2>1. /\ pc = "scan" /\ pc' = "scan"
        /\ UNCHANGED <<tries, fetched, deep, url>>
    BY <1>11 DEF NextLink
  <2>2. PICK l : l = Head(hrefs)
    OBVIOUS
  <2>3. l \in Links /\ l.href \in Urls
    BY <1>0, <1>11, <2>2, LinkPlaces DEF NextLink, Links
  <2>4. TodoSet \subseteq TodoSet' /\ (l.iflag => l.href \in TodoSet')
    <3>1. CASE l.iflag /\ l.href \notin ToSet(todoList)
      <4>1. Todo!Add(l.href)
        BY <1>11, <2>2, <3>1 DEF NextLink, NewNode
      <4> QED
        BY <1>0, <2>3, <4>1, TodoAdd
    <3>2. CASE ~ (l.iflag /\ l.href \notin ToSet(todoList))
      BY <1>11, <2>2, <3>2 DEF NextLink, TodoSet
    <3> QED
      BY <3>1, <3>2
  <2>5. \A v \in Urls : Found(v) => Found(v)'
    BY <1>0, <2>1, <2>4, FoundKept
  <2>6. ASSUME NEW v, ToCome(v) PROVE Found(v)' \/ ToCome(v)'
    <3>1. PICK i \in 1 .. Len(hrefs) : hrefs[i].iflag /\ hrefs[i].href = v
      BY <2>6 DEF ToCome
    <3>2. CASE i = 1
      <4>1. hrefs[1] = l
        BY <1>0, <1>11, <2>2, LinkPlaces DEF NextLink
      <4> QED
        BY <2>4, <3>1, <3>2, <4>1 DEF Found
    <3>3. CASE i # 1
      <4>1. i - 1 \in 1 .. Len(hrefs') /\ hrefs'[i - 1] = hrefs[i]
        BY <1>0, <1>11, <3>1, <3>3, LinkPlaces DEF NextLink
      <4> QED
        BY <2>1, <3>1, <4>1 DEF ToCome
    <3> QED
      BY <3>2, <3>3
  <2>7. \A u \in fetched : \A v \in LinksOf(u) : Found(v)' \/ (u = url /\ ToCome(v)')
    BY <1>0, <1>l, <2>1, <2>5, <2>6 DEF FoundInv
  <2> QED
    BY <1>0, <2>1, <2>5, <2>7 DEF FoundInv
<1>12. CASE EndPage
  <2>1. /\ pc = "scan" /\ pc' = "step" /\ hrefs = <<>> /\ TodoSet' = TodoSet
        /\ UNCHANGED <<tries, fetched, deep>>
    BY <1>12 DEF EndPage, TodoSet
  <2>2. \A v \in Urls : Found(v) => Found(v)'
    BY <1>0, <2>1, FoundKept
  <2>3. \A v : ~ ToCome(v)
    BY <2>1 DEF ToCome
  <2>4. \A u \in fetched : \A v \in LinksOf(u) : Found(v)'
    BY <1>0, <1>l, <2>1, <2>2, <2>3 DEF FoundInv
  <2> QED
    BY <1>0, <2>1, <2>2, <2>4 DEF FoundInv
<1>13. CASE ClosePass
  <2>1. TodoSet' = TodoSet
    BY <1>0, <1>13, TodoClose DEF ClosePass, TodoSet
  <2> QED
    BY <1>13, <1>a, <2>1 DEF ClosePass
<1>14. CASE OpenReport
  BY <1>0, <1>14, <1>a DEF OpenReport, TodoSet, FoundInv
<1>15. CASE ReportFail
  BY <1>0, <1>15 DEF ReportFail, FoundInv
<1>16. CASE ReportPage
  BY <1>0, <1>16, <1>a DEF ReportPage, TodoSet, FoundInv
<1>17. CASE EndReport
  BY <1>0, <1>17, <1>a DEF EndReport, TodoSet, FoundInv
<1>18. CASE UNCHANGED vars
  <2>1. \A v : (Found(v) => Found(v)') /\ (ToCome(v) => ToCome(v)')
    BY <1>18 DEF vars, Found, ToCome, TodoSet
  <2>2. \A u \in fetched : \A v \in LinksOf(u) : Found(v)' \/ (u = url /\ ToCome(v)') \/ pc = "failed"
    BY <1>0, <2>1 DEF FoundInv
  <2> QED
    BY <1>0, <1>18, <2>1, <2>2 DEF vars, FoundInv
<1> QED
  BY <1>1, <1>2, <1>3, <1>4, <1>5, <1>6, <1>7, <1>8, <1>9, <1>10, <1>11, <1>12, <1>13, <1>14, <1>15, <1>16, <1>17, <1>18 DEF Next, Step, Finished

(* No link of a fetched page is lost by adding behind an open cursor or by   *)
(* breaking a walk off: when the loop ends each was asked for or lay too     *)
(* deep.                                                                     *)
THEOREM CommonComplete == Spec => []CrawlComplete
<1>1. Inv /\ FoundInv /\ [Next]_vars => FoundInv'
  BY FoundNext
<1>2. Inv /\ FoundInv => CrawlComplete
  <2> SUFFICES ASSUME Inv, FoundInv, pc \in {"report", "exit"}
               PROVE  \A v \in {Seed} \union UNION {LinksOf(u) : u \in fetched} :
                        tries[v] > 0 \/ v \in deep
    BY DEF CrawlComplete
  <2>1. TodoSet = {}
    BY EmptySet DEF FoundInv, TodoSet
  <2>2. Found(Seed) /\ \A u \in fetched : \A v \in LinksOf(u) : Found(v)
    BY DEF FoundInv, ToCome
  <2> QED
    BY <2>1, <2>2 DEF Found
<1> QED
  BY InvAlways, FoundInit, <1>1, <1>2, PTL DEF Spec

(* The text in hand is that of the page in work or that of a page that was   *)
(* missed; what the done list says is what the page was judged by.          *)
TextInv ==
  /\ \A u \in TodoSet : texts[u] \in FoundWith(u)
  /\ \A u \in DoneSet : doneTexts[u] \in JudgedBy(u)
  /\ pc = "step" => urlcontent = NoText \/ \E v \in Missed : urlcontent \in FoundWith(v)
  /\ pc = "page" => urlcontent \in JudgedBy(url)
  /\ pc \in {"fetch", "list"} => doneTexts[url] = urlcontent
  /\ fetched \subseteq {u \in DoneSet : tries[u] > 0}

LEMMA TextInit == Init => TextInv
<1> SUFFICES ASSUME Init PROVE TextInv
  OBVIOUS
<1>1. TodoSet = {} /\ DoneSet = {}
  BY EmptySet DEF Init, Todo!Init, Done!Init, TodoSet, DoneSet
<1> QED
  BY <1>1 DEF Init, TextInv

(* What pages may be judged by only grows. *)
LEMMA TextsGrow ==
  ASSUME fetched \subseteq fetched', Missed \subseteq Missed'
  PROVE  \A u : FoundWith(u) \subseteq FoundWith(u)' /\ JudgedBy(u) \subseteq JudgedBy(u)'
<1>1. \A u : FoundWith(u) \subseteq FoundWith(u)'
  BY DEF FoundWith
<1>2. ASSUME NEW u, NEW t \in JudgedBy(u) PROVE t \in JudgedBy(u)'
  <2>1. CASE t \in FoundWith(u)
    BY <1>1, <2>1 DEF JudgedBy
  <2>2. CASE t \notin FoundWith(u)
    <3>1. PICK v \in Missed : t \in FoundWith(v) /\ NoText \in FoundWith(u)
      BY <1>2, <2>2 DEF JudgedBy
    <3>2. v \in Missed' /\ t \in FoundWith(v)' /\ NoText \in FoundWith(u)'
      BY <1>1, <3>1
    <3> QED
      BY <3>2 DEF JudgedBy
  <2> QED
    BY <2>1, <2>2
<1> QED
  BY <1>1, <1>2

LEMMA TextNext == ASSUME Inv, TextInv, [Next]_vars PROVE TextInv'
<1>0. /\ TypeOK /\ InHand /\ TextInv /\ TodoSet \subseteq Urls /\ DoneSet \subseteq Urls
      /\ tries \in [Urls -> 0 .. FetchCap] /\ texts \in [Urls -> AnyText]
      /\ doneTexts \in [Urls -> AnyText] /\ Seed \in Urls
  BY SetInUrls, CommonAssumption DEF Inv, TypeOK, TodoSet, DoneSet
<1> USE DEF todoVars, doneVars, nodeVars, pageVars, outVars, history
(* The steps that neither fetch nor record a page, nor take or find one.    *)
<1>a. ASSUME UNCHANGED <<fetched, tries, texts, doneTexts>>,
             TodoSet' \subseteq TodoSet, DoneSet' = DoneSet,
             pc' \in {"step", "page", "fetch"} => FALSE,
             pc' = "list" => pc = "list" /\ UNCHANGED <<url, urlcontent>>
      PROVE  TextInv'
  <2>1. Missed' = Missed
    BY <1>a DEF Missed
  <2>2. \A u : FoundWith(u) \subseteq FoundWith(u)' /\ JudgedBy(u) \subseteq JudgedBy(u)'
    BY <1>a, <2>1, TextsGrow
  <2> QED
    BY <1>0, <1>a, <2>2 DEF TextInv
<1>1. CASE Start
  <2>1. TodoSet' = TodoSet \union {Seed} /\ TodoSet = {} /\ DoneSet' = {} /\ fetched' = {}
    BY <1>0, <1>1, TodoAdd, EmptySet DEF Start, NewNode, InHand, TodoSet, DoneSet
  <2>2. texts'[Seed] \in FoundWith(Seed)'
    BY <1>0, <1>1 DEF Start, NewNode, FoundWith, AnyText
  <2>3. pc' = "pass"
    BY <1>1 DEF Start
  <2> QED
    BY <2>1, <2>2, <2>3 DEF TextInv
<1>2. CASE StartFail
  BY <1>2, <1>a DEF StartFail, TodoSet, DoneSet
<1>3. CASE OpenPass
  <2>1. TodoSet' = TodoSet /\ DoneSet' = DoneSet
    BY <1>0, <1>3, TodoOpens DEF OpenPass, TodoSet, DoneSet
  <2>2. /\ pc' = "step" /\ urlcontent' = NoText
        /\ UNCHANGED <<fetched, tries, texts, doneTexts>>
    BY <1>3 DEF OpenPass
  <2>3. Missed' = Missed
    BY <2>2 DEF Missed
  <2>4. \A u : FoundWith(u) \subseteq FoundWith(u)' /\ JudgedBy(u) \subseteq JudgedBy(u)'
    BY <2>2, <2>3, TextsGrow
  <2> QED
    BY <1>0, <2>1, <2>2, <2>4 DEF TextInv
<1>4. CASE FetchStep
  <2>1. TodoSet' = TodoSet /\ DoneSet' = DoneSet /\ url' \in TodoSet
    BY <1>0, <1>4, TodoFetch DEF FetchStep, TodoSet, DoneSet, InHand
  <2>2. /\ pc = "step" /\ pc' = "page"
        /\ urlcontent' = (IF texts[url'] # NoText THEN texts[url'] ELSE urlcontent)
        /\ UNCHANGED <<fetched, tries, texts, doneTexts>>
    BY <1>4 DEF FetchStep
  <2>3. Missed' = Missed
    BY <2>2 DEF Missed
  <2>4. \A u : FoundWith(u) \subseteq FoundWith(u)' /\ JudgedBy(u) \subseteq JudgedBy(u)'
    BY <2>2, <2>3, TextsGrow
  <2>5. PICK u, t : u = url' /\ t = urlcontent'
    OBVIOUS
  <2>6. t \in JudgedBy(u)
    <3>1. texts[u] \in FoundWith(u)
      BY <1>0, <2>1, <2>5 DEF TextInv
    <3>2. CASE texts[u] # NoText
      BY <2>2, <2>5, <3>1, <3>2 DEF JudgedBy
    <3>3. CASE texts[u] = NoText
      <4>1. t = urlcontent /\ NoText \in FoundWith(u)
        BY <2>2, <2>5, <3>1, <3>3
      <4> QED
        BY <1>0, <2>2, <4>1 DEF TextInv, JudgedBy
    <3> QED
      BY <3>2, <3>3
  <2>7. t \in JudgedBy(u)'
    BY <2>4, <2>6
  <2>8. urlcontent' \in JudgedBy(url)'
    BY <2>5, <2>7 DEF JudgedBy, FoundWith, Missed
  <2> QED
    BY <1>0, <2>1, <2>2, <2>4, <2>8 DEF TextInv
<1>5. CASE DropPage
  <2>1. TodoSet' = TodoSet \ {url}
    BY <1>0, <1>5, TodoForget DEF DropPage
  <2> QED
    BY <1>5, <1>a, <2>1 DEF DropPage, DoneSet
<1>6. CASE MarkDone
  <2>1. DoneSet' = DoneSet \union {url} /\ url \notin DoneSet /\ url \in Urls /\ TodoSet' = TodoSet
    BY <1>0, <1>6, DoneAdd DEF MarkDone, InHand, TodoSet
  <2>2. /\ pc = "page" /\ pc' = "fetch" /\ UNCHANGED <<fetched, tries, texts, url, urlcontent>>
        /\ doneTexts' = [doneTexts EXCEPT ![url] = urlcontent]
    BY <1>6 DEF MarkDone
  <2>3. Missed' = Missed
    BY <2>2 DEF Missed
  <2>4. \A u : FoundWith(u) \subseteq FoundWith(u)' /\ JudgedBy(u) \subseteq JudgedBy(u)'
    BY <2>2, <2>3, TextsGrow
  <2>5. doneTexts'[url] = urlcontent /\ \A u \in DoneSet : doneTexts'[u] = doneTexts[u]
    BY <1>0, <2>1, <2>2
  <2>6. \A u \in DoneSet' : doneTexts'[u] \in JudgedBy(u)
    BY <1>0, <2>1, <2>2, <2>5 DEF TextInv
  <2> QED
    BY <1>0, <2>1, <2>2, <2>4, <2>5, <2>6 DEF TextInv
<1>7. CASE FetchOk
  <2>1. /\ pc = "fetch" /\ pc' = "list" /\ url \in Urls /\ url \in DoneSet /\ Tried
        /\ fetched' = fetched \union {url}
        /\ UNCHANGED <<texts, doneTexts, url, urlcontent>>
        /\ TodoSet' = TodoSet /\ DoneSet' = DoneSet
    BY <1>0, <1>7 DEF FetchOk, InHand, TodoSet, DoneSet
  <2>2. ~ (tries[url] > 0)
    BY <2>1 DEF Inv, TriedOnce
  <2>3. tries'[url] > 0 /\ \A u \in Urls \ {url} : tries'[u] = tries[u]
    BY <1>0, <2>1, CommonAssumption DEF Tried
  <2>4. Missed \subseteq Missed'
    BY <2>1, <2>2, <2>3 DEF Missed
  <2>5. \A u : FoundWith(u) \subseteq FoundWith(u)' /\ JudgedBy(u) \subseteq JudgedBy(u)'
    BY <2>1, <2>4, TextsGrow
  <2>6. fetched' \subseteq {u \in DoneSet' : tries'[u] > 0}
    BY <1>0, <2>1, <2>3 DEF TextInv
  <2> QED
    BY <1>0, <2>1, <2>5, <2>6 DEF TextInv
<1>8. CASE FetchFail
  <2>1. /\ pc = "fetch" /\ pc' = "step" /\ url \in Urls /\ url \in DoneSet /\ Tried
        /\ UNCHANGED <<fetched, texts, doneTexts, url, urlcontent>>
        /\ TodoSet' = TodoSet /\ DoneSet' = DoneSet
    BY <1>0, <1>8 DEF FetchFail, InHand, TodoSet, DoneSet
  <2>2. ~ (tries[url] > 0)
    BY <2>1 DEF Inv, TriedOnce
  <2>3. tries'[url] > 0 /\ \A u \in Urls \ {url} : tries'[u] = tries[u]
    BY <1>0, <2>1, CommonAssumption DEF Tried
  <2>4. Missed \subseteq Missed' /\ url \in Missed'
    BY <1>0, <2>1, <2>2, <2>3 DEF Missed, TextInv
  <2>5. \A u : FoundWith(u) \subseteq FoundWith(u)' /\ JudgedBy(u) \subseteq JudgedBy(u)'
    BY <2>1, <2>4, TextsGrow
  <2>6. fetched' \subseteq {u \in DoneSet' : tries'[u] > 0}
    BY <1>0, <2>1, <2>2, <2>3 DEF TextInv
  <2>7. PICK v : v \in Missed' /\ urlcontent \in FoundWith(v)
    <3>1. urlcontent \in JudgedBy(url)
      BY <1>0, <2>1 DEF TextInv
    <3>2. CASE urlcontent \in FoundWith(url)
      BY <2>4, <3>2
    <3>3. CASE \E v \in Missed : urlcontent \in FoundWith(v)
      BY <2>4, <3>3
    <3> QED
      BY <3>1, <3>2, <3>3 DEF JudgedBy
  <2>8. urlcontent' \in FoundWith(v)'
    <3>1. urlcontent \in FoundWith(v)'
      BY <2>5, <2>7
    <3> QED
      BY <2>1, <3>1
  <2> QED
    BY <1>0, <2>1, <2>5, <2>6, <2>7, <2>8 DEF TextInv
<1>9. CASE ListPage
  <2>1. TodoSet' = TodoSet \ {url}
    BY <1>0, <1>9, TodoForget DEF ListPage
  <2> QED
    BY <1>9, <1>a, <2>1 DEF ListPage, DoneSet
<1>10. CASE OpenFail
  BY <1>10, <1>a DEF OpenFail, TodoSet, DoneSet
<1>11. CASE NextLink
  <2>1. /\ pc = "scan" /\ pc' = "scan" /\ url \in fetched /\ UNCHANGED <<fetched, tries, doneTexts>>
        /\ DoneSet' = DoneSet
    BY <1>0, <1>11 DEF NextLink, InHand, DoneSet
  <2>2. PICK l : l = Head(hrefs)
    OBVIOUS
  <2>3. CASE UNCHANGED <<todoVars, nodeVars>>
    BY <1>a, <2>1, <2>3 DEF TodoSet
  <2>4. CASE l.iflag /\ NewNode(l.href, l.text, depth)
    <3>1. l \in Links /\ l \in Accepted(url)
      BY <1>0, <1>11, <2>2, <2>4, LinkPlaces DEF NextLink, InHand
    <3>2. TodoSet' = TodoSet \union {l.href} /\ l.href \in Urls
      BY <1>0, <2>4, <3>1, TodoAdd DEF NewNode, Links
    <3>3. texts' = [texts EXCEPT ![l.href] = l.text]
      BY <2>4 DEF NewNode
    <3>4. l.text \in FoundWith(l.href)
      BY <2>1, <3>1 DEF FoundWith, Links
    <3>5. \A u \in TodoSet' : texts'[u] \in FoundWith(u)
      BY <1>0, <3>2, <3>3, <3>4 DEF TextInv
    <3>6. Missed' = Missed
      BY <2>1 DEF Missed
    <3>7. \A u : FoundWith(u) \subseteq FoundWith(u)' /\ JudgedBy(u) \subseteq JudgedBy(u)'
      BY <2>1, <3>6, TextsGrow
    <3> QED
      BY <1>0, <2>1, <3>5, <3>7 DEF TextInv
  <2> QED
    BY <1>11, <2>2, <2>3, <2>4 DEF NextLink
<1>12. CASE EndPage
  <2>1. /\ pc' = "step" /\ urlcontent' = NoText /\ UNCHANGED <<fetched, tries, texts, doneTexts>>
        /\ TodoSet' = TodoSet /\ DoneSet' = DoneSet
    BY <1>12 DEF EndPage, TodoSet, DoneSet
  <2>2. Missed' = Missed
    BY <2>1 DEF Missed
  <2>3. \A u : FoundWith(u) \subseteq FoundWith(u)' /\ JudgedBy(u) \subseteq JudgedBy(u)'
    BY <2>1, <2>2, TextsGrow
  <2> QED
    BY <1>0, <2>1, <2>3 DEF TextInv
<1>13. CASE ClosePass
  <2>1. TodoSet' = TodoSet
    BY <1>0, <1>13, TodoClose DEF ClosePass, TodoSet
  <2> QED
    BY <1>13, <1>a, <2>1 DEF ClosePass, DoneSet
<1>14. CASE OpenReport
  <2>1. UNCHANGED doneList
    BY <1>0, <1>14, DoneOpens DEF OpenReport
  <2> QED
    BY <1>14, <1>a, <2>1 DEF OpenReport, TodoSet, DoneSet
<1>15. CASE ReportFail
  BY <1>15, <1>a DEF ReportFail, TodoSet, DoneSet
<1>16. CASE ReportPage
  <2>1. UNCHANGED doneList
    BY <1>0, <1>16, DoneFetch DEF ReportPage
  <2> QED
    BY <1>16, <1>a, <2>1 DEF ReportPage, TodoSet, DoneSet
<1>17. CASE EndReport
  <2>1. UNCHANGED doneList
    BY <1>0, <1>17, DoneClose DEF EndReport
  <2> QED
    BY <1>17, <1>a, <2>1 DEF EndReport, TodoSet, DoneSet
<1>18. CASE UNCHANGED vars
  <2>1. Missed' = Missed /\ TodoSet' = TodoSet /\ DoneSet' = DoneSet
    BY <1>18 DEF vars, Missed, TodoSet, DoneSet
  <2>2. \A u : FoundWith(u) \subseteq FoundWith(u)' /\ JudgedBy(u) \subseteq JudgedBy(u)'
    BY <1>18, <2>1, TextsGrow DEF vars
  <2>3. UNCHANGED <<fetched, tries, texts, doneTexts, url, urlcontent, pc>>
    BY <1>18 DEF vars
  <2>4. pc' = "page" => urlcontent' \in JudgedBy(url)'
    <3>1. JudgedBy(url)' = JudgedBy(url)
      BY <2>1, <2>3 DEF JudgedBy, FoundWith
    <3> QED
      BY <1>0, <2>3, <3>1 DEF TextInv
  <2> QED
    BY <1>0, <2>1, <2>2, <2>3, <2>4 DEF TextInv
<1> QED
  BY <1>1, <1>2, <1>3, <1>4, <1>5, <1>6, <1>7, <1>8, <1>9, <1>10, <1>11, <1>12, <1>13, <1>14, <1>15, <1>16, <1>17, <1>18 DEF Next, Step, Finished

WantedOf(S) == {u \in S : Wanted(doneTexts[u], u)}

(* The lines of the shixin crawl are written page by page, those of every    *)
(* other one by the report, as its cursor goes.                              *)
ReportInv ==
  /\ "shixin" \in options => lines \union files \subseteq WantedOf(fetched)
  /\ "shixin" \notin options =>
       /\ pc \notin {"report", "exit"} => lines = {}
       /\ pc = "report" => /\ lines \union WantedOf(ToReport) = WantedOf(DoneSet)
       /\ pc = "exit" => lines = WantedOf(DoneSet)
       /\ files \subseteq lines

LEMMA ReportInit == Init => ReportInv
BY DEF Init, ReportInv

LEMMA ReportNext == ASSUME Inv, TextInv, ReportInv, [Next]_vars PROVE ReportInv'
<1>0. TypeOK /\ InHand /\ ReportInv
  BY DEF Inv
<1> USE DEF todoVars, doneVars, nodeVars, pageVars, outVars, history
<1>f. ASSUME options' = options, \A u \in fetched : doneTexts'[u] = doneTexts[u],
             fetched \subseteq fetched'
      PROVE  WantedOf(fetched) \subseteq WantedOf(fetched)'
  BY <1>f DEF WantedOf, Wanted
(* The steps that write nothing, outside the report. *)
<1>a. ASSUME UNCHANGED <<options, lines, files>>, fetched \subseteq fetched',
             \A u \in fetched : doneTexts'[u] = doneTexts[u],
             pc \notin {"report", "exit"}, pc' \notin {"report", "exit"}
      PROVE  ReportInv'
  <2>1. "shixin" \in options => lines' \union files' \subseteq WantedOf(fetched)'
    BY <1>0, <1>a, <1>f DEF ReportInv
  <2> QED
    BY <1>0, <1>a, <2>1 DEF ReportInv
<1>1. CASE Start
  BY <1>1, <1>a DEF Start
<1>2. CASE StartFail
  BY <1>2, <1>a DEF StartFail
<1>3. CASE OpenPass
  BY <1>3, <1>a DEF OpenPass
<1>4. CASE FetchStep
  BY <1>4, <1>a DEF FetchStep
<1>5. CASE DropPage
  BY <1>5, <1>a DEF DropPage
<1>6. CASE MarkDone
  <2>1. url \notin DoneSet /\ url \in Urls /\ doneTexts \in [Urls -> AnyText]
    BY <1>0, <1>6, DoneAdd DEF MarkDone, InHand, TypeOK
  <2>2. \A u \in fetched : doneTexts'[u] = doneTexts[u]
    BY <1>0, <1>6, <2>1 DEF MarkDone, TextInv, TypeOK
  <2> QED
    BY <1>6, <1>a, <2>2 DEF MarkDone
<1>7. CASE FetchOk
  BY <1>7, <1>a DEF FetchOk
<1>8. CASE FetchFail
  BY <1>8, <1>a DEF FetchFail
<1>9. CASE ListPage
  <2>1. /\ pc = "list" /\ pc' = "scan" /\ UNCHANGED <<options, fetched, doneTexts>>
        /\ url \in fetched /\ doneTexts[url] = urlcontent
    BY <1>0, <1>9 DEF ListPage, InHand, TextInv
  <2>2. CASE UNCHANGED <<lines, files>>
    BY <1>a, <2>1, <2>2
  <2>3. CASE "shixin" \in options /\ Wanted(urlcontent, url) /\ ListAndSave(url, {"file"})
    <3>1. lines' \union files' \subseteq lines \union files \union {url}
      BY <2>3 DEF ListAndSave
    <3>2. url \in WantedOf(fetched)
      BY <2>1, <2>3 DEF WantedOf
    <3>3. lines' \union files' \subseteq WantedOf(fetched)'
      BY <1>0, <1>f, <2>1, <2>3, <3>1, <3>2 DEF ReportInv
    <3> QED
      BY <2>1, <2>3, <3>3 DEF ReportInv
  <2> QED
    BY <1>9, <2>2, <2>3 DEF ListPage
<1>10. CASE OpenFail
  BY <1>10, <1>a DEF OpenFail
<1>11. CASE NextLink
  BY <1>11, <1>a DEF NextLink
<1>12. CASE EndPage
  BY <1>12, <1>a DEF EndPage
<1>13. CASE ClosePass
  BY <1>13, <1>a DEF ClosePass
<1>14. CASE OpenReport
  <2>1. ToReport' = DoneSet /\ DoneSet' = DoneSet
    BY <1>0, <1>14, DoneOpens DEF OpenReport, DoneSet
  <2>2. /\ pc = "pass" /\ pc' = "report" /\ lines' \subseteq lines
        /\ UNCHANGED <<options, files, fetched, doneTexts>>
    BY <1>14 DEF OpenReport
  <2>3. "shixin" \in options => lines' \union files' \subseteq WantedOf(fetched)'
    BY <1>0, <1>f, <2>2 DEF ReportInv
  <2>4. ASSUME "shixin" \notin options
        PROVE  lines' = {} /\ files' = {} /\ WantedOf(ToReport)' = WantedOf(DoneSet)'
    BY <1>0, <2>1, <2>2, <2>4 DEF ReportInv, WantedOf
  <2> QED
    BY <2>2, <2>3, <2>4 DEF ReportInv
<1>15. CASE ReportFail
  BY <1>15, <1>a DEF ReportFail
<1>16. CASE ReportPage
  <2>1. PICK u : u = Head(doneRest[Cursor])
    OBVIOUS
  <2>2. ToReport = {u} \union ToReport' /\ DoneSet' = DoneSet
    BY <1>0, <1>16, <2>1, DoneFetch DEF ReportPage, DoneSet
  <2>3. pc = "report" /\ pc' = "report" /\ UNCHANGED <<options, fetched, doneTexts>>
    BY <1>16 DEF ReportPage
  <2>4. CASE "shixin" \in options
    <3>1. UNCHANGED <<lines, files>>
      BY <1>16, <2>4 DEF ReportPage
    <3>2. lines' \union files' \subseteq WantedOf(fetched)'
      BY <1>0, <1>f, <2>3, <2>4, <3>1 DEF ReportInv
    <3> QED
      BY <2>3, <2>4, <3>2 DEF ReportInv
  <2>5. CASE "shixin" \notin options
    <3>1. /\ lines \union WantedOf(ToReport) = WantedOf(DoneSet)
          /\ files \subseteq lines
      BY <1>0, <2>3, <2>5 DEF ReportInv
    <3>2. lines' = lines \union WantedOf({u}) /\ files' \subseteq lines'
      <4>1. CASE Wanted(doneTexts[u], u)
        <5>1. ListAndSave(u, {"fetch", "file"})
          BY <1>16, <2>1, <2>5, <4>1 DEF ReportPage
        <5> QED
          BY <3>1, <4>1, <5>1 DEF ListAndSave, WantedOf
      <4>2. CASE ~ Wanted(doneTexts[u], u)
        BY <1>16, <2>1, <2>5, <3>1, <4>2 DEF ReportPage, WantedOf
      <4> QED
        BY <4>1, <4>2
    <3>3. WantedOf(ToReport) = WantedOf({u}) \union WantedOf(ToReport)'
      BY <2>2, <2>3 DEF WantedOf, Wanted
    <3>4. WantedOf(DoneSet)' = WantedOf(DoneSet)
      BY <2>2, <2>3 DEF WantedOf, Wanted
    <3> QED
      BY <2>3, <2>5, <3>1, <3>2, <3>3, <3>4 DEF ReportInv
  <2> QED
    BY <2>4, <2>5
<1>17. CASE EndReport
  <2>1. DoneSet' = DoneSet
    BY <1>0, <1>17, DoneClose DEF EndReport, DoneSet
  <2>2. /\ pc = "report" /\ pc' = "exit" /\ ToReport = {}
        /\ UNCHANGED <<options, lines, files, fetched, doneTexts>>
    BY <1>17, EmptySet DEF EndReport, ToReport
  <2>3. "shixin" \in options => lines' \union files' \subseteq WantedOf(fetched)'
    BY <1>0, <1>f, <2>2 DEF ReportInv
  <2>4. ASSUME "shixin" \notin options
        PROVE  lines' = WantedOf(DoneSet)' /\ files' \subseteq lines'
    <3>1. lines \union WantedOf(ToReport) = WantedOf(DoneSet) /\ files \subseteq lines
      BY <1>0, <2>2, <2>4 DEF ReportInv
    <3>2. WantedOf(ToReport) = {} /\ WantedOf(DoneSet)' = WantedOf(DoneSet)
      BY <2>1, <2>2 DEF WantedOf, Wanted
    <3> QED
      BY <2>2, <3>1, <3>2
  <2> QED
    BY <2>2, <2>3, <2>4 DEF ReportInv
<1>18. CASE UNCHANGED vars
  BY <1>0, <1>18 DEF vars, ReportInv, WantedOf, Wanted, DoneSet, ToReport
<1> QED
  BY <1>1, <1>2, <1>3, <1>4, <1>5, <1>6, <1>7, <1>8, <1>9, <1>10, <1>11, <1>12, <1>13, <1>14, <1>15, <1>16, <1>17, <1>18 DEF Next, Step, Finished

(* At the exit each page was recorded with a text of its own or, when it had *)
(* none, with what a page that failed before it left behind; by that text    *)
(* the shixin crawl has listed and saved fetched pages only, and every other *)
(* crawl all the wanted pages it asked for and no other.                     *)
THEOREM CommonReport == Spec => []ReportRight
<1>1. Inv /\ TextInv /\ ReportInv /\ [Next]_vars => TextInv' /\ ReportInv'
  BY TextNext, ReportNext
<1>2. TextInv /\ ReportInv => ReportRight
  BY DEF TextInv, ReportInv, ReportRight, WantedOf, DoneSet
<1> QED
  BY InvAlways, TextInit, ReportInit, <1>1, <1>2, PTL DEF Spec

-----------------------------------------------------------------------------
(* The refinement.  A step that leaves these alone is none of the crawl's. *)
LEMMA CommonStutters ==
  ASSUME TodoSet' = TodoSet, UNCHANGED <<depths, tries, fetched, deep>>
  PROVE  UNCHANGED C!vars
BY DEF C!vars, todoBar, doneBar, droppedBar, TodoSet

LEMMA CommonCrawlInit == Init => C!Init
<1> SUFFICES ASSUME Init PROVE C!Init
  OBVIOUS
<1>1. todoList = <<>> /\ ToSet(todoList) = {} /\ Seed \in Urls
  BY EmptySet, CommonAssumption DEF Init, Todo!Init
<1>2. doneBar = {} /\ droppedBar = {} /\ todoBar = {Seed}
  BY <1>1 DEF Init, doneBar, droppedBar, todoBar
<1> QED
  BY <1>2 DEF C!Init

LEMMA CommonCrawlNext ==
  ASSUME Inv, DepthInv, FoundInv, [Next]_vars
  PROVE  [C!Next]_(C!vars)
<1>0. /\ TypeOK /\ InHand /\ TodoSet \subseteq Urls /\ Seed \in Urls
      /\ tries \in [Urls -> 0 .. FetchCap] /\ depths \in [Urls -> Nat] /\ depth \in Nat
      /\ fetched \subseteq Urls
      /\ depths[Seed] = 0 => pc \in {"start", "failed"}
  BY SetInUrls, CommonAssumption DEF Inv, TypeOK, TodoSet, DepthInv
<1>d. \A u \in DoneSet : pc # "fetch" /\ u \in Urls => tries[u] > 0
  BY DEF Inv, TriedOnce, DoneSet
<1> USE DEF todoVars, doneVars, nodeVars, pageVars, outVars, history
<1>1. CASE Start
  <2>1. TodoSet' = TodoSet \union {Seed} /\ TodoSet = {}
    BY <1>0, <1>1, TodoAdd, EmptySet DEF Start, NewNode, InHand, TodoSet
  <2>2. /\ fetched = {} /\ deep = {} /\ depths'[Seed] = 1
        /\ UNCHANGED <<tries, fetched, deep>>
    BY <1>0, <1>1 DEF Start, NewNode, InHand
  <2>3. \A u \in Urls : ~ (tries[u] > 0)
    <3>1. DoneSet = {} /\ pc = "start"
      BY <1>0, <1>1, EmptySet DEF Start, InHand, DoneSet
    <3> QED
      BY <3>1 DEF Inv, TriedOnce, DoneSet
  <2>4. UNCHANGED <<doneBar, droppedBar>> /\ droppedBar = {} /\ doneBar = {}
    BY <2>2, <2>3 DEF doneBar, droppedBar
  <2>5. todoBar' = {Seed}
    BY <2>1, <2>2, <2>4 DEF todoBar, TodoSet
  <2>7. CASE depths[Seed] = 0
    <3>1. todoBar = {Seed}
      BY <2>1, <2>4, <2>7 DEF todoBar, TodoSet
    <3> QED
      BY <2>4, <2>5, <3>1 DEF C!vars
  <2> QED
    BY <1>1, <2>7 DEF Start, DepthInv
<1>2. CASE StartFail
  BY <1>2, CommonStutters DEF StartFail, TodoSet
<1>3. CASE OpenPass
  <2>1. TodoSet' = TodoSet
    BY <1>0, <1>3, TodoOpens DEF OpenPass, TodoSet
  <2> QED
    BY <1>3, <2>1, CommonStutters DEF OpenPass
<1>4. CASE FetchStep
  <2>1. TodoSet' = TodoSet
    BY <1>0, <1>4, TodoFetch DEF FetchStep, TodoSet
  <2> QED
    BY <1>4, <2>1, CommonStutters DEF FetchStep
<1>5. CASE DropPage
  <2>1. TodoSet' = TodoSet \ {url} /\ url \in TodoSet /\ url \in Urls
    BY <1>0, <1>5, TodoForget DEF DropPage, InHand
  <2>2. /\ depths[Seed] # 0 /\ UNCHANGED <<depths, tries, fetched>>
        /\ deep' = (IF TooDeep THEN deep \union {url} ELSE deep)
    BY <1>0, <1>5 DEF DropPage
  <2>3. todoBar = TodoSet \ (doneBar \union droppedBar)
        /\ todoBar' = TodoSet' \ (doneBar' \union droppedBar')
    BY <2>2 DEF todoBar, TodoSet
  <2>4. doneBar' = doneBar
    BY <2>2 DEF doneBar
  <2>5. CASE url \in doneBar \union droppedBar
    <3>1. droppedBar' = droppedBar
      BY <2>2, <2>5 DEF doneBar, droppedBar
    <3> QED
      BY <2>1, <2>3, <2>4, <2>5, <3>1 DEF C!vars
  <2>6. CASE url \notin doneBar \union droppedBar
    <3>1. url \notin fetched /\ ~ (tries[url] > 0)
      BY <2>1, <2>6 DEF doneBar, droppedBar
    <3>2. TooDeep
      BY <1>d, <1>5, <2>1, <3>1 DEF DropPage, DoneSet
    <3>3. droppedBar' = droppedBar \union {url}
      BY <2>1, <2>2, <3>1, <3>2 DEF droppedBar
    <3>4. url \in todoBar /\ todoBar' = todoBar \ {url}
      BY <2>1, <2>3, <2>4, <2>6, <3>3
    <3> QED
      BY <2>1, <2>4, <3>3, <3>4 DEF C!Next, C!Drop
  <2> QED
    BY <2>5, <2>6
<1>6. CASE MarkDone
  BY <1>6, CommonStutters DEF MarkDone, TodoSet
<1>7. CASE FetchOk
  <2>1. /\ url \in TodoSet /\ url \in Urls /\ depths[Seed] # 0 /\ TodoSet' = TodoSet
        /\ fetched' = fetched \union {url} /\ UNCHANGED <<depths, deep>>
    BY <1>0, <1>7 DEF FetchOk, InHand, TodoSet
  <2>2. /\ \A u \in Urls \ {url} : tries'[u] = tries[u]
    BY <1>0, <1>7, <2>1 DEF FetchOk, Tried
  <2>3. todoBar = TodoSet \ (doneBar \union droppedBar)
        /\ todoBar' = TodoSet' \ (doneBar' \union droppedBar')
    BY <2>1 DEF todoBar, TodoSet
  <2>4. doneBar' = doneBar \union {url}
    BY <2>1 DEF doneBar
  <2>5. droppedBar' = droppedBar \ {url}
    BY <2>1, <2>2 DEF droppedBar
  <2>6. url \notin fetched
    <3>1. tries[url] = 0
      BY <1>7, <2>1 DEF FetchOk, Inv, TriedOnce
    <3> QED
      BY <3>1 DEF FoundInv
  <2>7. url \in todoBar \union droppedBar
    BY <2>1, <2>3, <2>6 DEF doneBar
  <2>8. todoBar' = todoBar \ {url}
    BY <2>1, <2>3, <2>4, <2>5
  <2> QED
    BY <2>1, <2>4, <2>5, <2>7, <2>8 DEF C!Next, C!Serve
<1>8. CASE FetchFail
  <2>1. /\ url \in TodoSet /\ url \in Urls /\ depths[Seed] # 0 /\ TodoSet' = TodoSet
        /\ UNCHANGED <<depths, deep, fetched>>
    BY <1>0, <1>8 DEF FetchFail, InHand, TodoSet
  <2>2. tries'[url] > 0 /\ \A u \in Urls \ {url} : tries'[u] = tries[u]
    BY <1>0, <1>8, <2>1, CommonAssumption DEF FetchFail, Tried
  <2>3. todoBar = TodoSet \ (doneBar \union droppedBar)
        /\ todoBar' = TodoSet' \ (doneBar' \union droppedBar')
    BY <2>1 DEF todoBar, TodoSet
  <2>4. doneBar' = doneBar
    BY <2>1 DEF doneBar
  <2>5. CASE url \in doneBar \union droppedBar
    <3>1. droppedBar' = droppedBar
      BY <2>1, <2>2, <2>5 DEF doneBar, droppedBar
    <3> QED
      BY <2>1, <2>3, <2>4, <3>1 DEF C!vars
  <2>6. CASE url \notin doneBar \union droppedBar
    <3>1. droppedBar' = droppedBar \union {url}
      BY <2>1, <2>2, <2>6 DEF doneBar, droppedBar
    <3>2. url \in todoBar /\ todoBar' = todoBar \ {url}
      BY <2>1, <2>3, <2>4, <2>6, <3>1
    <3> QED
      BY <2>1, <2>4, <3>1, <3>2 DEF C!Next, C!Drop
  <2> QED
    BY <2>5, <2>6
<1>9. CASE ListPage
  <2>1. TodoSet' = TodoSet \ {url} /\ url \in fetched
    BY <1>0, <1>9, TodoForget DEF ListPage, InHand
  <2>2. UNCHANGED <<depths, tries, fetched, deep>>
    BY <1>9 DEF ListPage
  <2>3. UNCHANGED <<doneBar, droppedBar>> /\ url \in doneBar
    BY <2>1, <2>2 DEF doneBar, droppedBar
  <2>4. todoBar' = todoBar
    BY <2>1, <2>2, <2>3 DEF todoBar, TodoSet
  <2> QED
    BY <2>3, <2>4 DEF C!vars
<1>10. CASE OpenFail
  BY <1>10, CommonStutters DEF OpenFail, TodoSet
<1>11. CASE NextLink
  <2>1. UNCHANGED <<tries, fetched, deep>> /\ depths[Seed] # 0 /\ url \in fetched
    BY <1>0, <1>11 DEF NextLink, InHand
  <2>2. UNCHANGED <<doneBar, droppedBar>> /\ url \in doneBar
    BY <2>1 DEF doneBar, droppedBar
  <2>3. CASE UNCHANGED <<todoVars, nodeVars>>
    BY <2>1, <2>3, CommonStutters DEF TodoSet
  <2>4. CASE Head(hrefs).iflag /\ NewNode(Head(hrefs).href, Head(hrefs).text, depth)
    <3>1. PICK v : v = Head(hrefs).href
      OBVIOUS
    <3>2. v \in LinksOf(url) /\ v \in Urls /\ url \in Urls
      BY <1>0, <1>11, <2>4, <3>1, LinkPlaces DEF NextLink, InHand, Links, LinksOf
    <3>3. TodoSet' = TodoSet \union {v}
      BY <1>0, <2>4, <3>1, <3>2, TodoAdd DEF NewNode
    <3>4. depth >= 2
      BY <1>11 DEF NextLink, DepthInv
    <3>5. depths'[Seed] # 0
      BY <1>0, <2>1, <2>4, <3>1, <3>2, <3>4 DEF NewNode
    <3>6. todoBar = TodoSet \ (doneBar \union droppedBar)
          /\ todoBar' = TodoSet' \ (doneBar' \union droppedBar')
      BY <2>1, <3>5 DEF todoBar, TodoSet
    <3>7. CASE v \in todoBar \union doneBar \union droppedBar
      <4>1. todoBar' = todoBar
        BY <2>2, <3>3, <3>6, <3>7
      <4> QED
        BY <2>2, <4>1 DEF C!vars
    <3>8. CASE v \notin todoBar \union doneBar \union droppedBar
      <4>1. todoBar' = todoBar \union {v}
        BY <2>2, <3>3, <3>6, <3>8
      <4>2. C!Discover(v)
        BY <2>2, <3>2, <3>8, <4>1 DEF C!Discover, C!Known
      <4> QED
        BY <3>2, <4>2 DEF C!Next
    <3> QED
      BY <3>7, <3>8
  <2> QED
    BY <1>11, <2>3, <2>4 DEF NextLink
<1>12. CASE EndPage
  BY <1>12, CommonStutters DEF EndPage, TodoSet
<1>13. CASE ClosePass
  <2>1. TodoSet' = TodoSet
    BY <1>0, <1>13, TodoClose DEF ClosePass, TodoSet
  <2> QED
    BY <1>13, <2>1, CommonStutters DEF ClosePass
<1>14. CASE OpenReport
  BY <1>14, CommonStutters DEF OpenReport, TodoSet
<1>15. CASE ReportFail
  BY <1>15, CommonStutters DEF ReportFail, TodoSet
<1>16. CASE ReportPage
  BY <1>16, CommonStutters DEF ReportPage, TodoSet
<1>17. CASE EndReport
  BY <1>17, CommonStutters DEF EndReport, TodoSet
<1>18. CASE UNCHANGED vars
  BY <1>18, CommonStutters DEF vars, TodoSet
<1> QED
  BY <1>1, <1>2, <1>3, <1>4, <1>5, <1>6, <1>7, <1>8, <1>9, <1>10, <1>11, <1>12, <1>13, <1>14, <1>15, <1>16, <1>17, <1>18 DEF Next, Step, Finished

(* The loop over two lists is a crawl as module Crawl tells it, and so keeps *)
(* the promise that the worker processes keep.                               *)
THEOREM CommonRefinement == Spec => ImplementsCrawl
<1>1. Inv /\ DepthInv /\ FoundInv /\ [Next]_vars => DepthInv' /\ FoundInv' /\ [C!Next]_(C!vars)
  BY DepthNext, FoundNext, CommonCrawlNext
<1> QED
  BY InvAlways, DepthInit, FoundInit, CommonCrawlInit, <1>1, PTL DEF Spec, ImplementsCrawl, C!Spec
=============================================================================
