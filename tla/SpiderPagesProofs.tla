-------------------------- MODULE SpiderPagesProofs --------------------------
(***************************************************************************)
(* What the workers fetch: each page once, none below the depth bound, a   *)
(* task row for each page that should have one, and in the end the whole   *)
(* site.                                                                   *)
(***************************************************************************)
EXTENDS SpiderCrawlProofs, Recursion

LEMMA LinksAreUrls == \A u \in Urls : LinksOf(u) \subseteq Urls
<1> SUFFICES ASSUME NEW u \in Urls, NEW i \in DOMAIN Hrefs[u]
             PROVE  Hrefs[u][i].href \in Urls
  BY DEF LinksOf
<1>1. Hrefs[u] \in Seq(Links)
  BY WorkersAssumption
<1>2. Hrefs[u][i] \in Links
  BY <1>1
<1> QED
  BY <1>2 DEF Links

(* The recursion of Pages has a solution, and so Pages is one. *)
LEMMA PagesExist ==
  \E g : g = [n \in Nat |-> IF n = 0 THEN {}
                            ELSE IF n = 1 THEN {Seed}
                            ELSE UNION {LinksOf(u) : u \in g[n - 1]}]
<1> DEFINE V == SUBSET Urls
           step == [x \in Nat \X V |-> UNION {LinksOf(u) : u \in x[2]}]
<1>1. {Seed} \in V
  BY WorkersAssumption
<1>2. step \in [Nat \X V -> V]
  BY LinksAreUrls
<1> HIDE DEF step, V
<1>3. PICK h : FollowsAll(h, {Seed}, step, V)
  BY <1>1, <1>2, PrimitiveRecursion
<1> DEFINE g == [n \in Nat |-> IF n = 0 THEN {} ELSE h[n - 1]]
<1>4. ASSUME NEW n \in Nat, n # 0, n # 1
      PROVE  g[n] = UNION {LinksOf(u) : u \in g[n - 1]}
  <2>1. n - 2 \in Nat /\ n - 1 \in Nat /\ n - 1 # 0 /\ (n - 2) + 1 = n - 1 /\ (n - 1) - 1 = n - 2
    BY <1>4
  <2>2. g[n] = h[n - 1] /\ g[n - 1] = h[n - 2] /\ h[n - 2] \in V
    BY <1>3, <1>4, <2>1 DEF FollowsAll
  <2>3. h[n - 1] = step[<<n - 2, h[n - 2]>>]
    BY <1>3, <2>1 DEF FollowsAll
  <2> QED
    BY <2>1, <2>2, <2>3 DEF step
<1>5. g[0] = {} /\ g[1] = {Seed}
  BY <1>3 DEF FollowsAll
<1> QED
  <2>1. \A n \in Nat : g[n] = IF n = 0 THEN {}
                              ELSE IF n = 1 THEN {Seed}
                              ELSE UNION {LinksOf(u) : u \in g[n - 1]}
    BY <1>4, <1>5
  <2>2. g = [n \in Nat |-> IF n = 0 THEN {}
                           ELSE IF n = 1 THEN {Seed}
                           ELSE UNION {LinksOf(u) : u \in g[n - 1]}]
    <3>1. g = [n \in Nat |-> g[n]]
      OBVIOUS
    <3> HIDE DEF g
    <3> QED
      BY <2>1, <3>1
  <2> QED
    BY <2>2

LEMMA PagesUnfold ==
  Pages = [n \in Nat |-> IF n = 0 THEN {}
                         ELSE IF n = 1 THEN {Seed}
                         ELSE UNION {LinksOf(u) : u \in Pages[n - 1]}]
<1> DEFINE F(g) == [n \in Nat |-> IF n = 0 THEN {}
                                  ELSE IF n = 1 THEN {Seed}
                                  ELSE UNION {LinksOf(u) : u \in g[n - 1]}]
<1>1. Pages = CHOOSE g : g = F(g)
  BY DEF Pages
<1>2. \E g : g = F(g)
  BY PagesExist
<1> HIDE DEF F
<1>3. Pages = F(Pages)
  BY <1>1, <1>2, Zenon
<1> QED
  BY <1>3 DEF F

(* One link leads one page further. *)
LEMMA PagesNext ==
  /\ Pages[1] = {Seed}
  /\ \A n \in Nat \ {0} : Pages[n + 1] = UNION {LinksOf(u) : u \in Pages[n]}
<1>1. Pages[1] = {Seed}
  BY PagesUnfold
<1>2. ASSUME NEW n \in Nat \ {0} PROVE Pages[n + 1] = UNION {LinksOf(u) : u \in Pages[n]}
  <2>1. n + 1 \in Nat /\ n + 1 # 0 /\ n + 1 # 1 /\ (n + 1) - 1 = n
    OBVIOUS
  <2>2. Pages[n + 1] = UNION {LinksOf(u) : u \in Pages[(n + 1) - 1]}
    BY <2>1, PagesUnfold
  <2> QED
    BY <2>1, <2>2
<1> QED
  BY <1>1, <1>2

(* What sending and receiving do to the places of the messages. *)
LEMMA SendPlaces ==
  ASSUME IpcTypeOK, NEW m, SendUnixMsgQ(m)
  PROVE  /\ Len(queue) \in Nat /\ Len(queue') = Len(queue) + 1
         /\ \A i \in 1 .. Len(queue) : queue'[i] = queue[i]
         /\ queue'[Len(queue) + 1] = m
<1>1. queue \in Seq(Msgs \union {m}) /\ queue' = Append(queue, m) /\ m \in Msgs \union {m}
  BY DEF IpcTypeOK, SendUnixMsgQ
<1> QED
  BY <1>1, AppendProperties, LenProperties

LEMMA RecvPlaces ==
  ASSUME IpcTypeOK, RecvUnixMsgQ
  PROVE  /\ Len(queue) \in Nat /\ Len(queue) >= 1 /\ Len(queue') = Len(queue) - 1
         /\ \A i \in 1 .. Len(queue') : i + 1 \in 1 .. Len(queue) /\ queue'[i] = queue[i + 1]
         /\ 1 \in 1 .. Len(queue) /\ Head(queue) = queue[1]
<1>1. queue \in Seq(Msgs) /\ queue # <<>> /\ queue' = Tail(queue)
  BY DEF IpcTypeOK, RecvUnixMsgQ
<1> QED
  BY <1>1

-----------------------------------------------------------------------------
(* A message whose depth is the length of a walk to its URL, at most one    *)
(* link below the bound.                                                    *)
OnWalk(m) ==
  /\ m.depth >= 1
  /\ m.url \in Pages[m.depth]
  /\ "icontrol" \in Options => m.depth <= TravelDepth + 1

FetchedInRange ==
  "icontrol" \in Options =>
    \A u \in Urls : /\ fetched[u] > 0 => u \in InRange
                    /\ "deep" \in fate[u] => u \in Pages[TravelDepth + 1]

(* What is served lies on a walk and not too deep, and the link in hand     *)
(* leads on from there.                                                     *)
DepthInv ==
  /\ \A i \in 1 .. Len(queue) : OnWalk(queue[i])
  /\ \A w \in Workers :
       /\ pc[w] \in Busy => OnWalk(cur[w]) /\ ~ TooDeep(cur[w])
       /\ pc[w] \in Linking /\ href[w] # EMPTY => href[w] \in LinksOf(cur[w].url)
  /\ FetchedInRange

LEMMA DepthInit == Init => DepthInv
<1> SUFFICES ASSUME Init PROVE DepthInv
  OBVIOUS
<1> USE WorkersAssumption DEF Init, IpcInit
<1>1. OnWalk(Msg(Seed, 1, 0))
  BY PagesNext DEF OnWalk, Msg
<1>2. \A i \in 1 .. Len(queue) : OnWalk(queue[i])
  BY <1>1
<1>3. FetchedInRange
  BY DEF FetchedInRange
<1> QED
  BY <1>2, <1>3 DEF DepthInv, Busy, Ended, Linking

(* A step that fetches nothing and puts nothing aside as too deep.          *)
LEMMA RangeKept ==
  ASSUME FetchedInRange, UNCHANGED fetched,
         \A u \in Urls : "deep" \in fate'[u] => "deep" \in fate[u]
  PROVE  FetchedInRange'
BY DEF FetchedInRange

LEMMA DepthNext == Inv /\ LinksInHand /\ DepthInv /\ [Next]_vars => DepthInv'
<1> SUFFICES ASSUME Inv, LinksInHand, DepthInv, [Next]_vars PROVE DepthInv'
  OBVIOUS
<1> USE DEF Goto, End, ipcVars
<1>0. /\ DepthInv /\ LinksInHand /\ FetchedInRange
      /\ TypeOK /\ IpcTypeOK /\ HandsFull
      /\ pc \in [Workers -> PC]
      /\ cur \in [Workers -> Msgs \union {Idle}]
      /\ href \in [Workers -> Urls \union {EMPTY}]
      /\ fate \in [Urls -> SUBSET Fates]
  BY DEF Inv, TypeOK, DepthInv
<1>1. ASSUME NEW w \in Workers, RecvMsg(w) PROVE DepthInv'
  <2> DEFINE m == Head(queue)
  <2>1. m \in Msgs /\ OnWalk(m)
    BY <1>0, <1>1, RecvType, RecvPlaces DEF RecvMsg, DepthInv
  <2>2. \A i \in 1 .. Len(queue') : OnWalk(queue'[i])
    BY <1>0, <1>1, RecvPlaces DEF RecvMsg, DepthInv
  <2>3. CASE m.analyse_cnt >= MaxAnalyse \/ TooDeep(m)
    <3>1. UNCHANGED <<pc, cur, href, fetched>>
      BY <1>1, <2>3 DEF RecvMsg
    <3>2. ASSUME TooDeep(m), m.url \in Urls PROVE m.url \in Pages[TravelDepth + 1]
      <4>1. m.depth = TravelDepth + 1
        BY <2>1, <3>2, WorkersAssumption DEF OnWalk, TooDeep, Msgs
      <4> QED
        BY <2>1, <4>1 DEF OnWalk
    <3>3. \A u \in Urls : "deep" \in fate'[u] =>
            "deep" \in fate[u] \/ (u = m.url /\ TooDeep(m))
      BY <1>0, <1>1, <2>3 DEF RecvMsg, PutAside
    <3>4. FetchedInRange'
      BY <1>0, <3>1, <3>2, <3>3 DEF FetchedInRange
    <3> QED
      BY <1>0, <2>2, <3>1, <3>4 DEF DepthInv
  <2>4. CASE ~ (m.analyse_cnt >= MaxAnalyse \/ TooDeep(m))
    <3>1. cur' = [cur EXCEPT ![w] = m] /\ pc' = [pc EXCEPT ![w] = "fetch"] /\ UNCHANGED <<href, fetched, fate>>
      BY <1>1, <2>4 DEF RecvMsg
    <3>2. FetchedInRange'
      BY <1>0, <3>1, RangeKept
    <3> HIDE DEF m
    <3> QED
      BY <1>0, <2>1, <2>2, <2>4, <3>1, <3>2 DEF DepthInv, Busy, PC, Ended, Linking
  <2> QED
    BY <2>3, <2>4
<1>2. ASSUME NEW w \in Workers, RecvTimeout(w) PROVE DepthInv'
  <2>1. FetchedInRange'
    BY <1>0, <1>2, RangeKept DEF RecvTimeout, PutAside
  <2> QED
    BY <1>0, <1>2, <2>1 DEF RecvTimeout, DepthInv, Busy, PC, Ended, Linking, RecvTimedOut
<1>3. ASSUME NEW w \in Workers, FetchOk(w) PROVE DepthInv'
  <2> DEFINE u == cur[w].url
  <2>1. OnWalk(cur[w]) /\ ~ TooDeep(cur[w]) /\ cur[w] \in Msgs
    BY <1>0, <1>3 DEF FetchOk, DepthInv, HandsFull, Busy, PC, Ended
  <2>2. "icontrol" \in Options => u \in InRange
    <3>1. "icontrol" \in Options => cur[w].depth \in 1 .. TravelDepth
      BY <2>1, WorkersAssumption DEF OnWalk, TooDeep, Msgs
    <3> QED
      BY <2>1, <3>1 DEF OnWalk, InRange
  <2>3. \A v \in Urls : fetched'[v] > 0 => fetched[v] > 0 \/ v = u
    BY <1>0, <1>3 DEF FetchOk, TypeOK
  <2>4. FetchedInRange'
    BY <1>0, <1>3, <2>2, <2>3 DEF FetchOk, FetchedInRange
  <2> QED
    BY <1>0, <1>3, <2>4 DEF FetchOk, DepthInv, Busy, PC, Ended, Linking
<1>4. ASSUME NEW w \in Workers, FetchFail(w) PROVE DepthInv'
  <2>1. OnWalk(cur[w]) /\ ~ TooDeep(cur[w]) /\ cur[w] \in Msgs
    BY <1>0, <1>4 DEF FetchFail, DepthInv, HandsFull, Busy, PC, Ended
  <2>2. cur'[w].url = cur[w].url /\ cur'[w].depth = cur[w].depth
    BY <1>0, <1>4, <2>1 DEF FetchFail, Msgs
  <2>3. OnWalk(cur'[w]) /\ ~ TooDeep(cur'[w])
    BY <2>1, <2>2 DEF OnWalk, TooDeep
  <2>4. FetchedInRange'
    BY <1>0, <1>4, RangeKept DEF FetchFail
  <2> QED
    BY <1>0, <1>4, <2>3, <2>4 DEF FetchFail, DepthInv, Busy, PC, Ended, Linking
<1>5. ASSUME NEW w \in Workers, Resend(w) PROVE DepthInv'
  <2>1. OnWalk(cur[w])
    BY <1>0, <1>5 DEF Resend, DepthInv, Busy, PC, Ended
  <2>2. \A i \in 1 .. Len(queue') : OnWalk(queue'[i])
    BY <1>0, <1>5, <2>1, SendPlaces DEF Resend, DepthInv
  <2>3. FetchedInRange'
    BY <1>0, <1>5, RangeKept DEF Resend
  <2> QED
    BY <1>0, <1>5, <2>2, <2>3 DEF Resend, DepthInv, Busy, PC, Ended, Linking
<1>6. ASSUME NEW w \in Workers, ResendFail(w) PROVE DepthInv'
  <2>1. FetchedInRange'
    BY <1>0, <1>6, RangeKept DEF ResendFail, PutAside
  <2> QED
    BY <1>0, <1>6, <2>1 DEF ResendFail, DepthInv, Busy, PC, Ended, Linking, RecvTimedOut
<1>7. ASSUME NEW w \in Workers, ListPage(w) PROVE DepthInv'
  <2>1. FetchedInRange'
    BY <1>0, <1>7, RangeKept DEF ListPage, PutAside
  <2> QED
    BY <1>0, <1>7, <2>1 DEF ListPage, DepthInv, Busy, PC, Ended, Linking, RecvTimedOut
<1>8. ASSUME NEW w \in Workers, OpenFail(w) PROVE DepthInv'
  <2>1. FetchedInRange'
    BY <1>0, <1>8, RangeKept DEF OpenFail, PutAside
  <2> QED
    BY <1>0, <1>8, <2>1 DEF OpenFail, DepthInv, Busy, PC, Ended, Linking, RecvTimedOut
<1>9. ASSUME NEW w \in Workers, SaveFile(w) PROVE DepthInv'
  <2>1. FetchedInRange'
    BY <1>0, <1>9, RangeKept DEF SaveFile, PutAside
  <2> QED
    BY <1>0, <1>9, <2>1 DEF SaveFile, DepthInv, Busy, PC, Ended, Linking, RecvTimedOut
<1>10. ASSUME NEW w \in Workers, InsertTask(w) PROVE DepthInv'
  <2>1. FetchedInRange'
    BY <1>0, <1>10, RangeKept DEF InsertTask, PutAside
  <2> QED
    BY <1>0, <1>10, <2>1 DEF InsertTask, DepthInv, Busy, PC, Ended, Linking, RecvTimedOut
<1>11. ASSUME NEW w \in Workers, NextLink(w) PROVE DepthInv'
  <2>1. FetchedInRange'
    BY <1>0, <1>11, RangeKept DEF NextLink, PutAside
  <2> QED
    BY <1>0, <1>11, <2>1 DEF NextLink, DepthInv, Busy, PC, Ended, Linking, RecvTimedOut
<1>12. ASSUME NEW w \in Workers, EndPage(w) PROVE DepthInv'
  <2>1. FetchedInRange'
    BY <1>0, <1>12, RangeKept DEF EndPage, PutAside
  <2> QED
    BY <1>0, <1>12, <2>1 DEF EndPage, DepthInv, Busy, PC, Ended, Linking, RecvTimedOut
<1>13. ASSUME NEW w \in Workers, Lock(w) PROVE DepthInv'
  <2>1. FetchedInRange'
    BY <1>0, <1>13, RangeKept DEF Lock, PutAside
  <2> QED
    BY <1>0, <1>13, <2>1 DEF Lock, DepthInv, Busy, PC, Ended, Linking, RecvTimedOut
<1>14. ASSUME NEW w \in Workers, LockFail(w) PROVE DepthInv'
  <2>1. FetchedInRange'
    BY <1>0, <1>14, RangeKept DEF LockFail, PutAside
  <2> QED
    BY <1>0, <1>14, <2>1 DEF LockFail, DepthInv, Busy, PC, Ended, Linking, RecvTimedOut
<1>15. ASSUME NEW w \in Workers, CheckDone(w) PROVE DepthInv'
  <2>1. FetchedInRange'
    BY <1>0, <1>15, RangeKept DEF CheckDone, PutAside
  <2> QED
    BY <1>0, <1>15, <2>1 DEF CheckDone, DepthInv, Busy, PC, Ended, Linking, RecvTimedOut
<1>16. ASSUME NEW w \in Workers, WriteDone(w) PROVE DepthInv'
  <2>1. href[w] \in LinksOf(cur[w].url)
    BY <1>0, <1>16 DEF WriteDone, LinksInHand
  <2>2. FetchedInRange'
    BY <1>0, <1>16, RangeKept DEF WriteDone
  <2> QED
    BY <1>0, <1>16, <2>1, <2>2 DEF WriteDone, DepthInv, Busy, PC, Ended, Linking
<1>17. ASSUME NEW w \in Workers, Unlock(w) PROVE DepthInv'
  <2>1. FetchedInRange'
    BY <1>0, <1>17, RangeKept DEF Unlock, PutAside
  <2> QED
    BY <1>0, <1>17, <2>1 DEF Unlock, DepthInv, Busy, PC, Ended, Linking, RecvTimedOut
<1>18. ASSUME NEW w \in Workers, SendLink(w) PROVE DepthInv'
  <2> DEFINE m == Msg(href[w], cur[w].depth + 1, 0)
  <2>1. /\ OnWalk(cur[w]) /\ ~ TooDeep(cur[w]) /\ cur[w] \in Msgs /\ href[w] \in Urls
        /\ href[w] \in LinksOf(cur[w].url)
    BY <1>0, <1>18, IpcAssumption DEF SendLink, DepthInv, HandsFull, Busy, PC, Ended, Linking
  <2>2. href[w] \in Pages[cur[w].depth + 1]
    BY <2>1, PagesNext DEF OnWalk, Msgs
  <2>3. OnWalk(m)
    BY <2>1, <2>2, WorkersAssumption DEF OnWalk, TooDeep, Msg, Msgs
  <2> HIDE DEF m
  <2>4. \A i \in 1 .. Len(queue') : OnWalk(queue'[i])
    BY <1>0, <1>18, <2>3, SendPlaces DEF SendLink, DepthInv, m
  <2>5. FetchedInRange'
    BY <1>0, <1>18, RangeKept DEF SendLink
  <2> QED
    BY <1>0, <1>18, <2>4, <2>5 DEF SendLink, DepthInv, Busy, PC, Ended, Linking
<1>19. ASSUME NEW w \in Workers, SendLinkFail(w) PROVE DepthInv'
  <2>1. FetchedInRange'
    BY <1>0, <1>19, RangeKept DEF SendLinkFail, PutAside
  <2> QED
    BY <1>0, <1>19, <2>1 DEF SendLinkFail, DepthInv, Busy, PC, Ended, Linking, RecvTimedOut
<1>20. ASSUME NEW w \in Workers, Crash(w) PROVE DepthInv'
  <2>1. FetchedInRange'
    BY <1>0, <1>20, RangeKept DEF Crash, PutAside
  <2> QED
    BY <1>0, <1>20, <2>1 DEF Crash, DepthInv, Busy, PC, Ended, Linking, RecvTimedOut
<1>21. CASE UNCHANGED vars
  BY <1>0, <1>21 DEF vars, workerVars, DepthInv, FetchedInRange, Busy, PC, Ended, Linking
<1> QED
  BY <1>1, <1>2, <1>3, <1>4, <1>5, <1>6, <1>7, <1>8, <1>9, <1>10, <1>11, <1>12, <1>13, <1>14, <1>15, <1>16, <1>17, <1>18, <1>19, <1>20, <1>21 DEF Next, Step, Finished

(* The depth in a message is the length of a walk of accepted links from    *)
(* the seed, in the queue and through every retry, and with icontrol no     *)
(* page below travel_depth is fetched.                                      *)
THEOREM DepthBound == Spec => []WithinDepth
<1>1. Init => Inv /\ LinksInHand /\ DepthInv
  BY InvInit, LinksInit, DepthInit
<1>2. Inv /\ LinksInHand /\ DepthInv /\ [Next]_vars => (LinksInHand /\ DepthInv)'
  BY LinksNext, DepthNext
<1>3. DepthInv => WithinDepth
  BY DEF DepthInv, FetchedInRange, WithinDepth, OnWalk
<1> QED
  BY <1>1, <1>2, <1>3, InvAlways, PTL DEF Spec

-----------------------------------------------------------------------------
(* Every message stands for one claim: the one main.c made when it sent a   *)
(* URL itself, at depth 1 and without recording it, or the one a slot of    *)
(* the table holds.  S is the set of the URLs that main.c sent.             *)
Key(m) == <<m.url, IF m.depth = 1 THEN "sent" ELSE "found">>

(* The claims that a worker alone answers for. *)
HandKey(w) ==
  IF pc[w] \in Holding THEN {Key(cur[w])}
  ELSE IF pc[w] \in Linking /\ href[w] # EMPTY THEN {<<href[w], "found">>}
  ELSE {}

Keys == {Key(queue[i]) : i \in 1 .. Len(queue)} \union UNION {HandKey(w) : w \in Workers}

(* No claim has two messages, in the queue or in hand. *)
OneHolder ==
  /\ \A i, j \in 1 .. Len(queue) : Key(queue[i]) = Key(queue[j]) => i = j
  /\ \A v, w \in Workers : \A k \in HandKey(v) : k \in HandKey(w) => v = w
  /\ \A i \in 1 .. Len(queue), w \in Workers : Key(queue[i]) \notin HandKey(w)

(* The claims of u that have been used up. *)
Budget(u, S) == (IF u \in S /\ <<u, "sent">> \notin Keys THEN 1 ELSE 0)
           + (IF u \in Recorded /\ <<u, "found">> \notin Keys THEN 1 ELSE 0)

Claimed(S) ==
  /\ OneHolder
  /\ \A u \in Urls : <<u, "found">> \in Keys => u \in Recorded
  /\ \A u \in Urls : <<u, "sent">> \in Keys => u \in S
  /\ \A u \in Urls : fetched[u] <= Budget(u, S)

OnceInv(S) == HasRoom => Claimed(S)

(* The depth of what is queued or served counts from 1. *)
DepthsFromOne ==
  /\ \A i \in 1 .. Len(queue) : queue[i].depth >= 1
  /\ \A w \in Workers : pc[w] \in Busy => cur[w].depth >= 1

LEMMA DepthsOf == DepthInv => DepthsFromOne
BY DEF DepthInv, OnWalk, DepthsFromOne

LEMMA OnceInit == Init => OnceInv({Seed})
<1> SUFFICES ASSUME Init PROVE Claimed({Seed})
  BY DEF OnceInv
<1> USE WorkersAssumption DEF Init, IpcInit
<1>1. \A w \in Workers : HandKey(w) = {}
  BY DEF HandKey, Holding, Linking
<1>2. Len(queue) = 1 /\ queue[1] = Msg(Seed, 1, 0) /\ Key(queue[1]) = <<Seed, "sent">>
  BY DEF Msg, Key
<1>3. Keys = {<<Seed, "sent">>}
  <2>1. UNION {HandKey(w) : w \in Workers} = {}
    BY <1>1
  <2>2. 1 \in 1 .. Len(queue) /\ \A i \in 1 .. Len(queue) : Key(queue[i]) = <<Seed, "sent">>
    BY <1>2
  <2> HIDE DEF Init, IpcInit
  <2>3. {Key(queue[i]) : i \in 1 .. Len(queue)} = {<<Seed, "sent">>}
    BY <2>2
  <2> QED
    BY <2>1, <2>3 DEF Keys
<1>4. OneHolder
  BY <1>1, <1>2 DEF OneHolder
<1>5. \A u \in Urls : fetched[u] <= Budget(u, {Seed})
  BY DEF Budget
<1> QED
  BY <1>3, <1>4, <1>5 DEF Claimed

(* A step after which no claim has a message it had not before. *)
LEMMA ClaimedKept ==
  ASSUME NEW S, TypeOK, Claimed(S), OneHolder', Keys' \subseteq Keys, UNCHANGED <<donelist, fetched>>
  PROVE  Claimed(S)'
<1>1. Recorded' = Recorded
  BY DEF Recorded
<1>2. \A u \in Urls : Budget(u, S) <= Budget(u, S)'
  BY <1>1 DEF Budget
<1>3. \A u \in Urls : fetched[u] \in Nat /\ Budget(u, S) \in Nat /\ Budget(u, S)' \in Nat
  BY WorkersAssumption DEF TypeOK, Budget
<1>4. \A u \in Urls : fetched'[u] <= Budget(u, S)'
  BY <1>2, <1>3 DEF Claimed
<1> QED
  BY <1>1, <1>4 DEF Claimed

LEMMA HandsKept ==
  ASSUME NEW S, TypeOK, OnceInv(S), UNCHANGED <<queue, donelist, fetched>>,
         \A w \in Workers : HandKey(w)' \subseteq HandKey(w)
  PROVE  OnceInv(S)'
<1>1. HasRoom' => HasRoom
  BY DEF HasRoom
<1>2. Keys' \subseteq Keys
  BY DEF Keys
<1>3. ASSUME Claimed(S) PROVE OneHolder'
  BY <1>3 DEF Claimed, OneHolder
<1> QED
  BY <1>1, <1>2, <1>3, ClaimedKept DEF OnceInv

LEMMA OnceNext ==
  ASSUME NEW S, Inv, Checked, DepthsFromOne, OnceInv(S), [Next]_vars
  PROVE  OnceInv(S)'
<1> USE DEF Goto, End, ipcVars
<1>0. /\ OnceInv(S) /\ TypeOK /\ IpcTypeOK /\ HandsFull
      /\ pc \in [Workers -> PC]
      /\ cur \in [Workers -> Msgs \union {Idle}]
      /\ href \in [Workers -> Urls \union {EMPTY}]
  BY DEF Inv, TypeOK
<1>1. ASSUME NEW w \in Workers, RecvMsg(w) PROVE OnceInv(S)'
  <2> SUFFICES ASSUME HasRoom' PROVE Claimed(S)'
    BY DEF OnceInv
  <2> DEFINE m == Head(queue)
  <2>1. Claimed(S) /\ UNCHANGED <<donelist, fetched>>
    BY <1>0, <1>1 DEF RecvMsg, OnceInv, HasRoom
  <2>2. /\ 1 \in 1 .. Len(queue) /\ m = queue[1]
        /\ \A i \in 1 .. Len(queue') : i + 1 \in 1 .. Len(queue) /\ i + 1 # 1 /\ queue'[i] = queue[i + 1]
    BY <1>0, <1>1, RecvPlaces DEF RecvMsg
  <2>3. /\ HandKey(w) = {} /\ HandKey(w)' \subseteq {Key(m)}
        /\ \A v \in Workers \ {w} : HandKey(v)' = HandKey(v)
    BY <1>0, <1>1 DEF RecvMsg, HandKey, Holding, Linking
  <2> HIDE DEF m
  <2>4. OneHolder'
    <3>1. \A i, j \in 1 .. Len(queue') : Key(queue'[i]) = Key(queue'[j]) => i = j
      BY <2>1, <2>2 DEF Claimed, OneHolder
    <3>2. \A i \in 1 .. Len(queue) : Key(queue[i]) = Key(m) => i = 1
      BY <2>1, <2>2 DEF Claimed, OneHolder
    <3>3. \A v \in Workers : Key(m) \notin HandKey(v)
      BY <2>1, <2>2 DEF Claimed, OneHolder
    <3>4. \A u, v \in Workers : \A k \in HandKey(u)' : k \in HandKey(v)' => u = v
      BY <2>1, <2>3, <3>3 DEF Claimed, OneHolder
    <3>5. \A i \in 1 .. Len(queue'), v \in Workers : Key(queue'[i]) \notin HandKey(v)'
      BY <2>1, <2>2, <2>3, <3>2 DEF Claimed, OneHolder
    <3> QED
      BY <3>1, <3>4, <3>5 DEF OneHolder
  <2>5. Keys' \subseteq Keys
    BY <2>2, <2>3 DEF Keys
  <2> QED
    BY <1>0, <2>1, <2>4, <2>5, ClaimedKept
<1>2. ASSUME NEW w \in Workers, RecvTimeout(w) PROVE OnceInv(S)'
  <2>1. \A v \in Workers : HandKey(v)' \subseteq HandKey(v)
    BY <1>0, <1>2 DEF RecvTimeout, HandKey, Holding, Linking, Ended
  <2>2. UNCHANGED <<queue, donelist, fetched>>
    BY <1>2 DEF RecvTimeout, RecvTimedOut
  <2> QED
    BY <1>0, <2>1, <2>2, HandsKept
<1>3. ASSUME NEW w \in Workers, FetchOk(w) PROVE OnceInv(S)'
  <2> SUFFICES ASSUME HasRoom' PROVE Claimed(S)'
    BY DEF OnceInv
  <2>1. Claimed(S) /\ UNCHANGED <<queue, donelist>>
    BY <1>0, <1>3 DEF FetchOk, OnceInv, HasRoom
  <2>2. PICK u, k : u \in Urls /\ u = cur[w].url /\ k = Key(cur[w])
    BY <1>0, <1>3 DEF FetchOk, HandsFull, Busy, PC, Ended, Msgs
  <2>3. HandKey(w) = {k} /\ HandKey(w)' = {} /\ \A v \in Workers \ {w} : HandKey(v)' = HandKey(v)
    BY <1>0, <1>3, <2>2 DEF FetchOk, HandKey, Holding, Linking
  <2>4. OneHolder'
    BY <2>1, <2>3 DEF Claimed, OneHolder
  <2>5. Keys' = Keys \ {k} /\ k \in Keys
    BY <2>1, <2>3 DEF Claimed, OneHolder, Keys
  <2>6. Recorded' = Recorded
    BY <2>1 DEF Recorded
  <2>7. k = <<u, "sent">> \/ k = <<u, "found">>
    BY <2>2 DEF Key
  <2>8. /\ \A v \in Urls \ {u} : Budget(v, S)' = Budget(v, S)
        /\ Budget(u, S)' = Budget(u, S) + 1
    BY <2>1, <2>2, <2>5, <2>6, <2>7 DEF Budget, Claimed
  <2>9. \A v \in Urls : fetched[v] \in Nat /\ Budget(v, S) \in Nat
    BY <1>0, WorkersAssumption DEF TypeOK, Budget
  <2>10. \A v \in Urls : fetched'[v] = IF v = u /\ fetched[v] < FetchCap THEN fetched[v] + 1 ELSE fetched[v]
    BY <1>0, <1>3, <2>2 DEF FetchOk, TypeOK
  <2>11. \A v \in Urls : fetched'[v] <= Budget(v, S)'
    BY <2>1, <2>8, <2>9, <2>10 DEF Claimed
  <2> QED
    BY <2>1, <2>4, <2>5, <2>6, <2>11 DEF Claimed
<1>4. ASSUME NEW w \in Workers, FetchFail(w) PROVE OnceInv(S)'
  <2>1. cur[w] \in Msgs
    BY <1>0, <1>4 DEF FetchFail, HandsFull, Busy, PC, Ended
  <2>2. Key(cur'[w]) = Key(cur[w])
    BY <1>0, <1>4, <2>1 DEF FetchFail, Key, Msgs
  <2>3. \A v \in Workers : HandKey(v)' \subseteq HandKey(v)
    BY <1>0, <1>4, <2>2 DEF FetchFail, HandKey, Holding, Linking
  <2>4. UNCHANGED <<queue, donelist, fetched>>
    BY <1>4 DEF FetchFail
  <2> QED
    BY <1>0, <2>3, <2>4, HandsKept
<1>5. ASSUME NEW w \in Workers, Resend(w) PROVE OnceInv(S)'
  <2> SUFFICES ASSUME HasRoom' PROVE Claimed(S)'
    BY DEF OnceInv
  <2>1. Claimed(S) /\ UNCHANGED <<donelist, fetched>>
    BY <1>0, <1>5 DEF Resend, OnceInv, HasRoom
  <2>2. PICK k : /\ k = Key(cur[w])
                 /\ HandKey(w) = {k} /\ HandKey(w)' = {}
                 /\ \A v \in Workers \ {w} : HandKey(v)' = HandKey(v)
    BY <1>0, <1>5 DEF Resend, HandKey, Holding, Linking
  <2>3. /\ Len(queue) \in Nat /\ Len(queue') = Len(queue) + 1
        /\ \A i \in 1 .. Len(queue) : queue'[i] = queue[i]
        /\ Key(queue'[Len(queue) + 1]) = k
    BY <1>0, <1>5, <2>2, SendPlaces DEF Resend
  <2>4. OneHolder'
    <3>1. \A i \in 1 .. Len(queue') : i \in 1 .. Len(queue) \/ (i = Len(queue) + 1 /\ Key(queue'[i]) = k)
      BY <2>3
    <3>2. \A i \in 1 .. Len(queue) : Key(queue[i]) # k
      BY <2>1, <2>2 DEF Claimed, OneHolder
    <3>3. \A i, j \in 1 .. Len(queue') : Key(queue'[i]) = Key(queue'[j]) => i = j
      BY <2>1, <2>3, <3>1, <3>2 DEF Claimed, OneHolder
    <3>4. \A v \in Workers : k \notin HandKey(v)' /\ HandKey(v)' \subseteq HandKey(v)
      BY <2>1, <2>2 DEF Claimed, OneHolder
    <3>5. \A u, v \in Workers : \A j \in HandKey(u)' : j \in HandKey(v)' => u = v
      BY <2>1, <3>4 DEF Claimed, OneHolder
    <3>6. \A i \in 1 .. Len(queue'), v \in Workers : Key(queue'[i]) \notin HandKey(v)'
      BY <2>1, <2>3, <3>1, <3>4 DEF Claimed, OneHolder
    <3> QED
      BY <3>3, <3>5, <3>6 DEF OneHolder
  <2>5. Keys' \subseteq Keys
    <3>1. \A i \in 1 .. Len(queue') : i \in 1 .. Len(queue) \/ Key(queue'[i]) = k
      BY <2>3
    <3> QED
      BY <2>2, <2>3, <3>1 DEF Keys
  <2> QED
    BY <1>0, <2>1, <2>4, <2>5, ClaimedKept
<1>6. ASSUME NEW w \in Workers, ResendFail(w) PROVE OnceInv(S)'
  <2>1. \A v \in Workers : HandKey(v)' \subseteq HandKey(v)
    BY <1>0, <1>6 DEF ResendFail, HandKey, Holding, Linking, Ended
  <2>2. UNCHANGED <<queue, donelist, fetched>>
    BY <1>6 DEF ResendFail, RecvTimedOut
  <2> QED
    BY <1>0, <2>1, <2>2, HandsKept
<1>7. ASSUME NEW w \in Workers, ListPage(w) PROVE OnceInv(S)'
  <2>1. \A v \in Workers : HandKey(v)' \subseteq HandKey(v)
    BY <1>0, <1>7 DEF ListPage, HandKey, Holding, Linking, Ended
  <2>2. UNCHANGED <<queue, donelist, fetched>>
    BY <1>7 DEF ListPage, RecvTimedOut
  <2> QED
    BY <1>0, <2>1, <2>2, HandsKept
<1>8. ASSUME NEW w \in Workers, OpenFail(w) PROVE OnceInv(S)'
  <2>1. \A v \in Workers : HandKey(v)' \subseteq HandKey(v)
    BY <1>0, <1>8 DEF OpenFail, HandKey, Holding, Linking, Ended
  <2>2. UNCHANGED <<queue, donelist, fetched>>
    BY <1>8 DEF OpenFail, RecvTimedOut
  <2> QED
    BY <1>0, <2>1, <2>2, HandsKept
<1>9. ASSUME NEW w \in Workers, SaveFile(w) PROVE OnceInv(S)'
  <2>1. \A v \in Workers : HandKey(v)' \subseteq HandKey(v)
    BY <1>0, <1>9 DEF SaveFile, HandKey, Holding, Linking, Ended
  <2>2. UNCHANGED <<queue, donelist, fetched>>
    BY <1>9 DEF SaveFile, RecvTimedOut
  <2> QED
    BY <1>0, <2>1, <2>2, HandsKept
<1>10. ASSUME NEW w \in Workers, InsertTask(w) PROVE OnceInv(S)'
  <2>1. \A v \in Workers : HandKey(v)' \subseteq HandKey(v)
    BY <1>0, <1>10 DEF InsertTask, HandKey, Holding, Linking, Ended
  <2>2. UNCHANGED <<queue, donelist, fetched>>
    BY <1>10 DEF InsertTask, RecvTimedOut
  <2> QED
    BY <1>0, <2>1, <2>2, HandsKept
<1>11. ASSUME NEW w \in Workers, NextLink(w) PROVE OnceInv(S)'
  <2>1. \A v \in Workers : HandKey(v)' \subseteq HandKey(v)
    BY <1>0, <1>11 DEF NextLink, HandKey, Holding, Linking, Ended
  <2>2. UNCHANGED <<queue, donelist, fetched>>
    BY <1>11 DEF NextLink, RecvTimedOut
  <2> QED
    BY <1>0, <2>1, <2>2, HandsKept
<1>12. ASSUME NEW w \in Workers, EndPage(w) PROVE OnceInv(S)'
  <2>1. \A v \in Workers : HandKey(v)' \subseteq HandKey(v)
    BY <1>0, <1>12 DEF EndPage, HandKey, Holding, Linking, Ended
  <2>2. UNCHANGED <<queue, donelist, fetched>>
    BY <1>12 DEF EndPage, RecvTimedOut
  <2> QED
    BY <1>0, <2>1, <2>2, HandsKept
<1>13. ASSUME NEW w \in Workers, Lock(w) PROVE OnceInv(S)'
  <2>1. \A v \in Workers : HandKey(v)' \subseteq HandKey(v)
    BY <1>0, <1>13 DEF Lock, HandKey, Holding, Linking, Ended
  <2>2. UNCHANGED <<queue, donelist, fetched>>
    BY <1>13 DEF Lock, RecvTimedOut
  <2> QED
    BY <1>0, <2>1, <2>2, HandsKept
<1>14. ASSUME NEW w \in Workers, LockFail(w) PROVE OnceInv(S)'
  <2>1. \A v \in Workers : HandKey(v)' \subseteq HandKey(v)
    BY <1>0, <1>14 DEF LockFail, HandKey, Holding, Linking, Ended
  <2>2. UNCHANGED <<queue, donelist, fetched>>
    BY <1>14 DEF LockFail, RecvTimedOut
  <2> QED
    BY <1>0, <2>1, <2>2, HandsKept
<1>15. ASSUME NEW w \in Workers, CheckDone(w) PROVE OnceInv(S)'
  <2>1. \A v \in Workers : HandKey(v)' \subseteq HandKey(v)
    BY <1>0, <1>15 DEF CheckDone, HandKey, Holding, Linking, Ended
  <2>2. UNCHANGED <<queue, donelist, fetched>>
    BY <1>15 DEF CheckDone, RecvTimedOut
  <2> QED
    BY <1>0, <2>1, <2>2, HandsKept
<1>16. ASSUME NEW w \in Workers, WriteDone(w) PROVE OnceInv(S)'
  <2> SUFFICES ASSUME HasRoom' PROVE Claimed(S)'
    BY DEF OnceInv
  <2>1. PICK i \in 0 .. UrlNum :
          /\ IsFirstFree(i)
          /\ donelist' = IF i \in Slots THEN [donelist EXCEPT ![i] = href[w]] ELSE donelist
    BY <1>16 DEF WriteDone
  <2>2. i \in Slots /\ donelist[i] = EMPTY
    BY <2>1, IpcAssumption DEF IsFirstFree, HasRoom, Slots
  <2>3. Claimed(S) /\ UNCHANGED <<queue, fetched>>
    BY <1>0, <1>16, <2>2 DEF WriteDone, OnceInv, HasRoom
  <2>4. PICK u \in Urls : u = href[w] /\ u \notin Recorded
    BY <1>0, <1>16 DEF WriteDone, HandsFull, Checked
  <2>5. Recorded' = Recorded \union {u}
    BY <1>0, <2>1, <2>2, <2>4, IpcAssumption DEF Recorded, IpcTypeOK
  <2>6. /\ HandKey(w) = {} /\ HandKey(w)' = {<<u, "found">>}
        /\ \A v \in Workers \ {w} : HandKey(v)' = HandKey(v)
    BY <1>0, <1>16, <2>4, IpcAssumption DEF WriteDone, HandKey, Holding, Linking
  <2>7. <<u, "found">> \notin Keys
    BY <2>3, <2>4 DEF Claimed
  <2>8. OneHolder'
    BY <2>3, <2>6, <2>7 DEF Claimed, OneHolder, Keys
  <2>9. Keys' = Keys \union {<<u, "found">>}
    BY <2>3, <2>6 DEF Keys
  <2>10. \A v \in Urls : Budget(v, S)' = Budget(v, S)
    BY <2>4, <2>5, <2>9 DEF Budget
  <2> QED
    BY <2>3, <2>5, <2>8, <2>9, <2>10 DEF Claimed
<1>17. ASSUME NEW w \in Workers, Unlock(w) PROVE OnceInv(S)'
  <2>1. \A v \in Workers : HandKey(v)' \subseteq HandKey(v)
    BY <1>0, <1>17 DEF Unlock, HandKey, Holding, Linking, Ended
  <2>2. UNCHANGED <<queue, donelist, fetched>>
    BY <1>17 DEF Unlock, RecvTimedOut
  <2> QED
    BY <1>0, <2>1, <2>2, HandsKept
<1>18. ASSUME NEW w \in Workers, SendLink(w) PROVE OnceInv(S)'
  <2> SUFFICES ASSUME HasRoom' PROVE Claimed(S)'
    BY DEF OnceInv
  <2>1. Claimed(S) /\ UNCHANGED <<donelist, fetched>>
    BY <1>0, <1>18 DEF SendLink, OnceInv, HasRoom
  <2>2. PICK k : /\ k = Key(Msg(href[w], cur[w].depth + 1, 0))
                 /\ HandKey(w) = {k} /\ HandKey(w)' = {}
                 /\ \A v \in Workers \ {w} : HandKey(v)' = HandKey(v)
    <3>1. href[w] \in Urls /\ cur[w] \in Msgs /\ cur[w].depth >= 1
      BY <1>0, <1>18 DEF SendLink, HandsFull, Busy, PC, Ended, DepthsFromOne
    <3>2. Key(Msg(href[w], cur[w].depth + 1, 0)) = <<href[w], "found">>
      BY <3>1 DEF Key, Msg, Msgs
    <3> QED
      BY <1>0, <1>18, <3>1, <3>2, IpcAssumption DEF SendLink, HandKey, Holding, Linking
  <2>3. /\ Len(queue) \in Nat /\ Len(queue') = Len(queue) + 1
        /\ \A i \in 1 .. Len(queue) : queue'[i] = queue[i]
        /\ Key(queue'[Len(queue) + 1]) = k
    BY <1>0, <1>18, <2>2, SendPlaces DEF SendLink
  <2>4. OneHolder'
    <3>1. \A i \in 1 .. Len(queue') : i \in 1 .. Len(queue) \/ (i = Len(queue) + 1 /\ Key(queue'[i]) = k)
      BY <2>3
    <3>2. \A i \in 1 .. Len(queue) : Key(queue[i]) # k
      BY <2>1, <2>2 DEF Claimed, OneHolder
    <3>3. \A i, j \in 1 .. Len(queue') : Key(queue'[i]) = Key(queue'[j]) => i = j
      BY <2>1, <2>3, <3>1, <3>2 DEF Claimed, OneHolder
    <3>4. \A v \in Workers : k \notin HandKey(v)' /\ HandKey(v)' \subseteq HandKey(v)
      BY <2>1, <2>2 DEF Claimed, OneHolder
    <3>5. \A u, v \in Workers : \A j \in HandKey(u)' : j \in HandKey(v)' => u = v
      BY <2>1, <3>4 DEF Claimed, OneHolder
    <3>6. \A i \in 1 .. Len(queue'), v \in Workers : Key(queue'[i]) \notin HandKey(v)'
      BY <2>1, <2>3, <3>1, <3>4 DEF Claimed, OneHolder
    <3> QED
      BY <3>3, <3>5, <3>6 DEF OneHolder
  <2>5. Keys' \subseteq Keys
    <3>1. \A i \in 1 .. Len(queue') : i \in 1 .. Len(queue) \/ Key(queue'[i]) = k
      BY <2>3
    <3> QED
      BY <2>2, <2>3, <3>1 DEF Keys
  <2> QED
    BY <1>0, <2>1, <2>4, <2>5, ClaimedKept
<1>19. ASSUME NEW w \in Workers, SendLinkFail(w) PROVE OnceInv(S)'
  <2>1. \A v \in Workers : HandKey(v)' \subseteq HandKey(v)
    BY <1>0, <1>19 DEF SendLinkFail, HandKey, Holding, Linking, Ended
  <2>2. UNCHANGED <<queue, donelist, fetched>>
    BY <1>19 DEF SendLinkFail, RecvTimedOut
  <2> QED
    BY <1>0, <2>1, <2>2, HandsKept
<1>20. ASSUME NEW w \in Workers, Crash(w) PROVE OnceInv(S)'
  <2>1. \A v \in Workers : HandKey(v)' \subseteq HandKey(v)
    BY <1>0, <1>20 DEF Crash, HandKey, Holding, Linking, Ended
  <2>2. UNCHANGED <<queue, donelist, fetched>>
    BY <1>20 DEF Crash, RecvTimedOut
  <2> QED
    BY <1>0, <2>1, <2>2, HandsKept
<1>21. CASE UNCHANGED vars
  <2>1. \A v \in Workers : HandKey(v)' \subseteq HandKey(v)
    BY <1>21 DEF vars, workerVars, HandKey
  <2> QED
    BY <1>0, <1>21, <2>1, HandsKept DEF vars, workerVars
<1> QED
  BY <1>1, <1>2, <1>3, <1>4, <1>5, <1>6, <1>7, <1>8, <1>9, <1>10, <1>11, <1>12, <1>13, <1>14, <1>15, <1>16, <1>17, <1>18, <1>19, <1>20, <1>21 DEF Next, Step, Finished

(* While the table has room no page is fetched twice, the seed no more than *)
(* twice, however the workers find its links at the same time, fail, retry  *)
(* or die.                                                                  *)
THEOREM PagesOnce == Spec => []FetchOnce
<1>1. Init => NoDupSlots /\ Checked /\ LinksInHand /\ DepthInv /\ OnceInv({Seed})
  BY SlotsInit, LinksInit, DepthInit, OnceInit
<1>2. Inv /\ NoDupSlots /\ Checked /\ LinksInHand /\ DepthInv /\ OnceInv({Seed}) /\ [Next]_vars
        => (NoDupSlots /\ Checked /\ LinksInHand /\ DepthInv /\ OnceInv({Seed}))'
  BY SlotsNext, LinksNext, DepthNext, OnceNext, DepthsOf
<1>3. Inv /\ OnceInv({Seed}) => FetchOnce
  <2>1. ASSUME NEW u \in Urls, Inv, Claimed({Seed}) PROVE fetched[u] <= IF u = Seed THEN 2 ELSE 1
    <3>1. fetched[u] \in Nat /\ Budget(u, {Seed}) \in Nat /\ fetched[u] <= Budget(u, {Seed})
      BY <2>1, WorkersAssumption DEF Inv, TypeOK, Budget, Claimed
    <3>2. Budget(u, {Seed}) <= IF u = Seed THEN 2 ELSE 1
      BY DEF Budget
    <3> QED
      BY <3>1, <3>2
  <2> QED
    BY <2>1 DEF FetchOnce, OnceInv
<1> QED
  BY <1>1, <1>2, <1>3, InvAlways, PTL DEF Spec

-----------------------------------------------------------------------------
(* Some worker broke off in the middle of a page or was killed. *)
Broken == \E w \in Workers : pc[w] \in {"failed", "dead"}

RowOf(u) == u \in tasks /\ u \in files

(* The page u is on its way from the network to the disk and the database. *)
Saving(u) == \E w \in Workers : pc[w] \in {"list", "save", "insert"} /\ cur[w].url = u

AllRows == "fileinvolve" \in Options /\ "shixin" \in Options /\ Faults \intersect {"file", "sql"} = {}

RowsSound == \A u \in tasks : fetched[u] > 0 /\ Wanted(u) /\ (u \in files \/ "file" \in Faults)

RowsOnTheWay ==
  \A w \in Workers :
    /\ pc[w] \in {"save", "insert"} => Wanted(cur[w].url)
    /\ pc[w] = "insert" => cur[w].url \in files \/ "file" \in Faults

RowsOwed == AllRows => \A u \in Urls : fetched[u] > 0 /\ Wanted(u) => RowOf(u) \/ Saving(u) \/ Broken

RowsInv == RowsSound /\ RowsOnTheWay /\ RowsOwed

LEMMA RowsInit == Init => RowsInv
BY DEF Init, RowsInv, RowsSound, RowsOnTheWay, RowsOwed

(* A step that keeps what is saved and what is being saved. *)
LEMMA OwedKept ==
  ASSUME RowsOwed, UNCHANGED fetched, files \subseteq files', tasks \subseteq tasks',
         \A u \in Urls : Saving(u) => Saving(u)' \/ RowOf(u)' \/ ~ AllRows \/ ~ Wanted(u) \/ Broken',
         Broken => Broken'
  PROVE  RowsOwed'
BY DEF RowsOwed, RowOf

LEMMA RowsNext == Inv /\ LinksInHand /\ RowsInv /\ [Next]_vars => RowsInv'
<1> SUFFICES ASSUME Inv, LinksInHand, RowsInv, [Next]_vars PROVE RowsInv'
  OBVIOUS
<1> USE DEF Goto, End, ipcVars
<1>0. /\ RowsSound /\ RowsOnTheWay /\ RowsOwed /\ TypeOK /\ HandsFull /\ LinksInHand
      /\ pc \in [Workers -> PC]
      /\ cur \in [Workers -> Msgs \union {Idle}]
      /\ fetched \in [Urls -> 0 .. FetchCap]
  BY DEF Inv, TypeOK, RowsInv
<1>1. ASSUME NEW w \in Workers, RecvMsg(w) PROVE RowsInv'
  <2>1. RowsSound' /\ RowsOnTheWay'
    BY <1>0, <1>1 DEF RecvMsg, RowsSound, RowsOnTheWay, PC, Ended, Wanted
  <2>2. (Broken => Broken') /\ \A u \in Urls : Saving(u) => Saving(u)' \/ Broken'
    BY <1>0, <1>1 DEF RecvMsg, Broken, Saving, PC, Ended
  <2>3. RowsOwed'
    BY <1>0, <1>1, <2>2, OwedKept DEF RecvMsg
  <2> QED
    BY <2>1, <2>3 DEF RowsInv
<1>2. ASSUME NEW w \in Workers, RecvTimeout(w) PROVE RowsInv'
  <2>1. RowsSound' /\ RowsOnTheWay'
    BY <1>0, <1>2 DEF RecvTimeout, RowsSound, RowsOnTheWay, PC, Ended, Wanted
  <2>2. (Broken => Broken') /\ \A u \in Urls : Saving(u) => Saving(u)' \/ Broken'
    BY <1>0, <1>2 DEF RecvTimeout, Broken, Saving, PC, Ended
  <2>3. RowsOwed'
    BY <1>0, <1>2, <2>2, OwedKept DEF RecvTimeout
  <2> QED
    BY <2>1, <2>3 DEF RowsInv
<1>3. ASSUME NEW w \in Workers, FetchOk(w) PROVE RowsInv'
  <2>1. PICK u \in Urls : u = cur[w].url
    BY <1>0, <1>3 DEF FetchOk, HandsFull, Busy, PC, Ended, Msgs
  <2>2. \A v \in Urls : (fetched[v] > 0 => fetched'[v] > 0) /\ (fetched'[v] > 0 => fetched[v] > 0 \/ v = u)
    BY <1>0, <1>3, <2>1, WorkersAssumption DEF FetchOk
  <2>3. RowsSound' /\ RowsOnTheWay'
    BY <1>0, <1>3, <2>2 DEF FetchOk, RowsSound, RowsOnTheWay, TypeOK
  <2>4. (Broken => Broken') /\ (AllRows => Saving(u)') /\ \A v \in Urls : Saving(v) => Saving(v)'
    BY <1>0, <1>3, <2>1 DEF FetchOk, Broken, Saving, AllRows
  <2>5. RowsOwed'
    <3> SUFFICES ASSUME AllRows, NEW v \in Urls, fetched'[v] > 0, Wanted(v)
                 PROVE  RowOf(v)' \/ Saving(v)' \/ Broken'
      BY DEF RowsOwed, AllRows, Wanted
    <3>1. CASE v = u
      BY <2>4, <3>1
    <3>2. CASE v # u
      BY <1>0, <1>3, <2>2, <2>4, <3>2 DEF FetchOk, RowsOwed, RowOf
    <3> QED
      BY <3>1, <3>2
  <2> QED
    BY <2>3, <2>5 DEF RowsInv
<1>4. ASSUME NEW w \in Workers, FetchFail(w) PROVE RowsInv'
  <2>1. RowsSound' /\ RowsOnTheWay'
    BY <1>0, <1>4 DEF FetchFail, RowsSound, RowsOnTheWay, PC, Ended, Wanted
  <2>2. (Broken => Broken') /\ \A u \in Urls : Saving(u) => Saving(u)' \/ Broken'
    BY <1>0, <1>4 DEF FetchFail, Broken, Saving, PC, Ended
  <2>3. RowsOwed'
    BY <1>0, <1>4, <2>2, OwedKept DEF FetchFail
  <2> QED
    BY <2>1, <2>3 DEF RowsInv
<1>5. ASSUME NEW w \in Workers, Resend(w) PROVE RowsInv'
  <2>1. RowsSound' /\ RowsOnTheWay'
    BY <1>0, <1>5 DEF Resend, RowsSound, RowsOnTheWay, PC, Ended, Wanted
  <2>2. (Broken => Broken') /\ \A u \in Urls : Saving(u) => Saving(u)' \/ Broken'
    BY <1>0, <1>5 DEF Resend, Broken, Saving, PC, Ended
  <2>3. RowsOwed'
    BY <1>0, <1>5, <2>2, OwedKept DEF Resend
  <2> QED
    BY <2>1, <2>3 DEF RowsInv
<1>6. ASSUME NEW w \in Workers, ResendFail(w) PROVE RowsInv'
  <2>1. RowsSound' /\ RowsOnTheWay'
    BY <1>0, <1>6 DEF ResendFail, RowsSound, RowsOnTheWay, PC, Ended, Wanted
  <2>2. (Broken => Broken') /\ \A u \in Urls : Saving(u) => Saving(u)' \/ Broken'
    BY <1>0, <1>6 DEF ResendFail, Broken, Saving, PC, Ended
  <2>3. RowsOwed'
    BY <1>0, <1>6, <2>2, OwedKept DEF ResendFail
  <2> QED
    BY <2>1, <2>3 DEF RowsInv
<1>7. ASSUME NEW w \in Workers, ListPage(w) PROVE RowsInv'
  <2>1. RowsSound' /\ RowsOnTheWay'
    BY <1>0, <1>7 DEF ListPage, RowsSound, RowsOnTheWay
  <2>2. (Broken => Broken') /\ \A u \in Urls : Saving(u) => Saving(u)' \/ ~ Wanted(u)
    BY <1>0, <1>7 DEF ListPage, Broken, Saving
  <2>3. RowsOwed'
    BY <1>0, <1>7, <2>2, OwedKept DEF ListPage
  <2> QED
    BY <2>1, <2>3 DEF RowsInv
<1>8. ASSUME NEW w \in Workers, OpenFail(w) PROVE RowsInv'
  <2>1. RowsSound' /\ RowsOnTheWay'
    BY <1>0, <1>8 DEF OpenFail, RowsSound, RowsOnTheWay, PC, Ended, Wanted
  <2>2. (Broken => Broken') /\ \A u \in Urls : Saving(u) => Saving(u)' \/ Broken'
    BY <1>0, <1>8 DEF OpenFail, Broken, Saving, PC, Ended
  <2>3. RowsOwed'
    BY <1>0, <1>8, <2>2, OwedKept DEF OpenFail
  <2> QED
    BY <2>1, <2>3 DEF RowsInv
<1>9. ASSUME NEW w \in Workers, SaveFile(w) PROVE RowsInv'
  <2>0. files \subseteq files' /\ (cur[w].url \in files' \/ "file" \in Faults)
    BY <1>9 DEF SaveFile
  <2>1. RowsSound' /\ RowsOnTheWay'
    BY <1>0, <1>9, <2>0 DEF SaveFile, RowsSound, RowsOnTheWay
  <2>2. (Broken => Broken') /\ (AllRows => \A u \in Urls : Saving(u) => Saving(u)')
    BY <1>0, <1>9 DEF SaveFile, Broken, Saving, AllRows
  <2>3. RowsOwed'
    BY <1>0, <1>9, <2>0, <2>2, OwedKept DEF SaveFile
  <2> QED
    BY <2>1, <2>3 DEF RowsInv
<1>10. ASSUME NEW w \in Workers, InsertTask(w) PROVE RowsInv'
  <2>0. /\ tasks \subseteq tasks' /\ tasks' \subseteq tasks \union {cur[w].url}
        /\ cur[w].url \in tasks' \/ "sql" \in Faults
    BY <1>10 DEF InsertTask
  <2>1. fetched[cur[w].url] > 0 /\ Wanted(cur[w].url) /\ (cur[w].url \in files \/ "file" \in Faults)
    BY <1>0, <1>10 DEF InsertTask, RowsOnTheWay, LinksInHand, Scanning
  <2>2. RowsSound' /\ RowsOnTheWay'
    BY <1>0, <1>10, <2>0, <2>1 DEF InsertTask, RowsSound, RowsOnTheWay
  <2>3. /\ Broken => Broken'
        /\ \A u \in Urls : Saving(u) => Saving(u)' \/ u = cur[w].url
    BY <1>0, <1>10 DEF InsertTask, Broken, Saving
  <2>4. AllRows => RowOf(cur[w].url)'
    BY <1>10, <2>0, <2>1 DEF InsertTask, AllRows, RowOf
  <2>5. PICK x : x = cur[w].url
    OBVIOUS
  <2>6. \A u \in Urls : Saving(u) => Saving(u)' \/ RowOf(u)' \/ ~ AllRows
    <3>1. AllRows => x \in tasks' /\ x \in files'
      BY <1>10, <2>0, <2>1, <2>5 DEF InsertTask, AllRows
    <3> QED
      BY <2>3, <2>5, <3>1 DEF RowOf
  <2>7. RowsOwed'
    BY <1>0, <1>10, <2>0, <2>3, <2>6, OwedKept DEF InsertTask
  <2> QED
    BY <2>2, <2>7 DEF RowsInv
<1>11. ASSUME NEW w \in Workers, NextLink(w) PROVE RowsInv'
  <2>1. RowsSound' /\ RowsOnTheWay'
    BY <1>0, <1>11 DEF NextLink, RowsSound, RowsOnTheWay, PC, Ended, Wanted
  <2>2. (Broken => Broken') /\ \A u \in Urls : Saving(u) => Saving(u)' \/ Broken'
    BY <1>0, <1>11 DEF NextLink, Broken, Saving, PC, Ended
  <2>3. RowsOwed'
    BY <1>0, <1>11, <2>2, OwedKept DEF NextLink
  <2> QED
    BY <2>1, <2>3 DEF RowsInv
<1>12. ASSUME NEW w \in Workers, EndPage(w) PROVE RowsInv'
  <2>1. RowsSound' /\ RowsOnTheWay'
    BY <1>0, <1>12 DEF EndPage, RowsSound, RowsOnTheWay, PC, Ended, Wanted
  <2>2. (Broken => Broken') /\ \A u \in Urls : Saving(u) => Saving(u)' \/ Broken'
    BY <1>0, <1>12 DEF EndPage, Broken, Saving, PC, Ended
  <2>3. RowsOwed'
    BY <1>0, <1>12, <2>2, OwedKept DEF EndPage
  <2> QED
    BY <2>1, <2>3 DEF RowsInv
<1>13. ASSUME NEW w \in Workers, Lock(w) PROVE RowsInv'
  <2>1. RowsSound' /\ RowsOnTheWay'
    BY <1>0, <1>13 DEF Lock, RowsSound, RowsOnTheWay, PC, Ended, Wanted
  <2>2. (Broken => Broken') /\ \A u \in Urls : Saving(u) => Saving(u)' \/ Broken'
    BY <1>0, <1>13 DEF Lock, Broken, Saving, PC, Ended
  <2>3. RowsOwed'
    BY <1>0, <1>13, <2>2, OwedKept DEF Lock
  <2> QED
    BY <2>1, <2>3 DEF RowsInv
<1>14. ASSUME NEW w \in Workers, LockFail(w) PROVE RowsInv'
  <2>1. RowsSound' /\ RowsOnTheWay'
    BY <1>0, <1>14 DEF LockFail, RowsSound, RowsOnTheWay, PC, Ended, Wanted
  <2>2. (Broken => Broken') /\ \A u \in Urls : Saving(u) => Saving(u)' \/ Broken'
    BY <1>0, <1>14 DEF LockFail, Broken, Saving, PC, Ended
  <2>3. RowsOwed'
    BY <1>0, <1>14, <2>2, OwedKept DEF LockFail
  <2> QED
    BY <2>1, <2>3 DEF RowsInv
<1>15. ASSUME NEW w \in Workers, CheckDone(w) PROVE RowsInv'
  <2>1. RowsSound' /\ RowsOnTheWay'
    BY <1>0, <1>15 DEF CheckDone, RowsSound, RowsOnTheWay, PC, Ended, Wanted
  <2>2. (Broken => Broken') /\ \A u \in Urls : Saving(u) => Saving(u)' \/ Broken'
    BY <1>0, <1>15 DEF CheckDone, Broken, Saving, PC, Ended
  <2>3. RowsOwed'
    BY <1>0, <1>15, <2>2, OwedKept DEF CheckDone
  <2> QED
    BY <2>1, <2>3 DEF RowsInv
<1>16. ASSUME NEW w \in Workers, WriteDone(w) PROVE RowsInv'
  <2>1. RowsSound' /\ RowsOnTheWay'
    BY <1>0, <1>16 DEF WriteDone, RowsSound, RowsOnTheWay, PC, Ended, Wanted
  <2>2. (Broken => Broken') /\ \A u \in Urls : Saving(u) => Saving(u)' \/ Broken'
    BY <1>0, <1>16 DEF WriteDone, Broken, Saving, PC, Ended
  <2>3. RowsOwed'
    BY <1>0, <1>16, <2>2, OwedKept DEF WriteDone
  <2> QED
    BY <2>1, <2>3 DEF RowsInv
<1>17. ASSUME NEW w \in Workers, Unlock(w) PROVE RowsInv'
  <2>1. RowsSound' /\ RowsOnTheWay'
    BY <1>0, <1>17 DEF Unlock, RowsSound, RowsOnTheWay, PC, Ended, Wanted
  <2>2. (Broken => Broken') /\ \A u \in Urls : Saving(u) => Saving(u)' \/ Broken'
    BY <1>0, <1>17 DEF Unlock, Broken, Saving, PC, Ended
  <2>3. RowsOwed'
    BY <1>0, <1>17, <2>2, OwedKept DEF Unlock
  <2> QED
    BY <2>1, <2>3 DEF RowsInv
<1>18. ASSUME NEW w \in Workers, SendLink(w) PROVE RowsInv'
  <2>1. RowsSound' /\ RowsOnTheWay'
    BY <1>0, <1>18 DEF SendLink, RowsSound, RowsOnTheWay, PC, Ended, Wanted
  <2>2. (Broken => Broken') /\ \A u \in Urls : Saving(u) => Saving(u)' \/ Broken'
    BY <1>0, <1>18 DEF SendLink, Broken, Saving, PC, Ended
  <2>3. RowsOwed'
    BY <1>0, <1>18, <2>2, OwedKept DEF SendLink
  <2> QED
    BY <2>1, <2>3 DEF RowsInv
<1>19. ASSUME NEW w \in Workers, SendLinkFail(w) PROVE RowsInv'
  <2>1. RowsSound' /\ RowsOnTheWay'
    BY <1>0, <1>19 DEF SendLinkFail, RowsSound, RowsOnTheWay, PC, Ended, Wanted
  <2>2. (Broken => Broken') /\ \A u \in Urls : Saving(u) => Saving(u)' \/ Broken'
    BY <1>0, <1>19 DEF SendLinkFail, Broken, Saving, PC, Ended
  <2>3. RowsOwed'
    BY <1>0, <1>19, <2>2, OwedKept DEF SendLinkFail
  <2> QED
    BY <2>1, <2>3 DEF RowsInv
<1>20. ASSUME NEW w \in Workers, Crash(w) PROVE RowsInv'
  <2>1. RowsSound' /\ RowsOnTheWay'
    BY <1>0, <1>20 DEF Crash, RowsSound, RowsOnTheWay, PC, Ended, Wanted
  <2>2. (Broken => Broken') /\ \A u \in Urls : Saving(u) => Saving(u)' \/ Broken'
    BY <1>0, <1>20 DEF Crash, Broken, Saving, PC, Ended
  <2>3. RowsOwed'
    BY <1>0, <1>20, <2>2, OwedKept DEF Crash
  <2> QED
    BY <2>1, <2>3 DEF RowsInv
<1>21. CASE UNCHANGED vars
  BY <1>0, <1>21 DEF vars, workerVars, RowsInv, RowsSound, RowsOnTheWay, RowsOwed, RowOf, Saving, Broken, AllRows, Wanted
<1> QED
  BY <1>1, <1>2, <1>3, <1>4, <1>5, <1>6, <1>7, <1>8, <1>9, <1>10, <1>11, <1>12, <1>13, <1>14, <1>15, <1>16, <1>17, <1>18, <1>19, <1>20, <1>21 DEF Next, Step, Finished

(* Every row is for a page that was fetched, wanted and saved; when no call *)
(* fails and every worker leaves by its timeout, each such page has one.    *)
THEOREM RowsRight == Spec => []RowsMatchPages
<1>1. Init => LinksInHand /\ RowsInv
  BY LinksInit, RowsInit
<1>2. Inv /\ LinksInHand /\ RowsInv /\ [Next]_vars => (LinksInHand /\ RowsInv)'
  BY LinksNext, RowsNext
<1>3. RowsInv => RowsMatchPages
  <2> SUFFICES ASSUME RowsInv PROVE RowsMatchPages
    OBVIOUS
  <2>1. CleanStop => ~ Broken /\ \A u \in Urls : ~ Saving(u)
    BY DEF CleanStop, Broken, Saving
  <2> QED
    BY <2>1 DEF RowsInv, RowsSound, RowsOwed, RowOf, AllRows, RowsMatchPages
<1> QED
  BY <1>1, <1>2, <1>3, InvAlways, PTL DEF Spec

-----------------------------------------------------------------------------
(* The accepted link x of the page in work is still to be looked up. *)
ToLookUp(w, x) ==
  \/ pc[w] \in Scanning /\ \E i \in 1 .. Len(todo[w]) : todo[w][i].iflag /\ todo[w][i].href = x
  \/ pc[w] \in {"lock", "check", "write"} /\ href[w] = x

(* Nobody leaves while there is a message. *)
Attended == queue = <<>> \/ (\E w \in Workers : pc[w] \notin Ended) \/ Broken

(* A link of a fetched page is recorded or will be. *)
LinkKept(u, x) ==
  \/ x \in Recorded
  \/ \E w \in Workers : cur[w].url = u /\ ToLookUp(w, x)
  \/ Broken

LinksKept == \A u \in Urls : fetched[u] > 0 => \A x \in LinksOf(u) : LinkKept(u, x)

DoneInv == Attended /\ (HasRoom => LinksKept)

LEMMA DoneInit == Init => DoneInv
<1> SUFFICES ASSUME Init PROVE DoneInv
  OBVIOUS
<1>1. PICK w \in Workers : TRUE
  BY WorkersAssumption
<1>2. pc[w] \notin Ended
  BY DEF Init, Ended
<1>3. LinksKept
  BY DEF Init, LinksKept
<1> QED
  BY <1>2, <1>3 DEF DoneInv, Attended

LEMMA AttendedNext == Inv /\ Attended /\ [Next]_vars => Attended'
<1> SUFFICES ASSUME Inv, Attended, [Next]_vars PROVE Attended'
  OBVIOUS
<1> USE DEF Goto, End, ipcVars
<1>0. Attended /\ pc \in [Workers -> PC]
  BY DEF Inv, TypeOK
<1>1. ASSUME NEW w \in Workers, RecvMsg(w) PROVE Attended'
  BY <1>0, <1>1 DEF RecvMsg, Attended, Broken, Ended, RecvTimedOut
<1>2. ASSUME NEW w \in Workers, RecvTimeout(w) PROVE Attended'
  BY <1>0, <1>2 DEF RecvTimeout, Attended, Broken, Ended, RecvTimedOut
<1>3. ASSUME NEW w \in Workers, FetchOk(w) PROVE Attended'
  BY <1>0, <1>3 DEF FetchOk, Attended, Broken, Ended, RecvTimedOut
<1>4. ASSUME NEW w \in Workers, FetchFail(w) PROVE Attended'
  BY <1>0, <1>4 DEF FetchFail, Attended, Broken, Ended, RecvTimedOut
<1>5. ASSUME NEW w \in Workers, Resend(w) PROVE Attended'
  BY <1>0, <1>5 DEF Resend, Attended, Broken, Ended, RecvTimedOut
<1>6. ASSUME NEW w \in Workers, ResendFail(w) PROVE Attended'
  BY <1>0, <1>6 DEF ResendFail, Attended, Broken, Ended, RecvTimedOut
<1>7. ASSUME NEW w \in Workers, ListPage(w) PROVE Attended'
  BY <1>0, <1>7 DEF ListPage, Attended, Broken, Ended, RecvTimedOut
<1>8. ASSUME NEW w \in Workers, OpenFail(w) PROVE Attended'
  BY <1>0, <1>8 DEF OpenFail, Attended, Broken, Ended, RecvTimedOut
<1>9. ASSUME NEW w \in Workers, SaveFile(w) PROVE Attended'
  BY <1>0, <1>9 DEF SaveFile, Attended, Broken, Ended, RecvTimedOut
<1>10. ASSUME NEW w \in Workers, InsertTask(w) PROVE Attended'
  BY <1>0, <1>10 DEF InsertTask, Attended, Broken, Ended, RecvTimedOut
<1>11. ASSUME NEW w \in Workers, NextLink(w) PROVE Attended'
  BY <1>0, <1>11 DEF NextLink, Attended, Broken, Ended, RecvTimedOut
<1>12. ASSUME NEW w \in Workers, EndPage(w) PROVE Attended'
  BY <1>0, <1>12 DEF EndPage, Attended, Broken, Ended, RecvTimedOut
<1>13. ASSUME NEW w \in Workers, Lock(w) PROVE Attended'
  BY <1>0, <1>13 DEF Lock, Attended, Broken, Ended, RecvTimedOut
<1>14. ASSUME NEW w \in Workers, LockFail(w) PROVE Attended'
  BY <1>0, <1>14 DEF LockFail, Attended, Broken, Ended, RecvTimedOut
<1>15. ASSUME NEW w \in Workers, CheckDone(w) PROVE Attended'
  BY <1>0, <1>15 DEF CheckDone, Attended, Broken, Ended, RecvTimedOut
<1>16. ASSUME NEW w \in Workers, WriteDone(w) PROVE Attended'
  BY <1>0, <1>16 DEF WriteDone, Attended, Broken, Ended, RecvTimedOut
<1>17. ASSUME NEW w \in Workers, Unlock(w) PROVE Attended'
  BY <1>0, <1>17 DEF Unlock, Attended, Broken, Ended, RecvTimedOut
<1>18. ASSUME NEW w \in Workers, SendLink(w) PROVE Attended'
  BY <1>0, <1>18 DEF SendLink, Attended, Broken, Ended, RecvTimedOut
<1>19. ASSUME NEW w \in Workers, SendLinkFail(w) PROVE Attended'
  BY <1>0, <1>19 DEF SendLinkFail, Attended, Broken, Ended, RecvTimedOut
<1>20. ASSUME NEW w \in Workers, Crash(w) PROVE Attended'
  BY <1>0, <1>20 DEF Crash, Attended, Broken, Ended, RecvTimedOut
<1>21. CASE UNCHANGED vars
  BY <1>0, <1>21 DEF vars, workerVars, Attended, Broken, Ended, RecvTimedOut
<1> QED
  BY <1>1, <1>2, <1>3, <1>4, <1>5, <1>6, <1>7, <1>8, <1>9, <1>10, <1>11, <1>12, <1>13, <1>14, <1>15, <1>16, <1>17, <1>18, <1>19, <1>20, <1>21 DEF Next, Step, Finished

LEMMA LinksKeptNext ==
  Inv /\ LinksInHand /\ (HasRoom => LinksKept) /\ [Next]_vars => (HasRoom => LinksKept)'
<1> SUFFICES ASSUME Inv, LinksInHand, HasRoom => LinksKept, [Next]_vars, HasRoom'
             PROVE  LinksKept'
  OBVIOUS
<1> USE DEF Goto, End, ipcVars
<1>0. /\ TypeOK /\ HandsFull /\ LinksInHand
      /\ pc \in [Workers -> PC]
      /\ cur \in [Workers -> Msgs \union {Idle}]
      /\ todo \in [Workers -> Seq(Links)]
      /\ href \in [Workers -> Urls \union {EMPTY}]
      /\ fetched \in [Urls -> 0 .. FetchCap]
      /\ donelist \in [Slots -> Urls \union {EMPTY}]
  BY DEF Inv, TypeOK, IpcTypeOK
<1>a. ASSUME UNCHANGED donelist PROVE LinksKept /\ Recorded' = Recorded
  BY <1>a DEF HasRoom, Recorded
(* No link is lost when each one in work stays there or is recorded. *)
<1>b. ASSUME LinksKept, UNCHANGED fetched, Recorded \subseteq Recorded', Broken => Broken',
             \A v \in Workers, x \in Urls : ToLookUp(v, x) =>
               (cur'[v].url = cur[v].url /\ ToLookUp(v, x)') \/ x \in Recorded' \/ Broken'
      PROVE  LinksKept'
  <2> SUFFICES ASSUME NEW u \in Urls, fetched[u] > 0, NEW x \in LinksOf(u) PROVE LinkKept(u, x)'
    BY <1>b DEF LinksKept
  <2>1. x \in Urls /\ LinkKept(u, x)
    BY <1>b, LinksAreUrls DEF LinksKept
  <2> QED
    BY <1>b, <2>1 DEF LinkKept
<1>1. ASSUME NEW w \in Workers, RecvMsg(w) PROVE LinksKept'
  <2>1. LinksKept /\ Recorded' = Recorded /\ UNCHANGED fetched
    BY <1>1, <1>a DEF RecvMsg
  <2>2. Broken => Broken'
    BY <1>0, <1>1 DEF RecvMsg, Broken, Ended
  <2>3. \A v \in Workers, x \in Urls : ToLookUp(v, x) =>
          (cur'[v].url = cur[v].url /\ ToLookUp(v, x)') \/ x \in Recorded' \/ Broken'
    BY <1>0, <1>1 DEF RecvMsg, ToLookUp, Scanning, Broken, PC, Ended
  <2> QED
    BY <2>1, <2>2, <2>3, <1>b
<1>2. ASSUME NEW w \in Workers, RecvTimeout(w) PROVE LinksKept'
  <2>1. LinksKept /\ Recorded' = Recorded /\ UNCHANGED fetched
    BY <1>2, <1>a DEF RecvTimeout
  <2>2. Broken => Broken'
    BY <1>0, <1>2 DEF RecvTimeout, Broken, Ended
  <2>3. \A v \in Workers, x \in Urls : ToLookUp(v, x) =>
          (cur'[v].url = cur[v].url /\ ToLookUp(v, x)') \/ x \in Recorded' \/ Broken'
    BY <1>0, <1>2 DEF RecvTimeout, ToLookUp, Scanning, Broken, PC, Ended
  <2> QED
    BY <2>1, <2>2, <2>3, <1>b
<1>3. ASSUME NEW w \in Workers, FetchOk(w) PROVE LinksKept'
  <2>1. PICK u \in Urls : u = cur[w].url
    BY <1>0, <1>3 DEF FetchOk, HandsFull, Busy, PC, Ended, Msgs
  <2>2. \A v \in Urls : fetched'[v] > 0 => fetched[v] > 0 \/ v = u
    BY <1>0, <1>3, <2>1 DEF FetchOk
  <2>3. LinksKept /\ Recorded' = Recorded
    BY <1>3, <1>a DEF FetchOk
  <2>4. Broken => Broken'
    BY <1>0, <1>3 DEF FetchOk, Broken
  <2>5. \A v \in Workers : \A x : ToLookUp(v, x) => cur'[v].url = cur[v].url /\ ToLookUp(v, x)'
    BY <1>0, <1>3 DEF FetchOk, ToLookUp, Scanning
  <2>6. ASSUME NEW x \in LinksOf(u) PROVE LinkKept(u, x)'
    <3>1. PICK i \in DOMAIN Hrefs[u] : Hrefs[u][i].iflag /\ Hrefs[u][i].href = x
      BY <2>6 DEF LinksOf
    <3>2. Hrefs[u] \in Seq(Links) /\ i \in 1 .. Len(Hrefs[u])
      BY <3>1, WorkersAssumption
    <3>3. todo'[w] = Hrefs[u] /\ pc'[w] \in Scanning /\ cur'[w].url = u
      BY <1>0, <1>3, <2>1 DEF FetchOk, Scanning
    <3>4. ToLookUp(w, x)'
      BY <3>1, <3>2, <3>3 DEF ToLookUp
    <3> QED
      BY <3>3, <3>4 DEF LinkKept
  <2>7. ASSUME NEW v \in Urls, fetched[v] > 0, NEW x \in LinksOf(v) PROVE LinkKept(v, x)'
    <3>1. LinkKept(v, x)
      BY <2>3, <2>7 DEF LinksKept
    <3> QED
      BY <2>3, <2>4, <2>5, <3>1 DEF LinkKept
  <2> QED
    BY <2>2, <2>6, <2>7 DEF LinksKept
<1>4. ASSUME NEW w \in Workers, FetchFail(w) PROVE LinksKept'
  <2>1. LinksKept /\ Recorded' = Recorded /\ UNCHANGED fetched
    BY <1>4, <1>a DEF FetchFail
  <2>2. Broken => Broken'
    BY <1>0, <1>4 DEF FetchFail, Broken, Ended
  <2>3. \A v \in Workers, x \in Urls : ToLookUp(v, x) =>
          (cur'[v].url = cur[v].url /\ ToLookUp(v, x)') \/ x \in Recorded' \/ Broken'
    BY <1>0, <1>4 DEF FetchFail, ToLookUp, Scanning, Broken, PC, Ended
  <2> QED
    BY <2>1, <2>2, <2>3, <1>b
<1>5. ASSUME NEW w \in Workers, Resend(w) PROVE LinksKept'
  <2>1. LinksKept /\ Recorded' = Recorded /\ UNCHANGED fetched
    BY <1>5, <1>a DEF Resend
  <2>2. Broken => Broken'
    BY <1>0, <1>5 DEF Resend, Broken, Ended
  <2>3. \A v \in Workers, x \in Urls : ToLookUp(v, x) =>
          (cur'[v].url = cur[v].url /\ ToLookUp(v, x)') \/ x \in Recorded' \/ Broken'
    BY <1>0, <1>5 DEF Resend, ToLookUp, Scanning, Broken, PC, Ended
  <2> QED
    BY <2>1, <2>2, <2>3, <1>b
<1>6. ASSUME NEW w \in Workers, ResendFail(w) PROVE LinksKept'
  <2>1. LinksKept /\ Recorded' = Recorded /\ UNCHANGED fetched
    BY <1>6, <1>a DEF ResendFail
  <2>2. Broken => Broken'
    BY <1>0, <1>6 DEF ResendFail, Broken, Ended
  <2>3. \A v \in Workers, x \in Urls : ToLookUp(v, x) =>
          (cur'[v].url = cur[v].url /\ ToLookUp(v, x)') \/ x \in Recorded' \/ Broken'
    BY <1>0, <1>6 DEF ResendFail, ToLookUp, Scanning, Broken, PC, Ended
  <2> QED
    BY <2>1, <2>2, <2>3, <1>b
<1>7. ASSUME NEW w \in Workers, ListPage(w) PROVE LinksKept'
  <2>1. LinksKept /\ Recorded' = Recorded /\ UNCHANGED fetched
    BY <1>7, <1>a DEF ListPage
  <2>2. Broken => Broken'
    BY <1>0, <1>7 DEF ListPage, Broken, Ended
  <2>3. \A v \in Workers, x \in Urls : ToLookUp(v, x) =>
          (cur'[v].url = cur[v].url /\ ToLookUp(v, x)') \/ x \in Recorded' \/ Broken'
    BY <1>0, <1>7 DEF ListPage, ToLookUp, Scanning, Broken, PC, Ended
  <2> QED
    BY <2>1, <2>2, <2>3, <1>b
<1>8. ASSUME NEW w \in Workers, OpenFail(w) PROVE LinksKept'
  <2>1. LinksKept /\ Recorded' = Recorded /\ UNCHANGED fetched
    BY <1>8, <1>a DEF OpenFail
  <2>2. Broken => Broken'
    BY <1>0, <1>8 DEF OpenFail, Broken, Ended
  <2>3. \A v \in Workers, x \in Urls : ToLookUp(v, x) =>
          (cur'[v].url = cur[v].url /\ ToLookUp(v, x)') \/ x \in Recorded' \/ Broken'
    BY <1>0, <1>8 DEF OpenFail, ToLookUp, Scanning, Broken, PC, Ended
  <2> QED
    BY <2>1, <2>2, <2>3, <1>b
<1>9. ASSUME NEW w \in Workers, SaveFile(w) PROVE LinksKept'
  <2>1. LinksKept /\ Recorded' = Recorded /\ UNCHANGED fetched
    BY <1>9, <1>a DEF SaveFile
  <2>2. Broken => Broken'
    BY <1>0, <1>9 DEF SaveFile, Broken, Ended
  <2>3. \A v \in Workers, x \in Urls : ToLookUp(v, x) =>
          (cur'[v].url = cur[v].url /\ ToLookUp(v, x)') \/ x \in Recorded' \/ Broken'
    BY <1>0, <1>9 DEF SaveFile, ToLookUp, Scanning, Broken, PC, Ended
  <2> QED
    BY <2>1, <2>2, <2>3, <1>b
<1>10. ASSUME NEW w \in Workers, InsertTask(w) PROVE LinksKept'
  <2>1. LinksKept /\ Recorded' = Recorded /\ UNCHANGED fetched
    BY <1>10, <1>a DEF InsertTask
  <2>2. Broken => Broken'
    BY <1>0, <1>10 DEF InsertTask, Broken, Ended
  <2>3. \A v \in Workers, x \in Urls : ToLookUp(v, x) =>
          (cur'[v].url = cur[v].url /\ ToLookUp(v, x)') \/ x \in Recorded' \/ Broken'
    BY <1>0, <1>10 DEF InsertTask, ToLookUp, Scanning, Broken, PC, Ended
  <2> QED
    BY <2>1, <2>2, <2>3, <1>b
<1>11. ASSUME NEW w \in Workers, NextLink(w) PROVE LinksKept'
  <2>1. LinksKept /\ Recorded' = Recorded /\ UNCHANGED <<fetched, cur>>
    BY <1>11, <1>a DEF NextLink
  <2>2. Broken => Broken'
    BY <1>0, <1>11 DEF NextLink, Broken
  <2>3. /\ \A i \in 1 .. Len(todo[w]) : i = 1 \/ (i - 1 \in 1 .. Len(Tail(todo[w])) /\ Tail(todo[w])[i - 1] = todo[w][i])
        /\ Head(todo[w]) = todo[w][1]
    <3>1. todo[w] \in Seq(Links) /\ todo[w] # <<>>
      BY <1>0, <1>11 DEF NextLink
    <3> QED
      BY <3>1
  <2>4. ASSUME NEW x \in Urls, ToLookUp(w, x) PROVE ToLookUp(w, x)'
    <3>1. PICK i \in 1 .. Len(todo[w]) : todo[w][i].iflag /\ todo[w][i].href = x
      BY <1>11, <2>4 DEF NextLink, ToLookUp
    <3>2. todo'[w] = Tail(todo[w]) /\ pc'[w] \in Scanning
      BY <1>0, <1>11 DEF NextLink, Scanning
    <3>3. CASE i = 1
      BY <1>0, <1>11, <2>3, <3>1, <3>3 DEF NextLink, ToLookUp
    <3>4. CASE i # 1
      <4>1. i - 1 \in 1 .. Len(todo'[w]) /\ todo'[w][i - 1] = todo[w][i]
        BY <2>3, <3>2, <3>4
      <4> QED
        BY <3>1, <3>2, <4>1 DEF ToLookUp
    <3> QED
      BY <3>3, <3>4
  <2>5. \A v \in Workers \ {w}, x \in Urls : ToLookUp(v, x) => ToLookUp(v, x)'
    BY <1>0, <1>11 DEF NextLink, ToLookUp
  <2> QED
    BY <2>1, <2>2, <2>4, <2>5, <1>b
<1>12. ASSUME NEW w \in Workers, EndPage(w) PROVE LinksKept'
  <2>1. LinksKept /\ Recorded' = Recorded /\ UNCHANGED fetched
    BY <1>12, <1>a DEF EndPage
  <2>2. Broken => Broken'
    BY <1>0, <1>12 DEF EndPage, Broken, Ended
  <2>3. \A v \in Workers, x \in Urls : ToLookUp(v, x) =>
          (cur'[v].url = cur[v].url /\ ToLookUp(v, x)') \/ x \in Recorded' \/ Broken'
    BY <1>0, <1>12 DEF EndPage, ToLookUp, Scanning, Broken, PC, Ended
  <2> QED
    BY <2>1, <2>2, <2>3, <1>b
<1>13. ASSUME NEW w \in Workers, Lock(w) PROVE LinksKept'
  <2>1. LinksKept /\ Recorded' = Recorded /\ UNCHANGED fetched
    BY <1>13, <1>a DEF Lock
  <2>2. Broken => Broken'
    BY <1>0, <1>13 DEF Lock, Broken, Ended
  <2>3. \A v \in Workers, x \in Urls : ToLookUp(v, x) =>
          (cur'[v].url = cur[v].url /\ ToLookUp(v, x)') \/ x \in Recorded' \/ Broken'
    BY <1>0, <1>13 DEF Lock, ToLookUp, Scanning, Broken, PC, Ended
  <2> QED
    BY <2>1, <2>2, <2>3, <1>b
<1>14. ASSUME NEW w \in Workers, LockFail(w) PROVE LinksKept'
  <2>1. LinksKept /\ Recorded' = Recorded /\ UNCHANGED fetched
    BY <1>14, <1>a DEF LockFail
  <2>2. Broken => Broken'
    BY <1>0, <1>14 DEF LockFail, Broken, Ended
  <2>3. \A v \in Workers, x \in Urls : ToLookUp(v, x) =>
          (cur'[v].url = cur[v].url /\ ToLookUp(v, x)') \/ x \in Recorded' \/ Broken'
    BY <1>0, <1>14 DEF LockFail, ToLookUp, Scanning, Broken, PC, Ended
  <2> QED
    BY <2>1, <2>2, <2>3, <1>b
<1>15. ASSUME NEW w \in Workers, CheckDone(w) PROVE LinksKept'
  <2>1. LinksKept /\ Recorded' = Recorded /\ UNCHANGED fetched
    BY <1>15, <1>a DEF CheckDone
  <2>2. Broken => Broken'
    BY <1>0, <1>15 DEF CheckDone, Broken, Ended
  <2>3. \A v \in Workers, x \in Urls : ToLookUp(v, x) =>
          (cur'[v].url = cur[v].url /\ ToLookUp(v, x)') \/ x \in Recorded' \/ Broken'
    <3> SUFFICES ASSUME NEW v \in Workers, NEW x \in Urls, ToLookUp(v, x)
                 PROVE  (cur'[v].url = cur[v].url /\ ToLookUp(v, x)') \/ x \in Recorded'
      OBVIOUS
    <3>1. CASE v # w
      BY <1>0, <1>15, <3>1 DEF CheckDone, Goto, ToLookUp, PC
    <3>2. CASE v = w /\ pc[w] \in Scanning
                   /\ \E i \in 1 .. Len(todo[w]) : todo[w][i].iflag /\ todo[w][i].href = x
      <4>1. UNCHANGED <<cur, todo>> /\ pc'[w] \in Scanning
        BY <1>0, <1>15 DEF CheckDone, Scanning
      <4> QED
        BY <3>2, <4>1 DEF ToLookUp
    <3>3. CASE v = w /\ href[w] = x
      <4>1. CASE href[w] \in Recorded
        BY <2>1, <3>3, <4>1
      <4>2. CASE href[w] \notin Recorded
        <5>1. UNCHANGED <<href, cur>> /\ pc'[w] = "write"
          BY <1>0, <1>15, <4>2 DEF CheckDone
        <5> QED
          BY <3>3, <5>1 DEF ToLookUp
      <4> QED
        BY <4>1, <4>2
    <3> QED
      BY <3>1, <3>2, <3>3 DEF ToLookUp
  <2> QED
    BY <2>1, <2>2, <2>3, <1>b
<1>16. ASSUME NEW w \in Workers, WriteDone(w) PROVE LinksKept'
  <2>1. PICK i \in 0 .. UrlNum :
          /\ IsFirstFree(i)
          /\ donelist' = IF i \in Slots THEN [donelist EXCEPT ![i] = href[w]] ELSE donelist
    BY <1>16 DEF WriteDone
  <2>2. i \in Slots /\ donelist[i] = EMPTY
    BY <2>1, IpcAssumption DEF IsFirstFree, HasRoom, Slots
  <2>3. LinksKept /\ UNCHANGED <<fetched, cur, href>>
    BY <1>16, <2>2 DEF WriteDone, HasRoom
  <2>4. href[w] \in Urls
    BY <1>0, <1>16 DEF WriteDone, HandsFull
  <2>5. Recorded' = Recorded \union {href[w]}
    BY <1>0, <2>1, <2>2, <2>4, IpcAssumption DEF Recorded
  <2>6. Broken => Broken'
    BY <1>0, <1>16 DEF WriteDone, Broken
  <2>7. \A v \in Workers, x \in Urls : ToLookUp(v, x) => ToLookUp(v, x)' \/ x \in Recorded'
    BY <1>0, <1>16, <2>5 DEF WriteDone, ToLookUp, Scanning
  <2> QED
    BY <2>3, <2>5, <2>6, <2>7, <1>b
<1>17. ASSUME NEW w \in Workers, Unlock(w) PROVE LinksKept'
  <2>1. LinksKept /\ Recorded' = Recorded /\ UNCHANGED fetched
    BY <1>17, <1>a DEF Unlock
  <2>2. Broken => Broken'
    BY <1>0, <1>17 DEF Unlock, Broken, Ended
  <2>3. \A v \in Workers, x \in Urls : ToLookUp(v, x) =>
          (cur'[v].url = cur[v].url /\ ToLookUp(v, x)') \/ x \in Recorded' \/ Broken'
    BY <1>0, <1>17 DEF Unlock, ToLookUp, Scanning, Broken, PC, Ended
  <2> QED
    BY <2>1, <2>2, <2>3, <1>b
<1>18. ASSUME NEW w \in Workers, SendLink(w) PROVE LinksKept'
  <2>1. LinksKept /\ Recorded' = Recorded /\ UNCHANGED fetched
    BY <1>18, <1>a DEF SendLink
  <2>2. Broken => Broken'
    BY <1>0, <1>18 DEF SendLink, Broken, Ended
  <2>3. \A v \in Workers, x \in Urls : ToLookUp(v, x) =>
          (cur'[v].url = cur[v].url /\ ToLookUp(v, x)') \/ x \in Recorded' \/ Broken'
    BY <1>0, <1>18 DEF SendLink, ToLookUp, Scanning, Broken, PC, Ended
  <2> QED
    BY <2>1, <2>2, <2>3, <1>b
<1>19. ASSUME NEW w \in Workers, SendLinkFail(w) PROVE LinksKept'
  <2>1. LinksKept /\ Recorded' = Recorded /\ UNCHANGED fetched
    BY <1>19, <1>a DEF SendLinkFail
  <2>2. Broken => Broken'
    BY <1>0, <1>19 DEF SendLinkFail, Broken, Ended
  <2>3. \A v \in Workers, x \in Urls : ToLookUp(v, x) =>
          (cur'[v].url = cur[v].url /\ ToLookUp(v, x)') \/ x \in Recorded' \/ Broken'
    BY <1>0, <1>19 DEF SendLinkFail, ToLookUp, Scanning, Broken, PC, Ended
  <2> QED
    BY <2>1, <2>2, <2>3, <1>b
<1>20. ASSUME NEW w \in Workers, Crash(w) PROVE LinksKept'
  <2>1. LinksKept /\ Recorded' = Recorded /\ UNCHANGED fetched
    BY <1>20, <1>a DEF Crash
  <2>2. Broken => Broken'
    BY <1>0, <1>20 DEF Crash, Broken, Ended
  <2>3. \A v \in Workers, x \in Urls : ToLookUp(v, x) =>
          (cur'[v].url = cur[v].url /\ ToLookUp(v, x)') \/ x \in Recorded' \/ Broken'
    BY <1>0, <1>20 DEF Crash, ToLookUp, Scanning, Broken, PC, Ended
  <2> QED
    BY <2>1, <2>2, <2>3, <1>b
<1>21. CASE UNCHANGED vars
  BY <1>0, <1>21, <1>a DEF vars, workerVars, LinksKept, LinkKept, ToLookUp, Broken, Recorded
<1> QED
  BY <1>1, <1>2, <1>3, <1>4, <1>5, <1>6, <1>7, <1>8, <1>9, <1>10, <1>11, <1>12, <1>13, <1>14, <1>15, <1>16, <1>17, <1>18, <1>19, <1>20, <1>21 DEF Next, Step, Finished

-----------------------------------------------------------------------------
(* When every process left through the timeout: no message is left, every   *)
(* claim is accounted for, and while the table had room the links of what   *)
(* was fetched lead on to the whole site.                                   *)
LEMMA CleanMeansServed ==
  ASSUME Inv, Attended, NoUrlForgotten, CleanStop
  PROVE  queue = <<>> /\ \A u \in Recorded \union {Seed} : Served(u)
<1>1. queue = <<>>
  BY DEF CleanStop, Attended, Broken, Ended
<1>2. \A u : ~ InQueue(u)
  BY <1>1 DEF InQueue
<1>3. \A w \in Workers : InHand(w) = {}
  BY DEF CleanStop, InHand, Holding, Linking
<1> QED
  BY <1>1, <1>2, <1>3 DEF NoUrlForgotten, Pending

LEMMA CleanMeansLinked ==
  ASSUME LinksKept, CleanStop
  PROVE  \A u \in Urls : fetched[u] > 0 => LinksOf(u) \subseteq Recorded
<1>1. ~ Broken /\ \A w \in Workers : \A x : ~ ToLookUp(w, x)
  BY DEF CleanStop, Broken, ToLookUp, Scanning
<1> QED
  BY <1>1 DEF LinksKept, LinkKept

LEMMA CleanMeansReached ==
  ASSUME TypeOK,
         \A u \in Recorded \union {Seed} : Served(u),
         \A u \in Urls : fetched[u] > 0 => LinksOf(u) \subseteq Recorded,
         \A u \in Urls : fate[u] = {}
  PROVE  \A u \in Reachable : fetched[u] > 0
<1> DEFINE T == {n \in Nat : \A u \in Pages[n + 1] : u \in Urls /\ fetched[u] > 0}
<1>0. \A u \in Urls : u \in Recorded \union {Seed} => fetched[u] > 0
  BY DEF Served
<1>1. 0 \in T
  <2>1. \A u \in Pages[0 + 1] : u = Seed
    BY PagesNext
  <2> QED
    BY <1>0, <2>1, WorkersAssumption
<1>2. ASSUME NEW n \in Nat, n \in T PROVE n + 1 \in T
  <2> SUFFICES ASSUME NEW x \in Pages[(n + 1) + 1] PROVE x \in Urls /\ fetched[x] > 0
    OBVIOUS
  <2>1. n + 1 \in Nat \ {0}
    OBVIOUS
  <2>2. PICK u \in Pages[n + 1] : x \in LinksOf(u)
    BY <2>1, PagesNext
  <2>3. u \in Urls /\ fetched[u] > 0
    BY <1>2
  <2> QED
    BY <1>0, <2>2, <2>3, LinksAreUrls
<1> HIDE DEF T
<1>3. Nat \subseteq T
  BY <1>1, <1>2, InductionNat
<1>4. ASSUME NEW n \in 1 .. Cardinality(Urls), NEW u \in Pages[n] PROVE fetched[u] > 0
  <2>1. n - 1 \in Nat /\ (n - 1) + 1 = n
    OBVIOUS
  <2> QED
    BY <1>3, <1>4, <2>1 DEF T
<1> QED
  BY <1>4 DEF Reachable

(* No worker gives up while work for it could still come: the site is       *)
(* crawled when all have ended by themselves.                               *)
THEOREM CompleteAtEnd == Spec => []CrawlComplete
<1>1. Init => LinksInHand /\ DoneInv
  BY LinksInit, DoneInit
<1>2. Inv /\ LinksInHand /\ DoneInv /\ [Next]_vars => (LinksInHand /\ DoneInv)'
  BY LinksNext, AttendedNext, LinksKeptNext DEF DoneInv
<1>3. Inv /\ DoneInv /\ NoUrlForgotten => CrawlComplete
  <2> SUFFICES ASSUME Inv, DoneInv, NoUrlForgotten, CleanStop
               PROVE  /\ queue = <<>>
                      /\ \A u \in Recorded \union {Seed} : Served(u)
                      /\ HasRoom => \A u \in Urls : fetched[u] > 0 => LinksOf(u) \subseteq Recorded
                      /\ HasRoom /\ (\A u \in Urls : fate[u] = {})
                           => \A u \in Reachable : fetched[u] > 0
    BY DEF CrawlComplete
  <2>1. queue = <<>> /\ \A u \in Recorded \union {Seed} : Served(u)
    BY CleanMeansServed DEF DoneInv
  <2>2. HasRoom => \A u \in Urls : fetched[u] > 0 => LinksOf(u) \subseteq Recorded
    BY CleanMeansLinked DEF DoneInv
  <2>3. HasRoom /\ (\A u \in Urls : fate[u] = {}) => \A u \in Reachable : fetched[u] > 0
    BY <2>1, <2>2, CleanMeansReached DEF Inv
  <2> QED
    BY <2>1, <2>2, <2>3
<1> QED
  BY <1>1, <1>2, <1>3, InvAlways, NothingForgotten, PTL DEF Spec

=============================================================================
