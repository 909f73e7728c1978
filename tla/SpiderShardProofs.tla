-------------------------- MODULE SpiderShardProofs --------------------------
(***************************************************************************)
(* Proofs about a shard, for every number of processes, every list and     *)
(* window, every configuration and every set of faults.                    *)
(***************************************************************************)
EXTENDS SpiderShard, SequenceTheorems, Recursion

(***************************************************************************)
(* The page windows: the three tests of get_href leave exactly the pages    *)
(* between the bounds, the way into a window lies in it, and the shards     *)
(* that the scripts start share out the pages.                             *)
(***************************************************************************)
(* The three tests, of which two ask for one bound only, together refuse   *)
(* the pages that lie out of the window, and no other.                     *)
LEMMA OutsideIsNotInside ==
  ASSUME NEW win \in Windows, NEW p \in Nat
  PROVE  Outside(win, p) <=> ~ Inside(win, p)
BY DEF Outside, Inside, Windows

(* The page that a process enters the window by is a page of the window,    *)
(* when there is one at all.                                                *)
LEMMA EntryInside ==
  ASSUME NEW win \in Windows, NEW p \in Nat, Sound(win), Outside(win, p)
  PROVE  Inside(win, Entry(win)) /\ Entry(win) # 0
BY DEF Outside, Inside, Windows, Sound, Entry

LEMMA BatchSpan ==
  ASSUME NEW k \in 0 .. 9
  PROVE  /\ BatchWindow(k) \in Windows
         /\ Sound(BatchWindow(k))
         /\ \A p \in Nat \ {0} :
              Inside(BatchWindow(k), p)
                <=> (p >= 1000 * k + 1 /\ (k # 9 => p <= 1000 * (k + 1)))
BY DEF BatchWindow, Windows, Sound, Inside

LEMMA PersonSpan ==
  ASSUME NEW k \in Nat
  PROVE  /\ PersonWindow(k) \in Windows
         /\ Sound(PersonWindow(k))
         /\ \A p \in Nat \ {0} :
              Inside(PersonWindow(k), p) <=> (p >= 1000 * k + 1 /\ p <= 1000 * (k + 1))
BY DEF PersonWindow, Windows, Sound, Inside

(* The thousand that a page is in. *)
LEMMA Thousand ==
  ASSUME NEW p \in Nat \ {0}, p <= 9000
  PROVE  \E k \in 0 .. 8 : p >= 1000 * k + 1 /\ p <= 1000 * (k + 1)
<1>1. CASE p <= 3000
  <2>1. \E k \in {0, 1, 2} : p >= 1000 * k + 1 /\ p <= 1000 * (k + 1)
    BY <1>1
  <2> QED BY <2>1
<1>2. CASE p > 3000 /\ p <= 6000
  <2>1. \E k \in {3, 4, 5} : p >= 1000 * k + 1 /\ p <= 1000 * (k + 1)
    BY <1>2
  <2> QED BY <2>1
<1>3. CASE p > 6000
  <2>1. \E k \in {6, 7, 8} : p >= 1000 * k + 1 /\ p <= 1000 * (k + 1)
    BY <1>3
  <2> QED BY <2>1
<1> QED BY <1>1, <1>2, <1>3

(* batch.sh: every page of the list, however long it is, lies in exactly     *)
(* one of the ten shards.                                                   *)
THEOREM BatchPartition ==
  ASSUME NEW p \in Nat \ {0}
  PROVE  \E k \in 0 .. 9 : /\ Inside(BatchWindow(k), p)
                           /\ \A m \in 0 .. 9 : Inside(BatchWindow(m), p) => m = k
<1>1. CASE p > 9000
  <2>1. Inside(BatchWindow(9), p)
    BY <1>1, BatchSpan
  <2>2. \A m \in 0 .. 9 : Inside(BatchWindow(m), p) => m = 9
    BY <1>1, BatchSpan
  <2> QED BY <2>1, <2>2
<1>2. CASE p <= 9000
  <2>1. PICK k \in 0 .. 8 : p >= 1000 * k + 1 /\ p <= 1000 * (k + 1)
    BY <1>2, Thousand
  <2>2. Inside(BatchWindow(k), p)
    BY <2>1, BatchSpan
  <2>3. ASSUME NEW m \in 0 .. 9, Inside(BatchWindow(m), p) PROVE m = k
    <3>1. p >= 1000 * m + 1 /\ (m # 9 => p <= 1000 * (m + 1))
      BY <2>3, BatchSpan
    <3> QED BY <1>2, <2>1, <3>1
  <2> QED BY <2>2, <2>3
<1> QED BY <1>1, <1>2

(* batch_unit.sh: the same ten shards but for the first, whose lower bound   *)
(* of 1 refuses no page.                                                    *)
THEOREM UnitSameShards ==
  ASSUME NEW p \in Nat \ {0}, NEW k \in 0 .. 9
  PROVE  Inside(UnitWindow(k), p) <=> Inside(BatchWindow(k), p)
<1>1. /\ UnitWindow(k).llt = BatchWindow(k).llt
      /\ UnitWindow(k).lgt = 1000 * k + 1
  BY DEF UnitWindow, BatchWindow
<1>2. CASE k = 0
  BY <1>1, <1>2 DEF Inside, BatchWindow
<1>3. CASE k # 0
  BY <1>1, <1>3 DEF Inside, BatchWindow
<1> QED BY <1>2, <1>3

(* batch_person.sh: no page is in two of the shards that it starts.         *)
THEOREM PersonDisjoint ==
  ASSUME NEW p \in Nat \ {0}, NEW k \in Nat, NEW m \in Nat,
         Inside(PersonWindow(k), p), Inside(PersonWindow(m), p)
  PROVE  k = m
<1>1. /\ p >= 1000 * k + 1 /\ p <= 1000 * (k + 1)
      /\ p >= 1000 * m + 1 /\ p <= 1000 * (m + 1)
  BY PersonSpan
<1> QED BY <1>1

-----------------------------------------------------------------------------
Fits(win) == win.lgt <= MaxPage /\ win.llt <= MaxPage

WindowFits == Fits(env) /\ Fits(file.win) /\ \A p \in Procs : Fits(window[p])

(* A process that fetches or scans has a message in hand, and it is in      *)
(* GetHtmlByUrl, for the URL of that message, exactly while it fetches.     *)
HandFull ==
  \A p \in Procs :
    /\ pc[p] \in {"fetch", "scan"} => cur[p] \in Msgs
    /\ pc[p] = "fetch" <=> asked[p] # NoUrl
    /\ pc[p] = "fetch" => asked[p] = cur[p].url

TypeInv == TypeOK /\ WindowFits /\ HandFull

-----------------------------------------------------------------------------
(* The calls on the handle keep the types of its variables. *)
LEMMA RenewType ==
  ASSUME CurlTypeOK, NEW p \in Procs, NEW made \in BOOLEAN, NEW b \in 0 .. MaxPage,
         Renew(p, made, b)
  PROVE  /\ pCurl' \in [Procs -> BOOLEAN]
         /\ handles' \in [Procs -> Int]
         /\ body' \in [Procs -> 0 .. MaxPage]
         /\ served' \in [Procs -> Nat]
BY DEF CurlTypeOK, Renew

LEMMA SetBodyType ==
  ASSUME NEW u \in Urls, NEW b \in 0 .. MaxPage
  PROVE  SetBody(u, b) \in 0 .. MaxPage
BY DEF SetBody, Urls

LEMMA FirstHandleType ==
  ASSUME CurlTypeOK, NEW p \in Procs, FirstHandle(p)
  PROVE  CurlTypeOK'
BY DEF CurlTypeOK, FirstHandle

LEMMA CallType ==
  ASSUME CurlTypeOK, NEW p \in Procs, NEW u \in Urls, Call(p, u)
  PROVE  CurlTypeOK'
<1>0. 0 \in 0 .. MaxPage
  BY CurlAssumption
<1>1. asked' \in [Procs -> Urls \union {NoUrl}] /\ totalcnt' = totalcnt
  BY DEF Call, CurlTypeOK
<1>2. CASE totalcnt[p] = 0
  <2>1. Renew(p, TRUE, SetBody(u, 0)) /\ SetBody(u, 0) \in 0 .. MaxPage
    BY <1>0, <1>2, SetBodyType DEF Call
  <2> QED BY <1>1, <2>1, RenewType DEF CurlTypeOK
<1>3. CASE totalcnt[p] # 0
  <2>1. body[p] \in 0 .. MaxPage
    BY DEF CurlTypeOK
  <2>2. (IF pCurl[p] THEN SetBody(u, body[p]) ELSE body[p]) \in 0 .. MaxPage
    BY <2>1, SetBodyType
  <2>3. /\ body' = [body EXCEPT ![p] = IF pCurl[p] THEN SetBody(u, body[p]) ELSE body[p]]
        /\ UNCHANGED <<pCurl, handles, served>>
    BY <1>3 DEF Call
  <2>4. body' \in [Procs -> 0 .. MaxPage]
    BY <2>2, <2>3 DEF CurlTypeOK
  <2> QED BY <1>1, <2>3, <2>4 DEF CurlTypeOK
<1> QED BY <1>2, <1>3

LEMMA CallFailType ==
  ASSUME CurlTypeOK, NEW p \in Procs, CallFail(p)
  PROVE  CurlTypeOK' /\ asked' = asked
<1>0. 0 \in 0 .. MaxPage
  BY CurlAssumption
<1>1. Renew(p, FALSE, 0) /\ UNCHANGED <<totalcnt, asked>>
  BY DEF CallFail
<1> QED BY <1>0, <1>1, RenewType DEF CurlTypeOK

LEMMA PerformFailType ==
  ASSUME CurlTypeOK, NEW p \in Procs, PerformFail(p)
  PROVE  CurlTypeOK'
<1>0. 0 \in 0 .. MaxPage
  BY CurlAssumption
<1>1. PICK made \in BOOLEAN : Renew(p, made, 0)
  BY DEF PerformFail
<1>2. asked' \in [Procs -> Urls \union {NoUrl}] /\ totalcnt' = totalcnt
  BY DEF PerformFail, CurlTypeOK
<1> QED BY <1>0, <1>1, <1>2, RenewType DEF CurlTypeOK

LEMMA PerformOkType ==
  ASSUME CurlTypeOK, NEW p \in Procs, NEW c, PerformOk(p, c)
  PROVE  CurlTypeOK'
<1>1. /\ asked' \in [Procs -> Urls \union {NoUrl}]
      /\ served' \in [Procs -> Nat]
      /\ UNCHANGED <<pCurl, handles, body>>
  BY DEF PerformOk, CurlTypeOK
<1>2. totalcnt[p] \in 0 .. RENEW - 1
  BY DEF CurlTypeOK
<1>3. (IF totalcnt[p] + 1 = RENEW THEN 0 ELSE totalcnt[p] + 1) \in 0 .. RENEW - 1
  BY <1>2, CurlAssumption
<1>4. totalcnt' \in [Procs -> 0 .. RENEW - 1]
  BY <1>3 DEF PerformOk, CurlTypeOK
<1> QED BY <1>1, <1>4 DEF CurlTypeOK

(* What comes back is a page of the list that was asked for. *)
LEMMA AnswerType ==
  ASSUME CurlTypeOK, NEW p \in Procs, asked[p] \in Urls, NEW c \in Answers(p)
  PROVE  c \in Urls /\ c.base = asked[p].base
<1>1. body[p] \in 0 .. MaxPage /\ 0 \in 0 .. MaxPage
  BY CurlAssumption DEF CurlTypeOK
<1>2. c \in {[asked[p] EXCEPT !.page = 0], [asked[p] EXCEPT !.page = body[p]]}
  BY DEF Answers
<1> QED BY <1>1, <1>2 DEF Urls

-----------------------------------------------------------------------------
LEMMA GotoType ==
  ASSUME TypeOK, NEW p \in Procs, NEW to \in PC, Goto(p, to)
  PROVE  pc' \in [Procs -> PC] /\ pc'[p] = to
BY DEF TypeOK, Goto

LEMMA AgainType ==
  ASSUME NEW m \in Msgs
  PROVE  Again(m) \in Msgs /\ Again(m).url = m.url
BY DEF Again, Msgs

LEMMA HeadMsg ==
  ASSUME TypeOK, queue # <<>>
  PROVE  Head(queue) \in Msgs /\ Tail(queue) \in Seq(Msgs)
BY HeadTailProperties DEF TypeOK

LEMMA HeadAnchor ==
  ASSUME TypeOK, NEW p \in Procs, todo[p] # <<>>
  PROVE  Head(todo[p]) \in AnchorType /\ Tail(todo[p]) \in Seq(AnchorType)
<1>1. todo[p] \in Seq(AnchorType)
  BY DEF TypeOK
<1> QED BY <1>1, HeadTailProperties

LEMMA NotAUrl == NoUrl \notin Urls
BY CurlAssumption

(* A message is in the queue after the call, or is not, which only a        *)
(* failing call explains.                                                   *)
LEMMA SendType ==
  ASSUME NEW q \in Seq(Msgs), NEW m \in Msgs, lost \subseteq Urls, Send(q, m)
  PROVE  queue' \in Seq(Msgs) /\ lost' \subseteq Urls
<1>1. Append(q, m) \in Seq(Msgs) /\ m.url \in Urls
  BY AppendProperties DEF Msgs
<1> QED BY <1>1 DEF Send

(* The window that a process finds is the shard's, or it has no bounds.     *)
LEMMA ConditionsType ==
  ASSUME TypeOK, WindowFits, NEW opens \in BOOLEAN
  PROVE  /\ Conditions(file, env, opens) \in {Shard, NoBounds}
         /\ Conditions(file, env, opens) \in Windows
         /\ Fits(Conditions(file, env, opens))
<1>1. /\ env \in Windows /\ Fits(env) /\ file.win \in Windows /\ Fits(file.win)
      /\ file.there \in BOOLEAN
  BY DEF TypeOK, WindowFits, PageFiles
<1>2. NoBounds \in Windows /\ Fits(NoBounds)
  BY CurlAssumption DEF NoBounds, Windows, Fits
<1> QED BY <1>1, <1>2 DEF Conditions, Shard

LEMMA ShardType ==
  ASSUME TypeInv
  PROVE  Shard \in Windows /\ Fits(Shard)
BY ConditionsType DEF TypeInv, Shard

LEMMA EnterType ==
  ASSUME TypeOK, WindowFits, NEW p \in Procs, EnterLoop(p)
  PROVE  /\ window' \in [Procs -> Windows]
         /\ \A q \in Procs : Fits(window'[q])
         /\ window'[p] \in {Shard, NoBounds}
         /\ \A q \in Procs \ {p} : window'[q] = window[q] /\ pc'[q] = pc[q]
         /\ pc' \in [Procs -> PC] /\ pc'[p] \in {"recv", "unopened"}
<1>1. PICK opens \in May("shixinconf") :
        window' = [window EXCEPT ![p] = Conditions(file, env, opens)]
  BY DEF EnterLoop
<1>2. PICK to \in {"recv", "unopened"} : Goto(p, to)
  BY DEF EnterLoop
<1>3. opens \in BOOLEAN
  BY DEF May
<1>4. window \in [Procs -> Windows] /\ pc \in [Procs -> PC]
  BY DEF TypeOK
<1>5. /\ pc' \in [Procs -> PC] /\ pc'[p] \in {"recv", "unopened"}
      /\ \A q \in Procs \ {p} : pc'[q] = pc[q]
  BY <1>2, <1>4 DEF Goto, PC
<1>6. PICK win \in Windows : win = Conditions(file, env, opens) /\ win \in {Shard, NoBounds} /\ Fits(win)
  BY <1>3, ConditionsType
<1>7. window' = [window EXCEPT ![p] = win]
  BY <1>1, <1>6
<1> QED BY <1>4, <1>5, <1>6, <1>7 DEF WindowFits

(* A link yields a URL of the site, with a page of the window or none. *)
LEMMA HrefType ==
  ASSUME TypeInv, NEW p \in Procs, pc[p] = "scan", NEW a \in AnchorType
  PROVE  GetHref(p, a) \in Urls \union {NoUrl}
<1>1. cur[p].url \in Urls
  BY DEF TypeInv, HandFull, Msgs
<1>2. cur[p].url.base \in Bases /\ 0 \in 0 .. MaxPage
  BY <1>1, CurlAssumption DEF Urls
<1>3. Entry(window[p]) \in 0 .. MaxPage
  BY CurlAssumption DEF TypeInv, TypeOK, WindowFits, Fits, Windows, Entry
<1>4. a.to \in Bases /\ a.page \in 0 .. MaxPage
  BY DEF AnchorType
<1>5. CASE a.kind \in Plain
  <2>1. a.kind # "goto"
    BY <1>5 DEF Plain
  <2>2. GetHref(p, a) = [base |-> a.to, page |-> 0]
    BY <1>5, <2>1 DEF GetHref
  <2> QED BY <1>2, <1>4, <2>2 DEF Urls
<1>6. CASE a.kind = "goto"
  BY <1>2, <1>3, <1>4, <1>6 DEF GetHref, Urls, Plain
<1>7. CASE a.kind \notin Plain /\ a.kind # "goto"
  BY <1>7 DEF GetHref
<1> QED BY <1>5, <1>6, <1>7

LEMMA InitType ==
  ASSUME Init
  PROVE  TypeInv
<1>1. SeedUrl \in Urls /\ 0 \in 0 .. MaxPage
  BY CurlAssumption, ShardAssumption DEF SeedUrl, Urls
<1>2. CurlTypeOK
  BY <1>1, CurlAssumption DEF Init, CurlInit, CurlTypeOK
<1>3. [url |-> SeedUrl, analyse_cnt |-> 0] \in Msgs
  BY <1>1 DEF Msgs
<1>4. queue \in Seq(Msgs)
  BY <1>3 DEF Init
<1>6. /\ env \in Windows /\ env.lgt <= MaxPage /\ env.llt <= MaxPage
      /\ file \in PageFiles /\ file.win.lgt <= MaxPage /\ file.win.llt <= MaxPage
  BY ShardAssumption DEF Init
<1>7. NoBounds \in Windows /\ Fits(NoBounds)
  BY CurlAssumption DEF NoBounds, Windows, Fits
<1>8. window \in [Procs -> Windows] /\ WindowFits
  BY <1>6, <1>7 DEF Init, WindowFits, Fits
<1>9. /\ pc \in [Procs -> PC]
      /\ lists \in [Procs -> [ConfFiles -> SUBSET Words]]
      /\ todo \in [Procs -> Seq(AnchorType)]
      /\ cur \in [Procs -> Msgs \union {NoMsg}]
  BY DEF Init, PC, NoWords
<1>10. /\ recorded \subseteq Urls /\ fetched \subseteq Urls
       /\ seen \subseteq Urls /\ dropped \subseteq Urls /\ lost \subseteq Urls
       /\ idownload \in [Procs -> BOOLEAN]
       /\ ifileflag \in [Procs -> BOOLEAN]
       /\ flag \in [Procs -> BOOLEAN]
       /\ iflag \in [Procs -> BOOLEAN]
  BY DEF Init
<1>11. HandFull
  BY DEF Init, CurlInit, HandFull
<1> QED BY <1>2, <1>4, <1>6, <1>8, <1>9, <1>10, <1>11 DEF TypeInv, TypeOK

(* Every action keeps the types. *)
LEMMA NextType ==
  ASSUME TypeInv, [Next]_vars
  PROVE  TypeInv'
<1> USE DEF TypeInv
<1>0. /\ queue \in Seq(Msgs) /\ lost \subseteq Urls
      /\ pc \in [Procs -> PC] /\ asked \in [Procs -> Urls \union {NoUrl}]
  BY DEF TypeOK, CurlTypeOK
<1>1. ASSUME NEW p \in Procs, OpenNothing(p)
      PROVE  TypeInv'
  <2>1. EnterLoop(p) /\ pc[p] = "start"
    BY <1>1 DEF OpenNothing
  <2>2. /\ window' \in [Procs -> Windows] /\ \A q \in Procs : Fits(window'[q])
        /\ pc' \in [Procs -> PC] /\ pc'[p] \in {"recv", "unopened"}
        /\ \A q \in Procs \ {p} : pc'[q] = pc[q]
    BY <2>1, EnterType
  <2>3. TypeOK' /\ WindowFits'
    BY <1>1, <2>2 DEF OpenNothing, TypeOK, CurlTypeOK, curlVars, given, past, WindowFits, Fits
  <2>4. asked' = asked /\ cur' = cur
    BY <1>1 DEF OpenNothing, curlVars
  <2>5. HandFull'
    BY <2>1, <2>2, <2>4 DEF HandFull
  <2> QED BY <2>3, <2>5
<1>2. ASSUME NEW p \in Procs, OpenNoMemory(p)
      PROVE  TypeInv'
  <2>1. pc' \in [Procs -> PC] /\ CurlTypeOK'
    BY <1>2, GotoType, FirstHandleType DEF OpenNoMemory, PC, TypeOK
  <2>2. TypeOK' /\ WindowFits'
    BY <1>2, <2>1 DEF OpenNoMemory, TypeOK, given, own, past, WindowFits, Fits
  <2>3. HandFull'
    BY <1>2 DEF OpenNoMemory, HandFull, Goto, FirstHandle, TypeOK
  <2> QED BY <2>2, <2>3
<1>3. ASSUME NEW p \in Procs, OpenAll(p)
      PROVE  TypeInv'
  <2>1. EnterLoop(p) /\ pc[p] = "start" /\ CurlTypeOK'
    BY <1>3, FirstHandleType DEF OpenAll, TypeOK
  <2>2. PICK missing \in SUBSET (Faults \intersect ConfFiles) :
          lists' = [lists EXCEPT ![p] =
                     [f \in ConfFiles |-> IF f \in missing THEN {} ELSE Conf[f]]]
    BY <1>3 DEF OpenAll
  <2>3. [f \in ConfFiles |-> IF f \in missing THEN {} ELSE Conf[f]]
          \in [ConfFiles -> SUBSET Words]
    BY ShardAssumption
  <2>4. lists' \in [Procs -> [ConfFiles -> SUBSET Words]]
    BY <2>2, <2>3 DEF TypeOK
  <2>5. idownload' \in [Procs -> BOOLEAN]
    BY <1>3, ShardAssumption DEF OpenAll, LoadPath, TypeOK
  <2>6. /\ window' \in [Procs -> Windows] /\ \A q \in Procs : Fits(window'[q])
        /\ pc' \in [Procs -> PC] /\ pc'[p] \in {"recv", "unopened"}
        /\ \A q \in Procs \ {p} : pc'[q] = pc[q]
    BY <2>1, EnterType
  <2>7. TypeOK' /\ WindowFits'
    BY <1>3, <2>1, <2>4, <2>5, <2>6 DEF OpenAll, TypeOK, given, past, WindowFits, Fits
  <2>8. asked' = asked /\ cur' = cur
    BY <1>3 DEF OpenAll, FirstHandle
  <2>9. HandFull'
    BY <2>1, <2>6, <2>8 DEF HandFull
  <2> QED BY <2>7, <2>9
<1>4. ASSUME NEW p \in Procs, RecvMsg(p)
      PROVE  TypeInv'
  <2> DEFINE m == Head(queue)
  <2>1. /\ m \in Msgs /\ m.url \in Urls /\ Tail(queue) \in Seq(Msgs)
        /\ pc[p] = "recv"
    BY <1>4, HeadMsg DEF RecvMsg, Msgs
  <2>2. /\ UNCHANGED <<given, own, recorded, ifileflag, flag, iflag, todo, fetched, seen>>
        /\ \/ /\ queue' = Tail(queue)
              /\ dropped' = dropped \union {m.url}
              /\ UNCHANGED <<curlVars, cur, pc, lost>>
           \/ /\ Call(p, m.url)
              /\ queue' = Tail(queue)
              /\ cur' = [cur EXCEPT ![p] = m]
              /\ Goto(p, "fetch")
              /\ UNCHANGED <<dropped, lost>>
           \/ /\ CallFail(p)
              /\ Send(Tail(queue), Again(m))
              /\ UNCHANGED <<cur, pc, dropped>>
    BY <1>4 DEF RecvMsg
  <2> HIDE DEF m
  <2>3. CASE /\ queue' = Tail(queue)
             /\ dropped' = dropped \union {m.url}
             /\ UNCHANGED <<curlVars, cur, pc, lost>>
    <3>1. TypeOK' /\ WindowFits'
      BY <2>1, <2>2, <2>3 DEF TypeOK, CurlTypeOK, curlVars, given, own, WindowFits, Fits
    <3>2. HandFull'
      BY <2>3 DEF HandFull, curlVars
    <3> QED BY <3>1, <3>2
  <2>4. CASE /\ Call(p, m.url)
             /\ queue' = Tail(queue)
             /\ cur' = [cur EXCEPT ![p] = m]
             /\ Goto(p, "fetch")
             /\ UNCHANGED <<dropped, lost>>
    <3>1. CurlTypeOK' /\ pc' \in [Procs -> PC] /\ cur' \in [Procs -> Msgs \union {NoMsg}]
      BY <2>1, <2>4, CallType, GotoType DEF PC, TypeOK
    <3>2. TypeOK' /\ WindowFits'
      BY <2>1, <2>2, <2>4, <3>1 DEF TypeOK, given, own, WindowFits, Fits
    <3>3. asked' = [asked EXCEPT ![p] = m.url]
      BY <2>4 DEF Call
    <3>4. HandFull'
      BY <2>1, <2>4, <3>3, NotAUrl DEF HandFull, Goto, TypeOK, CurlTypeOK
    <3> QED BY <3>2, <3>4
  <2>5. CASE /\ CallFail(p)
             /\ Send(Tail(queue), Again(m))
             /\ UNCHANGED <<cur, pc, dropped>>
    <3>1. CurlTypeOK' /\ asked' = asked
      BY <2>5, CallFailType DEF TypeOK
    <3>2. queue' \in Seq(Msgs) /\ lost' \subseteq Urls
      BY <1>0, <2>1, <2>5, AgainType, SendType
    <3>3. TypeOK' /\ WindowFits'
      BY <2>2, <2>5, <3>1, <3>2 DEF TypeOK, given, own, WindowFits, Fits
    <3>4. HandFull'
      BY <2>5, <3>1 DEF HandFull
    <3> QED BY <3>3, <3>4
  <2> QED BY <2>2, <2>3, <2>4, <2>5
<1>5. ASSUME NEW p \in Procs, RecvFail(p)
      PROVE  TypeInv'
  <2>1. pc' \in [Procs -> PC]
    BY <1>5, GotoType DEF RecvFail, PC
  <2>2. TypeOK' /\ WindowFits'
    BY <1>5, <2>1 DEF RecvFail, TypeOK, CurlTypeOK, curlVars, given, own, past, WindowFits, Fits
  <2>3. HandFull'
    BY <1>5 DEF RecvFail, HandFull, Goto, curlVars, TypeOK
  <2> QED BY <2>2, <2>3
<1>6. ASSUME NEW p \in Procs, Retry(p)
      PROVE  TypeInv'
  <2>1. CurlTypeOK' /\ pc' \in [Procs -> PC]
    BY <1>6, PerformFailType, GotoType DEF Retry, PC, TypeOK
  <2>2. cur[p] \in Msgs
    BY <1>6 DEF Retry, HandFull
  <2>3. /\ Send(queue, Again(cur[p]))
        /\ cur' = [cur EXCEPT ![p] = NoMsg]
        /\ asked' = [asked EXCEPT ![p] = NoUrl]
        /\ Goto(p, "recv")
    BY <1>6 DEF Retry, PerformFail
  <2>4. queue' \in Seq(Msgs) /\ lost' \subseteq Urls
    BY <1>0, <2>2, <2>3, AgainType, SendType
  <2>5. cur' \in [Procs -> Msgs \union {NoMsg}]
    BY <2>3 DEF TypeOK
  <2>6. TypeOK' /\ WindowFits'
    BY <1>6, <2>1, <2>4, <2>5 DEF Retry, TypeOK, given, own, WindowFits, Fits
  <2>7. HandFull'
    BY <2>3 DEF HandFull, Goto, TypeOK, CurlTypeOK
  <2> QED BY <2>6, <2>7
<1>7. ASSUME NEW p \in Procs, TakePage(p)
      PROVE  TypeInv'
  <2>1. cur[p] \in Msgs /\ asked[p] = cur[p].url /\ asked[p] \in Urls
    BY <1>7 DEF TakePage, HandFull, Msgs
  <2>2. PICK c \in Answers(p) :
          /\ PerformOk(p, c)
          /\ seen' = seen \union {c}
          /\ \/ /\ Goto(p, "failed") \/ Goto(p, "dead")
                /\ cur' = [cur EXCEPT ![p] = NoMsg]
                /\ UNCHANGED todo
             \/ /\ Goto(p, "scan")
                /\ todo' = [todo EXCEPT ![p] = Anchors[c]]
                /\ UNCHANGED cur
          /\ ifileflag' \in {ifileflag, [ifileflag EXCEPT ![p] = TRUE]}
    BY <1>7 DEF TakePage
  <2>3. c \in Urls
    BY <2>1, AnswerType DEF TypeOK
  <2>4. Anchors[c] \in Seq(AnchorType)
    BY <2>3, ShardAssumption
  <2>5. CurlTypeOK' /\ asked' = [asked EXCEPT ![p] = NoUrl]
    BY <2>2, PerformOkType DEF TypeOK, PerformOk
  <2>6. /\ pc' \in [Procs -> PC]
        /\ cur' \in [Procs -> Msgs \union {NoMsg}]
        /\ todo' \in [Procs -> Seq(AnchorType)]
        /\ ifileflag' \in [Procs -> BOOLEAN]
    BY <2>2, <2>4, GotoType DEF PC, TypeOK
  <2>7. TypeOK' /\ WindowFits'
    BY <1>7, <2>1, <2>2, <2>3, <2>5, <2>6 DEF TakePage, TypeOK, given, own, WindowFits, Fits
  <2>8. HandFull'
    BY <2>1, <2>2, <2>5 DEF HandFull, Goto, TypeOK, CurlTypeOK
  <2> QED BY <2>7, <2>8
<1>8. ASSUME NEW p \in Procs, ScanAnchor(p)
      PROVE  TypeInv'
  <2>1. /\ pc[p] = "scan" /\ todo[p] # <<>>
        /\ todo' = [todo EXCEPT ![p] = Tail(todo[p])]
        /\ UNCHANGED <<curlVars, given, own, pc, ifileflag, cur, fetched, seen, dropped>>
    BY <1>8 DEF ScanAnchor
  <2>2. Head(todo[p]) \in AnchorType /\ Tail(todo[p]) \in Seq(AnchorType)
    BY <2>1, HeadAnchor
  <2>3. PICK u \in Urls \union {NoUrl} : u = NextHref(p)
    BY <2>1, <2>2, HrefType DEF NextHref
  <2>4. flag' \in [Procs -> BOOLEAN] /\ iflag' \in [Procs -> BOOLEAN]
    BY <1>8 DEF ScanAnchor, TypeOK, EntryDue, FlagAfter
  <2>5. \/ u # NoUrl /\ Claim(u)
        \/ UNCHANGED <<recorded, queue, lost>>
    BY <1>8, <2>3 DEF ScanAnchor, Chosen
  <2>6. recorded' \subseteq Urls /\ queue' \in Seq(Msgs) /\ lost' \subseteq Urls
    <3>1. CASE UNCHANGED <<recorded, queue, lost>>
      BY <1>0, <3>1 DEF TypeOK
    <3>2. CASE u # NoUrl /\ Claim(u)
      <4>1. u \in Urls /\ [url |-> u, analyse_cnt |-> 0] \in Msgs
        BY <3>2 DEF Msgs
      <4>2. recorded' \subseteq Urls
        BY <3>2, <4>1 DEF Claim, TypeOK
      <4>3. Send(queue, [url |-> u, analyse_cnt |-> 0])
        BY <3>2 DEF Claim
      <4> QED BY <1>0, <4>1, <4>2, <4>3, SendType
    <3> QED BY <2>5, <3>1, <3>2
  <2>7. todo' \in [Procs -> Seq(AnchorType)]
    BY <2>1, <2>2 DEF TypeOK
  <2>8. TypeOK' /\ WindowFits'
    BY <2>1, <2>4, <2>6, <2>7 DEF TypeOK, CurlTypeOK, curlVars, given, own, WindowFits, Fits
  <2>9. HandFull'
    BY <2>1 DEF HandFull, curlVars
  <2> QED BY <2>8, <2>9
<1>9. ASSUME NEW p \in Procs, EndPage(p) \/ LockFail(p)
      PROVE  TypeInv'
  <2>1. /\ pc' \in [Procs -> PC] /\ cur' \in [Procs -> Msgs \union {NoMsg}]
        /\ todo' \in [Procs -> Seq(AnchorType)]
    <3>1. /\ Goto(p, "recv") \/ Goto(p, "failed")
          /\ cur' = [cur EXCEPT ![p] = NoMsg]
          /\ todo' = todo \/ todo' = [todo EXCEPT ![p] = <<>>]
      BY <1>9 DEF EndPage, LockFail
    <3>2. pc' \in [Procs -> PC]
      BY <1>0, <3>1, "recv" \in PC, "failed" \in PC DEF PC, Goto, TypeOK
    <3>3. cur' \in [Procs -> Msgs \union {NoMsg}]
      BY <3>1 DEF TypeOK
    <3>4. <<>> \in Seq(AnchorType) /\ todo \in [Procs -> Seq(AnchorType)]
      BY DEF TypeOK
    <3>5. todo' \in [Procs -> Seq(AnchorType)]
      BY <3>1, <3>4
    <3> QED BY <3>2, <3>3, <3>5
  <2>2. UNCHANGED <<curlVars, given, own, queue, recorded, ifileflag, flag, iflag, past>>
    BY <1>9 DEF EndPage, LockFail
  <2>3. TypeOK' /\ WindowFits'
    BY <2>1, <2>2 DEF TypeOK, CurlTypeOK, curlVars, given, own, past, WindowFits, Fits
  <2>4. /\ pc[p] = "scan" /\ asked' = asked
        /\ cur' = [cur EXCEPT ![p] = NoMsg]
        /\ Goto(p, "recv") \/ Goto(p, "failed")
    BY <1>9, <2>2 DEF EndPage, LockFail, curlVars
  <2>5. HandFull'
    BY <2>4 DEF HandFull, Goto, TypeOK
  <2> QED BY <2>3, <2>5
<1>10. ASSUME UNCHANGED vars
       PROVE  TypeInv'
  BY <1>10 DEF vars, curlVars, shardVars, given, own, past, TypeOK, CurlTypeOK, WindowFits,
               Fits, HandFull
<1> QED
  BY <1>1, <1>2, <1>3, <1>4, <1>5, <1>6, <1>7, <1>8, <1>9, <1>10
     DEF Next, Step, Open, Finished

(* Every reachable state of every shard has its variables in their types. *)
THEOREM ShardTypeCorrect == Spec => []TypeOK
<1>1. Spec => []TypeInv
  BY InitType, NextType, PTL DEF Spec
<1> QED BY <1>1, PTL DEF TypeInv

-----------------------------------------------------------------------------
(* HandleSound is inductive with the count's part made exact: a count that   *)
(* is not 0 bounds the pages of this handle, and in a request with count 0   *)
(* the handle is new.  No process has a handle before it has opened one.     *)
HandleOf(p) ==
  /\ handles[p] = IF pCurl[p] THEN 1 ELSE 0
  /\ served[p] <= RENEW
  /\ totalcnt[p] = 0 /\ asked[p] # NoUrl => served[p] = 0
  /\ totalcnt[p] # 0 => served[p] <= totalcnt[p]

HandleInv == \A p \in Procs : HandleOf(p) /\ (pc[p] = "start" => ~ pCurl[p])

LEMMA RenewHandle ==
  ASSUME CurlTypeOK, NEW p \in Procs, NEW made \in BOOLEAN, NEW b, HandleOf(p),
         Renew(p, made, b)
  PROVE  /\ handles'[p] = IF pCurl'[p] THEN 1 ELSE 0
         /\ served'[p] = 0
         /\ \A q \in Procs \ {p} :
              pCurl'[q] = pCurl[q] /\ handles'[q] = handles[q] /\ served'[q] = served[q]
BY DEF CurlTypeOK, HandleOf, Renew

LEMMA CallHandle ==
  ASSUME CurlTypeOK, NEW p \in Procs, NEW u \in Urls, HandleOf(p),
         Call(p, u) \/ CallFail(p) \/ PerformFail(p)
  PROVE  /\ HandleOf(p)'
         /\ \A q \in Procs \ {p} :
              UNCHANGED <<pCurl[q], handles[q], served[q], totalcnt[q], asked[q]>>
<1>1. /\ totalcnt' = totalcnt
      /\ \A q \in Procs \ {p} : asked'[q] = asked[q]
  BY DEF Call, CallFail, PerformFail, CurlTypeOK
<1>2. CASE \E made \in BOOLEAN, b \in {0, SetBody(u, 0)} : Renew(p, made, b)
  <2>1. /\ handles'[p] = IF pCurl'[p] THEN 1 ELSE 0
        /\ served'[p] = 0
        /\ \A q \in Procs \ {p} :
             pCurl'[q] = pCurl[q] /\ handles'[q] = handles[q] /\ served'[q] = served[q]
    BY <1>2, RenewHandle
  <2>2. totalcnt[p] \in 0 .. RENEW - 1
    BY DEF CurlTypeOK
  <2> QED BY <1>1, <2>1, <2>2, CurlAssumption DEF HandleOf
<1>3. CASE totalcnt[p] # 0 /\ UNCHANGED <<pCurl, handles, served>>
  BY <1>1, <1>3 DEF HandleOf
<1>4. Call(p, u) => (totalcnt[p] = 0 /\ Renew(p, TRUE, SetBody(u, 0)))
                      \/ (totalcnt[p] # 0 /\ UNCHANGED <<pCurl, handles, served>>)
  BY DEF Call
<1>5. CallFail(p) => Renew(p, FALSE, 0)
  BY DEF CallFail
<1>6. PerformFail(p) => \E made \in BOOLEAN : Renew(p, made, 0)
  BY DEF PerformFail
<1> QED BY <1>2, <1>3, <1>4, <1>5, <1>6

LEMMA PerformOkHandle ==
  ASSUME CurlTypeOK, NEW p \in Procs, NEW c, HandleOf(p), PerformOk(p, c)
  PROVE  /\ HandleOf(p)'
         /\ \A q \in Procs \ {p} :
              UNCHANGED <<pCurl[q], handles[q], served[q], totalcnt[q], asked[q]>>
<1>1. /\ totalcnt[p] \in 0 .. RENEW - 1 /\ served[p] \in Nat
      /\ asked[p] # NoUrl
      /\ totalcnt'[p] = IF totalcnt[p] + 1 = RENEW THEN 0 ELSE totalcnt[p] + 1
      /\ served'[p] = served[p] + 1
      /\ asked'[p] = NoUrl
      /\ UNCHANGED <<pCurl, handles>>
  BY DEF CurlTypeOK, PerformOk
<1>2. served[p] <= totalcnt[p]
  BY <1>1 DEF HandleOf
<1>3. HandleOf(p)'
  BY <1>1, <1>2, CurlAssumption DEF HandleOf
<1>4. \A q \in Procs \ {p} :
        UNCHANGED <<pCurl[q], handles[q], served[q], totalcnt[q], asked[q]>>
  BY DEF CurlTypeOK, PerformOk
<1> QED BY <1>3, <1>4

(* An action that leaves the other processes' handles and their places, and *)
(* this one's handle sound, keeps the invariant.                            *)
LEMMA OneHandle ==
  ASSUME HandleInv, NEW p \in Procs, HandleOf(p)', pc'[p] # "start",
         \A q \in Procs \ {p} :
           /\ UNCHANGED <<pCurl[q], handles[q], served[q], totalcnt[q], asked[q]>>
           /\ pc'[q] = pc[q]
  PROVE  HandleInv'
BY DEF HandleInv, HandleOf

LEMMA NextHandle ==
  ASSUME TypeInv, HandleInv, [Next]_vars
  PROVE  HandleInv'
<1>0. CurlTypeOK /\ pc \in [Procs -> PC]
  BY DEF TypeInv, TypeOK
<1>1. ASSUME UNCHANGED curlVars,
             \A p \in Procs : pc'[p] = "start" => pc[p] = "start"
      PROVE  HandleInv'
  BY <1>1 DEF HandleInv, HandleOf, curlVars
<1>2. ASSUME NEW p \in Procs,
             \/ OpenNothing(p) \/ RecvFail(p) \/ ScanAnchor(p) \/ LockFail(p) \/ EndPage(p)
      PROVE  HandleInv'
  <2>1. UNCHANGED curlVars
    BY <1>2 DEF OpenNothing, RecvFail, ScanAnchor, LockFail, EndPage
  <2>2. \E to \in PC \ {"start"} : pc' = [pc EXCEPT ![p] = to] \/ pc' = pc
    BY <1>2 DEF OpenNothing, EnterLoop, RecvFail, ScanAnchor, LockFail, EndPage, Goto, PC
  <2> QED BY <1>0, <1>1, <2>1, <2>2
<1>3. ASSUME NEW p \in Procs, OpenNoMemory(p) \/ OpenAll(p)
      PROVE  HandleInv'
  <2>1. ~ pCurl[p] /\ HandleOf(p) /\ FirstHandle(p)
    BY <1>3 DEF HandleInv, OpenNoMemory, OpenAll
  <2>2. HandleOf(p)'
    BY <1>0, <2>1 DEF HandleOf, FirstHandle, CurlTypeOK
  <2>3. pc'[p] # "start" /\ \A q \in Procs \ {p} : pc'[q] = pc[q]
    BY <1>0, <1>3 DEF OpenNoMemory, OpenAll, EnterLoop, Goto
  <2>4. \A q \in Procs \ {p} :
          UNCHANGED <<pCurl[q], handles[q], served[q], totalcnt[q], asked[q]>>
    BY <2>1 DEF FirstHandle, CurlTypeOK
  <2> QED BY <2>2, <2>3, <2>4, OneHandle
<1>4. ASSUME NEW p \in Procs, RecvMsg(p)
      PROVE  HandleInv'
  <2>1. Head(queue).url \in Urls
    BY <1>4, HeadMsg DEF RecvMsg, Msgs, TypeInv
  <2>2. \/ UNCHANGED <<curlVars, pc>>
        \/ Call(p, Head(queue).url) /\ Goto(p, "fetch")
        \/ CallFail(p) /\ UNCHANGED pc
    BY <1>4 DEF RecvMsg
  <2>3. CASE UNCHANGED <<curlVars, pc>>
    BY <1>1, <2>3
  <2>4. CASE Call(p, Head(queue).url) /\ Goto(p, "fetch")
    <3>1. pc'[p] # "start" /\ \A q \in Procs \ {p} : pc'[q] = pc[q]
      BY <1>0, <2>4 DEF Goto
    <3> QED BY <1>0, <2>1, <2>4, <3>1, CallHandle, OneHandle DEF HandleInv
  <2>5. CASE CallFail(p) /\ UNCHANGED pc
    <3>1. pc'[p] # "start" /\ \A q \in Procs \ {p} : pc'[q] = pc[q]
      BY <1>4, <2>5 DEF RecvMsg
    <3> QED BY <1>0, <2>1, <2>5, <3>1, CallHandle, OneHandle DEF HandleInv
  <2> QED BY <2>2, <2>3, <2>4, <2>5
<1>5. ASSUME NEW p \in Procs, Retry(p)
      PROVE  HandleInv'
  <2>1. PerformFail(p) /\ pc'[p] # "start" /\ \A q \in Procs \ {p} : pc'[q] = pc[q]
    BY <1>0, <1>5 DEF Retry, Goto
  <2>2. SeedUrl \in Urls
    BY CurlAssumption, ShardAssumption DEF SeedUrl, Urls
  <2> QED BY <1>0, <2>1, <2>2, CallHandle, OneHandle DEF HandleInv
<1>6. ASSUME NEW p \in Procs, TakePage(p)
      PROVE  HandleInv'
  <2>1. PICK c \in Answers(p) :
          PerformOk(p, c) /\ (Goto(p, "failed") \/ Goto(p, "dead") \/ Goto(p, "scan"))
    BY <1>6 DEF TakePage
  <2>2. pc'[p] # "start" /\ \A q \in Procs \ {p} : pc'[q] = pc[q]
    BY <1>0, <2>1 DEF Goto
  <2> QED BY <1>0, <2>1, <2>2, PerformOkHandle, OneHandle DEF HandleInv
<1>7. ASSUME UNCHANGED vars
      PROVE  HandleInv'
  BY <1>1, <1>7 DEF vars, shardVars
<1> QED
  BY <1>2, <1>3, <1>4, <1>5, <1>6, <1>7 DEF Next, Step, Open, Finished

(* No process ever owns another handle than the one in use, and none serves *)
(* more than RENEW pages, whatever calls fail.                              *)
THEOREM HandlesSound == Spec => []HandleSound
<1>1. ASSUME Init
      PROVE  HandleInv
  <2> SUFFICES ASSUME NEW p \in Procs
               PROVE  HandleOf(p) /\ ~ pCurl[p]
    BY DEF HandleInv
  <2>1. handles[p] = 0 /\ ~ pCurl[p] /\ served[p] = 0 /\ totalcnt[p] = 0
    BY <1>1 DEF Init, CurlInit
  <2>2. 0 <= RENEW
    BY CurlAssumption
  <2> QED BY <2>1, <2>2 DEF HandleOf
<1>2. HandleInv => HandleSound
  BY DEF HandleInv, HandleOf, HandleSound
<1> QED BY <1>1, <1>2, InitType, NextType, NextHandle, PTL DEF Spec

-----------------------------------------------------------------------------
(* InWindow is inductive once it also speaks of what the processes have in  *)
(* hand.  A process that ran keeps the window that it found: the shard's,   *)
(* or one without bounds.                                                   *)
UrlsIn(q) == {q[i].url : i \in 1 .. Len(q)}

Known ==
  recorded \union fetched \union UrlsIn(queue)
    \union {cur[p].url : p \in {q \in Procs : pc[q] \in {"fetch", "scan"}}}

Roamed(u) == u.page # 0 => \E p \in Procs : Ran(p) /\ Inside(window[p], u.page)

WindowInv ==
  /\ \A p \in Procs : Ran(p) => window[p] \in {Shard, NoBounds}
  /\ Sound(Shard) => \A u \in Known : Roamed(u)

LEMMA UrlsAppend ==
  ASSUME NEW q \in Seq(Msgs), NEW m \in Msgs
  PROVE  UrlsIn(Append(q, m)) = UrlsIn(q) \union {m.url} /\ Append(q, m) # <<>>
<1>1. /\ Len(q) \in Nat /\ Len(Append(q, m)) = Len(q) + 1
      /\ \A i \in 1 .. Len(q) : Append(q, m)[i] = q[i]
      /\ Append(q, m)[Len(q) + 1] = m
  BY AppendProperties, LenProperties
<1>2. \A i \in 1 .. Len(q) + 1 : i \in 1 .. Len(q) \/ i = Len(q) + 1
  BY <1>1
<1>3. Len(q) + 1 \in 1 .. Len(q) + 1 /\ \A i \in 1 .. Len(q) : i \in 1 .. Len(q) + 1
  BY <1>1
<1>4. Append(q, m) # <<>>
  BY AppendProperties
<1> QED
  BY <1>1, <1>2, <1>3, <1>4 DEF UrlsIn

LEMMA UrlsTail ==
  ASSUME NEW q \in Seq(Msgs), q # <<>>
  PROVE  UrlsIn(q) = UrlsIn(Tail(q)) \union {Head(q).url} /\ Tail(q) \in Seq(Msgs)
<1>1. /\ Len(q) \in Nat /\ Len(q) >= 1 /\ Head(q) = q[1]
      /\ Tail(q) \in Seq(Msgs) /\ Len(Tail(q)) = Len(q) - 1
      /\ \A i \in 1 .. Len(Tail(q)) : Tail(q)[i] = q[i + 1]
  BY HeadTailProperties, EmptySeq, LenProperties
<1>2. ASSUME NEW i \in 1 .. Len(q) PROVE i = 1 \/ \E k \in 1 .. Len(q) - 1 : i = k + 1
  <2>1. i = 1 \/ i - 1 \in 1 .. Len(q) - 1
    BY <1>1
  <2>2. i = (i - 1) + 1
    BY <1>1
  <2> QED
    BY <2>1, <2>2
<1>3. 1 \in 1 .. Len(q) /\ \A k \in 1 .. Len(q) - 1 : k + 1 \in 1 .. Len(q)
  BY <1>1
<1>4. UrlsIn(q) \subseteq UrlsIn(Tail(q)) \union {Head(q).url}
  <2> SUFFICES ASSUME NEW i \in 1 .. Len(q)
               PROVE  q[i].url \in UrlsIn(Tail(q)) \union {Head(q).url}
    BY DEF UrlsIn
  <2>1. CASE i = 1
    BY <1>1, <2>1
  <2>2. CASE i # 1
    <3>1. PICK k \in 1 .. Len(Tail(q)) : i = k + 1
      BY <1>1, <1>2, <2>2
    <3>2. Tail(q)[k] = q[i]
      BY <1>1, <3>1
    <3> QED
      BY <3>1, <3>2 DEF UrlsIn
  <2> QED
    BY <2>1, <2>2
<1>5. UrlsIn(Tail(q)) \union {Head(q).url} \subseteq UrlsIn(q)
  BY <1>1, <1>3 DEF UrlsIn
<1> QED
  BY <1>1, <1>4, <1>5

LEMMA HrefWindow ==
  ASSUME TypeInv, NEW p \in Procs, Sound(window[p]), NEW a \in AnchorType,
         GetHref(p, a) # NoUrl, GetHref(p, a).page # 0
  PROVE  Inside(window[p], GetHref(p, a).page)
<1>1. window[p] \in Windows /\ a.page \in Nat
  BY CurlAssumption DEF TypeInv, TypeOK, AnchorType
<1>2. CASE a.kind \in Plain
  <2>1. a.kind # "goto"
    BY <1>2 DEF Plain
  <2>2. GetHref(p, a) = [base |-> a.to, page |-> 0]
    BY <1>2, <2>1 DEF GetHref
  <2> QED BY <2>2
<1>3. CASE a.kind = "goto"
  <2>1. a.kind \notin Plain
    BY <1>3 DEF Plain
  <2>2. CASE ~ Outside(window[p], a.page)
    <3>1. GetHref(p, a) = [base |-> cur[p].url.base, page |-> a.page]
      BY <1>3, <2>1, <2>2 DEF GetHref
    <3> QED BY <1>1, <2>2, <3>1, OutsideIsNotInside
  <2>3. CASE Outside(window[p], a.page)
    <3>1. GetHref(p, a) = [base |-> cur[p].url.base, page |-> Entry(window[p])]
      BY <1>3, <2>1, <2>3 DEF GetHref
    <3>2. Inside(window[p], Entry(window[p]))
      BY <1>1, <2>3, EntryInside
    <3> QED BY <3>1, <3>2
  <2> QED BY <2>2, <2>3
<1>4. CASE a.kind \notin Plain /\ a.kind # "goto"
  BY <1>4 DEF GetHref
<1> QED BY <1>2, <1>3, <1>4

(* What a send leaves in the queue. *)
LEMMA SendUrls ==
  ASSUME NEW q \in Seq(Msgs), NEW m \in Msgs, Send(q, m)
  PROVE  /\ UrlsIn(q) \subseteq UrlsIn(queue')
         /\ UrlsIn(queue') \subseteq UrlsIn(q) \union {m.url}
         /\ m.url \in UrlsIn(queue') \union lost' /\ lost \subseteq lost'
BY UrlsAppend DEF Send

(* What a process may turn to: nothing new but the page that an anchor of   *)
(* the page before it leads to.                                             *)
LEMMA KnownNext ==
  ASSUME TypeInv, [Next]_vars, NEW v \in Known'
  PROVE  \/ v \in Known
         \/ \E p \in Procs : ScanAnchor(p) /\ v = NextHref(p) /\ v # NoUrl
<1>0. /\ queue \in Seq(Msgs) /\ pc \in [Procs -> PC] /\ cur \in [Procs -> Msgs \union {NoMsg}]
  BY DEF TypeInv, TypeOK
<1>1. ASSUME UNCHANGED <<queue, recorded, fetched, cur>>,
             \A p \in Procs : pc'[p] \in {"fetch", "scan"} => pc[p] \in {"fetch", "scan"}
      PROVE  v \in Known
  BY <1>1 DEF Known, UrlsIn
<1>2. ASSUME NEW p \in Procs, Open(p) \/ RecvFail(p)
      PROVE  v \in Known
  <2>1. UNCHANGED <<queue, recorded, fetched, cur>>
    BY <1>2 DEF Open, OpenNothing, OpenNoMemory, OpenAll, RecvFail, past
  <2>2. \E to \in {"recv", "unopened", "exit"} : pc' = [pc EXCEPT ![p] = to]
    BY <1>2 DEF Open, OpenNothing, OpenNoMemory, OpenAll, EnterLoop, RecvFail, Goto
  <2> QED BY <1>0, <1>1, <2>1, <2>2
<1>3. ASSUME NEW p \in Procs, RecvMsg(p)
      PROVE  v \in Known
  <2>1. PICK m \in Msgs : m = Head(queue)
    BY <1>3, HeadMsg DEF RecvMsg, TypeInv
  <2>2. /\ queue # <<>>
        /\ UNCHANGED <<recorded, fetched>>
        /\ \/ queue' = Tail(queue) /\ UNCHANGED <<cur, pc>>
           \/ /\ queue' = Tail(queue)
              /\ cur' = [cur EXCEPT ![p] = m]
              /\ Goto(p, "fetch")
           \/ Send(Tail(queue), Again(m)) /\ UNCHANGED <<cur, pc>>
    BY <1>3, <2>1 DEF RecvMsg
  <2>3. UrlsIn(queue) = UrlsIn(Tail(queue)) \union {m.url} /\ Tail(queue) \in Seq(Msgs)
    BY <1>0, <2>1, <2>2, UrlsTail
  <2>4. UrlsIn(queue') \subseteq UrlsIn(queue)
    <3>1. CASE queue' = Tail(queue)
      BY <2>3, <3>1
    <3>2. CASE Send(Tail(queue), Again(m))
      BY <2>3, <3>2, AgainType, SendUrls
    <3> QED BY <2>2, <3>1, <3>2
  <2>5. \A q \in Procs : pc'[q] \in {"fetch", "scan"}
          => (q = p /\ cur'[q].url = m.url) \/ (pc[q] \in {"fetch", "scan"} /\ cur'[q] = cur[q])
    BY <1>0, <2>2 DEF Goto
  <2> QED BY <2>2, <2>3, <2>4, <2>5 DEF Known
<1>4. ASSUME NEW p \in Procs, Retry(p)
      PROVE  v \in Known
  <2>1. /\ pc[p] = "fetch" /\ cur[p] \in Msgs
        /\ UNCHANGED <<recorded, fetched>>
        /\ Send(queue, Again(cur[p]))
        /\ cur' = [cur EXCEPT ![p] = NoMsg]
        /\ Goto(p, "recv")
    BY <1>4 DEF Retry, TypeInv, HandFull
  <2>2. UrlsIn(queue') \subseteq UrlsIn(queue) \union {cur[p].url}
    BY <1>0, <2>1, AgainType, SendUrls
  <2>3. \A q \in Procs : pc'[q] \in {"fetch", "scan"}
          => pc[q] \in {"fetch", "scan"} /\ cur'[q] = cur[q]
    BY <1>0, <2>1 DEF Goto
  <2> QED BY <2>1, <2>2, <2>3 DEF Known
<1>5. ASSUME NEW p \in Procs, TakePage(p)
      PROVE  v \in Known
  <2>1. /\ pc[p] = "fetch"
        /\ UNCHANGED <<queue, recorded>>
        /\ fetched' = fetched \union {cur[p].url}
        /\ \/ (Goto(p, "failed") \/ Goto(p, "dead")) /\ cur' = [cur EXCEPT ![p] = NoMsg]
           \/ Goto(p, "scan") /\ cur' = cur
    BY <1>5 DEF TakePage
  <2>2. \A q \in Procs : pc'[q] \in {"fetch", "scan"}
          => pc[q] \in {"fetch", "scan"} /\ cur'[q] = cur[q]
    BY <1>0, <2>1 DEF Goto
  <2> QED BY <2>1, <2>2 DEF Known, UrlsIn
<1>6. ASSUME NEW p \in Procs, ScanAnchor(p)
      PROVE  v \in Known \/ (v = NextHref(p) /\ v # NoUrl)
  <2>1. PICK u : u = NextHref(p)
    OBVIOUS
  <2>2. /\ UNCHANGED <<fetched, cur, pc>>
        /\ UNCHANGED <<recorded, queue>> \/ (u # NoUrl /\ Claim(u))
    BY <1>6, <2>1 DEF ScanAnchor, Chosen
  <2>3. u # NoUrl => [url |-> u, analyse_cnt |-> 0] \in Msgs
    BY <1>6, <2>1, HeadAnchor, HrefType DEF ScanAnchor, NextHref, Msgs, TypeInv
  <2>4. CASE UNCHANGED <<recorded, queue>>
    BY <2>2, <2>4 DEF Known, UrlsIn
  <2>5. CASE u # NoUrl /\ Claim(u)
    <3>1. recorded' \subseteq recorded \union {u}
      BY <2>5 DEF Claim
    <3>2. UrlsIn(queue') \subseteq UrlsIn(queue) \union {u}
      BY <1>0, <2>3, <2>5, SendUrls DEF Claim
    <3> QED BY <2>1, <2>2, <2>5, <3>1, <3>2 DEF Known
  <2> QED BY <2>2, <2>4, <2>5
<1>7. ASSUME NEW p \in Procs, EndPage(p) \/ LockFail(p)
      PROVE  v \in Known
  <2>1. /\ UNCHANGED <<queue, recorded, fetched>>
        /\ cur' = [cur EXCEPT ![p] = NoMsg]
        /\ Goto(p, "recv") \/ Goto(p, "failed")
    BY <1>7 DEF EndPage, LockFail, past
  <2>2. \A q \in Procs : pc'[q] \in {"fetch", "scan"}
          => pc[q] \in {"fetch", "scan"} /\ cur'[q] = cur[q]
    BY <1>0, <2>1 DEF Goto
  <2> QED BY <2>1, <2>2 DEF Known, UrlsIn
<1>8. UNCHANGED vars => UNCHANGED <<queue, recorded, fetched, cur, pc>>
  BY DEF vars, shardVars, past
<1> QED
  BY <1>1, <1>2, <1>3, <1>4, <1>5, <1>6, <1>7, <1>8 DEF Next, Step, Finished

(* Only a process that starts gets a window, and it finds the shard's or    *)
(* none; a process that ran has run.                                        *)
LEMMA WindowStays ==
  ASSUME TypeInv, [Next]_vars, NEW p \in Procs
  PROVE  /\ Shard' = Shard
         /\ Ran(p) => Ran(p)' /\ window'[p] = window[p]
         /\ Ran(p)' /\ ~ Ran(p) => window'[p] \in {Shard, NoBounds}
<1>0. pc \in [Procs -> PC] /\ TypeOK /\ WindowFits
  BY DEF TypeInv, TypeOK
<1>1. UNCHANGED given
  BY DEF Next, Step, Open, OpenNothing, OpenNoMemory, OpenAll, RecvMsg, RecvFail, Retry,
         TakePage, ScanAnchor, LockFail, EndPage, Finished, vars, shardVars
<1>2. Shard' = Shard
  BY <1>1 DEF given, Shard
<1>3. ASSUME NEW q \in Procs, OpenNothing(q) \/ OpenAll(q)
      PROVE  /\ Ran(p) => Ran(p)' /\ window'[p] = window[p]
             /\ Ran(p)' /\ ~ Ran(p) => window'[p] \in {Shard, NoBounds}
  <2>1. pc[q] = "start" /\ EnterLoop(q)
    BY <1>3 DEF OpenNothing, OpenAll
  <2> QED BY <1>0, <2>1, EnterType DEF Ran
<1>4. ASSUME NEW q \in Procs, OpenNoMemory(q)
      PROVE  (Ran(p) => Ran(p)' /\ window'[p] = window[p]) /\ (Ran(p)' => Ran(p))
  BY <1>0, <1>4 DEF OpenNoMemory, own, Ran, Goto
<1>5. ASSUME NEW q \in Procs,
             \/ RecvMsg(q) \/ RecvFail(q) \/ Retry(q) \/ TakePage(q) \/ ScanAnchor(q)
             \/ LockFail(q) \/ EndPage(q)
      PROVE  (Ran(p) => Ran(p)' /\ window'[p] = window[p]) /\ (Ran(p)' => Ran(p))
  <2>1. window' = window /\ pc[q] \notin {"start", "unopened"}
    BY <1>5 DEF RecvMsg, RecvFail, Retry, TakePage, ScanAnchor, LockFail, EndPage, own
  <2>2. \E to \in {"recv", "fetch", "scan", "exit", "failed", "dead"} :
          pc' = [pc EXCEPT ![q] = to] \/ pc' = pc
    BY <1>5 DEF RecvMsg, RecvFail, Retry, TakePage, ScanAnchor, LockFail, EndPage, Goto
  <2> QED BY <1>0, <2>1, <2>2 DEF Ran
<1>6. ASSUME UNCHANGED vars
      PROVE  (Ran(p) => Ran(p)' /\ window'[p] = window[p]) /\ (Ran(p)' => Ran(p))
  BY <1>6 DEF vars, shardVars, own, Ran
<1> QED BY <1>2, <1>3, <1>4, <1>5, <1>6 DEF Next, Step, Open, Finished

LEMMA NextWindow ==
  ASSUME TypeInv, WindowInv, [Next]_vars
  PROVE  WindowInv'
<1>1. ASSUME NEW p \in Procs, Ran(p)'
      PROVE  window'[p] \in {Shard', NoBounds}
  BY <1>1, WindowStays DEF WindowInv
<1>2. ASSUME NEW v, Roamed(v)
      PROVE  Roamed(v)'
  <2>1. CASE v.page = 0
    BY <2>1 DEF Roamed
  <2>2. CASE v.page # 0
    <3>1. PICK p \in Procs : Ran(p) /\ Inside(window[p], v.page)
      BY <1>2, <2>2 DEF Roamed
    <3>2. Ran(p)' /\ window'[p] = window[p]
      BY <3>1, WindowStays
    <3>3. Inside(window'[p], v.page)
      BY <3>1, <3>2
    <3> QED BY <3>2, <3>3 DEF Roamed
  <2> QED BY <2>1, <2>2
<1>3. ASSUME Sound(Shard), NEW p \in Procs, ScanAnchor(p), NEW v, v = NextHref(p), v # NoUrl
      PROVE  Roamed(v)
  <2>1. pc[p] = "scan" /\ Ran(p) /\ Head(todo[p]) \in AnchorType
    BY <1>3, HeadAnchor DEF ScanAnchor, Ran, TypeInv
  <2>2. Sound(window[p])
    BY <1>3, <2>1 DEF WindowInv, Sound, NoBounds
  <2>3. v.page # 0 => Inside(window[p], v.page)
    BY <1>3, <2>1, <2>2, HrefWindow DEF NextHref
  <2> QED BY <2>1, <2>3 DEF Roamed
<1>4. ASSUME Sound(Shard), NEW v \in Known'
      PROVE  Roamed(v)'
  BY <1>2, <1>3, <1>4, KnownNext DEF WindowInv
<1>5. Shard' = Shard
  BY ShardAssumption, WindowStays
<1> QED BY <1>1, <1>4, <1>5 DEF WindowInv, Sound

LEMMA WindowInit ==
  ASSUME Init
  PROVE  WindowInv
<1>1. /\ recorded = {} /\ fetched = {}
      /\ \A p \in Procs : pc[p] = "start"
      /\ queue = <<[url |-> SeedUrl, analyse_cnt |-> 0]>>
  BY DEF Init
<1>2. Known = {SeedUrl}
  BY <1>1 DEF Known, UrlsIn
<1>3. Roamed(SeedUrl)
  BY DEF Roamed, SeedUrl
<1> QED BY <1>1, <1>2, <1>3 DEF WindowInv, Ran

LEMMA WindowSound ==
  ASSUME TypeInv, WindowInv
  PROVE  InWindow
<1>1. queue \in Seq(Msgs) /\ asked \in [Procs -> Urls \union {NoUrl}]
  BY DEF TypeInv, TypeOK, CurlTypeOK
<1>2. {m.url : m \in Range(queue)} = UrlsIn(queue)
  BY <1>1, LenProperties DEF Range, UrlsIn
<1>3. \A p \in Procs : asked[p] # NoUrl => asked[p] \in Known
  BY DEF TypeInv, HandFull, Known
<1>4. recorded \union fetched \union (Wandering \ {NoUrl}) \subseteq Known
  BY <1>2, <1>3 DEF Wandering, Known
<1> QED
  BY <1>4 DEF WindowInv, InWindow, Roamed

(* The pages that are claimed, queued, asked for or fetched are those of    *)
(* windows that processes found: pages of this shard, until a process       *)
(* cannot open the file of the bounds.                                      *)
THEOREM StaysInWindow == Spec => []InWindow
<1> QED
  BY InitType, WindowInit, NextType, NextWindow, WindowSound, PTL DEF Spec

-----------------------------------------------------------------------------
(* The body on a live handle is that of the request being made, when this   *)
(* one has a page number.                                                   *)
BodyOk ==
  \A p \in Procs :
    asked[p] # NoUrl /\ pCurl[p] /\ asked[p].page # 0 => body[p] = asked[p].page

LEMMA NextBody ==
  ASSUME TypeInv, BodyOk, [Next]_vars
  PROVE  BodyOk'
<1>0. CurlTypeOK
  BY DEF TypeInv, TypeOK
<1>1. ASSUME UNCHANGED curlVars
      PROVE  BodyOk'
  BY <1>1 DEF BodyOk, curlVars
<1>2. ASSUME NEW p \in Procs, FirstHandle(p), pc[p] = "start"
      PROVE  BodyOk'
  <2>1. asked[p] = NoUrl
    BY <1>2 DEF TypeInv, HandFull
  <2> QED BY <1>0, <1>2, <2>1 DEF BodyOk, FirstHandle, CurlTypeOK
<1>3. ASSUME NEW p \in Procs, NEW u \in Urls, Call(p, u)
      PROVE  BodyOk'
  <2>1. asked' = [asked EXCEPT ![p] = u]
    BY <1>3 DEF Call
  <2>2. \A q \in Procs \ {p} : UNCHANGED <<asked[q], pCurl[q], body[q]>>
    BY <1>0, <1>3 DEF Call, Renew, CurlTypeOK
  <2>3. pCurl'[p] /\ u.page # 0 => body'[p] = u.page
    BY <1>0, <1>3 DEF Call, Renew, SetBody, CurlTypeOK
  <2> QED BY <1>0, <2>1, <2>2, <2>3 DEF BodyOk, CurlTypeOK
<1>4. ASSUME NEW p \in Procs, CallFail(p)
      PROVE  BodyOk'
  BY <1>0, <1>4 DEF CallFail, Renew, BodyOk, CurlTypeOK
<1>5. ASSUME NEW p \in Procs, PerformFail(p)
      PROVE  BodyOk'
  BY <1>0, <1>5 DEF PerformFail, Renew, BodyOk, CurlTypeOK
<1>6. ASSUME NEW p \in Procs, NEW c, PerformOk(p, c)
      PROVE  BodyOk'
  BY <1>0, <1>6 DEF PerformOk, BodyOk, CurlTypeOK
<1>7. ASSUME NEW p \in Procs, RecvMsg(p)
      PROVE  BodyOk'
  <2>1. Head(queue).url \in Urls
    BY <1>7, HeadMsg DEF RecvMsg, Msgs, TypeInv
  <2>2. UNCHANGED curlVars \/ Call(p, Head(queue).url) \/ CallFail(p)
    BY <1>7 DEF RecvMsg
  <2> QED BY <1>1, <1>3, <1>4, <2>1, <2>2
<1>8. ASSUME NEW p \in Procs, Step(p)
      PROVE  \/ UNCHANGED curlVars \/ RecvMsg(p) \/ PerformFail(p)
             \/ FirstHandle(p) /\ pc[p] = "start"
             \/ \E c \in Answers(p) : PerformOk(p, c)
  BY <1>8 DEF Step, Open, OpenNothing, OpenNoMemory, OpenAll, RecvFail, Retry, TakePage,
              ScanAnchor, LockFail, EndPage
<1>9. UNCHANGED vars => UNCHANGED curlVars
  BY DEF vars
<1> QED BY <1>1, <1>2, <1>5, <1>6, <1>7, <1>8, <1>9 DEF Next, Finished

LEMMA NextOwnPage ==
  ASSUME TypeInv, BodyOk, OwnPage, [Next]_vars
  PROVE  OwnPage'
<1>1. CASE UNCHANGED <<fetched, seen>>
  BY <1>1 DEF OwnPage
<1>2. ASSUME NEW p \in Procs, TakePage(p)
      PROVE  OwnPage'
  <2>1. asked[p] = cur[p].url /\ asked[p] \in Urls
    BY <1>2 DEF TakePage, TypeInv, HandFull, Msgs
  <2>2. PICK c \in Answers(p) : PerformOk(p, c) /\ seen' = seen \union {c}
    BY <1>2 DEF TakePage
  <2>3. fetched' = fetched \union {asked[p]}
    BY <1>2, <2>1 DEF TakePage
  <2>4. asked[p] # NoUrl /\ pCurl[p]
    BY <2>2 DEF PerformOk
  <2>5. CASE asked[p].page # 0
    <3>1. body[p] = asked[p].page
      BY <2>4, <2>5 DEF BodyOk
    <3>2. c = asked[p]
      BY <2>1, <2>2, <2>5, <3>1 DEF Answers, Urls
    <3> QED BY <2>2, <2>3, <3>2 DEF OwnPage
  <2>6. CASE asked[p].page = 0 /\ asked[p].base \notin Lists
    <3>1. c = asked[p]
      BY <2>1, <2>2, <2>6 DEF Answers, Urls
    <3> QED BY <2>2, <2>3, <3>1 DEF OwnPage
  <2>7. CASE asked[p].page = 0 /\ asked[p].base \in Lists
    BY <2>2, <2>3, <2>7 DEF OwnPage
  <2> QED BY <2>5, <2>6, <2>7
<1>3. ASSUME NEW p \in Procs, Step(p)
      PROVE  TakePage(p) \/ UNCHANGED <<fetched, seen>>
  BY <1>3 DEF Step, Open, OpenNothing, OpenNoMemory, OpenAll, RecvMsg, RecvFail, Retry,
              ScanAnchor, LockFail, EndPage, past
<1>4. UNCHANGED vars => UNCHANGED <<fetched, seen>>
  BY DEF vars, shardVars, past
<1> QED BY <1>1, <1>2, <1>3, <1>4 DEF Next, Finished

(* A page that was asked for by its number is the one that comes back.      *)
THEOREM PagesOwn == Spec => []OwnPage
<1>1. Init => BodyOk /\ OwnPage
  BY DEF Init, CurlInit, BodyOk, OwnPage
<1> QED BY <1>1, InitType, NextType, NextBody, NextOwnPage, PTL DEF Spec

-----------------------------------------------------------------------------
(* iflag is FALSE between two links, the anchors still to be looked at are  *)
(* those of a page that came back for this list, and every claim was made   *)
(* by a process past open_resource under the filters that it has.           *)
NoFlag == \A p \in Procs : ~ iflag[p]

FromPage(p) ==
  \E v \in seen : /\ v.base = cur[p].url.base
                  /\ \A i \in DOMAIN todo[p] : \E k \in DOMAIN Anchors[v] : Anchors[v][k] = todo[p][i]

ScanInv == \A p \in Procs : pc[p] = "scan" => FromPage(p)

ClaimInv == \A u \in recorded : \E p \in Procs : Ran(p) /\ Accepted(lists[p], u)

FilterInv == NoFlag /\ ScanInv /\ ClaimInv

(* What lets a link through. *)
LEMMA VerdictPasses ==
  ASSUME NoFlag, NEW p \in Procs, NEW a, NEW u, Verdict(p, a, u), ~ Refused(u)
  PROVE  Passes(lists[p], a, u)
BY DEF NoFlag, Verdict, Passes, Refused

LEMMA HrefLeads ==
  ASSUME TypeInv, NEW p \in Procs, NEW a \in AnchorType,
         a.kind = "goto" => a.page # 0, GetHref(p, a) # NoUrl,
         NEW v, v.base = cur[p].url.base
  PROVE  LeadsTo(v, a, GetHref(p, a))
<1>1. CASE a.kind \in Plain
  <2>1. a.kind # "goto"
    BY <1>1 DEF Plain
  <2>2. GetHref(p, a) = [base |-> a.to, page |-> 0]
    BY <1>1, <2>1 DEF GetHref
  <2> QED BY <1>1, <2>2 DEF LeadsTo
<1>2. CASE a.kind = "goto"
  <2>1. a.kind \notin Plain
    BY <1>2 DEF Plain
  <2>2. window[p] \in Windows /\ a.page \in Nat
    BY CurlAssumption DEF TypeInv, TypeOK, AnchorType
  <2>3. CASE ~ Outside(window[p], a.page)
    <3>1. GetHref(p, a) = [base |-> cur[p].url.base, page |-> a.page]
      BY <1>2, <2>1, <2>3 DEF GetHref
    <3> QED BY <1>2, <3>1 DEF LeadsTo
  <2>4. CASE Outside(window[p], a.page)
    <3>1. GetHref(p, a) = [base |-> cur[p].url.base, page |-> Entry(window[p])]
      BY <1>2, <2>1, <2>4 DEF GetHref
    <3>2. Entry(window[p]) # 0
      BY <2>2, <2>4 DEF Outside, Entry, Windows
    <3> QED BY <1>2, <3>1, <3>2 DEF LeadsTo
  <2> QED BY <2>3, <2>4
<1>3. CASE a.kind \notin Plain /\ a.kind # "goto"
  BY <1>3 DEF GetHref
<1> QED BY <1>1, <1>2, <1>3

(* What came back stays seen, and a process past open_resource keeps its    *)
(* filters; ended is ended.                                                 *)
LEMMA ListsStay ==
  ASSUME TypeInv, [Next]_vars
  PROVE  /\ seen \subseteq seen'
         /\ \A q \in Procs : /\ Ran(q) => Ran(q)' /\ lists'[q] = lists[q]
                             /\ pc[q] \in {"unopened", "failed", "dead"} => pc'[q] = pc[q]
<1>0. pc \in [Procs -> PC] /\ lists \in [Procs -> [ConfFiles -> SUBSET Words]]
  BY DEF TypeInv, TypeOK
<1>1. ASSUME NEW p \in Procs, Open(p)
      PROVE  /\ seen \subseteq seen'
             /\ \A q \in Procs : /\ Ran(q) => Ran(q)' /\ lists'[q] = lists[q]
                                 /\ pc[q] \in {"unopened", "failed", "dead"} => pc'[q] = pc[q]
  <2>1. /\ pc[p] = "start" /\ seen' = seen
        /\ \A q \in Procs \ {p} : lists'[q] = lists[q] /\ pc'[q] = pc[q]
    BY <1>0, <1>1 DEF Open, OpenNothing, OpenNoMemory, OpenAll, EnterLoop, Goto, own, past
  <2> QED BY <2>1 DEF Ran
<1>2. ASSUME NEW p \in Procs, Step(p), ~ Open(p)
      PROVE  /\ seen \subseteq seen'
             /\ \A q \in Procs : /\ Ran(q) => Ran(q)' /\ lists'[q] = lists[q]
                                 /\ pc[q] \in {"unopened", "failed", "dead"} => pc'[q] = pc[q]
  <2>1. seen \subseteq seen' /\ lists' = lists
    BY <1>2 DEF Step, RecvMsg, RecvFail, Retry, TakePage, ScanAnchor, LockFail, EndPage, own, past
  <2>2. pc[p] \in {"recv", "fetch", "scan"}
    BY <1>2 DEF Step, RecvMsg, RecvFail, Retry, TakePage, ScanAnchor, LockFail, EndPage
  <2>3. \E to \in {"recv", "fetch", "scan", "exit", "failed", "dead"} :
          pc' = [pc EXCEPT ![p] = to] \/ pc' = pc
    BY <1>2 DEF Step, RecvMsg, RecvFail, Retry, TakePage, ScanAnchor, LockFail, EndPage, Goto
  <2> QED BY <1>0, <2>1, <2>2, <2>3 DEF Ran
<1>3. ASSUME UNCHANGED vars
      PROVE  UNCHANGED <<seen, lists, pc>>
  BY <1>3 DEF vars, shardVars, own, past
<1> QED BY <1>1, <1>2, <1>3 DEF Next, Finished, Ran

(* So a claim stays accepted. *)
LEMMA ClaimStays ==
  ASSUME TypeInv, ClaimInv, [Next]_vars
  PROVE  \A u \in recorded : \E p \in Procs : Ran(p)' /\ Accepted(lists[p], u)'
<1> SUFFICES ASSUME NEW u \in recorded
             PROVE  \E p \in Procs : Ran(p)' /\ Accepted(lists[p], u)'
  OBVIOUS
<1>1. PICK p \in Procs : Ran(p) /\ Accepted(lists[p], u)
  BY DEF ClaimInv
<1>2. Ran(p)' /\ lists'[p] = lists[p] /\ seen \subseteq seen'
  BY <1>1, ListsStay
<1>3. Accepted(lists[p], u)'
  BY <1>1, <1>2 DEF Accepted, LeadsTo, Passes, Refused, CheckInvolve, CheckFilter, Hits, Text
<1> QED BY <1>2, <1>3

LEMMA NextFilter ==
  ASSUME TypeInv, FilterInv, [Next]_vars
  PROVE  FilterInv'
<1> USE DEF FilterInv
<1>0. /\ pc \in [Procs -> PC] /\ iflag \in [Procs -> BOOLEAN]
      /\ todo \in [Procs -> Seq(AnchorType)] /\ cur \in [Procs -> Msgs \union {NoMsg}]
  BY DEF TypeInv, TypeOK
<1>1. \A u \in recorded : \E p \in Procs : Ran(p)' /\ Accepted(lists[p], u)'
  BY ClaimStays
<1>2. ASSUME NEW p \in Procs,
             \/ Open(p) \/ RecvMsg(p) \/ RecvFail(p) \/ Retry(p) \/ LockFail(p) \/ EndPage(p)
      PROVE  FilterInv'
  <2>1. UNCHANGED <<recorded, seen, iflag>>
    BY <1>2 DEF Open, OpenNothing, OpenNoMemory, OpenAll, RecvMsg, RecvFail, Retry, LockFail,
                EndPage, past
  <2>2. \A q \in Procs \ {p} : todo'[q] = todo[q] /\ cur'[q] = cur[q]
    BY <1>0, <1>2 DEF Open, OpenNothing, OpenNoMemory, OpenAll, RecvMsg, RecvFail, Retry,
                      LockFail, EndPage
  <2>3. pc[p] # "scan" \/ LockFail(p) \/ EndPage(p)
    BY <1>2 DEF Open, OpenNothing, OpenNoMemory, OpenAll, RecvMsg, RecvFail, Retry
  <2>4. \E to \in PC \ {"scan"} : pc' = [pc EXCEPT ![p] = to] \/ (pc' = pc /\ pc[p] = "recv")
    BY <1>2 DEF Open, OpenNothing, OpenNoMemory, OpenAll, EnterLoop, RecvMsg, RecvFail, Retry,
                LockFail, EndPage, Goto, PC
  <2>5. pc'[p] # "scan" /\ \A q \in Procs \ {p} : pc'[q] = pc[q]
    BY <1>0, <2>4
  <2> QED BY <1>1, <2>1, <2>2, <2>5 DEF NoFlag, ScanInv, FromPage, ClaimInv
<1>3. ASSUME NEW p \in Procs, TakePage(p)
      PROVE  FilterInv'
  <2>1. asked[p] = cur[p].url /\ asked[p] \in Urls /\ pc[p] = "fetch"
    BY <1>3 DEF TakePage, TypeInv, HandFull, Msgs
  <2>2. PICK c \in Answers(p) :
          /\ seen' = seen \union {c}
          /\ \/ /\ Goto(p, "failed") \/ Goto(p, "dead")
                /\ cur' = [cur EXCEPT ![p] = NoMsg] /\ UNCHANGED todo
             \/ /\ Goto(p, "scan") /\ UNCHANGED cur
                /\ todo' = [todo EXCEPT ![p] = Anchors[c]]
    BY <1>3 DEF TakePage
  <2>3. c.base = cur[p].url.base
    BY <2>1, AnswerType DEF TypeInv, TypeOK
  <2>4. UNCHANGED <<recorded, iflag>>
    BY <1>3 DEF TakePage
  <2>5. ScanInv'
    <3> SUFFICES ASSUME NEW q \in Procs, pc'[q] = "scan"
                 PROVE  FromPage(q)'
      BY DEF ScanInv
    <3>1. CASE q = p
      <4>1. todo'[p] = Anchors[c] /\ cur' = cur
        BY <1>0, <2>2, <3>1 DEF Goto
      <4> QED BY <2>2, <2>3, <3>1, <4>1 DEF FromPage
    <3>2. CASE q # p
      <4>1. pc[q] = "scan" /\ todo'[q] = todo[q] /\ cur'[q] = cur[q]
        BY <1>0, <2>2, <3>2 DEF Goto
      <4> QED BY <2>2, <4>1 DEF ScanInv, FromPage
    <3> QED BY <3>1, <3>2
  <2> QED BY <1>1, <2>4, <2>5 DEF NoFlag, ClaimInv
<1>4. ASSUME NEW p \in Procs, ScanAnchor(p)
      PROVE  FilterInv'
  <2> DEFINE a == Head(todo[p])
             u == GetHref(p, a)
  <2>1. /\ pc[p] = "scan" /\ todo[p] # <<>>
        /\ todo' = [todo EXCEPT ![p] = Tail(todo[p])]
        /\ UNCHANGED <<pc, lists, cur, seen>>
        /\ \/ recorded' = recorded
           \/ /\ u # NoUrl /\ Verdict(p, a, u) /\ ~ Refused(u)
              /\ recorded' \subseteq recorded \union {u}
    BY <1>4 DEF ScanAnchor, Chosen, NextHref, Claim, own
  <2>2. NoFlag'
    BY <1>0, <1>4 DEF ScanAnchor, NoFlag, FlagAfter
  <2>3. todo[p] \in Seq(AnchorType)
    BY <1>0
  <2>4. /\ a = todo[p][1] /\ 1 \in DOMAIN todo[p] /\ a \in AnchorType
        /\ \A i \in DOMAIN Tail(todo[p]) : i + 1 \in DOMAIN todo[p] /\ Tail(todo[p])[i] = todo[p][i + 1]
    <3>1. Len(todo[p]) \in Nat /\ Len(todo[p]) >= 1 /\ DOMAIN todo[p] = 1 .. Len(todo[p])
      BY <2>1, <2>3, LenProperties, EmptySeq
    <3>2. /\ Head(todo[p]) = todo[p][1]
          /\ Tail(todo[p]) \in Seq(AnchorType)
          /\ Len(Tail(todo[p])) = Len(todo[p]) - 1
          /\ \A i \in 1 .. Len(Tail(todo[p])) : Tail(todo[p])[i] = todo[p][i + 1]
      BY <2>1, <2>3, HeadTailProperties
    <3>3. DOMAIN Tail(todo[p]) = 1 .. Len(Tail(todo[p]))
      BY <3>2, LenProperties
    <3> QED BY <2>1, <3>1, <3>2, <3>3, HeadAnchor DEF TypeInv
  <2>5. PICK v \in seen :
          /\ v.base = cur[p].url.base
          /\ \A i \in DOMAIN todo[p] : \E k \in DOMAIN Anchors[v] : Anchors[v][k] = todo[p][i]
    BY <2>1 DEF ScanInv, FromPage
  <2>6. ScanInv'
    <3> SUFFICES ASSUME NEW q \in Procs, pc'[q] = "scan"
                 PROVE  FromPage(q)'
      BY DEF ScanInv
    <3>1. CASE q = p
      <4>1. todo'[p] = Tail(todo[p])
        BY <1>0, <2>1
      <4>2. \A i \in DOMAIN todo'[p] : \E k \in DOMAIN Anchors[v] : Anchors[v][k] = todo'[p][i]
        BY <2>4, <2>5, <4>1
      <4>3. v \in seen' /\ v.base = cur'[p].url.base
        BY <2>1, <2>5
      <4> HIDE DEF a, u
      <4> QED BY <3>1, <4>2, <4>3 DEF FromPage
    <3>2. CASE q # p
      <4>1. pc[q] = "scan" /\ todo'[q] = todo[q]
        BY <1>0, <2>1, <3>2
      <4>2. FromPage(q)
        BY <4>1 DEF ScanInv
      <4>3. seen' = seen /\ cur' = cur
        BY <2>1
      <4> QED BY <4>1, <4>2, <4>3 DEF FromPage
    <3> QED BY <3>1, <3>2
  <2>7. ASSUME NEW w, w = u, u # NoUrl, Verdict(p, a, u), ~ Refused(u)
        PROVE  Ran(p)' /\ Accepted(lists[p], w)'
    <3>1. PICK k \in DOMAIN Anchors[v] : Anchors[v][k] = a
      BY <2>4, <2>5
    <3>2. a.kind = "goto" => a.page # 0
      BY <3>1, ShardAssumption DEF TypeInv, TypeOK
    <3>3. LeadsTo(v, Anchors[v][k], w)
      BY <2>4, <2>5, <2>7, <3>1, <3>2, HrefLeads
    <3>4. Passes(lists[p], Anchors[v][k], w)
      BY <2>7, <3>1, VerdictPasses
    <3>5. Accepted(lists[p], w)
      BY <3>3, <3>4 DEF Accepted
    <3> HIDE DEF a, u
    <3>6. lists' = lists /\ seen' = seen /\ Ran(p)'
      BY <2>1 DEF Ran
    <3> QED
      BY <3>5, <3>6 DEF Accepted, LeadsTo, Passes, Refused, CheckInvolve, CheckFilter, Hits, Text
  <2>8. ASSUME NEW w \in recorded'
        PROVE  \E q \in Procs : Ran(q)' /\ Accepted(lists[q], w)'
    <3>1. CASE w \in recorded
      BY <1>1, <3>1
    <3>2. CASE w \notin recorded
      BY <2>1, <2>7, <2>8, <3>2
    <3> QED BY <3>1, <3>2
  <2>9. ClaimInv'
    BY <2>8 DEF ClaimInv
  <2> QED BY <2>2, <2>6, <2>9
<1>5. ASSUME UNCHANGED vars
      PROVE  FilterInv'
  <2>1. UNCHANGED <<recorded, seen, iflag, cur, todo, pc>>
    BY <1>5 DEF vars, shardVars, past
  <2> QED BY <1>1, <2>1 DEF NoFlag, ScanInv, FromPage, ClaimInv
<1> QED BY <1>2, <1>3, <1>4, <1>5 DEF Next, Step, Finished

(* With all filters loaded, nothing is claimed that they would not let pass. *)
THEOREM ClaimsAccepted == Spec => []OnlyAccepted
<1>1. Init => FilterInv
  BY DEF Init, FilterInv, NoFlag, ScanInv, ClaimInv
<1>2. FilterInv => OnlyAccepted
  BY DEF FilterInv, ClaimInv, OnlyAccepted, Loaded
<1> QED BY <1>1, <1>2, InitType, NextType, NextFilter, PTL DEF Spec

-----------------------------------------------------------------------------
Asking(u) == \E p \in Procs : pc[p] = "fetch" /\ cur[p].url = u

Kept(u) == u \in UrlsIn(queue) \/ Asking(u) \/ u \in fetched \union dropped \union lost

(* A claim, like the URL that main sent, is still in the queue, being asked *)
(* for, answered, given up or lost; an answer was a page of its list.       *)
KeptInv ==
  /\ \A u \in recorded \union {SeedUrl} : Kept(u)
  /\ \A u \in fetched : \E c \in seen : c.base = u.base

(* So far every process that ran has its filters and did not break off. *)
Sane ==
  \A p \in Procs : /\ pc[p] \notin {"unopened", "failed", "dead"}
                   /\ Ran(p) => lists[p] = Conf

(* What a pager's link to page n has to leave behind: the page, or for a     *)
(* page of another shard, seen by a process that has the bounds, the way    *)
(* into the window.                                                         *)
Handled(n) ==
  \/ Kept(PageOf(n))
  \/ Outside(Shard, n) /\ Kept(PageOf(Entry(Shard)))

InTodo(p, n) ==
  \E i \in DOMAIN todo[p] : todo[p][i].kind = "goto" /\ todo[p][i].page = n

LinkTo(u, n) ==
  \E i \in DOMAIN Anchors[u] : Anchors[u][i].kind = "goto" /\ Anchors[u][i].page = n

(* Each link of a pager seen was handled or is still before a process, and  *)
(* the flag says that the way into the window was.                          *)
CoverInv ==
  Sane =>
    /\ \A c \in seen, n \in 1 .. MaxPage :
         LinkTo(c, n) => Handled(n) \/ \E p \in Procs : pc[p] = "scan" /\ InTodo(p, n)
    /\ \A p \in Procs : flag[p] => Kept(PageOf(Entry(Shard)))

(* What is claimed and sent is kept, though the table may be full and the   *)
(* message lost.                                                            *)
LEMMA ClaimKept ==
  ASSUME TypeInv, NEW p \in Procs, ScanAnchor(p),
         NEW u, u = NextHref(p), Chosen(p), u \notin recorded
  PROVE  Kept(u)'
<1>1. u # NoUrl /\ Claim(u)
  BY DEF ScanAnchor, Chosen
<1>2. u \in Urls
  BY <1>1, HeadAnchor, HrefType DEF ScanAnchor, NextHref, TypeInv
<1>3. [url |-> u, analyse_cnt |-> 0] \in Msgs /\ queue \in Seq(Msgs)
  BY <1>2 DEF Msgs, TypeInv, TypeOK
<1>4. u \in UrlsIn(queue') \union lost'
  BY <1>1, <1>3, SendUrls DEF Claim
<1> QED BY <1>4 DEF Kept

LEMMA KeptStays ==
  ASSUME TypeInv, [Next]_vars, NEW u, Kept(u)
  PROVE  Kept(u)'
<1>0. /\ pc \in [Procs -> PC] /\ cur \in [Procs -> Msgs \union {NoMsg}]
      /\ queue \in Seq(Msgs)
  BY DEF TypeInv, TypeOK
<1>1. ASSUME UNCHANGED <<queue, fetched, dropped, lost>>, Asking(u) => Asking(u)'
      PROVE  Kept(u)'
  BY <1>1 DEF Kept, UrlsIn
<1>2. ASSUME NEW p \in Procs, Open(p) \/ RecvFail(p) \/ EndPage(p) \/ LockFail(p)
      PROVE  Kept(u)'
  <2>1. UNCHANGED <<queue, fetched, dropped, lost>> /\ pc[p] # "fetch"
    BY <1>2 DEF Open, OpenNothing, OpenNoMemory, OpenAll, RecvFail, EndPage, LockFail, past
  <2>2. \A q \in Procs \ {p} : pc'[q] = pc[q] /\ cur'[q] = cur[q]
    BY <1>0, <1>2 DEF Open, OpenNothing, OpenNoMemory, OpenAll, EnterLoop, RecvFail, EndPage,
                      LockFail, Goto
  <2> QED BY <1>1, <2>1, <2>2 DEF Asking
<1>3. ASSUME NEW p \in Procs, RecvMsg(p)
      PROVE  Kept(u)'
  <2>1. PICK m \in Msgs : m = Head(queue)
    BY <1>3, HeadMsg DEF RecvMsg, TypeInv
  <2>2. /\ pc[p] = "recv" /\ queue # <<>> /\ UNCHANGED fetched
        /\ \/ /\ queue' = Tail(queue)
              /\ dropped' = dropped \union {m.url}
              /\ UNCHANGED <<cur, pc, lost>>
           \/ /\ queue' = Tail(queue)
              /\ cur' = [cur EXCEPT ![p] = m]
              /\ Goto(p, "fetch")
              /\ UNCHANGED <<dropped, lost>>
           \/ /\ Send(Tail(queue), Again(m))
              /\ UNCHANGED <<cur, pc, dropped>>
    BY <1>3, <2>1 DEF RecvMsg
  <2>3. UrlsIn(queue) = UrlsIn(Tail(queue)) \union {m.url} /\ Tail(queue) \in Seq(Msgs)
    BY <1>0, <2>1, <2>2, UrlsTail
  <2>4. CASE /\ queue' = Tail(queue)
             /\ dropped' = dropped \union {m.url}
             /\ UNCHANGED <<cur, pc, lost>>
    BY <2>2, <2>3, <2>4 DEF Kept, Asking
  <2>5. CASE /\ queue' = Tail(queue)
             /\ cur' = [cur EXCEPT ![p] = m]
             /\ Goto(p, "fetch")
             /\ UNCHANGED <<dropped, lost>>
    <3>1. /\ pc'[p] = "fetch" /\ cur'[p].url = m.url
          /\ \A q \in Procs \ {p} : pc'[q] = pc[q] /\ cur'[q] = cur[q]
      BY <1>0, <2>5 DEF Goto
    <3>2. Asking(m.url)' /\ (Asking(u) => Asking(u)')
      BY <2>2, <3>1 DEF Asking
    <3> QED BY <2>2, <2>3, <2>5, <3>2 DEF Kept
  <2>6. CASE /\ Send(Tail(queue), Again(m))
             /\ UNCHANGED <<cur, pc, dropped>>
    <3>1. Again(m) \in Msgs /\ Again(m).url = m.url
      BY AgainType
    <3>2. /\ UrlsIn(Tail(queue)) \subseteq UrlsIn(queue')
          /\ m.url \in UrlsIn(queue') \union lost' /\ lost \subseteq lost'
      BY <2>3, <2>6, <3>1, SendUrls
    <3> QED BY <2>2, <2>3, <2>6, <3>2 DEF Kept, Asking
  <2> QED BY <2>2, <2>4, <2>5, <2>6
<1>4. ASSUME NEW p \in Procs, Retry(p)
      PROVE  Kept(u)'
  <2>1. pc[p] = "fetch" /\ cur[p] \in Msgs /\ Send(queue, Again(cur[p]))
    BY <1>4 DEF Retry, TypeInv, HandFull
  <2>2. /\ \A q \in Procs \ {p} : pc'[q] = pc[q] /\ cur'[q] = cur[q]
        /\ UNCHANGED <<fetched, dropped>>
    BY <1>0, <1>4 DEF Retry, Goto
  <2>3. Again(cur[p]) \in Msgs /\ Again(cur[p]).url = cur[p].url
    BY <2>1, AgainType
  <2>4. /\ UrlsIn(queue) \subseteq UrlsIn(queue')
        /\ cur[p].url \in UrlsIn(queue') \union lost' /\ lost \subseteq lost'
    BY <1>0, <2>1, <2>3, SendUrls
  <2>5. Asking(u) => Asking(u)' \/ u = cur[p].url
    BY <2>2 DEF Asking
  <2> QED BY <2>2, <2>4, <2>5 DEF Kept
<1>5. ASSUME NEW p \in Procs, TakePage(p)
      PROVE  Kept(u)'
  <2>1. /\ fetched' = fetched \union {cur[p].url}
        /\ UNCHANGED <<queue, dropped, lost>>
    BY <1>5 DEF TakePage
  <2>2. \A q \in Procs \ {p} : pc'[q] = pc[q] /\ cur'[q] = cur[q]
    BY <1>0, <1>5 DEF TakePage, Goto
  <2>3. Asking(u) => Asking(u)' \/ u = cur[p].url
    BY <2>2 DEF Asking
  <2> QED BY <2>1, <2>3 DEF Kept, UrlsIn
<1>6. ASSUME NEW p \in Procs, ScanAnchor(p)
      PROVE  Kept(u)'
  <2>1. PICK v : v = NextHref(p)
    OBVIOUS
  <2>2. /\ UNCHANGED <<pc, cur, fetched, dropped>>
        /\ UNCHANGED <<queue, lost>> \/ (v # NoUrl /\ Claim(v))
    BY <1>6, <2>1 DEF ScanAnchor, Chosen
  <2>3. Asking(u) => Asking(u)'
    BY <2>2 DEF Asking
  <2>4. CASE UNCHANGED <<queue, lost>>
    BY <1>1, <2>2, <2>3, <2>4
  <2>5. CASE v # NoUrl /\ Claim(v)
    <3>1. [url |-> v, analyse_cnt |-> 0] \in Msgs
      BY <1>6, <2>1, <2>5, HeadAnchor, HrefType DEF ScanAnchor, NextHref, Msgs, TypeInv
    <3>2. UrlsIn(queue) \subseteq UrlsIn(queue') /\ lost \subseteq lost'
      BY <1>0, <2>5, <3>1, SendUrls DEF Claim
    <3> QED BY <2>2, <2>3, <3>2 DEF Kept
  <2> QED BY <2>2, <2>4, <2>5
<1>7. ASSUME UNCHANGED vars
      PROVE  Kept(u)'
  BY <1>7 DEF vars, shardVars, past, Kept, Asking, UrlsIn
<1> QED BY <1>2, <1>3, <1>4, <1>5, <1>6, <1>7 DEF Next, Step, Finished

LEMMA KeptNext ==
  ASSUME TypeInv, KeptInv, [Next]_vars
  PROVE  KeptInv'
<1>1. ASSUME NEW u \in recorded', u \notin recorded
      PROVE  Kept(u)'
  <2>1. PICK p \in Procs : ScanAnchor(p)
    BY <1>1 DEF Next, Step, Open, OpenNothing, OpenNoMemory, OpenAll, RecvMsg, RecvFail, Retry,
                TakePage, LockFail, EndPage, Finished, vars, shardVars
  <2>2. u = NextHref(p) /\ Chosen(p)
    BY <1>1, <2>1 DEF ScanAnchor, Claim
  <2> QED BY <1>1, <2>1, <2>2, ClaimKept
<1>2. \A u \in recorded' \union {SeedUrl} : Kept(u)'
  BY <1>1, KeptStays DEF KeptInv
<1>3. \A u \in fetched' : \E c \in seen' : c.base = u.base
  <2>1. CASE UNCHANGED <<fetched, seen>>
    BY <2>1 DEF KeptInv
  <2>2. ASSUME NEW p \in Procs, TakePage(p)
        PROVE  \A u \in fetched' : \E c \in seen' : c.base = u.base
    <3>1. asked[p] = cur[p].url /\ asked[p] \in Urls
      BY <2>2 DEF TakePage, TypeInv, HandFull, Msgs
    <3>2. PICK c \in Answers(p) : seen' = seen \union {c}
      BY <2>2 DEF TakePage
    <3>3. c.base = cur[p].url.base
      BY <3>1, AnswerType DEF TypeInv, TypeOK
    <3>4. fetched' = fetched \union {cur[p].url}
      BY <2>2 DEF TakePage
    <3> QED BY <3>2, <3>3, <3>4 DEF KeptInv
  <2>3. (\E p \in Procs : TakePage(p)) \/ UNCHANGED <<fetched, seen>>
    BY DEF Next, Step, Open, OpenNothing, OpenNoMemory, OpenAll, RecvMsg, RecvFail, Retry,
           ScanAnchor, LockFail, EndPage, Finished, vars, shardVars, past
  <2> QED BY <2>1, <2>2, <2>3
<1>4. SeedUrl' = SeedUrl
  BY DEF SeedUrl
<1> QED BY <1>2, <1>3, <1>4 DEF KeptInv

LEMMA HandledStays ==
  ASSUME TypeInv, [Next]_vars
  PROVE  /\ \A n : Handled(n) => Handled(n)'
         /\ Kept(PageOf(Entry(Shard))) => Kept(PageOf(Entry(Shard)))'
<1>1. Shard' = Shard
  BY ShardAssumption, WindowStays
<1>2. PICK e : e = PageOf(Entry(Shard))
  OBVIOUS
<1>3. e = PageOf(Entry(Shard))'
  BY <1>1, <1>2 DEF PageOf, Entry
<1>4. Kept(e) => Kept(e)'
  BY KeptStays
<1>5. Kept(PageOf(Entry(Shard))) => Kept(PageOf(Entry(Shard)))'
  BY <1>2, <1>3, <1>4 DEF Kept, Asking
<1>6. ASSUME NEW n, Handled(n)
      PROVE  Handled(n)'
  <2>1. PICK k : k = PageOf(n)
    OBVIOUS
  <2>2. Kept(k) => Kept(k)'
    BY KeptStays
  <2>3. Kept(PageOf(n)) => Kept(PageOf(n))'
    BY <2>1, <2>2 DEF PageOf, Kept, Asking
  <2>4. Outside(Shard, n) => Outside(Shard, n)'
    BY <1>1 DEF Outside
  <2> QED BY <1>5, <1>6, <2>3, <2>4 DEF Handled
<1> QED BY <1>5, <1>6

(* What was lost once stays lost. *)
LEMMA SaneBefore ==
  ASSUME TypeInv, [Next]_vars, Sane'
  PROVE  Sane
<1>1. \A q \in Procs : /\ Ran(q) => Ran(q)' /\ lists'[q] = lists[q]
                       /\ pc[q] \in {"unopened", "failed", "dead"} => pc'[q] = pc[q]
  BY ListsStay
<1>2. \A q \in Procs : /\ pc'[q] \notin {"unopened", "failed", "dead"}
                       /\ Ran(q)' => lists'[q] = Conf
  BY DEF Sane
<1> QED BY <1>1, <1>2 DEF Sane

(* Under the filters of the configuration the pager's links go through.     *)
LEMMA PagerPasses ==
  ASSUME Paged, NEW p \in Procs, lists[p] = Conf,
         NEW a, a.kind = "goto", NEW n
  PROVE  Verdict(p, a, PageOf(n)) /\ ~ Refused(PageOf(n))
<1>1. Text(a) = {}
  BY DEF Text
<1>2. PageOf(n).base = Seed
  BY DEF PageOf
<1>3. ~ CheckFilter(Conf, a, PageOf(n))
  BY <1>1, <1>2 DEF Paged, CheckFilter, Hits
<1>4. Conf.contentinvolve \union Conf.urlinvolve = {} \/ CheckInvolve(Conf, a, PageOf(n))
  BY <1>1, <1>2 DEF Paged, CheckInvolve, Hits
<1>5. ~ Refused(PageOf(n))
  BY <1>2 DEF Paged, Refused
<1> QED
  BY <1>3, <1>4, <1>5 DEF Verdict

(* A pager's link that is looked at is handled; the flag goes up with the   *)
(* way into the window.                                                     *)
LEMMA PagerHandled ==
  ASSUME TypeInv, WindowInv, KeptInv, Paged, [Next]_vars,
         NEW p \in Procs, ScanAnchor(p), lists[p] = Conf,
         cur[p].url.base = Seed, Head(todo[p]).kind = "goto",
         flag[p] => Kept(PageOf(Entry(Shard))),
         NEW n, n = Head(todo[p]).page
  PROVE  /\ Handled(n)'
         /\ Outside(window[p], n) => Kept(PageOf(Entry(Shard)))'
<1>1. PICK a \in AnchorType : a = Head(todo[p]) /\ a.page = n
  BY HeadAnchor DEF ScanAnchor, TypeInv
<1>2. PICK u : u = NextHref(p)
  OBVIOUS
<1>3. a.kind = "goto" /\ a.kind \notin Plain /\ u = GetHref(p, a) /\ pc[p] = "scan"
  BY <1>1, <1>2 DEF Plain, NextHref, ScanAnchor
<1>4. ASSUME NEW k, u = PageOf(k), u \in Urls
      PROVE  Kept(u)'
  <2>1. Verdict(p, a, u) /\ ~ Refused(u)
    BY <1>3, <1>4, PagerPasses
  <2>2. Chosen(p)
    BY <1>1, <1>2, <1>4, <2>1, NotAUrl DEF Chosen
  <2>3. CASE u \in recorded
    BY <2>3, KeptStays DEF KeptInv
  <2>4. CASE u \notin recorded
    BY <1>2, <2>2, <2>4, ClaimKept
  <2> QED BY <2>3, <2>4
<1>5. CASE ~ Outside(window[p], n)
  <2>1. u = PageOf(n)
    BY <1>1, <1>3, <1>5 DEF GetHref, PageOf
  <2>2. u \in Urls
    BY <1>1, <2>1, ShardAssumption, CurlAssumption DEF PageOf, Urls, AnchorType
  <2>3. Kept(u)'
    BY <1>4, <2>1, <2>2
  <2>4. Kept(PageOf(n))'
    BY <2>1, <2>3 DEF PageOf, Kept, Asking
  <2> QED BY <1>5, <2>4 DEF Handled
<1>6. CASE Outside(window[p], n)
  <2>1. window[p] = Shard
    <3>1. Ran(p)
      BY <1>3 DEF Ran
    <3>2. ~ Outside(NoBounds, n)
      BY DEF Outside, NoBounds
    <3> QED BY <1>6, <3>1, <3>2 DEF WindowInv
  <2>2. Kept(PageOf(Entry(Shard)))'
    <3>1. CASE flag[p]
      BY <3>1, HandledStays
    <3>2. CASE ~ flag[p]
      <4>1. u = PageOf(Entry(Shard))
        BY <1>1, <1>3, <1>6, <2>1, <3>2 DEF GetHref, PageOf
      <4>2. Entry(Shard) \in 0 .. MaxPage
        BY ShardType, CurlAssumption DEF Fits, Windows, Entry
      <4>3. u \in Urls
        BY <4>1, <4>2, ShardAssumption, CurlAssumption DEF PageOf, Urls
      <4>4. Kept(u)'
        BY <1>4, <4>1, <4>3
      <4>5. u = PageOf(Entry(Shard))'
        <5>1. Shard' = Shard
          BY WindowStays
        <5> QED BY <4>1, <5>1 DEF PageOf, Entry
      <4> QED BY <4>4, <4>5 DEF Kept, Asking
    <3> QED BY <3>1, <3>2
  <2>3. Outside(Shard, n)'
    <3>1. Shard' = Shard
      BY WindowStays
    <3> QED BY <1>6, <2>1, <3>1 DEF Outside
  <2> QED BY <2>2, <2>3 DEF Handled
<1> QED BY <1>5, <1>6

(* A process that has a pager's link before it looks at a page of the list. *)
LEMMA PagerBase ==
  ASSUME TypeInv, ScanInv, Paged, NEW p \in Procs, pc[p] = "scan",
         NEW i \in DOMAIN todo[p], todo[p][i].kind = "goto"
  PROVE  cur[p].url.base = Seed
<1>1. PICK v \in seen :
        /\ v.base = cur[p].url.base
        /\ \A m \in DOMAIN todo[p] : \E k \in DOMAIN Anchors[v] : Anchors[v][k] = todo[p][m]
  BY DEF ScanInv, FromPage
<1>2. PICK k \in DOMAIN Anchors[v] : Anchors[v][k].kind = "goto"
  BY <1>1
<1>3. v \in Urls
  BY DEF TypeInv, TypeOK
<1> QED
  BY <1>1, <1>2, <1>3 DEF Paged

LEMMA TodoFront ==
  ASSUME TypeInv, NEW p \in Procs, todo[p] # <<>>
  PROVE  /\ 1 \in DOMAIN todo[p] /\ Head(todo[p]) = todo[p][1]
         /\ \A i \in DOMAIN todo[p] \ {1} :
              \E k \in DOMAIN Tail(todo[p]) : Tail(todo[p])[k] = todo[p][i]
<1>0. todo[p] \in Seq(AnchorType)
  BY DEF TypeInv, TypeOK
<1>1. Len(todo[p]) \in Nat /\ Len(todo[p]) >= 1 /\ DOMAIN todo[p] = 1 .. Len(todo[p])
  BY <1>0, LenProperties, EmptySeq
<1>2. /\ Head(todo[p]) = todo[p][1]
      /\ Tail(todo[p]) \in Seq(AnchorType)
      /\ Len(Tail(todo[p])) = Len(todo[p]) - 1
      /\ \A i \in 1 .. Len(Tail(todo[p])) : Tail(todo[p])[i] = todo[p][i + 1]
  BY <1>0, HeadTailProperties
<1>3. DOMAIN Tail(todo[p]) = 1 .. Len(todo[p]) - 1
  BY <1>2, LenProperties
<1>4. ASSUME NEW i \in DOMAIN todo[p] \ {1}
      PROVE  \E k \in DOMAIN Tail(todo[p]) : Tail(todo[p])[k] = todo[p][i]
  <2>1. i - 1 \in 1 .. Len(todo[p]) - 1 /\ (i - 1) + 1 = i
    BY <1>1
  <2>2. Tail(todo[p])[i - 1] = todo[p][i]
    BY <1>2, <2>1
  <2> QED
    BY <1>3, <2>1, <2>2
<1> QED
  BY <1>1, <1>2, <1>4

LEMMA CoverNext ==
  ASSUME TypeInv, WindowInv, FilterInv, KeptInv, Paged, CoverInv, [Next]_vars
  PROVE  CoverInv'
<1> SUFFICES ASSUME Sane'
             PROVE  /\ \A c \in seen', n \in 1 .. MaxPage :
                         LinkTo(c, n) => \/ Handled(n)'
                                         \/ \E p \in Procs : pc'[p] = "scan" /\ InTodo(p, n)'
                    /\ \A p \in Procs : flag'[p] => Kept(PageOf(Entry(Shard)))'
  BY DEF CoverInv, LinkTo
<1>0. /\ pc \in [Procs -> PC] /\ todo \in [Procs -> Seq(AnchorType)]
      /\ flag \in [Procs -> BOOLEAN]
  BY DEF TypeInv, TypeOK
<1>1. /\ Sane
      /\ \A c \in seen, n \in 1 .. MaxPage :
           LinkTo(c, n) => Handled(n) \/ \E p \in Procs : pc[p] = "scan" /\ InTodo(p, n)
      /\ \A p \in Procs : flag[p] => Kept(PageOf(Entry(Shard)))
  BY SaneBefore DEF CoverInv
<1>2. /\ \A n : Handled(n) => Handled(n)'
      /\ Kept(PageOf(Entry(Shard))) => Kept(PageOf(Entry(Shard)))'
  BY HandledStays
<1>3. ASSUME UNCHANGED <<seen, flag>>,
             \A q \in Procs : pc[q] = "scan" /\ todo[q] # <<>>
                                => pc'[q] = "scan" /\ todo'[q] = todo[q]
      PROVE  /\ \A c \in seen', n \in 1 .. MaxPage :
                  LinkTo(c, n) => \/ Handled(n)'
                                  \/ \E p \in Procs : pc'[p] = "scan" /\ InTodo(p, n)'
             /\ \A p \in Procs : flag'[p] => Kept(PageOf(Entry(Shard)))'
  <2>1. ASSUME NEW n, NEW q \in Procs, pc[q] = "scan", InTodo(q, n)
        PROVE  pc'[q] = "scan" /\ InTodo(q, n)'
    <3>1. todo[q] # <<>>
      BY <2>1 DEF InTodo
    <3>2. pc'[q] = "scan" /\ todo'[q] = todo[q]
      BY <1>3, <2>1, <3>1
    <3> QED
      BY <2>1, <3>2 DEF InTodo
  <2> QED
    BY <1>1, <1>2, <1>3, <2>1
<1>4. ASSUME NEW p \in Procs,
             \/ Open(p) \/ RecvMsg(p) \/ RecvFail(p) \/ Retry(p) \/ EndPage(p) \/ LockFail(p)
      PROVE  /\ UNCHANGED <<seen, flag>>
             /\ \A q \in Procs : pc[q] = "scan" /\ todo[q] # <<>>
                                  => pc'[q] = "scan" /\ todo'[q] = todo[q]
  <2>1. ~ LockFail(p)
    <3>1. pc'[p] # "failed"
      BY DEF Sane
    <3> QED BY <1>0, <3>1 DEF LockFail, Goto
  <2>2. UNCHANGED <<seen, flag, todo>> /\ (pc[p] # "scan" \/ todo[p] = <<>>)
    BY <1>4, <2>1 DEF Open, OpenNothing, OpenNoMemory, OpenAll, RecvMsg, RecvFail, Retry, EndPage, past
  <2>3. \A q \in Procs \ {p} : pc'[q] = pc[q]
    BY <1>0, <1>4, <2>1 DEF Open, OpenNothing, OpenNoMemory, OpenAll, EnterLoop, RecvMsg,
                            RecvFail, Retry, EndPage, Goto
  <2> QED BY <2>2, <2>3
<1>5. ASSUME UNCHANGED vars
      PROVE  /\ UNCHANGED <<seen, flag>>
             /\ \A q \in Procs : pc[q] = "scan" /\ todo[q] # <<>>
                                  => pc'[q] = "scan" /\ todo'[q] = todo[q]
  BY <1>5 DEF vars, shardVars, past
<1>6. ASSUME NEW p \in Procs, TakePage(p)
      PROVE  /\ \A c \in seen', n \in 1 .. MaxPage :
                  LinkTo(c, n) => \/ Handled(n)'
                                  \/ \E q \in Procs : pc'[q] = "scan" /\ InTodo(q, n)'
             /\ \A q \in Procs : flag'[q] => Kept(PageOf(Entry(Shard)))'
  <2>1. pc[p] = "fetch" /\ UNCHANGED flag
    BY <1>6 DEF TakePage
  <2>2. PICK c \in Answers(p) :
          /\ seen' = seen \union {c}
          /\ \/ Goto(p, "failed") \/ Goto(p, "dead")
             \/ Goto(p, "scan") /\ todo' = [todo EXCEPT ![p] = Anchors[c]]
    BY <1>6 DEF TakePage
  <2>3. pc'[p] \notin {"failed", "dead"}
    BY DEF Sane
  <2>4. /\ Goto(p, "scan") /\ todo'[p] = Anchors[c]
        /\ \A q \in Procs \ {p} : todo'[q] = todo[q]
    BY <1>0, <2>2, <2>3 DEF Goto
  <2>5. pc'[p] = "scan" /\ \A q \in Procs \ {p} : pc'[q] = pc[q]
    BY <1>0, <2>4 DEF Goto
  <2>6. ASSUME NEW n, LinkTo(c, n) PROVE InTodo(p, n)'
    BY <2>4, <2>6 DEF LinkTo, InTodo
  <2>7. ASSUME NEW n, NEW q \in Procs, pc[q] = "scan", InTodo(q, n)
        PROVE  pc'[q] = "scan" /\ InTodo(q, n)'
    <3>1. q # p
      BY <2>1, <2>7
    <3> QED
      BY <2>4, <2>5, <2>7, <3>1 DEF InTodo
  <2>8. ASSUME NEW d \in seen', NEW n \in 1 .. MaxPage, LinkTo(d, n)
        PROVE  Handled(n)' \/ \E q \in Procs : pc'[q] = "scan" /\ InTodo(q, n)'
    <3>1. CASE d = c
      BY <2>5, <2>6, <2>8, <3>1
    <3>2. CASE d \in seen
      BY <1>1, <1>2, <2>7, <2>8, <3>2
    <3> QED
      BY <2>2, <3>1, <3>2
  <2> QED
    BY <1>1, <1>2, <2>1, <2>8
<1>7. ASSUME NEW p \in Procs, ScanAnchor(p)
      PROVE  /\ \A c \in seen', n \in 1 .. MaxPage :
                  LinkTo(c, n) => \/ Handled(n)'
                                  \/ \E q \in Procs : pc'[q] = "scan" /\ InTodo(q, n)'
             /\ \A q \in Procs : flag'[q] => Kept(PageOf(Entry(Shard)))'
  <2>1. PICK a : a = Head(todo[p])
    OBVIOUS
  <2>2. /\ pc[p] = "scan" /\ todo[p] # <<>>
        /\ UNCHANGED <<pc, seen>>
        /\ todo'[p] = Tail(todo[p])
        /\ \A q \in Procs \ {p} : todo'[q] = todo[q] /\ flag'[q] = flag[q]
        /\ flag'[p] => flag[p] \/ EntryDue(p, a)
    BY <1>0, <1>7, <2>1 DEF ScanAnchor
  <2>3. lists[p] = Conf
    BY <1>1, <2>2 DEF Sane, Ran
  <2>4. ASSUME a.kind = "goto"
        PROVE  /\ Handled(a.page)'
               /\ Outside(window[p], a.page) => Kept(PageOf(Entry(Shard)))'
    <3>1. cur[p].url.base = Seed
      BY <2>1, <2>2, <2>4, TodoFront, PagerBase DEF FilterInv
    <3> QED
      BY <1>1, <1>7, <2>1, <2>3, <2>4, <3>1, PagerHandled
  <2>5. ASSUME NEW n, NEW q \in Procs, pc[q] = "scan", InTodo(q, n)
        PROVE  Handled(n)' \/ (pc'[q] = "scan" /\ InTodo(q, n)')
    <3>1. CASE q # p
      BY <2>2, <2>5, <3>1 DEF InTodo
    <3>2. CASE q = p
      <4>1. PICK i \in DOMAIN todo[p] : todo[p][i].kind = "goto" /\ todo[p][i].page = n
        BY <2>5, <3>2 DEF InTodo
      <4>2. CASE i = 1
        <5>1. a = todo[p][i]
          BY <2>1, <2>2, <4>2, TodoFront
        <5> QED
          BY <2>4, <4>1, <5>1
      <4>3. CASE i # 1
        <5>1. PICK k \in DOMAIN Tail(todo[p]) : Tail(todo[p])[k] = todo[p][i]
          BY <2>2, <4>3, TodoFront
        <5> QED
          BY <2>2, <3>2, <4>1, <5>1 DEF InTodo
      <4> QED
        BY <4>2, <4>3
    <3> QED
      BY <3>1, <3>2
  <2>6. ASSUME NEW q \in Procs, flag'[q] PROVE Kept(PageOf(Entry(Shard)))'
    <3>1. CASE flag[q]
      BY <1>1, <1>2, <3>1
    <3>2. CASE ~ flag[q]
      <4>1. EntryDue(p, a)
        BY <2>2, <2>6, <3>2
      <4> QED
        BY <2>4, <4>1 DEF EntryDue
    <3> QED
      BY <3>1, <3>2
  <2> QED
    BY <1>1, <1>2, <2>2, <2>5, <2>6
<1> QED
  BY <1>3, <1>4, <1>5, <1>6, <1>7 DEF Next, Step, Finished

(* When all have left with their filters, each link of a pager that came    *)
(* back has had its page fetched, given up or lost, or the way into the     *)
(* window in its place.                                                     *)
Served(u) == u \in fetched \union GivenUp

LEMMA AllServed ==
  ASSUME AllLeft, NEW u, Kept(u), u.base = Seed
  PROVE  Served(u)
<1>1. UrlsIn(queue) = {} /\ ~ Asking(u)
  BY DEF AllLeft, UrlsIn, Asking
<1> QED
  BY <1>1 DEF Kept, Served, GivenUp

LEMMA NeighbourComes ==
  ASSUME CoverInv, AllLeft, NEW c \in seen, NEW n \in 1 .. MaxPage, LinkTo(c, n)
  PROVE  \/ Served(PageOf(n))
         \/ Outside(Shard, n) /\ Served(PageOf(Entry(Shard)))
<1>1. Sane /\ \A p \in Procs : pc[p] # "scan"
  BY DEF AllLeft, Sane
<1>2. Handled(n)
  BY <1>1 DEF CoverInv
<1>3. \A k : PageOf(k).base = Seed
  BY DEF PageOf
<1> QED
  BY <1>2, <1>3, AllServed DEF Handled

(* A page that was fetched by its number came back, and its pager links to   *)
(* its neighbours.                                                          *)
LEMMA NextPage ==
  ASSUME TypeInv, CoverInv, OwnPage, AllLeft, Paged,
         NEW m \in 1 .. MaxPage, PageOf(m) \in fetched,
         NEW k \in 1 .. MaxPage, k \in {m - 1, m + 1}
  PROVE  \/ Served(PageOf(k))
         \/ Outside(Shard, k) /\ Served(PageOf(Entry(Shard)))
<1>0. MaxPage \in Nat /\ m # 0 /\ m \in 0 .. MaxPage
  BY CurlAssumption
<1>1. PageOf(m) \in seen
  BY <1>0 DEF OwnPage, PageOf
<1>2. PageOf(m) \in Urls /\ PageOf(m).base = Seed /\ PageOf(m).page = m
  BY <1>0, <1>1 DEF TypeInv, TypeOK, PageOf
<1>3. LinkTo(PageOf(m), k)
  BY <1>0, <1>2 DEF Paged, LinkTo
<1> QED
  BY <1>1, <1>3, NeighbourComes

(* From page to page. *)
LEMMA Walk ==
  ASSUME NEW m \in Nat, NEW n \in Nat, NEW T, m \in T,
         \A j \in T : \A k \in {j - 1, j + 1} : j \in Nat /\ Between(m, k, n) => k \in T
  PROVE  n \in T
<1>1. CASE m <= n
  <2> DEFINE S == {d \in Nat : m + d <= n => m + d \in T}
  <2>1. 0 \in S
    OBVIOUS
  <2>2. ASSUME NEW d \in Nat, d \in S PROVE d + 1 \in S
    <3> SUFFICES ASSUME m + (d + 1) <= n PROVE m + (d + 1) \in T
      OBVIOUS
    <3>1. m + d \in T /\ m + d \in Nat
      BY <2>2
    <3>2. m + (d + 1) = (m + d) + 1 /\ Between(m, m + (d + 1), n)
      BY DEF Between
    <3> HIDE DEF S
    <3> QED
      BY <3>1, <3>2
  <2> HIDE DEF S
  <2>3. Nat \subseteq S
    BY <2>1, <2>2, InductionNat
  <2>4. n - m \in S /\ m + (n - m) = n
    BY <1>1, <2>3
  <2> QED
    BY <2>4 DEF S
<1>2. CASE n <= m
  <2> DEFINE S == {d \in Nat : n <= m - d => m - d \in T}
  <2>1. 0 \in S
    OBVIOUS
  <2>2. ASSUME NEW d \in Nat, d \in S PROVE d + 1 \in S
    <3> SUFFICES ASSUME n <= m - (d + 1) PROVE m - (d + 1) \in T
      OBVIOUS
    <3>1. m - d \in T /\ m - d \in Nat
      BY <2>2
    <3>2. m - (d + 1) = (m - d) - 1 /\ Between(m, m - (d + 1), n)
      BY DEF Between
    <3> HIDE DEF S
    <3> QED
      BY <3>1, <3>2
  <2> HIDE DEF S
  <2>3. Nat \subseteq S
    BY <2>1, <2>2, InductionNat
  <2>4. m - n \in S /\ m - (m - n) = n
    BY <1>2, <2>3
  <2> QED
    BY <2>4 DEF S
<1> QED
  BY <1>1, <1>2

(* Within the window a page that was fetched leads to the others, up to one  *)
(* that was given up or lost.                                               *)
LEMMA WalkInside ==
  ASSUME TypeInv, CoverInv, OwnPage, AllLeft, Paged,
         NEW m \in 1 .. MaxPage, NEW n \in 1 .. MaxPage,
         Inside(Shard, m), Inside(Shard, n), PageOf(m) \in fetched
  PROVE  \/ PageOf(n) \in fetched
         \/ \E k \in 1 .. MaxPage : Between(m, k, n) /\ PageOf(k) \in GivenUp
<1> SUFFICES ASSUME \A k \in 1 .. MaxPage : Between(m, k, n) => PageOf(k) \notin GivenUp
             PROVE  PageOf(n) \in fetched
  OBVIOUS
<1> DEFINE T == {j \in 1 .. MaxPage : PageOf(j) \in fetched}
<1>0. MaxPage \in Nat /\ Shard \in Windows /\ m \in Nat /\ n \in Nat
  BY CurlAssumption, ShardType
<1>1. ASSUME NEW j \in T, NEW k \in {j - 1, j + 1}, Between(m, k, n)
      PROVE  k \in T
  <2>1. j \in 1 .. MaxPage /\ PageOf(j) \in fetched /\ k \in 1 .. MaxPage
    BY <1>0, <1>1 DEF Between
  <2>2. Inside(Shard, k)
    BY <1>0, <1>1, <2>1 DEF Inside, Windows, Between
  <2>3. ~ Outside(Shard, k)
    BY <1>0, <2>1, <2>2, OutsideIsNotInside
  <2>4. Served(PageOf(k))
    BY <1>1, <2>1, <2>3, NextPage
  <2> QED
    BY <1>1, <2>1, <2>4 DEF Served
<1>2. m \in T
  OBVIOUS
<1> HIDE DEF T
<1>3. \A j \in T : \A k \in {j - 1, j + 1} : j \in Nat /\ Between(m, k, n) => k \in T
  BY <1>1
<1>4. n \in T
  BY <1>0, <1>2, <1>3, Walk
<1> QED
  BY <1>4 DEF T

(* When nothing was given up or lost, some page came by its number ...       *)
LEMMA ListEntered ==
  ASSUME TypeInv, KeptInv, CoverInv, OwnPage, AllLeft, Paged, GivenUp = {},
         NEW n \in 2 .. MaxPage, Inside(Shard, n)
  PROVE  \E m \in 1 .. MaxPage : PageOf(m) \in fetched
<1>0. MaxPage \in Nat /\ MaxPage >= 2
  BY CurlAssumption
<1>1. Shard \in Windows /\ Fits(Shard) /\ Sound(Shard)
  BY ShardType DEF Inside, Sound, Windows
<1>2. SeedUrl \in fetched
  BY AllServed DEF KeptInv, SeedUrl, Served
<1>3. PICK c \in seen : c.base = Seed
  BY <1>2 DEF KeptInv, SeedUrl
<1>4. c \in Urls /\ c.page \in 0 .. MaxPage
  BY DEF TypeInv, TypeOK, Urls
<1>5. PICK h : h = IF c.page = 0 THEN 1 ELSE c.page
  OBVIOUS
<1>6. PICK k \in {h - 1, h + 1} \intersect (1 .. MaxPage) : TRUE
  <2>1. h \in 1 .. MaxPage
    BY <1>0, <1>4, <1>5
  <2>2. CASE h = 1
    <3>1. h + 1 \in 1 .. MaxPage
      BY <1>0, <2>2
    <3> QED
      BY <3>1
  <2>3. CASE h # 1
    <3>1. h - 1 \in 1 .. MaxPage
      BY <1>0, <2>1, <2>3
    <3> QED
      BY <3>1
  <2> QED
    BY <2>2, <2>3
<1>7. k \in 1 .. MaxPage /\ k \in Nat /\ LinkTo(c, k)
  BY <1>0, <1>3, <1>4, <1>5, <1>6 DEF Paged, LinkTo
<1>8. CASE Served(PageOf(k))
  BY <1>7, <1>8 DEF Served
<1>9. CASE Outside(Shard, k) /\ Served(PageOf(Entry(Shard)))
  <2>1. Inside(Shard, Entry(Shard)) /\ Entry(Shard) # 0
    BY <1>1, <1>7, <1>9, EntryInside
  <2>2. Entry(Shard) \in 1 .. MaxPage
    BY <1>0, <1>1, <2>1 DEF Fits, Windows, Entry
  <2> QED
    BY <1>9, <2>2 DEF Served
<1> QED
  BY <1>7, <1>8, <1>9, NeighbourComes

(* ... and from it, from page to page, either this one or the way into the  *)
(* window, and from that this one.                                          *)
LEMMA WindowCovered ==
  ASSUME TypeInv, KeptInv, CoverInv, OwnPage, AllLeft, Paged, GivenUp = {},
         NEW n \in 2 .. MaxPage, Inside(Shard, n)
  PROVE  PageOf(n) \in fetched
<1>0. MaxPage \in Nat /\ n \in 1 .. MaxPage /\ n \in Nat
  BY CurlAssumption
<1>1. Shard \in Windows /\ Fits(Shard) /\ Sound(Shard)
  BY ShardType DEF Inside, Sound, Windows
<1>2. PICK m \in 1 .. MaxPage : PageOf(m) \in fetched
  BY ListEntered
<1> DEFINE Entered == \E e \in 1 .. MaxPage : Inside(Shard, e) /\ PageOf(e) \in fetched
           T == {j \in 1 .. MaxPage : PageOf(j) \in fetched \/ Entered}
<1>3. ASSUME NEW j \in T, NEW k \in {j - 1, j + 1}, Between(m, k, n)
      PROVE  k \in T
  <2>1. j \in 1 .. MaxPage /\ k \in 1 .. MaxPage /\ k \in Nat
    BY <1>0, <1>3 DEF Between
  <2>2. CASE Entered
    BY <2>1, <2>2
  <2>3. CASE PageOf(j) \in fetched
    <3>1. CASE Served(PageOf(k))
      BY <2>1, <3>1 DEF Served
    <3>2. CASE Outside(Shard, k) /\ Served(PageOf(Entry(Shard)))
      <4>1. Inside(Shard, Entry(Shard)) /\ Entry(Shard) # 0
        BY <1>1, <2>1, <3>2, EntryInside
      <4>2. Entry(Shard) \in 1 .. MaxPage
        BY <1>0, <1>1, <4>1 DEF Fits, Windows, Entry
      <4>3. Entered
        BY <3>2, <4>1, <4>2 DEF Served
      <4> QED
        BY <2>1, <4>3
    <3> QED
      BY <1>3, <2>1, <2>3, <3>1, <3>2, NextPage
  <2> QED
    BY <1>3, <2>2, <2>3
<1>4. m \in T /\ m \in Nat
  BY <1>0, <1>2
<1>5. n \in T
  <2> HIDE DEF T
  <2>1. \A j \in T : \A k \in {j - 1, j + 1} : j \in Nat /\ Between(m, k, n) => k \in T
    BY <1>3
  <2> QED
    BY <1>0, <1>4, <2>1, Walk
<1>6. CASE Entered
  <2>1. PICK e \in 1 .. MaxPage : Inside(Shard, e) /\ PageOf(e) \in fetched
    BY <1>6
  <2> QED
    BY <1>0, <2>1, WalkInside
<1> QED
  BY <1>5, <1>6

LEMMA CoverInit == Init => KeptInv /\ CoverInv
<1> SUFFICES ASSUME Init PROVE KeptInv /\ CoverInv
  OBVIOUS
<1>1. SeedUrl \in UrlsIn(queue)
  <2>1. Len(queue) = 1 /\ queue[1].url = SeedUrl
    BY DEF Init
  <2> QED
    BY <2>1 DEF UrlsIn
<1>2. KeptInv
  BY <1>1 DEF Init, KeptInv, Kept
<1>3. CoverInv
  BY DEF Init, CoverInv
<1> QED
  BY <1>2, <1>3

(* On every site whose list has such a pager, for any number of processes,  *)
(* windows, slots in the table and faults of the calls that are modelled:   *)
(* when all left through the head of their loop with their filters and the  *)
(* queue is empty, no page of the window is missing but for those given up  *)
(* or lost and what lies behind them.                                       *)
THEOREM WholeShard == Paged => (Spec => []ShardCovered)
<1> SUFFICES ASSUME Paged PROVE Spec => []ShardCovered
  OBVIOUS
<1> DEFINE Inv == /\ TypeInv /\ WindowInv /\ FilterInv /\ BodyOk
                  /\ OwnPage /\ KeptInv /\ CoverInv
<1>1. Init => Inv
  BY InitType, CoverInit, WindowInit
     DEF Init, CurlInit, FilterInv, NoFlag, ScanInv, ClaimInv, BodyOk, OwnPage
<1>2. Inv /\ [Next]_vars => Inv'
  BY NextType, NextWindow, NextFilter, NextBody, NextOwnPage, KeptNext, CoverNext
<1>3. Inv => ShardCovered
  BY WindowCovered, WalkInside DEF ShardCovered
<1> QED
  BY <1>1, <1>2, <1>3, PTL DEF Spec
=============================================================================
