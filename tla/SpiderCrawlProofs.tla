-------------------------- MODULE SpiderCrawlProofs --------------------------
(***************************************************************************)
(* Proofs about the worker processes, for every number of processes, every *)
(* site, every size of queue and table and every set of faults: first the  *)
(* lock and the table, then that the processes implement the abstract      *)
(* crawl, and that no recorded URL is forgotten.                           *)
(***************************************************************************)
EXTENDS SpiderCrawl, SequenceTheorems, TLAPS

(* A worker that has a message in hand has a real one, and a worker that   *)
(* looks up, records or sends a link has a URL to do it with.              *)
Busy == PC \ ({"recv"} \union Ended)
HandsFull ==
  \A w \in Workers :
    /\ pc[w] \in Busy => cur[w] \in Msgs
    /\ pc[w] \in {"lock", "check", "write", "send"} => href[w] \in Urls

Inv == TypeOK /\ HandsFull /\ LockHeld

-----------------------------------------------------------------------------
(* Helpers: what the operators the actions are built from do to the types. *)
LEMMA MsgType ==
  ASSUME NEW u \in Urls, NEW d \in Nat, NEW n \in Nat
  PROVE  Msg(u, d, n) \in Msgs
BY DEF Msg, Msgs

LEMMA SendType ==
  ASSUME IpcTypeOK, NEW m \in Msgs, SendUnixMsgQ(m)
  PROVE  queue' \in Seq(Msgs) /\ Len(queue') <= QueueCap
BY IpcAssumption DEF IpcTypeOK, SendUnixMsgQ

LEMMA RecvType ==
  ASSUME IpcTypeOK, RecvUnixMsgQ
  PROVE  /\ Head(queue) \in Msgs
         /\ queue' \in Seq(Msgs)
         /\ Len(queue') <= QueueCap
<1>1. queue \in Seq(Msgs) /\ queue # <<>> /\ queue' = Tail(queue)
  BY DEF IpcTypeOK, RecvUnixMsgQ
<1>2. Head(queue) \in Msgs /\ Tail(queue) \in Seq(Msgs) /\ Len(Tail(queue)) = Len(queue) - 1
  BY <1>1, HeadTailProperties
<1>3. Len(queue) \in Nat /\ Len(queue) <= QueueCap
  BY <1>1, LenProperties DEF IpcTypeOK
<1> QED
  BY <1>1, <1>2, <1>3, IpcAssumption

LEMMA PutAsideType ==
  ASSUME TypeOK, NEW S, NEW why \in Fates, PutAside(S, why)
  PROVE  fate' \in [Urls -> SUBSET Fates]
BY DEF TypeOK, PutAside

LEMMA GotoType ==
  ASSUME TypeOK, NEW w \in Workers, NEW to \in PC, Goto(w, to)
  PROVE  pc' \in [Workers -> PC]
BY DEF TypeOK, Goto

LEMMA EndType ==
  ASSUME TypeOK, NEW w \in Workers, NEW how \in Ended, End(w, how)
  PROVE  /\ pc' \in [Workers -> PC]
         /\ cur' \in [Workers -> Msgs \union {Idle}]
         /\ todo' \in [Workers -> Seq(Links)]
         /\ href' \in [Workers -> Urls \union {EMPTY}]
<1>1. how \in PC
  BY DEF Ended, PC
<1> QED
  BY <1>1, GotoType DEF TypeOK, End

-----------------------------------------------------------------------------
LEMMA InvInit == Init => Inv
<1> SUFFICES ASSUME Init PROVE Inv
  OBVIOUS
<1> USE IpcAssumption, WorkersAssumption DEF Init, IpcInit
<1>1. TypeOK
  <2>1. Msg(Seed, 1, 0) \in Msgs
    BY MsgType
  <2>2. <<Msg(Seed, 1, 0)>> \in Seq(Msgs) /\ Len(<<Msg(Seed, 1, 0)>>) = 1
    BY <2>1
  <2>3. IpcTypeOK
    BY <2>2 DEF IpcTypeOK
  <2> QED
    BY <2>3 DEF TypeOK, PC
<1>2. HandsFull
  BY DEF HandsFull, Busy
<1>3. LockHeld
  BY DEF LockHeld, InLock
<1> QED
  BY <1>1, <1>2, <1>3 DEF Inv

-----------------------------------------------------------------------------
LEMMA TypeNext == Inv /\ [Next]_vars => TypeOK'
<1> SUFFICES ASSUME Inv, [Next]_vars PROVE TypeOK'
  OBVIOUS
<1> USE DEF ipcVars
<1>0. TypeOK /\ IpcTypeOK /\ HandsFull /\ LockHeld
  BY DEF Inv, TypeOK
<1>1. ASSUME NEW w \in Workers, RecvMsg(w) PROVE TypeOK'
  <2>1. queue' \in Seq(Msgs) /\ Len(queue') <= QueueCap /\ Head(queue) \in Msgs
    BY <1>0, <1>1, RecvType DEF RecvMsg
  <2>2. pc' \in [Workers -> PC]
    BY <1>0, <1>1 DEF RecvMsg, Goto, TypeOK, PC
  <2>3. cur' \in [Workers -> Msgs \union {Idle}]
    BY <2>1, <1>0, <1>1 DEF RecvMsg, TypeOK
  <2>4. fate' \in [Urls -> SUBSET Fates]
    BY <1>0, <1>1, PutAsideType DEF RecvMsg, TypeOK, Fates
  <2> QED
    BY <1>0, <1>1, <2>1, <2>2, <2>3, <2>4 DEF RecvMsg, TypeOK, IpcTypeOK
<1>2. ASSUME NEW w \in Workers, RecvTimeout(w) PROVE TypeOK'
  <2>1. "exit" \in Ended /\ End(w, "exit")
    BY <1>2 DEF RecvTimeout, Ended
  <2> QED
    BY <1>0, <1>2, <2>1, EndType DEF RecvTimeout, TypeOK, IpcTypeOK, RecvTimedOut
<1>3. ASSUME NEW w \in Workers, FetchOk(w) PROVE TypeOK'
  <2>1. pc' \in [Workers -> PC]
    BY <1>0, <1>3, GotoType DEF FetchOk, PC
  <2>2. cur[w].url \in Urls
    BY <1>0, <1>3 DEF FetchOk, HandsFull, Busy, PC, Ended, Msgs
  <2>3. fetched' \in [Urls -> 0 .. FetchCap]
    BY <1>0, <1>3, <2>2, WorkersAssumption DEF FetchOk, TypeOK
  <2>4. todo' \in [Workers -> Seq(Links)]
    BY <1>0, <1>3, <2>2, WorkersAssumption DEF FetchOk, TypeOK
  <2> QED
    BY <1>0, <1>3, <2>1, <2>2, <2>3, <2>4 DEF FetchOk, TypeOK, IpcTypeOK
<1>4. ASSUME NEW w \in Workers, FetchFail(w) PROVE TypeOK'
  <2>1. pc' \in [Workers -> PC]
    BY <1>0, <1>4, GotoType DEF FetchFail, PC
  <2>2. cur[w] \in Msgs
    BY <1>0, <1>4 DEF FetchFail, HandsFull, Busy, PC, Ended
  <2>3. [cur[w] EXCEPT !.analyse_cnt = @ + 1] \in Msgs
    BY <2>2 DEF Msgs
  <2>4. cur' \in [Workers -> Msgs \union {Idle}]
    BY <1>0, <1>4, <2>3 DEF FetchFail, TypeOK
  <2> QED
    BY <1>0, <1>4, <2>1, <2>2, <2>3, <2>4 DEF FetchFail, TypeOK, IpcTypeOK
<1>5. ASSUME NEW w \in Workers, Resend(w) PROVE TypeOK'
  <2>1. pc' \in [Workers -> PC]
    BY <1>0, <1>5, GotoType DEF Resend, PC
  <2>2. cur[w] \in Msgs
    BY <1>0, <1>5 DEF Resend, HandsFull, Busy, PC, Ended
  <2>3. queue' \in Seq(Msgs) /\ Len(queue') <= QueueCap
    BY <1>0, <1>5, <2>2, SendType DEF Resend
  <2>4. cur' \in [Workers -> Msgs \union {Idle}]
    BY <1>0, <1>5 DEF Resend, TypeOK
  <2> QED
    BY <1>0, <1>5, <2>1, <2>2, <2>3, <2>4 DEF Resend, TypeOK, IpcTypeOK
<1>6. ASSUME NEW w \in Workers, ResendFail(w) PROVE TypeOK'
  <2>1. pc' \in [Workers -> PC]
    BY <1>0, <1>6, GotoType DEF ResendFail, PC
  <2>2. cur' \in [Workers -> Msgs \union {Idle}]
    BY <1>0, <1>6 DEF ResendFail, TypeOK
  <2>3. fate' \in [Urls -> SUBSET Fates]
    BY <1>0, <1>6, PutAsideType DEF ResendFail, Fates
  <2> QED
    BY <1>0, <1>6, <2>1, <2>2, <2>3 DEF ResendFail, TypeOK, IpcTypeOK
<1>7. ASSUME NEW w \in Workers, ListPage(w) PROVE TypeOK'
  <2>1. pc' \in [Workers -> PC]
    BY <1>0, <1>7, GotoType DEF ListPage, PC
  <2>2. fp' \in [Workers -> BOOLEAN]
    BY <1>0, <1>7 DEF ListPage, TypeOK
  <2> QED
    BY <1>0, <1>7, <2>1, <2>2 DEF ListPage, TypeOK, IpcTypeOK
<1>8. ASSUME NEW w \in Workers, OpenFail(w) PROVE TypeOK'
  <2>1. "failed" \in Ended /\ End(w, "failed")
    BY <1>8 DEF OpenFail, Ended
  <2> QED
    BY <1>0, <1>8, <2>1, EndType DEF OpenFail, TypeOK, IpcTypeOK
<1>9. ASSUME NEW w \in Workers, SaveFile(w) PROVE TypeOK'
  <2>1. pc' \in [Workers -> PC]
    BY <1>0, <1>9, GotoType DEF SaveFile, PC
  <2>2. files' \subseteq Urls
    BY <1>0, <1>9 DEF SaveFile, HandsFull, Busy, PC, Ended, Msgs, TypeOK
  <2> QED
    BY <1>0, <1>9, <2>1, <2>2 DEF SaveFile, TypeOK, IpcTypeOK
<1>10. ASSUME NEW w \in Workers, InsertTask(w) PROVE TypeOK'
  <2>1. pc' \in [Workers -> PC]
    BY <1>0, <1>10, GotoType DEF InsertTask, PC
  <2>2. tasks' \subseteq Urls
    BY <1>0, <1>10 DEF InsertTask, HandsFull, Busy, PC, Ended, Msgs, TypeOK
  <2> QED
    BY <1>0, <1>10, <2>1, <2>2 DEF InsertTask, TypeOK, IpcTypeOK
<1>11. ASSUME NEW w \in Workers, NextLink(w) PROVE TypeOK'
  <2>1. Head(todo[w]) \in Links /\ Tail(todo[w]) \in Seq(Links)
    BY <1>0, <1>11, HeadTailProperties DEF NextLink, TypeOK
  <2>2. pc' \in [Workers -> PC]
    BY <1>0, <1>11, GotoType DEF NextLink, TypeOK, PC
  <2>3. todo' \in [Workers -> Seq(Links)]
    BY <1>0, <1>11, <2>1 DEF NextLink, TypeOK
  <2>4. href' \in [Workers -> Urls \union {EMPTY}]
    BY <1>0, <1>11, <2>1 DEF NextLink, TypeOK, Links
  <2> QED
    BY <1>0, <1>11, <2>1, <2>2, <2>3, <2>4 DEF NextLink, TypeOK, IpcTypeOK
<1>12. ASSUME NEW w \in Workers, EndPage(w) PROVE TypeOK'
  <2>1. pc' \in [Workers -> PC]
    BY <1>0, <1>12, GotoType DEF EndPage, PC
  <2>2. cur' \in [Workers -> Msgs \union {Idle}]
    BY <1>0, <1>12 DEF EndPage, TypeOK
  <2> QED
    BY <1>0, <1>12, <2>1, <2>2 DEF EndPage, TypeOK, IpcTypeOK
<1>13. ASSUME NEW w \in Workers, Lock(w) PROVE TypeOK'
  <2>1. pc' \in [Workers -> PC]
    BY <1>0, <1>13, GotoType DEF Lock, PC
  <2>2. semval' \in {0, 1}
    BY <1>13 DEF Lock, LockSharedMem
  <2>3. semadj[w] = 0
    BY <1>0, <1>13 DEF Lock, LockHeld, InLock
  <2>4. semadj' \in [Workers -> {-1, 0}]
    BY <1>0, <1>13, <2>3 DEF Lock, LockSharedMem, IpcTypeOK
  <2> QED
    BY <1>0, <1>13, <2>1, <2>2, <2>3, <2>4 DEF Lock, TypeOK, IpcTypeOK
<1>14. ASSUME NEW w \in Workers, LockFail(w) PROVE TypeOK'
  <2>1. "failed" \in Ended /\ End(w, "failed")
    BY <1>14 DEF LockFail, Ended
  <2> QED
    BY <1>0, <1>14, <2>1, EndType DEF LockFail, TypeOK, IpcTypeOK
<1>15. ASSUME NEW w \in Workers, CheckDone(w) PROVE TypeOK'
  <2>1. pc' \in [Workers -> PC]
    BY <1>0, <1>15, GotoType DEF CheckDone, PC
  <2>2. href' \in [Workers -> Urls \union {EMPTY}]
    BY <1>0, <1>15 DEF CheckDone, TypeOK
  <2> QED
    BY <1>0, <1>15, <2>1, <2>2 DEF CheckDone, TypeOK, IpcTypeOK
<1>16. ASSUME NEW w \in Workers, WriteDone(w) PROVE TypeOK'
  <2>1. pc' \in [Workers -> PC]
    BY <1>0, <1>16, GotoType DEF WriteDone, PC
  <2>2. href[w] \in Urls
    BY <1>0, <1>16 DEF WriteDone, HandsFull
  <2>3. donelist' \in [Slots -> Urls \union {EMPTY}]
    BY <1>0, <1>16, <2>2 DEF WriteDone, IpcTypeOK
  <2> QED
    BY <1>0, <1>16, <2>1, <2>2, <2>3 DEF WriteDone, TypeOK, IpcTypeOK
<1>17. ASSUME NEW w \in Workers, Unlock(w) PROVE TypeOK'
  <2>1. pc' \in [Workers -> PC]
    BY <1>0, <1>17, GotoType DEF Unlock, PC
  <2>2. semval' \in {0, 1}
    BY <1>0, <1>17 DEF Unlock, UnlockSharedMem, IpcTypeOK
  <2>3. semadj[w] = -1
    BY <1>0, <1>17 DEF Unlock, LockHeld, InLock
  <2>4. semadj' \in [Workers -> {-1, 0}]
    BY <1>0, <1>17, <2>3 DEF Unlock, UnlockSharedMem, IpcTypeOK
  <2> QED
    BY <1>0, <1>17, <2>1, <2>2, <2>3, <2>4 DEF Unlock, TypeOK, IpcTypeOK
<1>18. ASSUME NEW w \in Workers, SendLink(w) PROVE TypeOK'
  <2>1. pc' \in [Workers -> PC]
    BY <1>0, <1>18, GotoType DEF SendLink, PC
  <2>2. cur[w] \in Msgs /\ href[w] \in Urls
    BY <1>0, <1>18 DEF SendLink, HandsFull, Busy, PC, Ended
  <2>3. Msg(href[w], cur[w].depth + 1, 0) \in Msgs
    BY <2>2 DEF Msgs, Msg
  <2>4. queue' \in Seq(Msgs) /\ Len(queue') <= QueueCap
    BY <1>0, <1>18, <2>3, SendType DEF SendLink
  <2>5. href' \in [Workers -> Urls \union {EMPTY}]
    BY <1>0, <1>18 DEF SendLink, TypeOK
  <2> QED
    BY <1>0, <1>18, <2>1, <2>2, <2>3, <2>4, <2>5 DEF SendLink, TypeOK, IpcTypeOK
<1>19. ASSUME NEW w \in Workers, SendLinkFail(w) PROVE TypeOK'
  <2>1. pc' \in [Workers -> PC]
    BY <1>0, <1>19, GotoType DEF SendLinkFail, PC
  <2>2. href' \in [Workers -> Urls \union {EMPTY}]
    BY <1>0, <1>19 DEF SendLinkFail, TypeOK
  <2>3. fate' \in [Urls -> SUBSET Fates]
    BY <1>0, <1>19, PutAsideType DEF SendLinkFail, Fates
  <2> QED
    BY <1>0, <1>19, <2>1, <2>2, <2>3 DEF SendLinkFail, TypeOK, IpcTypeOK
<1>20. ASSUME NEW w \in Workers, Crash(w) PROVE TypeOK'
  <2>1. semval' \in {0, 1} /\ semadj' \in [Workers -> {-1, 0}]
    BY <1>0, <1>20 DEF Crash, SemUndo, IpcTypeOK
  <2>2. fate' \in [Urls -> SUBSET Fates]
    BY <1>0, <1>20, PutAsideType DEF Crash, Fates
  <2>3. "dead" \in Ended /\ End(w, "dead")
    BY <1>20 DEF Crash, Ended
  <2> QED
    BY <1>0, <1>20, <2>1, <2>2, <2>3, EndType DEF Crash, TypeOK, IpcTypeOK
<1>21. CASE UNCHANGED vars
  BY <1>0, <1>21 DEF vars, workerVars, TypeOK, IpcTypeOK
<1> QED
  BY <1>1, <1>2, <1>3, <1>4, <1>5, <1>6, <1>7, <1>8, <1>9, <1>10, <1>11, <1>12, <1>13, <1>14, <1>15, <1>16, <1>17, <1>18, <1>19, <1>20, <1>21 DEF Next, Step, Finished

-----------------------------------------------------------------------------
LEMMA HandsNext == Inv /\ [Next]_vars => HandsFull'
<1> SUFFICES ASSUME Inv, [Next]_vars PROVE HandsFull'
  OBVIOUS
<1> USE DEF Goto, End
<1>0. TypeOK /\ IpcTypeOK /\ HandsFull
  BY DEF Inv, TypeOK
<1>pc. pc \in [Workers -> PC] /\ cur \in [Workers -> Msgs \union {Idle}] /\ href \in [Workers -> Urls \union {EMPTY}]
  BY <1>0 DEF TypeOK
<1>1. ASSUME NEW w \in Workers, RecvMsg(w) PROVE HandsFull'
  <2>1. Head(queue) \in Msgs
    BY <1>0, <1>1, RecvType DEF RecvMsg
  <2> QED
    BY <1>0, <1>pc, <1>1, <2>1 DEF RecvMsg, HandsFull, Busy, PC, Ended
<1>2. ASSUME NEW w \in Workers, RecvTimeout(w) PROVE HandsFull'
  BY <1>0, <1>pc, <1>2 DEF RecvTimeout, HandsFull, Busy, PC, Ended
<1>3. ASSUME NEW w \in Workers, FetchOk(w) PROVE HandsFull'
  BY <1>0, <1>pc, <1>3 DEF FetchOk, HandsFull, Busy, PC, Ended
<1>4. ASSUME NEW w \in Workers, FetchFail(w) PROVE HandsFull'
  <2>1. cur[w] \in Msgs
    BY <1>0, <1>4 DEF FetchFail, HandsFull, Busy, PC, Ended
  <2>2. [cur[w] EXCEPT !.analyse_cnt = @ + 1] \in Msgs
    BY <2>1 DEF Msgs
  <2> QED
    BY <1>0, <1>pc, <1>4, <2>2 DEF FetchFail, HandsFull, Busy, PC, Ended
<1>5. ASSUME NEW w \in Workers, Resend(w) PROVE HandsFull'
  BY <1>0, <1>pc, <1>5 DEF Resend, HandsFull, Busy, PC, Ended
<1>6. ASSUME NEW w \in Workers, ResendFail(w) PROVE HandsFull'
  BY <1>0, <1>pc, <1>6 DEF ResendFail, HandsFull, Busy, PC, Ended
<1>7. ASSUME NEW w \in Workers, ListPage(w) PROVE HandsFull'
  BY <1>0, <1>pc, <1>7 DEF ListPage, HandsFull, Busy, PC, Ended
<1>8. ASSUME NEW w \in Workers, OpenFail(w) PROVE HandsFull'
  BY <1>0, <1>pc, <1>8 DEF OpenFail, HandsFull, Busy, PC, Ended
<1>9. ASSUME NEW w \in Workers, SaveFile(w) PROVE HandsFull'
  BY <1>0, <1>pc, <1>9 DEF SaveFile, HandsFull, Busy, PC, Ended
<1>10. ASSUME NEW w \in Workers, InsertTask(w) PROVE HandsFull'
  BY <1>0, <1>pc, <1>10 DEF InsertTask, HandsFull, Busy, PC, Ended
<1>11. ASSUME NEW w \in Workers, NextLink(w) PROVE HandsFull'
  <2>1. Head(todo[w]) \in Links
    BY <1>0, <1>11, HeadTailProperties DEF NextLink, TypeOK
  <2> QED
    BY <1>0, <1>pc, <1>11, <2>1 DEF NextLink, HandsFull, Busy, PC, Ended, Links
<1>12. ASSUME NEW w \in Workers, EndPage(w) PROVE HandsFull'
  BY <1>0, <1>pc, <1>12 DEF EndPage, HandsFull, Busy, PC, Ended
<1>13. ASSUME NEW w \in Workers, Lock(w) PROVE HandsFull'
  BY <1>0, <1>pc, <1>13 DEF Lock, HandsFull, Busy, PC, Ended
<1>14. ASSUME NEW w \in Workers, LockFail(w) PROVE HandsFull'
  BY <1>0, <1>pc, <1>14 DEF LockFail, HandsFull, Busy, PC, Ended
<1>15. ASSUME NEW w \in Workers, CheckDone(w) PROVE HandsFull'
  BY <1>0, <1>pc, <1>15 DEF CheckDone, HandsFull, Busy, PC, Ended
<1>16. ASSUME NEW w \in Workers, WriteDone(w) PROVE HandsFull'
  BY <1>0, <1>pc, <1>16 DEF WriteDone, HandsFull, Busy, PC, Ended
<1>17. ASSUME NEW w \in Workers, Unlock(w) PROVE HandsFull'
  BY <1>0, <1>pc, <1>17 DEF Unlock, HandsFull, Busy, PC, Ended
<1>18. ASSUME NEW w \in Workers, SendLink(w) PROVE HandsFull'
  BY <1>0, <1>pc, <1>18 DEF SendLink, HandsFull, Busy, PC, Ended
<1>19. ASSUME NEW w \in Workers, SendLinkFail(w) PROVE HandsFull'
  BY <1>0, <1>pc, <1>19 DEF SendLinkFail, HandsFull, Busy, PC, Ended
<1>20. ASSUME NEW w \in Workers, Crash(w) PROVE HandsFull'
  BY <1>0, <1>pc, <1>20 DEF Crash, HandsFull, Busy, PC, Ended
<1>21. CASE UNCHANGED vars
  BY <1>0, <1>21 DEF vars, workerVars, HandsFull
<1> QED
  BY <1>1, <1>2, <1>3, <1>4, <1>5, <1>6, <1>7, <1>8, <1>9, <1>10, <1>11, <1>12, <1>13, <1>14, <1>15, <1>16, <1>17, <1>18, <1>19, <1>20, <1>21 DEF Next, Step, Finished

-----------------------------------------------------------------------------
LEMMA LockNext == Inv /\ [Next]_vars => LockHeld'
<1> SUFFICES ASSUME Inv, [Next]_vars PROVE LockHeld'
  OBVIOUS
<1> USE DEF Goto, End, ipcVars
<1>0. LockHeld /\ pc \in [Workers -> PC] /\ semval \in {0, 1} /\ semadj \in [Workers -> {-1, 0}]
  BY DEF Inv, TypeOK, IpcTypeOK
<1>1. ASSUME NEW w \in Workers, RecvMsg(w) PROVE LockHeld'
  BY <1>0, <1>1 DEF RecvMsg, LockHeld, InLock, Ended
<1>2. ASSUME NEW w \in Workers, RecvTimeout(w) PROVE LockHeld'
  BY <1>0, <1>2 DEF RecvTimeout, LockHeld, InLock, Ended
<1>3. ASSUME NEW w \in Workers, FetchOk(w) PROVE LockHeld'
  BY <1>0, <1>3 DEF FetchOk, LockHeld, InLock, Ended
<1>4. ASSUME NEW w \in Workers, FetchFail(w) PROVE LockHeld'
  BY <1>0, <1>4 DEF FetchFail, LockHeld, InLock, Ended
<1>5. ASSUME NEW w \in Workers, Resend(w) PROVE LockHeld'
  BY <1>0, <1>5 DEF Resend, LockHeld, InLock, Ended
<1>6. ASSUME NEW w \in Workers, ResendFail(w) PROVE LockHeld'
  BY <1>0, <1>6 DEF ResendFail, LockHeld, InLock, Ended
<1>7. ASSUME NEW w \in Workers, ListPage(w) PROVE LockHeld'
  BY <1>0, <1>7 DEF ListPage, LockHeld, InLock, Ended
<1>8. ASSUME NEW w \in Workers, OpenFail(w) PROVE LockHeld'
  BY <1>0, <1>8 DEF OpenFail, LockHeld, InLock, Ended
<1>9. ASSUME NEW w \in Workers, SaveFile(w) PROVE LockHeld'
  BY <1>0, <1>9 DEF SaveFile, LockHeld, InLock, Ended
<1>10. ASSUME NEW w \in Workers, InsertTask(w) PROVE LockHeld'
  BY <1>0, <1>10 DEF InsertTask, LockHeld, InLock, Ended
<1>11. ASSUME NEW w \in Workers, NextLink(w) PROVE LockHeld'
  BY <1>0, <1>11 DEF NextLink, LockHeld, InLock, Ended
<1>12. ASSUME NEW w \in Workers, EndPage(w) PROVE LockHeld'
  BY <1>0, <1>12 DEF EndPage, LockHeld, InLock, Ended
<1>13. ASSUME NEW w \in Workers, Lock(w) PROVE LockHeld'
  BY <1>0, <1>13 DEF Lock, LockHeld, InLock, Ended, LockSharedMem
<1>14. ASSUME NEW w \in Workers, LockFail(w) PROVE LockHeld'
  BY <1>0, <1>14 DEF LockFail, LockHeld, InLock, Ended
<1>15. ASSUME NEW w \in Workers, CheckDone(w) PROVE LockHeld'
  BY <1>0, <1>15 DEF CheckDone, LockHeld, InLock, Ended
<1>16. ASSUME NEW w \in Workers, WriteDone(w) PROVE LockHeld'
  BY <1>0, <1>16 DEF WriteDone, LockHeld, InLock, Ended
<1>17. ASSUME NEW w \in Workers, Unlock(w) PROVE LockHeld'
  BY <1>0, <1>17 DEF Unlock, LockHeld, InLock, Ended, UnlockSharedMem
<1>18. ASSUME NEW w \in Workers, SendLink(w) PROVE LockHeld'
  BY <1>0, <1>18 DEF SendLink, LockHeld, InLock, Ended
<1>19. ASSUME NEW w \in Workers, SendLinkFail(w) PROVE LockHeld'
  BY <1>0, <1>19 DEF SendLinkFail, LockHeld, InLock, Ended
<1>20. ASSUME NEW w \in Workers, Crash(w) PROVE LockHeld'
  BY <1>0, <1>20 DEF Crash, LockHeld, InLock, Ended, SemUndo
<1>21. CASE UNCHANGED vars
  BY <1>0, <1>21 DEF vars, workerVars, LockHeld
<1> QED
  BY <1>1, <1>2, <1>3, <1>4, <1>5, <1>6, <1>7, <1>8, <1>9, <1>10, <1>11, <1>12, <1>13, <1>14, <1>15, <1>16, <1>17, <1>18, <1>19, <1>20, <1>21 DEF Next, Step, Finished

(* In every reachable state the variables have their types, and the         *)
(* semaphore says of exactly one process that it is between LockSharedMem   *)
(* and UnlockSharedMem, whoever was killed and wherever.                    *)
THEOREM InvAlways == Spec => []Inv
<1> QED
  BY InvInit, TypeNext, HandsNext, LockNext, PTL DEF Spec, Inv

THEOREM TypeCorrect == Spec => []TypeOK
BY InvAlways, PTL DEF Inv

THEOREM MutualExclusion == Spec => []LockHeld
BY InvAlways, PTL DEF Inv

-----------------------------------------------------------------------------
(* No URL is recorded twice: the process about to write one has looked for *)
(* it, and the lock kept the table as it was.                              *)
Checked == \A w \in Workers : pc[w] = "write" => href[w] \notin Recorded

LEMMA SlotsNext ==
  Inv /\ NoDupSlots /\ Checked /\ [Next]_vars => NoDupSlots' /\ Checked'
<1> SUFFICES ASSUME Inv, NoDupSlots, Checked, [Next]_vars
             PROVE  NoDupSlots' /\ Checked'
  OBVIOUS
<1> USE DEF Goto, End, ipcVars
<1>0. LockHeld /\ HandsFull /\ pc \in [Workers -> PC] /\ donelist \in [Slots -> Urls \union {EMPTY}]
      /\ href \in [Workers -> Urls \union {EMPTY}]
  BY DEF Inv, TypeOK, IpcTypeOK
<1>1. ASSUME NEW w \in Workers, RecvMsg(w) PROVE NoDupSlots' /\ Checked'
  BY <1>0, <1>1 DEF RecvMsg, NoDupSlots, Checked, Recorded, Ended
<1>2. ASSUME NEW w \in Workers, RecvTimeout(w) PROVE NoDupSlots' /\ Checked'
  BY <1>0, <1>2 DEF RecvTimeout, NoDupSlots, Checked, Recorded, Ended
<1>3. ASSUME NEW w \in Workers, FetchOk(w) PROVE NoDupSlots' /\ Checked'
  BY <1>0, <1>3 DEF FetchOk, NoDupSlots, Checked, Recorded, Ended
<1>4. ASSUME NEW w \in Workers, FetchFail(w) PROVE NoDupSlots' /\ Checked'
  BY <1>0, <1>4 DEF FetchFail, NoDupSlots, Checked, Recorded, Ended
<1>5. ASSUME NEW w \in Workers, Resend(w) PROVE NoDupSlots' /\ Checked'
  BY <1>0, <1>5 DEF Resend, NoDupSlots, Checked, Recorded, Ended
<1>6. ASSUME NEW w \in Workers, ResendFail(w) PROVE NoDupSlots' /\ Checked'
  BY <1>0, <1>6 DEF ResendFail, NoDupSlots, Checked, Recorded, Ended
<1>7. ASSUME NEW w \in Workers, ListPage(w) PROVE NoDupSlots' /\ Checked'
  BY <1>0, <1>7 DEF ListPage, NoDupSlots, Checked, Recorded, Ended
<1>8. ASSUME NEW w \in Workers, OpenFail(w) PROVE NoDupSlots' /\ Checked'
  BY <1>0, <1>8 DEF OpenFail, NoDupSlots, Checked, Recorded, Ended
<1>9. ASSUME NEW w \in Workers, SaveFile(w) PROVE NoDupSlots' /\ Checked'
  BY <1>0, <1>9 DEF SaveFile, NoDupSlots, Checked, Recorded, Ended
<1>10. ASSUME NEW w \in Workers, InsertTask(w) PROVE NoDupSlots' /\ Checked'
  BY <1>0, <1>10 DEF InsertTask, NoDupSlots, Checked, Recorded, Ended
<1>11. ASSUME NEW w \in Workers, NextLink(w) PROVE NoDupSlots' /\ Checked'
  BY <1>0, <1>11 DEF NextLink, NoDupSlots, Checked, Recorded, Ended
<1>12. ASSUME NEW w \in Workers, EndPage(w) PROVE NoDupSlots' /\ Checked'
  BY <1>0, <1>12 DEF EndPage, NoDupSlots, Checked, Recorded, Ended
<1>13. ASSUME NEW w \in Workers, Lock(w) PROVE NoDupSlots' /\ Checked'
  BY <1>0, <1>13 DEF Lock, NoDupSlots, Checked, Recorded, Ended
<1>14. ASSUME NEW w \in Workers, LockFail(w) PROVE NoDupSlots' /\ Checked'
  BY <1>0, <1>14 DEF LockFail, NoDupSlots, Checked, Recorded, Ended
<1>15. ASSUME NEW w \in Workers, CheckDone(w) PROVE NoDupSlots' /\ Checked'
  BY <1>0, <1>15 DEF CheckDone, NoDupSlots, Checked, Recorded, Ended
<1>16. ASSUME NEW w \in Workers, WriteDone(w) PROVE NoDupSlots' /\ Checked'
  <2>1. href[w] \in Urls /\ href[w] \notin Recorded
    BY <1>0, <1>16 DEF WriteDone, HandsFull, Checked
  <2>2. PICK i \in 0 .. UrlNum : /\ IsFirstFree(i)
                                 /\ donelist' = IF i \in Slots THEN [donelist EXCEPT ![i] = href[w]]
                                                               ELSE donelist
    BY <1>16 DEF WriteDone
  <2>3. NoDupSlots'
    BY <1>0, <2>1, <2>2 DEF NoDupSlots, Recorded
  <2>4. \A v \in Workers : pc'[v] # "write"
    BY <1>0, <1>16 DEF WriteDone, LockHeld, InLock
  <2> QED
    BY <2>3, <2>4 DEF Checked
<1>17. ASSUME NEW w \in Workers, Unlock(w) PROVE NoDupSlots' /\ Checked'
  BY <1>0, <1>17 DEF Unlock, NoDupSlots, Checked, Recorded, Ended
<1>18. ASSUME NEW w \in Workers, SendLink(w) PROVE NoDupSlots' /\ Checked'
  BY <1>0, <1>18 DEF SendLink, NoDupSlots, Checked, Recorded, Ended
<1>19. ASSUME NEW w \in Workers, SendLinkFail(w) PROVE NoDupSlots' /\ Checked'
  BY <1>0, <1>19 DEF SendLinkFail, NoDupSlots, Checked, Recorded, Ended
<1>20. ASSUME NEW w \in Workers, Crash(w) PROVE NoDupSlots' /\ Checked'
  BY <1>0, <1>20 DEF Crash, NoDupSlots, Checked, Recorded, Ended
<1>21. CASE UNCHANGED vars
  BY <1>0, <1>21 DEF vars, workerVars, NoDupSlots, Checked, Recorded
<1> QED
  BY <1>1, <1>2, <1>3, <1>4, <1>5, <1>6, <1>7, <1>8, <1>9, <1>10, <1>11, <1>12, <1>13, <1>14, <1>15, <1>16, <1>17, <1>18, <1>19, <1>20, <1>21 DEF Next, Step, Finished

LEMMA SlotsInit == Init => NoDupSlots /\ Checked
BY DEF Init, IpcInit, NoDupSlots, Checked, Slots

THEOREM NeverTwice == Spec => []NoDupSlots
<1> QED
  BY InvAlways, SlotsInit, SlotsNext, PTL DEF Spec

-----------------------------------------------------------------------------
(***************************************************************************)
(* The crawl: every step is a step of module Crawl or changes none of its   *)
(* three lists.                                                             *)
(***************************************************************************)
(* The page a worker looks through has been fetched, and what is left of   *)
(* its links, like the link in hand, are links of that page.               *)
Scanning == {"list", "save", "insert", "scan", "lock", "check", "write", "unlock", "send"}
LinksInHand ==
  \A w \in Workers :
    /\ pc[w] \in Scanning =>
         /\ fetched[cur[w].url] > 0
         /\ \A i \in 1 .. Len(todo[w]) :
              todo[w][i].iflag => todo[w][i].href \in LinksOf(cur[w].url)
    /\ pc[w] \in {"lock", "check", "write"} => href[w] \in LinksOf(cur[w].url)

-----------------------------------------------------------------------------
(* What sending and receiving do to the URLs in the queue. *)
LEMMA QueueSend ==
  ASSUME IpcTypeOK, NEW m \in Msgs, SendUnixMsgQ(m)
  PROVE  \A u \in Urls : InQueue(u)' <=> InQueue(u) \/ u = m.url
<1>1. queue \in Seq(Msgs) /\ queue' = Append(queue, m)
  BY DEF IpcTypeOK, SendUnixMsgQ
<1>2. /\ Len(queue') = Len(queue) + 1
      /\ \A i \in 1 .. Len(queue) : queue'[i] = queue[i]
      /\ queue'[Len(queue) + 1] = m
      /\ Len(queue) \in Nat
  BY <1>1, AppendProperties, LenProperties
<1> QED
  BY <1>2 DEF InQueue

LEMMA QueueRecv ==
  ASSUME IpcTypeOK, RecvUnixMsgQ
  PROVE  \A u \in Urls : InQueue(u) <=> InQueue(u)' \/ u = Head(queue).url
<1>1. queue \in Seq(Msgs) /\ queue # <<>> /\ queue' = Tail(queue)
  BY DEF IpcTypeOK, RecvUnixMsgQ
<1>2. /\ Len(queue) \in Nat /\ Len(queue) >= 1
      /\ Len(queue') = Len(queue) - 1
      /\ \A i \in 1 .. Len(queue') : queue'[i] = queue[i + 1]
      /\ Head(queue) = queue[1]
  BY <1>1
<1>3. ASSUME NEW u \in Urls, InQueue(u) PROVE InQueue(u)' \/ u = Head(queue).url
  <2>1. PICK i \in 1 .. Len(queue) : queue[i].url = u
    BY <1>3 DEF InQueue
  <2>2. CASE i = 1
    BY <2>1, <2>2, <1>2
  <2>3. CASE i # 1
    <3>1. i - 1 \in 1 .. Len(queue') /\ queue'[i - 1] = queue[i]
      BY <2>3, <1>2
    <3> QED
      BY <3>1, <2>1 DEF InQueue
  <2> QED
    BY <2>2, <2>3
<1>4. ASSUME NEW u \in Urls, InQueue(u)' PROVE InQueue(u)
  <2>1. PICK i \in 1 .. Len(queue') : queue'[i].url = u
    BY <1>4 DEF InQueue
  <2>2. i + 1 \in 1 .. Len(queue) /\ queue[i + 1].url = u
    BY <2>1, <1>2
  <2> QED
    BY <2>2 DEF InQueue
<1>5. InQueue(Head(queue).url)
  BY <1>2 DEF InQueue
<1> QED
  BY <1>3, <1>4, <1>5

-----------------------------------------------------------------------------
(* The four ways a step shows in the lists of the abstract crawl. *)
LEMMA Stutters ==
  ASSUME \A u \in Urls : Pending(u)' <=> Pending(u), UNCHANGED <<fetched, fate>>
  PROVE  UNCHANGED C!vars
<1>1. doneBar' = doneBar
  BY DEF doneBar
<1>2. droppedBar' = droppedBar
  BY <1>1 DEF droppedBar
<1>3. todoBar' = todoBar
  BY <1>1, <1>2 DEF todoBar
<1> QED
  BY <1>1, <1>2, <1>3 DEF C!vars

LEMMA Drops ==
  ASSUME TypeOK, NEW x \in Urls, NEW why, Pending(x),
         \A u \in Urls \ {x} : Pending(u)' <=> Pending(u),
         PutAside({x}, why), UNCHANGED fetched
  PROVE  C!Drop(x) \/ UNCHANGED C!vars
<1>1. doneBar' = doneBar
  BY DEF doneBar
<1>2. droppedBar' = droppedBar \union ({x} \ doneBar)
  BY <1>1 DEF droppedBar, PutAside, TypeOK
<1>3. todoBar' = todoBar \ {x}
  BY <1>1, <1>2 DEF todoBar, droppedBar
<1>4. CASE x \in doneBar \union droppedBar
  BY <1>1, <1>2, <1>3, <1>4 DEF todoBar, C!vars
<1>5. CASE x \notin doneBar \union droppedBar
  BY <1>1, <1>2, <1>3, <1>5 DEF todoBar, C!Drop
<1> QED
  BY <1>4, <1>5

LEMMA Serves ==
  ASSUME TypeOK, NEW x \in Urls, Pending(x),
         \A u \in Urls \ {x} : Pending(u)' <=> Pending(u),
         fetched' = [fetched EXCEPT ![x] = IF @ < FetchCap THEN @ + 1 ELSE @],
         UNCHANGED fate
  PROVE  C!Serve(x) \/ UNCHANGED C!vars
<1>1. doneBar' = doneBar \union {x}
  BY WorkersAssumption DEF doneBar, TypeOK
<1>2. droppedBar' = droppedBar \ {x}
  BY <1>1 DEF droppedBar
<1>3. todoBar' = todoBar \ {x}
  BY <1>1, <1>2 DEF todoBar, droppedBar
<1>4. CASE x \in doneBar
  BY <1>1, <1>2, <1>3, <1>4 DEF todoBar, droppedBar, C!vars
<1>5. CASE x \notin doneBar
  BY <1>1, <1>2, <1>3, <1>5 DEF todoBar, C!Serve
<1> QED
  BY <1>4, <1>5

LEMMA Discovers ==
  ASSUME NEW x \in Urls, NEW y \in Urls, fetched[y] > 0, x \in LinksOf(y),
         Pending(x)',
         \A u \in Urls \ {x} : Pending(u)' <=> Pending(u),
         UNCHANGED <<fetched, fate>>
  PROVE  C!Discover(x) \/ UNCHANGED C!vars
<1>1. doneBar' = doneBar /\ y \in doneBar
  BY DEF doneBar
<1>2. droppedBar' = droppedBar
  BY <1>1 DEF droppedBar
<1>3. todoBar' = todoBar \union ({x} \ (doneBar \union droppedBar))
  BY <1>1, <1>2 DEF todoBar
<1>4. CASE x \in todoBar \union doneBar \union droppedBar
  BY <1>1, <1>2, <1>3, <1>4 DEF C!vars
<1>5. CASE x \notin todoBar \union doneBar \union droppedBar
  BY <1>1, <1>2, <1>3, <1>5 DEF C!Discover, C!Known
<1> QED
  BY <1>4, <1>5
-----------------------------------------------------------------------------
LEMMA LinksInit == Init => LinksInHand
BY DEF Init, LinksInHand, Scanning

LEMMA LinksNext == Inv /\ LinksInHand /\ [Next]_vars => LinksInHand'
<1> SUFFICES ASSUME Inv, LinksInHand, [Next]_vars PROVE LinksInHand'
  OBVIOUS
<1> USE DEF Goto, End
<1>0. /\ LinksInHand
      /\ TypeOK
      /\ HandsFull
      /\ pc \in [Workers -> PC]
      /\ cur \in [Workers -> Msgs \union {Idle}]
      /\ todo \in [Workers -> Seq(Links)]
      /\ href \in [Workers -> Urls \union {EMPTY}]
      /\ fetched \in [Urls -> 0 .. FetchCap]
  BY DEF Inv, TypeOK
<1>1. ASSUME NEW w \in Workers, RecvMsg(w) PROVE LinksInHand'
  BY <1>0, <1>1 DEF RecvMsg, LinksInHand, Scanning, Ended, PC
<1>2. ASSUME NEW w \in Workers, RecvTimeout(w) PROVE LinksInHand'
  BY <1>0, <1>2 DEF RecvTimeout, LinksInHand, Scanning, Ended, PC
<1>3. ASSUME NEW w \in Workers, FetchOk(w) PROVE LinksInHand'
  <2> DEFINE u == cur[w].url
  <2>1. u \in Urls
    BY <1>0, <1>3 DEF FetchOk, HandsFull, Busy, PC, Ended, Msgs
  <2>2. fetched'[u] > 0 /\ \A v \in Urls : fetched[v] > 0 => fetched'[v] > 0
    BY <1>0, <1>3, <2>1, WorkersAssumption DEF FetchOk
  <2>3. \A i \in 1 .. Len(Hrefs[u]) : Hrefs[u][i].iflag => Hrefs[u][i].href \in LinksOf(u)
    <3>1. DOMAIN Hrefs[u] = 1 .. Len(Hrefs[u])
      BY <2>1, WorkersAssumption
    <3> QED
      BY <3>1 DEF LinksOf
  <2>4. \A v \in Workers : pc[v] \in Scanning => cur[v].url \in Urls
    BY <1>0 DEF HandsFull, Busy, PC, Ended, Scanning, Msgs
  <2> QED
    BY <1>0, <1>3, <2>2, <2>3, <2>4 DEF FetchOk, LinksInHand, Scanning
<1>4. ASSUME NEW w \in Workers, FetchFail(w) PROVE LinksInHand'
  BY <1>0, <1>4 DEF FetchFail, LinksInHand, Scanning, Ended, PC
<1>5. ASSUME NEW w \in Workers, Resend(w) PROVE LinksInHand'
  BY <1>0, <1>5 DEF Resend, LinksInHand, Scanning, Ended, PC
<1>6. ASSUME NEW w \in Workers, ResendFail(w) PROVE LinksInHand'
  BY <1>0, <1>6 DEF ResendFail, LinksInHand, Scanning, Ended, PC
<1>7. ASSUME NEW w \in Workers, ListPage(w) PROVE LinksInHand'
  BY <1>0, <1>7 DEF ListPage, LinksInHand, Scanning, Ended, PC
<1>8. ASSUME NEW w \in Workers, OpenFail(w) PROVE LinksInHand'
  BY <1>0, <1>8 DEF OpenFail, LinksInHand, Scanning, Ended, PC
<1>9. ASSUME NEW w \in Workers, SaveFile(w) PROVE LinksInHand'
  BY <1>0, <1>9 DEF SaveFile, LinksInHand, Scanning, Ended, PC
<1>10. ASSUME NEW w \in Workers, InsertTask(w) PROVE LinksInHand'
  BY <1>0, <1>10 DEF InsertTask, LinksInHand, Scanning, Ended, PC
<1>11. ASSUME NEW w \in Workers, NextLink(w) PROVE LinksInHand'
  <2>1. todo[w] \in Seq(Links) /\ todo[w] # <<>>
    BY <1>0, <1>11 DEF NextLink
  <2>2. /\ Len(Tail(todo[w])) = Len(todo[w]) - 1 /\ Len(todo[w]) \in Nat
        /\ \A i \in 1 .. Len(Tail(todo[w])) : Tail(todo[w])[i] = todo[w][i + 1]
        /\ Head(todo[w]) = todo[w][1] /\ Len(todo[w]) >= 1
    BY <2>1
  <2>3. \A i \in 1 .. Len(todo[w]) : todo[w][i].iflag => todo[w][i].href \in LinksOf(cur[w].url)
    BY <1>0, <1>11 DEF NextLink, LinksInHand, Scanning
  <2>4. \A i \in 1 .. Len(Tail(todo[w])) :
          Tail(todo[w])[i].iflag => Tail(todo[w])[i].href \in LinksOf(cur[w].url)
    <3>1. \A i \in 1 .. Len(Tail(todo[w])) : i + 1 \in 1 .. Len(todo[w])
      BY <2>2
    <3> QED
      BY <2>2, <2>3, <3>1
  <2>5. Head(todo[w]).iflag => Head(todo[w]).href \in LinksOf(cur[w].url)
    BY <2>2, <2>3
  <2> QED
    BY <1>0, <1>11, <2>4, <2>5 DEF NextLink, LinksInHand, Scanning
<1>12. ASSUME NEW w \in Workers, EndPage(w) PROVE LinksInHand'
  BY <1>0, <1>12 DEF EndPage, LinksInHand, Scanning, Ended, PC
<1>13. ASSUME NEW w \in Workers, Lock(w) PROVE LinksInHand'
  BY <1>0, <1>13 DEF Lock, LinksInHand, Scanning, Ended, PC
<1>14. ASSUME NEW w \in Workers, LockFail(w) PROVE LinksInHand'
  BY <1>0, <1>14 DEF LockFail, LinksInHand, Scanning, Ended, PC
<1>15. ASSUME NEW w \in Workers, CheckDone(w) PROVE LinksInHand'
  BY <1>0, <1>15 DEF CheckDone, LinksInHand, Scanning, Ended, PC
<1>16. ASSUME NEW w \in Workers, WriteDone(w) PROVE LinksInHand'
  BY <1>0, <1>16 DEF WriteDone, LinksInHand, Scanning, Ended, PC
<1>17. ASSUME NEW w \in Workers, Unlock(w) PROVE LinksInHand'
  BY <1>0, <1>17 DEF Unlock, LinksInHand, Scanning, Ended, PC
<1>18. ASSUME NEW w \in Workers, SendLink(w) PROVE LinksInHand'
  BY <1>0, <1>18 DEF SendLink, LinksInHand, Scanning, Ended, PC
<1>19. ASSUME NEW w \in Workers, SendLinkFail(w) PROVE LinksInHand'
  BY <1>0, <1>19 DEF SendLinkFail, LinksInHand, Scanning, Ended, PC
<1>20. ASSUME NEW w \in Workers, Crash(w) PROVE LinksInHand'
  BY <1>0, <1>20 DEF Crash, LinksInHand, Scanning, Ended, PC
<1>21. CASE UNCHANGED vars
  BY <1>0, <1>21 DEF vars, workerVars, LinksInHand
<1> QED
  BY <1>1, <1>2, <1>3, <1>4, <1>5, <1>6, <1>7, <1>8, <1>9, <1>10, <1>11, <1>12, <1>13, <1>14, <1>15, <1>16, <1>17, <1>18, <1>19, <1>20, <1>21 DEF Next, Step, Finished

-----------------------------------------------------------------------------
LEMMA CrawlInit == Init => C!Init
<1> SUFFICES ASSUME Init PROVE C!Init
  OBVIOUS
<1> USE WorkersAssumption DEF Init, IpcInit
<1>1. doneBar = {} /\ droppedBar = {}
  BY DEF doneBar, droppedBar
<1>2. \A u \in Urls : InQueue(u) <=> u = Seed
  BY DEF InQueue, Msg
<1>3. \A w \in Workers : InHand(w) = {}
  BY DEF InHand, Holding, Linking
<1>4. todoBar = {Seed}
  BY <1>1, <1>2, <1>3 DEF todoBar, Pending
<1> QED
  BY <1>1, <1>4 DEF C!Init

(* Only the step that records a link depends on what the links in hand are. *)
LEMMA CrawlMoves ==
  ASSUME Inv, [Next]_vars, \A w \in Workers : ~ WriteDone(w)
  PROVE  [C!Next]_(C!vars)
<1> USE DEF Goto, End, ipcVars
<1>0. /\ TypeOK /\ IpcTypeOK /\ HandsFull
      /\ pc \in [Workers -> PC]
      /\ cur \in [Workers -> Msgs \union {Idle}]
      /\ href \in [Workers -> Urls \union {EMPTY}]
  BY DEF Inv, TypeOK
<1>1. ASSUME NEW w \in Workers, RecvMsg(w) PROVE [C!Next]_(C!vars)
  <2> DEFINE m == Head(queue)
  <2>1. m \in Msgs /\ m.url \in Urls /\ InQueue(m.url)
    <3>1. RecvUnixMsgQ
      BY <1>1 DEF RecvMsg
    <3>2. m \in Msgs
      BY <1>0, <3>1, RecvType
    <3> QED
      BY <1>0, <3>1, <3>2, QueueRecv DEF Msgs
  <2>2. \A u \in Urls : InQueue(u) <=> InQueue(u)' \/ u = m.url
    BY <1>0, <1>1, QueueRecv DEF RecvMsg
  <2>3. InHand(w) = {} /\ \A v \in Workers \ {w} : InHand(v)' = InHand(v)
    BY <1>0, <1>1 DEF RecvMsg, InHand, Holding, Linking
  <2>4. CASE m.analyse_cnt >= MaxAnalyse \/ TooDeep(m)
    <3>1. InHand(w)' = {}
      BY <1>1, <2>3, <2>4 DEF RecvMsg, InHand
    <3>2. \A u \in Urls \ {m.url} : Pending(u)' <=> Pending(u)
      BY <2>2, <2>3, <3>1 DEF Pending
    <3>3. PICK why : PutAside({m.url}, why)
      BY <1>1, <2>4 DEF RecvMsg
    <3>4. UNCHANGED fetched /\ Pending(m.url)
      BY <1>1, <2>1 DEF RecvMsg, Pending
    <3> QED
      BY <1>0, <2>1, <3>2, <3>3, <3>4, Drops DEF C!Next
  <2>5. CASE ~ (m.analyse_cnt >= MaxAnalyse \/ TooDeep(m))
    <3>1. InHand(w)' = {m.url} /\ UNCHANGED <<fetched, fate>>
      BY <1>0, <1>1, <2>5 DEF RecvMsg, InHand, Holding
    <3>2. \A u \in Urls : Pending(u)' <=> Pending(u)
      BY <2>2, <2>3, <3>1 DEF Pending
    <3> QED
      BY <3>1, <3>2, Stutters
  <2> QED
    BY <2>4, <2>5
<1>2. ASSUME NEW w \in Workers, RecvTimeout(w) PROVE [C!Next]_(C!vars)
  <2>1. \A v \in Workers : InHand(v)' = InHand(v)
    BY <1>0, <1>2 DEF RecvTimeout, InHand, Holding, Linking, Ended
  <2>2. UNCHANGED <<queue, fetched, fate>>
    BY <1>2 DEF RecvTimeout, RecvTimedOut
  <2> QED
    BY <2>1, <2>2, Stutters DEF Pending, InQueue
<1>3. ASSUME NEW w \in Workers, FetchOk(w) PROVE [C!Next]_(C!vars)
  <2> DEFINE u == cur[w].url
  <2>1. u \in Urls
    BY <1>0, <1>3 DEF FetchOk, HandsFull, Busy, PC, Ended, Msgs
  <2>2. InHand(w) = {u} /\ InHand(w)' = {} /\ \A v \in Workers \ {w} : InHand(v)' = InHand(v)
    BY <1>0, <1>3 DEF FetchOk, InHand, Holding, Linking
  <2>3. Pending(u) /\ \A v \in Urls \ {u} : Pending(v)' <=> Pending(v)
    BY <1>3, <2>2 DEF FetchOk, Pending, InQueue
  <2> HIDE DEF u
  <2>4. /\ fetched' = [fetched EXCEPT ![u] = IF @ < FetchCap THEN @ + 1 ELSE @]
        /\ UNCHANGED fate
    BY <1>3 DEF FetchOk, u
  <2> QED
    BY <1>0, <2>1, <2>3, <2>4, Serves DEF C!Next
<1>4. ASSUME NEW w \in Workers, FetchFail(w) PROVE [C!Next]_(C!vars)
  <2>1. \A v \in Workers : InHand(v)' = InHand(v)
    BY <1>0, <1>4 DEF FetchFail, InHand, Holding, Linking, Ended
  <2>2. UNCHANGED <<queue, fetched, fate>>
    BY <1>4 DEF FetchFail
  <2> QED
    BY <2>1, <2>2, Stutters DEF Pending, InQueue
<1>5. ASSUME NEW w \in Workers, Resend(w) PROVE [C!Next]_(C!vars)
  <2>1. cur[w] \in Msgs
    BY <1>0, <1>5 DEF Resend, HandsFull, Busy, PC, Ended
  <2>2. \A u \in Urls : InQueue(u)' <=> InQueue(u) \/ u = cur[w].url
    BY <1>0, <1>5, <2>1, QueueSend DEF Resend
  <2>3. InHand(w) = {cur[w].url} /\ InHand(w)' = {} /\ \A v \in Workers \ {w} : InHand(v)' = InHand(v)
    BY <1>0, <1>5 DEF Resend, InHand, Holding, Linking
  <2>4. \A u \in Urls : Pending(u)' <=> Pending(u)
    BY <2>2, <2>3 DEF Pending
  <2> QED
    BY <1>5, <2>4, Stutters DEF Resend
<1>6. ASSUME NEW w \in Workers, ResendFail(w) PROVE [C!Next]_(C!vars)
  <2> DEFINE u == cur[w].url
  <2>1. u \in Urls
    BY <1>0, <1>6 DEF ResendFail, HandsFull, Busy, PC, Ended, Msgs
  <2>2. InHand(w) = {u} /\ InHand(w)' = {} /\ \A v \in Workers \ {w} : InHand(v)' = InHand(v)
    BY <1>0, <1>6, <2>1 DEF ResendFail, InHand, Holding, Linking
  <2>3. Pending(u) /\ \A v \in Urls \ {u} : Pending(v)' <=> Pending(v)
    BY <1>6, <2>2 DEF ResendFail, Pending, InQueue
  <2>4. PutAside({u}, "lost") /\ UNCHANGED fetched
    BY <1>6 DEF ResendFail
  <2> HIDE DEF u
  <2> QED
    BY <1>0, <2>1, <2>3, <2>4, Drops DEF C!Next
<1>7. ASSUME NEW w \in Workers, ListPage(w) PROVE [C!Next]_(C!vars)
  <2>1. \A v \in Workers : InHand(v)' = InHand(v)
    BY <1>0, <1>7 DEF ListPage, InHand, Holding, Linking, Ended
  <2>2. UNCHANGED <<queue, fetched, fate>>
    BY <1>7 DEF ListPage
  <2> QED
    BY <2>1, <2>2, Stutters DEF Pending, InQueue
<1>8. ASSUME NEW w \in Workers, OpenFail(w) PROVE [C!Next]_(C!vars)
  <2>1. \A v \in Workers : InHand(v)' = InHand(v)
    BY <1>0, <1>8 DEF OpenFail, InHand, Holding, Linking, Ended
  <2>2. UNCHANGED <<queue, fetched, fate>>
    BY <1>8 DEF OpenFail
  <2> QED
    BY <2>1, <2>2, Stutters DEF Pending, InQueue
<1>9. ASSUME NEW w \in Workers, SaveFile(w) PROVE [C!Next]_(C!vars)
  <2>1. \A v \in Workers : InHand(v)' = InHand(v)
    BY <1>0, <1>9 DEF SaveFile, InHand, Holding, Linking, Ended
  <2>2. UNCHANGED <<queue, fetched, fate>>
    BY <1>9 DEF SaveFile
  <2> QED
    BY <2>1, <2>2, Stutters DEF Pending, InQueue
<1>10. ASSUME NEW w \in Workers, InsertTask(w) PROVE [C!Next]_(C!vars)
  <2>1. \A v \in Workers : InHand(v)' = InHand(v)
    BY <1>0, <1>10 DEF InsertTask, InHand, Holding, Linking, Ended
  <2>2. UNCHANGED <<queue, fetched, fate>>
    BY <1>10 DEF InsertTask
  <2> QED
    BY <2>1, <2>2, Stutters DEF Pending, InQueue
<1>11. ASSUME NEW w \in Workers, NextLink(w) PROVE [C!Next]_(C!vars)
  <2>1. \A v \in Workers : InHand(v)' = InHand(v)
    BY <1>0, <1>11 DEF NextLink, InHand, Holding, Linking, Ended
  <2>2. UNCHANGED <<queue, fetched, fate>>
    BY <1>11 DEF NextLink
  <2> QED
    BY <2>1, <2>2, Stutters DEF Pending, InQueue
<1>12. ASSUME NEW w \in Workers, EndPage(w) PROVE [C!Next]_(C!vars)
  <2>1. \A v \in Workers : InHand(v)' = InHand(v)
    BY <1>0, <1>12 DEF EndPage, InHand, Holding, Linking, Ended
  <2>2. UNCHANGED <<queue, fetched, fate>>
    BY <1>12 DEF EndPage
  <2> QED
    BY <2>1, <2>2, Stutters DEF Pending, InQueue
<1>13. ASSUME NEW w \in Workers, Lock(w) PROVE [C!Next]_(C!vars)
  <2>1. \A v \in Workers : InHand(v)' = InHand(v)
    BY <1>0, <1>13 DEF Lock, InHand, Holding, Linking, Ended
  <2>2. UNCHANGED <<queue, fetched, fate>>
    BY <1>13 DEF Lock
  <2> QED
    BY <2>1, <2>2, Stutters DEF Pending, InQueue
<1>14. ASSUME NEW w \in Workers, LockFail(w) PROVE [C!Next]_(C!vars)
  <2>1. \A v \in Workers : InHand(v)' = InHand(v)
    BY <1>0, <1>14 DEF LockFail, InHand, Holding, Linking, Ended
  <2>2. UNCHANGED <<queue, fetched, fate>>
    BY <1>14 DEF LockFail
  <2> QED
    BY <2>1, <2>2, Stutters DEF Pending, InQueue
<1>15. ASSUME NEW w \in Workers, CheckDone(w) PROVE [C!Next]_(C!vars)
  <2>1. \A v \in Workers : InHand(v)' = InHand(v)
    BY <1>0, <1>15, IpcAssumption DEF CheckDone, InHand, Holding, Linking, Ended
  <2>2. UNCHANGED <<queue, fetched, fate>>
    BY <1>15 DEF CheckDone
  <2> QED
    BY <2>1, <2>2, Stutters DEF Pending, InQueue
<1>16. ASSUME NEW w \in Workers, WriteDone(w) PROVE [C!Next]_(C!vars)
  BY <1>16
<1>17. ASSUME NEW w \in Workers, Unlock(w) PROVE [C!Next]_(C!vars)
  <2>1. \A v \in Workers : InHand(v)' = InHand(v)
    BY <1>0, <1>17, IpcAssumption DEF Unlock, InHand, Holding, Linking, Ended
  <2>2. UNCHANGED <<queue, fetched, fate>>
    BY <1>17 DEF Unlock
  <2> QED
    BY <2>1, <2>2, Stutters DEF Pending, InQueue
<1>18. ASSUME NEW w \in Workers, SendLink(w) PROVE [C!Next]_(C!vars)
  <2>1. href[w] \in Urls /\ cur[w] \in Msgs
    BY <1>0, <1>18 DEF SendLink, HandsFull, Busy, PC, Ended
  <2>2. Msg(href[w], cur[w].depth + 1, 0) \in Msgs /\ Msg(href[w], cur[w].depth + 1, 0).url = href[w]
    BY <2>1 DEF Msg, Msgs
  <2>3. \A u \in Urls : InQueue(u)' <=> InQueue(u) \/ u = href[w]
    BY <1>0, <1>18, <2>2, QueueSend DEF SendLink
  <2>4. InHand(w) = {href[w]} /\ InHand(w)' = {} /\ \A v \in Workers \ {w} : InHand(v)' = InHand(v)
    BY <1>0, <1>18, <2>1, IpcAssumption DEF SendLink, InHand, Holding, Linking
  <2>5. \A u \in Urls : Pending(u)' <=> Pending(u)
    BY <2>3, <2>4 DEF Pending
  <2> QED
    BY <1>18, <2>5, Stutters DEF SendLink
<1>19. ASSUME NEW w \in Workers, SendLinkFail(w) PROVE [C!Next]_(C!vars)
  <2> DEFINE u == href[w]
  <2>1. u \in Urls
    BY <1>0, <1>19 DEF SendLinkFail, HandsFull, Busy, PC, Ended, Msgs
  <2>2. InHand(w) = {u} /\ InHand(w)' = {} /\ \A v \in Workers \ {w} : InHand(v)' = InHand(v)
    BY <1>0, <1>19, <2>1, IpcAssumption DEF SendLinkFail, InHand, Holding, Linking
  <2>3. Pending(u) /\ \A v \in Urls \ {u} : Pending(v)' <=> Pending(v)
    BY <1>19, <2>2 DEF SendLinkFail, Pending, InQueue
  <2>4. PutAside({u}, "lost") /\ UNCHANGED fetched
    BY <1>19 DEF SendLinkFail
  <2> HIDE DEF u
  <2> QED
    BY <1>0, <2>1, <2>3, <2>4, Drops DEF C!Next
<1>20. ASSUME NEW w \in Workers, Crash(w) PROVE [C!Next]_(C!vars)
  <2>1. InHand(w)' = {} /\ \A v \in Workers \ {w} : InHand(v)' = InHand(v)
    BY <1>0, <1>20 DEF Crash, InHand, Holding, Linking, Ended
  <2>2. UNCHANGED <<queue, fetched>> /\ PutAside(InHand(w), "lost")
    BY <1>20 DEF Crash
  <2>3. CASE InHand(w) = {}
    <3>1. UNCHANGED fate
      BY <1>0, <2>2, <2>3 DEF PutAside, TypeOK
    <3> QED
      BY <2>1, <2>2, <2>3, <3>1, Stutters DEF Pending, InQueue
  <2>4. CASE InHand(w) # {}
    <3>1. PICK x \in Urls : InHand(w) = {x}
      BY <1>0, <2>4 DEF InHand, Holding, Linking, HandsFull, Busy, PC, Ended, Msgs
    <3>2. Pending(x) /\ \A v \in Urls \ {x} : Pending(v)' <=> Pending(v)
      BY <2>1, <2>2, <3>1 DEF Pending, InQueue
    <3> QED
      BY <1>0, <2>2, <3>1, <3>2, Drops DEF C!Next
  <2> QED
    BY <2>3, <2>4
<1>21. CASE UNCHANGED vars
  BY <1>21, Stutters DEF vars, workerVars, Pending, InQueue, InHand
<1> QED
  BY <1>1, <1>2, <1>3, <1>4, <1>5, <1>6, <1>7, <1>8, <1>9, <1>10, <1>11, <1>12, <1>13, <1>14, <1>15, <1>16, <1>17, <1>18, <1>19, <1>20, <1>21 DEF Next, Step, Finished

LEMMA CrawlNext == Inv /\ LinksInHand /\ [Next]_vars => [C!Next]_(C!vars)
<1> SUFFICES ASSUME Inv, LinksInHand, [Next]_vars PROVE [C!Next]_(C!vars)
  OBVIOUS
<1> USE DEF Goto, End, ipcVars
<1>0. /\ LinksInHand /\ TypeOK /\ IpcTypeOK /\ HandsFull
      /\ pc \in [Workers -> PC]
      /\ cur \in [Workers -> Msgs \union {Idle}]
      /\ href \in [Workers -> Urls \union {EMPTY}]
  BY DEF Inv, TypeOK
<1>1. ASSUME NEW w \in Workers, WriteDone(w) PROVE [C!Next]_(C!vars)
  <2>1. /\ href[w] \in Urls /\ cur[w].url \in Urls
        /\ fetched[cur[w].url] > 0 /\ href[w] \in LinksOf(cur[w].url)
    BY <1>0, <1>1 DEF WriteDone, HandsFull, Busy, PC, Ended, Msgs, LinksInHand, Scanning
  <2>2. PICK x \in Urls, y \in Urls : x = href[w] /\ y = cur[w].url
    BY <2>1
  <2>3. InHand(w) = {} /\ InHand(w)' = {x} /\ \A v \in Workers \ {w} : InHand(v)' = InHand(v)
    BY <1>0, <1>1, <2>2, IpcAssumption DEF WriteDone, InHand, Holding, Linking
  <2>4. Pending(x)' /\ \A v \in Urls \ {x} : Pending(v)' <=> Pending(v)
    BY <1>1, <2>3 DEF WriteDone, Pending, InQueue
  <2>5. fetched[y] > 0 /\ x \in LinksOf(y) /\ UNCHANGED <<fetched, fate>>
    BY <1>1, <2>1, <2>2 DEF WriteDone
  <2>6. C!Discover(x) \/ UNCHANGED C!vars
    BY <2>4, <2>5, Discovers
  <2> QED
    BY <2>6 DEF C!Next
<1> QED
  BY <1>1, CrawlMoves

(* Every behaviour of the processes, with any of its faults and crashes, is *)
(* a behaviour of the abstract crawl.                                       *)
THEOREM Refinement == Spec => ImplementsCrawl
<1> QED
  BY InvAlways, LinksInit, LinksNext, CrawlInit, CrawlNext, PTL DEF Spec, ImplementsCrawl, C!Spec

-----------------------------------------------------------------------------
(* What is recorded stays known: a message, a fetch or a reason tells of it. *)
KnownUrls == todoBar \union doneBar \union droppedBar

Remembered == Recorded \union {Seed} \subseteq KnownUrls

LEMMA RememberedMeans == TypeOK => (NoUrlForgotten <=> Remembered)
<1> SUFFICES ASSUME TypeOK PROVE NoUrlForgotten <=> Remembered
  OBVIOUS
<1>1. Recorded \union {Seed} \subseteq Urls
  BY WorkersAssumption DEF TypeOK, IpcTypeOK, Recorded
<1>2. \A u \in Urls : u \in KnownUrls <=> Pending(u) \/ Served(u)
  BY DEF KnownUrls, todoBar, doneBar, droppedBar, Served
<1> QED
  BY <1>1, <1>2 DEF NoUrlForgotten, Remembered

LEMMA TableKept ==
  ASSUME [Next]_vars, \A w \in Workers : ~ WriteDone(w)
  PROVE  UNCHANGED donelist
<1>1. ASSUME NEW w \in Workers, Step(w) PROVE UNCHANGED donelist
  BY <1>1 DEF Step, RecvMsg, RecvTimeout, FetchOk, FetchFail, Resend, ResendFail,
       ListPage, OpenFail, SaveFile, InsertTask, NextLink, EndPage, Lock, LockFail,
       CheckDone, Unlock, SendLink, SendLinkFail, ipcVars
<1>2. ASSUME NEW w \in Workers, Crash(w) PROVE UNCHANGED donelist
  BY <1>2 DEF Crash
<1>3. CASE UNCHANGED vars
  BY <1>3 DEF vars, ipcVars
<1> QED
  BY <1>1, <1>2, <1>3 DEF Next, Finished

(* A step forgets nothing, and it records nothing that it does not know. *)
LEMMA KnownKept ==
  ASSUME Inv, [Next]_vars
  PROVE  KnownUrls \subseteq KnownUrls' /\ Recorded' \subseteq Recorded \union KnownUrls'
<1>1. CASE \E w \in Workers : WriteDone(w)
  <2>1. PICK w \in Workers : WriteDone(w)
    BY <1>1
  <2>2. href[w] \in Urls /\ href' = href /\ pc' = [pc EXCEPT ![w] = "unlock"]
    BY <2>1 DEF WriteDone, Goto, Inv, HandsFull
  <2>3. PICK x \in Urls : x = href[w]
    BY <2>2
  <2>4. /\ InHand(w) = {} /\ InHand(w)' = {x}
        /\ \A v \in Workers \ {w} : InHand(v)' = InHand(v)
    BY <2>1, <2>2, <2>3, IpcAssumption DEF WriteDone, InHand, Holding, Linking, Inv, TypeOK
  <2>5. Pending(x)' /\ \A u \in Urls : Pending(u) => Pending(u)'
    BY <2>1, <2>4 DEF WriteDone, Pending, InQueue
  <2>6. UNCHANGED <<fetched, fate>>
    BY <2>1 DEF WriteDone
  <2>7. KnownUrls \subseteq KnownUrls' /\ x \in KnownUrls'
    BY <2>5, <2>6 DEF KnownUrls, todoBar, doneBar, droppedBar
  <2>8. Recorded' \subseteq Recorded \union {x}
    BY <2>1, <2>3 DEF WriteDone, Recorded, Inv, TypeOK, IpcTypeOK
  <2> QED
    BY <2>7, <2>8
<1>2. CASE \A w \in Workers : ~ WriteDone(w)
  <2>1. KnownUrls \subseteq KnownUrls'
    <3>1. [C!Next]_(C!vars)
      BY <1>2, CrawlMoves
    <3>2. CASE UNCHANGED C!vars
      BY <3>2 DEF C!vars, KnownUrls
    <3>3. ASSUME NEW u \in Urls, C!Discover(u) PROVE KnownUrls \subseteq KnownUrls'
      BY <3>3 DEF C!Discover, KnownUrls
    <3>4. ASSUME NEW u \in Urls, C!Serve(u) PROVE KnownUrls \subseteq KnownUrls'
      BY <3>4 DEF C!Serve, KnownUrls
    <3>5. ASSUME NEW u \in Urls, C!Drop(u) PROVE KnownUrls \subseteq KnownUrls'
      BY <3>5 DEF C!Drop, KnownUrls
    <3> QED
      BY <3>1, <3>2, <3>3, <3>4, <3>5 DEF C!Next
  <2>2. UNCHANGED donelist
    BY <1>2, TableKept
  <2> QED
    BY <2>1, <2>2 DEF Recorded
<1> QED
  BY <1>1, <1>2

LEMMA RememberedNext == Inv /\ Remembered /\ [Next]_vars => Remembered'
BY KnownKept DEF Remembered

LEMMA RememberedInit == Init => Remembered
<1> SUFFICES ASSUME Init PROVE Remembered
  OBVIOUS
<1>1. todoBar = {Seed}
  BY CrawlInit DEF C!Init
<1>2. Recorded = {}
  BY DEF Init, IpcInit, Recorded
<1> QED
  BY <1>1, <1>2 DEF Remembered, KnownUrls

(* No recorded URL is ever forgotten between the table, the queue and the   *)
(* processes.                                                               *)
THEOREM NothingForgotten == Spec => []NoUrlForgotten
<1> QED
  BY InvAlways, InvInit, RememberedInit, RememberedNext, RememberedMeans,
     PTL DEF Spec, Inv

-----------------------------------------------------------------------------
LEMMA ReachableInit == C!Init => OnlyReachable
BY DEF OnlyReachable, C!Init, C!OnlyReachable, C!Known, C!Closed

LEMMA ReachableNext == OnlyReachable /\ [C!Next]_(C!vars) => OnlyReachable'
<1> SUFFICES ASSUME OnlyReachable, [C!Next]_(C!vars) PROVE OnlyReachable'
  OBVIOUS
<1> USE DEF OnlyReachable, C!OnlyReachable, C!Known
<1>1. ASSUME NEW v \in Urls, C!Discover(v) PROVE OnlyReachable'
  <2>1. PICK u \in doneBar : v \in LinksOf(u) /\ u \in Urls
    BY <1>1 DEF C!Discover, doneBar
  <2>2. ASSUME NEW S \in SUBSET Urls, C!Closed(S) PROVE v \in S
    BY <2>1, <2>2 DEF C!Closed
  <2> QED
    BY <1>1, <2>2 DEF C!Discover, C!Closed
<1>2. ASSUME NEW u \in Urls, C!Serve(u) PROVE OnlyReachable'
  BY <1>2 DEF C!Serve, C!Closed
<1>3. ASSUME NEW u \in Urls, C!Drop(u) PROVE OnlyReachable'
  BY <1>3 DEF C!Drop, C!Closed
<1>4. CASE UNCHANGED C!vars
  BY <1>4 DEF C!vars, C!Closed
<1> QED
  BY <1>1, <1>2, <1>3, <1>4 DEF C!Next

(* Nothing but the pages the seed leads to is ever queued, fetched or put   *)
(* aside.                                                                   *)
THEOREM StaysOnSite == Spec => []OnlyReachable
<1> QED
  BY InvAlways, LinksInit, LinksNext, CrawlInit, CrawlNext, ReachableInit, ReachableNext,
     PTL DEF Spec
=============================================================================
