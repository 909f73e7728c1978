-------------------------- MODULE SpiderSystemProofs --------------------------
(***************************************************************************)
(* Proofs about a crawl over several runs of main(): what the workers keep *)
(* is kept by the steps of main too, and what main itself relies on, when  *)
(* it takes a crawl up again from the table and when it waits for its      *)
(* children, holds whatever was killed before.                             *)
(***************************************************************************)
EXTENDS SpiderSystem, SpiderPagesProofs, FiniteSetTheorems

(* What holds of the workers in every state, whether old workers live on    *)
(* beside a new run or not.                                                 *)
WorkInv == Inv /\ NoDupSlots /\ Checked /\ DepthsFromOne

(* Where main is while it has no child. *)
Childless == Down \union {"clearq", "count", "wipe", "resume", "unrecord", "seed"}

(* main's loop index is in range, and num is right for the children still   *)
(* to be waited for.                                                        *)
MainInv ==
  /\ SysTypeOK
  /\ IsFiniteSet(kids)
  /\ mpc \in Childless => kids = {} /\ viewer = "none"
  /\ mpc \in {"resume", "unrecord"} => icnt > Resume /\ next \in 1 .. Resume + 1
  /\ mpc = "unrecord" => next <= Resume /\ donelist[icnt - next] # EMPTY
  /\ mpc \notin Down \union {"monitor"} => num = NumProc
  /\ mpc = "fork" => viewer = "none" /\ next <= NumProc /\ Cardinality(kids) <= next
  /\ mpc = "connect" => Cardinality(kids) <= NumProc
  /\ mpc = "monitor" => Cardinality(kids) + (IF viewer = "none" THEN 0 ELSE 1) <= num + 1

(* Where main is while no worker lives, when none is left over. *)
Quiet == {"off", "clearq", "count", "wipe", "resume", "unrecord", "seed", "end"}

(* What holds when every worker belongs to the run that goes on.            *)
AloneInv ==
  /\ mpc \in Quiet => AllEnded
  /\ mpc # "left" => \A w \in Workers : pc[w] \notin Ended => w \in kids
  /\ mpc = "end" => reported = Cardinality(InUse)
  /\ PrefixPacked
  /\ mpc \in {"resume", "unrecord"} =>
       \A i \in Slots : donelist[i] # EMPTY <=> i <= icnt - next

(* The claims on a URL, whether their messages are still there or not. *)
Claims(u, S) == (IF u \in S THEN 1 ELSE 0) + (IF u \in Recorded THEN 1 ELSE 0)

(* The claims and their messages, but for a queue that a run before the     *)
(* table was cleared has left and the next run clears.                      *)
ClaimInv ==
  /\ \A u \in Urls : fetched[u] <= Claims(u, mainSent)
  /\ Claimed(mainSent) \/ (AllEnded /\ mpc \in {"off", "clearq", "left"})
  /\ mpc \in {"count", "wipe", "seed"} => queue = <<>>
  /\ mpc = "seed" => \A u \in Urls : fetched[u] = 0
  /\ mpc \in {"resume", "unrecord"} =>
       \A i \in 1 .. Len(queue) :
         /\ queue[i].depth = 1
         /\ \/ queue[i].url \notin Recorded
            \/ mpc = "unrecord" /\ queue[i].url = donelist[icnt - next]
  /\ mpc = "unrecord" => /\ donelist[icnt - next] \in mainSent
                         /\ fetched[donelist[icnt - next]] = 0

SysInv == WorkInv /\ MainInv /\ (~ Overlap => AloneInv) /\ (~ Overlap /\ TableLarger => ClaimInv)

LEMMA DepthsNext == ASSUME Inv, DepthsFromOne, [Next]_vars PROVE DepthsFromOne'
<1> USE DEF Goto, End, ipcVars
<1>0. /\ DepthsFromOne /\ TypeOK /\ IpcTypeOK /\ HandsFull
      /\ pc \in [Workers -> PC]
      /\ cur \in [Workers -> Msgs \union {Idle}]
  BY DEF Inv, TypeOK
<1>1. ASSUME NEW w \in Workers, RecvMsg(w) PROVE DepthsFromOne'
  <2>1. /\ 1 \in 1 .. Len(queue) /\ Head(queue) = queue[1]
        /\ \A i \in 1 .. Len(queue') : i + 1 \in 1 .. Len(queue) /\ queue'[i] = queue[i + 1]
    BY <1>0, <1>1, RecvPlaces DEF RecvMsg
  <2> QED
    BY <1>0, <1>1, <2>1 DEF RecvMsg, DepthsFromOne, Busy, PC, Ended
<1>2. ASSUME NEW w \in Workers, RecvTimeout(w) PROVE DepthsFromOne'
  BY <1>0, <1>2 DEF RecvTimeout, RecvTimedOut, DepthsFromOne, Busy, PC, Ended
<1>3. ASSUME NEW w \in Workers, FetchOk(w) PROVE DepthsFromOne'
  BY <1>0, <1>3 DEF FetchOk, DepthsFromOne, Busy, PC, Ended
<1>4. ASSUME NEW w \in Workers, FetchFail(w) PROVE DepthsFromOne'
  <2>1. cur[w] \in Msgs /\ cur'[w].depth = cur[w].depth
    BY <1>0, <1>4 DEF FetchFail, HandsFull, Busy, PC, Ended, Msgs
  <2> QED
    BY <1>0, <1>4, <2>1 DEF FetchFail, DepthsFromOne, Busy, PC, Ended
<1>5. ASSUME NEW w \in Workers, Resend(w) PROVE DepthsFromOne'
  <2>1. cur[w] \in Msgs /\ cur[w].depth >= 1
    BY <1>0, <1>5 DEF Resend, HandsFull, DepthsFromOne, Busy, PC, Ended
  <2>2. \A i \in 1 .. Len(queue') : queue'[i].depth >= 1
    BY <1>0, <1>5, <2>1, SendPlaces DEF Resend, DepthsFromOne
  <2> QED
    BY <1>0, <1>5, <2>2 DEF Resend, DepthsFromOne, Busy, PC, Ended
<1>6. ASSUME NEW w \in Workers, ResendFail(w) PROVE DepthsFromOne'
  BY <1>0, <1>6 DEF ResendFail, DepthsFromOne, Busy, PC, Ended
<1>7. ASSUME NEW w \in Workers, ListPage(w) PROVE DepthsFromOne'
  BY <1>0, <1>7 DEF ListPage, DepthsFromOne, Busy, PC, Ended
<1>8. ASSUME NEW w \in Workers, OpenFail(w) PROVE DepthsFromOne'
  BY <1>0, <1>8 DEF OpenFail, DepthsFromOne, Busy, PC, Ended
<1>9. ASSUME NEW w \in Workers, SaveFile(w) PROVE DepthsFromOne'
  BY <1>0, <1>9 DEF SaveFile, DepthsFromOne, Busy, PC, Ended
<1>10. ASSUME NEW w \in Workers, InsertTask(w) PROVE DepthsFromOne'
  BY <1>0, <1>10 DEF InsertTask, DepthsFromOne, Busy, PC, Ended
<1>11. ASSUME NEW w \in Workers, NextLink(w) PROVE DepthsFromOne'
  BY <1>0, <1>11 DEF NextLink, DepthsFromOne, Busy, PC, Ended
<1>12. ASSUME NEW w \in Workers, EndPage(w) PROVE DepthsFromOne'
  BY <1>0, <1>12 DEF EndPage, DepthsFromOne, Busy, PC, Ended
<1>13. ASSUME NEW w \in Workers, Lock(w) PROVE DepthsFromOne'
  BY <1>0, <1>13 DEF Lock, DepthsFromOne, Busy, PC, Ended
<1>14. ASSUME NEW w \in Workers, LockFail(w) PROVE DepthsFromOne'
  BY <1>0, <1>14 DEF LockFail, DepthsFromOne, Busy, PC, Ended
<1>15. ASSUME NEW w \in Workers, CheckDone(w) PROVE DepthsFromOne'
  BY <1>0, <1>15 DEF CheckDone, DepthsFromOne, Busy, PC, Ended
<1>16. ASSUME NEW w \in Workers, WriteDone(w) PROVE DepthsFromOne'
  BY <1>0, <1>16 DEF WriteDone, DepthsFromOne, Busy, PC, Ended
<1>17. ASSUME NEW w \in Workers, Unlock(w) PROVE DepthsFromOne'
  BY <1>0, <1>17 DEF Unlock, DepthsFromOne, Busy, PC, Ended
<1>18. ASSUME NEW w \in Workers, SendLink(w) PROVE DepthsFromOne'
  <2> DEFINE m == Msg(href[w], cur[w].depth + 1, 0)
  <2>1. m \in Msgs /\ m.depth >= 1
    BY <1>0, <1>18 DEF SendLink, HandsFull, DepthsFromOne, Busy, PC, Ended, Msg, Msgs
  <2>2. SendUnixMsgQ(m)
    BY <1>18 DEF SendLink
  <2> HIDE DEF m
  <2>3. \A i \in 1 .. Len(queue') : queue'[i].depth >= 1
    BY <1>0, <2>1, <2>2, SendPlaces DEF DepthsFromOne
  <2> QED
    BY <1>0, <1>18, <2>3 DEF SendLink, DepthsFromOne, Busy, PC, Ended
<1>19. ASSUME NEW w \in Workers, SendLinkFail(w) PROVE DepthsFromOne'
  BY <1>0, <1>19 DEF SendLinkFail, DepthsFromOne, Busy, PC, Ended
<1>20. ASSUME NEW w \in Workers, Crash(w) PROVE DepthsFromOne'
  BY <1>0, <1>20 DEF Crash, DepthsFromOne, Busy, PC, Ended
<1>21. CASE UNCHANGED vars
  BY <1>0, <1>21 DEF vars, workerVars, DepthsFromOne, Busy, PC, Ended
<1> QED
  BY <1>1, <1>2, <1>3, <1>4, <1>5, <1>6, <1>7, <1>8, <1>9, <1>10, <1>11, <1>12, <1>13, <1>14, <1>15, <1>16, <1>17, <1>18, <1>19, <1>20, <1>21 DEF Next, Step, Finished

(* A worker fills the first empty slot and empties none. *)
LEMMA SlotsFill ==
  ASSUME Inv, [Next]_vars
  PROVE  /\ \A i \in Slots : donelist[i] # EMPTY => donelist'[i] = donelist[i]
         /\ \A i \in Slots : donelist'[i] # donelist[i] =>
              \A j \in Slots : j < i => donelist[j] # EMPTY
<1>0. donelist \in [Slots -> Urls \union {EMPTY}]
  BY DEF Inv, TypeOK, IpcTypeOK
<1>1. ASSUME NEW w \in Workers, WriteDone(w)
      PROVE  /\ \A i \in Slots : donelist[i] # EMPTY => donelist'[i] = donelist[i]
             /\ \A i \in Slots : donelist'[i] # donelist[i] =>
                  \A j \in Slots : j < i => donelist[j] # EMPTY
  BY <1>0, <1>1 DEF WriteDone, IsFirstFree
<1>2. CASE \A w \in Workers : ~ WriteDone(w)
  BY <1>2, TableKept
<1> QED
  BY <1>1, <1>2

(* The main process takes URLs out of the table, whatever the workers do    *)
(* with it at the time.                                                     *)
LEMMA SlotsEmptied ==
  ASSUME TypeOK, NoDupSlots, Checked, UNCHANGED <<pc, href>>,
         \A i \in Slots : donelist'[i] \in {donelist[i], EMPTY}
  PROVE  NoDupSlots' /\ Checked'
BY DEF NoDupSlots, Checked, Recorded, Slots

-----------------------------------------------------------------------------
LEMMA WorkInit == SysInit => WorkInv
<1> SUFFICES ASSUME SysInit PROVE WorkInv
  OBVIOUS
<1> USE IpcAssumption, WorkersAssumption DEF SysInit, IpcInit
<1>1. TypeOK
  <2>1. IpcTypeOK
    BY DEF IpcTypeOK
  <2> QED
    BY <2>1 DEF TypeOK, PC
<1>2. HandsFull /\ DepthsFromOne
  BY DEF HandsFull, DepthsFromOne, Busy, Ended, PC
<1>3. LockHeld
  BY DEF LockHeld, InLock
<1>4. NoDupSlots /\ Checked
  BY DEF NoDupSlots, Checked, Slots
<1> QED
  BY <1>1, <1>2, <1>3, <1>4 DEF WorkInv, Inv

LEMMA WorkStutters == ASSUME WorkInv, UNCHANGED vars PROVE WorkInv'
<1>1. [Next]_vars
  OBVIOUS
<1> QED
  BY <1>1, TypeNext, HandsNext, LockNext, SlotsNext, DepthsNext DEF WorkInv, Inv

(* What main does to the queue and the table between two runs. *)
LEMMA MainTouches ==
  ASSUME WorkInv, UNCHANGED <<semval, semadj, pc, cur, todo, href, fp, files, tasks>>,
         queue' \in Seq(Msgs), Len(queue') <= QueueCap,
         \A i \in 1 .. Len(queue') : queue'[i].depth >= 1,
         donelist' \in [Slots -> Urls \union {EMPTY}],
         \A i \in Slots : donelist'[i] \in {donelist[i], EMPTY},
         fetched' \in [Urls -> 0 .. FetchCap], fate' \in [Urls -> SUBSET Fates]
  PROVE  WorkInv'
<1>1. TypeOK'
  BY DEF WorkInv, Inv, TypeOK, IpcTypeOK
<1>2. HandsFull' /\ LockHeld' /\ DepthsFromOne'
  BY DEF WorkInv, Inv, HandsFull, LockHeld, DepthsFromOne
<1>3. NoDupSlots' /\ Checked'
  BY SlotsEmptied DEF WorkInv, Inv
<1> QED
  BY <1>1, <1>2, <1>3 DEF WorkInv, Inv

(* What main sends has depth 1. *)
LEMMA MainSends ==
  ASSUME IpcTypeOK, DepthsFromOne, NEW u \in Urls, SendUnixMsgQ(Msg(u, 1, 0))
  PROVE  /\ queue' \in Seq(Msgs) /\ Len(queue') <= QueueCap
         /\ \A i \in 1 .. Len(queue') : queue'[i].depth >= 1
<1>1. Msg(u, 1, 0) \in Msgs /\ Msg(u, 1, 0).depth = 1
  BY DEF Msg, Msgs
<1>2. queue' \in Seq(Msgs) /\ Len(queue') <= QueueCap
  BY <1>1, SendType
<1>3. \A i \in 1 .. Len(queue') : queue'[i].depth >= 1
  BY <1>1, SendPlaces DEF DepthsFromOne
<1> QED
  BY <1>2, <1>3

(* The slot that a resume takes next. *)
LEMMA ResumeSlot ==
  ASSUME WorkInv, MainInv, mpc \in {"resume", "unrecord"}, next <= Resume
  PROVE  /\ icnt - next \in Slots
         /\ donelist[icnt - next] \in Urls \union {EMPTY}
<1>1. icnt \in 0 .. UrlNum /\ icnt > Resume /\ next \in 1 .. Resume + 1
  BY DEF MainInv, SysTypeOK
<1>2. icnt - next \in Slots
  BY <1>1, IpcAssumption, SystemAssumption DEF Slots
<1> QED
  BY <1>2 DEF WorkInv, Inv, TypeOK, IpcTypeOK

LEMMA WorkNext == ASSUME WorkInv, MainInv, [SysNext]_sysVars PROVE WorkInv'
<1>0. /\ TypeOK /\ IpcTypeOK /\ DepthsFromOne
      /\ queue \in Seq(Msgs) /\ Len(queue) <= QueueCap
      /\ \A i \in 1 .. Len(queue) : queue[i].depth >= 1
      /\ donelist \in [Slots -> Urls \union {EMPTY}]
      /\ fetched \in [Urls -> 0 .. FetchCap] /\ fate \in [Urls -> SUBSET Fates]
      /\ pc \in [Workers -> PC] /\ fp \in [Workers -> BOOLEAN]
  BY DEF WorkInv, Inv, TypeOK, IpcTypeOK, DepthsFromOne
<1>1. CASE Clear
  <2>1. fetched' \in [Urls -> 0 .. FetchCap] /\ fate' \in [Urls -> SUBSET Fates]
    BY <1>1, WorkersAssumption DEF Clear
  <2> QED
    BY <1>0, <1>1, <2>1, MainTouches DEF Clear
<1>2. CASE Start
  BY <1>2, WorkStutters DEF Start
<1>3. CASE MainClearQueue
  <2>1. fate' \in [Urls -> SUBSET Fates]
    BY <1>0, <1>3, PutAsideType DEF MainClearQueue, Fates
  <2>2. queue' = <<>> /\ queue' \in Seq(Msgs) /\ Len(queue') = 0
    BY <1>3 DEF MainClearQueue, ClearQueue
  <2> QED
    BY <1>0, <1>3, <2>1, <2>2, IpcAssumption, MainTouches DEF MainClearQueue
<1>4. CASE Count
  BY <1>4, WorkStutters DEF Count
<1>5. CASE Wipe
  <2>1. fetched' \in [Urls -> 0 .. FetchCap] /\ fate' \in [Urls -> SUBSET Fates]
    BY <1>5, WorkersAssumption DEF Wipe
  <2> QED
    BY <1>0, <1>5, <2>1, MainTouches DEF Wipe
<1>6. CASE SeedCrawl
  <2>1. /\ queue' \in Seq(Msgs) /\ Len(queue') <= QueueCap
        /\ \A i \in 1 .. Len(queue') : queue'[i].depth >= 1
    BY <1>0, <1>6, MainSends, WorkersAssumption DEF SeedCrawl
  <2> QED
    BY <1>0, <1>6, <2>1, MainTouches DEF SeedCrawl, workerVars
<1>7. CASE ResumeSend
  <2>1. PICK u \in Urls \union {EMPTY} : u = donelist[icnt - next]
    BY <1>7, ResumeSlot DEF ResumeSend
  <2>2. CASE u = EMPTY
    BY <1>0, <1>7, <2>1, <2>2, MainTouches DEF ResumeSend
  <2>3. CASE u \in Urls
    <3>1. /\ queue' \in Seq(Msgs) /\ Len(queue') <= QueueCap
          /\ \A i \in 1 .. Len(queue') : queue'[i].depth >= 1
      BY <1>0, <1>7, <2>1, <2>3, MainSends, IpcAssumption DEF ResumeSend
    <3>2. fetched' \in [Urls -> 0 .. FetchCap] /\ fate' \in [Urls -> SUBSET Fates]
      <4>1. /\ fetched' = [fetched EXCEPT ![u] = 0]
            /\ \/ fate' = [fate EXCEPT ![u] = {}]
               \/ fate' = [fate EXCEPT ![u] = {"lost"}]
        BY <1>7, <2>1, <2>3, IpcAssumption DEF ResumeSend
      <4>2. {} \in SUBSET Fates /\ {"lost"} \in SUBSET Fates
        BY DEF Fates
      <4>3. fate' \in [Urls -> SUBSET Fates]
        BY <1>0, <2>3, <4>1, <4>2
      <4>4. fetched' \in [Urls -> 0 .. FetchCap]
        BY <1>0, <2>3, <4>1, WorkersAssumption
      <4> QED
        BY <4>3, <4>4
    <3> QED
      BY <1>0, <1>7, <3>1, <3>2, MainTouches DEF ResumeSend
  <2> QED
    BY <2>2, <2>3
<1>8. CASE ResumeUnrecord
  <2>1. icnt - next \in Slots
    BY <1>8, ResumeSlot DEF ResumeUnrecord, MainInv
  <2>2. donelist' \in [Slots -> Urls \union {EMPTY}]
    BY <1>0, <1>8, <2>1 DEF ResumeUnrecord
  <2>3. \A i \in Slots : donelist'[i] \in {donelist[i], EMPTY}
    BY <1>0, <1>8, <2>1 DEF ResumeUnrecord
  <2> QED
    BY <1>0, <1>8, <2>2, <2>3, MainTouches DEF ResumeUnrecord, workerVars
<1>9. CASE ResumeDone
  BY <1>9, WorkStutters DEF ResumeDone
<1>10. CASE ForkWorker
  <2>1. CASE UNCHANGED <<pc, fp>>
    BY <1>0, <1>10, <2>1, WorkStutters DEF ForkWorker, vars, workerVars
  <2>2. ASSUME NEW w \in Workers, pc[w] \in Ended, pc' = [pc EXCEPT ![w] = "recv"],
               fp' = [fp EXCEPT ![w] = FALSE]
        PROVE  WorkInv'
    <3>1. TypeOK'
      BY <1>0, <1>10, <2>2 DEF ForkWorker, TypeOK, IpcTypeOK, ipcVars, PC
    <3>2. HandsFull' /\ DepthsFromOne' /\ Checked'
      BY <1>0, <1>10, <2>2 DEF ForkWorker, ipcVars, WorkInv, Inv, HandsFull, DepthsFromOne, Checked,
         Recorded, Busy, Ended, PC
    <3>3. LockHeld'
      BY <1>0, <1>10, <2>2 DEF ForkWorker, ipcVars, WorkInv, Inv, LockHeld, InLock, Ended
    <3>4. NoDupSlots'
      BY <1>10 DEF ForkWorker, ipcVars, WorkInv, NoDupSlots
    <3> QED
      BY <3>1, <3>2, <3>3, <3>4 DEF WorkInv, Inv
  <2> QED
    BY <1>10, <2>1, <2>2 DEF ForkWorker
<1>11. CASE ForkViewer
  BY <1>11, WorkStutters DEF ForkViewer
<1>12. CASE Connect
  BY <1>12, WorkStutters DEF Connect
<1>13. CASE Reap
  BY <1>13, WorkStutters DEF Reap
<1>14. CASE Report
  BY <1>14, WorkStutters DEF Report
<1>15. CASE KillMain
  BY <1>15, WorkStutters DEF KillMain
<1>16. CASE ViewerExit
  BY <1>16, WorkStutters DEF ViewerExit
<1>17. ASSUME NEW w \in Workers, Step(w) \/ Crash(w), UNCHANGED mainVars PROVE WorkInv'
  <2>1. [Next]_vars
    BY <1>17 DEF Next
  <2> QED
    BY <2>1, TypeNext, HandsNext, LockNext, SlotsNext, DepthsNext DEF WorkInv, Inv
<1>18. CASE UNCHANGED sysVars
  BY <1>18, WorkStutters DEF sysVars
<1> QED
  BY <1>1, <1>2, <1>3, <1>4, <1>5, <1>6, <1>7, <1>8, <1>9, <1>10, <1>11, <1>12, <1>13, <1>14, <1>15, <1>16, <1>17, <1>18 DEF SysNext, MainStep, SysFinished

LEMMA InUseCount ==
  /\ InUse \subseteq Slots /\ IsFiniteSet(InUse)
  /\ Cardinality(InUse) \in 0 .. UrlNum
<1>1. IsFiniteSet(Slots) /\ Cardinality(Slots) = UrlNum
  BY FS_Interval, IpcAssumption DEF Slots
<1>2. InUse \subseteq Slots
  BY DEF InUse
<1>3. IsFiniteSet(InUse) /\ Cardinality(InUse) <= UrlNum
  BY <1>1, <1>2, FS_Subset
<1>4. Cardinality(InUse) \in Nat
  BY <1>3, FS_CardinalityType
<1> QED
  BY <1>2, <1>3, <1>4, IpcAssumption

LEMMA MainInit == SysInit => MainInv
<1> SUFFICES ASSUME SysInit PROVE MainInv
  OBVIOUS
<1>1. TypeOK
  BY WorkInit DEF WorkInv, Inv
<1>2. IsFiniteSet(kids)
  BY FS_EmptySet DEF SysInit
<1>3. SysTypeOK
  <2>1. /\ mpc = "off" /\ num = 0 /\ icnt = 0 /\ next = 0 /\ kids = {} /\ viewer = "none"
        /\ reported = 0 /\ resumed = FALSE /\ starts = 0 /\ mainSent = {}
    BY DEF SysInit
  <2>2. resumed \in BOOLEAN
    BY <2>1, Zenon
  <2> QED
    BY <1>1, <2>1, <2>2, IpcAssumption, SystemAssumption DEF SysTypeOK, MPC
<1> QED
  BY <1>2, <1>3 DEF SysInit, MainInv, Down

LEMMA MainNext == ASSUME WorkInv, MainInv, WorkInv', [SysNext]_sysVars PROVE MainInv'
<1>0. /\ TypeOK' /\ MainInv /\ SysTypeOK
      /\ IsFiniteSet(kids) /\ Cardinality(kids) \in Nat
  BY FS_CardinalityType DEF MainInv, WorkInv, Inv
<1>1. CASE Clear
  BY <1>0, <1>1, SystemAssumption DEF Clear, MainInv, SysTypeOK, Childless, Down, MPC
<1>2. CASE Start
  BY <1>0, <1>2, SystemAssumption DEF Start, MainInv, SysTypeOK, Childless, Down, MPC
<1>3. CASE MainClearQueue
  BY <1>0, <1>3, SystemAssumption DEF MainClearQueue, MainInv, SysTypeOK, Childless, Down, MPC
<1>4. CASE Count
  <2>1. icnt' = Cardinality(InUse) /\ icnt' \in 0 .. UrlNum
    BY <1>4, InUseCount DEF Count
  <2>2. 1 \in 1 .. Resume + 1
    BY SystemAssumption
  <2> QED
    BY <1>0, <1>4, <2>1, <2>2, SystemAssumption DEF Count, MainInv, SysTypeOK, Childless, Down, MPC
<1>5. CASE Wipe
  BY <1>0, <1>5, SystemAssumption DEF Wipe, MainInv, SysTypeOK, Childless, Down, MPC
<1>6. CASE SeedCrawl
  BY <1>0, <1>6, SystemAssumption, FS_EmptySet, WorkersAssumption DEF SeedCrawl, MainInv, SysTypeOK, Childless, Down, MPC, workerVars
<1>7. CASE ResumeSend
  <2>1. PICK u \in Urls \union {EMPTY} : u = donelist[icnt - next]
    BY <1>7, ResumeSlot DEF ResumeSend
  <2>2. CASE u = EMPTY
    BY <1>0, <1>7, <2>1, <2>2, SystemAssumption DEF ResumeSend, MainInv, SysTypeOK, Childless, Down, MPC
  <2>3. CASE u \in Urls
    <3>1. UNCHANGED <<donelist, icnt, num, next, kids, viewer, reported, resumed, starts>>
      BY <1>7, <2>1, <2>3, IpcAssumption DEF ResumeSend
    <3>2. mpc' = "unrecord" /\ mainSent' = mainSent \union {u} /\ mpc = "resume" /\ next <= Resume
      BY <1>7, <2>1, <2>3, IpcAssumption DEF ResumeSend
    <3>3. donelist'[icnt' - next'] # EMPTY
      BY <2>1, <2>3, <3>1, IpcAssumption
    <3> QED
      BY <1>0, <2>3, <3>1, <3>2, <3>3 DEF MainInv, SysTypeOK, Childless, Down, MPC
  <2> QED
    BY <2>2, <2>3
<1>8. CASE ResumeUnrecord
  BY <1>0, <1>8, SystemAssumption DEF ResumeUnrecord, MainInv, SysTypeOK, Childless, Down, MPC, workerVars
<1>9. CASE ResumeDone
  BY <1>0, <1>9, SystemAssumption, FS_EmptySet DEF ResumeDone, MainInv, SysTypeOK, Childless, Down, MPC
<1>10. CASE ForkWorker
  <2>1. CASE UNCHANGED kids
    BY <1>0, <1>10, <2>1, SystemAssumption DEF ForkWorker, MainInv, SysTypeOK, Childless, Down, MPC
  <2>2. ASSUME NEW w \in Workers \ kids, kids' = kids \union {w} PROVE MainInv'
    <3>1. IsFiniteSet(kids') /\ Cardinality(kids') = Cardinality(kids) + 1
      BY <1>0, <2>2, FS_AddElement
    <3> QED
      BY <1>0, <1>10, <2>2, <3>1, SystemAssumption DEF ForkWorker, MainInv, SysTypeOK, Childless, Down, MPC
  <2> QED
    BY <1>10, <2>1, <2>2 DEF ForkWorker
<1>11. CASE ForkViewer
  BY <1>0, <1>11, SystemAssumption DEF ForkViewer, MainInv, SysTypeOK, Childless, Down, MPC
<1>12. CASE Connect
  <2>1. CASE mpc' = "monitor" /\ UNCHANGED <<kids, viewer>>
    BY <1>0, <1>12, <2>1, SystemAssumption DEF Connect, MainInv, SysTypeOK, Childless, Down, MPC
  <2>2. CASE mpc' = "left" /\ kids' = {} /\ viewer' = "none"
    BY <1>0, <1>12, <2>2, FS_EmptySet, SystemAssumption DEF Connect, MainInv, SysTypeOK, Childless, Down, MPC
  <2> QED
    BY <1>12, <2>1, <2>2 DEF Connect
<1>13. CASE Reap
  <2>1. ASSUME NEW w \in Zombies, kids' = kids \ {w}, UNCHANGED viewer PROVE MainInv'
    <3>1. /\ IsFiniteSet(kids') /\ Cardinality(kids') = Cardinality(kids) - 1
          /\ Cardinality(kids') \in Nat
      BY <1>0, <2>1, FS_RemoveElement, FS_CardinalityType DEF Zombies
    <3> QED
      BY <1>0, <1>13, <2>1, <3>1, SystemAssumption DEF Reap, MainInv, SysTypeOK, Childless, Down, MPC
  <2>2. CASE viewer = "zombie" /\ viewer' = "none" /\ UNCHANGED kids
    BY <1>0, <1>13, <2>2, SystemAssumption DEF Reap, MainInv, SysTypeOK, Childless, Down, MPC
  <2> QED
    BY <1>13, <2>1, <2>2 DEF Reap
<1>14. CASE Report
  <2>1. reported' \in 0 .. UrlNum
    BY <1>14, InUseCount DEF Report
  <2>2. CASE num >= 0
    BY <1>0, <1>14, <2>1, <2>2, SystemAssumption DEF Report, MainInv, SysTypeOK, Childless, Down, MPC
  <2>3. CASE ~ num >= 0
    <3>1. Cardinality(kids) = 0 /\ viewer = "none"
      BY <1>0, <1>14, <2>3, SystemAssumption DEF Report, MainInv, SysTypeOK, Childless, Down, MPC
    <3>2. kids = {}
      BY <1>0, <3>1, FS_EmptySet
    <3> QED
      BY <1>0, <1>14, <2>1, <2>3, <3>1, <3>2, SystemAssumption DEF Report, MainInv, SysTypeOK, Childless, Down, MPC
  <2> QED
    BY <2>2, <2>3
<1>15. CASE KillMain
  BY <1>0, <1>15, SystemAssumption, FS_EmptySet DEF KillMain, MainInv, SysTypeOK, Childless, Down, MPC
<1>16. CASE ViewerExit
  BY <1>0, <1>16, SystemAssumption DEF ViewerExit, MainInv, SysTypeOK, Childless, Down, MPC
<1>17. ASSUME NEW w \in Workers, Step(w) \/ Crash(w), UNCHANGED mainVars PROVE MainInv'
  <2>1. [Next]_vars
    BY <1>17 DEF Next
  <2>2. mpc = "unrecord" => donelist'[icnt - next] # EMPTY
    BY <1>0, <2>1, SlotsFill, ResumeSlot DEF WorkInv, MainInv
  <2> QED
    BY <1>0, <1>17, <2>2 DEF mainVars, MainInv, SysTypeOK, Childless, Down, MPC
<1>18. CASE UNCHANGED sysVars
  BY <1>0, <1>18 DEF sysVars, mainVars, vars, ipcVars, MainInv, SysTypeOK, Childless, Down, MPC
<1> QED
  BY <1>1, <1>2, <1>3, <1>4, <1>5, <1>6, <1>7, <1>8, <1>9, <1>10, <1>11, <1>12, <1>13, <1>14, <1>15, <1>16, <1>17, <1>18 DEF SysNext, MainStep, SysFinished

(* Every variable of a crawl over several runs keeps its type, the index of  *)
(* the resume stays in the table, and num never goes below the last child.   *)
THEOREM SysTypeCorrect == SysSpec => []SysTypeOK
<1>1. WorkInv /\ MainInv /\ [SysNext]_sysVars => (WorkInv /\ MainInv)'
  BY WorkNext, MainNext
<1>2. MainInv => SysTypeOK
  BY DEF MainInv
<1> QED
  BY WorkInit, MainInit, <1>1, <1>2, PTL DEF SysSpec

(* No URL is in two slots, with the workers of an older run writing there    *)
(* while main clears slots without the lock.                                 *)
THEOREM NeverTwiceAcrossRuns == SysSpec => []NoDupSlots
<1>1. WorkInv /\ MainInv /\ [SysNext]_sysVars => (WorkInv /\ MainInv)'
  BY WorkNext, MainNext
<1>2. WorkInv => NoDupSlots
  BY DEF WorkInv
<1> QED
  BY WorkInit, MainInit, <1>1, <1>2, PTL DEF SysSpec

-----------------------------------------------------------------------------
LEMMA AccountedMeans ==
  ASSUME TypeOK
  PROVE  TableAccounted <=> Recorded \subseteq KnownUrls
<1>1. Recorded \subseteq Urls
  BY DEF TypeOK, IpcTypeOK, Recorded
<1>2. \A u \in Urls : u \in KnownUrls <=> Pending(u) \/ Served(u)
  BY DEF KnownUrls, todoBar, doneBar, droppedBar, Served
<1> QED
  BY <1>1, <1>2 DEF TableAccounted

LEMMA AccountedStep ==
  ASSUME WorkInv, TypeOK', TableAccounted, [Next]_vars
  PROVE  TableAccounted'
<1>1. Recorded \subseteq KnownUrls
  BY AccountedMeans DEF WorkInv, Inv
<1>2. Recorded' \subseteq KnownUrls'
  BY <1>1, KnownKept DEF WorkInv
<1>3. (TypeOK => (TableAccounted <=> Recorded \subseteq KnownUrls))'
  BY AccountedMeans, PTL
<1> QED
  BY <1>2, <1>3

LEMMA AccountedNext ==
  ASSUME WorkInv, WorkInv', MainInv, TableAccounted, [SysNext]_sysVars
  PROVE  TableAccounted'
<1>0. /\ TypeOK /\ IpcTypeOK /\ TypeOK'
      /\ queue \in Seq(Msgs)
      /\ donelist \in [Slots -> Urls \union {EMPTY}]
      /\ fate \in [Urls -> SUBSET Fates] /\ fetched \in [Urls -> 0 .. FetchCap]
      /\ Recorded \subseteq Urls
      /\ pc \in [Workers -> PC]
  BY DEF WorkInv, Inv, TypeOK, IpcTypeOK, Recorded
<1>a. ASSUME UNCHANGED vars PROVE TableAccounted'
  BY <1>a DEF vars, ipcVars, workerVars, TableAccounted, Recorded, Pending, InQueue, InHand, Served
<1>1. CASE Clear
  BY <1>1 DEF Clear, TableAccounted, Recorded
<1>2. CASE Start
  BY <1>2, <1>a DEF Start
<1>3. CASE MainClearQueue
  <2> SUFFICES ASSUME NEW u \in Recorded PROVE Pending(u)' \/ Served(u)'
    BY <1>3 DEF MainClearQueue, TableAccounted, Recorded
  <2>1. UNCHANGED <<pc, cur, href, fetched>>
    BY <1>3 DEF MainClearQueue
  <2>2. CASE InQueue(u)
    <3>1. u \in {queue[i].url : i \in DOMAIN queue}
      BY <1>0, <2>2 DEF InQueue
    <3>2. "lost" \in fate'[u]
      BY <1>0, <1>3, <3>1 DEF MainClearQueue, PutAside
    <3> QED
      BY <3>2 DEF Served
  <2>3. CASE \E w \in Workers : u \in InHand(w)
    BY <2>1, <2>3 DEF Pending, InHand
  <2>4. CASE Served(u)
    BY <1>0, <1>3, <2>1, <2>4 DEF MainClearQueue, PutAside, Served
  <2> QED
    BY <2>2, <2>3, <2>4 DEF TableAccounted, Pending
<1>4. CASE Count
  BY <1>4, <1>a DEF Count
<1>5. CASE Wipe
  BY <1>5 DEF Wipe, TableAccounted, Recorded
<1>6. CASE SeedCrawl
  <2>1. UNCHANGED <<donelist, pc, cur, href, fetched, fate>>
    BY <1>6 DEF SeedCrawl, workerVars
  <2>2. \A u \in Urls : InQueue(u) => InQueue(u)'
    <3>1. Msg(Seed, 1, 0) \in Msgs
      BY MsgType, WorkersAssumption
    <3> QED
      BY <1>0, <1>6, <3>1, QueueSend DEF SeedCrawl, InQueue
  <2> QED
    BY <1>0, <2>1, <2>2 DEF TableAccounted, Recorded, Pending, InHand, Served
<1>7. CASE ResumeSend
  <2>1. PICK u \in Urls \union {EMPTY} : u = donelist[icnt - next]
    BY <1>7, ResumeSlot DEF ResumeSend
  <2>2. UNCHANGED <<donelist, pc, cur, href>> /\ Recorded' = Recorded
    BY <1>7 DEF ResumeSend, Recorded
  <2>3. CASE u = EMPTY
    BY <1>7, <2>1, <2>2, <2>3 DEF ResumeSend, TableAccounted, Pending, InQueue, InHand, Served
  <2>4. CASE u \in Urls /\ SendUnixMsgQ(Msg(u, 1, 0)) /\ fate' = [fate EXCEPT ![u] = {}]
    <3>1. Msg(u, 1, 0) \in Msgs /\ Msg(u, 1, 0).url = u
      BY <2>4 DEF Msg, Msgs
    <3>2. \A v \in Urls : InQueue(v)' <=> InQueue(v) \/ v = u
      BY <1>0, <2>4, <3>1, QueueSend
    <3>3. fetched' = [fetched EXCEPT ![u] = 0]
      BY <1>7, <2>1, <2>4, IpcAssumption DEF ResumeSend
    <3>4. \A v \in Urls \ {u} : Served(v)' <=> Served(v)
      BY <1>0, <2>4, <3>3 DEF Served
    <3> QED
      BY <1>0, <2>2, <3>2, <3>4 DEF TableAccounted, Pending, InHand
  <2>5. CASE u \in Urls /\ UNCHANGED queue /\ fate' = [fate EXCEPT ![u] = {"lost"}]
    <3>1. fetched' = [fetched EXCEPT ![u] = 0]
      BY <1>7, <2>1, <2>5, IpcAssumption DEF ResumeSend
    <3>2. Served(u)' /\ \A v \in Urls \ {u} : Served(v)' <=> Served(v)
      BY <1>0, <2>5, <3>1 DEF Served
    <3> QED
      BY <1>0, <2>2, <2>5, <3>2 DEF TableAccounted, Pending, InQueue, InHand
  <2> QED
    BY <1>7, <2>1, <2>3, <2>4, <2>5, IpcAssumption DEF ResumeSend
<1>8. CASE ResumeUnrecord
  <2>1. icnt - next \in Slots
    BY <1>8, ResumeSlot DEF ResumeUnrecord, MainInv
  <2>2. UNCHANGED <<queue, pc, cur, href, fetched, fate>> /\ Recorded' \subseteq Recorded
    BY <1>0, <1>8, <2>1 DEF ResumeUnrecord, workerVars, Recorded
  <2> QED
    BY <2>2 DEF TableAccounted, Pending, InQueue, InHand, Served
<1>9. CASE ResumeDone
  BY <1>9, <1>a DEF ResumeDone
<1>10. CASE ForkWorker
  <2>1. UNCHANGED <<queue, donelist, cur, href, fetched, fate>>
    BY <1>10 DEF ForkWorker, ipcVars
  <2>2. \A w \in Workers : InHand(w)' = InHand(w)
    BY <1>0, <1>10 DEF ForkWorker, InHand, Holding, Linking, Ended
  <2> QED
    BY <2>1, <2>2 DEF TableAccounted, Recorded, Pending, InQueue, Served
<1>11. CASE ForkViewer
  BY <1>11, <1>a DEF ForkViewer
<1>12. CASE Connect
  BY <1>12, <1>a DEF Connect
<1>13. CASE Reap
  BY <1>13, <1>a DEF Reap
<1>14. CASE Report
  BY <1>14, <1>a DEF Report
<1>15. CASE KillMain
  BY <1>15, <1>a DEF KillMain
<1>16. CASE ViewerExit
  BY <1>16, <1>a DEF ViewerExit
<1>17. ASSUME NEW w \in Workers, Step(w) \/ Crash(w), UNCHANGED mainVars PROVE TableAccounted'
  <2>1. [Next]_vars
    BY <1>17 DEF Next
  <2> QED
    BY <1>0, <2>1, AccountedStep
<1>18. CASE UNCHANGED sysVars
  BY <1>18, <1>a DEF sysVars
<1> QED
  BY <1>1, <1>2, <1>3, <1>4, <1>5, <1>6, <1>7, <1>8, <1>9, <1>10, <1>11, <1>12, <1>13, <1>14, <1>15, <1>16, <1>17, <1>18 DEF SysNext, MainStep, SysFinished

(* A URL in the table is still to be served, or was served, or is known to   *)
(* be lost, through every kill, crash, failed call and restart, with workers *)
(* of an older run still at work or not.                                     *)
THEOREM TableNeverLies == SysSpec => []TableAccounted
<1>1. SysInit => TableAccounted
  BY DEF SysInit, IpcInit, TableAccounted, Recorded
<1>2. WorkInv /\ MainInv /\ TableAccounted /\ [SysNext]_sysVars
        => (WorkInv /\ MainInv /\ TableAccounted)'
  BY WorkNext, MainNext, AccountedNext
<1> QED
  BY WorkInit, MainInit, <1>1, <1>2, PTL DEF SysSpec

-----------------------------------------------------------------------------
(* A step of a worker is a step of a live one, and ends or starts no other. *)
LEMMA LiveStep ==
  ASSUME Inv, NEW w \in Workers, Step(w) \/ Crash(w)
  PROVE  pc[w] \notin Ended /\ \A v \in Workers \ {w} : pc'[v] = pc[v]
<1>1. pc \in [Workers -> PC]
  BY DEF Inv, TypeOK
<1> QED
  BY <1>1 DEF Step, Crash, Goto, End, Ended, RecvMsg, RecvTimeout, FetchOk, FetchFail, Resend,
     ResendFail, ListPage, OpenFail, SaveFile, InsertTask, NextLink, EndPage, Lock, LockFail,
     CheckDone, WriteDone, Unlock, SendLink, SendLinkFail

LEMMA PackedKept == ASSUME Inv, PrefixPacked, [Next]_vars PROVE PrefixPacked'
<1>1. /\ \A i \in Slots : donelist[i] # EMPTY => donelist'[i] = donelist[i]
      /\ \A i \in Slots : donelist'[i] # donelist[i] =>
           \A j \in Slots : j < i => donelist[j] # EMPTY
  BY SlotsFill
<1> QED
  BY <1>1 DEF PrefixPacked

(* The number of the slots in use tells which they are. *)
LEMMA PackedCount ==
  ASSUME PrefixPacked
  PROVE  \A i \in Slots : donelist[i] # EMPTY <=> i <= Cardinality(InUse) - 1
<1>1. CASE \A i \in Slots : donelist[i] # EMPTY
  <2>1. InUse = 0 .. UrlNum - 1
    BY <1>1 DEF InUse, Slots
  <2>2. Cardinality(InUse) = UrlNum
    BY <2>1, FS_Interval, IpcAssumption
  <2> QED
    BY <1>1, <2>2, IpcAssumption DEF Slots
<1>2. CASE \E i \in Slots : donelist[i] = EMPTY
  <2> DEFINE Free == {i \in Slots : donelist[i] = EMPTY}
  <2>1. Free \subseteq Nat /\ Free # {}
    BY <1>2, IpcAssumption DEF Slots
  <2>2. PICK k \in Free : \A i \in Free : k <= i
    BY <2>1, LeastNat
  <2>3. k \in Slots /\ k \in Nat /\ \A i \in Slots : donelist[i] # EMPTY <=> i <= k - 1
    BY <2>1, <2>2, IpcAssumption DEF PrefixPacked, Slots
  <2>4. InUse = 0 .. k - 1
    BY <2>3, IpcAssumption DEF InUse, Slots
  <2>5. Cardinality(InUse) = k
    BY <2>3, <2>4, FS_Interval
  <2> QED
    BY <2>3, <2>5
<1> QED
  BY <1>1, <1>2

LEMMA AloneInit == SysInit => AloneInv
BY DEF SysInit, IpcInit, AloneInv, AllEnded, Ended, PrefixPacked

LEMMA AloneNext ==
  ASSUME ~ Overlap, WorkInv, MainInv, AloneInv, MainInv', [SysNext]_sysVars
  PROVE  AloneInv'
<1>0. /\ Inv /\ pc \in [Workers -> PC]
      /\ donelist \in [Slots -> Urls \union {EMPTY}]
  BY DEF WorkInv, Inv, TypeOK, IpcTypeOK
(* The steps of main that touch neither the workers nor the table. *)
<1>a. ASSUME UNCHANGED <<pc, donelist>>,
             mpc' \in Quiet => AllEnded,
             mpc' # "left" => \A w \in Workers : pc[w] \notin Ended => w \in kids',
             mpc' = "end" => reported' = Cardinality(InUse),
             mpc' \in {"resume", "unrecord"} =>
               \A i \in Slots : donelist[i] # EMPTY <=> i <= icnt' - next'
      PROVE  AloneInv'
  BY <1>a DEF AloneInv, AllEnded, PrefixPacked, InUse
<1>1. CASE Clear
  BY <1>0, <1>1 DEF Clear, AloneInv, Quiet, AllEnded, PrefixPacked, Down
<1>2. CASE Start
  BY <1>0, <1>2, <1>a DEF Start, AloneInv, Quiet, AllEnded, vars, ipcVars, workerVars, Down
<1>3. CASE MainClearQueue
  BY <1>0, <1>3, <1>a DEF MainClearQueue, AloneInv, Quiet, AllEnded
<1>4. CASE Count
  <2>1. \A i \in Slots : donelist[i] # EMPTY <=> i <= icnt' - next'
    BY <1>4, PackedCount DEF Count, AloneInv
  <2> QED
    BY <1>4, <2>1, <1>a DEF Count, AloneInv, Quiet, AllEnded, vars, ipcVars, workerVars
<1>5. CASE Wipe
  BY <1>0, <1>5 DEF Wipe, AloneInv, Quiet, AllEnded, PrefixPacked, Down
<1>6. CASE SeedCrawl
  BY <1>0, <1>6, <1>a DEF SeedCrawl, AloneInv, Quiet, AllEnded, workerVars
<1>7. CASE ResumeSend
  <2>1. icnt - next \in Slots
    BY <1>7, ResumeSlot DEF ResumeSend
  <2>2. donelist[icnt - next] # EMPTY
    BY <1>7, <2>1, IpcAssumption DEF ResumeSend, AloneInv, Slots
  <2>3. mpc = "resume" /\ mpc' = "unrecord" /\ UNCHANGED <<icnt, next, pc, donelist, kids>>
    BY <1>7, <2>2 DEF ResumeSend
  <2> QED
    BY <2>3, <1>a DEF AloneInv, Quiet, AllEnded
<1>8. CASE ResumeUnrecord
  <2>1. icnt - next \in Slots
    BY <1>8, ResumeSlot DEF ResumeUnrecord, MainInv
  <2>2. /\ icnt \in Nat /\ next \in Nat /\ icnt' = icnt /\ next' = next + 1
        /\ mpc = "unrecord" /\ mpc' = "resume" /\ UNCHANGED <<pc, kids>>
        /\ donelist' = [donelist EXCEPT ![icnt - next] = EMPTY]
    BY <1>8, IpcAssumption DEF ResumeUnrecord, workerVars, MainInv, SysTypeOK
  <2>3. \A i \in Slots : donelist'[i] # EMPTY <=> i <= icnt' - next'
    BY <1>0, <2>1, <2>2, IpcAssumption DEF AloneInv, Slots
  <2>4. PrefixPacked'
    BY <2>2, <2>3, IpcAssumption DEF PrefixPacked, Slots
  <2> QED
    BY <2>2, <2>3, <2>4 DEF AloneInv, Quiet, AllEnded
<1>9. CASE ResumeDone
  BY <1>0, <1>9, <1>a DEF ResumeDone, AloneInv, Quiet, AllEnded, vars, ipcVars, workerVars
<1>10. CASE ForkWorker
  <2>1. UNCHANGED donelist /\ mpc = "fork" /\ mpc' = "fork"
    BY <1>10 DEF ForkWorker, ipcVars
  <2>2. \A w \in Workers : pc'[w] \notin Ended => w \in kids'
    BY <1>0, <1>10 DEF ForkWorker, AloneInv
  <2> QED
    BY <2>1, <2>2 DEF AloneInv, Quiet, PrefixPacked
<1>11. CASE ForkViewer
  BY <1>0, <1>11, <1>a DEF ForkViewer, AloneInv, Quiet, AllEnded, vars, ipcVars, workerVars
<1>12. CASE Connect
  BY <1>0, <1>12, <1>a DEF Connect, AloneInv, Quiet, AllEnded, vars, ipcVars, workerVars
<1>13. CASE Reap
  <2>1. \A w \in Workers : pc[w] \notin Ended => w \in kids'
    BY <1>13 DEF Reap, Zombies, AloneInv
  <2> QED
    BY <1>13, <2>1, <1>a DEF Reap, AloneInv, Quiet, AllEnded, vars, ipcVars, workerVars
<1>14. CASE Report
  <2>1. mpc' = "end" => kids = {}
    BY <1>14 DEF Report, MainInv, Childless, Down
  <2> QED
    BY <1>0, <1>14, <2>1, <1>a DEF Report, AloneInv, Quiet, AllEnded, vars, ipcVars, workerVars
<1>15. CASE KillMain
  BY <1>0, <1>15, <1>a DEF KillMain, AloneInv, Quiet, AllEnded, vars, ipcVars, workerVars
<1>16. CASE ViewerExit
  BY <1>0, <1>16, <1>a DEF ViewerExit, AloneInv, Quiet, AllEnded, vars, ipcVars, workerVars
<1>17. ASSUME NEW w \in Workers, Step(w) \/ Crash(w), UNCHANGED mainVars PROVE AloneInv'
  <2>1. [Next]_vars
    BY <1>17 DEF Next
  <2>2. pc[w] \notin Ended /\ \A v \in Workers \ {w} : pc'[v] = pc[v]
    BY <1>0, <1>17, LiveStep
  <2>3. PrefixPacked'
    BY <1>0, <2>1, PackedKept DEF AloneInv
  <2> QED
    BY <1>17, <2>2, <2>3 DEF mainVars, AloneInv, Quiet, AllEnded
<1>18. CASE UNCHANGED sysVars
  BY <1>0, <1>18, <1>a DEF sysVars, vars, ipcVars, workerVars, mainVars, AloneInv, Quiet, AllEnded
<1> QED
  BY <1>1, <1>2, <1>3, <1>4, <1>5, <1>6, <1>7, <1>8, <1>9, <1>10, <1>11, <1>12, <1>13, <1>14, <1>15, <1>16, <1>17, <1>18 DEF SysNext, MainStep, SysFinished

LEMMA RunsApart ==
  ASSUME ~ Overlap
  PROVE  SysSpec => [](WorkInv /\ MainInv /\ AloneInv)
<1>1. WorkInv /\ MainInv /\ AloneInv /\ [SysNext]_sysVars => (WorkInv /\ MainInv /\ AloneInv)'
  BY WorkNext, MainNext, AloneNext
<1> QED
  BY WorkInit, MainInit, AloneInit, <1>1, PTL DEF SysSpec

(* With no worker left over from an older run, the slots in use are always   *)
(* the first ones: the resume that counts them takes back the last ones.     *)
THEOREM SlotsPacked == ~ Overlap => (SysSpec => []PrefixPacked)
<1> SUFFICES ASSUME ~ Overlap PROVE SysSpec => []PrefixPacked
  OBVIOUS
<1>1. AloneInv => PrefixPacked
  BY DEF AloneInv
<1> QED
  BY RunsApart, <1>1, PTL

(* main does not end before its children, though num does not count the      *)
(* viewer, forks may fail and workers may be killed.                         *)
THEOREM MainEndsLast == ~ Overlap => (SysSpec => []EndsLast)
<1> SUFFICES ASSUME ~ Overlap PROVE SysSpec => []EndsLast
  OBVIOUS
<1>1. MainInv /\ AloneInv => EndsLast
  BY DEF MainInv, AloneInv, EndsLast, Childless, Down, Quiet
<1> QED
  BY RunsApart, <1>1, PTL

-----------------------------------------------------------------------------
(* A table larger than the site never fills up. *)
LEMMA RoomLeft == ASSUME TypeOK, NoDupSlots, TableLarger PROVE HasRoom
<1> SUFFICES ASSUME ~ HasRoom PROVE FALSE
  OBVIOUS
<1>1. donelist \in [Slots -> Urls]
  BY DEF HasRoom, TypeOK, IpcTypeOK
<1>2. IsFiniteSet(Slots) /\ Cardinality(Slots) = UrlNum
  BY FS_Interval, IpcAssumption DEF Slots
<1>3. PICK i, j \in Slots : i # j /\ donelist[i] = donelist[j]
  BY <1>1, <1>2, FS_PigeonHole DEF TableLarger
<1> QED
  BY <1>1, <1>3, IpcAssumption DEF NoDupSlots

LEMMA NoHands == ASSUME AllEnded PROVE \A w \in Workers : HandKey(w) = {}
BY DEF AllEnded, Ended, HandKey, Holding, Linking

LEMMA NoHandsNext == ASSUME AllEnded' PROVE \A w \in Workers : HandKey(w)' = {}
BY DEF AllEnded, Ended, HandKey, Holding, Linking

LEMMA ClaimsCover ==
  ASSUME NEW S, Claimed(S)', TypeOK'
  PROVE  \A u \in Urls : fetched'[u] <= Claims(u, S)'
<1>1. \A u \in Urls : fetched'[u] \in Nat /\ fetched'[u] <= Budget(u, S)'
  BY WorkersAssumption DEF Claimed, TypeOK
<1>2. \A u \in Urls : Budget(u, S)' <= Claims(u, S)'
  BY DEF Budget, Claims
<1>3. \A u \in Urls : Budget(u, S)' \in Nat /\ Claims(u, S)' \in Nat
  BY DEF Budget, Claims
<1> QED
  BY <1>1, <1>2, <1>3

(* A step that touches neither a message nor a claim. *)
LEMMA ClaimsRest ==
  ASSUME UNCHANGED <<queue, donelist, fetched, pc, cur, href, mainSent>>
  PROVE  /\ Recorded' = Recorded
         /\ AllEnded' = AllEnded
         /\ \A u \in Urls : Claims(u, mainSent)' = Claims(u, mainSent)
         /\ Claimed(mainSent) => Claimed(mainSent)'
<1>1. Recorded' = Recorded /\ AllEnded' = AllEnded
  BY DEF Recorded, AllEnded
<1>2. \A w \in Workers : HandKey(w)' = HandKey(w)
  BY DEF HandKey
<1>3. Keys' = Keys
  BY <1>2 DEF Keys
<1>4. OneHolder => OneHolder'
  BY <1>2 DEF OneHolder
<1>5. \A u \in Urls : /\ Claims(u, mainSent)' = Claims(u, mainSent)
                      /\ Budget(u, mainSent)' = Budget(u, mainSent)
  BY <1>1, <1>3 DEF Claims, Budget
<1>6. Claimed(mainSent) => Claimed(mainSent)'
  BY <1>3, <1>4, <1>1, <1>5 DEF Claimed
<1> QED
  BY <1>1, <1>5, <1>6

(* With no message left a claim is used up. *)
LEMMA NoMessages ==
  ASSUME NEW S, AllEnded', queue' = <<>>,
         \A u \in Urls : fetched'[u] <= Claims(u, S)'
  PROVE  Claimed(S)'
<1>1. \A w \in Workers : HandKey(w)' = {}
  BY NoHandsNext
<1>2. 1 .. Len(queue') = {}
  OBVIOUS
<1>3. Keys' = {}
  BY <1>1, <1>2 DEF Keys
<1>4. OneHolder'
  BY <1>1, <1>2 DEF OneHolder
<1>5. \A u \in Urls : Claims(u, S)' = Budget(u, S)'
  BY <1>3 DEF Claims, Budget
<1> QED
  BY <1>3, <1>4, <1>5 DEF Claimed

LEMMA ClaimInit == SysInit => ClaimInv
<1> SUFFICES ASSUME SysInit PROVE ClaimInv
  OBVIOUS
<1>1. mpc = "off" /\ AllEnded /\ \A u \in Urls : fetched[u] = 0
  BY DEF SysInit, AllEnded, Ended
<1>2. \A u \in Urls : fetched[u] <= Claims(u, mainSent)
  BY <1>1 DEF Claims
<1> QED
  BY <1>1, <1>2 DEF ClaimInv

LEMMA ClaimNext ==
  ASSUME ~ Overlap, TableLarger, WorkInv, MainInv, AloneInv, ClaimInv,
         WorkInv', MainInv', AloneInv', [SysNext]_sysVars
  PROVE  ClaimInv'
<1>0. /\ TypeOK /\ TypeOK' /\ IpcTypeOK
      /\ donelist \in [Slots -> Urls \union {EMPTY}]
      /\ fetched \in [Urls -> 0 .. FetchCap]
      /\ pc \in [Workers -> PC]
      /\ Recorded \subseteq Urls
  BY DEF WorkInv, Inv, TypeOK, IpcTypeOK, Recorded
<1>h. HasRoom'
  <2>1. (TypeOK /\ NoDupSlots /\ TableLarger => HasRoom)'
    BY RoomLeft, PTL
  <2> QED
    BY <2>1 DEF WorkInv, Inv, TableLarger
(* The steps of main that send nothing and leave the table as it is. *)
<1>a. ASSUME UNCHANGED <<queue, donelist, fetched, pc, cur, href, mainSent>>,
             mpc' \in {"off", "clearq", "left"} \/ mpc \notin {"off", "clearq", "left"},
             mpc' \in {"count", "wipe", "seed"} => queue = <<>>,
             mpc' # "seed", mpc' # "unrecord",
             mpc' = "resume" => queue = <<>>
      PROVE  ClaimInv'
  <2>1. /\ AllEnded' = AllEnded
        /\ \A u \in Urls : Claims(u, mainSent)' = Claims(u, mainSent)
        /\ Claimed(mainSent) => Claimed(mainSent)'
    BY <1>a, ClaimsRest
  <2> HIDE DEF Claims, Claimed, AllEnded
  <2>2. \A u \in Urls : fetched'[u] <= Claims(u, mainSent)'
    BY <1>a, <2>1 DEF ClaimInv
  <2>3. Claimed(mainSent)' \/ (AllEnded' /\ mpc' \in {"off", "clearq", "left"})
    BY <1>a, <2>1 DEF ClaimInv
  <2>4. mpc' \in {"resume", "unrecord"} => 1 .. Len(queue') = {}
    BY <1>a
  <2> QED
    BY <1>a, <2>2, <2>3, <2>4 DEF ClaimInv
<1>b. ASSUME UNCHANGED <<queue, donelist, fetched, pc, cur, href, mainSent, mpc, icnt, next>>
      PROVE  ClaimInv'
  <2>1. /\ AllEnded' = AllEnded /\ Recorded' = Recorded
        /\ \A u \in Urls : Claims(u, mainSent)' = Claims(u, mainSent)
        /\ Claimed(mainSent) => Claimed(mainSent)'
    BY <1>b, ClaimsRest
  <2> HIDE DEF Claims, Claimed, AllEnded, Recorded
  <2> QED
    BY <1>b, <2>1 DEF ClaimInv
<1>1. CASE Clear
  <2>1. mpc' = "off" /\ AllEnded' /\ \A u \in Urls : fetched'[u] = 0
    BY <1>1 DEF Clear, AllEnded
  <2>2. \A u \in Urls : fetched'[u] <= Claims(u, mainSent)'
    BY <2>1 DEF Claims
  <2> QED
    BY <2>1, <2>2 DEF ClaimInv
<1>2. CASE Start
  BY <1>2, <1>a DEF Start, ClaimInv, vars, ipcVars, workerVars
<1>3. CASE MainClearQueue
  <2>1. mpc' = "count" /\ AllEnded' /\ queue' = <<>>
    BY <1>3 DEF MainClearQueue, ClearQueue, AloneInv, Quiet
  <2>2. UNCHANGED <<donelist, fetched, mainSent>>
    BY <1>3 DEF MainClearQueue
  <2>3. PICK S : S = mainSent
    OBVIOUS
  <2>4. \A u \in Urls : fetched'[u] <= Claims(u, S)'
    BY <2>2, <2>3 DEF ClaimInv, Claims, Recorded
  <2>5. Claimed(S)'
    BY <2>1, <2>4, NoMessages
  <2> QED
    BY <2>1, <2>2, <2>3, <2>4, <2>5 DEF ClaimInv, Claimed, Claims, Budget
<1>4. CASE Count
  BY <1>4, <1>a DEF Count, ClaimInv, vars, ipcVars, workerVars
<1>5. CASE Wipe
  <2>1. mpc' = "seed" /\ AllEnded' /\ queue' = <<>> /\ mainSent' = {}
    BY <1>5 DEF Wipe, AloneInv, ClaimInv, Quiet
  <2>2. \A u \in Urls : fetched'[u] = 0
    BY <1>5 DEF Wipe
  <2>3. \A u \in Urls : fetched'[u] <= Claims(u, {})'
    BY <2>2 DEF Claims
  <2>4. Claimed({})'
    BY <2>1, <2>3, NoMessages
  <2> QED
    BY <2>1, <2>2, <2>3, <2>4 DEF ClaimInv, Claimed, Claims, Budget
<1>6. CASE SeedCrawl
  <2>1. /\ mpc = "seed" /\ mpc' = "fork" /\ queue = <<>> /\ mainSent' = {Seed}
        /\ \A u \in Urls : fetched'[u] = 0
        /\ UNCHANGED <<donelist, fetched, pc>>
    BY <1>6 DEF SeedCrawl, workerVars, ClaimInv
  <2>2. \A w \in Workers : HandKey(w)' = {}
    BY <2>1, NoHandsNext DEF AloneInv, Quiet, AllEnded
  <2>3. queue' = <<>> \/ (Len(queue') = 1 /\ queue'[1] = Msg(Seed, 1, 0))
    BY <1>6, <2>1 DEF SeedCrawl, SendUnixMsgQ
  <2>m. Key(Msg(Seed, 1, 0)) = <<Seed, "sent">>
    BY DEF Key, Msg
  <2>4. \A i \in 1 .. Len(queue') : i = 1 /\ Key(queue'[i]) = <<Seed, "sent">>
    <3>1. CASE queue' = <<>>
      <4>1. 1 .. Len(queue') = {}
        BY <3>1
      <4> QED
        BY <4>1
    <3>2. CASE Len(queue') = 1 /\ queue'[1] = Msg(Seed, 1, 0)
      BY <2>m, <3>2
    <3> QED
      BY <2>3, <3>1, <3>2
  <2>5. Keys' \subseteq {<<Seed, "sent">>}
    BY <2>2, <2>4 DEF Keys
  <2>6. OneHolder'
    BY <2>2, <2>4 DEF OneHolder
  <2>7. \A u \in Urls : 0 <= Budget(u, {Seed})' /\ 0 <= Claims(u, {Seed})'
    BY DEF Budget, Claims
  <2>8. Claimed({Seed})'
    BY <2>1, <2>5, <2>6, <2>7 DEF Claimed
  <2> QED
    BY <2>1, <2>7, <2>8 DEF ClaimInv, Claimed, Claims, Budget
<1>7. CASE ResumeSend
  <2>1. icnt - next \in Slots
    BY <1>7, ResumeSlot DEF ResumeSend
  <2>2. donelist[icnt - next] # EMPTY
    BY <1>7, <2>1, IpcAssumption DEF ResumeSend, AloneInv, Slots
  <2>3. PICK u \in Urls : u = donelist[icnt - next]
    BY <1>0, <2>1, <2>2
  <2>4. /\ mpc = "resume" /\ mpc' = "unrecord" /\ mainSent' = mainSent \union {u}
        /\ fetched' = [fetched EXCEPT ![u] = 0] /\ UNCHANGED <<donelist, icnt, next, pc>>
        /\ SendUnixMsgQ(Msg(u, 1, 0)) \/ UNCHANGED queue
    BY <1>7, <2>2, <2>3 DEF ResumeSend
  <2>5. Recorded' = Recorded /\ u \in Recorded
    BY <2>1, <2>2, <2>3, <2>4 DEF Recorded
  <2>6. \A w \in Workers : HandKey(w) = {} /\ HandKey(w)' = {}
    BY <2>4, NoHands, NoHandsNext DEF AloneInv, Quiet, AllEnded
  <2>7. /\ Claimed(mainSent)
        /\ \A i \in 1 .. Len(queue) : queue[i].depth = 1 /\ queue[i].url \notin Recorded
    BY <2>4 DEF ClaimInv
  <2>8. \A i \in 1 .. Len(queue') :
          \/ i \in 1 .. Len(queue) /\ queue'[i] = queue[i]
          \/ i = Len(queue) + 1 /\ queue'[i] = Msg(u, 1, 0) /\ SendUnixMsgQ(Msg(u, 1, 0))
    <3>1. CASE UNCHANGED queue
      BY <3>1
    <3>2. CASE SendUnixMsgQ(Msg(u, 1, 0))
      <4>1. Msg(u, 1, 0) \in Msgs
        BY MsgType
      <4> QED
        BY <1>0, <3>2, <4>1, SendPlaces
    <3> QED
      BY <2>4, <3>1, <3>2
  <2>9. \A i \in 1 .. Len(queue') :
          queue'[i].depth = 1 /\ Key(queue'[i]) = <<queue'[i].url, "sent">>
          /\ (queue'[i].url \notin Recorded \/ queue'[i].url = u)
    BY <2>7, <2>8 DEF Key, Msg
  <2>10. OneHolder'
    <3>1. \A i, j \in 1 .. Len(queue') : Key(queue'[i]) = Key(queue'[j]) => i = j
      <4>1. \A i, j \in 1 .. Len(queue) : Key(queue[i]) = Key(queue[j]) => i = j
        BY <2>7 DEF Claimed, OneHolder
      <4>2. \A i \in 1 .. Len(queue) : Key(queue[i]) # Key(Msg(u, 1, 0))
        BY <2>5, <2>7 DEF Key, Msg
      <4> QED
        BY <2>8, <4>1, <4>2
    <3> QED
      BY <2>6, <3>1 DEF OneHolder
  <2>11. /\ \A v \in Urls : <<v, "found">> \notin Keys /\ <<v, "found">> \notin Keys'
         /\ \A v \in Urls \ {u} : <<v, "sent">> \in Keys' => <<v, "sent">> \in Keys
    <3>1. \A v \in Urls : <<v, "found">> \notin Keys
      BY <2>6, <2>7 DEF Keys, Key
    <3>2. \A v \in Urls : <<v, "found">> \notin Keys'
      BY <2>6, <2>9 DEF Keys
    <3>3. ASSUME NEW v \in Urls \ {u}, <<v, "sent">> \in Keys' PROVE <<v, "sent">> \in Keys
      <4>1. PICK i \in 1 .. Len(queue') : Key(queue'[i]) = <<v, "sent">>
        BY <2>6, <3>3 DEF Keys
      <4>2. Key(queue'[i]) # Key(Msg(u, 1, 0))
        BY <3>3, <4>1 DEF Key, Msg
      <4>3. i \in 1 .. Len(queue) /\ queue'[i] = queue[i]
        BY <2>8, <4>2
      <4> QED
        BY <4>1, <4>3 DEF Keys
    <3> QED
      BY <3>1, <3>2, <3>3
  <2>12. PICK S : S = mainSent \union {u}
    OBVIOUS
  <2>13. ASSUME NEW v \in Urls PROVE fetched'[v] <= Budget(v, S)'
    <3>1. CASE v = u
      BY <1>0, <2>4, <3>1 DEF Budget
    <3>2. CASE v # u
      <4>1. fetched'[v] = fetched[v] /\ fetched[v] <= Budget(v, mainSent) /\ fetched[v] \in Nat
        BY <1>0, <2>4, <2>7, <3>2, WorkersAssumption DEF Claimed
      <4>2. Budget(v, mainSent) <= Budget(v, S)'
        BY <2>5, <2>11, <2>12, <3>2 DEF Budget
      <4>3. Budget(v, mainSent) \in Nat /\ Budget(v, S)' \in Nat
        BY DEF Budget
      <4> QED
        BY <4>1, <4>2, <4>3
    <3> QED
      BY <3>1, <3>2
  <2>14. \A v \in Urls : <<v, "sent">> \in Keys' => v \in S
    BY <2>7, <2>11, <2>12 DEF Claimed
  <2>15. Claimed(S)'
    BY <2>10, <2>11, <2>13, <2>14 DEF Claimed
  <2>16. \A v \in Urls : fetched'[v] <= Claims(v, S)'
    BY <1>0, <2>15, ClaimsCover
  <2>17. mainSent' = S /\ u \in S /\ fetched'[u] = 0 /\ donelist'[icnt' - next'] = u
    BY <1>0, <2>3, <2>4, <2>12
  <2> QED
    BY <2>4, <2>5, <2>9, <2>15, <2>16, <2>17 DEF ClaimInv, Claimed, Claims, Budget
<1>8. CASE ResumeUnrecord
  <2>1. icnt - next \in Slots
    BY <1>8, ResumeSlot DEF ResumeUnrecord, MainInv
  <2>2. PICK u \in Urls : u = donelist[icnt - next]
    BY <1>0, <1>8, <2>1 DEF ResumeUnrecord, MainInv
  <2>3. /\ mpc = "unrecord" /\ mpc' = "resume"
        /\ donelist' = [donelist EXCEPT ![icnt - next] = EMPTY]
        /\ UNCHANGED <<queue, pc, cur, href, fetched, mainSent>>
    BY <1>8 DEF ResumeUnrecord, workerVars
  <2>4. Recorded' = Recorded \ {u}
    BY <1>0, <2>1, <2>2, <2>3, IpcAssumption DEF Recorded, WorkInv, NoDupSlots
  <2>5. \A w \in Workers : HandKey(w) = {} /\ HandKey(w)' = {}
    BY <2>3, NoHands, NoHandsNext DEF AloneInv, Quiet, AllEnded
  <2>6. /\ Claimed(mainSent)
        /\ fetched[u] = 0
        /\ \A i \in 1 .. Len(queue) :
             queue[i].depth = 1 /\ (queue[i].url \notin Recorded \/ queue[i].url = u)
    BY <2>2, <2>3 DEF ClaimInv
  <2>7. Keys' = Keys /\ \A v \in Urls : <<v, "found">> \notin Keys
    BY <2>3, <2>5, <2>6 DEF Keys, Key
  <2>8. OneHolder'
    BY <2>3, <2>5, <2>6 DEF Claimed, OneHolder
  <2>9. PICK S : S = mainSent
    OBVIOUS
  <2>10. \A v \in Urls : fetched'[v] <= Budget(v, S)'
    <3>1. \A v \in Urls \ {u} : fetched[v] <= Budget(v, S) /\ Budget(v, S)' = Budget(v, S)
      BY <2>4, <2>6, <2>7, <2>9 DEF Claimed, Budget
    <3>2. fetched[u] <= Budget(u, S)'
      BY <2>6 DEF Budget
    <3> QED
      BY <2>3, <3>1, <3>2
  <2>11. Claimed(S)'
    BY <2>6, <2>7, <2>8, <2>9, <2>10 DEF Claimed
  <2>12. \A v \in Urls : fetched'[v] <= Claims(v, S)'
    BY <1>0, <2>11, ClaimsCover
  <2>13. \A i \in 1 .. Len(queue') : queue'[i].depth = 1 /\ queue'[i].url \notin Recorded'
    BY <2>3, <2>4, <2>6
  <2> QED
    BY <2>3, <2>9, <2>11, <2>12, <2>13 DEF ClaimInv, Claimed, Claims, Budget
<1>9. CASE ResumeDone
  BY <1>9, <1>a DEF ResumeDone, ClaimInv, vars, ipcVars, workerVars
<1>10. CASE ForkWorker
  <2>1. /\ mpc = "fork" /\ mpc' = "fork"
        /\ UNCHANGED <<queue, donelist, cur, href, fetched, mainSent>>
    BY <1>10 DEF ForkWorker, ipcVars
  <2>2. \A w \in Workers : HandKey(w)' = HandKey(w)
    BY <1>0, <1>10 DEF ForkWorker, HandKey, Holding, Linking, Ended
  <2>3. OneHolder' /\ Keys' = Keys /\ Recorded' = Recorded
    BY <2>1, <2>2 DEF ClaimInv, Claimed, OneHolder, Keys, Recorded
  <2> QED
    BY <2>1, <2>3 DEF ClaimInv, Claimed, Claims, Budget
<1>11. CASE ForkViewer
  BY <1>11, <1>a DEF ForkViewer, ClaimInv, vars, ipcVars, workerVars
<1>12. CASE Connect
  BY <1>12, <1>a DEF Connect, ClaimInv, vars, ipcVars, workerVars
<1>13. CASE Reap
  BY <1>13, <1>a DEF Reap, ClaimInv, vars, ipcVars, workerVars
<1>14. CASE Report
  BY <1>14, <1>a DEF Report, ClaimInv, vars, ipcVars, workerVars
<1>15. CASE KillMain
  BY <1>15, <1>a DEF KillMain, ClaimInv, vars, ipcVars, workerVars
<1>16. CASE ViewerExit
  BY <1>16, <1>b DEF ViewerExit, vars, ipcVars, workerVars
<1>17. ASSUME NEW w \in Workers, Step(w) \/ Crash(w), UNCHANGED mainVars PROVE ClaimInv'
  <2>1. [Next]_vars
    BY <1>17 DEF Next
  <2>2. ~ AllEnded /\ mpc \notin Quiet /\ Claimed(mainSent)
    BY <1>0, <1>17, LiveStep DEF WorkInv, AllEnded, AloneInv, ClaimInv
  <2>3. PICK S : S = mainSent
    OBVIOUS
  <2>4. OnceInv(S)
    BY <2>2, <2>3 DEF OnceInv, Claimed, Budget
  <2>5. OnceInv(S)'
    BY <2>1, <2>4, OnceNext DEF WorkInv
  <2>6. Claimed(S)'
    BY <1>h, <2>5 DEF OnceInv
  <2>7. \A u \in Urls : fetched'[u] <= Claims(u, S)'
    BY <1>0, <2>6, ClaimsCover
  <2>8. mpc' = mpc /\ mainSent' = S
    BY <1>17, <2>3 DEF mainVars
  <2> QED
    BY <2>2, <2>6, <2>7, <2>8 DEF ClaimInv, Claimed, Claims, Budget, Quiet
<1>18. CASE UNCHANGED sysVars
  BY <1>18, <1>b DEF sysVars, mainVars, vars, ipcVars, workerVars
<1> QED
  BY <1>1, <1>2, <1>3, <1>4, <1>5, <1>6, <1>7, <1>8, <1>9, <1>10, <1>11, <1>12, <1>13, <1>14, <1>15, <1>16, <1>17, <1>18 DEF SysNext, MainStep, SysFinished

(* In a crawl without leftover workers and with a table larger than the      *)
(* site, a page is fetched once for its slot, and once more when main sent   *)
(* it itself: through crashes, kills and the resumes from the table.         *)
THEOREM OncePerClaimHolds == ~ Overlap => (SysSpec => []OncePerClaim)
<1> SUFFICES ASSUME ~ Overlap PROVE SysSpec => []OncePerClaim
  OBVIOUS
<1>1. ClaimInv /\ WorkInv => OncePerClaim
  <2> SUFFICES ASSUME WorkInv, ClaimInv, NEW u \in Urls
               PROVE  fetched[u] <= IF u \in mainSent THEN 2 ELSE 1
    BY DEF OncePerClaim
  <2>1. fetched[u] \in Nat /\ fetched[u] <= Claims(u, mainSent)
    BY WorkersAssumption DEF WorkInv, Inv, TypeOK, ClaimInv
  <2> QED
    BY <2>1 DEF Claims
<1>2. SysInit => (TableLarger => ClaimInv)
  BY ClaimInit
<1>3. /\ WorkInv /\ MainInv /\ AloneInv /\ (TableLarger => ClaimInv) /\ [SysNext]_sysVars
      /\ WorkInv' /\ MainInv' /\ AloneInv'
      => (TableLarger => ClaimInv)'
  BY ClaimNext DEF TableLarger
<1>4. WorkInv /\ (TableLarger => ClaimInv) => OncePerClaim
  BY <1>1 DEF OncePerClaim
<1> QED
  BY RunsApart, <1>2, <1>3, <1>4, PTL DEF SysSpec

=============================================================================
