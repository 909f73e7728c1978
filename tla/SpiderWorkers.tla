---------------------------- MODULE SpiderWorkers ----------------------------
(***************************************************************************)
(* The worker processes of the MULTI_PROC build: spider() of               *)
(* src/src/spider.c, lines 403-693, run by every process that main.c       *)
(* forks.  A worker takes a message from the queue, fetches its page,      *)
(* saves it when it is one of the wanted pages, and for each link of the   *)
(* page that the filters accept looks the link up in the shared table,     *)
(* records it there and sends it to the queue.                             *)
(*                                                                         *)
(* An action is the code between two points where another process or a     *)
(* crash can be noticed: a call on the queue, on the semaphore, on the     *)
(* shared table, the network, a file or the database.                      *)
(***************************************************************************)
EXTENDS SpiderIpc, FiniteSets

CONSTANTS Seed,         \* the URL main.c sends first
          Hrefs,        \* the links of every page, in page order
          FileListed,   \* URLs that checkfilelist accepts
          Options,      \* which of the program's modes are on
          TravelDepth,  \* travel_depth
          MaxAnalyse,   \* the 5 of "analyse_cnt < 5"
          Faults,       \* which calls may fail
          Crashable,    \* the workers that may be killed
          FetchCap      \* bound: fetches of one URL are counted up to here

(* A link carries the verdict of checkinvolve, checkfilter and checkurl on *)
(* it: these depend on its href and its text only.                         *)
Links == [href : Urls, iflag : BOOLEAN]

OptionNames == {"shixin", "fileinvolve", "download", "icontrol"}
FaultNames  == {"fetch", "fopen", "file", "sql", "sem", "send"}

(* main.c refuses to start fewer than one process. *)
ASSUME WorkersAssumption ==
  /\ Workers # {}
  /\ Seed \in Urls
  /\ Hrefs \in [Urls -> Seq(Links)]
  /\ FileListed \subseteq Urls
  /\ Options \subseteq OptionNames
  /\ TravelDepth \in Nat
  /\ MaxAnalyse \in Nat \ {0}
  /\ Faults \subseteq FaultNames
  /\ Crashable \subseteq Workers
  /\ FetchCap \in Nat \ {0, 1, 2}

VARIABLES pc,      \* where each worker is
          cur,     \* its url, depth and analyse_cnt
          todo,    \* the links of the page still to be looked at
          href,    \* the link being looked up, recorded or sent
          fp,      \* its log file is open (ifileflag)
          fetched, \* history: how often a page was fetched with success
          fate,    \* history: why a URL was put aside without a fetch
          files,   \* the pages saved on disk
          tasks    \* the rows of court_shixin_task

workerVars == <<pc, cur, todo, href, fp, fetched, fate, files, tasks>>
vars == <<ipcVars, workerVars>>

Idle == [url |-> EMPTY, depth |-> 0, analyse_cnt |-> 0]

(* gaveup: analyse_cnt reached its limit; deep: below travel_depth;         *)
(* lost: its message went away with a process or a failed call.             *)
Fates == {"gaveup", "deep", "lost"}

PC == {"recv", "fetch", "resend", "list", "save", "insert", "scan", "lock",
       "check", "write", "unlock", "send", "exit", "failed", "dead"}

Ended == {"exit", "failed", "dead"}

Holding == {"fetch", "resend"}          \* its message is not yet served
Linking == {"unlock", "send"}           \* its href is recorded, not yet sent
InLock  == {"check", "write", "unlock"} \* it is between lock and unlock

Init ==
  /\ IpcInit(<<Msg(Seed, 1, 0)>>)
  /\ pc = [w \in Workers |-> "recv"]
  /\ cur = [w \in Workers |-> Idle]
  /\ todo = [w \in Workers |-> <<>>]
  /\ href = [w \in Workers |-> EMPTY]
  /\ fp = [w \in Workers |-> FALSE]
  /\ fetched = [u \in Urls |-> 0]
  /\ fate = [u \in Urls |-> {}]
  /\ files = {}
  /\ tasks = {}

-----------------------------------------------------------------------------
Goto(w, to) == pc' = [pc EXCEPT ![w] = to]

(* The process ends and its memory with it. *)
End(w, how) ==
  /\ Goto(w, how)
  /\ cur' = [cur EXCEPT ![w] = Idle]
  /\ todo' = [todo EXCEPT ![w] = <<>>]
  /\ href' = [href EXCEPT ![w] = EMPTY]

PutAside(S, why) ==
  fate' = [u \in Urls |-> IF u \in S THEN fate[u] \union {why} ELSE fate[u]]

(* Slip: >= for >. *)
TooDeep_Eq(m) == "icontrol" \in Options /\ m.depth >= TravelDepth

TooDeep(m) == "icontrol" \in Options /\ m.depth > TravelDepth

Wanted(u) ==
  /\ "download" \in Options
  /\ "fileinvolve" \in Options => u \in FileListed

(* The head of the loop takes a message; one that was tried too often or    *)
(* lies too deep is dropped.                                                *)
RecvMsg(w) ==
  LET m == Head(queue)
  IN /\ pc[w] = "recv"
     /\ RecvUnixMsgQ
     /\ IF m.analyse_cnt >= MaxAnalyse \/ TooDeep(m)
        THEN /\ PutAside({m.url}, IF m.analyse_cnt >= MaxAnalyse
                                  THEN "gaveup" ELSE "deep")
             /\ UNCHANGED <<pc, cur>>
        ELSE /\ cur' = [cur EXCEPT ![w] = m]
             /\ Goto(w, "fetch")
             /\ UNCHANGED fate
     /\ UNCHANGED <<semval, semadj, donelist, todo, href, fp, fetched, files, tasks>>

(* No message for the interval: the loop ends, the process exits. *)
RecvTimeout(w) ==
  /\ pc[w] = "recv"
  /\ RecvTimedOut
  /\ End(w, "exit")
  /\ UNCHANGED <<semval, semadj, donelist, fp, fetched, fate, files, tasks>>

(* GetHtmlByUrl returns the page ... *)
FetchOk(w) ==
  LET u == cur[w].url
  IN /\ pc[w] = "fetch"
     /\ fetched' = [fetched EXCEPT ![u] = IF @ < FetchCap THEN @ + 1 ELSE @]
     /\ todo' = [todo EXCEPT ![w] = Hrefs[u]]
     /\ Goto(w, IF "shixin" \in Options THEN "list" ELSE "scan")
     /\ UNCHANGED <<ipcVars, cur, href, fp, fate, files, tasks>>

(* Slip: a failed try is not counted. *)
FetchFail_Uncounted(w) ==
  /\ pc[w] = "fetch"
  /\ "fetch" \in Faults
  /\ Goto(w, "resend")
  /\ UNCHANGED <<ipcVars, cur, todo, href, fp, fetched, fate, files, tasks>>

(* ... or an error: the message goes back to the queue, one try older. *)
FetchFail(w) ==
  /\ pc[w] = "fetch"
  /\ "fetch" \in Faults
  /\ cur' = [cur EXCEPT ![w].analyse_cnt = @ + 1]
  /\ Goto(w, "resend")
  /\ UNCHANGED <<ipcVars, todo, href, fp, fetched, fate, files, tasks>>

(* Slip: the message is dropped instead of sent back. *)
Resend_Dropped(w) ==
  /\ pc[w] = "resend"
  /\ cur' = [cur EXCEPT ![w] = Idle]
  /\ Goto(w, "recv")
  /\ UNCHANGED <<ipcVars, todo, href, fp, fetched, fate, files, tasks>>

Resend(w) ==
  /\ pc[w] = "resend"
  /\ SendUnixMsgQ(cur[w])
  /\ cur' = [cur EXCEPT ![w] = Idle]
  /\ Goto(w, "recv")
  /\ UNCHANGED <<semval, semadj, donelist, todo, href, fp, fetched, fate, files,
                 tasks>>

(* The result of the send is not looked at. *)
ResendFail(w) ==
  /\ pc[w] = "resend"
  /\ "send" \in Faults
  /\ PutAside({cur[w].url}, "lost")
  /\ cur' = [cur EXCEPT ![w] = Idle]
  /\ Goto(w, "recv")
  /\ UNCHANGED <<ipcVars, todo, href, fp, fetched, files, tasks>>

(* The list of pages, one log file per process, opened at its first page. *)
ListPage(w) ==
  /\ pc[w] = "list"
  /\ fp' = [fp EXCEPT ![w] = TRUE]
  /\ Goto(w, IF Wanted(cur[w].url) THEN "save" ELSE "scan")
  /\ UNCHANGED <<ipcVars, cur, todo, href, fetched, fate, files, tasks>>

(* return -1 in the middle of the loop: the process ends with its page. *)
OpenFail(w) ==
  /\ pc[w] = "list"
  /\ "fopen" \in Faults
  /\ ~ fp[w]
  /\ End(w, "failed")
  /\ UNCHANGED <<ipcVars, fp, fetched, fate, files, tasks>>

(* Slip: the task row is left out. *)
SaveFile_NoRow(w) ==
  /\ pc[w] = "save"
  /\ files' = files \union {cur[w].url}
  /\ Goto(w, "scan")
  /\ UNCHANGED <<ipcVars, cur, todo, href, fp, fetched, fate, tasks>>

(* WriteHtmlToFile; its result is not looked at. *)
SaveFile(w) ==
  /\ pc[w] = "save"
  /\ \/ files' = files \union {cur[w].url}
     \/ "file" \in Faults /\ UNCHANGED files
  /\ Goto(w, IF "fileinvolve" \in Options THEN "insert" ELSE "scan")
  /\ UNCHANGED <<ipcVars, cur, todo, href, fp, fetched, fate, tasks>>

(* Begin, insert, then commit or, when the insert failed, roll back. *)
InsertTask(w) ==
  /\ pc[w] = "insert"
  /\ \/ tasks' = tasks \union {cur[w].url}
     \/ "sql" \in Faults /\ UNCHANGED tasks
  /\ Goto(w, "scan")
  /\ UNCHANGED <<ipcVars, cur, todo, href, fp, fetched, fate, files>>

(* Slip: the verdict of the filters is not looked at. *)
NextLink_Unfiltered(w) ==
  /\ pc[w] = "scan"
  /\ todo[w] # <<>>
  /\ todo' = [todo EXCEPT ![w] = Tail(@)]
  /\ href' = [href EXCEPT ![w] = Head(todo[w]).href]
  /\ Goto(w, "lock")
  /\ UNCHANGED <<ipcVars, cur, fp, fetched, fate, files, tasks>>

(* The next link of the page; one the filters reject is passed over. *)
NextLink(w) ==
  /\ pc[w] = "scan"
  /\ todo[w] # <<>>
  /\ todo' = [todo EXCEPT ![w] = Tail(@)]
  /\ IF Head(todo[w]).iflag
     THEN /\ href' = [href EXCEPT ![w] = Head(todo[w]).href]
          /\ Goto(w, "lock")
     ELSE UNCHANGED <<href, pc>>
  /\ UNCHANGED <<ipcVars, cur, fp, fetched, fate, files, tasks>>

EndPage(w) ==
  /\ pc[w] = "scan"
  /\ todo[w] = <<>>
  /\ cur' = [cur EXCEPT ![w] = Idle]
  /\ Goto(w, "recv")
  /\ UNCHANGED <<ipcVars, todo, href, fp, fetched, fate, files, tasks>>

Lock(w) ==
  /\ pc[w] = "lock"
  /\ LockSharedMem(w)
  /\ Goto(w, "check")
  /\ UNCHANGED <<queue, donelist, cur, todo, href, fp, fetched, fate, files, tasks>>

(* return in the middle of the page: its other links are not looked at. *)
LockFail(w) ==
  /\ pc[w] = "lock"
  /\ "sem" \in Faults
  /\ End(w, "failed")
  /\ UNCHANGED <<ipcVars, fp, fetched, fate, files, tasks>>

(* Slip: the table is not searched. *)
CheckDone_Never(w) ==
  /\ pc[w] = "check"
  /\ Goto(w, "write")
  /\ UNCHANGED <<ipcVars, cur, todo, href, fp, fetched, fate, files, tasks>>

(* A URL found in the table is not sent: icontinue drops the link. *)
CheckDone(w) ==
  /\ pc[w] = "check"
  /\ IF href[w] \in Recorded
     THEN href' = [href EXCEPT ![w] = EMPTY] /\ Goto(w, "unlock")
     ELSE Goto(w, "write") /\ UNCHANGED href
  /\ UNCHANGED <<ipcVars, cur, todo, fp, fetched, fate, files, tasks>>

(* The URL goes into the first empty slot; with no empty slot the loop     *)
(* ends without a trace and the URL is sent all the same.                  *)
WriteDone(w) ==
  /\ pc[w] = "write"
  /\ \E i \in 0 .. UrlNum :
       /\ IsFirstFree(i)
       /\ donelist' = IF i \in Slots THEN [donelist EXCEPT ![i] = href[w]]
                                     ELSE donelist
  /\ Goto(w, "unlock")
  /\ UNCHANGED <<queue, semval, semadj, cur, todo, href, fp, fetched, fate, files,
                 tasks>>

Unlock(w) ==
  /\ pc[w] = "unlock"
  /\ UnlockSharedMem(w)
  /\ Goto(w, IF href[w] = EMPTY THEN "scan" ELSE "send")
  /\ UNCHANGED <<queue, donelist, cur, todo, href, fp, fetched, fate, files, tasks>>

(* Slip: the URL is recorded but not sent. *)
SendLink_Skipped(w) ==
  /\ pc[w] = "send"
  /\ href' = [href EXCEPT ![w] = EMPTY]
  /\ Goto(w, "scan")
  /\ UNCHANGED <<ipcVars, cur, todo, fp, fetched, fate, files, tasks>>

SendLink(w) ==
  /\ pc[w] = "send"
  /\ SendUnixMsgQ(Msg(href[w], cur[w].depth + 1, 0))
  /\ href' = [href EXCEPT ![w] = EMPTY]
  /\ Goto(w, "scan")
  /\ UNCHANGED <<semval, semadj, donelist, cur, todo, fp, fetched, fate, files,
                 tasks>>

SendLinkFail(w) ==
  /\ pc[w] = "send"
  /\ "send" \in Faults
  /\ PutAside({href[w]}, "lost")
  /\ href' = [href EXCEPT ![w] = EMPTY]
  /\ Goto(w, "scan")
  /\ UNCHANGED <<ipcVars, cur, todo, fp, fetched, files, tasks>>

(* The URLs that a worker alone knows to be still to do. *)
InHand(w) ==
  IF pc[w] \in Holding THEN {cur[w].url}
  ELSE IF pc[w] \in Linking THEN {href[w]} \ {EMPTY}
  ELSE {}

(* The process is killed: the kernel undoes its semaphore operations. *)
Crash(w) ==
  /\ w \in Crashable
  /\ pc[w] \notin Ended
  /\ SemUndo(w)
  /\ PutAside(InHand(w), "lost")
  /\ End(w, "dead")
  /\ UNCHANGED <<queue, donelist, fp, fetched, files, tasks>>

-----------------------------------------------------------------------------
(* What a worker does by itself, its calls' failures included. *)
Step(w) ==
  \/ RecvMsg(w) \/ RecvTimeout(w)
  \/ FetchOk(w) \/ FetchFail(w) \/ Resend(w) \/ ResendFail(w)
  \/ ListPage(w) \/ OpenFail(w) \/ SaveFile(w) \/ InsertTask(w)
  \/ NextLink(w) \/ EndPage(w)
  \/ Lock(w) \/ LockFail(w) \/ CheckDone(w) \/ WriteDone(w) \/ Unlock(w)
  \/ SendLink(w) \/ SendLinkFail(w)

AllEnded == \A w \in Workers : pc[w] \in Ended

(* All processes have ended, nothing is left to happen. *)
Finished == AllEnded /\ UNCHANGED vars

Next ==
  \/ \E w \in Workers : Step(w) \/ Crash(w)
  \/ Finished

Spec == Init /\ [][Next]_vars

(* The kernel runs every process that can run: a call that can return does, *)
(* a full queue that drains or a semaphore that is released lets a sleeping *)
(* caller through.  A kill is never owed.                                   *)
Fairness == \A w \in Workers : WF_vars(Step(w))

FairSpec == Spec /\ Fairness

-----------------------------------------------------------------------------
(* The types of the variables, in the ranges the code keeps them in.       *)
TypeOK ==
  /\ IpcTypeOK
  /\ pc \in [Workers -> PC]
  /\ cur \in [Workers -> Msgs \union {Idle}]
  /\ todo \in [Workers -> Seq(Links)]
  /\ href \in [Workers -> Urls \union {EMPTY}]
  /\ fp \in [Workers -> BOOLEAN]
  /\ fetched \in [Urls -> 0 .. FetchCap]
  /\ fate \in [Urls -> SUBSET Fates]
  /\ files \subseteq Urls
  /\ tasks \subseteq Urls

(* The semaphore is 1 exactly while one process is between LockSharedMem   *)
(* and UnlockSharedMem, it is never two, and the undo count the kernel     *)
(* keeps is right for each: so a kill at any point neither leaves the      *)
(* table locked nor unlocks it under another process.                      *)
LockHeld ==
  /\ \A w \in Workers : semadj[w] = IF pc[w] \in InLock THEN -1 ELSE 0
  /\ \A v, w \in Workers : pc[v] \in InLock /\ pc[w] \in InLock => v = w
  /\ semval = 1 <=> \E w \in Workers : pc[w] \in InLock

(* The dup check and the write under one lock: no URL is ever in two slots,*)
(* whatever processes find it at the same time.                            *)
NoDupSlots ==
  \A i, j \in Slots : donelist[i] = donelist[j] /\ donelist[i] # EMPTY => i = j

(* A URL somebody still has to serve. *)
InQueue(u) == \E i \in 1 .. Len(queue) : queue[i].url = u

Pending(u) == InQueue(u) \/ \E w \in Workers : u \in InHand(w)

Served(u) == fetched[u] > 0 \/ fate[u] # {}

(* The table holds claims, not results: a recorded URL that nobody fetched *)
(* is still in the queue or in the hands of a live process, or one of the  *)
(* named reasons took it away.  Nothing falls between the unlock and the   *)
(* send, or between a failed fetch and its retry.                          *)
NoUrlForgotten == \A u \in Recorded \union {Seed} : Pending(u) \/ Served(u)

HasRoom == \E i \in Slots : donelist[i] = EMPTY

(* As long as the table never filled up, the lookup keeps every page from  *)
(* being fetched twice; the seed alone, which main.c sends without         *)
(* recording it, may be fetched once more when a page links to it.         *)
FetchOnce ==
  HasRoom => \A u \in Urls : fetched[u] <= IF u = Seed THEN 2 ELSE 1

LinksOf(u) == {Hrefs[u][i].href : i \in {j \in DOMAIN Hrefs[u] : Hrefs[u][j].iflag}}

(* Pages[n]: what a walk of n - 1 accepted links from the seed can reach. *)
Pages[n \in Nat] ==
  IF n = 0 THEN {}
  ELSE IF n = 1 THEN {Seed} ELSE UNION {LinksOf(u) : u \in Pages[n - 1]}

InRange == UNION {Pages[n] : n \in 1 .. TravelDepth}
Reachable == UNION {Pages[n] : n \in 1 .. Cardinality(Urls)}

(* The depth a message carries is the length of a real walk to its URL,    *)
(* through retries and hand-overs, so travel_depth bounds the crawl, and    *)
(* what is dropped as too deep lies exactly one link below the bound.      *)
WithinDepth ==
  /\ \A i \in 1 .. Len(queue) : queue[i].url \in Pages[queue[i].depth]
  /\ "icontrol" \in Options =>
       \A u \in Urls : /\ fetched[u] > 0 => u \in InRange
                       /\ "deep" \in fate[u] => u \in Pages[TravelDepth + 1]

CleanStop ==
  /\ \A w \in Workers : pc[w] = "exit"
  /\ "send" \notin Faults

(* When every process left through the timeout, no message is left in the  *)
(* queue, every recorded URL has been dealt with, and every page fetched   *)
(* has had all its accepted links recorded: no process gave up waiting     *)
(* while work for it could still come.  With no page given up or left out  *)
(* for its depth, the whole site that the seed leads to was fetched.       *)
CrawlComplete ==
  CleanStop =>
    /\ queue = <<>>
    /\ \A u \in Recorded \union {Seed} : Served(u)
    /\ HasRoom => \A u \in Urls : fetched[u] > 0 => LinksOf(u) \subseteq Recorded
    /\ HasRoom /\ (\A u \in Urls : fate[u] = {})
         => \A u \in Reachable : fetched[u] > 0

(* Every page within travel_depth links of the seed is fetched. *)
DepthComplete ==
  CleanStop /\ HasRoom /\ (\A u \in Urls : fate[u] \subseteq {"deep"})
    => \A u \in InRange : fetched[u] > 0

(* A task row is written only for a page that was fetched and saved, and   *)
(* when no call fails and no process dies every wanted page has one.       *)
RowsMatchPages ==
  /\ \A u \in tasks : fetched[u] > 0 /\ Wanted(u) /\ (u \in files \/ "file" \in Faults)
  /\ CleanStop /\ "fileinvolve" \in Options /\ "shixin" \in Options
       /\ Faults \intersect {"file", "sql"} = {}
     => \A u \in Urls : fetched[u] > 0 /\ Wanted(u) => u \in tasks /\ u \in files

(* The processes are not all asleep in msgsnd on a full queue: the senders *)
(* are also the only receivers, so nobody would ever wake them.            *)
NoSendDeadlock ==
  \E w \in Workers : pc[w] \in {"send", "resend"} => Len(queue) < QueueCap

(* Every process comes to its end. *)
Termination == <>AllEnded

(* A process that waits for the table gets it, even when the one that has  *)
(* it is killed.                                                           *)
LockGranted == \A w \in Workers : pc[w] = "lock" ~> pc[w] # "lock"

=============================================================================
