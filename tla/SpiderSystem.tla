----------------------------- MODULE SpiderSystem -----------------------------
(***************************************************************************)
(* A crawl from the command line to its end: main() of src/src/main.c in   *)
(* the MULTI_PROC build, together with the worker processes it forks.      *)
(* The queue, the semaphore and the table outlive every process, so a run  *)
(* starts from what the run before it, stopped or killed at any point, has *)
(* left there.  Worker identities are process slots: a slot whose process  *)
(* has ended is free for the next fork.                                    *)
(***************************************************************************)
EXTENDS SpiderWorkers

CONSTANTS NumProc,     \* proc_num of the command line
          Resume,      \* the 100 of "icnt > 100" and "i <= 100"
          Runs,        \* bound: how often the program is started
          MainFaults,  \* "fork", "db", "send": calls of main.c that may fail;
                       \* "kill": main.c may be killed
          Overlap      \* a run may be started while old workers still live

MainFaultNames == {"fork", "db", "send", "kill"}

ASSUME SystemAssumption ==
  /\ NumProc \in Nat \ {0}
  /\ Resume \in Nat \ {0}
  /\ Runs \in Nat \ {0}
  /\ MainFaults \subseteq MainFaultNames
  /\ Overlap \in BOOLEAN

VARIABLES mpc,       \* where main is
          num,       \* processes still to be waited for, less the viewer
          icnt,      \* slots in use when the run started
          next,      \* loop index of the resume and of the fork loop
          kids,      \* children forked and not yet waited for
          viewer,    \* the child that lists the table once
          reported,  \* the number of slots in use last reported
          resumed,   \* this run went on with the old table
          starts,    \* runs so far
          mainSent   \* history: the URLs of this crawl that main sent itself

mainVars == <<mpc, num, icnt, next, kids, viewer, reported, resumed, starts, mainSent>>
sysVars == <<vars, mainVars>>

MPC == {"off", "clearq", "count", "wipe", "resume", "unrecord", "seed", "fork",
        "connect", "monitor", "end", "left"}

(* main is not running: never started, through, or gone before its children. *)
Down == {"off", "end", "left"}

SysInit ==
  /\ IpcInit(<<>>)
  /\ pc = [w \in Workers |-> "exit"]
  /\ cur = [w \in Workers |-> Idle]
  /\ todo = [w \in Workers |-> <<>>]
  /\ href = [w \in Workers |-> EMPTY]
  /\ fp = [w \in Workers |-> FALSE]
  /\ fetched = [u \in Urls |-> 0]
  /\ fate = [u \in Urls |-> {}]
  /\ files = {}
  /\ tasks = {}
  /\ mpc = "off"
  /\ num = 0
  /\ icnt = 0
  /\ next = 0
  /\ kids = {}
  /\ viewer = "none"
  /\ reported = 0
  /\ resumed = FALSE
  /\ starts = 0
  /\ mainSent = {}

InUse == {i \in Slots : donelist[i] # EMPTY}

-----------------------------------------------------------------------------
(* "clear": the operator has the whole table wiped, without the lock, before *)
(* a crawl is started.  A new crawl begins, and with it its URLs' history.   *)
Clear ==
  /\ mpc \in Down
  /\ starts < Runs
  /\ Overlap \/ AllEnded
  /\ donelist' = [i \in Slots |-> EMPTY]
  /\ fetched' = [u \in Urls |-> 0]
  /\ fate' = [u \in Urls |-> {}]
  /\ mainSent' = {}
  /\ mpc' = "off"
  /\ UNCHANGED <<queue, semval, semadj, pc, cur, todo, href, fp, files, tasks, num,
                 icnt, next, kids, viewer, reported, resumed, starts>>

(* The program is started; it leaves its terminal and goes on by itself. *)
Start ==
  /\ mpc \in Down
  /\ starts < Runs
  /\ Overlap \/ AllEnded
  /\ mpc' = "clearq"
  /\ starts' = starts + 1
  /\ num' = NumProc
  /\ UNCHANGED <<vars, icnt, next, kids, viewer, reported, resumed, mainSent>>

(* Whatever the last run left in the queue is thrown away. *)
MainClearQueue ==
  /\ mpc = "clearq"
  /\ ClearQueue
  /\ PutAside({queue[i].url : i \in DOMAIN queue}, "lost")
  /\ mpc' = "count"
  /\ UNCHANGED <<semval, semadj, donelist, pc, cur, todo, href, fp, fetched, files,
                 tasks, num, icnt, next, kids, viewer, reported, resumed, starts, mainSent>>

(* The table decides: more than Resume URLs of the site, and the crawl goes *)
(* on; otherwise it starts afresh.                                          *)
Count ==
  LET goOn == Cardinality(InUse) > Resume /\ donelist[0] # EMPTY /\ "shixin" \in Options
  IN /\ mpc = "count"
     /\ icnt' = Cardinality(InUse)
     /\ resumed' = goOn
     /\ next' = 1
     /\ mpc' = IF goOn THEN "resume" ELSE "wipe"
     /\ UNCHANGED <<vars, num, kids, viewer, reported, starts, mainSent>>

(* memset of the whole table, without the lock: a new crawl begins.         *)
Wipe ==
  /\ mpc = "wipe"
  /\ donelist' = [i \in Slots |-> EMPTY]
  /\ fetched' = [u \in Urls |-> 0]
  /\ fate' = [u \in Urls |-> {}]
  /\ mainSent' = {}
  /\ mpc' = "seed"
  /\ UNCHANGED <<queue, semval, semadj, pc, cur, todo, href, fp, files, tasks, num,
                 icnt, next, kids, viewer, reported, resumed, starts>>

(* The result of the send is not looked at, here and in the resume. *)
SeedCrawl ==
  /\ mpc = "seed"
  /\ \/ SendUnixMsgQ(Msg(Seed, 1, 0))
     \/ "send" \in MainFaults /\ UNCHANGED queue
  /\ mainSent' = {Seed}
  /\ next' = 0
  /\ mpc' = "fork"
  /\ UNCHANGED <<semval, semadj, donelist, workerVars, num, icnt, kids, viewer,
                 reported, resumed, starts>>

(* The last Resume URLs are sent again, newest first, and their history    *)
(* starts again ...                                                        *)
ResumeSend ==
  LET u == donelist[icnt - next]
  IN /\ mpc = "resume"
     /\ next <= Resume
     /\ IF u = EMPTY
        THEN /\ UNCHANGED <<queue, mpc>>
             /\ next' = next + 1
             /\ UNCHANGED <<fetched, fate, mainSent>>
        ELSE /\ \/ SendUnixMsgQ(Msg(u, 1, 0)) /\ fate' = [fate EXCEPT ![u] = {}]
                \/ /\ "send" \in MainFaults
                   /\ UNCHANGED queue
                   /\ fate' = [fate EXCEPT ![u] = {"lost"}]
             /\ mpc' = "unrecord"
             /\ fetched' = [fetched EXCEPT ![u] = 0]
             /\ mainSent' = mainSent \union {u}
             /\ UNCHANGED next
     /\ UNCHANGED <<semval, semadj, donelist, pc, cur, todo, href, fp, files, tasks,
                    num, icnt, kids, viewer, reported, resumed, starts>>

(* Slip: the slots are cleared from the front. *)
ResumeUnrecord_Front ==
  /\ mpc = "unrecord"
  /\ donelist' = [donelist EXCEPT ![next - 1] = EMPTY]
  /\ next' = next + 1
  /\ mpc' = "resume"
  /\ UNCHANGED <<queue, semval, semadj, workerVars, num, icnt, kids, viewer,
                 reported, resumed, starts, mainSent>>

(* ... and each is taken out of the table again, without the lock. *)
ResumeUnrecord ==
  /\ mpc = "unrecord"
  /\ donelist' = [donelist EXCEPT ![icnt - next] = EMPTY]
  /\ next' = next + 1
  /\ mpc' = "resume"
  /\ UNCHANGED <<queue, semval, semadj, workerVars, num, icnt, kids, viewer,
                 reported, resumed, starts, mainSent>>

ResumeDone ==
  /\ mpc = "resume"
  /\ next > Resume
  /\ next' = 0
  /\ mpc' = "fork"
  /\ UNCHANGED <<vars, num, icnt, kids, viewer, reported, resumed, starts, mainSent>>

(* A worker is forked into a free process slot; a fork that fails is logged *)
(* and counts all the same.                                                 *)
ForkWorker ==
  /\ mpc = "fork"
  /\ next < NumProc
  /\ \/ \E w \in Workers \ kids :
          /\ pc[w] \in Ended
          /\ pc' = [pc EXCEPT ![w] = "recv"]
          /\ fp' = [fp EXCEPT ![w] = FALSE]
          /\ kids' = kids \union {w}
     \/ "fork" \in MainFaults /\ UNCHANGED <<pc, fp, kids>>
  /\ next' = next + 1
  /\ UNCHANGED <<ipcVars, cur, todo, href, fetched, fate, files, tasks, mpc, num,
                 icnt, viewer, reported, resumed, starts, mainSent>>

ForkViewer ==
  /\ mpc = "fork"
  /\ next = NumProc
  /\ viewer' \in {"run"} \union (IF "fork" \in MainFaults THEN {"none"} ELSE {})
  /\ mpc' = "connect"
  /\ UNCHANGED <<vars, num, icnt, next, kids, reported, resumed, starts, mainSent>>

ViewerExit ==
  /\ viewer = "run"
  /\ viewer' = "zombie"
  /\ UNCHANGED <<vars, mpc, num, icnt, next, kids, reported, resumed, starts, mainSent>>

(* Without its database main returns, and leaves its children to themselves. *)
Connect ==
  /\ mpc = "connect"
  /\ \/ mpc' = "monitor" /\ UNCHANGED <<kids, viewer>>
     \/ "db" \in MainFaults /\ mpc' = "left" /\ kids' = {} /\ viewer' = "none"
  /\ UNCHANGED <<vars, num, icnt, next, reported, resumed, starts, mainSent>>

Zombies == {w \in kids : pc[w] \in Ended}

(* Slip: the same child is counted again. *)
Reap_Again ==
  /\ mpc = "monitor"
  /\ Zombies # {} \/ viewer = "zombie"
  /\ num' = num - 1
  /\ UNCHANGED <<vars, mpc, icnt, next, kids, viewer, reported, resumed, starts, mainSent>>

(* waitpid with WNOHANG, as long as it finds an ended child. *)
Reap ==
  /\ mpc = "monitor"
  /\ \/ \E w \in Zombies : kids' = kids \ {w} /\ UNCHANGED viewer
     \/ viewer = "zombie" /\ viewer' = "none" /\ UNCHANGED kids
  /\ num' = num - 1
  /\ UNCHANGED <<vars, mpc, icnt, next, reported, resumed, starts, mainSent>>

(* Slips: the loop ends when num is 0, with a child to go; it never ends. *)
Report_Early ==
  /\ mpc = "monitor"
  /\ Zombies = {} /\ viewer # "zombie"
  /\ reported' = Cardinality(InUse)
  /\ mpc' = IF num > 0 THEN "monitor" ELSE "end"
  /\ UNCHANGED <<vars, num, icnt, next, kids, viewer, resumed, starts, mainSent>>

Report_Forever ==
  /\ mpc = "monitor"
  /\ Zombies = {} /\ viewer # "zombie"
  /\ reported' = Cardinality(InUse)
  /\ mpc' = IF num >= -1 THEN "monitor" ELSE "end"
  /\ UNCHANGED <<vars, num, icnt, next, kids, viewer, resumed, starts, mainSent>>

(* With none left it counts the slots in use, reports, sleeps and, while    *)
(* num >= 0, starts over.                                                   *)
Report ==
  /\ mpc = "monitor"
  /\ Zombies = {} /\ viewer # "zombie"
  /\ reported' = Cardinality(InUse)
  /\ mpc' = IF num >= 0 THEN "monitor" ELSE "end"
  /\ UNCHANGED <<vars, num, icnt, next, kids, viewer, resumed, starts, mainSent>>

KillMain ==
  /\ "kill" \in MainFaults
  /\ mpc \notin Down
  /\ mpc' = "left"
  /\ kids' = {}
  /\ viewer' = "none"
  /\ UNCHANGED <<vars, num, icnt, next, reported, resumed, starts, mainSent>>

-----------------------------------------------------------------------------
MainStep ==
  \/ MainClearQueue \/ Count \/ Wipe \/ SeedCrawl
  \/ ResumeSend \/ ResumeUnrecord \/ ResumeDone
  \/ ForkWorker \/ ForkViewer \/ Connect \/ Reap \/ Report

SysFinished == mpc \in Down /\ AllEnded /\ UNCHANGED sysVars

SysNext ==
  \/ Clear \/ Start \/ MainStep \/ KillMain \/ ViewerExit
  \/ \E w \in Workers : (Step(w) \/ Crash(w)) /\ UNCHANGED mainVars
  \/ SysFinished

SysSpec == SysInit /\ [][SysNext]_sysVars

(* Every process that can run does; nobody owes a start, a kill or a crash. *)
SysFairness ==
  /\ WF_sysVars(MainStep)
  /\ WF_sysVars(ViewerExit)
  /\ \A w \in Workers : WF_sysVars(Step(w) /\ UNCHANGED mainVars)

SysFairSpec == SysSpec /\ SysFairness

-----------------------------------------------------------------------------
SysTypeOK ==
  /\ TypeOK
  /\ mpc \in MPC
  /\ num \in -1 .. NumProc
  /\ icnt \in 0 .. UrlNum
  /\ next \in 0 .. (IF Resume < NumProc THEN NumProc ELSE Resume) + 1
  /\ kids \subseteq Workers
  /\ viewer \in {"none", "run", "zombie"}
  /\ reported \in 0 .. UrlNum
  /\ resumed \in BOOLEAN
  /\ starts \in 0 .. Runs
  /\ mainSent \subseteq Urls

(* The slots in use are the first ones: the resume counts on it when it     *)
(* takes the last ones from the number of them.                             *)
PrefixPacked == \A i, j \in Slots : i < j /\ donelist[j] # EMPTY => donelist[i] # EMPTY

(* main does not come to its end before every child it forked has ended and *)
(* been waited for, the viewer that num does not count included, and its    *)
(* last report is then the final count.                                     *)
EndsLast ==
  mpc = "end" => kids = {} /\ viewer = "none" /\ AllEnded /\ reported = Cardinality(InUse)

(* Across a clean end, a kill of main, a crash of workers and a restart: a  *)
(* URL in the table is still to be served, or was, or is known to be lost.  *)
TableAccounted == \A u \in Recorded : Pending(u) \/ Served(u)

TableLarger == IsFiniteSet(Urls) /\ Cardinality(Urls) < UrlNum

(* Within one crawl, restarts included, a page is fetched once for each     *)
(* claim on it: the one a slot of the table holds and, for the seed and for *)
(* what a resume took out of the table again, the one main sent unrecorded. *)
(* A page that links back to such a URL has it recorded and sent once more. *)
OncePerClaim ==
  TableLarger => \A u \in Urls : fetched[u] <= IF u \in mainSent THEN 2 ELSE 1

(* What a resume leaves in the table as complete has been fetched or given  *)
(* up.                                                                      *)
ResumedComplete ==
  resumed /\ mpc = "fork" =>
    \A u \in Recorded : fetched[u] > 0 \/ "gaveup" \in fate[u] \/ "deep" \in fate[u]

(* A run that was started and is not killed comes to its end. *)
MainEnds == mpc = "clearq" ~> mpc \in Down
=============================================================================
