# A verification of spider_shixin

spider_shixin is a web crawler in C for one court site.  The makefile builds the
`MULTI_PROC` variant: a supervisor (`src/src/main.c`) forks worker processes
(`src/src/spider.c`), and all of them work on one System V message queue (the todo
list), one shared memory table (the done list) and one semaphore (the table's lock),
through the calls of `src/src/common.c`.  The objects outlive the processes, so a crawl
that was stopped can be taken up again from the table.

This directory holds TLA+ modules of that system, TLC configurations that check
them on small sites, and proofs for every site, queue, table and number of
workers.

## 1. The system and what is hard about it

| Part | Code | State | Operations | Interacts through |
| --- | --- | --- | --- | --- |
| IPC primitives | `common.c` 405-600, `common.h` | queue, semaphore and its undo counts, table slots | `SendUnixMsgQ`, `IntervalRecvUnixMsgQ`, `ClearQueue`, `LockSharedMem`, `UnlockSharedMem`, `OpenSharedMem` | shared by every process |
| Worker | `spider.c` 403-693 | its current message, page, link, log file | receive, fetch, retry, list, save, insert row, scan links, lock, look up, record, unlock, send | IPC, network, files, database |
| Supervisor | `main.c` 53-400 | `num`, `icnt`, loop index, children | clear, start, count, wipe or resume, seed, fork, reap, report | IPC, fork/waitpid, progress row |
| List with cursors | `dlist.c` | nodes, count, eight cursors | new, add, del, clear, check, step, openStep, fetchStep, closeStep | COMMON build's todo and done lists |
| Single-process crawl | `spider.c` 697-862, 928-969 | two lists, cursors | one loop over the todo list | list module |
| Threaded crawl | `spider.c` 348-400, 864-926, 1735-1924 | two lists, threads | not built, does not compile | - |
| Fetch | `spider.c` 43-145 | one curl handle, options that stick, call counter | `GetHtmlByUrl` | network |
| Link extraction | `spider.c` 980-1275, 1929-1983 | page window (`llt`, `lgt`, a flag each) | `get_href`, `get_shixin_pagecondition` | page text, `etc/shixin.conf`, environment |
| Filters | `spider.c` 1303-1697 | tables of words, loaded from `etc/*.conf`, the global verdict `iflag` | `open_resource`, `checkurl`, `checkfilter`, `checkinvolve`, `checkfilelist` | files, database |
| Rows | `db.ec` | `court_shixin_task` | begin, insert, commit, rollback | database |
| Progress | `db_schedule.ec` | one row for all ten shards | `RefreshProgress` | database, ten supervisors |
| Scripts | `batch*.sh`, `ipcsrm.sh` | environment of ten shards | clear, start | command line |
| Rest | `debuglog.c`, string helpers, `spider_niwodai.c`, `test.c`, generated `db*.c` | - | - | - |

What makes it hard, and what each part owes:

- **Workers** run concurrently on one table and one queue.  Two may find the same
  URL at once; a claim (the slot) is written before the message is sent and the
  message is sent before the page is fetched; a fetch may fail and its message go back
  to the queue; a worker may break off (`fopen`, `semop`) or be killed at any
  point, in the critical section too; it gives up when the queue was empty for
  180 s.  Owed: one claim per URL, no page fetched twice, no claim that nobody
  answers for, the depth bound, the lock free after any death, an end for everybody, and
  at that end a complete crawl.
- **The queue** is bounded, its readers are its writers.  Owed: somebody can go on.
- **The supervisor** rebuilds a crawl from the table by index arithmetic, counts
  children of two kinds with one counter, and writes the table without the lock.  Owed: the
  table stays packed from the front, the loop ends exactly when the last child has ended,
  a restart loses nothing that the table still claims.
- **The list** lets cursors stay open while nodes are added and deleted.  Owed: no
  cursor on a freed node, each surviving node seen once.
- **The single-process crawl** works through such a list in buffers that keep what the page before left in
  them.  Owed: each page asked for once, the depth of its own walk, listed by its own text.
- **A shard** is the pages between two bounds that a script exports.  Each process loads bounds
  and filters for itself, sends its own way into the window and keeps one curl handle on which
  options stick; a file that one process cannot open leaves it without bounds or filters among others that
  have them, and nobody looks at the result of a send.  Owed: no page outside its processes' windows, every
  page of the shard that was not given up or lost, the page that was asked for, nothing that the filters
  refuse, no handle leaked or worn out.
- **The progress row** is read and rewritten by several supervisors, from counts of tables that fill and
  are cleared meanwhile.  Owed: never ahead of the tables, the last claims counted, free after any failure.

`PROJECT.json` lists these hazards one by one with their lines.

## 2. The modules

    SpiderIpc            the shared objects and the calls on them
      SpiderWorkers      the worker loop: one action per call, kills and failing calls
        SpiderCrawl      INSTANCE Crawl: the workers implement the abstract crawl
          SpiderCrawlProofs      the lock, the table, the refinement
            SpiderPagesProofs    what is fetched: once, not too deep, with its row, and all of it
          MCSpiderCrawl  sites and constants for TLC
        SpiderSystem     main.c around the workers, over several runs
          SpiderSystemProofs     EXTENDS SpiderPagesProofs too
          MCSpiderSystem
    PageWindow           the bounds of a shard, and the windows of the scripts
    CurlHandle           one curl handle per process, with what stays set on it
      SpiderShard        EXTENDS both: one shard with its filters, window and handles
        SpiderShardProofs
        MCSpiderShard
    Progress             several supervisors and their one row
      ProgressProofs
      MCProgress
    CursorList           a sequence of keys with cursors: what the list promises
    DList                dlist.c node by node; INSTANCE CursorList: the nodes implement it
      DListProofs
      MCDList
    SpiderCommon         INSTANCE CursorList, twice, and Crawl: the COMMON build
      SpiderCommonProofs
      MCSpiderCommon
    Crawl                todo, done, dropped: what a crawl promises
    Recursion            induction and recursion over the naturals, for the proofs

**SpiderIpc.** `queue` is the message queue, `donelist` the slots of the shared
table, `semval` semaphore 0, `semadj` the kernel's undo count of each process.
Each operator is the effect of one call of `common.c`.  `LockSharedMem` is the
one `semop` of two operations (wait for 0, add 1), atomic by the kernel;
`UnlockSharedMem` keeps the code's odd side, that unlocking a free semaphore fails
and reports success.  `SemUndo` (external) is what the kernel does when a process ends.

**SpiderWorkers.** `pc[w]` is the place in the loop; an action is the code between two
points at which another process, a failure or a kill can be noticed.  `cur` is
the message being served (`url`, `depth`, `analyse_cnt`), `todo` the rest of
the page's links, `href` the link in work, `fp` the log file being open.  A link is
a record of its URL and the filters' verdict, because `checkinvolve`, `checkfilter`
and `checkurl` look at the link alone.  The modes the environment and the
arguments switch on are the set `Options`; the calls that may fail are the set
`Faults`.  `fetched` and `fate` are history: how often a page came back, and why
a URL was put aside without a page (given up after its tries, too deep, lost with a
process or with a failed send).  No guard reads them.

| Action | Code |
| --- | --- |
| `RecvMsg`, `RecvTimeout` | 428-482: take a message, drop it when `analyse_cnt` or `depth` is over the limit, leave the loop on the timeout |
| `FetchOk`, `FetchFail` | 493-502: `GetHtmlByUrl` |
| `Resend`, `ResendFail` | 498-502: back to the queue, one try older; the result is ignored |
| `ListPage`, `OpenFail` | 506-524: log file, `return -1` when it cannot be opened |
| `SaveFile`, `InsertTask` | 525-568: page on disk, row with commit or rollback |
| `NextLink`, `EndPage` | 574-688: the scan of the page and the filters |
| `Lock`, `LockFail`, `CheckDone`, `WriteDone`, `Unlock` | 634-668: the critical section |
| `SendLink`, `SendLinkFail` | 670-677: after the unlock, without the lock |
| `Crash` | a kill: memory gone, semaphore undone |

**Crawl** is the abstract specification, the algorithm told by the comment above
`spider()`: `todo`, `done`, `dropped`, and the steps Discover, Serve and Drop.
**SpiderCrawl** gives the refinement mapping: done is what some process
fetched, dropped what was put aside before that, todo what is neither and has a
message in the queue or in a live process's hands.  A URL that was dropped may
still be served later, because a full table forgets it and lets it be sent again.

**SpiderSystem** adds `main()`: `mpc` is its place, `num`, `icnt` and `next` (the loop
indices) its variables, `kids` and `viewer` the children not yet waited for.
Worker identities are process slots, free again when their process has ended.
`Clear` is the program started as `spider seedurl clear`'s short form (`argc == 2`);
`Start` the start of a crawl.  `starts` (at most `Runs`) bounds how often.  `Overlap` says whether a
start may find workers of an earlier run alive, which `batch.sh` and a supervisor without a
database allow.  A wipe begins a new crawl, so it clears the history
variables; a resume clears those of the URLs it sends again.  `mainSent` is history too: the URLs
that main put on the queue itself, the seed and those a resume took out of the table.  Such a URL is
on its way without a claim, so a page that links back to it has it recorded and sent a second time;
`OncePerClaim` counts that, and the run's site has such a link.

**DList.** `n`, `f` and `userData` are the fields of the nodes, `live` the nodes that
are allocated, `head` and `cnt` the list's, `useF` and `use` its cursors.  `malloc` takes any
node that is not live, and a freed node keeps its contents, as a dangling pointer
would find them.  `Reach(x)` is where `p = p->n` comes to from x, `Found` where the loop with
`strcmp` stops.  `Add`, `Del`, `OpenStep`, `FetchStep` and `CloseStep` are one call
each; `Clear(q)` is the whole of `DList_clear` up to the node q whose callback
refuses.  `DList_step` and `DList_step2` call back for each node, and the callback may use the
list, a further walk included: `frames` is the stack of walks in progress, `StepCall` a
call up to its first callback, `StepNext` and `StepError` the return of a callback,
and any other action may come between.  A callback given to add, del or clear
(`addFunc`, `delFunc`, `clearFunc`) only refuses or agrees; a duplicate, a refusal and a `malloc`
that fails change nothing and are no action.

**CursorList** is the abstract list: `items`, the keys, newest first; `rest[i]`, the keys cursor
i still owes.  `Forget` takes keys from both, `Add` adds to `items` only.  The end of **DList** maps
the nodes to it: `itemsBar` are the keys along `n` from the head, `restBar[i]` those from the
cursor's node (`Walk`).

**SpiderCommon** is the single-process variant (`-DCOMMON`, commented out in the makefile), its
two lists instances of `CursorList`.  `pc` is the place in the loop; `url`, `urlcontent`, `depth` and
`hrefs` are the page in work, or what is left of it; `depths` and `texts` are the depth and the `userContent` of the
todo list's nodes, `doneTexts` the `userContent` of the done list's; `lines` and `files` are the list file and the
saved pages; `tries`, `fetched` and `deep` are history.  A link has a text of `Texts` or `NoText`, and
`Wanted` is `checkfilelist` on the text in hand and the URL.  That text need not be the page's:
`DList_fetchStep` copies a text only when the node has one, so what `urlcontent` holds stays.  Every way to the next node
clears it but one, the `continue` after a failed fetch (734-738).  The next page, when it was found by a link without a
text, is then recorded in the done list with the failed page's text and listed, or not, by that.  The model has this
carried text; in the run an unwanted page does get listed by it, and `ReportRight` says how far it goes.

| Action | Code |
| --- | --- |
| `Start`, `StartFail` | 325-345: the seed is fetched once to try it, then listed |
| `OpenPass`, `FetchStep`, `ClosePass` | 699-708, 858-861 and `dlist.c` 249-270: a walk with the cursor; the buffers are cleared when it begins |
| `DropPage` | 712-730: too deep, or in the done list: deleted, walk broken off |
| `MarkDone`, `FetchOk`, `FetchFail` | 721-740: recorded first, with the text in hand, then fetched; a failure goes on with the walk and leaves the text |
| `ListPage`, `OpenFail` | 741-783: the shixin crawl's list file; the page leaves the todo list |
| `NextLink` with `NewNode`, `EndPage` | 785-857: the scan of the page, after which the buffers are cleared |
| `OpenReport`, `ReportFail`, `ReportPage`, `EndReport` | 928-968: the list file opened anew, the done list written out |

It implements `Crawl` as the workers do: done is what was fetched, dropped what failed or lay
too deep.  So the two builds are shown to keep one promise.

**PageWindow** is pure: a window is the record of `llt` and `lgt`, 0 for a bound that is not
set.  `Conditions` is where a process gets it from (`get_shixin_pagecondition`: a file that is there hides the
environment of the process, and one that this process cannot open leaves it without bounds), `Outside` the three tests of `get_href`, `Entry` the page that
takes the place of the first link out of the window.  `Inside` says the same as the
tests should: a proof shows that each is the other's negation.  `BatchWindow`, `UnitWindow` and `PersonWindow` are the exports of the three scripts.

**CurlHandle** is `GetHtmlByUrl`.  A URL is its text before `POSTTYPE` and the page number behind
it.  `Call` is the function up to the request: the handle is renewed when `totalcnt%100` is 0,
a URL with a page number sets the body, one without leaves what is there.  `Answers` (external)
is what may come back; a body set by an earlier call lies in a stack frame that is gone, so the plain
URL of a list may be answered by its first page or by the page of the old body.  `handles` counts what a process
has made and not cleaned up; `served` is history.

**SpiderShard** puts several processes on one shard: `env` and `file` are what the environment and `etc/shixin.conf`
set for all of them, `window[p]` the bounds that process p found there for itself, `lists` its six tables of words, `flag`
the way into the window being sent, `iflag` the global verdict.  `recorded` is the shared table of `UrlNum` slots.  A
lookup with its claim and its send is one step here; SpiderWorkers takes them apart.  `Send` is
`SendUnixMsgQ` as the code uses it: it may fail (`"send"`), and the message is then gone without anybody noticing, for a
retry and for a new link alike; `lost` remembers the URL, as `dropped` does one given up after its tries.  Both are history.

| Action | Code |
| --- | --- |
| `OpenNothing`, `OpenNoMemory`, `OpenAll` with `LoadPath` | 1303-1571: `open_resource`, its early returns, its `exit`, and the files one by one, each of which may be missing |
| `EnterLoop`, in `OpenNothing` and `OpenAll` | 403-425: this process's own window, and the shared table, without which it ends |
| `RecvMsg`, `RecvFail`, `Retry` | 428-502, with `Call`, `CallFail` and `PerformFail`; a receive ends the loop by its timeout or by an error |
| `TakePage` | 503-570: the page came back; a list file that cannot be opened ends the process (`NoList`), saving a page whose URL has no `id=` kills it (`NoName`) |
| `ScanAnchor`, `EndPage` | 574-688: `GetHref`, `Verdict` (`CheckInvolve`, `CheckFilter`), `Refused`, lookup, `Claim` (a slot if one is free, and the send in any case), `FlagAfter` |
| `LockFail` | 634-639: the table cannot be locked, the process returns from the middle of the page |

`GetHref` tells the forms of an `href` apart (`Kinds`); `Text` is what the filters see of a link, nothing for `#`, `id=` and
`gotoPage`, because `get_href` returns before it copies the text.  `Paged` says what a site must be for
`ShardCovered`: each page of the particular list has a pager with its neighbours, no other page has one, the
filters let the list pass.  The run's site is such a one, which TLC evaluates (`SitePaged`).

**Progress** is the end of `main()` once for each shard, with `RefreshProgress`: reap, count table by table
(`CountTable`; the tables go on changing between), percentage, read, update, commit, sleep.
`lock` is the transaction that has the row.  A crawl is a table that fills until it is over, `Start` a script that
clears a table and starts its crawl while others count.  `wiped` and `final` are history.

Abstractions: URLs, pages and links are data of the constant `Hrefs`; time is not
modelled (the alarm may end a receive whenever the queue is empty); messages count,
not bytes; the ten shards are one in SpiderWorkers and SpiderSystem; a fetch is one atomic call there.
SpiderShard's queue has no limit (SpiderWorkers' has one) and its processes are not killed from outside.
SpiderWorkers leaves out that a page saved without `id=` kills its process, which SpiderShard has;
a kill may happen there anyway.  `Percent` divides exactly, the code in doubles, which may fall one
short at whole percentages; no property tells the two apart.

## 3. Runs

Sites (MC modules): *Diamond*: the seed lists a and b, a lists b too and the seed
again, one link is rejected.  *TwoWays*: a page two links from the seed by one way, three by another.  *Wide*: more
links on a page than the queue holds.  *Site* and *Pair*: three and two pages below
the seed, one of them listed twice.  *Knot*: six pages with cycles, walks of different length
to one page, a rejected link, and links with a text that is wanted, one that is not, or none.

| Run | Module / cfg | Checks | Bounds |
| --- | --- | --- | --- |
| clean | MCSpiderCrawl / Crawl_clean | `FetchOnce`, `CrawlComplete`, `RowsMatchPages`, `Termination`, `ImplementsFairCrawl` | 2 fair workers, 4 URLs, failing fetches, 2 tries, room for all |
| faults | MCSpiderCrawl / Crawl_faults | `TypeOK`, `LockHeld`, `NoUrlForgotten`, `WithinDepth`, `OnlyReachable`, `ImplementsCrawl` | the same site, every call may fail, both workers killable, table of 2, queue of 3, depth 3 |
| depth | MCSpiderCrawl / Crawl_depth | `DepthComplete` is violated | 2 workers, TwoWays, depth 3, no fault |
| fullqueue | MCSpiderCrawl / Crawl_fullqueue | `NoSendDeadlock` is violated | Wide, queue of 2 |
| restart | MCSpiderSystem / System_restart | `SysTypeOK`, `PrefixPacked`, `EndsLast`, `TableAccounted`, `OncePerClaim`, `MainEnds`, `LockGranted` | 2 fair runs, everything killable, sends and database may fail, resume of 1 |
| overlap | MCSpiderSystem / System_overlap | `NoDupSlots`, `TableAccounted` | 2 runs that may overlap, Pair, forks, sends and database may fail |
| fork | MCSpiderSystem / System_fork | `MainEnds` is violated | one worker whose fork may fail |
| complete | MCSpiderSystem / System_complete | `ResumedComplete` is violated | 2 runs, killable workers |
| dlist | MCDList / DList | `TypeOK`, `WellLinked`, `NoDangling`, `DistinctKeys`, `ImplementsList` | 3 nodes, 3 keys, 3 cursors, walks nested up to 3 deep |
| common | MCSpiderCommon / Common | `TypeOK`, `TriedOnce`, `WithinDepth`, `CrawlComplete`, `ReportRight`, `ImplementsCrawl`, `CommonEnds` | Knot, two texts, depth 3, every call may fail, all 16 modes |
| shard | MCSpiderShard / Shard | `HandleSound`, `InWindow`, `OwnPage`, `OnlyAccepted`, `ShardCovered` | 2 processes, a list of 3 pages, 3 other URLs, table of 2, renewal after 2, 2 tries, window ..2 (environment) or 2..3 (file), failing requests, handles, tables, shared table, `shixin.conf`, receives, sends, locks, list file, one filter file |
| progress | MCProgress / Progress | `RowRight`, `BackOnlyByOther`, `SupsEnd` | 2 supervisors, 2 tables of 2 claims, one table old, 3 claims make 100 percent, every fault |

Why the bounds are enough for what they show: two workers are all that a race on
one slot, one semaphore or the end of the queue takes; with two tries (`MaxAnalyse`
for the code's 5) a message can fail, come back and be given up; a table of 2 for 3
accepted URLs fills, one of 5 never does; a queue of 3 fills, one of 4 never
does; two runs are one restart; `Resume` 1 (for 100) leaves slots that are kept and
slots that are taken back.  `FetchCap` stops the history counter at 3,
above any value the properties tell apart.  In a list of three nodes a node is first, last, only or between two
others, and a cursor can stand on, before or behind the node that goes; the proofs take
over from there.  In the shard a list of three pages has a page inside, one outside and one on either bound of a window; renewal
after 2 (for 100) comes before, between and after failures; a table of 2 for four accepted URLs fills, so that some are sent without a slot; with two
processes one may have bounds and the other none, or one lose a message that the other's way would have needed.  Two supervisors are what a lost update takes; with
`TotalCnt` 3 and up to 4 claims the percentage passes 100.

### What the violated runs show

- **depth** - the usage line (`src/src/main.c:13`) promises a crawl bounded by
  `traveldepth`.  One worker takes the queue in order and finds shortest walks first;
  with two, the page may be recorded on the longer walk first, be dropped at line 477
  for its depth, and be hidden from the shorter walk by the lookup at line 645.
- **fullqueue** - `msgsnd` sleeps on a full queue and the workers are its only
  readers: when all of them are sending, `main` (`"waiting spider end"`, line 326)
  waits for ever.
- **fork** - `num` starts at the number asked for and is only lowered by `waitpid`; a
  fork that failed (line 292 logs it) is never reaped, so the loop never ends.
- **complete** - a slot is a claim, but lines 185 and 196 log what is in the table as "last
  complete"; what is further back than the last 100 and was never fetched stays that way.

The COMMON build shares the first of these in another form, which no run holds: a walk broken
off on a duplicate starts again at the newest and deepest pages, so with
`travel_depth` 5 and eight pages a page five deep can be missed.

What the run `common` shows beside its properties: after a failed fetch the COMMON build may list a page by the text of
another (see SpiderCommon above).  No document, comment or test says a word of it, so it is told here and bounded by
`ReportRight`, not recorded as a finding.

### Fairness

`Fairness` is weak fairness of each worker's own steps: the kernel schedules a
process that can run, a receive returns when a message is there or the alarm is
due, a fetch ends (curl's timeouts).  A sleeping `semop` or `msgsnd` is disabled
in the model; weak fairness suffices for `LockGranted` in these
instances because a page has finitely many links, so a competitor cannot
come back for ever.  `SysFairness` adds main's own steps and the viewer.  Nobody
owes a start, a kill or a failure.  `SpiderCommon` has weak fairness of its one thread.
`Progress` has it of each supervisor's steps and of each crawl's end; an update that waits for the row is disabled, and
weak fairness is enough because each other supervisor writes finitely often.

## 4. Proofs

For every value of the constants under the assumptions named in the modules:
`IpcAssumption` and `WorkersAssumption` (capacities positive, at least one worker, the page table a
function, the fault sets subsets of their names), `SystemAssumption`, `DListAssumption` (finitely many
nodes, NULL none of them, at least one key and one cursor), `CommonAssumption`, `CurlAssumption` and
`ShardAssumption` (at least one process, the windows lie in the list, the anchors are a function of the page,
a `gotoPage` has a number), `ProgressAssumption`.  Every invariant, action property and
refinement that a passing run checks is also a theorem; the inductive invariants were checked by TLC first.

**SpiderCrawlProofs.**  `Inv == TypeOK /\ HandsFull /\ LockHeld`.  `LockHeld` is needed for
typing: only it says that `semval` stays in 0..1 through an undo; `HandsFull` says that a worker past
the receive has a URL in hand, without which a record could be written from the idle
message.  From it `TypeCorrect`, `MutualExclusion` and, with `Checked` (a worker in `write` holds the lock
and has just not found its URL), `NeverTwice`.  Then `Refinement` (`Spec => ImplementsCrawl`), one lemma per
kind of step, `NothingForgotten` and `StaysOnSite`.

**SpiderPagesProofs.**  What is fetched.
- `DepthBound`: every message, queued or served, carries the length of a walk to its URL (`OnWalk`), also
  after a retry; so the test at 477 keeps what is fetched in range.
- `PagesOnce`: a fetch uses up a claim.  `Key` tells the two claims on a URL apart, the slot's and the one
  main made by sending it; `OneHolder` says that no claim has two messages in queue and hands together, and
  `Claimed` that a page was fetched at most once for each claim whose message is gone (`Budget`).  It needs
  `HasRoom`, because a full table forgets a URL and has it sent again.
- `RowsRight`: each wanted page that was fetched is on its way to the disk and the table
  (`Saving`), has its row, or a worker broke off.
- `CompleteAtEnd`: `Attended` (a message waits only while somebody is left to take it) and `LinksKept` (a link
  of a fetched page is recorded or still before the worker that fetched it).

**SpiderSystemProofs.**  `WorkInv` holds in every state, with workers of an older run alive or not: the
steps of main keep what the workers keep.  `MainInv` bounds the loop index and ties `num` to the children.
`AloneInv` (for `~ Overlap`) says which places of main find no worker alive, that the table is packed and, in
the resume, exactly how many slots are left.  `ClaimInv` carries the claims of `PagesOnce` over kills,
restarts and resumes; the old queue that a new run has yet to clear is its one exception.  `SysTypeCorrect`,
`NeverTwiceAcrossRuns` and `TableNeverLies` need no hypothesis, `SlotsPacked`, `MainEndsLast` and
`OncePerClaimHolds` need `~ Overlap`: with leftover workers the run `overlap` allows more.

**DListProofs.**  `Inv == TypeOK /\ WellLinked /\ NoDangling /\ DistinctKeys` is
inductive.  The pointer facts are `Neighbours` (n and f invert each other inside the list, only
the head has no predecessor); that every live node is reachable (`NoLeak`) is what rules out
cycles, a node that is its own successor or a second head among them (`NoCycle`), and so makes
the unlinking in `Del` and the cut in `Clear` right.  `Reach` is the least closed set,
so reachability needs no induction: a set is shown to be closed (`ReachIsLive`,
`WholeList`, `ReachBack`).  `NoDangling` needs `Neighbours`: a cursor is moved to
`n[p]`, which must be live.  From `Inv`: `DListTypeCorrect`, `StaysWhole`, `CursorsSafe`,
`KeysDistinct`.  `ListRefinement` (`Spec => ImplementsList`) stands on two facts about a walk: it is
the key of its first node and the walk from the next (`WalkFacts`, by the number of nodes reachable,
which falls along `n`), and what holds at the end of the list and is handed on from each node to the one
before holds everywhere (`AlongTheList`).  `WalksCut` then treats delete and clear as one: nodes
in a row go, and whoever stood on one of them or led to one goes on behind them; head and cursors alike
lose exactly those keys.

**SpiderCommonProofs.**  `Inv == TypeOK /\ InHand /\ TriedOnce`: the page in work is on the todo list until
it is scanned and on the done list once it is asked for, and the cursor owes no page that left.  On top
`DepthInv` (`CommonDepth`), `FoundInv` (each link of a fetched page is on a list, too deep or still to come in
the scan; `CommonComplete`), `TextInv` (the text in hand is that of a link to the page in work or, for a page found without
one, of a page that was missed, and the done list has what its pages were judged by; `TextsGrow`: what a page may be judged by
only grows), `ReportInv` (what the cursor over the done list still owes is what the file still lacks; both give
`CommonReport`), and `CommonRefinement` to the same `Crawl`.

**SpiderShardProofs.**  First the windows: `OutsideIsNotInside` and `EntryInside` carry the
arithmetic of the tests; `BatchPartition`: every page lies in exactly one of the ten shards of
`batch.sh`; `UnitSameShards`: `batch_unit.sh` names the same ones, though its first bound differs;
`PersonDisjoint`: no page is in two of `batch_person.sh`'s.  Then the shard.  `TypeInv` is `TypeOK` with the bounds
of the windows and with what each place of a process says of its message and its request.
`HandleInv` adds that a handle is fresh when its count is 0, whence `HandlesSound`.  `WindowInv` says that a process
has the shard's window or none at all, and of a message in hand what `InWindow` says of the queue: it lies in the window of a
process that ran (`Roamed`), whence `StaysInWindow`.  A page may be handed to a process in whose window it does not lie, so
nothing better holds of the process that asks for it.
`BodyOk` says that during a request with a page number the body is that number, whence `PagesOwn`.  `FilterInv` says that `iflag`
is clear between two links, that what is left of a page belongs to a page seen, and that each claim was
accepted by the filters of some process past `open_resource`, whence `ClaimsAccepted`.
`WholeShard` is `ShardCovered` on every site that is `Paged`.  `KeptInv` says that a claim is still queued,
asked for, answered, given up or lost; `CoverInv` that each link of a pager that was seen was handled (its page
kept in this sense or, when it is outside the shard's window, the entry of the window in its place) or is still before a process, and
that a `flag` that is up tells the truth.  It holds though the processes' windows differ: one without bounds takes every link, one with
bounds takes the entry for those outside.  At the end nothing is under way (`AllServed`).  So the neighbour of a page that was fetched
was fetched itself, given up or lost (`NextPage`); an induction up and down the list (`Walk`, `WalkInside`) brings every
page up to the first that was given up or lost, and when none was, one page of the window was
reached (`ListEntered`) and from it all (`WindowCovered`).

**ProgressProofs.**  `PlaceInv` says what a supervisor's place tells of its variables, and that the row is locked
exactly by the one between its update and its end: `RowLockOwned`.  `ProgressTypeCorrect` bounds the percentage.  For `RowRight`,
`CountInv`: while no table is cleared, a count is the sum of numbers that were once in the tables and are there still, and
`RowInv` says the same of the row; `LastInv`: a round that began when the crawl was over has its claims counted once it is past
that table.  `BackOnlyByOther` follows from the writer's own count having only grown.

**Recursion.**  The induction theorems of the library take an operator, which the provers at hand cannot
instantiate.  This module derives them anew from the well-foundedness of < on the naturals, with the
predicate of an induction as a set, and shows that a recursion with a first value and a step has one solution.
So `Pages`, `Held`, `Without` and `KeysFrom`, which are recursive functions, unfold in proofs.

Only model-checked: what needs fairness, which is out of the prover's reach (`Termination`,
`ImplementsFairCrawl`, `MainEnds`, `LockGranted`, `CommonEnds`, `SupsEnd`).

What the properties of the shard leave out on purpose: `OwnPage` is silent on the plain URL of a
list, which may be asked for over a handle with an old body.  `InWindow` measures a page by the windows that processes
found, so it forbids nothing once one of them runs without bounds, and it does not say that `shixin.conf` sets
what the scripts asked for.  `OnlyAccepted` is silent on crawls in which a process has
lost its filters (a database that was down, a file that could not be opened), `ShardCovered` on these and on crawls in which a
process died or broke off (no list file, no lock).  `ShardCovered` excuses pages that were given up or whose message was lost,
and those behind them, and nothing else.  In each case the model shows that the promise would fail.

Other hazards that the models have and no property forbids, because the code runs into them, are listed in `PROJECT.json` with a note:
links lost with a worker that breaks off, a row without its file, a URL that a full table has sent and fetched again and again, a resume
that fills the queue before there is a reader, a slow supervisor's older count, a supervisor dead of a missing table, a
table counted that is about to be cleared.

## 5. Plan

1. Done: IPC, workers, abstract crawl, supervisor, the list and its abstract form, the
   COMMON crawl, the shard with its window, filters and handles, the progress row; a theorem for every
   safety property and refinement that a run checks.
2. Open: that SpiderShard with one list is a crawl in the sense of module Crawl; what of
   `ResumedComplete` holds for the last `Resume` slots.

### Not modelled

- The threaded build (`spider.c` 148-193, 348-400, 864-926, 1735-1924): the makefile does not build it and it does
  not compile as it stands.
- `db.c` and `db_schedule.c`: preprocessor output of the `.ec` files, which are modelled.
- `debuglog.c`, `trimSpace` and the other string helpers, the iconv calls, the cutting of a tag into its parts:
  character handling without state of its own.
- `spider_niwodai.c`, `test.c`, `testcurl`: not part of the makefile's program.
- `DList_check`, whose test is inverted and which nothing calls, and in DList the payload of a node (`userContent` and `depth`,
  which SpiderCommon has, and `index`).
- COMMON: a `malloc` that fails in `DList_add`, after which the loop repeats the page for as long as memory is short.
- `TOTALCNT` set to 0 or to no number: a division by zero in doubles whose conversion to int is
  undefined; every script sets it or leaves the default of 150000.
- Without `IPCKEY` main uses the key 111 and its workers convert a null pointer's text; every script sets it.
- `ipcsrm.sh` and the removal of the objects by hand; the scripts' waiting by `ps`.
- The view command and the viewer, which only read.
