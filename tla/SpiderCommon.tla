---------------------------- MODULE SpiderCommon ----------------------------
(***************************************************************************)
(* The single-process crawl of the COMMON build: spider() of               *)
(* src/src/spider.c, lines 325-345, 697-862 and 928-969.  Its todo list    *)
(* and its done list are lists of src/src/dlist.c, used through what       *)
(* module CursorList says of them.  The loop walks the todo list with a    *)
(* cursor, again and again until the list is empty; pages found on the way *)
(* come to the front, behind the cursor, and wait for the next walk.       *)
(*                                                                         *)
(* An action is the code up to the next call on a list, the network or a   *)
(* file.                                                                   *)
(***************************************************************************)
EXTENDS Naturals, Sequences, SequencesExt, FiniteSets

CONSTANTS Urls, Seed,
          Hrefs,        \* the links of every page, in page order
          Texts,        \* the texts of links
          FileUrls,     \* URLs with a word of fileurlinvolve.conf
          FileTexts,    \* texts with a word of filecontentinvolve.conf
          Modes,        \* the sets of options the program may be started with
          TravelDepth,  \* travel_depth
          Faults,       \* which calls may fail
          NoUrl, NoText, \* the empty string, as a URL and as a text
          FetchCap      \* bound: fetches of one URL are counted up to here

(* A link carries its text and the verdict of checkinvolve, checkfilter and *)
(* checkurl.                                                               *)
AnyText == Texts \union {NoText}

Links == [href : Urls, text : AnyText, iflag : BOOLEAN]

OptionNames == {"shixin", "fileinvolve", "download", "icontrol"}
FaultNames  == {"fetch", "fopen", "file"}

ASSUME CommonAssumption ==
  /\ Seed \in Urls
  /\ Hrefs \in [Urls -> Seq(Links)]
  /\ FileUrls \subseteq Urls
  /\ FileTexts \subseteq Texts
  /\ Modes \subseteq SUBSET OptionNames
  /\ TravelDepth \in Nat
  /\ Faults \subseteq FaultNames
  /\ NoUrl \notin Urls
  /\ NoText \notin Texts
  /\ FetchCap \in Nat \ {0, 1}

VARIABLES options,   \* the modes this process runs in
          pc,
          todoList, todoOpen, todoRest,  \* the todo list and its cursor
          doneList, doneOpen, doneRest,  \* the done list and its cursor
          doneTexts, \* the userContent of the nodes of the done list
          depths, texts,  \* depth and userContent of those of the todo list
          url, urlcontent, depth,  \* the page in work, or what is left of it
          hrefs,     \* its links still to come
          ifileflag, \* the list file was opened by the crawl
          lines,     \* the URLs written to the list file
          files,     \* the pages saved on disk
          tries,     \* history: how often the crawl asked for a page
          fetched,   \* history: the pages it got
          deep       \* history: the URLs taken off the todo list as too deep

todoVars == <<todoList, todoOpen, todoRest>>
doneVars == <<doneList, doneOpen, doneRest, doneTexts>>
nodeVars == <<depths, texts>>
pageVars == <<nodeVars, url, urlcontent, depth, hrefs>>
outVars  == <<ifileflag, lines, files>>
history  == <<tries, fetched, deep>>
vars == <<options, pc, todoVars, doneVars, pageVars, outVars, history>>

(* Each list has one cursor, sTodoinfo and sDoneinfo. *)
Cursor == 0

Todo == INSTANCE CursorList WITH Keys <- Urls, Steps <- {Cursor},
          items <- todoList, open <- todoOpen, rest <- todoRest
Done == INSTANCE CursorList WITH Keys <- Urls, Steps <- {Cursor},
          items <- doneList, open <- doneOpen, rest <- doneRest

PC == {"start", "pass", "step", "page", "fetch", "list", "scan", "close",
       "report", "exit", "failed"}

InWalk == {"step", "page", "fetch", "list", "scan", "close"}

Init ==
  /\ options \in Modes
  /\ pc = "start"
  /\ Todo!Init /\ Done!Init
  /\ doneTexts = [u \in Urls |-> NoText]
  /\ depths = [u \in Urls |-> 0] /\ texts = [u \in Urls |-> NoText]
  /\ url = NoUrl /\ urlcontent = NoText /\ depth = 0 /\ hrefs = <<>>
  /\ ifileflag = FALSE /\ lines = {} /\ files = {}
  /\ tries = [u \in Urls |-> 0] /\ fetched = {} /\ deep = {}

-----------------------------------------------------------------------------
(* The seed is fetched once before the crawl, only to see that it can be,  *)
(* and becomes the first node, at depth 1 and without a text.              *)
NewNode(u, t, d) ==
  /\ Todo!Add(u)
  /\ texts' = [texts EXCEPT ![u] = t]
  /\ depths' = [depths EXCEPT ![u] = d]

Start ==
  /\ pc = "start"
  /\ NewNode(Seed, NoText, 1)
  /\ pc' = "pass"
  /\ UNCHANGED <<options, doneVars, url, urlcontent, depth, hrefs, outVars, history>>

StartFail ==
  /\ pc = "start" /\ "fetch" \in Faults
  /\ pc' = "failed"
  /\ UNCHANGED <<options, todoVars, doneVars, pageVars, outVars, history>>

(* A walk begins while cnt says that the list is not empty. *)
OpenPass ==
  /\ pc = "pass" /\ todoList # <<>>
  /\ Todo!Open(Cursor, todoList)
  /\ url' = NoUrl /\ urlcontent' = NoText
  /\ pc' = "step"
  /\ UNCHANGED <<options, doneVars, nodeVars, depth, hrefs, outVars, history>>

(* DList_fetchStep copies a text only when the node has one: otherwise     *)
(* urlcontent keeps what is in it.                                         *)
FetchStep ==
  /\ pc = "step"
  /\ Todo!Fetch(Cursor)
  /\ url' = Head(todoRest[Cursor])
  /\ urlcontent' = IF texts[url'] # NoText THEN texts[url'] ELSE urlcontent
  /\ depth' = depths[url']
  /\ pc' = "page"
  /\ UNCHANGED <<options, doneVars, nodeVars, hrefs, outVars, history>>

(* Slip: the comparison is off by one. *)
TooDeep_Off == "icontrol" \in options /\ depth > TravelDepth + 1

TooDeep == "icontrol" \in options /\ depth > TravelDepth

(* Slip: the node stays in the todo list. *)
DropPage_Keep ==
  /\ pc = "page" /\ (TooDeep \/ url \in ToSet(doneList))
  /\ deep' = IF TooDeep THEN deep \union {url} ELSE deep
  /\ pc' = "close"
  /\ UNCHANGED <<options, todoVars, doneVars, pageVars, outVars, tries, fetched>>

(* A page too deep, or one that is in the done list already, leaves the    *)
(* todo list, and the walk is broken off.                                  *)
DropPage ==
  /\ pc = "page" /\ (TooDeep \/ url \in ToSet(doneList))
  /\ Todo!Forget({url})
  /\ deep' = IF TooDeep THEN deep \union {url} ELSE deep
  /\ pc' = "close"
  /\ UNCHANGED <<options, doneVars, pageVars, outVars, tries, fetched>>

(* Slip: the result of the DList_add on the done list is ignored. *)
MarkDone_NoLookup ==
  /\ pc = "page" /\ ~ TooDeep
  /\ IF url \in ToSet(doneList) THEN UNCHANGED doneVars
     ELSE Done!Add(url) /\ doneTexts' = [doneTexts EXCEPT ![url] = urlcontent]
  /\ pc' = "fetch"
  /\ UNCHANGED <<options, todoVars, pageVars, outVars, history>>

(* The page is recorded in the done list before it is asked for. *)
MarkDone ==
  /\ pc = "page" /\ ~ TooDeep
  /\ Done!Add(url)
  /\ doneTexts' = [doneTexts EXCEPT ![url] = urlcontent]
  /\ pc' = "fetch"
  /\ UNCHANGED <<options, todoVars, pageVars, outVars, history>>

Tried == tries' = [tries EXCEPT ![url] = IF @ < FetchCap THEN @ + 1 ELSE @]

FetchOk ==
  /\ pc = "fetch"
  /\ Tried
  /\ fetched' = fetched \union {url}
  /\ hrefs' = Hrefs[url]
  /\ pc' = "list"
  /\ UNCHANGED <<options, todoVars, doneVars, nodeVars, url, urlcontent, depth, outVars,
                 deep>>

(* The page stays in both lists and the walk goes on, with its text left in *)
(* urlcontent; the next walk finds it in the done list and drops it.       *)
FetchFail ==
  /\ pc = "fetch" /\ "fetch" \in Faults
  /\ Tried
  /\ pc' = "step"
  /\ UNCHANGED <<options, todoVars, doneVars, pageVars, outVars, fetched, deep>>

-----------------------------------------------------------------------------
(* checkfilelist, when there are words to look for: in the text that is in  *)
(* hand, which need not be that of the page, or in the URL.                *)
Wanted(t, u) == "fileinvolve" \in options => t \in FileTexts \/ u \in FileUrls

(* A wanted page gets its line in the list file and, when the option says  *)
(* so, is saved; a call that fails there goes unnoticed.                   *)
ListAndSave(u, bad) ==
  /\ lines' = lines \union {u}
  /\ \/ "download" \in options /\ files' = files \union {u}
     \/ ("download" \in options => bad \intersect Faults # {}) /\ UNCHANGED files

(* The shixin crawl lists a wanted page at once.  Then the page leaves the *)
(* todo list, and depth becomes that of its links.                         *)
ListPage ==
  /\ pc = "list"
  /\ ifileflag' = (ifileflag \/ "shixin" \in options)
  /\ IF "shixin" \in options /\ Wanted(urlcontent, url)
     THEN ListAndSave(url, {"file"})
     ELSE UNCHANGED <<lines, files>>
  /\ Todo!Forget({url})
  /\ depth' = depth + 1
  /\ pc' = "scan"
  /\ UNCHANGED <<options, doneVars, nodeVars, url, urlcontent, hrefs, history>>

OpenFail ==
  /\ pc = "list" /\ "shixin" \in options /\ ~ ifileflag /\ "fopen" \in Faults
  /\ pc' = "failed"
  /\ UNCHANGED <<options, todoVars, doneVars, pageVars, outVars, history>>

(* Slip: a link that is in the todo list already ends the page. *)
NextLink_Stop ==
  LET l == Head(hrefs)
  IN /\ pc = "scan" /\ hrefs # <<>>
     /\ urlcontent' = l.text
     /\ IF l.iflag /\ l.href \notin ToSet(todoList) THEN NewNode(l.href, l.text, depth)
        ELSE UNCHANGED <<todoVars, nodeVars>>
     /\ hrefs' = IF l.href \in ToSet(todoList) THEN <<>> ELSE Tail(hrefs)
     /\ UNCHANGED <<options, pc, doneVars, url, depth, outVars, history>>

(* Slip: the verdict of the filters is not looked at. *)
NextLink_All ==
  LET l == Head(hrefs)
  IN /\ pc = "scan" /\ hrefs # <<>>
     /\ hrefs' = Tail(hrefs)
     /\ urlcontent' = l.text
     /\ IF l.href \notin ToSet(todoList) THEN NewNode(l.href, l.text, depth)
        ELSE UNCHANGED <<todoVars, nodeVars>>
     /\ UNCHANGED <<options, pc, doneVars, url, depth, outVars, history>>

(* An accepted link comes with its text to the front of the todo list,     *)
(* unless it is in the list already; the done list is not asked.           *)
NextLink ==
  LET l == Head(hrefs)
  IN /\ pc = "scan" /\ hrefs # <<>>
     /\ hrefs' = Tail(hrefs)
     /\ urlcontent' = l.text
     /\ IF l.iflag /\ l.href \notin ToSet(todoList) THEN NewNode(l.href, l.text, depth)
        ELSE UNCHANGED <<todoVars, nodeVars>>
     /\ UNCHANGED <<options, pc, doneVars, url, depth, outVars, history>>

(* Slip: the text of the last link is left for the next page. *)
EndPage_KeepText ==
  /\ pc = "scan" /\ hrefs = <<>>
  /\ url' = NoUrl /\ depth' = 0
  /\ pc' = "step"
  /\ UNCHANGED <<options, todoVars, doneVars, nodeVars, urlcontent, hrefs, outVars, history>>

EndPage ==
  /\ pc = "scan" /\ hrefs = <<>>
  /\ url' = NoUrl /\ urlcontent' = NoText /\ depth' = 0
  /\ pc' = "step"
  /\ UNCHANGED <<options, todoVars, doneVars, nodeVars, hrefs, outVars, history>>

(* Slip: a walk that was broken off leaves its cursor open. *)
ClosePass_Leave ==
  /\ pc = "close" \/ (pc = "step" /\ todoRest[Cursor] = <<>>)
  /\ IF pc = "close" THEN UNCHANGED todoVars ELSE Todo!Close(Cursor)
  /\ pc' = "pass"
  /\ UNCHANGED <<options, doneVars, pageVars, outVars, history>>

(* The walk is through, or was broken off. *)
ClosePass ==
  /\ pc = "close" \/ (pc = "step" /\ todoRest[Cursor] = <<>>)
  /\ Todo!Close(Cursor)
  /\ pc' = "pass"
  /\ UNCHANGED <<options, doneVars, pageVars, outVars, history>>

-----------------------------------------------------------------------------
(* The report opens the same list file anew, which empties it of what has  *)
(* left the crawl's stream by then; the rest is written when that stream   *)
(* is closed at the exit.                                                  *)
OpenReport ==
  /\ pc = "pass" /\ todoList = <<>>
  /\ lines' \in SUBSET lines
  /\ Done!Open(Cursor, doneList)
  /\ pc' = "report"
  /\ UNCHANGED <<options, todoVars, doneTexts, pageVars, ifileflag, files, history>>

ReportFail ==
  /\ pc = "pass" /\ todoList = <<>> /\ "fopen" \in Faults
  /\ pc' = "failed"
  /\ UNCHANGED <<options, todoVars, doneVars, pageVars, outVars, history>>

(* Every other crawl lists its wanted pages now, and asks for those it     *)
(* saves a second time.  Its buffers are cleared before every node, so that *)
(* each is judged by the text it was recorded with.                        *)
ReportPage ==
  LET u == Head(doneRest[Cursor])
  IN /\ pc = "report"
     /\ Done!Fetch(Cursor)
     /\ IF "shixin" \notin options /\ Wanted(doneTexts[u], u)
        THEN ListAndSave(u, {"fetch", "file"})
        ELSE UNCHANGED <<lines, files>>
     /\ UNCHANGED <<options, pc, todoVars, doneTexts, pageVars, ifileflag, history>>

EndReport ==
  /\ pc = "report" /\ doneRest[Cursor] = <<>>
  /\ Done!Close(Cursor)
  /\ pc' = "exit"
  /\ UNCHANGED <<options, todoVars, doneTexts, pageVars, outVars, history>>

Finished == pc \in {"exit", "failed"} /\ UNCHANGED vars

Step ==
  \/ Start \/ StartFail \/ OpenPass \/ FetchStep \/ DropPage \/ MarkDone
  \/ FetchOk \/ FetchFail \/ ListPage \/ OpenFail \/ NextLink \/ EndPage
  \/ ClosePass \/ OpenReport \/ ReportFail \/ ReportPage \/ EndReport

Next == Step \/ Finished

Spec == Init /\ [][Next]_vars

(* One thread: whatever call it is in returns. *)
FairSpec == Spec /\ WF_vars(Step)

-----------------------------------------------------------------------------
(* The types of the variables; a cursor is open exactly during its walk.   *)
TypeOK ==
  /\ options \in Modes
  /\ pc \in PC
  /\ todoList \in Seq(Urls) /\ doneList \in Seq(Urls)
  /\ todoRest \in [{Cursor} -> Seq(Urls)] /\ doneRest \in [{Cursor} -> Seq(Urls)]
  /\ todoOpen \subseteq {Cursor}
  /\ pc # "failed" => (todoOpen = {Cursor} <=> pc \in InWalk)
  /\ doneOpen = IF pc = "report" THEN {Cursor} ELSE {}
  /\ doneTexts \in [Urls -> AnyText]
  /\ depths \in [Urls -> Nat] /\ texts \in [Urls -> AnyText]
  /\ url \in Urls \union {NoUrl} /\ urlcontent \in AnyText
  /\ depth \in Nat /\ hrefs \in Seq(Links)
  /\ ifileflag \in BOOLEAN /\ lines \subseteq Urls /\ files \subseteq Urls
  /\ tries \in [Urls -> 0 .. FetchCap] /\ fetched \subseteq Urls /\ deep \subseteq Urls

(* A page is asked for once, whether it comes or not, although it may come *)
(* to the todo list again and again: the done list has the pages that were *)
(* asked for and no other.                                                 *)
TriedOnce ==
  \A u \in Urls :
    tries[u] = IF u \in ToSet(doneList) /\ ~ (pc = "fetch" /\ u = url) THEN 1 ELSE 0

Accepted(u) == {Hrefs[u][i] : i \in {j \in DOMAIN Hrefs[u] : Hrefs[u][j].iflag}}

LinksOf(u) == {l.href : l \in Accepted(u)}

(* Pages[n]: what a walk of n - 1 accepted links from the seed can reach. *)
Pages[m \in Nat] ==
  IF m = 0 THEN {}
  ELSE IF m = 1 THEN {Seed} ELSE UNION {LinksOf(u) : u \in Pages[m - 1]}

(* The depth of a node is the length of a real walk to its page, also when *)
(* the page was dropped and found again; no page below travel_depth is     *)
(* fetched, and what is dropped lies exactly one link below.               *)
WithinDepth ==
  /\ \A u \in ToSet(todoList) : u \in Pages[depths[u]]
  /\ "icontrol" \in options =>
       /\ fetched \subseteq UNION {Pages[m] : m \in 1 .. TravelDepth}
       /\ deep \subseteq Pages[TravelDepth + 1]

(* When the loop ends, no link of a fetched page was lost by adding behind *)
(* an open cursor or by breaking off a walk: each was asked for or lay too *)
(* deep.                                                                   *)
CrawlComplete ==
  pc \in {"report", "exit"} =>
    \A v \in {Seed} \union UNION {LinksOf(u) : u \in fetched} : tries[v] > 0 \/ v \in deep

(* The texts of the accepted links by which u was found; the seed has none. *)
FoundWith(u) ==
  {t \in AnyText : \/ \E v \in fetched : \E l \in Accepted(v) : l.href = u /\ l.text = t
                   \/ u = Seed /\ t = NoText}

Missed == {v \in Urls : tries[v] > 0 /\ v \notin fetched}

(* What a page may be judged by: a text of its own, or, when it was found   *)
(* without one, that of a page whose fetch failed before it.               *)
JudgedBy(u) ==
  FoundWith(u) \union
    (IF NoText \in FoundWith(u) THEN UNION {FoundWith(v) : v \in Missed} ELSE {})

(* At the exit each page has been recorded with a text of its own, as long  *)
(* as no fetch failed, and the list file goes by the recorded texts.  The   *)
(* shixin crawl lists fetched pages only, but may have lost lines when the  *)
(* report emptied the file; every other crawl has a line for each page that *)
(* is wanted, and for those that failed as well.  Only listed pages were    *)
(* saved.                                                                  *)
ReportRight ==
  pc = "exit" =>
    /\ \A u \in ToSet(doneList) : doneTexts[u] \in JudgedBy(u)
    /\ IF "shixin" \in options
       THEN lines \union files \subseteq {u \in fetched : Wanted(doneTexts[u], u)}
       ELSE /\ lines = {u \in ToSet(doneList) : Wanted(doneTexts[u], u)}
            /\ files \subseteq lines

(* The loop comes to its end on every site, cyclic ones and pages that     *)
(* fail included.                                                          *)
CommonEnds == <>(pc \in {"exit", "failed"})

-----------------------------------------------------------------------------
doneBar    == fetched
droppedBar == ({u \in Urls : tries[u] > 0} \union deep) \ fetched
todoBar    == (ToSet(todoList) \union {u \in {Seed} : depths[u] = 0})
                \ (doneBar \union droppedBar)

C == INSTANCE Crawl WITH Links <- [u \in Urls |-> LinksOf(u)],
                         todo <- todoBar, done <- doneBar, dropped <- droppedBar

(* The one process with its two lists does what module Crawl promises, as  *)
(* the workers with their queue and table do: a page is done when it came, *)
(* dropped when it failed or lay too deep.                                 *)
ImplementsCrawl == C!Spec
=============================================================================
