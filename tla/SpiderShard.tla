----------------------------- MODULE SpiderShard -----------------------------
(***************************************************************************)
(* One shard of the court site, crawled by the workers of spider() with    *)
(* what each of them has to itself: the filters that open_resource loaded, *)
(* the page window it was told or read and its flag, iflag, and the curl   *)
(* handle.  What they share is one table of claims and one queue; a lookup *)
(* with its claim and its send is one step here and taken apart in         *)
(* SpiderWorkers, and the queue has no limit here.                         *)
(***************************************************************************)
EXTENDS CurlHandle, PageWindow, FiniteSets, Sequences, Functions

CONSTANTS Seed,        \* the list that main sends first
          Anchors,     \* the anchors of every page, in page order
          Words,       \* what the filters look for
          UrlWords,    \* the words in a plain URL
          Ids,         \* the plain URLs with an "id=" in them
          Bad,         \* those with a character that checkurl refuses
          Conf,        \* the words of the six .conf files
          FilePath,    \* there is a filepath.conf
          Envs, Files, \* the windows the environment and shixin.conf may set
          UrlNum,      \* URL_NUM: slots of the shared table
          MaxAnalyse   \* the 5 of "analyse_cnt < 5"

ConfFiles == {"contentfilter", "urlfilter", "contentinvolve", "urlinvolve",
              "filecontentinvolve", "fileurlinvolve"}

(* What an anchor leads to, by the form of its href. *)
Kinds == {"hash", "path", "id", "own", "near", "goto", "suffix", "foreign", "broken"}

AnchorType == [kind : Kinds, to : Bases, page : 0 .. MaxPage, text : SUBSET Words]

ASSUME ShardAssumption ==
  /\ Procs # {}
  /\ Seed \in Lists
  /\ Anchors \in [Urls -> Seq(AnchorType)]
  /\ \A u \in Urls : \A i \in DOMAIN Anchors[u] :
       Anchors[u][i].kind = "goto" => Anchors[u][i].page # 0
  /\ UrlWords \in [Bases -> SUBSET Words]
  /\ Ids \subseteq Bases
  /\ Bad \subseteq Bases
  /\ Conf \in [ConfFiles -> SUBSET Words]
  /\ FilePath \in BOOLEAN
  /\ Envs \subseteq Windows
  /\ Files \subseteq PageFiles
  /\ \A win \in Envs \union {file.win : file \in Files} :
       win.lgt <= MaxPage /\ win.llt <= MaxPage
  /\ UrlNum \in Nat \ {0}
  /\ MaxAnalyse \in Nat \ {0}

Msgs == [url : Urls, analyse_cnt : Nat]
SeedUrl == [base |-> Seed, page |-> 0]

VARIABLES env,        \* the window in the environment of all processes
          file,       \* etc/shixin.conf
          window,     \* per process, its llt and lgt
          queue,      \* the message queue
          recorded,   \* the URLs in the shared table
          pc,         \* where each worker is
          lists,      \* its six tables of words
          idownload,  \* it saves pages
          ifileflag,  \* its list of pages is open
          flag,       \* it has sent its way into the window (lt_, gt_, and_flag)
          iflag,      \* its verdict on the link
          cur,        \* its message
          todo,       \* the anchors of its page still to be looked at
          fetched,    \* history: the URLs that were answered
          seen,       \* history: the pages that came back
          dropped,    \* history: the URLs given up
          lost        \* history: the URLs whose message could not be sent

given == <<env, file>>
own   == <<window, lists, idownload>>
past  == <<fetched, seen, dropped, lost>>
shardVars == <<given, own, queue, recorded, pc, ifileflag, flag, iflag, cur, todo, past>>
vars == <<curlVars, shardVars>>

(* unopened: the process ended before its loop; failed: it returned from    *)
(* the middle of it; dead: it was killed there.                             *)
PC == {"start", "unopened", "recv", "fetch", "scan", "exit", "failed", "dead"}

Ended == {"unopened", "exit", "failed", "dead"}

NoWords == [f \in ConfFiles |-> {}]
NoMsg == [url |-> NoUrl, analyse_cnt |-> 0]

Init ==
  /\ CurlInit
  /\ env \in Envs /\ file \in Files
  /\ window = [p \in Procs |-> NoBounds]
  /\ queue = <<[url |-> SeedUrl, analyse_cnt |-> 0]>>
  /\ recorded = {}
  /\ pc = [p \in Procs |-> "start"]
  /\ lists = [p \in Procs |-> NoWords]
  /\ idownload = [p \in Procs |-> FALSE]
  /\ ifileflag = [p \in Procs |-> FALSE]
  /\ flag = [p \in Procs |-> FALSE]
  /\ iflag = [p \in Procs |-> FALSE]
  /\ cur = [p \in Procs |-> NoMsg]
  /\ todo = [p \in Procs |-> <<>>]
  /\ fetched = {}
  /\ seen = {}
  /\ dropped = {} /\ lost = {}

-----------------------------------------------------------------------------
Goto(p, to) == pc' = [pc EXCEPT ![p] = to]

May(call) == {TRUE} \union {ok \in {FALSE} : call \in Faults}

(* After open_resource each process looks for its window by itself, and     *)
(* leaves without the shared table.                                         *)
EnterLoop(p) ==
  /\ \E opens \in May("shixinconf") :
       window' = [window EXCEPT ![p] = Conditions(file, env, opens)]
  /\ \E shared \in May("shm") : Goto(p, IF shared THEN "recv" ELSE "unopened")

(* open_resource, without its database or a first handle: it returns before *)
(* a table is made, a word is read or a path is set, and the process goes   *)
(* on with no filter at all.                                                *)
OpenNothing(p) ==
  /\ pc[p] = "start"
  /\ {"db", "init"} \intersect Faults # {}
  /\ EnterLoop(p)
  /\ UNCHANGED <<curlVars, given, lists, idownload, queue, recorded, ifileflag, flag,
                 iflag, cur, todo, past>>

(* A table that cannot be made ends the process. *)
OpenNoMemory(p) ==
  /\ pc[p] = "start"
  /\ "malloc" \in Faults
  /\ FirstHandle(p)
  /\ Goto(p, "unopened")
  /\ UNCHANGED <<given, own, queue, recorded, ifileflag, flag, iflag, cur, todo, past>>

(* The last of the files: where to save pages, if anywhere. *)
LoadPath(p) == idownload' = [idownload EXCEPT ![p] = FilePath]

(* Otherwise every file that can be opened fills its table; a file that     *)
(* cannot is taken for one without words.                                   *)
OpenAll(p) ==
  /\ pc[p] = "start"
  /\ FirstHandle(p)
  /\ \E missing \in SUBSET (Faults \intersect ConfFiles) :
       lists' = [lists EXCEPT ![p] =
                   [f \in ConfFiles |-> IF f \in missing THEN {} ELSE Conf[f]]]
  /\ LoadPath(p)
  /\ EnterLoop(p)
  /\ UNCHANGED <<given, queue, recorded, ifileflag, flag, iflag, cur, todo, past>>

-----------------------------------------------------------------------------
Again(m) == [m EXCEPT !.analyse_cnt = @ + 1]

(* SendUnixMsgQ on the queue q; nobody looks at its result. *)
Send(q, m) ==
  \/ queue' = Append(q, m) /\ UNCHANGED lost
  \/ "send" \in Faults /\ queue' = q /\ lost' = lost \union {m.url}

(* A message that was tried too often is dropped, another one's page is     *)
(* asked for; when there is no handle for it, it goes back at once.         *)
RecvMsg(p) ==
  LET m == Head(queue)
  IN /\ pc[p] = "recv"
     /\ queue # <<>>
     /\ \/ /\ m.analyse_cnt >= MaxAnalyse
           /\ queue' = Tail(queue)
           /\ dropped' = dropped \union {m.url}
           /\ UNCHANGED <<curlVars, cur, pc, lost>>
        \/ /\ m.analyse_cnt < MaxAnalyse
           /\ Call(p, m.url)
           /\ queue' = Tail(queue)
           /\ cur' = [cur EXCEPT ![p] = m]
           /\ Goto(p, "fetch")
           /\ UNCHANGED <<dropped, lost>>
        \/ /\ m.analyse_cnt < MaxAnalyse
           /\ CallFail(p)
           /\ Send(Tail(queue), Again(m))
           /\ UNCHANGED <<cur, pc, dropped>>
     /\ UNCHANGED <<given, own, recorded, ifileflag, flag, iflag, todo, fetched, seen>>

(* No message for the interval, or an error: either ends the loop. *)
RecvFail(p) ==
  /\ pc[p] = "recv"
  /\ queue = <<>> \/ "recv" \in Faults
  /\ Goto(p, "exit")
  /\ UNCHANGED <<curlVars, given, own, queue, recorded, ifileflag, flag, iflag, cur, todo,
                 past>>

(* The request failed: the message goes back, one try older. *)
Retry(p) ==
  /\ pc[p] = "fetch"
  /\ PerformFail(p)
  /\ Send(queue, Again(cur[p]))
  /\ cur' = [cur EXCEPT ![p] = NoMsg]
  /\ Goto(p, "recv")
  /\ UNCHANGED <<given, own, recorded, ifileflag, flag, iflag, todo, fetched, seen,
                 dropped>>

(* checkfilelist: the text of a link does not travel with its message, so   *)
(* filecontentinvolve switches the list on and never matches.               *)
FileListed(p, u) ==
  LET l == lists[p]
  IN l.filecontentinvolve \union l.fileurlinvolve # {}
       => UrlWords[u.base] \intersect l.fileurlinvolve # {}

(* What ends a process at a page that came back: its list of pages cannot   *)
(* be opened, which is tried at the first page; or the page is saved, for    *)
(* which its name is cut out of the URL behind "id=", and there is none, so *)
(* that strstr gives a null pointer.                                        *)
NoList(p) == ~ ifileflag[p] /\ "fopen" \in Faults

NoName(p) ==
  idownload[p] /\ FileListed(p, cur[p].url) /\ cur[p].url.base \notin Ids

(* The page c came back. *)
TakePage(p) ==
  /\ pc[p] = "fetch"
  /\ \E c \in Answers(p) :
       /\ PerformOk(p, c)
       /\ seen' = seen \union {c}
       /\ \/ /\ NoList(p) /\ Goto(p, "failed")
             /\ cur' = [cur EXCEPT ![p] = NoMsg]
             /\ UNCHANGED <<todo, ifileflag>>
          \/ /\ NoName(p) /\ Goto(p, "dead")
             /\ cur' = [cur EXCEPT ![p] = NoMsg]
             /\ ifileflag' = [ifileflag EXCEPT ![p] = TRUE]
             /\ UNCHANGED todo
          \/ /\ ~ NoName(p) /\ Goto(p, "scan")
             /\ todo' = [todo EXCEPT ![p] = Anchors[c]]
             /\ ifileflag' = [ifileflag EXCEPT ![p] = TRUE]
             /\ UNCHANGED cur
  /\ fetched' = fetched \union {cur[p].url}
  /\ UNCHANGED <<given, own, queue, recorded, flag, iflag, dropped, lost>>

-----------------------------------------------------------------------------
(* get_href on an anchor of the page at base: the URL it yields, NoUrl for  *)
(* an empty href.                                                           *)
Plain == {"hash", "path", "id", "own", "near"}

EntryDue(p, a) == a.kind = "goto" /\ Outside(window[p], a.page)

GetHref(p, a) ==
  CASE a.kind \in Plain -> [base |-> a.to, page |-> 0]
    [] a.kind = "goto"  ->
         IF ~ Outside(window[p], a.page) THEN [base |-> cur[p].url.base, page |-> a.page]
         ELSE IF flag[p] THEN NoUrl
         ELSE [base |-> cur[p].url.base, page |-> Entry(window[p])]
    [] OTHER            -> NoUrl

(* The text that the filters see: get_href returns before it is set for all *)
(* links but those with a path or a host.                                   *)
Text(a) == IF a.kind \in {"path", "own", "near"} THEN a.text ELSE {}

Hits(text, words, u, uwords) ==
  text \intersect words # {} \/ UrlWords[u.base] \intersect uwords # {}

CheckInvolve(l, a, u) == Hits(Text(a), l.contentinvolve, u, l.urlinvolve)
CheckFilter(l, a, u)  == Hits(Text(a), l.contentfilter, u, l.urlfilter)

(* checkurl. *)
Refused(u) == u.base \in Bad

(* iflag is a global: the two tests set it, in this order, or leave it.     *)
Verdict(p, a, u) ==
  LET l == lists[p]
  IN IF CheckFilter(l, a, u) THEN FALSE
     ELSE IF l.contentinvolve \union l.urlinvolve = {} \/ CheckInvolve(l, a, u) THEN TRUE
     ELSE iflag[p]

(* Slip: the way out through a duplicate leaves it set. *)
FlagAfter_Kept(dup) == dup

(* Every way out of the link sets it to 0. *)
FlagAfter(dup) == FALSE

(* Slip: a URL that finds no slot is not sent either. *)
Claim_OnlyRecorded(u) ==
  IF Cardinality(recorded) < UrlNum
  THEN recorded' = recorded \union {u} /\ Send(queue, [url |-> u, analyse_cnt |-> 0])
  ELSE UNCHANGED <<recorded, queue, lost>>

(* A URL that is not in the table goes into a free slot, when there is one, *)
(* and in any case to the queue.                                            *)
Claim(u) ==
  /\ recorded' = IF Cardinality(recorded) < UrlNum THEN recorded \union {u} ELSE recorded
  /\ Send(queue, [url |-> u, analyse_cnt |-> 0])

(* What the next anchor leads to when the filters let it pass. *)
NextHref(p) == GetHref(p, Head(todo[p]))

Chosen(p) ==
  LET u == NextHref(p)
  IN u # NoUrl /\ Verdict(p, Head(todo[p]), u) /\ ~ Refused(u)

(* The next anchor: its href, the verdict, and when it is not in the table  *)
(* yet its claim and its message.                                           *)
ScanAnchor(p) ==
  LET u == NextHref(p)
  IN /\ pc[p] = "scan"
     /\ todo[p] # <<>>
     /\ todo' = [todo EXCEPT ![p] = Tail(@)]
     /\ flag' = [flag EXCEPT ![p] = @ \/ EntryDue(p, Head(todo[p]))]
     /\ iflag' = IF u = NoUrl THEN iflag
                 ELSE [iflag EXCEPT ![p] = FlagAfter(Chosen(p) /\ u \in recorded)]
     /\ IF Chosen(p) /\ u \notin recorded THEN Claim(u)
        ELSE UNCHANGED <<recorded, queue, lost>>
     /\ UNCHANGED <<curlVars, given, own, pc, ifileflag, cur, fetched, seen, dropped>>

(* The table cannot be locked: the process returns from the middle of its   *)
(* page.                                                                    *)
LockFail(p) ==
  /\ pc[p] = "scan"
  /\ todo[p] # <<>>
  /\ Chosen(p)
  /\ "semop" \in Faults
  /\ todo' = [todo EXCEPT ![p] = <<>>]
  /\ cur' = [cur EXCEPT ![p] = NoMsg]
  /\ Goto(p, "failed")
  /\ UNCHANGED <<curlVars, given, own, queue, recorded, ifileflag, flag, iflag, past>>

EndPage(p) ==
  /\ pc[p] = "scan"
  /\ todo[p] = <<>>
  /\ cur' = [cur EXCEPT ![p] = NoMsg]
  /\ Goto(p, "recv")
  /\ UNCHANGED <<curlVars, given, own, queue, recorded, ifileflag, flag, iflag, todo, past>>

-----------------------------------------------------------------------------
Open(p) == OpenNothing(p) \/ OpenNoMemory(p) \/ OpenAll(p)

Step(p) ==
  \/ Open(p) \/ RecvMsg(p) \/ RecvFail(p) \/ Retry(p) \/ TakePage(p)
  \/ ScanAnchor(p) \/ LockFail(p) \/ EndPage(p)

Finished == (\A p \in Procs : pc[p] \in Ended) /\ UNCHANGED vars

Next == (\E p \in Procs : Step(p)) \/ Finished

Spec == Init /\ [][Next]_vars

-----------------------------------------------------------------------------
TypeOK ==
  /\ CurlTypeOK
  /\ env \in Windows /\ file \in PageFiles
  /\ window \in [Procs -> Windows]
  /\ queue \in Seq(Msgs)
  /\ recorded \subseteq Urls
  /\ pc \in [Procs -> PC]
  /\ lists \in [Procs -> [ConfFiles -> SUBSET Words]]
  /\ idownload \in [Procs -> BOOLEAN]
  /\ ifileflag \in [Procs -> BOOLEAN]
  /\ flag \in [Procs -> BOOLEAN]
  /\ iflag \in [Procs -> BOOLEAN]
  /\ cur \in [Procs -> Msgs \union {NoMsg}]
  /\ todo \in [Procs -> Seq(AnchorType)]
  /\ fetched \subseteq Urls
  /\ seen \subseteq Urls
  /\ dropped \subseteq Urls
  /\ lost \subseteq Urls

(* The window of the shard, and who has come to crawl in one. *)
Shard == Conditions(file, env, TRUE)

Ran(p) == pc[p] \notin {"start", "unopened"}

Wandering == {m.url : m \in Range(queue)} \union {asked[p] : p \in Procs}

(* A page of the list that is claimed, queued, asked for or brought home    *)
(* lies in the window of a process that ran, the way into that window       *)
(* included: the pages of the other shards are left alone until a process   *)
(* cannot open the file and runs without a window.                          *)
InWindow ==
  Sound(Shard) =>
    \A u \in recorded \union fetched \union (Wandering \ {NoUrl}) :
      u.page # 0 => \E p \in Procs : Ran(p) /\ Inside(window[p], u.page)

(* A URL with a page number brings that page home, and a URL that is no    *)
(* list its own, whatever body an earlier request left on the handle; the   *)
(* plain URL of a list may bring any page of it.                            *)
OwnPage == \A u \in fetched : u.page # 0 \/ u.base \notin Lists => u \in seen

(* The process came to its loop with every word of every file, if at all.   *)
Loaded(p) == Ran(p) => lists[p] = Conf

Passes(l, a, u) ==
  /\ l.contentinvolve \union l.urlinvolve # {} => CheckInvolve(l, a, u)
  /\ ~ CheckFilter(l, a, u)
  /\ ~ Refused(u)

LeadsTo(v, a, u) ==
  \/ a.kind \in Plain /\ u = [base |-> a.to, page |-> 0]
  \/ a.kind = "goto" /\ u.page # 0 /\ u.base = v.base

Accepted(l, u) ==
  \E v \in seen : \E i \in DOMAIN Anchors[v] :
    LeadsTo(v, Anchors[v][i], u) /\ Passes(l, Anchors[v][i], u)

(* When every process has its filters, only what they let pass is claimed:  *)
(* no verdict on one link is taken for another's.                           *)
OnlyAccepted == (\A p \in Procs : Loaded(p)) => \A u \in recorded : Accepted(Conf, u)

(* All processes have left through the head of their loop, the queue is     *)
(* empty, and each had its filters.                                         *)
AllLeft == queue = <<>> /\ \A p \in Procs : pc[p] = "exit" /\ lists[p] = Conf

PageOf(n) == [base |-> Seed, page |-> n]

(* The list itself and its pages, as far as they were given up or lost. *)
GivenUp == {u \in dropped \union lost : u.base = Seed}

(* What a site must be like for that: the pager of every page of the seed's *)
(* list links to its neighbours, no other page has one, and the filters let  *)
(* the pages of that list pass.  The plain URL shows the first page.        *)
Paged ==
  /\ \A u \in Urls : u.base = Seed =>
       LET n == IF u.page = 0 THEN 1 ELSE u.page
       IN \A k \in {n - 1, n + 1} \intersect (1 .. MaxPage) :
            \E i \in DOMAIN Anchors[u] : Anchors[u][i].kind = "goto" /\ Anchors[u][i].page = k
  /\ \A u \in Urls : u.base # Seed =>
       \A i \in DOMAIN Anchors[u] : Anchors[u][i].kind # "goto"
  /\ Conf.contentinvolve \union Conf.urlinvolve # {}
       => UrlWords[Seed] \intersect Conf.urlinvolve # {}
  /\ UrlWords[Seed] \intersect Conf.urlfilter = {}
  /\ Seed \notin Bad

Between(m, k, n) == (m <= k /\ k <= n) \/ (n <= k /\ k <= m)

(* At such an end, with whatever windows the processes found and although   *)
(* the table filled up: when no page of the list was given up and no message *)
(* of one was lost, every page of the shard's window was fetched.  Otherwise *)
(* such a page costs those behind it only: from a page of the window that   *)
(* was fetched the others were reached, up to the first that was not.       *)
ShardCovered ==
  AllLeft =>
    /\ GivenUp = {} =>
         \A n \in 2 .. MaxPage : Inside(Shard, n) => PageOf(n) \in fetched
    /\ \A m, n \in 1 .. MaxPage :
         Inside(Shard, m) /\ Inside(Shard, n) /\ PageOf(m) \in fetched =>
           \/ PageOf(n) \in fetched
           \/ \E k \in 1 .. MaxPage : Between(m, k, n) /\ PageOf(k) \in GivenUp
=============================================================================
