----------------------------- MODULE SpiderCrawl -----------------------------
(***************************************************************************)
(* The worker processes implement the crawl of module Crawl.  A page is    *)
(* done once some process fetched it, dropped when it was put aside before *)
(* that, and on the todo list while it is neither and a message for it is  *)
(* in the queue or in the hands of a live process.                         *)
(***************************************************************************)
EXTENDS SpiderWorkers

doneBar    == {u \in Urls : fetched[u] > 0}
droppedBar == {u \in Urls : fate[u] # {}} \ doneBar
todoBar    == {u \in Urls : Pending(u)} \ (doneBar \union droppedBar)

C == INSTANCE Crawl WITH Links <- [u \in Urls |-> LinksOf(u)],
                         todo <- todoBar, done <- doneBar, dropped <- droppedBar

(* No step of any process, a crash, a failed call or a full table included, *)
(* loses a URL from the todo list other than by fetching or dropping it, or *)
(* puts one there that no fetched page links to.                            *)
ImplementsCrawl == C!Spec

(* A URL in a message, in the hands of a process, fetched or put aside is   *)
(* one the accepted links of fetched pages lead to, on one list at a time.  *)
OnlyReachable == C!OnlyReachable

(* While no process is killed or breaks off, every link of a fetched page   *)
(* is found and every URL found is fetched or dropped in the end.           *)
ImplementsFairCrawl == C!FairSpec
=============================================================================
