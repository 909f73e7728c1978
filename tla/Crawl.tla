-------------------------------- MODULE Crawl --------------------------------
(***************************************************************************)
(* What a crawl promises, as the comment above spider() tells it: a todo   *)
(* list that starts with the seed, a done list, and every link found on a  *)
(* done page put on the todo list once.  Nothing is said of processes,     *)
(* queues, locks or retries; a URL may also be dropped: too deep, given up *)
(* after its tries, or lost with a process.                                *)
(***************************************************************************)
CONSTANTS Urls, Seed,
          Links        \* Links[u]: the accepted links of page u

VARIABLES todo, done, dropped

vars == <<todo, done, dropped>>

Known == todo \union done \union dropped

Init ==
  /\ todo = {Seed}
  /\ done = {}
  /\ dropped = {}

(* A link of a page that was fetched comes onto the todo list. *)
Discover(v) ==
  /\ v \notin Known
  /\ \E u \in done : v \in Links[u]
  /\ todo' = todo \union {v}
  /\ UNCHANGED <<done, dropped>>

(* A page is fetched; a URL put aside may still be found and fetched when  *)
(* the concrete done list overflowed and forgot it.                        *)
Serve(u) ==
  /\ u \in todo \union dropped
  /\ todo' = todo \ {u}
  /\ dropped' = dropped \ {u}
  /\ done' = done \union {u}

Drop(u) ==
  /\ u \in todo
  /\ todo' = todo \ {u}
  /\ dropped' = dropped \union {u}
  /\ UNCHANGED done

Next == \E u \in Urls : Discover(u) \/ Serve(u) \/ Drop(u)

Spec == Init /\ [][Next]_vars

(* Every link of a done page is found, no URL stays on the todo list. *)
Fairness ==
  \A u \in Urls : WF_vars(Discover(u)) /\ WF_vars(u \in todo /\ (Serve(u) \/ Drop(u)))

FairSpec == Spec /\ Fairness

-----------------------------------------------------------------------------
Closed(S) == Seed \in S /\ \A u \in S : Links[u] \subseteq S

(* The three lists never share a URL, and only the seed and what its pages *)
(* lead to is ever on one of them.                                         *)
OnlyReachable ==
  /\ todo \intersect (done \union dropped) = {}
  /\ done \intersect dropped = {}
  /\ \A S \in SUBSET Urls : Closed(S) => Known \subseteq S
=============================================================================
