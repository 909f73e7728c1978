-------------------------------- MODULE DList --------------------------------
(***************************************************************************)
(* The doubly linked list of src/src/dlist.c, node by node.  A node is an  *)
(* address: malloc takes one that is free, free gives it back with its     *)
(* contents as they are.  Up to DLIST_MAX_STEPD cursors stand in the list  *)
(* while nodes are added and deleted; DList_step calls back for each node, *)
(* and the callback may use the list again, so steps nest.                 *)
(***************************************************************************)
EXTENDS Naturals, Sequences, FiniteSets

CONSTANTS Nodes,     \* the addresses malloc can return
          Keys,      \* userData
          MaxSteps,  \* DLIST_MAX_STEPD
          NULL

ASSUME DListAssumption ==
  /\ IsFiniteSet(Nodes)
  /\ NULL \notin Nodes
  /\ Keys # {}
  /\ MaxSteps \in Nat \ {0}

VARIABLES head, cnt,
          n, f, userData,  \* the fields of the nodes
          live,            \* the nodes allocated and not freed
          useF, use,       \* per cursor: in use, and the node it delivers next
          frames           \* the cursors of the DList_step calls in progress,
                           \* innermost first

nodeVars == <<head, cnt, n, f, userData, live>>
stepVars == <<useF, use, frames>>
vars == <<nodeVars, stepVars>>

Steps == 0 .. MaxSteps - 1

(* DList_new *)
Init ==
  /\ head = NULL
  /\ cnt = 0
  /\ n = [p \in Nodes |-> NULL]
  /\ f = [p \in Nodes |-> NULL]
  /\ userData \in [Nodes -> Keys]
  /\ live = {}
  /\ useF = [i \in Steps |-> FALSE]
  /\ use = [i \in Steps |-> NULL]
  /\ frames = <<>>

(* The nodes that "p = p->n" comes to from x. *)
Closed(S) == \A p \in S : n[p] # NULL => n[p] \in S

Reach(x) ==
  IF x = NULL THEN {}
  ELSE {p \in Nodes : \A S \in SUBSET Nodes : x \in S /\ Closed(S) => p \in S}

(* What the loop over the list with strcmp stops at. *)
Found(k) == {p \in Reach(head) : userData[p] = k}

-----------------------------------------------------------------------------
(* Slip: the old head is not told of its new neighbour. *)
Add_NoBack(k) ==
  /\ Found(k) = {}
  /\ \E p \in Nodes \ live :
       /\ live' = live \union {p}
       /\ userData' = [userData EXCEPT ![p] = k]
       /\ n' = [n EXCEPT ![p] = head]
       /\ f' = [f EXCEPT ![p] = NULL]
       /\ head' = p
  /\ cnt' = cnt + 1
  /\ UNCHANGED stepVars

(* Slip: the list is not searched for the key. *)
Add_NoSearch(k) ==
  /\ \E p \in Nodes \ live :
       /\ live' = live \union {p}
       /\ userData' = [userData EXCEPT ![p] = k]
       /\ n' = [n EXCEPT ![p] = head]
       /\ f' = [q \in Nodes |-> IF q = p THEN NULL
                                ELSE IF q = head THEN p ELSE f[q]]
       /\ head' = p
  /\ cnt' = cnt + 1
  /\ UNCHANGED stepVars

(* A duplicate, a refusal by addFunc and a failed malloc change nothing;    *)
(* otherwise the new node comes to the front.                               *)
Add(k) ==
  /\ Found(k) = {}
  /\ \E p \in Nodes \ live :
       /\ live' = live \union {p}
       /\ userData' = [userData EXCEPT ![p] = k]
       /\ n' = [n EXCEPT ![p] = head]
       /\ f' = [q \in Nodes |-> IF q = p THEN NULL
                                ELSE IF q = head THEN p ELSE f[q]]
       /\ head' = p
  /\ cnt' = cnt + 1
  /\ UNCHANGED stepVars

(* Slips: the cursors stay where they are; they are moved to the end.       *)
MoveCursors_Not(S, q) == UNCHANGED use

MoveCursors_End(S, q) ==
  use' = [i \in Steps |-> IF useF[i] /\ use[i] \in S THEN NULL ELSE use[i]]

(* Every cursor in use that stands on a node of S is moved to q. *)
MoveCursors(S, q) ==
  use' = [i \in Steps |-> IF useF[i] /\ use[i] \in S THEN q ELSE use[i]]

(* DList_del unlinks the node; no such key or a refusal changes nothing.    *)
Del(k) ==
  \E p \in Found(k) :
    /\ MoveCursors({p}, n[p])
    /\ head' = IF f[p] = NULL THEN n[p] ELSE head
    /\ n' = IF f[p] = NULL THEN n ELSE [n EXCEPT ![f[p]] = n[p]]
    /\ f' = IF n[p] = NULL THEN f ELSE [f EXCEPT ![n[p]] = f[p]]
    /\ live' = live \ {p}
    /\ cnt' = cnt - 1
    /\ UNCHANGED <<userData, useF, frames>>

(* DList_clear frees from the front up to the node q whose clearFunc fails, *)
(* or all (q = NULL).  Each freed node hands its cursors on to the next, so *)
(* in the end they stand on q.                                              *)
Clear(q) ==
  LET gone == Reach(head) \ Reach(q)
  IN /\ q \in Reach(head) \union {NULL}
     /\ MoveCursors(gone, q)
     /\ head' = q
     /\ f' = IF q = NULL THEN f ELSE [f EXCEPT ![q] = NULL]
     /\ live' = live \ gone
     /\ cnt' = cnt - Cardinality(gone)
     /\ UNCHANGED <<n, userData, useF, frames>>

-----------------------------------------------------------------------------
(* Slip: a cursor that is in use is handed out again. *)
FirstUnused_Any(i) == i = 0

(* The first unused cursor; with all in use the call fails. *)
FirstUnused(i) == ~ useF[i] /\ \A j \in Steps : j < i => useF[j]

(* The cursors their owner got from DList_openStep. *)
Opened == {i \in Steps : useF[i] /\ \A d \in DOMAIN frames : frames[d] # i}

OpenStep(i) ==
  /\ FirstUnused(i)
  /\ useF' = [useF EXCEPT ![i] = TRUE]
  /\ use' = [use EXCEPT ![i] = head]
  /\ UNCHANGED <<nodeVars, frames>>

(* At the end of the list the call fails and the cursor stays. *)
FetchStep(i) ==
  /\ i \in Opened
  /\ use[i] # NULL
  /\ use' = [use EXCEPT ![i] = n[use[i]]]
  /\ UNCHANGED <<nodeVars, useF, frames>>

CloseStep(i) ==
  /\ i \in Opened
  /\ useF' = [useF EXCEPT ![i] = FALSE]
  /\ use' = [use EXCEPT ![i] = NULL]
  /\ UNCHANGED <<nodeVars, frames>>

(* DList_step (and DList_step2) on a list that is not empty: the cursor is  *)
(* past the first node when the callback gets it.                           *)
StepCall(i) ==
  /\ FirstUnused(i)
  /\ head # NULL
  /\ useF' = [useF EXCEPT ![i] = TRUE]
  /\ use' = [use EXCEPT ![i] = n[head]]
  /\ frames' = <<i>> \o frames
  /\ UNCHANGED nodeVars

(* The callback returns 0: on to the next node, or out.                     *)
StepNext ==
  LET i == Head(frames)
  IN /\ frames # <<>>
     /\ IF use[i] # NULL
        THEN /\ use' = [use EXCEPT ![i] = n[use[i]]]
             /\ UNCHANGED <<useF, frames>>
        ELSE /\ useF' = [useF EXCEPT ![i] = FALSE]
             /\ frames' = Tail(frames)
             /\ UNCHANGED use
     /\ UNCHANGED nodeVars

(* The callback returns an error.                                           *)
StepError ==
  LET i == Head(frames)
  IN /\ frames # <<>>
     /\ useF' = [useF EXCEPT ![i] = FALSE]
     /\ use' = [use EXCEPT ![i] = NULL]
     /\ frames' = Tail(frames)
     /\ UNCHANGED nodeVars

Next ==
  \/ \E k \in Keys : Add(k) \/ Del(k)
  \/ \E q \in Nodes \union {NULL} : Clear(q)
  \/ \E i \in Steps : OpenStep(i) \/ FetchStep(i) \/ CloseStep(i) \/ StepCall(i)
  \/ StepNext \/ StepError

Spec == Init /\ [][Next]_vars

-----------------------------------------------------------------------------
(* The types of the fields; no cursor belongs to two calls.                 *)
TypeOK ==
  /\ head \in Nodes \union {NULL}
  /\ cnt \in Nat
  /\ n \in [Nodes -> Nodes \union {NULL}]
  /\ f \in [Nodes -> Nodes \union {NULL}]
  /\ userData \in [Nodes -> Keys]
  /\ live \subseteq Nodes
  /\ useF \in [Steps -> BOOLEAN]
  /\ use \in [Steps -> Nodes \union {NULL}]
  /\ frames \in Seq(Steps)
  /\ \A d \in DOMAIN frames : useF[frames[d]]
  /\ \A d, e \in DOMAIN frames : frames[d] = frames[e] => d = e

Neighbours ==
  /\ head # NULL => head \in live /\ f[head] = NULL
  /\ \A p \in live : n[p] # NULL => n[p] \in live /\ f[n[p]] = p
  /\ \A p \in live : f[p] # NULL => f[p] \in live /\ n[f[p]] = p
  /\ \A p \in live : f[p] = NULL => p = head

NoLeak == live \subseteq Reach(head)

(* After any sequence of calls, nested ones included, the two chains agree, *)
(* the nodes in the list are exactly the ones allocated, and cnt, by which  *)
(* the crawl decides that it is through, is their number.                   *)
WellLinked == Neighbours /\ NoLeak /\ cnt = Cardinality(live)

(* No cursor that will still be used stands on a freed node, whatever was   *)
(* deleted while it was open, and by whichever call.                        *)
NoDangling ==
  \A i \in Steps : IF useF[i] THEN use[i] \in live \union {NULL} ELSE use[i] = NULL

(* No key is in the list twice. *)
DistinctKeys == \A p, q \in live : userData[p] = userData[q] => p = q

-----------------------------------------------------------------------------
(* The keys along next from x: no walk is longer than there are nodes. *)
KeysFrom(next, data, x) ==
  LET w[d \in Nat] == [p \in Nodes \union {NULL} |->
        IF d = 0 \/ p = NULL THEN <<>> ELSE <<data[p]>> \o w[d - 1][next[p]]]
  IN w[Cardinality(Nodes)][x]

Walk(x) == KeysFrom(n, userData, x)

(* What module CursorList makes of the nodes: the keys along n from the head *)
(* and, for each cursor in use, those along n from its node.                 *)
itemsBar == Walk(head)
openBar  == {i \in Steps : useF[i]}
restBar  == [i \in Steps |-> IF useF[i] THEN Walk(use[i]) ELSE <<>>]

L == INSTANCE CursorList WITH items <- itemsBar, open <- openBar, rest <- restBar

(* Each call does to the sequence and to every open cursor what the abstract *)
(* list says: a cursor delivers each key that was there when it was opened   *)
(* and has not been deleted since, once and in order, and no other.          *)
ImplementsList == L!Spec
=============================================================================
