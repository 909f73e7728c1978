------------------------------ MODULE CurlHandle ------------------------------
(***************************************************************************)
(* GetHtmlByUrl of src/src/spider.c and the one curl handle of each        *)
(* process.  The handle is made again after every RENEW pages and after    *)
(* every failed request; what was set on it stays until then, the body of  *)
(* a POST too.                                                             *)
(*                                                                         *)
(* A URL is a record: base is its text before POSTTYPE, page the number in *)
(* currentPage=, 0 when there is no POSTTYPE in it.                        *)
(***************************************************************************)
EXTENDS Integers

CONSTANTS Procs,      \* the processes
          Bases,      \* the plain URLs of the site
          Lists,      \* those that answer a POST with one page of a list
          MaxPage,    \* the last page of a list
          RENEW,      \* the 100 of "totalcnt%100 == 0"
          Faults,     \* which calls may fail
          NoUrl

Urls == [base : Bases, page : 0 .. MaxPage]

ASSUME CurlAssumption ==
  /\ Lists \subseteq Bases
  /\ MaxPage \in Nat
  /\ RENEW \in Nat \ {0}
  /\ NoUrl \notin Urls

VARIABLES pCurl,     \* the process's handle is made
          handles,   \* how many handles it has not cleaned up
          body,      \* the page in the handle's POSTFIELDS, 0 for none
          totalcnt,  \* pages got, modulo RENEW: nothing else is asked of it
          served,    \* history: pages got over this handle
          asked      \* the URL of its request, NoUrl outside GetHtmlByUrl

curlVars == <<pCurl, handles, body, totalcnt, served, asked>>

CurlInit ==
  /\ pCurl = [p \in Procs |-> FALSE]
  /\ handles = [p \in Procs |-> 0]
  /\ body = [p \in Procs |-> 0]
  /\ totalcnt = [p \in Procs |-> 0]
  /\ served = [p \in Procs |-> 0]
  /\ asked = [p \in Procs |-> NoUrl]

-----------------------------------------------------------------------------
(* open_resource makes the first handle. *)
FirstHandle(p) ==
  /\ pCurl' = [pCurl EXCEPT ![p] = TRUE]
  /\ handles' = [handles EXCEPT ![p] = @ + 1]
  /\ UNCHANGED <<body, totalcnt, served, asked>>

(* Slip: the old handle is not cleaned up. *)
Renew_NoCleanup(p, made, b) ==
  /\ pCurl' = [pCurl EXCEPT ![p] = made]
  /\ handles' = [handles EXCEPT ![p] = @ + IF made THEN 1 ELSE 0]
  /\ body' = [body EXCEPT ![p] = b]
  /\ served' = [served EXCEPT ![p] = 0]

(* curl_easy_cleanup and curl_easy_init, and b as the first body; the       *)
(* second may fail, the first of a null handle does nothing.                *)
Renew(p, made, b) ==
  /\ made \/ "init" \in Faults
  /\ pCurl' = [pCurl EXCEPT ![p] = made]
  /\ handles' = [handles EXCEPT ![p] = @ - (IF pCurl[p] THEN 1 ELSE 0)
                                         + (IF made THEN 1 ELSE 0)]
  /\ body' = [body EXCEPT ![p] = b]
  /\ served' = [served EXCEPT ![p] = 0]

(* Slip: the body is set when the handle has none yet. *)
SetBody_Once(u, b) == IF u.page # 0 /\ b = 0 THEN u.page ELSE b

(* A URL with POSTTYPE sets the URL and the body, another one the URL alone. *)
SetBody(u, b) == IF u.page # 0 THEN u.page ELSE b

(* GetHtmlByUrl up to the request; on a null handle nothing can be set. *)
Call(p, u) ==
  /\ asked[p] = NoUrl
  /\ asked' = [asked EXCEPT ![p] = u]
  /\ IF totalcnt[p] = 0
     THEN Renew(p, TRUE, SetBody(u, 0))
     ELSE /\ body' = [body EXCEPT ![p] = IF pCurl[p] THEN SetBody(u, @) ELSE @]
          /\ UNCHANGED <<pCurl, handles, served>>
  /\ UNCHANGED totalcnt

(* A handle that is due and cannot be made ends the call before the request. *)
CallFail(p) ==
  /\ asked[p] = NoUrl
  /\ totalcnt[p] = 0
  /\ Renew(p, FALSE, 0)
  /\ UNCHANGED <<totalcnt, asked>>

(* What may come back.  A body set by an earlier call points into a stack   *)
(* frame that is gone: it is the old text or anything else, which the site *)
(* takes for no page number.  Only a list looks at it.                     *)
Answers(p) ==
  LET plain  == [asked[p] EXCEPT !.page = 0]
      posted == [asked[p] EXCEPT !.page = body[p]]
  IN IF asked[p].page # 0         THEN {posted}
     ELSE IF asked[p].base \in Lists THEN {plain, posted}
     ELSE {plain}

(* The request is answered with the page c. *)
PerformOk(p, c) ==
  /\ asked[p] # NoUrl
  /\ pCurl[p]
  /\ c \in Answers(p)
  /\ totalcnt' = [totalcnt EXCEPT ![p] = IF @ + 1 = RENEW THEN 0 ELSE @ + 1]
  /\ served' = [served EXCEPT ![p] = @ + 1]
  /\ asked' = [asked EXCEPT ![p] = NoUrl]
  /\ UNCHANGED <<pCurl, handles, body>>

(* A request fails, on a null handle always, and the handle is made again. *)
PerformFail(p) ==
  /\ asked[p] # NoUrl
  /\ "fetch" \in Faults \/ ~ pCurl[p]
  /\ \E made \in BOOLEAN : Renew(p, made, 0)
  /\ asked' = [asked EXCEPT ![p] = NoUrl]
  /\ UNCHANGED totalcnt

-----------------------------------------------------------------------------
CurlTypeOK ==
  /\ pCurl \in [Procs -> BOOLEAN]
  /\ handles \in [Procs -> Int]
  /\ body \in [Procs -> 0 .. MaxPage]
  /\ totalcnt \in [Procs -> 0 .. RENEW - 1]
  /\ served \in [Procs -> Nat]
  /\ asked \in [Procs -> Urls \union {NoUrl}]

(* Whatever calls fail, in whatever order: a process never owns another    *)
(* handle than the one it uses, none when that is null, and no handle is    *)
(* used for more than RENEW pages, though failures renew it in between and *)
(* do not count.                                                           *)
HandleSound ==
  \A p \in Procs :
    /\ handles[p] = IF pCurl[p] THEN 1 ELSE 0
    /\ served[p] <= RENEW
=============================================================================
