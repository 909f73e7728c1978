---------------------------- MODULE MCSpiderShard ----------------------------
(* A list of three pages and what its pages hold. *)
EXTENDS SpiderShard, TLC

CONSTANTS p1, p2, list, det, mail, about, idw, adw, listw

SiteWords == [b \in Bases |-> CASE b = det  -> {idw}
                               [] b = list -> {listw}
                               [] b = mail -> {idw}
                               [] OTHER    -> {}]

to(k, b) == [kind |-> k, to |-> b, page |-> 0, text |-> {}]
goto(n) == [kind |-> "goto", to |-> list, page |-> n, text |-> {}]

(* The pages of the list: the pager's links to the neighbours, a record,    *)
(* and links that the filters do not let pass: one without a word they look *)
(* for, one with a character that checkurl refuses, the record again under  *)
(* a text they filter out.                                                  *)
Pager(n) ==
  CASE n = 1 -> <<goto(2)>>
    [] n = 2 -> <<goto(1), to("own", about), goto(3), to("id", det)>>
    [] n = 3 -> <<goto(2), to("path", mail), [to("own", det) EXCEPT !.text = {adw}]>>

Site == [u \in Urls |-> IF u.base # list THEN <<>>
                        ELSE Pager(IF u.page = 0 THEN 1 ELSE u.page)]

(* Records and lists are wanted, advertised ones are not; records are saved. *)
SiteConf ==
  [f \in ConfFiles |-> CASE f = "contentfilter"  -> {adw}
                         [] f = "urlinvolve"     -> {idw, listw}
                         [] f = "fileurlinvolve" -> {idw}
                         [] OTHER                -> {}]

ASSUME SitePaged == Paged

(* The script exports the first pages to the shard; a file that is there    *)
(* makes it the last ones.                                                  *)
ShardWindows == {[lgt |-> 0, llt |-> 2]}

ShardFiles == {[there |-> FALSE, win |-> NoBounds],
               [there |-> TRUE, win |-> [lgt |-> 2, llt |-> 3]]}

ProcSymmetry == Permutations(Procs)
=============================================================================
