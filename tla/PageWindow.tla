------------------------------ MODULE PageWindow ------------------------------
(***************************************************************************)
(* The list of the court site has thousands of pages; a shard crawls the   *)
(* pages between two numbers, llt and lgt of src/src/spider.c.  A window   *)
(* is the record of the two, 0 for a bound that is not set.                *)
(***************************************************************************)
EXTENDS Integers

Windows == [lgt : Nat, llt : Nat]

NoBounds == [lgt |-> 0, llt |-> 0]

(* etc/shixin.conf: whether it is there, and the window that it sets. *)
PageFiles == [there : BOOLEAN, win : Windows]

(* get_shixin_pagecondition: the file, when it is there, hides the         *)
(* environment of the process, all of it, even when it sets one bound only *)
(* or this process cannot open it.                                         *)
Conditions(file, env, opens) ==
  CASE ~ file.there           -> env
    [] file.there /\ opens    -> file.win
    [] file.there /\ ~ opens  -> NoBounds

(* The pages of the shard. *)
Inside(win, p) ==
  /\ win.llt # 0 => p <= win.llt
  /\ win.lgt # 0 => p >= win.lgt

(* Windows that hold the page they are entered by. *)
Sound(win) == win.lgt = 0 \/ win.llt = 0 \/ win.lgt <= win.llt

(* Slips: the last page of the window is left out; && for ||. *)
Outside_Last(win, p) ==
  \/ win.llt # 0 /\ p >= win.llt
  \/ win.lgt # 0 /\ p < win.lgt

Outside_And(win, p) ==
  \/ win.llt # 0 /\ win.lgt = 0 /\ p > win.llt
  \/ win.lgt # 0 /\ win.llt = 0 /\ p < win.lgt
  \/ win.llt # 0 /\ win.lgt # 0 /\ p > win.llt /\ p < win.lgt

(* The three tests of get_href on the page number of a gotoPage link. *)
Outside(win, p) ==
  \/ win.llt # 0 /\ win.lgt = 0 /\ p > win.llt
  \/ win.lgt # 0 /\ win.llt = 0 /\ p < win.lgt
  \/ win.llt # 0 /\ win.lgt # 0 /\ (p > win.llt \/ p < win.lgt)

(* The page that takes the place of the first link out of the window: the  *)
(* way into it.                                                            *)
Entry(win) == IF win.lgt # 0 THEN win.lgt ELSE win.llt

-----------------------------------------------------------------------------
(* The windows that the scripts export: ten shards of a thousand pages for *)
(* the units, the last without an end; as many as it takes for the persons.*)
BatchWindow(k) ==
  [lgt |-> IF k = 0 THEN 0 ELSE 1000 * k + 1,
   llt |-> IF k = 9 THEN 0 ELSE 1000 * (k + 1)]

UnitWindow(k) == [BatchWindow(k) EXCEPT !.lgt = 1000 * k + 1]

PersonWindow(k) == [lgt |-> 1000 * k + 1, llt |-> 1000 * (k + 1)]
=============================================================================
