------------------------------ MODULE MCProgress ------------------------------
(* The last table holds two claims of the day before. *)
EXTENDS Progress

OldTables == [s \in Shards |-> IF s = N THEN 2 ELSE 0]
=============================================================================
