------------------------------- MODULE Progress -------------------------------
(***************************************************************************)
(* The progress row.  The scripts start one supervisor after the other,    *)
(* each leaves its terminal, and so several of them run at a time.  Each   *)
(* runs the crawl of one shard, counts the claims in the tables of all     *)
(* shards, and writes the percentage into the one row that the interface   *)
(* reads: the end of main() in src/src/main.c with RefreshProgress of      *)
(* src/src/db_schedule.ec.  What a supervisor does before its loop is in   *)
(* SpiderSystem; here a crawl is a table that fills until it is over.      *)
(***************************************************************************)
EXTENDS Integers, FiniteSets

CONSTANTS N,         \* the number of tables in ipclist
          Cap,       \* bound: claims in one table
          TotalCnt,  \* TOTALCNT, the claims that make 100 percent
          Old,       \* what a crawl of the day before left in the tables
          Faults     \* "db", "shm", "select", "update", "commit", "kill"

Shards == 1 .. N

ASSUME ProgressAssumption ==
  /\ N \in Nat \ {0}
  /\ Cap \in Nat
  /\ TotalCnt \in Nat \ {0}
  /\ Old \in [Shards -> 0 .. Cap]

VARIABLES table,   \* the claims in each table
          on,      \* the shard's workers are at work
          wiped,   \* history: a table with claims was cleared while others counted
          pc,      \* where the shard's supervisor is
          last,    \* its last child was reaped
          j,       \* the table it counts next
          icnt,    \* the claims it has counted
          lock,    \* whose transaction has the row, 0 for nobody's
          row,     \* the row: the percentage and who wrote it
          final    \* history: the round of the shard's supervisor got into the row

vars == <<table, on, wiped, pc, last, j, icnt, lock, row, final>>

PC == {"off", "connect", "open", "reap", "count", "select", "update", "commit",
       "sleep", "end", "left", "dead"}

Gone == {"off", "end", "left", "dead"}

Init ==
  /\ table = Old
  /\ on = [s \in Shards |-> FALSE]
  /\ wiped = FALSE
  /\ pc = [s \in Shards |-> "off"]
  /\ last = [s \in Shards |-> FALSE]
  /\ j = [s \in Shards |-> 1]
  /\ icnt = [s \in Shards |-> 0]
  /\ lock = 0
  /\ row = [progress |-> 0, pid |-> 0]
  /\ final = [s \in Shards |-> FALSE]

Goto(s, to) == pc' = [pc EXCEPT ![s] = to]

-----------------------------------------------------------------------------
(* The script has the shard's table cleared and its crawl started. *)
Start(s) ==
  /\ pc[s] = "off"
  /\ table' = [table EXCEPT ![s] = 0]
  /\ on' = [on EXCEPT ![s] = TRUE]
  /\ wiped' = (wiped \/ (table[s] > 0 /\ \E r \in Shards : pc[r] # "off"))
  /\ Goto(s, "connect")
  /\ UNCHANGED <<last, j, icnt, lock, row, final>>

(* The workers record URLs, whether their supervisor lives or not ... *)
Claim(s) ==
  /\ on[s]
  /\ table[s] < Cap
  /\ table' = [table EXCEPT ![s] = @ + 1]
  /\ UNCHANGED <<on, wiped, pc, last, j, icnt, lock, row, final>>

(* ... and end. *)
CrawlOver(s) ==
  /\ on[s]
  /\ on' = [on EXCEPT ![s] = FALSE]
  /\ UNCHANGED <<table, wiped, pc, last, j, icnt, lock, row, final>>

-----------------------------------------------------------------------------
Connect(s) ==
  /\ pc[s] = "connect"
  /\ \/ Goto(s, "open")
     \/ "db" \in Faults /\ Goto(s, "left")
  /\ UNCHANGED <<table, on, wiped, last, j, icnt, lock, row, final>>

(* A table that cannot be opened is logged and skipped; counting it then    *)
(* reads at a null pointer, and the supervisor dies in its first round.     *)
OpenTables(s) ==
  /\ pc[s] = "open"
  /\ \/ Goto(s, "reap")
     \/ "shm" \in Faults /\ Goto(s, "dead")
  /\ UNCHANGED <<table, on, wiped, last, j, icnt, lock, row, final>>

Reap(s) ==
  /\ pc[s] = "reap"
  /\ last' = [last EXCEPT ![s] = ~ on[s]]
  /\ final' = [final EXCEPT ![s] = FALSE]
  /\ Goto(s, "count")
  /\ UNCHANGED <<table, on, wiped, j, icnt, lock, row>>

CountTable(s) ==
  /\ pc[s] = "count"
  /\ j[s] <= N
  /\ icnt' = [icnt EXCEPT ![s] = @ + table[j[s]]]
  /\ j' = [j EXCEPT ![s] = @ + 1]
  /\ UNCHANGED <<table, on, wiped, pc, last, lock, row, final>>

(* What is written for a count; nothing is written for 0.  The code divides *)
(* doubles, which may fall one short where n * 100 is a multiple of         *)
(* TotalCnt: no property tells the two apart.                               *)
Percent(n) == IF n > TotalCnt THEN 100 ELSE (n * 100) \div TotalCnt

Decide(s) ==
  /\ pc[s] = "count"
  /\ j[s] > N
  /\ Goto(s, IF Percent(icnt[s]) = 0 THEN "sleep" ELSE "select")
  /\ UNCHANGED <<table, on, wiped, last, j, icnt, lock, row, final>>

-----------------------------------------------------------------------------
(* RefreshProgress: begin and read the row; it is read for its other        *)
(* columns, and a read locks nothing.                                       *)
SelectRow(s) ==
  /\ pc[s] = "select"
  /\ \/ Goto(s, "update")
     \/ "select" \in Faults /\ Goto(s, "sleep")
  /\ UNCHANGED <<table, on, wiped, last, j, icnt, lock, row, final>>

(* The update waits for the row and has it until the transaction ends. *)
UpdateRow(s) ==
  /\ pc[s] = "update"
  /\ lock = 0
  /\ lock' = s
  /\ Goto(s, "commit")
  /\ UNCHANGED <<table, on, wiped, last, j, icnt, row, final>>

(* Slip: the failed transaction is not rolled back. *)
UpdateFail_Open(s) ==
  /\ pc[s] = "update"
  /\ lock = 0
  /\ "update" \in Faults
  /\ lock' = s
  /\ Goto(s, "sleep")
  /\ UNCHANGED <<table, on, wiped, last, j, icnt, row, final>>

UpdateFail(s) ==
  /\ pc[s] = "update"
  /\ lock = 0
  /\ "update" \in Faults
  /\ Goto(s, "sleep")
  /\ UNCHANGED <<table, on, wiped, last, j, icnt, lock, row, final>>

(* Nobody asks whether the commit came through. *)
Commit(s) ==
  /\ pc[s] = "commit"
  /\ lock' = 0
  /\ \/ /\ row' = [progress |-> Percent(icnt[s]), pid |-> s]
        /\ final' = [final EXCEPT ![s] = TRUE]
     \/ "commit" \in Faults /\ UNCHANGED <<row, final>>
  /\ Goto(s, "sleep")
  /\ UNCHANGED <<table, on, wiped, last, j, icnt>>

-----------------------------------------------------------------------------
(* Slips: the last table alone is counted again; the children are asked     *)
(* about after the count.                                                   *)
NextRound_Last(s) == icnt' = [icnt EXCEPT ![s] = 0] /\ j' = [j EXCEPT ![s] = N]

LastRound_Now(s) == ~ on[s]

(* A round begins with its counters at 0; the round that follows the last   *)
(* reaped child is the last one.                                            *)
NextRound(s) == icnt' = [icnt EXCEPT ![s] = 0] /\ j' = [j EXCEPT ![s] = 1]

LastRound(s) == last[s]

Sleep(s) ==
  /\ pc[s] = "sleep"
  /\ NextRound(s)
  /\ Goto(s, IF LastRound(s) THEN "end" ELSE "reap")
  /\ UNCHANGED <<table, on, wiped, last, lock, row, final>>

(* The server rolls back what a killed supervisor had begun. *)
Kill(s) ==
  /\ "kill" \in Faults
  /\ pc[s] \notin Gone
  /\ lock' = IF lock = s THEN 0 ELSE lock
  /\ Goto(s, "dead")
  /\ NextRound(s)
  /\ last' = [last EXCEPT ![s] = FALSE]
  /\ UNCHANGED <<table, on, wiped, row, final>>

-----------------------------------------------------------------------------
Own(s) ==
  \/ Connect(s) \/ OpenTables(s) \/ Reap(s) \/ CountTable(s) \/ Decide(s)
  \/ SelectRow(s) \/ UpdateRow(s) \/ UpdateFail(s) \/ Commit(s) \/ Sleep(s)

Finished == (\A s \in Shards : pc[s] \in Gone \ {"off"} /\ ~ on[s]) /\ UNCHANGED vars

Next ==
  \/ \E s \in Shards : Start(s) \/ Claim(s) \/ CrawlOver(s) \/ Own(s) \/ Kill(s)
  \/ Finished

Spec == Init /\ [][Next]_vars

(* The kernel runs a supervisor that can go on, and a crawl ends. *)
Fairness == \A s \in Shards : WF_vars(Own(s)) /\ WF_vars(CrawlOver(s))

FairSpec == Spec /\ Fairness

-----------------------------------------------------------------------------
TypeOK ==
  /\ table \in [Shards -> Nat]
  /\ on \in [Shards -> BOOLEAN]
  /\ wiped \in BOOLEAN
  /\ pc \in [Shards -> PC]
  /\ last \in [Shards -> BOOLEAN]
  /\ j \in [Shards -> 1 .. N + 1]
  /\ icnt \in [Shards -> Nat]
  /\ lock \in 0 .. N
  /\ row \in [progress : 0 .. 100, pid : 0 .. N]
  /\ final \in [Shards -> BOOLEAN]

(* The claims in the tables 1 .. n. *)
Held[n \in 0 .. N] == IF n = 0 THEN 0 ELSE Held[n - 1] + table[n]

(* The row is never ahead of the tables unless one with claims was cleared   *)
(* under the supervisors; and where the one who wrote it has ended with its  *)
(* last round in, it is not behind that shard: its last claims are counted.  *)
RowRight ==
  /\ ~ wiped => row.progress <= Percent(Held[N])
  /\ \A s \in Shards :
       row.pid = s /\ pc[s] = "end" /\ final[s] => row.progress >= Percent(table[s])

(* What one supervisor writes goes up as long as no table is cleared under   *)
(* it: the row goes back only when another one writes over it, whose count   *)
(* was older.                                                                *)
BackOnlyByOther ==
  [][row'.pid = row.pid /\ ~ wiped => row'.progress >= row.progress]_vars

(* Every supervisor comes to its end, whatever fails in the transactions of  *)
(* the others: the row is always given free.                                 *)
SupsEnd == \A s \in Shards : pc[s] # "off" ~> pc[s] \in Gone
=============================================================================
