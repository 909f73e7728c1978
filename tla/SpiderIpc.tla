------------------------------ MODULE SpiderIpc ------------------------------
(***************************************************************************)
(* The System V IPC objects that the crawler's processes share, and the    *)
(* operations of src/src/common.c on them: one message queue (the "todo    *)
(* list" of the MULTI_PROC build), one semaphore and one shared table of   *)
(* URL slots (the "done list").  Each operator is the effect of one call;  *)
(* the modules that EXTEND this one put it in an action and say what the   *)
(* calling process does next.                                              *)
(***************************************************************************)
EXTENDS Integers, Sequences

CONSTANTS Workers,    \* the forked spider processes
          Urls,       \* the URLs of the site
          QueueCap,   \* messages that fit in the queue (msg_qbytes / message size)
          UrlNum,     \* URL_NUM: slots of the shared table
          EMPTY       \* a slot of length 0

ASSUME IpcAssumption ==
  /\ QueueCap \in Nat \ {0}
  /\ UrlNum \in Nat \ {0}
  /\ EMPTY \notin Urls

VARIABLES queue,      \* the message queue, oldest message first
          semval,     \* value of semaphore 0
          semadj,     \* per process, what SEM_UNDO adds to semval when it ends
          donelist    \* the slots of the shared table

ipcVars == <<queue, semval, semadj, donelist>>

Slots == 0 .. UrlNum - 1

(* stDefurldata: what one message of the queue carries. *)
Msg(u, d, n) == [url |-> u, depth |-> d, analyse_cnt |-> n]
Msgs == [url : Urls, depth : Nat, analyse_cnt : Nat]

(* The objects as a run of main.c leaves them to its workers: an empty     *)
(* table and the messages it sent itself.                                  *)
IpcInit(sent) ==
  /\ queue = sent
  /\ semval = 0
  /\ semadj = [w \in Workers |-> 0]
  /\ donelist = [i \in Slots |-> EMPTY]

-----------------------------------------------------------------------------
(* SendUnixMsgQ: msgsnd with flag 0 sleeps while the queue is full. *)
SendUnixMsgQ(m) ==
  /\ Len(queue) < QueueCap
  /\ queue' = Append(queue, m)

(* IntervalRecvUnixMsgQ: msgrcv takes the oldest message ...  *)
RecvUnixMsgQ ==
  /\ queue # <<>>
  /\ queue' = Tail(queue)

(* Slip: the call gives up although a message is there. *)
RecvTimedOut_Early == UNCHANGED queue

(* ... and the alarm ends the call when none has come for the interval. *)
RecvTimedOut ==
  /\ queue = <<>>
  /\ UNCHANGED queue

(* ClearQueue: msgrcv with IPC_NOWAIT until it fails. *)
ClearQueue == queue' = <<>>

-----------------------------------------------------------------------------
(* Slip: the operation that waits for 0 is left out. *)
LockSharedMem_NoWait(w) ==
  /\ semval' = semval + 1
  /\ semadj' = [semadj EXCEPT ![w] = @ - 1]

(* LockSharedMem: one semop of two operations, wait for 0 and add 1 with     *)
(* SEM_UNDO; the kernel does both or sleeps.                                 *)
LockSharedMem(w) ==
  /\ semval = 0
  /\ semval' = 1
  /\ semadj' = [semadj EXCEPT ![w] = @ - 1]

(* UnlockSharedMem: subtract 1 with IPC_NOWAIT and SEM_UNDO; on a semaphore  *)
(* that is already 0 the call fails, is logged and reports success.          *)
UnlockSharedMem(w) ==
  IF semval > 0
  THEN /\ semval' = semval - 1
       /\ semadj' = [semadj EXCEPT ![w] = @ + 1]
  ELSE UNCHANGED <<semval, semadj>>

(* Slip: the operations lack SEM_UNDO. *)
SemUndo_None(w) == UNCHANGED <<semval, semadj>>

(* What the kernel does with the undo count of a process that ends. *)
SemUndo(w) ==
  /\ semval' = IF semval + semadj[w] < 0 THEN 0 ELSE semval + semadj[w]
  /\ semadj' = [semadj EXCEPT ![w] = 0]

-----------------------------------------------------------------------------
(* The linear searches over the slots: is the URL there, which slot is the   *)
(* first empty one (UrlNum when the search falls off the end).               *)
Recorded == {donelist[i] : i \in Slots} \ {EMPTY}

IsFirstFree(i) ==
  /\ i \in 0 .. UrlNum
  /\ \A j \in Slots : j < i => donelist[j] # EMPTY
  /\ i \in Slots => donelist[i] = EMPTY

-----------------------------------------------------------------------------
IpcTypeOK ==
  /\ queue \in Seq(Msgs)
  /\ Len(queue) <= QueueCap
  /\ semval \in {0, 1}
  /\ semadj \in [Workers -> {-1, 0}]
  /\ donelist \in [Slots -> Urls \union {EMPTY}]

=============================================================================
