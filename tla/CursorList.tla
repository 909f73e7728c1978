----------------------------- MODULE CursorList -----------------------------
(***************************************************************************)
(* What the list of src/src/dlist.c promises: a sequence of keys, newest   *)
(* first, no key twice, and cursors, each of which still owes its owner a  *)
(* sequence of keys.  A key that is deleted is owed to nobody; a key added *)
(* after a cursor was opened is not owed by it.                            *)
(***************************************************************************)
EXTENDS Sequences, SequencesExt

CONSTANTS Keys, Steps

VARIABLES items,   \* the keys in the list
          open,    \* the cursors in use
          rest     \* what each cursor will still deliver

vars == <<items, open, rest>>

Init ==
  /\ items = <<>>
  /\ open = {}
  /\ rest = [i \in Steps |-> <<>>]

(* s without the keys of S. *)
Without(s, S) ==
  LET F[i \in 0 .. Len(s)] ==
        IF i = 0 THEN <<>>
        ELSE IF s[i] \in S THEN F[i - 1] ELSE Append(F[i - 1], s[i])
  IN F[Len(s)]

Add(k) ==
  /\ k \notin ToSet(items)
  /\ items' = <<k>> \o items
  /\ UNCHANGED <<open, rest>>

Forget(S) ==
  /\ items' = Without(items, S)
  /\ rest' = [i \in Steps |-> Without(rest[i], S)]
  /\ UNCHANGED open

Open(i, s) ==
  /\ i \notin open
  /\ open' = open \union {i}
  /\ rest' = [rest EXCEPT ![i] = s]
  /\ UNCHANGED items

Fetch(i) ==
  /\ i \in open
  /\ rest[i] # <<>>
  /\ rest' = [rest EXCEPT ![i] = Tail(@)]
  /\ UNCHANGED <<items, open>>

Close(i) ==
  /\ i \in open
  /\ open' = open \ {i}
  /\ rest' = [rest EXCEPT ![i] = <<>>]
  /\ UNCHANGED items

(* A cursor starts with the whole list, or past the key already handed to  *)
(* the callback of a walk; a clear takes keys off the front.               *)
Next ==
  \/ \E k \in Keys : Add(k) \/ Forget({k})
  \/ \E j \in 1 .. Len(items) : Forget(ToSet(SubSeq(items, 1, j)))
  \/ \E i \in Steps : \/ Open(i, items)
                      \/ items # <<>> /\ Open(i, Tail(items))
                      \/ Fetch(i) \/ Close(i)

Spec == Init /\ [][Next]_vars
=============================================================================
