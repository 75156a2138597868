---------------------------- MODULE BoundedFifo ----------------------------
(***************************************************************************)
(* What a single-producer single-consumer queue of this program promises   *)
(* to the two threads that share it: a bounded FIFO.  `items` is what the  *)
(* consumer has not yet taken, `taken` the last value it took, `accepted`  *)
(* and `found` the answers of the last finished enqueue and of the last    *)
(* dequeue.                                                                *)
(*                                                                         *)
(* A consumer takes a value when it copies it out of its slot and gives    *)
(* the slot back a little later; a producer may therefore be refused while *)
(* one place is already logically free, and never earlier than that.       *)
(***************************************************************************)
EXTENDS Naturals, Sequences

CONSTANTS Items,      \* what is queued: buffer pointers or statistics records
          Null,       \* what a consumer holds before its first dequeue
          Capacity    \* how many items fit, a natural number

VARIABLES items, taken, accepted, found

fifoVars == <<items, taken, accepted, found>>

Init ==
  /\ items = <<>>
  /\ taken = Null
  /\ accepted = FALSE
  /\ found = FALSE

Put(b) ==
  /\ Len(items) < Capacity
  /\ items' = Append(items, b)
  /\ accepted' = TRUE
  /\ UNCHANGED <<taken, found>>

Refuse ==
  /\ Len(items) + 1 >= Capacity
  /\ accepted' = FALSE
  /\ UNCHANGED <<items, taken, found>>

Take ==
  /\ items # <<>>
  /\ taken' = Head(items)
  /\ items' = Tail(items)
  /\ found' = TRUE
  /\ UNCHANGED accepted

FindEmpty ==
  /\ items = <<>>
  /\ found' = FALSE
  /\ UNCHANGED <<items, taken, accepted>>

Next == Take \/ FindEmpty \/ Refuse \/ \E b \in Items : Put(b)

Spec == Init /\ [][Next]_fifoVars
=============================================================================
