------------------------------ MODULE FreePool ------------------------------
(***************************************************************************)
(* What the buffer pool and the message queue promise to the two threads   *)
(* that pass buffers around: the subscriber gets a buffer that nobody else *)
(* has, hands it over or gives it back; the worker gives back what it has  *)
(* taken over; and nullptr is returned only if at some moment of the call  *)
(* there was no free buffer.  `refused` is that nullptr on its way.        *)
(***************************************************************************)
EXTENDS Naturals, Sequences

CONSTANTS Buffers, QueueCapacity

VARIABLES free, queue, held, refused

poolVars == <<free, queue, held, refused>>

Init ==
  /\ free = Buffers
  /\ queue = <<>>
  /\ held = [t \in {"subscriber", "worker"} |-> {}]
  /\ refused = FALSE

Allocate(b) ==
  /\ held["subscriber"] = {} /\ ~ refused
  /\ b \in free
  /\ free' = free \ {b}
  /\ held' = [held EXCEPT !["subscriber"] = {b}]
  /\ UNCHANGED <<queue, refused>>

Refuse ==
  /\ held["subscriber"] = {} /\ ~ refused
  /\ free = {}
  /\ refused' = TRUE
  /\ UNCHANGED <<free, queue, held>>

ReturnNull ==
  /\ refused
  /\ refused' = FALSE
  /\ UNCHANGED <<free, queue, held>>

HandOver(b) ==
  /\ held["subscriber"] = {b}
  /\ Len(queue) < QueueCapacity
  /\ queue' = Append(queue, b)
  /\ held' = [held EXCEPT !["subscriber"] = {}]
  /\ UNCHANGED <<free, refused>>

TakeOver ==
  /\ held["worker"] = {}
  /\ queue # <<>>
  /\ queue' = Tail(queue)
  /\ held' = [held EXCEPT !["worker"] = {Head(queue)}]
  /\ UNCHANGED <<free, refused>>

Deallocate(t, b) ==
  /\ held[t] = {b} /\ b \notin free
  /\ free' = free \cup {b}
  /\ held' = [held EXCEPT ![t] = {}]
  /\ UNCHANGED <<queue, refused>>

Next ==
  \/ Refuse \/ ReturnNull \/ TakeOver
  \/ \E b \in Buffers :
       Allocate(b) \/ HandOver(b) \/ \E t \in {"subscriber", "worker"} : Deallocate(t, b)

Spec == Init /\ [][Next]_poolVars
=============================================================================
