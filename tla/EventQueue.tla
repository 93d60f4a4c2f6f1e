----------------------------- MODULE EventQueue -----------------------------
(***************************************************************************)
(* What app_scheduler promises its callers: a bounded queue of events that *)
(* the main loop handles one by one, in the order in which they were put.  *)
(***************************************************************************)
EXTENDS Naturals, Sequences

CONSTANTS Event, Capacity

VARIABLE queue  \* the head is the one being handled, or the next

Init == queue = <<>>

Put(e) ==
  /\ Len(queue) < Capacity
  /\ queue' = Append(queue, e)

Handled ==
  /\ queue # <<>>
  /\ queue' = Tail(queue)

Reset == queue' = <<>>

Next == (\E e \in Event : Put(e)) \/ Handled \/ Reset

Spec == Init /\ [][Next]_queue
=============================================================================
