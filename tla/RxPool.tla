------------------------------- MODULE RxPool -------------------------------
(***************************************************************************)
(* What the memory pool promises the transport above it: the buffers of    *)
(* received packets come out in the order in which they were produced, and *)
(* a buffer that the client holds is not handed out again before the       *)
(* client consumes it, in whatever order it does.                          *)
(***************************************************************************)
EXTENDS Naturals, Sequences, SequencesExt

CONSTANT Buffer

VARIABLES
  ready,  \* produced buffers, in order, that were not extracted
  held    \* buffers that were extracted and not consumed

vars == <<ready, held>>

Init == ready = <<>> /\ held = <<>>

Produce(b) ==
  /\ b \notin ToSet(ready) \cup ToSet(held)
  /\ ready' = Append(ready, b)
  /\ held' = held

Extract ==
  /\ ready # <<>>
  /\ ready' = Tail(ready)
  /\ held' = Append(held, Head(ready))

Consume(i) ==
  /\ held' = RemoveAt(held, i)
  /\ ready' = ready

Next == \/ \E b \in Buffer : Produce(b)
        \/ Extract
        \/ \E i \in 1 .. Len(held) : Consume(i)

Spec == Init /\ [][Next]_vars
=============================================================================
