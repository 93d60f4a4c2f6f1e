----------------------------- MODULE FlashQueue -----------------------------
(***************************************************************************)
(* What the clients of pstorage rely on: flash operations are done one     *)
(* after the other in the order of the calls, each as many rounds as it    *)
(* needs, and the owner's callback runs at the end of each and may submit  *)
(* more.  DfuSingleBank uses pstorage as such a queue.                     *)
(***************************************************************************)
EXTENDS Naturals, Sequences

CONSTANTS
  Command,  \* what clients submit
  Rounds,   \* flash calls that a command needs
  Capacity  \* commands that can be pending

VARIABLES
  queue,  \* submitted commands, the head in execution
  round   \* rounds of the head that are done

vars == <<queue, round>>

Init == queue = <<>> /\ round = 0

Submit(c) ==
  /\ Len(queue) < Capacity
  /\ queue' = Append(queue, c) /\ round' = round

Round ==
  /\ queue # <<>> /\ round + 1 < Rounds[Head(queue)]
  /\ round' = round + 1 /\ queue' = queue

\* The command ends; its callback submits nothing, one command or two.
Complete(cs) ==
  /\ queue # <<>> /\ round + 1 >= Rounds[Head(queue)]
  /\ Len(Tail(queue) \o cs) <= Capacity
  /\ queue' = Tail(queue) \o cs /\ round' = 0

\* A flash error resets the device.
Reset == queue' = <<>> /\ round' = 0

Batch == {<<>>} \cup {<<c>> : c \in Command} \cup {<<c, d>> : c, d \in Command}

Next == \/ \E c \in Command : Submit(c)
        \/ Round
        \/ \E cs \in Batch : Complete(cs)
        \/ Reset

Spec == Init /\ [][Next]_vars
=============================================================================
