---------------------------- MODULE ReliableLink ----------------------------
(***************************************************************************)
(* What the HCI transport promises in one direction: packets are delivered *)
(* in the order in which they were written, none of them twice, and a      *)
(* success that is reported is true.  There is one exception: after a      *)
(* failure the sender cannot know whether the failed packet was delivered, *)
(* and the success that follows may stand for that one.                    *)
(***************************************************************************)
EXTENDS Naturals

VARIABLES
  written,    \* how many packets were accepted from the application
  busy,       \* the last of them has no result yet
  delivered,  \* the packet that was delivered last
  turn,       \* changes with every delivery
  doubt       \* the last result was a failure

vars == <<written, busy, delivered, turn, doubt>>

Init == written = 0 /\ ~busy /\ delivered = 0 /\ ~turn /\ ~doubt

Write == /\ ~busy
         /\ busy' = TRUE /\ written' = written + 1
         /\ UNCHANGED <<delivered, turn, doubt>>

\* A packet that failed may still come, before the next one or in its place.
Deliver == /\ delivered' \in delivered + 1 .. written
           /\ turn' = ~turn
           /\ UNCHANGED <<written, busy, doubt>>

Success == /\ busy /\ (delivered = written \/ doubt)
           /\ busy' = FALSE /\ doubt' = FALSE
           /\ UNCHANGED <<written, delivered, turn>>

Failure == /\ busy
           /\ busy' = FALSE /\ doubt' = TRUE
           /\ UNCHANGED <<written, delivered, turn>>

Next == Write \/ Deliver \/ Success \/ Failure

Spec == Init /\ [][Next]_vars
=============================================================================
