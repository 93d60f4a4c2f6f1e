---------------------------- MODULE TimerService ----------------------------
(***************************************************************************)
(* What users of the application timers rely on: a timer that was started  *)
(* expires after its time and not before, a periodic one again and again,  *)
(* and a timer that was stopped does not expire.                           *)
(***************************************************************************)
EXTENDS Integers, FiniteSets

CONSTANTS
  Timer,    \* the timers
  Period,   \* a function on Timer: the period, 0 for a single shot
  Ticks,    \* the times a single shot may be started with
  Off       \* not running

VARIABLE left  \* the ticks until a timer is due, or Off

Init == left = [t \in Timer |-> Off]

Running == {t \in Timer : left[t] # Off}
Start(t, d) ==
  /\ t \notin Running /\ (IF Period[t] = 0 THEN d \in Ticks ELSE d = Period[t])
  /\ left' = [left EXCEPT ![t] = d]
Stop(S) == left' = [t \in Timer |-> IF t \in S THEN Off ELSE left[t]]
Tick == left' = [t \in Timer |-> IF t \in Running THEN left[t] - 1 ELSE Off]
Expire(S) ==
  /\ \A t \in S : t \in Running /\ left[t] <= 0
  /\ left' = [t \in Timer |-> IF t \notin S THEN left[t]
                              ELSE IF Period[t] = 0 THEN Off ELSE left[t] + Period[t]]

Next == \/ \E t \in Timer, d \in Ticks \cup {Period[u] : u \in Timer} : Start(t, d)
        \/ \E S \in SUBSET Timer : Stop(S)
        \/ Tick
        \/ \E S \in SUBSET Timer : Expire(S)

Spec == Init /\ [][Next]_left
=============================================================================
