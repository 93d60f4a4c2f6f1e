------------------------------ MODULE AppTimer ------------------------------
(***************************************************************************)
(* app_timer_nrf54l.c: timers over one compare register of a free running  *)
(* counter.  The timers are in a list, each with the ticks after the one   *)
(* before it.  The timer interrupt (TIMER20) finds which are due and calls *)
(* their handlers; the software interrupt (SWI03) removes them, executes   *)
(* the queued calls and sets the compare register.  Neither interrupts the *)
(* other, and both interrupt the main loop.                                *)
(***************************************************************************)
EXTENDS Integers, SequencesExt

CONSTANTS
  Timer, Period, Ticks, Off,  \* as in TimerService
  Modulus,     \* MAX_COUNTER_VAL + 1
  Offset,      \* COMPARE_OFFSET_MIN
  OpQueue,     \* APP_TIMER_CONFIG_OP_QUEUE_SIZE
  Callers,     \* where the calls come from: "main", or an "isr" that delays both interrupts
  Latency      \* bound: ticks that pass until no handler is left to run

\* How late a timer is called at most.  A stop of the timer at the head sets the
\* compare register again, at least COMPARE_OFFSET_MIN from then: the timers after
\* it, if they are about to expire, are called later by this for each such stop.
Late == Offset + (Offset - 1) * (Cardinality(Timer) - 1) + 2 * Latency

ASSUME TimerAssumption ==
  /\ IsFiniteSet(Timer) /\ Period \in [Timer -> Nat] /\ Ticks \subseteq Nat \ {0} /\ Off \notin Int \cup Timer
  /\ Modulus \in Nat /\ Offset \in Nat \ {0} /\ OpQueue \in Nat \ {0} /\ Latency \in Nat
  /\ Callers \subseteq {"main", "isr"}
  /\ 2 * Late <= Modulus
  /\ \A d \in Ticks \cup {Period[t] : t \in Timer} : d + Late < Modulus
  /\ \A t \in Timer : Period[t] = 0 \/ Period[t] >= Late

VARIABLES
  hw,      \* the counter, the compare register, m_timer_running
  latest,  \* m_ticks_latest
  list,    \* from mp_timer_id_head on, the timers with their ticks_to_expire
  running, \* the timers with is_running
  ops,     \* m_op_queue
  passed,  \* m_ticks_elapsed with its read and write index
  pending, \* the interrupts that are pending
  swi,     \* timer_list_handler() between its accesses to the hardware
  call,    \* the call in progress
  caller,  \* the context of the calls
  waited,  \* ticks that have passed while handlers were to run
  left     \* history: what the users know of their timers

vars == <<hw, latest, list, running, ops, passed, pending, swi, call, caller, waited, left>>

Idle == [pc |-> "idle", pre |-> 0, cc |-> 0]
NoCall == [pc |-> "idle", timers |-> {}, age |-> 0]

\* app_timer_init()
Init ==
  /\ hw = [count |-> 0, cc |-> 0, on |-> FALSE] /\ latest = 0
  /\ list = <<>> /\ running = {}
  /\ ops = <<>> /\ passed = [ticks |-> [i \in 0 .. 1 |-> 0], read |-> 0, write |-> 0]
  /\ pending = {} /\ swi = Idle /\ call = NoCall /\ caller \in Callers
  /\ waited = 0 /\ left = [t \in Timer |-> Off]

\* ticks_diff_get()
Diff(now, old) == (now - old) % Modulus
Half == (Modulus - 1) \div 2

\* The ticks from m_ticks_latest to the expiry of the i-th timer of a list, and
\* how many timers have expired.
Until(l, i) ==
  LET sum[k \in 0 .. Len(l)] == IF k = 0 THEN 0 ELSE sum[k - 1] + l[k].ticks IN sum[i]
CountExpired(l, elapsed) == Cardinality({i \in 1 .. Len(l) : Until(l, i) <= elapsed})
Timers(l) == {l[i].timer : i \in 1 .. Len(l)}

-----------------------------------------------------------------------------
(* Time, and TIMER20_IRQHandler().                                         *)

\* timer_stop_hw() disables the timer interrupt.  One that is pending is pending
\* again when it is enabled, for its event was not cleared.
Enabled == IF hw.on THEN pending ELSE pending \ {"timer"}
HandlerWaits == Enabled # {} \/ swi.pc # "idle"

\* The compare event comes when the counter reaches the register.
Tick ==
  LET now == IF hw.on THEN (hw.count + 1) % Modulus ELSE hw.count
  IN  /\ hw.on \/ \E t \in Timer : left[t] # Off
      /\ HandlerWaits => waited < Latency
      /\ call # NoCall => call.age < Latency
      /\ hw' = [hw EXCEPT !.count = now]
      /\ pending' = pending \cup IF hw.on /\ now = hw.cc THEN {"timer"} ELSE {}
      /\ waited' = IF HandlerWaits THEN waited + 1 ELSE 0
      /\ left' = [t \in Timer |-> IF left[t] = Off THEN Off ELSE left[t] - 1]
      /\ call' = IF call = NoCall THEN NoCall ELSE [call EXCEPT !.age = @ + 1]
      /\ UNCHANGED <<latest, list, running, ops, passed, swi, caller>>

AlwaysAdvance == TRUE                       \* mutant: a new slot for every check
\* The slot of a check: a new one, or that of the check before if nobody has
\* read it, which this one includes, for m_ticks_latest is still the same.
NewSlot == passed.read = passed.write
WriteIndex == IF NewSlot THEN (passed.write + 1) % 2 ELSE passed.write

\* A timer that was stopped, or was called before, is not called.
Called(expired) == expired \cap running

\* timer_timeouts_check()
TimerIrq ==
  /\ "timer" \in Enabled /\ swi.pc = "idle"
  /\ IF list = <<>>
       THEN pending' = pending \ {"timer"} /\ UNCHANGED <<running, passed, left>>
       ELSE LET n       == CountExpired(list, Diff(hw.count, latest))
                expired == Timers(SubSeq(list, 1, n))
            IN  /\ running' = running \ expired
                /\ passed' = [passed EXCEPT !.write = WriteIndex,
                                            !.ticks[WriteIndex] = Until(list, n)]
                /\ pending' = (pending \ {"timer"}) \cup {"swi"}
                /\ left' = [t \in Timer |-> IF t \notin Called(expired) THEN left[t]
                                            ELSE IF Period[t] = 0 THEN Off ELSE left[t] + Period[t]]
  /\ UNCHANGED <<hw, latest, list, ops, swi, call, caller, waited>>

-----------------------------------------------------------------------------
(* SWI03_IRQHandler().  A state s of the list handler has the list, the    *)
(* running timers, the counter, m_ticks_latest, m_timer_reset (reset), and *)
(* whether the head was removed (removed).                                 *)

\* The timer at position i, if there is one, expires by so much later.
Shift(l, i, by) == IF i > Len(l) THEN l ELSE [l EXCEPT ![i].ticks = @ + by]

\* timer_list_insert(): before the first timer that does not expire earlier.
ListInsert(s, t, ticks) ==
  LET i     == Cardinality({j \in 1 .. Len(s.list) : Until(s.list, j) < ticks}) + 1
      delta == ticks - Until(s.list, i - 1)
  IN  [s EXCEPT !.list = InsertAt(Shift(s.list, i, -delta), i, [timer |-> t, ticks |-> delta]),
                !.running = @ \cup {t}]

\* timer_list_remove(): when the list becomes empty the counter starts anew.
ListRemove(s, t) ==
  IF t \notin Timers(s.list) THEN s
  ELSE LET i == CHOOSE j \in 1 .. Len(s.list) : s.list[j].timer = t
           r == [s EXCEPT !.list = RemoveAt(Shift(@, i + 1, s.list[i].ticks), i),
                          !.removed = @ \/ i = 1]
       IN  IF r.list = <<>> THEN [r EXCEPT !.count = 0, !.latest = 0, !.reset = TRUE] ELSE r

AsQueued(s, at) == at                       \* mutant: m_timer_reset is forgotten
StartedAt(s, at) == IF s.reset THEN 0 ELSE at
\* A start that is not long past or still to come, relative to m_ticks_latest.
TicksToExpire(s, at, first) ==
  IF Diff(at, s.latest) < Half THEN Diff(at, s.latest) + first
  ELSE LET delta == Diff(s.latest, at) IN IF first > delta THEN first - delta ELSE 0

\* One turn of list_insertions_handler(), for a queued call.
Execute(s, op) ==
  CASE op.type = "STOP" -> LET r == ListRemove(s, op.timer)
                           IN  [r EXCEPT !.running = @ \ {op.timer}]
    [] op.type = "STOP_ALL" ->
         [s EXCEPT !.list = <<>>, !.running = @ \ Timers(s.list)]
    [] op.type = "START" ->
         IF op.timer \in s.running THEN s
         ELSE ListInsert(s, op.timer, TicksToExpire(s, StartedAt(s, op.at), op.first))

\* expired_timers_handler(): the first n timers leave the list, and what is
\* left of the ticks is taken from the next one.
Expired(s, ticks, n) ==
  [s EXCEPT !.list = Shift(SubSeq(@, n + 1, Len(@)), 1, Until(@, n) - ticks)]

\* The periodic ones among them start again at the tick they expired at; the
\* last one to expire is the first to be inserted.
Restart(s, i) ==
  LET t == list[i].timer
  IN  IF Period[t] = 0 THEN s
      ELSE ListInsert(s, t, TicksToExpire(s, (latest + Until(list, i)) % Modulus, Period[t]))
Restarted(s, n) ==
  LET after[k \in 0 .. n] == IF k = 0 THEN s ELSE Restart(after[k - 1], n - k + 1) IN after[n]

\* list_insertions_handler()
Executed(s) ==
  LET after[k \in 0 .. Len(ops)] == IF k = 0 THEN s ELSE Execute(after[k - 1], ops[k])
  IN  after[Len(ops)]

\* elapsed_ticks_acquire(), expired_timers_handler(), list_insertions_handler().
Acquired == passed.read # passed.write
ReadIndex == (passed.read + 1) % 2
Handled ==
  LET ticks == passed.ticks[ReadIndex]
      s0 == [list |-> list, running |-> running, count |-> hw.count, latest |-> latest,
             reset |-> FALSE, removed |-> FALSE]
      n  == IF Acquired THEN CountExpired(list, ticks) ELSE 0
      s1 == IF Acquired THEN [Expired(s0, ticks, n) EXCEPT !.latest = (@ + ticks) % Modulus] ELSE s0
  IN  [before |-> s1, after |-> Executed(Restarted(s1, n))]

HeadOf(s) == IF s.list = <<>> THEN Off ELSE s.list[1].timer
Unmasked(s) == s.latest + s.list[1].ticks + Offset  \* mutant: the value is not masked
\* compare_reg_update(): at the earliest COMPARE_OFFSET_MIN from now.
CompareValue(s) ==
  LET elapsed == Diff(s.count, s.latest) + Offset
      head    == s.list[1].ticks
  IN  (s.latest + (IF elapsed < head THEN head ELSE elapsed)) % Modulus

\* timer_list_handler() until the compare register is written.  Stopping the
\* counter clears it.  (A slot that was read is written before it is read again.)
ListHandler ==
  /\ "swi" \in pending /\ swi.pc = "idle"
  /\ LET h      == Handled
         s      == h.after
         update == Acquired \/ s.removed \/ HeadOf(s) # HeadOf(h.before)
         stop   == update /\ s.list = <<>>
         set    == update /\ s.list # <<>>
     IN  /\ list' = s.list /\ running' = s.running
         /\ latest' = IF stop THEN 0 ELSE s.latest
         /\ hw' = [hw EXCEPT !.count = IF stop THEN 0 ELSE s.count,
                             !.on = IF update THEN set ELSE hw.on]
         /\ swi' = IF set THEN [pc |-> "write", pre |-> s.count, cc |-> CompareValue(s)] ELSE Idle
  /\ pending' = pending \ {"swi"}
  /\ passed' = IF ~Acquired THEN passed
               ELSE [passed EXCEPT !.read = ReadIndex, !.ticks[ReadIndex] = 0]
  /\ ops' = <<>>
  /\ UNCHANGED <<call, caller, waited, left>>

WriteCompare ==
  /\ swi.pc = "write"
  /\ hw' = [hw EXCEPT !.cc = swi.cc]
  /\ swi' = [swi EXCEPT !.pc = "verify"]
  /\ UNCHANGED <<latest, list, running, ops, passed, pending, call, caller, waited, left>>

NotPassed == FALSE                          \* mutant: the counter is not read again
\* The counter may have reached the value before it was written.
TooClose == Diff(hw.count, swi.pre) + Offset > Diff(swi.cc, swi.pre)
VerifyCompare ==
  /\ swi.pc = "verify"
  /\ IF TooClose THEN /\ hw' = [hw EXCEPT !.cc = hw.count]
                      /\ pending' = pending \cup {"timer"}
                 ELSE UNCHANGED <<hw, pending>>
  /\ swi' = Idle
  /\ UNCHANGED <<latest, list, running, ops, passed, call, caller, waited, left>>

-----------------------------------------------------------------------------
(* The calls.  A call from the main loop goes on, and returns, only when   *)
(* no interrupt is pending; an interrupt routine may make several before   *)
(* the handlers run.                                                       *)

HasRoom == Len(ops) < OpQueue
\* The handlers are not interrupted by a caller, nor a main loop by itself.
CallerRuns == swi.pc = "idle" /\ (caller = "main" => Enabled = {})
Queue(op) == ops' = Append(ops, op) /\ pending' = pending \cup {"swi"}

\* Bound: m_ticks_latest moves on, or the list becomes empty, before half the range
\* of the counter has gone by, and the timer expires before all of it has.
InRange(d) == Diff(hw.count, latest) < Half /\ Diff(hw.count, latest) + d + Late < Modulus

StopOp(t) == [type |-> "STOP", timer |-> t]
StopAllOp == [type |-> "STOP_ALL"]

\* Bound: no timer is stopped and started again after the start of another, until
\* the handlers have run.  A head that leaves the list and comes back would hide
\* from list_insertions_handler() that the compare register is not up to date.
Hides(t) == \E k \in 1 .. Len(ops) : \E j \in 1 .. k - 1 :
              ops[k] = StopOp(t) /\ ops[j].type = "START" /\ ops[j].timer # t

\* app_timer_start(), for a timer that is not running.
Start(t, d) ==
  /\ CallerRuns /\ call = NoCall /\ left[t] = Off /\ HasRoom /\ InRange(d) /\ ~Hides(t)
  /\ Queue([type |-> "START", timer |-> t, at |-> hw.count, first |-> d])
  /\ left' = [left EXCEPT ![t] = d]
  /\ UNCHANGED <<hw, latest, list, running, passed, swi, call, caller, waited>>

MarkedStopped(t) == running \ {t}

\* app_timer_stop() by an interrupt routine.
StopFromIsr(t) ==
  /\ CallerRuns /\ caller = "isr" /\ HasRoom
  /\ running' = MarkedStopped(t)
  /\ Queue(StopOp(t))
  /\ left' = [left EXCEPT ![t] = Off]
  /\ UNCHANGED <<hw, latest, list, passed, swi, call, caller, waited>>

\* app_timer_stop() and app_timer_stop_all() by the main loop: the mark is
\* outside the critical region, and the timer is stopped when the call returns.
StopBegins(t) ==
  /\ CallerRuns /\ caller = "main" /\ call = NoCall
  /\ running' = MarkedStopped(t)
  /\ call' = [pc |-> "queue", timers |-> {t}, age |-> 0]
  /\ UNCHANGED <<hw, latest, list, ops, passed, pending, swi, caller, waited, left>>
StopQueues ==
  /\ CallerRuns /\ call.pc = "queue" /\ HasRoom
  /\ \E t \in call.timers : Queue(StopOp(t))
  /\ call' = [call EXCEPT !.pc = "return"]
  /\ UNCHANGED <<hw, latest, list, running, passed, swi, caller, waited, left>>
StopAll ==
  /\ CallerRuns /\ caller = "main" /\ call = NoCall /\ HasRoom
  /\ Queue(StopAllOp)
  /\ call' = [pc |-> "return", timers |-> Timer, age |-> 0]
  /\ UNCHANGED <<hw, latest, list, running, passed, swi, caller, waited, left>>
StopReturns ==
  /\ CallerRuns /\ call.pc = "return"
  /\ call' = NoCall
  /\ left' = [t \in Timer |-> IF t \in call.timers THEN Off ELSE left[t]]
  /\ UNCHANGED <<hw, latest, list, running, ops, passed, pending, swi, caller, waited>>

Handler == TimerIrq \/ ListHandler \/ WriteCompare \/ VerifyCompare
Call == \/ \E t \in Timer : \/ \E d \in IF Period[t] = 0 THEN Ticks ELSE {Period[t]} : Start(t, d)
                            \/ StopFromIsr(t) \/ StopBegins(t)
        \/ StopQueues \/ StopAll \/ StopReturns
Next == Tick \/ Handler \/ Call

Spec == Init /\ [][Next]_vars

-----------------------------------------------------------------------------
(* Properties.                                                             *)

TypeOK ==
  /\ hw \in [count : 0 .. Modulus - 1, cc : 0 .. Modulus - 1, on : BOOLEAN]
  /\ latest \in 0 .. Modulus - 1
  /\ list \in Seq([timer : Timer, ticks : 0 .. Modulus - 1]) /\ running \subseteq Timer
  /\ ops \in Seq([type : {"START"}, timer : Timer, at : 0 .. Modulus - 1, first : Nat]
                 \cup [type : {"STOP"}, timer : Timer] \cup [type : {"STOP_ALL"}])
  /\ passed \in [ticks : [0 .. 1 -> 0 .. Modulus - 1], read : 0 .. 1, write : 0 .. 1]
  /\ pending \subseteq {"timer", "swi"}
  /\ \A t \in Timer : left[t] = Off \/ left[t] \in Int

\* No timer is in the list twice: its pointers form a list.
ListIsSound == \A i, j \in 1 .. Len(list) : list[i].timer = list[j].timer => i = j

\* A timer does not expire early, nor after it was stopped, nor twice: every
\* step is one of the service's.
Service == INSTANCE TimerService
KeepsTime == Service!Spec

\* A timer does not expire late either, by more than the handlers are kept
\* waiting: the counter is not missed by the compare register, whatever the
\* order of calls, expiries and the handlers.
Lateness == Late + Latency
NotLate == \A t \in Timer : left[t] # Off /\ t \notin call.timers => left[t] >= -Lateness
=============================================================================
