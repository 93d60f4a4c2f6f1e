---------------------------- MODULE AppScheduler ----------------------------
(***************************************************************************)
(* app_scheduler.c with the callers it has over the air: SD_EVT_IRQHandler *)
(* of main.c, whose handler proc_sd_task fetches the SoftDevice's events,  *)
(* and the timer interrupt, whose handlers are the timers' own.  The slot  *)
(* of an event is reserved in a critical region and written after it, so   *)
(* an interrupt of a higher priority may put an event in between; the main *)
(* loop runs when no interrupt does.                                       *)
(***************************************************************************)
EXTENDS Integers, Sequences, FiniteSets

CONSTANTS
  QSize,  \* SCHED_QUEUE_SIZE; the ring has one slot more
  Timer,  \* the app timers
  Sd,     \* the event of proc_sd_task
  NoEvent

\* A timer has one event in the queue at most, for it is started again by the
\* handlers and takes seconds; so there are never more than Timer of those.
QueueAssumption ==
  /\ QSize \in 1 .. 254
  /\ IsFiniteSet(Timer) /\ Cardinality(Timer) + 2 <= QSize
  /\ Sd \notin Timer /\ NoEvent \notin Timer \cup {Sd}

Event == Timer \cup {Sd}

VARIABLES
  start,  \* m_queue_start_index
  end,    \* m_queue_end_index
  entry,  \* the handler and the data of each slot
  isr,    \* the calls of app_sched_event_put() in progress, innermost first
  main,   \* app_sched_execute(): the event it handles
  sd,     \* the SoftDevice has events that were not fetched
  irq     \* SD_EVT_IRQn is pending

ring == <<start, end, entry>>
vars == <<start, end, entry, isr, main, sd, irq>>

Index == 0 .. QSize
OneShort(i) == IF i < QSize - 1 THEN i + 1 ELSE 0  \* mutant: one slot less
NextIndex(i) == IF i < QSize THEN i + 1 ELSE 0
Full == NextIndex(end) = start
Empty == end = start

Blank == [handler |-> NoEvent, data |-> NoEvent]
Idle == [pc |-> "idle", i |-> 0, ev |-> NoEvent]

Init ==
  /\ start = 0 /\ end = 0 /\ entry = [i \in Index |-> Blank]
  /\ isr = <<>> /\ main = Idle
  /\ sd = FALSE /\ irq = FALSE

\* The slots in use, and the events that were put into them.
Window == IF start <= end THEN start .. end - 1 ELSE (start .. QSize) \cup (0 .. end - 1)
Writing(i) == {k \in 1 .. Len(isr) : isr[k].i = i}
PutIn(i) == IF Writing(i) = {} THEN entry[i].data
            ELSE isr[CHOOSE k \in Writing(i) : TRUE].ev

-----------------------------------------------------------------------------
(* The interrupts.  The SoftDevice's has the higher priority.              *)

Preempts(e) == isr = <<>> \/ (e = Sd /\ \A k \in 1 .. Len(isr) : isr[k].ev # Sd)

\* The critical region of app_sched_event_put().
Reserve(e) ==
  /\ isr' = <<[ev |-> e, i |-> end, pc |-> "handler"]>> \o isr
  /\ end' = NextIndex(end)
  /\ UNCHANGED <<start, entry>>

\* The rest of app_sched_event_put(): the handler, then data and size.
WriteHandler ==
  /\ isr # <<>> /\ Head(isr).pc = "handler"
  /\ entry' = [entry EXCEPT ![Head(isr).i].handler = Head(isr).ev]
  /\ isr' = <<[Head(isr) EXCEPT !.pc = "data"]>> \o Tail(isr)
  /\ UNCHANGED <<start, end, main, sd, irq>>
WriteData ==
  /\ isr # <<>> /\ Head(isr).pc = "data"
  /\ entry' = [entry EXCEPT ![Head(isr).i].data = Head(isr).ev]
  /\ isr' = Tail(isr)
  /\ UNCHANGED <<start, end, main, sd, irq>>

SdEvent ==
  /\ sd' = TRUE /\ irq' = TRUE
  /\ UNCHANGED <<ring, isr, main>>

\* SD_EVT_IRQHandler() ignores the result: with a full queue nothing is put.
SdEvtIrq ==
  /\ irq /\ Preempts(Sd)
  /\ irq' = FALSE
  /\ IF Full THEN UNCHANGED <<ring, isr>> ELSE Reserve(Sd)
  /\ UNCHANGED <<main, sd>>

\* timeout_handler_exec() checks the result: with a full queue it resets.
TimerIrq(t) ==
  /\ Preempts(t) /\ \A i \in Window : PutIn(i) # t
  /\ IF Full
       THEN /\ start' = 0 /\ end' = 0 /\ entry' = [i \in Index |-> Blank]
            /\ isr' = <<>> /\ main' = Idle /\ sd' = FALSE /\ irq' = FALSE
       ELSE Reserve(t) /\ UNCHANGED <<main, sd, irq>>

-----------------------------------------------------------------------------
(* app_sched_execute().                                                    *)

Anytime == TRUE                             \* mutant: the consumer interrupts a put
MainRuns == isr = <<>>

Take ==
  /\ MainRuns /\ main.pc = "idle" /\ ~Empty
  /\ main' = [pc |-> "run", i |-> start, ev |-> entry[start].handler]
  /\ UNCHANGED <<ring, isr, sd, irq>>

\* The handler.  proc_sd_task() fetches until there is no event left.
Handle ==
  /\ MainRuns /\ main.pc = "run"
  /\ sd' = (sd /\ main.ev # Sd)
  /\ main' = [main EXCEPT !.pc = "done"]
  /\ UNCHANGED <<ring, isr, irq>>

\* The slot is free only now: the handler had its data in place.
Release ==
  /\ MainRuns /\ main.pc = "done"
  /\ start' = NextIndex(start)
  /\ main' = Idle
  /\ UNCHANGED <<end, entry, isr, sd, irq>>

MainLoop == Take \/ Handle \/ Release
Interrupt == WriteHandler \/ WriteData \/ SdEvtIrq

Next == SdEvent \/ Interrupt \/ (\E t \in Timer : TimerIrq(t)) \/ MainLoop

Spec == Init /\ [][Next]_vars

-----------------------------------------------------------------------------
(* Properties.                                                             *)

TypeOK ==
  /\ start \in Index /\ end \in Index
  /\ entry \in [Index -> [handler : Event \cup {NoEvent}, data : Event \cup {NoEvent}]]
  /\ isr \in Seq([ev : Event, i : Index, pc : {"handler", "data"}]) /\ Len(isr) <= 2
  /\ main \in [pc : {"idle", "run", "done"}, i : Index, ev : Event \cup {NoEvent}]
  /\ sd \in BOOLEAN /\ irq \in BOOLEAN

\* "it is safe to move the queue start index" only after the handler: while it
\* runs, its slot holds its own event, whole, and no interrupt writes there.
RunningIntact ==
  main.pc # "idle" => /\ main.ev # NoEvent
                      /\ entry[main.i] = [handler |-> main.ev, data |-> main.ev]
                      /\ Writing(main.i) = {}

\* SD_EVT_IRQHandler drops its event when the queue is full; yet whenever the
\* SoftDevice has events to fetch, such as the end of a flash operation, an
\* interrupt is pending or an event that is still to be handled will fetch them.
SdNotForgotten ==
  sd => irq \/ \E i \in Window : PutIn(i) = Sd /\ ~(main.pc = "done" /\ main.i = i)

\* The events are handled one by one in the order of their calls, though the
\* slot of an outer call is written after that of an inner one.
Queued == [k \in 1 .. Cardinality(Window) |-> PutIn((start + k - 1) % (QSize + 1))]
Promise == INSTANCE EventQueue WITH queue <- Queued, Capacity <- QSize
KeepsOrder == Promise!Spec
=============================================================================
