------------------------------ MODULE PStorage ------------------------------
(***************************************************************************)
(* pstorage_raw.c: the ring of flash commands over the SoftDevice's        *)
(* asynchronous flash calls.  All of it runs in the main loop, but the     *)
(* owner's callback runs inside the event handler and may enqueue, while   *)
(* the handler still has the finished element to initialise.  The routines *)
(* are functions on the module's state, for one handler calls several.     *)
(***************************************************************************)
EXTENDS Integers, Sequences

CONSTANTS
  QSize,     \* PSTORAGE_CMD_QUEUE_SIZE
  Command,   \* the commands that clients submit
  Rounds,    \* flash calls a command needs, size / SOC_MAX_WRITE_SIZE rounded up
  NoCommand, \* INVALID_OPCODE
  Answers    \* what the SoftDevice may answer to a flash call

ASSUME SizeAssumption == QSize \in 1 .. 127
ASSUME CommandAssumption ==
  /\ NoCommand \notin Command
  /\ Rounds \in [Command -> Nat \ {0}]
  /\ Answers \subseteq {"SUCCESS", "BUSY"}

VARIABLES
  q,     \* m_cmd_queue and m_round_val
  flash  \* what the SoftDevice is doing for this module

vars == <<q, flash>>

Element == 0 .. QSize - 1
NoFlash == [cmd |-> NoCommand, round |-> 0]

RingIndex(i) == IF i >= QSize THEN i - QSize ELSE i

\* cmd_queue_init()
EmptyQueue == [rp |-> 0, count |-> 0, access |-> FALSE, round |-> 0,
               cmd |-> [i \in Element |-> NoCommand]]
Init == q = EmptyQueue /\ flash = NoFlash

\* A state of the module, with what the SoftDevice does for it.
State(queue, asked) == [q |-> queue, flash |-> asked]
Becomes(s) == q' = s.q /\ flash' = s.flash

\* cmd_process(): starts the command at rp; any answer but SUCCESS leaves it.
CmdProcess(s, answer) ==
  LET c == s.q.cmd[s.q.rp]
  IN  IF c # NoCommand /\ answer = "SUCCESS"
        THEN State([s.q EXCEPT !.access = TRUE], [cmd |-> c, round |-> s.q.round])
        ELSE State([s.q EXCEPT !.access = FALSE], s.flash)

AppendedAtCount(p, c) ==                    \* mutant: the read pointer is forgotten
  [p EXCEPT !.cmd[RingIndex(p.count)] = c]
\* cmd_queue_enqueue() when count # QSize: the element, then the start.
Appended(p, c) == [p EXCEPT !.cmd[RingIndex(p.rp + p.count)] = c]
Enqueued(s, c, answer) ==
  LET p == State(Appended(s.q, c), s.flash)
      t == IF p.q.access THEN p ELSE CmdProcess(p, answer)
  IN  [t EXCEPT !.q.count = @ + 1]

AlwaysRoom == TRUE                          \* mutant: the queue is never full
HasRoom == q.count # QSize

\* pstorage_store() or pstorage_clear() from the main loop; a full queue
\* refuses, and the callers retry.
Submit(c, answer) ==
  /\ HasRoom
  /\ Becomes(Enqueued(State(q, flash), c, answer))

-----------------------------------------------------------------------------
(* pstorage_sys_event_handler().                                           *)

\* What a callback submits: nothing, or one command, or two, as
\* bootloader_settings_save() does when the bank is erased.
Batch == {<<>>} \cup {<<c>> : c \in Command} \cup {<<c, d>> : c, d \in Command}
BatchEnqueued(s, cs, answer) ==
  LET t == IF Len(cs) > 0 THEN Enqueued(s, cs[1], answer) ELSE s
  IN  IF Len(cs) > 1 THEN Enqueued(t, cs[2], answer) ELSE t

PoppedInPlace ==                            \* mutant: the read pointer stays
  [q EXCEPT !.access = FALSE, !.round = 0, !.count = q.count - 1]
\* The element leaves the queue before its owner is called.
Popped ==
  [q EXCEPT !.access = FALSE, !.round = 0, !.count = q.count - 1,
            !.rp = RingIndex(q.rp + 1)]

\* cmd_queue_element_init() after the callback.
Cleared(s, i) == [s EXCEPT !.q.cmd[i] = NoCommand]

DequeuedOnly(s, answer) == s                \* mutant: the next command is not started
\* cmd_queue_dequeue()
Dequeued(s, answer) ==
  IF s.q.count > 0 /\ ~s.q.access THEN CmdProcess(s, answer) ELSE s

RoundLost == q.round                        \* mutant: the round is not counted
RoundDone == q.round + 1
LastRound == RoundDone >= Rounds[q.cmd[q.rp]]

\* A round of a longer command succeeded.
NextRound(answer) ==
  /\ q.access /\ ~LastRound
  /\ Becomes(Dequeued(State([q EXCEPT !.access = FALSE, !.round = RoundDone], NoFlash), answer))

\* The last round succeeded.  A callback may not fill the queue to the last
\* element: that is the one which is initialised after it.  The erase of the
\* bank, whose callback submits, is the only command of its time.
CommandFinished(cs, answer) ==
  /\ q.access /\ LastRound
  /\ Len(cs) > 0 => q.count + Len(cs) <= QSize
  /\ LET s == BatchEnqueued(State(Popped, NoFlash), cs, answer)
     IN  Becomes(Dequeued(Cleared(s, q.rp), answer))

\* A flash error: every owner's callback ends in APP_ERROR_CHECK, a reset.
FlashError ==
  /\ q.access
  /\ q' = EmptyQueue /\ flash' = NoFlash

FlashEvent(answer) == NextRound(answer) \/ \E cs \in Batch : CommandFinished(cs, answer)

Next == \/ \E c \in Command, answer \in Answers : Submit(c, answer)
        \/ \E answer \in Answers : FlashEvent(answer)
        \/ FlashError

Spec == Init /\ [][Next]_vars
\* The SoftDevice reports the end of every operation it has started; what it
\* answers to the next call, and whether that call changes anything, is open.
FairSpec == Spec /\ WF_vars(FlashEvent("SUCCESS"))

-----------------------------------------------------------------------------
(* Properties.                                                             *)

TypeOK ==
  /\ q \in [rp : Element, count : 0 .. QSize, access : BOOLEAN, round : Nat,
            cmd : [Element -> Command \cup {NoCommand}]]
  /\ flash \in [cmd : Command \cup {NoCommand}, round : Nat]

\* The flash operation in progress is that of the element at the read pointer,
\* in its present round: so the event that ends it is charged to its owner.
WorksOnHead ==
  q.access => q.count > 0 /\ flash = [cmd |-> q.cmd[q.rp], round |-> q.round]

\* The commands of the ring, oldest first.
Pending == [i \in 1 .. q.count |-> q.cmd[RingIndex(q.rp + i - 1)]]

\* "The queue implements a simple first in first out algorithm" (cmd_queue_t):
\* commands end in the order of the calls and none is lost, though callbacks
\* enqueue while the ring is between two commands.
Fifo == INSTANCE FlashQueue WITH queue <- Pending, round <- q.round, Capacity <- QSize
KeepsOrder == Fifo!Spec

\* Whatever the handler and its callback did to the queue, when it is over the
\* next command runs, unless the SoftDevice refused it: nobody else would start
\* it before the next call.
Asleep == q.count > 0 /\ ~q.access
StartedBy(answer) == FlashEvent(answer) \/ \E c \in Command : Submit(c, answer)
NeverSleeps == [][StartedBy("SUCCESS") => ~Asleep']_vars

\* A command that is accepted comes to its end: the read pointer moves on from
\* every element, as long as the SoftDevice does not refuse.
HeadAdvances ==
  \A i \in Element : q.count > 0 /\ q.rp = i ~> q.rp # i \/ q.count = 0 \/ Asleep
=============================================================================
