--------------------------- MODULE PStorageProofs ---------------------------
(***************************************************************************)
(* The ring of pstorage_raw.c implements the FIFO queue its clients rely   *)
(* on, for every size of the ring, every set of commands and any answers.  *)
(* The routines are functions on a state of the module, so there is one    *)
(* lemma per routine, and the actions combine them as the handlers do.     *)
(***************************************************************************)
EXTENDS PStorage, TLAPS

Ring == [rp : Element, count : 0 .. QSize, access : BOOLEAN, round : Nat,
         cmd : [Element -> Command \cup {NoCommand}]]
FlashState == [cmd : Command \cup {NoCommand}, round : Nat]

\* Element i of the window that starts at the read pointer.
Slot(p, i) == RingIndex(p.rp + i)

\* The inductive invariant, as a predicate on a state of the module: the
\* elements between the read pointer and the end of the queue hold commands,
\* and the SoftDevice works on the first of them.
WindowFilled(p) == \A i \in 0 .. p.count - 1 : p.cmd[Slot(p, i)] \in Command
HeadInFlight(s) ==
  s.q.access => s.q.count > 0 /\ s.flash = [cmd |-> s.q.cmd[s.q.rp], round |-> s.q.round]
Good(s) ==
  /\ s = State(s.q, s.flash)
  /\ s.q \in Ring /\ s.flash \in FlashState
  /\ WindowFilled(s.q) /\ HeadInFlight(s)

PendingOf(p) == [i \in 1 .. p.count |-> p.cmd[Slot(p, i - 1)]]
Same(p, r) == p.rp = r.rp /\ p.count = r.count /\ p.round = r.round

\* Positions of the ring are told apart within one turn.
LEMMA SlotType ==
  ASSUME NEW rp \in Element, NEW i \in 0 .. QSize
  PROVE  RingIndex(rp + i) \in Element
BY SizeAssumption, SMT DEF RingIndex, Element

LEMMA SlotDistinct ==
  ASSUME NEW rp \in Element, NEW i \in 0 .. QSize - 1, NEW j \in 0 .. QSize - 1, i # j
  PROVE  RingIndex(rp + i) # RingIndex(rp + j)
BY SizeAssumption, SMT DEF RingIndex, Element

LEMMA SlotShift ==
  ASSUME NEW rp \in Element, NEW i \in 0 .. QSize - 1
  PROVE  RingIndex(RingIndex(rp + 1) + i) = RingIndex(rp + (i + 1))
BY SizeAssumption, SMT DEF RingIndex, Element

\* The queue of a ring is a sequence of commands.
LEMMA PendingType ==
  ASSUME NEW p \in Ring, WindowFilled(p)
  PROVE  /\ PendingOf(p) \in Seq(Command)
         /\ Len(PendingOf(p)) = p.count
         /\ p.count > 0 => Head(PendingOf(p)) = p.cmd[p.rp]
<1>1. \A i \in 1 .. p.count : p.cmd[Slot(p, i - 1)] \in Command
  BY DEF WindowFilled, Ring
<1>2. PendingOf(p) \in [1 .. p.count -> Command]
  BY <1>1 DEF PendingOf
<1>3. p.count \in Nat
  BY SizeAssumption DEF Ring
<1>4. PendingOf(p) \in Seq(Command) /\ Len(PendingOf(p)) = p.count
  BY <1>2, <1>3
<1>5. Slot(p, 0) = p.rp
  BY SizeAssumption DEF Slot, RingIndex, Ring, Element
<1>. QED
  BY <1>4, <1>5, <1>3 DEF PendingOf

-----------------------------------------------------------------------------
(* The routines.                                                           *)

\* cmd_process() changes the flag, and asks for the command at rp.
LEMMA CmdProcessLemma ==
  ASSUME NEW s, NEW answer,
         s = State(s.q, s.flash), s.q \in Ring, s.flash \in FlashState
  PROVE  LET t == CmdProcess(s, answer)
         IN  /\ t = State(t.q, t.flash) /\ t.q \in Ring /\ t.flash \in FlashState
             /\ Same(t.q, s.q) /\ t.q.cmd = s.q.cmd
             /\ t.q.access => t.flash = [cmd |-> s.q.cmd[s.q.rp], round |-> s.q.round]
<1>. DEFINE c == s.q.cmd[s.q.rp]
            t == CmdProcess(s, answer)
<1>1. c \in Command \cup {NoCommand} /\ s.q.round \in Nat
  BY DEF Ring
<1>2. CASE c # NoCommand /\ answer = "SUCCESS"
  <2>1. /\ t = State(t.q, t.flash) /\ t.flash = [cmd |-> c, round |-> s.q.round]
        /\ t.q = [s.q EXCEPT !.access = TRUE]
    BY <1>2 DEF CmdProcess, State
  <2>2. t.q \in Ring /\ Same(t.q, s.q) /\ t.q.cmd = s.q.cmd
    BY <2>1 DEF Ring, Same
  <2>. QED
    BY <2>1, <2>2, <1>1 DEF FlashState
<1>3. CASE ~(c # NoCommand /\ answer = "SUCCESS")
  <2>1. /\ t = State(t.q, t.flash) /\ t.flash = s.flash
        /\ t.q = [s.q EXCEPT !.access = FALSE]
    BY <1>3 DEF CmdProcess, State
  <2>2. t.q \in Ring /\ Same(t.q, s.q) /\ t.q.cmd = s.q.cmd /\ ~t.q.access
    BY <2>1 DEF Ring, Same
  <2>. QED
    BY <2>1, <2>2
<1>. QED
  BY <1>2, <1>3

\* It starts any command, unless the SoftDevice is busy.
LEMMA CmdProcessStarts ==
  ASSUME NEW s, s.q \in Ring, s.q.cmd[s.q.rp] # NoCommand
  PROVE  CmdProcess(s, "SUCCESS").q.access
<1>1. CmdProcess(s, "SUCCESS").q = [s.q EXCEPT !.access = TRUE]
  BY DEF CmdProcess, State
<1>. QED
  BY <1>1 DEF Ring

\* An element written behind the window is its next one.
LEMMA AppendedLemma ==
  ASSUME NEW p \in Ring, p.count < QSize, NEW c \in Command
  PROVE  LET r == Appended(p, c)
         IN  /\ r \in Ring /\ Same(r, p) /\ r.access = p.access
             /\ r.cmd[Slot(p, p.count)] = c
             /\ \A i \in 0 .. p.count - 1 : r.cmd[Slot(p, i)] = p.cmd[Slot(p, i)]
<1>. DEFINE r == Appended(p, c)
            k == Slot(p, p.count)
<1>1. k \in Element
  BY SlotType DEF Slot, Ring
<1>2. r = [p EXCEPT !.cmd = [@ EXCEPT ![k] = c]]
  BY DEF Appended, Slot
<1>3. p.cmd \in [Element -> Command \cup {NoCommand}]
  BY DEF Ring
<1>4. [p.cmd EXCEPT ![k] = c] \in [Element -> Command \cup {NoCommand}]
  BY <1>3
<1>5. r \in Ring /\ Same(r, p) /\ r.access = p.access /\ r.cmd = [p.cmd EXCEPT ![k] = c]
  BY <1>2, <1>4 DEF Ring, Same
<1>6. \A i \in 0 .. p.count - 1 : Slot(p, i) \in Element /\ Slot(p, i) # k
  <2>. SUFFICES ASSUME NEW i \in 0 .. p.count - 1
                PROVE  Slot(p, i) \in Element /\ Slot(p, i) # k
    OBVIOUS
  <2>1. p.rp \in Element /\ i \in 0 .. QSize - 1 /\ p.count \in 0 .. QSize - 1 /\ i # p.count
    BY SizeAssumption DEF Ring
  <2>2. i \in 0 .. QSize
    BY <2>1, SizeAssumption
  <2>. QED
    BY <2>1, <2>2, SlotType, SlotDistinct DEF Slot
<1>. QED
  BY <1>1, <1>3, <1>5, <1>6

\* cmd_queue_enqueue() appends one command.
LEMMA EnqueuedLemma ==
  ASSUME NEW s, Good(s), s.q.count < QSize, NEW c \in Command, NEW answer
  PROVE  LET t == Enqueued(s, c, answer)
         IN  /\ Good(t)
             /\ PendingOf(t.q) = Append(PendingOf(s.q), c)
             /\ t.q.rp = s.q.rp /\ t.q.round = s.q.round /\ t.q.count = s.q.count + 1
             /\ answer = "SUCCESS" => t.q.access
<1>. DEFINE p == State(Appended(s.q, c), s.flash)
            u == IF p.q.access THEN p ELSE CmdProcess(p, answer)
            t == Enqueued(s, c, answer)
<1>1. s.q \in Ring /\ s.flash \in FlashState /\ s.q.count \in 0 .. QSize - 1
  BY SizeAssumption DEF Good, Ring
<1>2. /\ p = State(p.q, p.flash) /\ p.q \in Ring /\ p.flash \in FlashState
      /\ p.flash = s.flash /\ Same(p.q, s.q) /\ p.q.access = s.q.access
      /\ p.q.cmd[Slot(s.q, s.q.count)] = c
      /\ \A i \in 0 .. s.q.count - 1 : p.q.cmd[Slot(s.q, i)] = s.q.cmd[Slot(s.q, i)]
  BY <1>1, AppendedLemma DEF State
<1>3. /\ u = State(u.q, u.flash) /\ u.q \in Ring /\ u.flash \in FlashState
      /\ Same(u.q, s.q) /\ u.q.cmd = p.q.cmd
  BY <1>2, CmdProcessLemma DEF Same
<1>4. t = [u EXCEPT !.q.count = @ + 1]
  BY DEF Enqueued
<1>5. t = State(t.q, t.flash) /\ t.flash = u.flash /\ t.q = [u.q EXCEPT !.count = @ + 1]
  BY <1>3, <1>4 DEF State
<1>6. /\ t.q \in Ring /\ t.q.rp = s.q.rp /\ t.q.count = s.q.count + 1
      /\ t.q.round = s.q.round /\ t.q.cmd = p.q.cmd /\ t.q.access = u.q.access
  <2>1. u.q.count + 1 = s.q.count + 1 /\ s.q.count + 1 \in 0 .. QSize
    BY <1>1, <1>3, SizeAssumption DEF Same
  <2>2. t.q \in Ring /\ t.q.count = u.q.count + 1 /\ t.q.access = u.q.access
        /\ t.q.cmd = u.q.cmd /\ Same([t.q EXCEPT !.count = u.q.count], u.q)
    BY <1>3, <1>5, <2>1 DEF Ring, Same
  <2>. QED
    BY <2>1, <2>2, <1>3 DEF Ring, Same
<1>7. \A i \in 0 .. s.q.count :
        t.q.cmd[Slot(t.q, i)] = IF i = s.q.count THEN c ELSE s.q.cmd[Slot(s.q, i)]
  <2>. SUFFICES ASSUME NEW i \in 0 .. s.q.count
                PROVE  t.q.cmd[Slot(t.q, i)] = IF i = s.q.count THEN c ELSE s.q.cmd[Slot(s.q, i)]
    OBVIOUS
  <2>1. Slot(t.q, i) = Slot(s.q, i)
    BY <1>6 DEF Slot
  <2>2. i # s.q.count => i \in 0 .. s.q.count - 1
    BY <1>1, SizeAssumption
  <2>. QED
    BY <1>2, <1>6, <2>1, <2>2
<1>8. WindowFilled(t.q)
  BY <1>1, <1>6, <1>7, SizeAssumption DEF WindowFilled, Good
<1>9. HeadInFlight(t)
  <2>1. Slot(s.q, 0) = s.q.rp
    BY <1>1, SizeAssumption DEF Slot, RingIndex, Ring, Element
  <2>2. t.q.count > 0
    BY <1>1, <1>6, SizeAssumption
  <2>3. CASE s.q.access
    <3>1. s.q.count > 0 /\ s.flash = [cmd |-> s.q.cmd[s.q.rp], round |-> s.q.round]
      BY <2>3 DEF Good, HeadInFlight
    <3>2. p.q.cmd[s.q.rp] = s.q.cmd[s.q.rp]
      <4>1. 0 \in 0 .. s.q.count - 1
        BY <3>1, <1>1, SizeAssumption
      <4>2. p.q.cmd[Slot(s.q, 0)] = s.q.cmd[Slot(s.q, 0)]
        BY <4>1, <1>2
      <4>. QED
        BY <4>2, <2>1
    <3>3. u = p
      BY <2>3, <1>2
    <3>. QED
      BY <2>2, <3>1, <3>2, <3>3, <1>2, <1>5, <1>6 DEF HeadInFlight
  <2>4. CASE ~s.q.access
    <3>1. u = CmdProcess(p, answer)
      BY <2>4, <1>2
    <3>2. u.q.access => u.flash = [cmd |-> p.q.cmd[p.q.rp], round |-> p.q.round]
      BY <3>1, <1>2, CmdProcessLemma
    <3>. QED
      BY <2>2, <3>2, <1>2, <1>5, <1>6 DEF HeadInFlight, Same
  <2>. QED
    BY <2>3, <2>4
<1>11. answer = "SUCCESS" => t.q.access
  <2>1. Slot(s.q, 0) = s.q.rp
    BY <1>1, SizeAssumption DEF Slot, RingIndex, Ring, Element
  <2>2. p.q.cmd[s.q.rp] \in Command
    <3>1. CASE s.q.count = 0
      BY <3>1, <1>2, <2>1
    <3>2. CASE s.q.count # 0
      <4>1. 0 \in 0 .. s.q.count - 1
        BY <3>2, <1>1, SizeAssumption
      <4>. QED
        BY <4>1, <1>2, <2>1 DEF Good, WindowFilled
    <3>. QED
      BY <3>1, <3>2
  <2>3. p.q.cmd[p.q.rp] # NoCommand
    BY <2>2, <1>2, CommandAssumption DEF Same
  <2>4. answer = "SUCCESS" => u.q.access
    BY <2>3, <1>2, CmdProcessStarts
  <2>. QED
    BY <2>4, <1>6
<1>10. PendingOf(t.q) = Append(PendingOf(s.q), c)
  <2>1. PendingOf(s.q) \in Seq(Command) /\ Len(PendingOf(s.q)) = s.q.count
    BY <1>1, PendingType DEF Good
  <2>2. PendingOf(t.q) \in Seq(Command) /\ Len(PendingOf(t.q)) = s.q.count + 1
    BY <1>6, <1>8, PendingType
  <2>3. \A i \in 1 .. s.q.count + 1 : PendingOf(t.q)[i] = Append(PendingOf(s.q), c)[i]
    <3>. SUFFICES ASSUME NEW i \in 1 .. s.q.count + 1
                  PROVE  PendingOf(t.q)[i] = Append(PendingOf(s.q), c)[i]
      OBVIOUS
    <3>1. PendingOf(t.q)[i] = t.q.cmd[Slot(t.q, i - 1)]
      BY <1>6 DEF PendingOf
    <3>2. i - 1 \in 0 .. s.q.count
      BY <1>1, SizeAssumption
    <3>3. i # s.q.count + 1 => PendingOf(s.q)[i] = s.q.cmd[Slot(s.q, i - 1)]
      BY <1>1, SizeAssumption DEF PendingOf
    <3>. QED
      BY <3>1, <3>2, <3>3, <1>1, <1>7, <2>1, SizeAssumption
  <2>4. Append(PendingOf(s.q), c) \in Seq(Command) /\ Len(Append(PendingOf(s.q), c)) = s.q.count + 1
    BY <2>1
  <2>. QED
    BY <2>2, <2>3, <2>4
<1>. QED
  BY <1>5, <1>6, <1>8, <1>9, <1>10, <1>11, <1>3 DEF Good

\* cmd_queue_element_init() of an element outside the window is not seen.
LEMMA ClearedLemma ==
  ASSUME NEW s, Good(s), NEW e \in Element,
         \A i \in 0 .. s.q.count - 1 : Slot(s.q, i) # e
  PROVE  LET t == Cleared(s, e)
         IN  Good(t) /\ PendingOf(t.q) = PendingOf(s.q) /\ Same(t.q, s.q)
<1>. DEFINE t == Cleared(s, e)
<1>1. s.q \in Ring /\ s.q.cmd \in [Element -> Command \cup {NoCommand}]
      /\ s.q.count \in 0 .. QSize
  BY DEF Good, Ring
<1>2. t = State(t.q, t.flash) /\ t.flash = s.flash
      /\ t.q = [s.q EXCEPT !.cmd = [@ EXCEPT ![e] = NoCommand]]
  BY DEF Cleared, State, Good
<1>3. t.q \in Ring /\ Same(t.q, s.q) /\ t.q.access = s.q.access
      /\ t.q.cmd = [s.q.cmd EXCEPT ![e] = NoCommand]
  <2>1. [s.q.cmd EXCEPT ![e] = NoCommand] \in [Element -> Command \cup {NoCommand}]
    BY <1>1
  <2>. QED
    BY <1>1, <1>2, <2>1 DEF Ring, Same
<1>4. \A i \in 0 .. s.q.count - 1 :
        Slot(t.q, i) = Slot(s.q, i) /\ t.q.cmd[Slot(s.q, i)] = s.q.cmd[Slot(s.q, i)]
  <2>. SUFFICES ASSUME NEW i \in 0 .. s.q.count - 1
                PROVE  /\ Slot(t.q, i) = Slot(s.q, i)
                       /\ t.q.cmd[Slot(s.q, i)] = s.q.cmd[Slot(s.q, i)]
    OBVIOUS
  <2>1. i \in 0 .. QSize /\ s.q.rp \in Element
    BY <1>1, SizeAssumption DEF Ring
  <2>2. Slot(s.q, i) \in Element
    BY <2>1, SlotType DEF Slot
  <2>. QED
    BY <2>2, <1>1, <1>3 DEF Slot, Same
<1>5. WindowFilled(t.q)
  BY <1>3, <1>4 DEF WindowFilled, Good, Same
<1>6. HeadInFlight(t)
  <2>. SUFFICES ASSUME s.q.access
                PROVE  t.q.count > 0 /\ t.flash = [cmd |-> t.q.cmd[t.q.rp], round |-> t.q.round]
    BY <1>3 DEF HeadInFlight
  <2>1. s.q.count > 0 /\ s.flash = [cmd |-> s.q.cmd[s.q.rp], round |-> s.q.round]
    BY DEF Good, HeadInFlight
  <2>2. 0 \in 0 .. s.q.count - 1 /\ Slot(s.q, 0) = s.q.rp
    BY <2>1, <1>1, SizeAssumption DEF Slot, RingIndex, Ring, Element
  <2>3. t.q.cmd[s.q.rp] = s.q.cmd[s.q.rp]
    BY <2>2, <1>4
  <2>. QED
    BY <2>1, <2>3, <1>2, <1>3 DEF Same
<1>7. PendingOf(t.q) = PendingOf(s.q)
  <2>1. \A i \in 1 .. s.q.count : i - 1 \in 0 .. s.q.count - 1
    BY <1>1, SizeAssumption
  <2>2. \A i \in 1 .. s.q.count : t.q.cmd[Slot(t.q, i - 1)] = s.q.cmd[Slot(s.q, i - 1)]
    BY <2>1, <1>4
  <2>. QED
    BY <2>2, <1>3 DEF PendingOf, Same
<1>. QED
  BY <1>1, <1>2, <1>3, <1>5, <1>6, <1>7 DEF Good

\* cmd_queue_dequeue() may start the head and changes nothing else.
LEMMA DequeuedLemma ==
  ASSUME NEW s, Good(s), NEW answer
  PROVE  LET t == Dequeued(s, answer)
         IN  /\ Good(t) /\ PendingOf(t.q) = PendingOf(s.q) /\ Same(t.q, s.q)
             /\ answer = "SUCCESS" /\ t.q.count > 0 => t.q.access
<1>. DEFINE t == Dequeued(s, answer)
<1>1. CASE s.q.count > 0 /\ ~s.q.access
  <2>1. t = CmdProcess(s, answer)
    BY <1>1 DEF Dequeued
  <2>2. /\ t = State(t.q, t.flash) /\ t.q \in Ring /\ t.flash \in FlashState
        /\ Same(t.q, s.q) /\ t.q.cmd = s.q.cmd
        /\ t.q.access => t.flash = [cmd |-> s.q.cmd[s.q.rp], round |-> s.q.round]
    BY <2>1, CmdProcessLemma DEF Good
  <2>3. \A i : Slot(t.q, i) = Slot(s.q, i)
    BY <2>2 DEF Slot, Same
  <2>4. WindowFilled(t.q)
    BY <2>2, <2>3 DEF WindowFilled, Good, Same
  <2>5. HeadInFlight(t)
    BY <1>1, <2>2 DEF HeadInFlight, Same
  <2>6. PendingOf(t.q) = PendingOf(s.q)
    BY <2>2, <2>3 DEF PendingOf, Same
  <2>7. answer = "SUCCESS" => t.q.access
    <3>1. 0 \in 0 .. s.q.count - 1 /\ Slot(s.q, 0) = s.q.rp
      BY <1>1, SizeAssumption DEF Slot, RingIndex, Good, Ring, Element
    <3>2. s.q.cmd[s.q.rp] # NoCommand
      BY <3>1, CommandAssumption DEF Good, WindowFilled
    <3>. QED
      BY <2>1, <3>2, CmdProcessStarts DEF Good
  <2>. QED
    BY <2>2, <2>4, <2>5, <2>6, <2>7 DEF Good
<1>2. CASE ~(s.q.count > 0 /\ ~s.q.access)
  BY <1>2 DEF Dequeued, Same
<1>. QED
  BY <1>1, <1>2

\* The end of a command takes it off the queue; its element is then as far
\* behind the window as an element can be.
LEMMA PoppedLemma ==
  ASSUME Good(State(q, flash)), q.count > 0
  PROVE  LET t == State(Popped, NoFlash)
         IN  /\ Good(t) /\ t.q.round = 0 /\ t.q.count = q.count - 1
             /\ t.q.rp = RingIndex(q.rp + 1)
             /\ PendingOf(t.q) = Tail(PendingOf(q))
<1>. DEFINE t == State(Popped, NoFlash)
<1>1. q \in Ring /\ WindowFilled(q) /\ q.rp \in Element /\ q.count \in 1 .. QSize
  BY SizeAssumption DEF Good, State, Ring
<1>2. t.q = Popped /\ t.flash = NoFlash
  BY DEF State
<1>3. /\ t.q \in Ring /\ t.q.round = 0 /\ t.q.count = q.count - 1 /\ ~t.q.access
      /\ t.q.rp = RingIndex(q.rp + 1) /\ t.q.cmd = q.cmd
  <2>1. 1 \in 0 .. QSize /\ q.count - 1 \in 0 .. QSize
    BY <1>1, SizeAssumption
  <2>2. RingIndex(q.rp + 1) \in Element
    BY <2>1, <1>1, SlotType
  <2>3. Popped \in Ring
    BY <1>1, <2>1, <2>2 DEF Popped, Ring
  <2>4. /\ Popped.round = 0 /\ Popped.count = q.count - 1 /\ ~Popped.access
        /\ Popped.rp = RingIndex(q.rp + 1) /\ Popped.cmd = q.cmd
    BY <1>1 DEF Popped, Ring
  <2>. QED
    BY <1>2, <2>3, <2>4
<1>4. t.flash \in FlashState
  BY <1>2 DEF NoFlash, FlashState
<1>5. \A i \in 0 .. q.count - 2 : Slot(t.q, i) = Slot(q, i + 1)
  BY <1>1, <1>3, SlotShift, SizeAssumption DEF Slot
<1>6. WindowFilled(t.q)
  <2>. SUFFICES ASSUME NEW i \in 0 .. t.q.count - 1
                PROVE  t.q.cmd[Slot(t.q, i)] \in Command
    BY DEF WindowFilled
  <2>1. i \in 0 .. q.count - 2 /\ i + 1 \in 0 .. q.count - 1
    BY <1>1, <1>3, SizeAssumption
  <2>. QED
    BY <2>1, <1>1, <1>3, <1>5 DEF WindowFilled
<1>7. PendingOf(t.q) = Tail(PendingOf(q))
  <2>1. PendingOf(q) \in Seq(Command) /\ Len(PendingOf(q)) = q.count
    BY <1>1, PendingType
  <2>2. PendingOf(t.q) \in Seq(Command) /\ Len(PendingOf(t.q)) = q.count - 1
    BY <1>3, <1>6, PendingType
  <2>3. Tail(PendingOf(q)) \in Seq(Command) /\ Len(Tail(PendingOf(q))) = q.count - 1
    BY <1>1, <2>1, SizeAssumption
  <2>4. \A i \in 1 .. q.count - 1 : PendingOf(t.q)[i] = Tail(PendingOf(q))[i]
    <3>. SUFFICES ASSUME NEW i \in 1 .. q.count - 1
                  PROVE  PendingOf(t.q)[i] = Tail(PendingOf(q))[i]
      OBVIOUS
    <3>1. i - 1 \in 0 .. q.count - 2 /\ i + 1 \in 1 .. q.count /\ (i - 1) + 1 = (i + 1) - 1
      BY <1>1, SizeAssumption
    <3>2. PendingOf(t.q)[i] = q.cmd[Slot(q, (i - 1) + 1)]
      BY <3>1, <1>3, <1>5 DEF PendingOf
    <3>3. Tail(PendingOf(q))[i] = PendingOf(q)[i + 1]
      BY <1>1, <2>1, SizeAssumption
    <3>. QED
      BY <3>1, <3>2, <3>3 DEF PendingOf
  <2>. QED
    BY <2>2, <2>3, <2>4
<1>. QED
  BY <1>2, <1>3, <1>4, <1>6, <1>7 DEF Good, HeadInFlight, State

\* The element that was popped is not in the window, as long as the callback
\* leaves one element free.
LEMMA PoppedOutside ==
  ASSUME NEW rp \in Element, NEW i \in 0 .. QSize - 2
  PROVE  RingIndex(RingIndex(rp + 1) + i) # rp
BY SizeAssumption, SMT DEF RingIndex, Element

\* The commands of a callback are appended in order.
LEMMA BatchLemma ==
  ASSUME NEW s, Good(s), NEW cs \in Batch, s.q.count + Len(cs) <= QSize, NEW answer
  PROVE  LET t == BatchEnqueued(s, cs, answer)
         IN  /\ Good(t) /\ PendingOf(t.q) = PendingOf(s.q) \o cs
             /\ t.q.rp = s.q.rp /\ t.q.round = s.q.round
             /\ t.q.count = s.q.count + Len(cs)
<1>. DEFINE t == BatchEnqueued(s, cs, answer)
            u == Enqueued(s, cs[1], answer)
<1>1. s.q.count \in Nat /\ PendingOf(s.q) \in Seq(Command)
  BY PendingType, SizeAssumption DEF Good, Ring
<1>2. CASE cs = <<>>
  <2>1. Len(cs) = 0 /\ t = s
    BY <1>2 DEF BatchEnqueued
  <2>. QED
    BY <2>1, <1>1, <1>2
<1>3. ASSUME NEW c \in Command, cs = <<c>>
      PROVE  /\ Good(t) /\ PendingOf(t.q) = PendingOf(s.q) \o cs
             /\ t.q.rp = s.q.rp /\ t.q.round = s.q.round
             /\ t.q.count = s.q.count + Len(cs)
  <2>1. Len(cs) = 1 /\ cs[1] = c
    BY <1>3
  <2>2. t = u /\ s.q.count < QSize
    <3>1. s.q.count < QSize
      BY <2>1, <1>1, SizeAssumption
    <3>2. Len(cs) > 0 /\ ~(Len(cs) > 1)
      BY <2>1
    <3>. QED
      BY <3>1, <3>2, Zenon DEF BatchEnqueued
  <2>3. /\ Good(u) /\ PendingOf(u.q) = Append(PendingOf(s.q), c)
        /\ u.q.rp = s.q.rp /\ u.q.round = s.q.round /\ u.q.count = s.q.count + 1
    BY <2>1, <2>2, EnqueuedLemma
  <2>4. Append(PendingOf(s.q), c) = PendingOf(s.q) \o <<c>>
    BY <1>1
  <2>. QED
    BY <2>1, <2>2, <2>3, <2>4, <1>3
<1>4. ASSUME NEW c \in Command, NEW d \in Command, cs = <<c, d>>
      PROVE  /\ Good(t) /\ PendingOf(t.q) = PendingOf(s.q) \o cs
             /\ t.q.rp = s.q.rp /\ t.q.round = s.q.round
             /\ t.q.count = s.q.count + Len(cs)
  <2>1. Len(cs) = 2 /\ cs[1] = c /\ cs[2] = d
    BY <1>4
  <2>2. t = Enqueued(u, d, answer) /\ s.q.count < QSize /\ s.q.count + 1 < QSize
    <3>1. s.q.count < QSize /\ s.q.count + 1 < QSize
      BY <2>1, <1>1, SizeAssumption
    <3>2. Len(cs) > 0 /\ Len(cs) > 1
      BY <2>1
    <3>. QED
      BY <2>1, <3>1, <3>2, Zenon DEF BatchEnqueued
  <2>3. /\ Good(u) /\ PendingOf(u.q) = Append(PendingOf(s.q), c)
        /\ u.q.rp = s.q.rp /\ u.q.round = s.q.round /\ u.q.count = s.q.count + 1
    BY <2>1, <2>2, EnqueuedLemma
  <2>4. /\ Good(t) /\ PendingOf(t.q) = Append(PendingOf(u.q), d)
        /\ t.q.rp = u.q.rp /\ t.q.round = u.q.round /\ t.q.count = u.q.count + 1
    BY <2>2, <2>3, EnqueuedLemma
  <2>5. Append(Append(PendingOf(s.q), c), d) = PendingOf(s.q) \o <<c, d>>
    BY <1>1
  <2>. QED
    BY <2>1, <2>3, <2>4, <2>5, <1>1, <1>4
<1>. QED
  BY <1>2, <1>3, <1>4 DEF Batch

-----------------------------------------------------------------------------
(* The actions.                                                            *)

IInv == Good(State(q, flash))

\* What a step of the ring is in the abstract queue.
LEMMA PendingIsPending == Pending = PendingOf(q)
BY DEF Pending, PendingOf, Slot

LEMMA InitGood == Init => Good(State(q, flash)) /\ Pending = <<>> /\ q.round = 0
<1>. SUFFICES ASSUME Init PROVE Good(State(q, flash)) /\ Pending = <<>> /\ q.round = 0
  OBVIOUS
<1>1. q \in Ring /\ q.count = 0 /\ ~q.access /\ q.round = 0
  BY SizeAssumption DEF Init, EmptyQueue, Ring, Element
<1>2. flash \in FlashState
  BY DEF Init, NoFlash, FlashState
<1>3. WindowFilled(q)
  BY <1>1 DEF WindowFilled
<1>4. Pending = <<>>
  <2>1. PendingOf(q) \in Seq(Command) /\ Len(PendingOf(q)) = 0
    BY <1>1, <1>3, PendingType
  <2>. QED
    BY <2>1, PendingIsPending
<1>. QED
  BY <1>1, <1>2, <1>3, <1>4 DEF Good, HeadInFlight, State

LEMMA SubmitStep ==
  ASSUME Good(State(q, flash)), NEW c \in Command, NEW answer, Submit(c, answer)
  PROVE  /\ Good(State(q, flash))' /\ Fifo!Submit(c)
         /\ answer = "SUCCESS" => ~Asleep'
<1>. DEFINE s == State(q, flash)
            t == Enqueued(s, c, answer)
<1>1. s.q = q /\ s.flash = flash /\ q \in Ring
  BY DEF Good, State
<1>2. q.count < QSize
  BY <1>1, SizeAssumption DEF Submit, HasRoom, Ring
<1>3. q' = t.q /\ flash' = t.flash
  BY DEF Submit, Becomes
<1>4. /\ Good(t) /\ PendingOf(t.q) = Append(PendingOf(q), c)
      /\ t.q.round = q.round
      /\ answer = "SUCCESS" => t.q.access
  BY <1>1, <1>2, EnqueuedLemma
<1>5. State(q, flash)' = t
  BY <1>3, <1>4 DEF State, Good
<1>6. Len(Pending) = q.count
  BY <1>1, PendingType, PendingIsPending DEF Good, State
<1>7. Pending' = Append(Pending, c)
  BY <1>3, <1>4, PendingIsPending DEF Pending, PendingOf, Slot
<1>. QED
  BY <1>2, <1>3, <1>4, <1>5, <1>6, <1>7 DEF Fifo!Submit, Asleep

LEMMA NextRoundStep ==
  ASSUME Good(State(q, flash)), NEW answer, NextRound(answer)
  PROVE  /\ Good(State(q, flash))' /\ Fifo!Round
         /\ answer = "SUCCESS" => ~Asleep'
<1>. DEFINE r == [q EXCEPT !.access = FALSE, !.round = RoundDone]
            s == State(r, NoFlash)
            t == Dequeued(s, answer)
<1>1. /\ q \in Ring /\ WindowFilled(q) /\ q.round \in Nat /\ q.count > 0
      /\ q.rp \in Element
  BY DEF Good, State, Ring, NextRound, HeadInFlight
<1>2. s.q = r /\ s.flash = NoFlash
  BY DEF State
<1>3. /\ r \in Ring /\ r.rp = q.rp /\ r.count = q.count /\ r.cmd = q.cmd
      /\ r.round = q.round + 1 /\ ~r.access
  <2>1. RoundDone \in Nat /\ RoundDone = q.round + 1
    BY <1>1 DEF RoundDone
  <2>2. r \in Ring
    BY <1>1, <2>1 DEF Ring
  <2>3. /\ r.rp = q.rp /\ r.count = q.count /\ r.cmd = q.cmd
        /\ r.round = RoundDone /\ ~r.access
    BY <1>1 DEF Ring
  <2>. QED
    BY <2>1, <2>2, <2>3
<1>4. \A i : Slot(r, i) = Slot(q, i)
  BY <1>3 DEF Slot
<1>5. Good(s) /\ PendingOf(r) = PendingOf(q)
  <2>1. s.flash \in FlashState
    BY <1>2 DEF NoFlash, FlashState
  <2>2. WindowFilled(r)
    BY <1>1, <1>3, <1>4 DEF WindowFilled
  <2>3. PendingOf(r) = PendingOf(q)
    BY <1>3, <1>4 DEF PendingOf
  <2>. QED
    BY <1>2, <1>3, <2>1, <2>2, <2>3 DEF Good, HeadInFlight, State
<1>6. /\ Good(t) /\ PendingOf(t.q) = PendingOf(q) /\ t.q.round = q.round + 1
      /\ answer = "SUCCESS" /\ t.q.count > 0 => t.q.access
  <2>1. s.q.round = q.round + 1 /\ PendingOf(s.q) = PendingOf(q)
    BY <1>2, <1>3, <1>5
  <2>2. /\ Good(t) /\ PendingOf(t.q) = PendingOf(s.q) /\ Same(t.q, s.q)
        /\ answer = "SUCCESS" /\ t.q.count > 0 => t.q.access
    BY <1>5, DequeuedLemma
  <2>. QED
    BY <2>1, <2>2 DEF Same
<1>7. q' = t.q /\ flash' = t.flash
  BY DEF NextRound, Becomes
<1>8. State(q, flash)' = t
  BY <1>6, <1>7 DEF State, Good
<1>9. Pending' = Pending
  BY <1>6, <1>7, PendingIsPending DEF Pending, PendingOf, Slot
<1>10. Pending # <<>> /\ Head(Pending) = q.cmd[q.rp]
  BY <1>1, PendingType, PendingIsPending
<1>11. ~(q.round + 1 >= Rounds[Head(Pending)])
  BY <1>10 DEF NextRound, LastRound, RoundDone
<1>12. Rounds[Head(Pending)] \in Nat
  <2>1. Head(Pending) \in Command
    BY <1>1, <1>10, PendingType, PendingIsPending
  <2>. QED
    BY <2>1, CommandAssumption
<1>. QED
  BY <1>1, <1>6, <1>7, <1>8, <1>9, <1>10, <1>11, <1>12 DEF Fifo!Round, Asleep

LEMMA CommandFinishedStep ==
  ASSUME Good(State(q, flash)), NEW answer, NEW cs \in Batch,
         CommandFinished(cs, answer)
  PROVE  /\ Good(State(q, flash))' /\ Fifo!Complete(cs)
         /\ answer = "SUCCESS" => ~Asleep'
<1>. DEFINE s == State(Popped, NoFlash)
            u == BatchEnqueued(s, cs, answer)
            v == Cleared(u, q.rp)
            t == Dequeued(v, answer)
<1>1. /\ q \in Ring /\ WindowFilled(q) /\ q.count \in 1 .. QSize
      /\ q.rp \in Element
  BY SizeAssumption DEF Good, State, Ring, CommandFinished, HeadInFlight
<1>2. /\ Good(s) /\ s.q.round = 0 /\ s.q.count = q.count - 1
      /\ s.q.rp = RingIndex(q.rp + 1) /\ PendingOf(s.q) = Tail(PendingOf(q))
  BY <1>1, PoppedLemma
<1>3. cs \in Seq(Command) /\ Len(cs) \in Nat
  <2>1. CASE cs = <<>>
    BY <2>1
  <2>2. ASSUME NEW c \in Command, cs = <<c>> PROVE cs \in Seq(Command) /\ Len(cs) \in Nat
    BY <2>2
  <2>3. ASSUME NEW c \in Command, NEW d \in Command, cs = <<c, d>>
        PROVE  cs \in Seq(Command) /\ Len(cs) \in Nat
    BY <2>3
  <2>. QED
    BY <2>1, <2>2, <2>3 DEF Batch
<1>4. q.count - 1 + Len(cs) <= QSize - 1 /\ q.count - 1 + Len(cs) <= QSize
  BY <1>1, <1>3, SizeAssumption DEF CommandFinished
<1>5. /\ Good(u) /\ PendingOf(u.q) = Tail(PendingOf(q)) \o cs
      /\ u.q.rp = RingIndex(q.rp + 1) /\ u.q.round = 0
      /\ u.q.count = q.count - 1 + Len(cs)
  <2>1. s.q.count = q.count - 1
    BY <1>2
  <2>. QED
    BY <1>2, <1>4, <2>1, BatchLemma
<1>6. \A i \in 0 .. u.q.count - 1 : Slot(u.q, i) # q.rp
  <2>. SUFFICES ASSUME NEW i \in 0 .. u.q.count - 1 PROVE Slot(u.q, i) # q.rp
    OBVIOUS
  <2>1. i \in 0 .. QSize - 2
    <3>1. u.q.count <= QSize - 1
      BY <1>4, <1>5
    <3>2. u.q.count \in Int
      BY <1>5, SizeAssumption DEF Good, Ring
    <3>. QED
      BY <3>1, <3>2, SizeAssumption
  <2>. QED
    BY <2>1, <1>1, <1>5, PoppedOutside DEF Slot
<1>7. Good(v) /\ PendingOf(v.q) = PendingOf(u.q) /\ v.q.round = 0
  BY <1>1, <1>5, <1>6, ClearedLemma DEF Same
<1>8. /\ Good(t) /\ PendingOf(t.q) = Tail(PendingOf(q)) \o cs /\ t.q.round = 0
      /\ answer = "SUCCESS" /\ t.q.count > 0 => t.q.access
  BY <1>5, <1>7, DequeuedLemma DEF Same
<1>9. q' = t.q /\ flash' = t.flash
  BY DEF CommandFinished, Becomes
<1>10. State(q, flash)' = t
  BY <1>8, <1>9 DEF State, Good
<1>11. Pending' = Tail(Pending) \o cs
  BY <1>8, <1>9, PendingIsPending DEF Pending, PendingOf, Slot
<1>12. /\ Pending \in Seq(Command) /\ Len(Pending) = q.count
       /\ Pending # <<>> /\ Head(Pending) = q.cmd[q.rp]
  BY <1>1, PendingType, PendingIsPending
<1>13. Len(Tail(Pending) \o cs) <= QSize
  <2>1. Len(Tail(Pending)) = q.count - 1 /\ Tail(Pending) \in Seq(Command)
    BY <1>1, <1>12
  <2>2. Len(Tail(Pending) \o cs) = q.count - 1 + Len(cs)
    BY <2>1, <1>3
  <2>. QED
    BY <2>2, <1>4
<1>14. q.round + 1 >= Rounds[Head(Pending)]
  BY <1>12 DEF CommandFinished, LastRound, RoundDone
<1>. QED
  BY <1>8, <1>9, <1>10, <1>11, <1>12, <1>13, <1>14 DEF Fifo!Complete, Asleep

LEMMA FlashErrorStep ==
  ASSUME FlashError
  PROVE  Good(State(q, flash))' /\ Fifo!Reset
<1>1. (Init => Good(State(q, flash)) /\ Pending = <<>> /\ q.round = 0)'
  BY InitGood, PTL
<1>. QED
  BY <1>1 DEF FlashError, Init, Fifo!Reset

-----------------------------------------------------------------------------
(* The theorems.                                                           *)

LEMMA Step ==
  ASSUME IInv, [Next]_vars
  PROVE  IInv' /\ [Fifo!Next]_(Fifo!vars)
<1>1. ASSUME NEW c \in Command, NEW answer \in Answers, Submit(c, answer)
      PROVE  IInv' /\ Fifo!Next
  BY <1>1, SubmitStep DEF IInv, Fifo!Next
<1>2. ASSUME NEW answer \in Answers, NextRound(answer)
      PROVE  IInv' /\ Fifo!Next
  BY <1>2, NextRoundStep DEF IInv, Fifo!Next
<1>3. ASSUME NEW answer \in Answers, NEW cs \in Batch, CommandFinished(cs, answer)
      PROVE  IInv' /\ Fifo!Next
  BY <1>3, CommandFinishedStep DEF IInv, Fifo!Next, Batch, Fifo!Batch
<1>4. CASE FlashError
  BY <1>4, FlashErrorStep DEF IInv, Fifo!Next
<1>5. CASE UNCHANGED vars
  BY <1>5 DEF IInv, vars, Fifo!vars, Pending, Good, State, HeadInFlight
<1>. QED
  BY <1>1, <1>2, <1>3, <1>4, <1>5 DEF Next, FlashEvent

\* The inductive invariant: the elements of the queue hold commands, and the
\* flash operation in progress is the head's.
THEOREM InvariantHolds == Spec => []IInv
<1>1. Init => IInv
  BY InitGood DEF IInv
<1>. QED
  BY <1>1, Step, PTL DEF Spec

\* The ring stays well formed.
THEOREM TypeCorrect == Spec => []TypeOK
<1>1. IInv => TypeOK
  BY DEF IInv, Good, State, TypeOK, Ring, FlashState
<1>. QED
  BY <1>1, InvariantHolds, PTL

\* The event that ends a flash operation is charged to the command that asked
\* for it.
THEOREM EventsReachOwner == Spec => []WorksOnHead
<1>1. IInv => WorksOnHead
  BY DEF IInv, Good, State, HeadInFlight, WorksOnHead
<1>. QED
  BY <1>1, InvariantHolds, PTL

\* The next command is started whenever the SoftDevice lets it, also when the
\* callback of the one before has put it into the queue.
THEOREM NextIsStarted == Spec => NeverSleeps
<1>1. IInv /\ [Next]_vars => (StartedBy("SUCCESS") => ~Asleep')
  <2>. SUFFICES ASSUME IInv, StartedBy("SUCCESS") PROVE ~Asleep'
    OBVIOUS
  <2>1. ASSUME NEW c \in Command, Submit(c, "SUCCESS") PROVE ~Asleep'
    BY <2>1, SubmitStep DEF IInv
  <2>2. CASE NextRound("SUCCESS")
    BY <2>2, NextRoundStep DEF IInv
  <2>3. ASSUME NEW cs \in Batch, CommandFinished(cs, "SUCCESS") PROVE ~Asleep'
    BY <2>3, CommandFinishedStep DEF IInv
  <2>. QED
    BY <2>1, <2>2, <2>3 DEF StartedBy, FlashEvent
<1>. QED
  BY <1>1, InvariantHolds, PTL DEF Spec, NeverSleeps

\* pstorage is the FIFO queue that its clients take it for, whatever the
\* SoftDevice answers and whatever the callbacks submit.
THEOREM RingIsFifo == Spec => KeepsOrder
<1>1. Init => Fifo!Init
  BY InitGood DEF Fifo!Init
<1>2. IInv /\ [Next]_vars => [Fifo!Next]_(Fifo!vars)
  BY Step
<1>. QED
  BY <1>1, <1>2, InvariantHolds, PTL DEF Spec, KeepsOrder, Fifo!Spec
=============================================================================
