-------------------------- MODULE SerialQueueProofs --------------------------
(***************************************************************************)
(* The queue between the UART interrupt and the main loop: that its        *)
(* counters agree with what they count for every number of elements and    *)
(* buffers, and that with a host that waits for the device the buffers are *)
(* the packets', none is lost or out of order, and the device always has a *)
(* buffer to receive into.                                                 *)
(***************************************************************************)
EXTENDS SerialQueue, HciMemPoolProofs, FiniteSetTheorems, SequenceTheorems,
        WellFoundedInduction

\* Where the main loop is: outside data_queue_element_free(), before it, in it.
Loop  == {"idle", "test", "scan", "flush"}
Freeing == {"free", "count", "type", "pointer", "find", "bits", "release", "avail", "load", "window"}

MainState == [pc : Loop \cup Freeing, i : 0 .. Slots, back : {"scan", "flush"},
              buf : Buffer \cup {None}, tmp : Int, bits : SUBSET Buffer]

Types ==
  /\ host \in Hosts /\ up \in {"open", "closed", "reset"}
  /\ acked \in 0 .. host.packets /\ sched \in 0 .. SchedSize /\ sched <= acked
  /\ rx \in Buffer \cup {None} /\ count \in 0 .. 255
  /\ data \in [Buffer -> [n : Nat, kind : Kind]]
  /\ slot \in [Slot -> [type : Kind, buf : Buffer \cup {None}, n : Nat]]
  /\ main \in MainState

\* An event of the scheduler is handled until its handler returns, and an
\* element that is freed is one that is used.
Handling ==
  /\ main.pc \in {"test", "scan"} \/ (main.pc \in Freeing /\ main.back = "scan") => sched > 0
  /\ main.pc \in Freeing => main.i \in Slot
  /\ main.pc \in {"free", "count", "type"} => main.i \in Used

\* The release of an element is one step: whatever order the buffers come back
\* in, no place of the ring is lost, and each used element is counted.
Whole ==
  /\ main.pc \in Loop \cup {"free"}
  /\ Ring(pool) /\ pool.ready = (IF rx = None THEN 0 ELSE 1)
  /\ up = "open" => count = Cardinality(Used)

\* The pool when buffer r is received into: no other is in use, or the one
\* before it holds a packet.
Resting(r) == [window |-> N - 1, ready |-> 1, avail |-> 0,
               write |-> Wrap(r + 1), read |-> r, busy |-> {r}]
Holding(r) == [window |-> N - 2, ready |-> 1, avail |-> 1,
               write |-> Wrap(r + 1), read |-> r, busy |-> {Wrap(r - 1), r}]
Before == Wrap(rx - 1)

\* The packets that were acknowledged and not handed to the engine.
Owed == acked - Len(handled)
\* Element s holds the only one.
Element(s) ==
  /\ Used = {s} /\ slot[s].type = "DATA" /\ slot[s].buf = Before /\ data[Before].n = acked
  /\ pool = Holding(rx)

\* Where the main loop is, with a host that sends one packet at a time.
AtRest == Used = {} /\ count = 0 /\ pool = Resting(rx) /\ (main.pc # "flush" => Owed = 0)
Waits  == count = 1 /\ Owed = 1 /\ \E s \in Slot : Element(s)
InLoop == main.pc \in Loop /\ Owed \in {0, 1} /\ (AtRest \/ Waits)
\* The store of the busy bits is done, that of the window is not.
Unmarked(n) == [window |-> N - 2, ready |-> 1, avail |-> n,
                write |-> Wrap(rx + 1), read |-> rx, busy |-> {rx}]
InFree ==
  /\ main.pc \in Freeing /\ Owed = (IF main.back = "scan" THEN 0 ELSE 1)
  /\ main.pc \in {"free", "count"} => count = 1
  /\ main.pc \notin {"free", "count"} => count = 0
  /\ main.pc \in {"free", "count", "type"} => Element(main.i)
  /\ main.pc \notin {"free", "count", "type"} => Used = {}
  /\ main.pc \notin {"free", "release"} => main.buf = Before
  /\ main.pc = "count" => main.tmp = 1
  /\ main.pc \in {"pointer", "find"} => pool = Holding(rx)
  /\ main.pc = "bits" => pool = Holding(rx) /\ main.tmp = Before /\ main.bits = {rx}
  /\ main.pc = "release" =>
       \/ pool = Unmarked(1) /\ main.tmp = Before /\ main.buf = Before
       \/ pool = Resting(rx)
  /\ main.pc = "avail" => pool = Unmarked(1) /\ main.tmp = 1
  /\ main.pc = "load" => pool = Unmarked(0)
  /\ main.pc = "window" => pool = Unmarked(0) /\ main.tmp = N - 2

Single ==
  /\ rx \in Buffer /\ dropped = {} /\ up # "reset"
  /\ handled = [i \in 1 .. Len(handled) |-> i]
  /\ up = "open" => InLoop \/ InFree
  /\ up = "closed" => main.pc = "idle" /\ pool \in {Resting(rx), Holding(rx)}

\* The hosts of S send one packet at a time, and find that the scheduler has
\* room.  A packet comes within a release only from one of them, that is: never.
Lone(S) == host \in S
Inv(S) == /\ Types /\ Handling
          /\ host.preempts => Lone(S)
          /\ ~host.preempts => Whole
          /\ Lone(S) => OneAtATime
          /\ Lone(S) => Single

\* There is room for the event of every packet that comes.
HasRoom == acked < host.packets => sched < SchedSize

\* The hosts that the theorems are about: with the paced ones the scheduler has
\* room for all packets, with the patient ones it may have.
PatientHosts == {h \in Hosts : h.window = 1 /\ h.kinds = {"DATA"}}
PacedHosts == {h \in PatientHosts : h.packets <= SchedSize}
Calm == host.preempts => Paced
CalmInv == Calm => Inv(PacedHosts)
PatientInv == OneAtATime => Inv(PatientHosts)


-----------------------------------------------------------------------------
(* The constants, the hosts and the pool with at most one packet.          *)

\* The numbers that the model is built from.
LEMMA QueueConstants ==
  /\ Slots \in Nat /\ Slots > 1 /\ Slots <= 256 /\ N \in Nat /\ N > 1
  /\ SchedSize \in Nat /\ SchedSize > 0 /\ None \notin Buffer /\ 0 \in Buffer
  /\ \A h \in Hosts : /\ h.window \in Nat \ {0} /\ h.packets \in Nat \ {0}
                      /\ h.kinds \subseteq Kind /\ h.preempts \in BOOLEAN
  BY QueueAssumption, PoolAssumption DEF Buffer, Host

\* data_queue_element_alloc() finds an element that is free.
LEMMA LowestFound ==
  ASSUME NEW S \in SUBSET Slot, S # {}
  PROVE  Lowest(S) \in S
<1> DEFINE R == OpToRel(<, Nat)
<1>1. S \subseteq Nat
  BY DEF Slot
<1>2. PICK x \in S : \A y \in S : ~(<<y, x>> \in R)
  BY <1>1, NatLessThanWellFounded, WFMin
<1>3. R = {ss \in Nat \X Nat : ss[1] < ss[2]}
  BY Zenon DEF OpToRel
<1> HIDE DEF R
<1>4. \A y \in S : x <= y
  <2> SUFFICES ASSUME NEW y \in S, ~(x <= y) PROVE FALSE
    OBVIOUS
  <2>1. x \in Nat /\ y \in Nat /\ y < x
    BY <1>1
  <2>2. <<y, x>> \in R
    BY <1>3, <2>1
  <2> QED
    BY <1>2, <2>2
<1> QED
  BY <1>4 DEF Lowest

\* The places around the buffer that is received into.
LEMMA Around ==
  ASSUME NEW r \in Buffer
  PROVE  /\ Wrap(r - 1) \in Buffer /\ Wrap(r + 1) \in Buffer
         /\ Wrap(r - 1) # r /\ Wrap(r + 1) # r /\ Wrap(r) = r
         /\ Wrap(Wrap(r + 1) - 1) = r /\ Wrap(Wrap(r - 1) + 1) = r
<1>1. N \in Nat /\ N > 1 /\ r \in 0 .. N - 1
  BY QueueConstants DEF Buffer
<1>2. Wrap(r + 1) = IF r + 1 < N THEN r + 1 ELSE 0
  BY <1>1, WrapCases
<1>3. Wrap(r - 1) = IF r = 0 THEN N - 1 ELSE r - 1
  BY <1>1, WrapCases
<1>4. Wrap(Wrap(r + 1) - 1) = r
  BY <1>1, <1>2, WrapCases
<1>5. Wrap(Wrap(r - 1) + 1) = r
  BY <1>1, <1>3, WrapCases
<1>6. Wrap(r) = r
  BY <1>1, WrapCases
<1> QED
  BY <1>1, <1>2, <1>3, <1>4, <1>5, <1>6 DEF Buffer

\* Both are pools, and where the buffer before r comes next.
LEMMA Shapes ==
  ASSUME NEW r \in Buffer
  PROVE  /\ Ring(Resting(r)) /\ Ring(Holding(r))
         /\ CanProduce(Resting(r)) /\ Resting(r).write = Wrap(r + 1)
         /\ InUse(Holding(r), 1) /\ At(Holding(r), -1) = Wrap(r - 1)
         /\ Oldest(Holding(r)) = Wrap(r - 1) /\ CanConsume(Holding(r), Wrap(r - 1))
         /\ Toggled({Wrap(r - 1), r}, Wrap(r - 1)) = {r}
<1>1. /\ N \in Nat /\ N > 1 /\ r \in Int
      /\ Wrap(r - 1) \in Buffer /\ Wrap(r + 1) \in Buffer /\ Wrap(r - 1) # r /\ Wrap(r) = r
  BY QueueConstants, Around DEF Buffer
<1>2. Resting(r) \in Pool /\ Holding(r) \in Pool
  BY <1>1 DEF Resting, Holding, Pool
<1>3. Ring(Resting(r))
  BY <1>1, <1>2 DEF Resting, Ring, At
<1>4. Ring(Holding(r))
  BY <1>1, <1>2 DEF Holding, Ring, At
<1>5. At(Holding(r), -1) = Wrap(r - 1) /\ At(Holding(r), 0) = r
  <2>1. r + (-1) = r - 1 /\ r + 0 = r
    BY <1>1
  <2> QED
    BY <1>1, <2>1 DEF At, Holding
<1>6. InUse(Holding(r), 1)
  <2>1. {At(Holding(r), k) : k \in -1 .. -1} = {At(Holding(r), -1)}
    OBVIOUS
  <2>2. {At(Holding(r), k) : k \in 0 .. 0} = {At(Holding(r), 0)}
    OBVIOUS
  <2>3. Holding(r).avail = 1 /\ Holding(r).ready = 1 /\ Holding(r).busy = {Wrap(r - 1), r}
    BY DEF Holding
  <2> QED
    BY <1>5, <2>1, <2>2, <2>3 DEF InUse
<1>7. Oldest(Holding(r)) = Wrap(r - 1)
  BY DEF Oldest, Holding
<1>8. CanConsume(Holding(r), Wrap(r - 1))
  <2>1. -1 \in -Holding(r).avail .. -1
    BY DEF Holding
  <2> QED
    BY <1>4, <1>5, <2>1, Found
<1>9. Toggled({Wrap(r - 1), r}, Wrap(r - 1)) = {r}
  BY <1>1 DEF Toggled
<1> QED
  BY <1>1, <1>3, <1>4, <1>5, <1>6, <1>7, <1>8, <1>9 DEF CanProduce, Resting

\* The interrupt takes the next buffer, and gives the packet to the main loop.
LEMMA Received ==
  ASSUME NEW r \in Buffer
  PROVE  /\ Produced(Resting(r)).read = r
         /\ Extracted(Produced(Resting(r))) = Holding(Wrap(r + 1))
<1> DEFINE p == Resting(r)
           m == Produced(p)
           q == Extracted(m)
<1>1. Ring(p) /\ CanProduce(p) /\ p.write = Wrap(r + 1)
  BY Shapes
<1>2. p.window = N - 1 /\ p.ready = 1 /\ p.avail = 0 /\ p.read = r /\ p.busy = {r}
  BY DEF Resting
<1>3. /\ Ring(m) /\ m.window = (N - 1) - 1 /\ m.ready = 2 /\ m.avail = 0 /\ m.read = r
      /\ m.write = Wrap(Wrap(r + 1) + 1) /\ m.busy = {r} \cup {Wrap(r + 1)}
  <2> HIDE DEF p
  <2>1. /\ Ring(m) /\ m.window = p.window - 1 /\ m.ready = p.ready + 1 /\ m.avail = p.avail
        /\ m.read = p.read /\ m.write = Wrap(p.write + 1) /\ m.busy = p.busy \cup {p.write}
    BY <1>1, ProducedFields
  <2> HIDE DEF m
  <2> QED
    BY <1>1, <1>2, <2>1
<1> HIDE DEF m
<1>4. /\ Ring(q) /\ q.window = (N - 1) - 1 /\ q.ready = 1 /\ q.avail = 1 /\ q.read = Wrap(r + 1)
      /\ q.write = Wrap(Wrap(r + 1) + 1) /\ q.busy = {r} \cup {Wrap(r + 1)}
  <2>1. CanExtract(m)
    BY <1>3 DEF CanExtract
  <2>2. /\ Ring(q) /\ q.window = m.window /\ q.ready = m.ready - 1 /\ q.avail = m.avail + 1
        /\ q.read = Wrap(m.read + 1) /\ q.write = m.write /\ q.busy = m.busy
    BY <1>3, <2>1, ExtractedFields
  <2> HIDE DEF q
  <2> QED
    BY <1>3, <2>2
<1> HIDE DEF q
<1>5. q = Holding(Wrap(r + 1))
  <2>1. Wrap(Wrap(r + 1) - 1) = r /\ (N - 1) - 1 = N - 2
    BY Around, QueueConstants
  <2>2. q \in Pool
    BY <1>4 DEF Ring
  <2>3. q = [window |-> q.window, ready |-> q.ready, avail |-> q.avail,
             write |-> q.write, read |-> q.read, busy |-> q.busy]
    BY <2>2 DEF Pool
  <2> QED
    BY <1>4, <2>1, <2>3 DEF Holding
<1> QED
  BY <1>3, <1>5 DEF q, m

\* The main loop gives it back.
LEMMA GivenBack ==
  ASSUME NEW r \in Buffer
  PROVE  Consumed(Holding(r), Wrap(r - 1)) = Resting(r)
<1> DEFINE p == Holding(r)
           b == Wrap(r - 1)
           q == Consumed(p, b)
<1>1. Ring(p) /\ CanConsume(p, b) /\ Oldest(p) = b /\ Toggled(p.busy, b) = {r} /\ Wrap(b + 1) = r /\ b # r
  BY Shapes, Around DEF Holding
<1>2. /\ p.window = N - 2 /\ p.ready = 1 /\ p.avail = 1 /\ p.read = r /\ p.write = Wrap(r + 1)
      /\ (N - 2) + 1 = N - 1
  BY QueueConstants DEF Holding
<1> HIDE DEF p, b
<1>3. /\ Ring(q) /\ q.ready = p.ready /\ q.read = p.read /\ q.write = p.write
      /\ q.busy = {r} /\ q.avail = p.avail - 1 /\ q.window = p.window + 1
  BY <1>1, ConsumedFields
<1> HIDE DEF q
<1>4. q = [window |-> q.window, ready |-> q.ready, avail |-> q.avail,
           write |-> q.write, read |-> q.read, busy |-> q.busy]
  BY <1>3 DEF Ring, Pool
<1>5. q = Resting(r)
  BY <1>2, <1>3, <1>4 DEF Resting
<1> QED
  BY <1>5 DEF p, b, q

-----------------------------------------------------------------------------
(* The main loop outside data_queue_element_free().                        *)

\* The parts of the invariant.
LEMMA Parts ==
  ASSUME NEW S, Inv(S)
  PROVE  /\ Types /\ Handling /\ (host.preempts => Lone(S)) /\ (~host.preempts => Whole)
         /\ (Lone(S) => OneAtATime)
         /\ (Lone(S) => Single) /\ main \in MainState
         /\ acked \in Nat /\ sched \in Nat /\ count \in Nat /\ main.i \in Nat
         /\ host \in Hosts /\ host.preempts \in BOOLEAN
<1>1. host \in Hosts
  BY DEF Inv, Types
<1>2. host.preempts \in BOOLEAN /\ host.packets \in Nat
  BY <1>1, QueueConstants
<1> QED
  BY <1>1, <1>2 DEF Inv, Types, MainState

\* The list of packets that the engine got.
LEMMA HandledFacts ==
  ASSUME Single
  PROVE  handled \in Seq(Nat) /\ Len(handled) \in Nat /\ \A i \in 1 .. Len(handled) : handled[i] = i
<1>1. handled = [i \in 1 .. Len(handled) |-> i]
  BY DEF Single
<1> DEFINE L == Len(handled)
<1>2. handled = [i \in 1 .. L |-> i]
  BY <1>1
<1> HIDE DEF L
<1> QED
  BY <1>2 DEF L

\* The main loop goes from one place outside the release to another.
LEMMA LoopMoves ==
  ASSUME NEW S, Inv(S), up = "open", up' = "open", main.pc \in Loop, main' \in MainState, main'.pc \in Loop,
         main.pc = "flush" => main'.pc = "flush",
         sched' \in 0 .. SchedSize, sched' <= acked, main'.pc \in {"test", "scan"} => sched' > 0,
         UNCHANGED <<host, acked, data, rx, pool, slot, count, handled, dropped>>
  PROVE  Inv(S)'
<1>1. Types'
  BY DEF Inv, Types, MainState
<1>2. Handling'
  BY DEF Inv, Handling, Loop, Freeing
<1>3. (host.preempts => Lone(S))' /\ (Lone(S) => OneAtATime)' /\ Lone(S)' = Lone(S)
  BY DEF Inv, Lone, OneAtATime
<1>4. ~host'.preempts => Whole'
  BY DEF Inv, Whole, Used
<1>5. ASSUME Lone(S) PROVE Single'
  <2>1. Single /\ InLoop
    <3>1. Single
      BY <1>5 DEF Inv
    <3> QED
      BY <3>1 DEF Single, InFree, Loop, Freeing
  <2>2. InLoop'
    <3>1. Owed' = Owed
      BY DEF Owed
    <3> QED
      BY <2>1, <3>1 DEF InLoop, AtRest, Waits, Element, Used, Before
  <2> QED
    BY <2>1, <2>2 DEF Single
<1> QED
  BY <1>1, <1>2, <1>3, <1>4, <1>5 DEF Inv

\* The states of the main loop that the steps make.
LEMMA MainFacts ==
  /\ Idle \in MainState /\ Idle.pc = "idle"
  /\ \A m \in MainState :
       /\ \A pc \in Loop \cup Freeing : [m EXCEPT !.pc = pc] \in MainState /\ [m EXCEPT !.pc = pc].pc = pc
       /\ [m EXCEPT !.pc = "scan", !.i = 0] \in MainState
       /\ [m EXCEPT !.pc = "test", !.i = 0] \in MainState
       /\ [m EXCEPT !.pc = "flush", !.i = 0] \in MainState
       /\ m.i < Slots => [m EXCEPT !.i = @ + 1] \in MainState
       /\ [m EXCEPT !.pc = "free", !.back = "scan"] \in MainState
       /\ [m EXCEPT !.pc = "free", !.back = "flush"] \in MainState
<1>1. 0 \in 0 .. Slots /\ Slots \in Nat
  BY QueueConstants
<1>2. Idle \in MainState /\ Idle.pc = "idle"
  BY <1>1 DEF MainState, Idle, Loop
<1>3. \A m \in MainState : \A pc \in Loop \cup Freeing :
        [m EXCEPT !.pc = pc] \in MainState /\ [m EXCEPT !.pc = pc].pc = pc
  BY DEF MainState
<1>4. \A m \in MainState, pc \in Loop : [m EXCEPT !.pc = pc, !.i = 0] \in MainState
  BY <1>1 DEF MainState
<1>5. \A m \in MainState : m.i < Slots => [m EXCEPT !.i = @ + 1] \in MainState
  BY <1>1 DEF MainState
<1>6. \A m \in MainState, back \in {"scan", "flush"} : [m EXCEPT !.pc = "free", !.back = back] \in MainState
  BY DEF MainState, Freeing
<1>7. {"scan", "test", "flush"} \subseteq Loop
  BY DEF Loop
<1> QED
  BY <1>2, <1>3, <1>4, <1>5, <1>6, <1>7

\* An event begins.
LEMMA BeginKeeps == ASSUME NEW S, Inv(S), up = "open", Begin, UNCHANGED host PROVE Inv(S)'
<1>1. /\ main.pc = "idle" /\ sched > 0 /\ main' = [main EXCEPT !.pc = "test"] /\ up' = "open"
      /\ UNCHANGED <<acked, data, rx, pool, slot, count, sched, handled, dropped>>
  BY DEF Begin, Goto, queueVars
<1>2. main \in MainState /\ sched \in 0 .. SchedSize /\ sched <= acked
  BY DEF Inv, Types
<1>3. main' \in MainState /\ main'.pc = "test"
  BY <1>1, <1>2, MainFacts DEF Loop
<1> QED
  BY <1>1, <1>2, <1>3, LoopMoves DEF Loop

\* It ends when no element is counted.
LEMMA TestKeeps == ASSUME NEW S, Inv(S), up = "open", Test, UNCHANGED host PROVE Inv(S)'
<1>1. /\ main.pc = "test" /\ up' = "open"
      /\ \/ main' = Idle /\ sched' = sched - 1
         \/ main' = [main EXCEPT !.pc = "scan", !.i = 0] /\ sched' = sched
      /\ UNCHANGED <<acked, data, rx, pool, slot, count, handled, dropped>>
  BY DEF Test, Return
<1>2. main \in MainState /\ sched \in 0 .. SchedSize /\ sched <= acked /\ acked \in Nat
  BY Parts DEF Types
<1>3. sched > 0
  BY <1>1 DEF Inv, Handling
<1>4. CASE main' = Idle /\ sched' = sched - 1
  <2>1. main' \in MainState /\ main'.pc = "idle"
    BY <1>4, MainFacts
  <2>2. sched' \in 0 .. SchedSize /\ sched' <= acked
    BY <1>2, <1>3, <1>4, QueueConstants
  <2> QED
    BY <1>1, <2>1, <2>2, LoopMoves DEF Loop
<1>5. CASE main' = [main EXCEPT !.pc = "scan", !.i = 0] /\ sched' = sched
  <2>1. main' \in MainState /\ main'.pc = "scan"
    BY <1>2, <1>5, MainFacts DEF MainState
  <2> QED
    BY <1>1, <1>2, <1>3, <1>5, <2>1, LoopMoves DEF Loop
<1> QED
  BY <1>1, <1>4, <1>5

\* An element that is not used, or the end of the scan.
LEMMA SkipKeeps == ASSUME NEW S, Inv(S), up = "open", Skip, UNCHANGED host PROVE Inv(S)'
<1>1. /\ main.pc = "scan" /\ up' = "open"
      /\ main' = IF main.i = Slots THEN [main EXCEPT !.pc = "test", !.i = 0] ELSE [main EXCEPT !.i = @ + 1]
      /\ UNCHANGED <<acked, data, rx, pool, slot, count, sched, handled, dropped>>
  BY DEF Skip, queueVars
<1>2. main \in MainState /\ sched \in 0 .. SchedSize /\ sched <= acked /\ sched > 0
  BY <1>1 DEF Inv, Types, Handling
<1>3. main' \in MainState /\ main'.pc \in {"test", "scan"}
  <2>1. main.i = Slots \/ main.i < Slots
    BY <1>2, QueueConstants DEF MainState
  <2>2. CASE main.i = Slots
    BY <1>1, <1>2, <2>2, MainFacts DEF MainState
  <2>3. CASE main.i < Slots
    <3>1. main' = [main EXCEPT !.i = @ + 1]
      BY <1>1, <1>2, <2>3, QueueConstants DEF MainState
    <3>2. main' \in MainState
      BY <1>2, <2>3, <3>1, MainFacts
    <3> QED
      BY <1>1, <1>2, <3>1, <3>2 DEF MainState
  <2> QED
    BY <2>1, <2>2, <2>3
<1> QED
  BY <1>1, <1>2, <1>3, LoopMoves DEF Loop

\* The transport is closed.
LEMMA CloseKeeps == ASSUME NEW S, Inv(S), Close, UNCHANGED host PROVE Inv(S)'
<1>1. /\ main.pc = "idle" /\ up = "open" /\ up' = "open" /\ main' = [main EXCEPT !.pc = "flush", !.i = 0]
      /\ UNCHANGED <<acked, data, rx, pool, slot, count, sched, handled, dropped>>
  BY DEF Close, queueVars
<1>2. main \in MainState /\ sched \in 0 .. SchedSize /\ sched <= acked
  BY DEF Inv, Types
<1>3. main' \in MainState /\ main'.pc = "flush"
  BY <1>1, <1>2, MainFacts DEF MainState
<1> QED
  BY <1>1, <1>2, <1>3, LoopMoves DEF Loop

\* With one packet at a time, the element that is used holds it.
LEMMA TheElement ==
  ASSUME NEW S, Inv(S), Lone(S), up = "open", main.pc \in Loop, NEW s \in Slot, slot[s].type # "INVALID"
  PROVE  Element(s) /\ count = 1 /\ Owed = 1
<1>1. InLoop
  BY DEF Inv, Single, InFree, Loop, Freeing
<1>2. s \in Used
  BY DEF Used
<1>3. Waits
  BY <1>1, <1>2 DEF InLoop, AtRest
<1>4. PICK t \in Slot : Element(t)
  BY <1>3 DEF Waits
<1>5. s = t
  BY <1>2, <1>4 DEF Element
<1> QED
  BY <1>3, <1>4, <1>5 DEF Waits

\* A packet goes to the engine.
LEMMA HandleKeeps == ASSUME NEW S, Inv(S), up = "open", Handle, UNCHANGED host PROVE Inv(S)'
<1>1. /\ main.pc = "scan" /\ main.i < Slots /\ slot[main.i].type = "DATA" /\ up' = "open"
      /\ handled' = IF slot[main.i].buf = None THEN handled
                    ELSE Append(handled, data[slot[main.i].buf].n)
      /\ main' = [main EXCEPT !.pc = "free", !.back = "scan"]
      /\ UNCHANGED <<acked, data, rx, pool, slot, count, sched, dropped>>
  BY DEF Handle, queueVars
<1>2. main \in MainState /\ sched > 0 /\ main.i \in Slot
  BY <1>1, Parts, QueueConstants DEF Types, Handling, Slot
<1>3. main' \in MainState /\ main'.pc = "free" /\ main'.back = "scan" /\ main'.i = main.i
  BY <1>1, <1>2, MainFacts DEF MainState
<1>4. Types'
  BY <1>1, <1>3 DEF Inv, Types
<1>5. Handling'
  BY <1>1, <1>2, <1>3 DEF Handling, Used
<1>6. (host.preempts => Lone(S))' /\ (Lone(S) => OneAtATime)' /\ Lone(S)' = Lone(S)
  BY DEF Inv, Lone, OneAtATime
<1>7. ~host'.preempts => Whole'
  BY <1>1, <1>3 DEF Inv, Whole, Used
<1>8. ASSUME Lone(S) PROVE Single'
  <2>1. Single /\ Element(main.i) /\ count = 1 /\ Owed = 1
    BY <1>1, <1>2, <1>8, TheElement DEF Inv, Loop
  <2>2. slot[main.i].buf = Before /\ data[Before].n = acked /\ Before # None /\ rx \in Buffer
    BY <2>1, QueueConstants, Around DEF Element, Single, Before
  <2>3. handled' = Append(handled, acked)
    BY <1>1, <2>2
  <2>4. Len(handled) \in Nat /\ acked \in Nat /\ acked = Len(handled) + 1 /\ handled \in Seq(Nat)
        /\ \A i \in 1 .. Len(handled) : handled[i] = i
    BY <2>1, HandledFacts, Parts DEF Owed
  <2>5. /\ handled' \in Seq(Nat) /\ Len(handled') = Len(handled) + 1
        /\ \A i \in 1 .. Len(handled) : handled'[i] = handled[i]
        /\ handled'[Len(handled) + 1] = acked
    BY <2>3, <2>4, AppendProperties
  <2> HIDE <2>3
  <2>6. \A i \in 1 .. Len(handled') : handled'[i] = i
    BY <2>4, <2>5
  <2>7. handled' = [i \in 1 .. Len(handled') |-> i]
    BY <2>5, <2>6
  <2>8. Owed' = 0
    BY <1>1, <2>4, <2>5 DEF Owed
  <2>9. Element(main.i)'
    BY <1>1, <1>3, <2>1 DEF Element, Used, Before
  <2>10. InFree'
    BY <1>1, <1>3, <2>1, <2>8, <2>9 DEF InFree, Freeing
  <2> QED
    BY <1>1, <2>1, <2>2, <2>7, <2>10 DEF Single
<1> QED
  BY <1>4, <1>5, <1>6, <1>7, <1>8 DEF Inv

\* A STOP packet ends the event, its element stays.
LEMMA HandleStopKeeps == ASSUME NEW S, Inv(S), up = "open", HandleStop, UNCHANGED host PROVE Inv(S)'
<1>1. /\ main.pc = "scan" /\ main.i < Slots /\ slot[main.i].type = "STOP" /\ up' \in {"open", "closed"}
      /\ main' = Idle /\ sched' = sched - 1
      /\ UNCHANGED <<acked, data, rx, pool, slot, count, dropped>>
  BY DEF HandleStop, Return
<1>2. /\ main \in MainState /\ sched > 0 /\ sched \in 0 .. SchedSize /\ sched <= acked /\ acked \in Nat
      /\ main.i \in Slot
  BY <1>1, Parts, QueueConstants DEF Types, Handling, Slot
<1>3. sched' \in 0 .. SchedSize /\ sched' <= acked
  BY <1>1, <1>2, QueueConstants
<1>4. main' \in MainState /\ main'.pc = "idle"
  BY <1>1, MainFacts
<1>5. Types'
  BY <1>1, <1>3, <1>4 DEF Inv, Types
<1>6. Handling'
  BY <1>4 DEF Handling, Freeing
<1>7. (host.preempts => Lone(S))' /\ (Lone(S) => OneAtATime)' /\ Lone(S)' = Lone(S)
  BY DEF Inv, Lone, OneAtATime
<1>8. ~host'.preempts => Whole'
  BY <1>1, <1>4 DEF Inv, Whole, Used, Loop
<1>9. ~Lone(S)
  <2> SUFFICES ASSUME Lone(S) PROVE FALSE
    OBVIOUS
  <2>1. Element(main.i)
    BY <1>1, <1>2, TheElement DEF Loop
  <2> QED
    BY <1>1, <2>1 DEF Element
<1> QED
  BY <1>5, <1>6, <1>7, <1>8, <1>9 DEF Inv

\* data_queue_flush(), one element after the other.
LEMMA FlushKeeps == ASSUME NEW S, Inv(S), up = "open", Flush, UNCHANGED host PROVE Inv(S)'
<1>1. /\ main.pc = "flush" /\ UNCHANGED <<acked, data, rx, pool, slot, count, sched, handled, dropped>>
      /\ IF main.i = Slots
           THEN up' = "closed" /\ main' = Idle
           ELSE /\ up' = "open"
                /\ main' = IF slot[main.i].type = "INVALID"
                             THEN [main EXCEPT !.i = @ + 1]
                             ELSE [main EXCEPT !.pc = "free", !.back = "flush"]
  BY DEF Flush, queueVars
<1>2. main \in MainState /\ sched \in 0 .. SchedSize /\ sched <= acked /\ main.i \in 0 .. Slots
  BY DEF Inv, Types, MainState
<1>3. (host.preempts => Lone(S))' /\ (Lone(S) => OneAtATime)' /\ Lone(S)' = Lone(S)
  BY DEF Inv, Lone, OneAtATime
<1>4. CASE main.i = Slots
  <2>1. up' = "closed" /\ main' = Idle /\ main' \in MainState /\ main'.pc = "idle"
    BY <1>1, <1>4, MainFacts
  <2>2. Types' /\ Handling'
    BY <1>1, <2>1 DEF Inv, Types, Handling, Freeing
  <2>3. ~host'.preempts => Whole'
    BY <1>1, <2>1 DEF Inv, Whole, Loop
  <2>4. Lone(S) => Single'
    BY <1>1, <2>1 DEF Inv, Single, InLoop, InFree, Freeing, AtRest, Waits, Element
  <2> QED
    BY <1>3, <2>2, <2>3, <2>4 DEF Inv
<1>5. CASE main.i # Slots /\ slot[main.i].type = "INVALID"
  <2>1. main.i < Slots /\ main' = [main EXCEPT !.i = @ + 1] /\ up' = "open"
    BY <1>1, <1>2, <1>5, QueueConstants
  <2>2. main' \in MainState /\ main'.pc = "flush"
    <3>1. main' \in MainState
      BY <1>2, <2>1, MainFacts
    <3> QED
      BY <1>1, <1>2, <2>1, <3>1 DEF MainState
  <2> QED
    BY <1>1, <1>2, <2>1, <2>2, LoopMoves DEF Loop
<1>6. CASE main.i # Slots /\ slot[main.i].type # "INVALID"
  <2>1. main.i \in Slot /\ main' = [main EXCEPT !.pc = "free", !.back = "flush"] /\ up' = "open"
    BY <1>1, <1>2, <1>6, QueueConstants DEF Slot
  <2>2. main' \in MainState /\ main'.pc = "free" /\ main'.back = "flush" /\ main'.i = main.i
    BY <1>2, <2>1, MainFacts DEF MainState
  <2>3. Types'
    BY <1>1, <2>1, <2>2 DEF Inv, Types
  <2>4. Handling'
    BY <1>1, <1>6, <2>1, <2>2 DEF Handling, Used
  <2>5. ~host'.preempts => Whole'
    BY <1>1, <2>1, <2>2 DEF Inv, Whole, Used
  <2>6. ASSUME Lone(S) PROVE Single'
    <3>1. Single /\ Element(main.i) /\ count = 1 /\ Owed = 1
      BY <1>1, <1>6, <2>1, <2>6, TheElement DEF Inv, Loop
    <3>2. Element(main.i)' /\ Owed' = 1
      BY <1>1, <2>2, <3>1 DEF Element, Used, Before, Owed
    <3>3. InFree'
      BY <1>1, <2>2, <3>1, <3>2 DEF InFree, Freeing
    <3> QED
      BY <1>1, <2>1, <3>1, <3>3 DEF Single
  <2> QED
    BY <1>3, <2>3, <2>4, <2>5, <2>6 DEF Inv
<1> QED
  BY <1>4, <1>5, <1>6

-----------------------------------------------------------------------------
(* data_queue_element_free().                                              *)

\* How many elements are used, when one is filled or freed.
LEMMA UsedCards ==
  ASSUME Types
  PROVE  /\ IsFiniteSet(Used) /\ Cardinality(Used) \in Nat
         /\ \A i \in Slot \ Used : Cardinality(Used \cup {i}) = Cardinality(Used) + 1 /\ Cardinality(Used) <= Slots - 1
         /\ \A i \in Used : Cardinality(Used \ {i}) = Cardinality(Used) - 1 /\ Cardinality(Used) > 0
<1>1. IsFiniteSet(Slot) /\ Cardinality(Slot) = Slots
  <2>1. Slots \in Int /\ Slots - 1 \in Int /\ Slots > 1 /\ ~(0 > Slots - 1) /\ (Slots - 1) - 0 + 1 = Slots
    BY QueueConstants
  <2>2. IsFiniteSet(0 .. Slots - 1) /\ Cardinality(0 .. Slots - 1) = Slots
    BY <2>1, FS_Interval
  <2> QED
    BY <2>2 DEF Slot
<1>2. Used \in SUBSET Slot
  BY DEF Used
<1>3. IsFiniteSet(Used) /\ Cardinality(Used) \in Nat
  BY <1>1, <1>2, FS_Subset, FS_CardinalityType
<1>4. ASSUME NEW i \in Slot \ Used
      PROVE  Cardinality(Used \cup {i}) = Cardinality(Used) + 1 /\ Cardinality(Used) <= Slots - 1
  <2>1. Cardinality(Used \cup {i}) = Cardinality(Used) + 1
    BY <1>3, FS_AddElement
  <2>2. Used \cup {i} \in SUBSET Slot
    BY <1>2
  <2>3. Cardinality(Used \cup {i}) <= Slots
    BY <1>1, <2>2, FS_Subset
  <2> QED
    BY <1>3, <2>1, <2>3, QueueConstants
<1>5. ASSUME NEW i \in Used
      PROVE  Cardinality(Used \ {i}) = Cardinality(Used) - 1 /\ Cardinality(Used) > 0
  <2>1. Cardinality(Used \ {i}) = Cardinality(Used) - 1
    BY <1>3, FS_RemoveElement
  <2>2. Cardinality(Used) # 0
    BY <1>3, FS_EmptySet
  <2> QED
    BY <1>3, <2>1, <2>2
<1> QED
  BY <1>3, <1>4, <1>5

\* The main loop goes on behind the element that it freed.
LEMMA FreedFacts ==
  ASSUME main \in MainState, main.i \in Slot, Freed
  PROVE  /\ main' \in MainState /\ main'.pc = main.back /\ main'.back = main.back
         /\ main'.pc \in {"scan", "flush"} /\ main'.pc \in Loop
<1>1. main' = [Idle EXCEPT !.pc = main.back, !.i = main.i + 1, !.back = main.back]
  BY DEF Freed
<1>2. main.back \in {"scan", "flush"} /\ main.i + 1 \in 0 .. Slots
  BY QueueConstants DEF MainState, Slot
<1>3. main.back \in Loop \cup Freeing
  BY <1>2 DEF Loop
<1>4. main' \in MainState /\ main'.pc = main.back /\ main'.back = main.back
  BY <1>1, <1>2, <1>3, MainFacts DEF MainState, Idle
<1> QED
  BY <1>2, <1>4 DEF Loop

\* An element is freed before the next packet comes.
LEMMA FreeAtomicKeeps == ASSUME NEW S, Inv(S), up = "open", FreeAtomic, UNCHANGED host PROVE Inv(S)'
<1> DEFINE b == slot[main.i].buf
<1>1. main.pc = "free" /\ ~host.preempts
  BY DEF FreeAtomic
<1>2. /\ main \in MainState /\ main.i \in Slot /\ main.i \in Used /\ sched \in 0 .. SchedSize /\ sched <= acked
      /\ main.back = "scan" => sched > 0
  BY <1>1, Parts DEF Types, Handling, Freeing
<1>3. Ring(pool) /\ pool.ready = (IF rx = None THEN 0 ELSE 1) /\ count = Cardinality(Used)
  BY <1>1 DEF Inv, Whole
<1>4. (host.preempts => Lone(S))' /\ (Lone(S) => OneAtATime)' /\ Lone(S)' = Lone(S)
  BY DEF Inv, Lone, OneAtATime
<1>5. ASSUME Lone(S)
      PROVE  Single /\ Element(main.i) /\ count = 1 /\ Owed = (IF main.back = "scan" THEN 0 ELSE 1)
             /\ b = Before /\ CanConsume(pool, b) /\ Consumed(pool, b) = Resting(rx)
  <2>1. Single /\ InFree
    BY <1>1, <1>5 DEF Inv, Single, InLoop, Loop
  <2>2. Element(main.i) /\ count = 1 /\ Owed = (IF main.back = "scan" THEN 0 ELSE 1)
    BY <1>1, <2>1 DEF InFree
  <2>3. b = Wrap(rx - 1) /\ pool = Holding(rx) /\ rx \in Buffer
    BY <2>1, <2>2 DEF Element, Before, Single
  <2>4. CanConsume(pool, b) /\ Consumed(pool, b) = Resting(rx)
    BY <2>3, Shapes, GivenBack
  <2> QED
    BY <2>1, <2>2, <2>3, <2>4 DEF Before
<1>6. CASE CanConsume(pool, b)
  <2>1. /\ count' = Decremented(count) /\ slot' = [slot EXCEPT ![main.i] = FreeSlot]
        /\ pool' = Consumed(pool, b) /\ Freed
        /\ UNCHANGED <<up, acked, data, rx, sched, handled, dropped>>
    BY <1>6 DEF FreeAtomic
  <2>2. /\ main' \in MainState /\ main'.pc = main.back /\ main'.pc \in {"scan", "flush"} /\ main'.pc \in Loop
    BY <1>2, <2>1, FreedFacts
  <2>3. Used' = Used \ {main.i}
    BY <1>2, <2>1 DEF Used, Types, Inv, FreeSlot
  <2>4. count' = count - 1 /\ count \in 1 .. 255 /\ count' = Cardinality(Used')
    <3>1. Cardinality(Used \ {main.i}) = Cardinality(Used) - 1 /\ Cardinality(Used) > 0 /\ count \in 0 .. 255
      BY <1>2, UsedCards DEF Inv, Types
    <3>2. count \in 1 .. 255
      BY <1>3, <3>1
    <3>3. count' = count - 1
      BY <2>1, <3>2 DEF Decremented
    <3> QED
      BY <1>3, <2>3, <3>1, <3>2, <3>3
  <2>5. Types'
    <3>1. slot' \in [Slot -> [type : Kind, buf : Buffer \cup {None}, n : Nat]]
      BY <2>1 DEF Inv, Types, FreeSlot, Kind
    <3>2. count' \in 0 .. 255
      BY <2>4
    <3> QED
      BY <2>1, <2>2, <3>1, <3>2 DEF Inv, Types
  <2>6. Handling'
    BY <1>2, <2>1, <2>2 DEF Handling, Freeing
  <2>7. Whole'
    <3>1. Ring(pool') /\ pool'.ready = pool.ready
      BY <1>3, <2>1, ConsumedFields
    <3> QED
      BY <1>3, <2>1, <2>2, <2>4, <3>1 DEF Whole
  <2>8. ASSUME Lone(S) PROVE Single'
    <3>1. Single /\ Element(main.i) /\ count = 1 /\ Owed = (IF main.back = "scan" THEN 0 ELSE 1)
          /\ pool' = Resting(rx')
      BY <1>5, <2>1, <2>8
    <3>2. Used' = {} /\ count' = 0
      BY <2>3, <2>4, <3>1 DEF Element
    <3>3. Owed' = Owed
      BY <2>1 DEF Owed
    <3>4. InLoop'
      BY <2>2, <3>1, <3>2, <3>3 DEF InLoop, AtRest
    <3> QED
      BY <2>1, <3>1, <3>4 DEF Single
  <2> QED
    BY <1>4, <2>5, <2>6, <2>7, <2>8 DEF Inv
<1>7. CASE ~CanConsume(pool, b)
  <2>1. up' = "reset" /\ main' = Idle /\ UNCHANGED <<acked, data, rx, pool, slot, count, sched, handled, dropped>>
    BY <1>7 DEF FreeAtomic, Reset, queueVars
  <2>2. main' \in MainState /\ main'.pc = "idle"
    BY <2>1, MainFacts
  <2>3. Types' /\ Handling'
    BY <2>1, <2>2 DEF Inv, Types, Handling, Freeing
  <2>4. Whole'
    BY <1>3, <2>1, <2>2 DEF Whole, Loop
  <2>5. ~Lone(S)
    BY <1>5, <1>7
  <2> QED
    BY <1>4, <2>3, <2>4, <2>5 DEF Inv
<1> QED
  BY <1>6, <1>7

\* Where the release is taken in steps, only one packet is under way.
LEMMA Stepping ==
  ASSUME NEW S, Inv(S), up = "open", main.pc \in Freeing, host.preempts \/ main.pc # "free"
  PROVE  /\ host.preempts /\ Single /\ InFree /\ rx \in Buffer /\ Before \in Buffer /\ Before # rx
         /\ main \in MainState /\ main.i \in Slot
<1>1. host.preempts
  BY Parts DEF Whole, Loop, Freeing
<1>2. Single
  BY <1>1 DEF Inv
<1>3. InFree /\ rx \in Buffer
  BY <1>2 DEF Single, InLoop, Loop, Freeing
<1>4. Before \in Buffer /\ Before # rx
  BY <1>3, Around DEF Before
<1> QED
  BY <1>1, <1>2, <1>3, <1>4, Parts DEF Handling

\* A step within the release.
LEMMA FreeMoves ==
  ASSUME NEW S, Inv(S), up = "open", up' = "open", main.pc \in Freeing, host.preempts \/ main.pc # "free",
         UNCHANGED <<host, acked, data, rx, sched, handled, dropped>>,
         main' \in MainState, main'.pc \in Freeing, main'.i = main.i, main'.back = main.back,
         main'.pc \in {"free", "count", "type"} => main.i \in Used',
         count' \in 0 .. 255, slot' \in [Slot -> [type : Kind, buf : Buffer \cup {None}, n : Nat]],
         InFree'
  PROVE  Inv(S)'
<1>1. host.preempts /\ Single /\ main.i \in Slot
  BY Stepping
<1>2. Types'
  BY DEF Inv, Types
<1>3. Handling'
  BY <1>1 DEF Inv, Handling, Loop, Freeing
<1>4. (host.preempts => Lone(S))' /\ (Lone(S) => OneAtATime)' /\ Lone(S)' = Lone(S)
  BY DEF Inv, Lone, OneAtATime
<1>5. Single'
  BY <1>1 DEF Single
<1> QED
  BY <1>1, <1>2, <1>3, <1>4, <1>5 DEF Inv

\* The number of elements is loaded.
LEMMA LoadCountKeeps == ASSUME NEW S, Inv(S), up = "open", LoadCount, UNCHANGED host PROVE Inv(S)'
<1>1. /\ main.pc = "free" /\ host.preempts
      /\ main' = [main EXCEPT !.pc = "count", !.buf = slot[main.i].buf, !.tmp = count]
      /\ UNCHANGED <<up, acked, data, rx, pool, slot, count, sched, handled, dropped>>
  BY DEF LoadCount, queueVars
<1>2. main.pc \in Freeing
  BY <1>1 DEF Freeing
<1>3. InFree /\ main \in MainState /\ main.i \in Slot /\ Before \in Buffer
  BY <1>1, <1>2, Stepping
<1>4. Element(main.i) /\ count = 1 /\ slot[main.i].buf = Before
  BY <1>1, <1>3 DEF InFree, Element
<1>5. /\ main'.pc = "count" /\ main'.i = main.i /\ main'.back = main.back
      /\ main'.buf = Before /\ main'.tmp = 1
  BY <1>1, <1>3, <1>4 DEF MainState
<1>6. main' \in MainState
  <2>1. "count" \in Loop \cup Freeing /\ 1 \in Int
    BY DEF Freeing
  <2> QED
    BY <1>1, <1>3, <1>4, <2>1 DEF MainState
<1>7. Element(main.i)' /\ Before' = Before /\ Owed' = Owed /\ Used' = Used
  BY <1>1, <1>4, <1>5 DEF Element, Used, Before, Owed
<1>8. InFree'
  BY <1>1, <1>3, <1>4, <1>5, <1>7 DEF InFree, Freeing
<1>9. main.i \in Used' /\ main'.pc \in Freeing /\ count' \in 0 .. 255
      /\ slot' \in [Slot -> [type : Kind, buf : Buffer \cup {None}, n : Nat]] /\ up' = "open"
  BY <1>1, <1>4, <1>5, <1>7 DEF Element, Freeing, Inv, Types
<1> QED
  BY <1>1, <1>2, <1>5, <1>6, <1>8, <1>9, FreeMoves

\* The number is stored.
LEMMA StoreCountKeeps == ASSUME NEW S, Inv(S), up = "open", StoreCount, UNCHANGED host PROVE Inv(S)'
<1>1. /\ main.pc = "count" /\ count' = Decremented(main.tmp)
      /\ main' = [main EXCEPT !.pc = "type", !.tmp = 0]
      /\ UNCHANGED <<up, acked, data, rx, pool, slot, sched, handled, dropped>>
  BY DEF StoreCount
<1>2. main.pc \in Freeing
  BY <1>1 DEF Freeing
<1>3. InFree /\ main \in MainState /\ main.i \in Slot
  BY <1>1, <1>2, Stepping
<1>4. Element(main.i) /\ main.tmp = 1 /\ main.buf = Before
  BY <1>1, <1>3 DEF InFree
<1>5. main'.pc = "type" /\ main'.i = main.i /\ main'.back = main.back /\ main'.buf = Before /\ count' = 0
  BY <1>1, <1>3, <1>4 DEF MainState, Decremented
<1>6. main' \in MainState
  <2>1. "type" \in Loop \cup Freeing /\ 0 \in Int
    BY DEF Freeing
  <2> QED
    BY <1>1, <1>3, <2>1 DEF MainState
<1>7. Element(main.i)' /\ Before' = Before /\ Owed' = Owed /\ Used' = Used
  BY <1>1, <1>4, <1>5 DEF Element, Used, Before, Owed
<1>8. InFree'
  BY <1>1, <1>3, <1>4, <1>5, <1>7 DEF InFree, Freeing
<1>9. main.i \in Used' /\ main'.pc \in Freeing /\ count' \in 0 .. 255
      /\ slot' \in [Slot -> [type : Kind, buf : Buffer \cup {None}, n : Nat]] /\ up' = "open"
  BY <1>1, <1>4, <1>5, <1>7 DEF Element, Freeing, Inv, Types
<1> QED
  BY <1>1, <1>2, <1>5, <1>6, <1>8, <1>9, FreeMoves

\* The element is marked as free, and then has no packet.
LEMMA InitTypeKeeps == ASSUME NEW S, Inv(S), up = "open", InitType, UNCHANGED host PROVE Inv(S)'
<1>1. /\ main.pc = "type" /\ slot' = [slot EXCEPT ![main.i].type = "INVALID"]
      /\ main' = [main EXCEPT !.pc = "pointer"]
      /\ UNCHANGED <<up, acked, data, rx, pool, count, sched, handled, dropped>>
  BY DEF InitType, Goto
<1>2. main.pc \in Freeing
  BY <1>1 DEF Freeing
<1>3. InFree /\ main \in MainState /\ main.i \in Slot /\ slot \in [Slot -> [type : Kind, buf : Buffer \cup {None}, n : Nat]]
  BY <1>1, <1>2, Stepping DEF Inv, Types
<1>4. Element(main.i) /\ main.buf = Before /\ pool = Holding(rx) /\ count = 0
  BY <1>1, <1>3 DEF InFree, Element
<1>5. main' \in MainState /\ main'.pc = "pointer" /\ main'.i = main.i /\ main'.back = main.back /\ main'.buf = Before
  <2>1. "pointer" \in Loop \cup Freeing
    BY DEF Freeing
  <2> QED
    BY <1>1, <1>3, <1>4, <2>1 DEF MainState
<1>6. slot' \in [Slot -> [type : Kind, buf : Buffer \cup {None}, n : Nat]]
  BY <1>1, <1>3 DEF Kind
<1>7. Used' = {} /\ Before' = Before /\ Owed' = Owed
  BY <1>1, <1>3, <1>4 DEF Element, Used, Before, Owed
<1>8. InFree'
  BY <1>1, <1>3, <1>4, <1>5, <1>7 DEF InFree, Freeing
<1>9. main'.pc \in Freeing /\ main'.pc \notin {"free", "count", "type"} /\ count' \in 0 .. 255 /\ up' = "open"
  BY <1>1, <1>4, <1>5 DEF Freeing
<1> QED
  BY <1>1, <1>2, <1>5, <1>6, <1>8, <1>9, FreeMoves

\* The rest of the element is written.
LEMMA InitPointerKeeps == ASSUME NEW S, Inv(S), up = "open", InitPointer, UNCHANGED host PROVE Inv(S)'
<1>1. /\ main.pc = "pointer" /\ main' = [main EXCEPT !.pc = "find"]
      /\ UNCHANGED <<up, acked, data, rx, pool, count, sched, handled, dropped>>
  BY DEF InitPointer, Goto
<1>2. PICK twice \in BOOLEAN :
        slot' = [slot EXCEPT ![main.i] =
                   [type |-> IF twice THEN "INVALID" ELSE slot[main.i].type, buf |-> None, n |-> 0]]
  BY DEF InitPointer
<1>3. main.pc \in Freeing
  BY <1>1 DEF Freeing
<1>4. InFree /\ main \in MainState /\ main.i \in Slot /\ slot \in [Slot -> [type : Kind, buf : Buffer \cup {None}, n : Nat]]
  BY <1>1, <1>3, Stepping DEF Inv, Types
<1>5. Used = {} /\ main.buf = Before /\ pool = Holding(rx) /\ count = 0
  BY <1>1, <1>4 DEF InFree
<1>6. slot[main.i].type = "INVALID"
  BY <1>4, <1>5 DEF Used
<1>7. slot' = [slot EXCEPT ![main.i] = [type |-> "INVALID", buf |-> None, n |-> 0]]
  BY <1>2, <1>6
<1>8. slot' \in [Slot -> [type : Kind, buf : Buffer \cup {None}, n : Nat]]
  BY <1>4, <1>7 DEF Kind
<1>9. main' \in MainState /\ main'.pc = "find" /\ main'.i = main.i /\ main'.back = main.back /\ main'.buf = Before
  <2>1. "find" \in Loop \cup Freeing
    BY DEF Freeing
  <2> QED
    BY <1>1, <1>4, <1>5, <2>1 DEF MainState
<1>10. Used' = {} /\ Before' = Before /\ Owed' = Owed
  BY <1>1, <1>4, <1>5, <1>7 DEF Used, Before, Owed
<1>11. InFree'
  BY <1>1, <1>4, <1>5, <1>9, <1>10 DEF InFree, Freeing
<1>12. main'.pc \in Freeing /\ main'.pc \notin {"free", "count", "type"} /\ count' \in 0 .. 255 /\ up' = "open"
  BY <1>1, <1>5, <1>9 DEF Freeing
<1> QED
  BY <1>1, <1>3, <1>8, <1>9, <1>11, <1>12, FreeMoves

\* A step of the release that leaves the element alone.
LEMMA PoolMoves ==
  ASSUME NEW S, Inv(S), up = "open", main.pc \in {"find", "bits", "release", "avail", "load", "window"},
         UNCHANGED <<host, up, acked, data, rx, slot, count, sched, handled, dropped>>,
         main' \in MainState, main'.pc \in {"bits", "release", "avail", "load", "window"},
         main'.i = main.i, main'.back = main.back, main'.buf = main.buf,
         main'.pc = "bits" => pool' = Holding(rx) /\ main'.tmp = Before /\ main'.bits = {rx},
         main'.pc = "release" => \/ pool' = Unmarked(1) /\ main'.tmp = Before /\ main'.buf = Before
                                 \/ pool' = Resting(rx),
         main'.pc = "avail" => pool' = Unmarked(1) /\ main'.tmp = 1,
         main'.pc = "load" => pool' = Unmarked(0),
         main'.pc = "window" => pool' = Unmarked(0) /\ main'.tmp = N - 2,
         main.pc # "release" \/ main.buf = Before
  PROVE  Inv(S)'
<1>1. main.pc \in Freeing /\ main.pc \notin {"free", "count", "type"}
      /\ main'.pc \in Freeing /\ main'.pc \notin {"free", "count", "type", "pointer", "find"}
  BY DEF Freeing
<1>2. InFree
  BY <1>1, Stepping
<1>3. Used = {} /\ count = 0 /\ main.buf = Before /\ Owed = (IF main.back = "scan" THEN 0 ELSE 1)
  BY <1>1, <1>2 DEF InFree
<1>4. Before' = Before /\ Used' = Used /\ Owed' = Owed /\ Unmarked(0)' = Unmarked(0) /\ Unmarked(1)' = Unmarked(1)
  BY DEF Before, Used, Owed, Unmarked, Holding
<1>5. InFree'
  BY <1>1, <1>3, <1>4 DEF InFree
<1>6. count' \in 0 .. 255 /\ slot' \in [Slot -> [type : Kind, buf : Buffer \cup {None}, n : Nat]]
  BY <1>3 DEF Inv, Types
<1> QED
  BY <1>1, <1>5, <1>6, FreeMoves

\* consume() finds the buffer, and the bits that it leaves.
LEMMA FindKeeps == ASSUME NEW S, Inv(S), up = "open", Find, UNCHANGED host PROVE Inv(S)'
<1>1. main.pc = "find" /\ main.pc \in Freeing
  BY DEF Find, Freeing
<1>2. InFree /\ main \in MainState /\ rx \in Buffer /\ Before \in Buffer
  BY <1>1, Stepping
<1>3. main.buf = Wrap(rx - 1) /\ Before = Wrap(rx - 1) /\ pool = Holding(rx)
  BY <1>1, <1>2 DEF InFree, Before
<1>4. CanConsume(pool, main.buf) /\ Oldest(pool) = Before /\ Toggled(pool.busy, main.buf) = {rx}
  <2>1. pool.busy = {Wrap(rx - 1), rx}
    BY <1>3 DEF Holding
  <2> QED
    BY <1>2, <1>3, <2>1, Shapes
<1>5. /\ main' = [main EXCEPT !.pc = "bits", !.tmp = Before, !.bits = {rx}]
      /\ UNCHANGED <<up, acked, data, rx, pool, slot, count, sched, handled, dropped>>
  BY <1>4 DEF Find, queueVars
<1>6. /\ main'.pc = "bits" /\ main'.i = main.i /\ main'.back = main.back /\ main'.buf = main.buf
      /\ main'.tmp = Before /\ main'.bits = {rx}
  BY <1>2, <1>5 DEF MainState
<1>7. main' \in MainState
  <2>1. "bits" \in Loop \cup Freeing /\ Before \in Int /\ {rx} \in SUBSET Buffer
    BY <1>2 DEF Freeing, Buffer
  <2> QED
    BY <1>2, <1>5, <2>1 DEF MainState
<1> QED
  BY <1>1, <1>3, <1>5, <1>6, <1>7, PoolMoves

\* The bits are stored.
LEMMA StoreBitsKeeps == ASSUME NEW S, Inv(S), up = "open", StoreBits, UNCHANGED host PROVE Inv(S)'
<1>1. /\ main.pc = "bits" /\ main.pc \in Freeing /\ pool' = [pool EXCEPT !.busy = main.bits]
      /\ main' = [main EXCEPT !.pc = "release", !.bits = {}]
      /\ UNCHANGED <<up, acked, data, rx, slot, count, sched, handled, dropped>>
  BY DEF StoreBits, Freeing, queueVars
<1>2. InFree /\ main \in MainState
  BY <1>1, Stepping
<1>3. main.buf = Before /\ main.tmp = Before /\ main.bits = {rx} /\ pool = Holding(rx)
  BY <1>1, <1>2 DEF InFree
<1>4. pool' = Unmarked(1)
  BY <1>1, <1>3 DEF Unmarked, Holding
<1>5. /\ main'.pc = "release" /\ main'.i = main.i /\ main'.back = main.back /\ main'.buf = main.buf
      /\ main'.tmp = Before
  BY <1>1, <1>2, <1>3 DEF MainState
<1>6. main' \in MainState
  <2>1. "release" \in Loop \cup Freeing
    BY DEF Freeing
  <2> QED
    BY <1>1, <1>2, <2>1 DEF MainState
<1> QED
  BY <1>1, <1>3, <1>4, <1>5, <1>6, PoolMoves

\* The release loop ends, or goes on with the buffer that was found.
LEMMA ReleaseTestKeeps == ASSUME NEW S, Inv(S), up = "open", ReleaseTest, UNCHANGED host PROVE Inv(S)'
<1>1. /\ main.pc = "release" /\ main.pc \in Freeing
      /\ IF main.tmp \in pool.busy \/ pool.avail = 0 THEN Freed
         ELSE main' = [main EXCEPT !.pc = "avail", !.tmp = pool.avail]
      /\ UNCHANGED <<up, acked, data, rx, pool, slot, count, sched, handled, dropped>>
  BY DEF ReleaseTest, Freeing, queueVars
<1>2. /\ host.preempts /\ Single /\ InFree /\ rx \in Buffer /\ Before \in Buffer /\ Before # rx
      /\ main \in MainState /\ main.i \in Slot
  BY <1>1, Stepping
<1>3. Used = {} /\ count = 0 /\ Owed = (IF main.back = "scan" THEN 0 ELSE 1)
  BY <1>1, <1>2 DEF InFree
<1>4. CASE pool = Unmarked(1) /\ main.tmp = Before /\ main.buf = Before
  <2>1. main' = [main EXCEPT !.pc = "avail", !.tmp = 1]
    BY <1>1, <1>2, <1>4 DEF Unmarked, Holding
  <2>2. main'.pc = "avail" /\ main'.i = main.i /\ main'.back = main.back /\ main'.buf = main.buf /\ main'.tmp = 1
    BY <1>2, <2>1 DEF MainState
  <2>3. main' \in MainState
    <3>1. "avail" \in Loop \cup Freeing /\ 1 \in Int
      BY DEF Freeing
    <3> QED
      BY <1>2, <2>1, <3>1 DEF MainState
  <2> QED
    BY <1>1, <1>4, <2>2, <2>3, PoolMoves
<1>5. CASE pool = Resting(rx)
  <2>1. Freed
    BY <1>1, <1>5 DEF Resting
  <2>2. main' \in MainState /\ main'.pc = main.back /\ main'.pc \in {"scan", "flush"} /\ main'.pc \in Loop
    BY <1>2, <2>1, FreedFacts
  <2>3. Types'
    BY <1>1, <2>2 DEF Inv, Types
  <2>4. Handling'
    BY <1>1, <2>2 DEF Inv, Handling, Freeing
  <2>5. (host.preempts => Lone(S))' /\ (Lone(S) => OneAtATime)' /\ (~host.preempts => Whole)'
    BY <1>2 DEF Inv, Lone, OneAtATime
  <2>6. InLoop'
    <3>1. Used' = {} /\ count' = 0 /\ Owed' = Owed /\ pool' = Resting(rx')
      BY <1>1, <1>3, <1>5 DEF Used, Owed
    <3> QED
      BY <1>3, <2>2, <3>1 DEF InLoop, AtRest
  <2>7. Single'
    BY <1>1, <1>2, <2>6 DEF Single
  <2> QED
    BY <2>3, <2>4, <2>5, <2>7 DEF Inv
<1> QED
  BY <1>1, <1>2, <1>4, <1>5 DEF InFree

\* One buffer less is at the main loop.
LEMMA StoreAvailKeeps == ASSUME NEW S, Inv(S), up = "open", StoreAvail, UNCHANGED host PROVE Inv(S)'
<1>1. /\ main.pc = "avail" /\ main.pc \in Freeing /\ pool' = [pool EXCEPT !.avail = main.tmp - 1]
      /\ main' = [main EXCEPT !.pc = "load", !.tmp = 0]
      /\ UNCHANGED <<up, acked, data, rx, slot, count, sched, handled, dropped>>
  BY DEF StoreAvail, Freeing, queueVars
<1>2. InFree /\ main \in MainState
  BY <1>1, Stepping
<1>3. main.buf = Before /\ main.tmp = 1 /\ pool = Unmarked(1)
  BY <1>1, <1>2 DEF InFree
<1>4. pool' = Unmarked(0)
  BY <1>1, <1>3 DEF Unmarked, Holding
<1>5. main'.pc = "load" /\ main'.i = main.i /\ main'.back = main.back /\ main'.buf = main.buf
  BY <1>1, <1>2 DEF MainState
<1>6. main' \in MainState
  <2>1. "load" \in Loop \cup Freeing /\ 0 \in Int
    BY DEF Freeing
  <2> QED
    BY <1>1, <1>2, <2>1 DEF MainState
<1> QED
  BY <1>1, <1>3, <1>4, <1>5, <1>6, PoolMoves

\* The number of free buffers is loaded.
LEMMA LoadWindowKeeps == ASSUME NEW S, Inv(S), up = "open", LoadWindow, UNCHANGED host PROVE Inv(S)'
<1>1. /\ main.pc = "load" /\ main.pc \in Freeing /\ main' = [main EXCEPT !.pc = "window", !.tmp = pool.window]
      /\ UNCHANGED <<up, acked, data, rx, pool, slot, count, sched, handled, dropped>>
  BY DEF LoadWindow, Freeing, queueVars
<1>2. InFree /\ main \in MainState
  BY <1>1, Stepping
<1>3. main.buf = Before /\ pool = Unmarked(0) /\ pool.window = N - 2 /\ N - 2 \in Int
  <2>1. main.buf = Before /\ pool = Unmarked(0)
    BY <1>1, <1>2 DEF InFree
  <2> QED
    BY <2>1, QueueConstants DEF Unmarked
<1>4. main'.pc = "window" /\ main'.i = main.i /\ main'.back = main.back /\ main'.buf = main.buf /\ main'.tmp = N - 2
  BY <1>1, <1>2, <1>3 DEF MainState
<1>5. main' \in MainState
  <2>1. "window" \in Loop \cup Freeing
    BY DEF Freeing
  <2> QED
    BY <1>1, <1>2, <1>3, <2>1 DEF MainState
<1> QED
  BY <1>1, <1>3, <1>4, <1>5, PoolMoves

\* And stored, one more.
LEMMA StoreWindowKeeps == ASSUME NEW S, Inv(S), up = "open", StoreWindow, UNCHANGED host PROVE Inv(S)'
<1>1. /\ main.pc = "window" /\ main.pc \in Freeing /\ pool' = [pool EXCEPT !.window = main.tmp + 1]
      /\ main' = [main EXCEPT !.pc = "release", !.tmp = Wrap(main.buf + 1)]
      /\ UNCHANGED <<up, acked, data, rx, slot, count, sched, handled, dropped>>
  BY DEF StoreWindow, Freeing, queueVars
<1>2. InFree /\ main \in MainState /\ rx \in Buffer /\ Before \in Buffer
  BY <1>1, Stepping
<1>3. main.buf = Before /\ main.tmp = N - 2 /\ pool = Unmarked(0) /\ (N - 2) + 1 = N - 1
  BY <1>1, <1>2, QueueConstants DEF InFree
<1>4. pool' = Resting(rx)
  BY <1>1, <1>3 DEF Unmarked, Resting
<1>5. main'.pc = "release" /\ main'.i = main.i /\ main'.back = main.back /\ main'.buf = main.buf
  BY <1>1, <1>2 DEF MainState
<1>6. main' \in MainState
  <2>1. "release" \in Loop \cup Freeing
    BY DEF Freeing
  <2>2. Wrap(main.buf + 1) \in Int
    BY <1>2, <1>3, Around DEF Buffer
  <2> QED
    BY <1>1, <1>2, <2>1, <2>2 DEF MainState
<1> QED
  BY <1>1, <1>3, <1>4, <1>5, <1>6, PoolMoves

-----------------------------------------------------------------------------
(* The interrupt.                                                          *)

SlotType == [Slot -> [type : Kind, buf : Buffer \cup {None}, n : Nat]]

\* rpc_transport_event_handler() fills an element, or drops the packet.
LEMMA Delivered ==
  ASSUME Types, NEW q, NEW b \in Buffer, NEW packet \in [n : Nat, kind : Kind], EventHandler(q, b, packet)
  PROVE  \/ /\ \E i \in Slot \ Used : /\ slot' = [slot EXCEPT ![i] = [type |-> packet.kind, buf |-> b, n |-> packet.n]]
                                      /\ Used' = Used \cup {i}
            /\ count # Slots - 1 /\ count' = (count + 1) % 256 /\ dropped' = dropped
            /\ sched < SchedSize => sched' = sched + 1 /\ pool' = q /\ up' = up
            /\ sched >= SchedSize => sched' = sched /\ pool' = Consumed(q, b) /\ up' \in {up, "reset"}
         \/ /\ packet.kind = "INVALID" \/ count = Slots - 1 \/ Used = Slot
            /\ UNCHANGED <<slot, count, sched>>
            /\ pool' = Consumed(q, b) /\ up' \in {up, "reset"}
<1>1. slot \in SlotType /\ sched \in Int /\ SchedSize \in Int
  BY QueueConstants DEF Types, SlotType
<1>2. CASE packet.kind # "INVALID" /\ ~QueueFull /\ FreeSlots # {}
  <2> DEFINE i == Lowest(FreeSlots)
  <2>1. FreeSlots \in SUBSET Slot /\ FreeSlots = Slot \ Used
    BY DEF FreeSlots, Used
  <2>2. i \in Slot \ Used
    BY <1>2, <2>1, LowestFound
  <2>3. slot' = [slot EXCEPT ![i] = [type |-> packet.kind, buf |-> b, n |-> packet.n]]
    BY <1>2 DEF EventHandler
  <2> HIDE DEF i
  <2>4. Used' = Used \cup {i}
    BY <1>1, <1>2, <2>2, <2>3 DEF Used, SlotType
  <2>5. count # Slots - 1 /\ count' = (count + 1) % 256 /\ dropped' = dropped
    BY <1>2 DEF EventHandler, QueueFull
  <2>6. sched < SchedSize => sched' = sched + 1 /\ pool' = q /\ up' = up
    BY <1>2 DEF EventHandler
  <2>7. sched >= SchedSize => sched' = sched /\ pool' = Consumed(q, b) /\ up' \in {up, "reset"}
    <3>1. ASSUME sched >= SchedSize PROVE ~(sched < SchedSize)
      BY <1>1, <3>1
    <3> QED
      BY <1>2, <3>1 DEF EventHandler
  <2> QED
    BY <2>2, <2>3, <2>4, <2>5, <2>6, <2>7
<1>3. CASE ~(packet.kind # "INVALID" /\ ~QueueFull /\ FreeSlots # {})
  <2>1. UNCHANGED <<slot, count, sched>> /\ pool' = Consumed(q, b) /\ up' \in {up, "reset"}
    BY <1>3 DEF EventHandler, queueVars
  <2>2. packet.kind = "INVALID" \/ count = Slots - 1 \/ Used = Slot
    BY <1>3 DEF QueueFull, FreeSlots, Used
  <2> QED
    BY <2>1, <2>2
<1> QED
  BY <1>2, <1>3

\* The buffer that is received into next, and the pool that the packet leaves.
LEMMA NextBuffer ==
  ASSUME Ring(pool), rx \in Buffer, pool.ready = 1, None \notin Buffer,
         NEW p, p = IF CanProduce(pool) THEN Produced(pool) ELSE pool,
         rx' = IF CanProduce(pool) THEN pool.write ELSE None
  PROVE  /\ Ring(Extracted(p)) /\ p.read \in Buffer /\ rx' \in Buffer \cup {None}
         /\ Extracted(p).ready = (IF rx' = None THEN 0 ELSE 1)
<1>1. pool.write \in Buffer /\ pool.read \in Buffer
  BY DEF Ring, Pool
<1>2. Ring(p) /\ p.read \in Buffer /\ p.ready = (IF rx' = None THEN 1 ELSE 2)
  <2>1. CASE CanProduce(pool)
    <3>1. Ring(Produced(pool)) /\ Produced(pool).ready = 2 /\ Produced(pool).read = pool.read
      BY <2>1, ProducedFields
    <3> QED
      BY <1>1, <2>1, <3>1
  <2>2. CASE ~CanProduce(pool)
    BY <1>1, <2>2
  <2> QED
    BY <2>1, <2>2
<1>3. CanExtract(p)
  BY <1>2 DEF CanExtract
<1>4. Ring(Extracted(p)) /\ Extracted(p).ready = p.ready - 1
  BY <1>2, <1>3, ExtractedFields
<1> QED
  BY <1>1, <1>2, <1>4

\* A packet of such a host comes when the device is done with the one before.
LEMMA LoneWaits ==
  ASSUME NEW S, Inv(S), Lone(S), up = "open", Outstanding < host.window
  PROVE  Single /\ InLoop /\ AtRest /\ Owed = 0
<1>1. Single /\ dropped = {} /\ host.window = 1 /\ acked \in Nat /\ Len(handled) \in Nat
  <2>1. Single
    BY DEF Inv
  <2> QED
    BY <2>1, Parts, HandledFacts DEF Inv, Single, OneAtATime
<1>2. Owed \in Int /\ Outstanding = Owed + (IF Releasing \/ main.pc = "free" THEN 1 ELSE 0)
  <2>1. Cardinality(dropped) = 0
    BY <1>1, FS_EmptySet
  <2> QED
    BY <1>1, <2>1 DEF Outstanding, Owed
<1>3. ~InFree
  <2> SUFFICES ASSUME InFree PROVE FALSE
    OBVIOUS
  <2>1. Owed \in {0, 1} /\ main.pc \in Freeing
    BY DEF InFree
  <2>2. Releasing \/ main.pc = "free"
    BY <2>1 DEF Releasing, Freeing
  <2> QED
    BY <1>1, <1>2, <2>1, <2>2
<1>4. InLoop
  BY <1>1, <1>3 DEF Single
<1>5. Outstanding = Owed
  BY <1>2, <1>4 DEF InLoop, Loop, Releasing
<1>6. Owed = 0
  BY <1>1, <1>2, <1>4, <1>5 DEF InLoop
<1> QED
  BY <1>1, <1>4, <1>6 DEF InLoop, Waits

\* The UART interrupt completes a packet.
LEMMA ReceiveKeeps ==
  ASSUME NEW S, Inv(S), NEW kind \in host.kinds, Receive(kind), UNCHANGED host, Lone(S) => HasRoom
  PROVE  Inv(S)'
<1> DEFINE packet == [n |-> acked + 1, kind |-> kind]
           p == IF CanProduce(pool) THEN Produced(pool) ELSE pool
           q == Extracted(p)
<1>1. /\ up = "open" /\ rx # None /\ acked < host.packets /\ Outstanding < host.window
      /\ acked' = acked + 1 /\ data' = [data EXCEPT ![rx] = packet]
      /\ rx' = IF CanProduce(pool) THEN pool.write ELSE None
      /\ EventHandler(q, p.read, data'[p.read])
      /\ main' = main /\ handled' = handled
  BY DEF Receive
<1>2. /\ Types /\ Handling /\ (host.preempts => Lone(S)) /\ (Lone(S) => OneAtATime) /\ main \in MainState /\ acked \in Nat /\ sched \in Nat
      /\ count \in Nat /\ host \in Hosts /\ host.preempts \in BOOLEAN /\ SchedSize \in Nat /\ None \notin Buffer
      /\ host.packets \in Nat /\ kind \in Kind /\ rx \in Buffer /\ acked <= host.packets
      /\ data \in [Buffer -> [n : Nat, kind : Kind]] /\ slot \in SlotType /\ sched <= acked /\ sched <= SchedSize
  <2>1. host \in Hosts /\ Types
    BY Parts
  <2>2. host.packets \in Nat /\ kind \in Kind /\ SchedSize \in Nat
    BY <2>1, QueueConstants
  <2>3. sched <= SchedSize /\ rx \in Buffer /\ acked <= host.packets
    BY <1>1, <2>1, <2>2 DEF Types
  <2> QED
    BY <2>1, <2>2, <2>3, Parts, QueueConstants DEF Types, SlotType
<1>3. packet \in [n : Nat, kind : Kind] /\ data' \in [Buffer -> [n : Nat, kind : Kind]]
  BY <1>1, <1>2
<1>4. (host.preempts => Lone(S))' /\ (Lone(S) => OneAtATime)' /\ Lone(S)' = Lone(S)
  BY <1>2 DEF Lone, OneAtATime
<1>5. ASSUME Lone(S)
      PROVE  /\ Single /\ InLoop /\ Used = {} /\ count = 0 /\ Owed = 0 /\ pool = Resting(rx)
             /\ kind = "DATA" /\ rx' = Wrap(rx + 1) /\ p.read = rx /\ q = Holding(rx') /\ sched < SchedSize
  <2>1. Single /\ InLoop /\ AtRest /\ Owed = 0
    BY <1>1, <1>5, LoneWaits
  <2>2. Used = {} /\ count = 0 /\ pool = Resting(rx)
    BY <2>1 DEF AtRest
  <2>3. kind = "DATA"
    BY <1>5 DEF Inv, OneAtATime
  <2>4. CanProduce(pool) /\ rx' = Wrap(rx + 1) /\ p = Produced(pool)
    BY <1>1, <1>2, <2>2, Shapes
  <2>5. p.read = rx /\ q = Holding(rx')
    <3>1. Produced(pool).read = rx /\ Extracted(Produced(pool)) = Holding(Wrap(rx + 1))
      BY <1>2, <2>2, Received
    <3> QED
      BY <2>4, <3>1
  <2>6. sched < SchedSize
    BY <1>1, <1>5 DEF HasRoom
  <2> QED
    BY <2>1, <2>2, <2>3, <2>4, <2>5, <2>6
<1>6. Ring(pool) /\ pool.ready = 1 /\ (~host.preempts => count = Cardinality(Used))
  <2>1. CASE ~host.preempts
    BY <1>1, <1>2, <2>1 DEF Inv, Whole
  <2>2. CASE host.preempts
    <3>1. pool = Resting(rx)
      BY <1>2, <1>5, <2>2
    <3>2. Ring(Resting(rx)) /\ Resting(rx).ready = 1
      BY <1>2, Shapes DEF Resting
    <3> QED
      BY <2>2, <3>1, <3>2
  <2> QED
    BY <1>2, <2>1, <2>2
<1>7. /\ Ring(q) /\ p.read \in Buffer /\ rx' \in Buffer \cup {None}
      /\ q.ready = (IF rx' = None THEN 0 ELSE 1)
  BY <1>1, <1>2, <1>6, NextBuffer
<1>8. data'[p.read] \in [n : Nat, kind : Kind]
  BY <1>3, <1>7
<1> HIDE DEF p, q
<1>9. \/ /\ \E i \in Slot \ Used :
              /\ slot' = [slot EXCEPT ![i] = [type |-> data'[p.read].kind, buf |-> p.read, n |-> data'[p.read].n]]
              /\ Used' = Used \cup {i}
         /\ count # Slots - 1 /\ count' = (count + 1) % 256 /\ dropped' = dropped
         /\ sched < SchedSize => sched' = sched + 1 /\ pool' = q /\ up' = up
         /\ sched >= SchedSize => sched' = sched /\ pool' = Consumed(q, p.read) /\ up' \in {up, "reset"}
      \/ /\ data'[p.read].kind = "INVALID" \/ count = Slots - 1 \/ Used = Slot
         /\ UNCHANGED <<slot, count, sched>>
         /\ pool' = Consumed(q, p.read) /\ up' \in {up, "reset"}
  <2>1. EventHandler(q, p.read, data'[p.read])
    BY <1>1
  <2> QED
    BY <1>2, <1>7, <1>8, <2>1, Delivered
<1>10. slot' \in SlotType /\ count' \in 0 .. 255 /\ sched' \in 0 .. SchedSize /\ sched' <= acked'
       /\ up' \in {"open", "reset"} /\ sched' >= sched /\ Used \subseteq Used'
  <2>1. slot' \in SlotType /\ Used \subseteq Used'
    BY <1>2, <1>7, <1>8, <1>9 DEF SlotType, Used
  <2>2. count' \in 0 .. 255
    <3>1. count' = (count + 1) % 256 \/ count' = count
      BY <1>9
    <3>2. count \in 0 .. 255
      BY <1>2 DEF Types
    <3> QED
      BY <3>1, <3>2
  <2>3. sched' \in {sched, sched + 1} /\ (sched >= SchedSize => sched' = sched)
    BY <1>9, <1>2
  <2>4. sched' \in 0 .. SchedSize /\ sched' <= acked' /\ sched' >= sched
    BY <1>1, <1>2, <2>3
  <2>5. up' \in {"open", "reset"}
    BY <1>1, <1>2, <1>9
  <2> QED
    BY <2>1, <2>2, <2>4, <2>5
<1>11. Types'
  BY <1>1, <1>2, <1>3, <1>7, <1>10 DEF Types, SlotType
<1>12. Handling'
  BY <1>1, <1>2, <1>10 DEF Handling
<1>13. ~host'.preempts => Whole'
  <2> SUFFICES ASSUME ~host.preempts PROVE Whole'
    OBVIOUS
  <2>1. Ring(pool') /\ pool'.ready = q.ready
    <3>1. Ring(Consumed(q, p.read)) /\ Consumed(q, p.read).ready = q.ready
      BY <1>7, ConsumedFields
    <3>2. pool' = q \/ pool' = Consumed(q, p.read)
      BY <1>2, <1>9
    <3> QED
      BY <1>7, <3>1, <3>2
  <2>2. count' = Cardinality(Used')
    <3>1. CASE UNCHANGED <<slot, count, sched>>
      BY <1>6, <3>1 DEF Used
    <3>2. CASE \E i \in Slot \ Used : Used' = Used \cup {i} /\ count # Slots - 1 /\ count' = (count + 1) % 256
      <4>1. PICK i \in Slot \ Used : Used' = Used \cup {i} /\ count # Slots - 1 /\ count' = (count + 1) % 256
        BY <3>2
      <4>2. Cardinality(Used \cup {i}) = count + 1 /\ count <= Slots - 1
        BY <1>2, <1>6, UsedCards
      <4>3. count + 1 \in 0 .. 255
        BY <1>2, <4>1, <4>2, QueueConstants
      <4>4. (count + 1) % 256 = count + 1
        BY <4>3
      <4> QED
        BY <4>1, <4>2, <4>4
    <3> QED
      BY <1>9, <3>1, <3>2
  <2>3. main.pc \in Loop \cup {"free"}
    BY DEF Inv, Whole
  <2> QED
    BY <1>1, <1>7, <2>1, <2>2, <2>3 DEF Whole
<1>14. ASSUME Lone(S) PROVE Single'
  <2>1. /\ Single /\ InLoop /\ Used = {} /\ count = 0 /\ Owed = 0 /\ pool = Resting(rx)
        /\ kind = "DATA" /\ rx' = Wrap(rx + 1) /\ p.read = rx /\ q = Holding(rx') /\ sched < SchedSize
    BY <1>5, <1>14
  <2>2. data'[rx] = packet /\ packet.n = acked' /\ packet.kind = "DATA"
    BY <1>1, <1>2, <2>1
  <2>3. count # Slots - 1 /\ 0 \in Slot /\ Slots - 1 # 0
    BY <2>1, QueueConstants DEF Slot
  <2>4. PICK s \in Slot :
          /\ slot' = [slot EXCEPT ![s] = [type |-> "DATA", buf |-> rx, n |-> acked']]
          /\ Used' = {s} /\ count' = 1 /\ dropped' = dropped /\ pool' = Holding(rx') /\ up' = "open"
    BY <1>1, <1>9, <2>1, <2>2, <2>3
  <2>5. Wrap(rx' - 1) = rx /\ rx' \in Buffer
    BY <1>2, <2>1, Around
  <2>6. Element(s)'
    BY <1>2, <2>2, <2>4, <2>5 DEF Element, Before, SlotType
  <2>7. Owed' = 1
    <3>1. Len(handled) \in Nat
      BY <2>1, HandledFacts
    <3> QED
      BY <1>1, <1>2, <2>1, <3>1 DEF Owed
  <2>8. InLoop'
    BY <1>1, <2>1, <2>4, <2>6, <2>7 DEF InLoop, Waits
  <2> QED
    BY <1>1, <2>1, <2>4, <2>5, <2>8 DEF Single
<1> QED
  BY <1>4, <1>11, <1>12, <1>13, <1>14 DEF Inv

-----------------------------------------------------------------------------
(* The invariant.                                                          *)

\* The transport is opened with no packet.
LEMMA InitHolds ==
  ASSUME NEW S, Init, host.preempts => Lone(S), Lone(S) => OneAtATime
  PROVE  Inv(S)
<1>1. /\ host \in Hosts /\ up = "open" /\ acked = 0 /\ rx = 0 /\ pool = Produced(PoolOpen)
      /\ data = [b \in Buffer |-> [n |-> 0, kind |-> "INVALID"]]
      /\ slot = [i \in Slot |-> FreeSlot] /\ count = 0 /\ sched = 0 /\ main = Idle
      /\ handled = <<>> /\ dropped = {}
  BY DEF Init
<1>2. /\ N \in Nat /\ N > 1 /\ Slots \in Nat /\ SchedSize \in Nat /\ SchedSize > 0
      /\ 0 \in Buffer /\ host.packets \in Nat /\ host.preempts \in BOOLEAN
  BY <1>1, QueueConstants
<1>3. main \in MainState /\ main.pc = "idle"
  BY <1>1, MainFacts
<1>4. pool = Resting(rx)
  <2>1. Wrap(0 + 1) \in Buffer /\ {} \cup {0} = {0} /\ 0 + 1 = 1
    BY <1>2, Around
  <2> QED
    BY <1>1, <2>1 DEF Produced, PoolOpen, Resting
<1>5. Used = {} /\ Cardinality(Used) = 0
  <2>1. Used = {}
    BY <1>1 DEF Used, FreeSlot
  <2> QED
    BY <2>1, FS_EmptySet
<1>6. Types
  <2>1. data \in [Buffer -> [n : Nat, kind : Kind]]
    BY <1>1 DEF Kind
  <2>2. slot \in [Slot -> [type : Kind, buf : Buffer \cup {None}, n : Nat]]
    BY <1>1 DEF FreeSlot, Kind
  <2> QED
    BY <1>1, <1>2, <1>3, <2>1, <2>2 DEF Types
<1>7. Handling
  BY <1>3 DEF Handling, Freeing
<1>8. Whole
  <2>1. Ring(Resting(rx)) /\ Resting(rx).ready = 1 /\ rx # None
    BY <1>1, <1>2, Shapes, QueueConstants DEF Resting
  <2> QED
    BY <1>1, <1>3, <1>4, <1>5, <2>1 DEF Whole, Loop
<1>9. Single
  <2>1. Len(handled) = 0 /\ handled = [i \in 1 .. 0 |-> i] /\ Owed = 0
    <3>1. 1 .. 0 = {} /\ Len(<<>>) = 0
      OBVIOUS
    <3>2. <<>> = [i \in 1 .. 0 |-> i]
      BY <3>1
    <3>3. Len(handled) = 0 /\ acked = 0
      BY <1>1, <3>1
    <3>4. Owed = 0
      BY <3>3 DEF Owed
    <3> QED
      BY <1>1, <3>2, <3>3, <3>4
  <2>2. InLoop
    BY <1>1, <1>3, <1>4, <1>5, <2>1 DEF InLoop, AtRest, Loop
  <2> QED
    BY <1>1, <1>2, <2>1, <2>2 DEF Single
<1> QED
  BY <1>6, <1>7, <1>8, <1>9 DEF Inv

\* A step of the main loop.
LEMMA MainLoopKeeps == ASSUME NEW S, Inv(S), MainLoop, UNCHANGED host PROVE Inv(S)'
<1>1. up = "open"
  BY DEF MainLoop
<1>2. CASE Begin
  BY <1>1, <1>2, BeginKeeps
<1>3. CASE Test
  BY <1>1, <1>3, TestKeeps
<1>4. CASE Skip
  BY <1>1, <1>4, SkipKeeps
<1>5. CASE Handle
  BY <1>1, <1>5, HandleKeeps
<1>6. CASE HandleStop
  BY <1>1, <1>6, HandleStopKeeps
<1>7. CASE Flush
  BY <1>1, <1>7, FlushKeeps
<1>8. CASE FreeAtomic
  BY <1>1, <1>8, FreeAtomicKeeps
<1>9. CASE LoadCount
  BY <1>1, <1>9, LoadCountKeeps
<1>10. CASE StoreCount
  BY <1>1, <1>10, StoreCountKeeps
<1>11. CASE InitType
  BY <1>1, <1>11, InitTypeKeeps
<1>12. CASE InitPointer
  BY <1>1, <1>12, InitPointerKeeps
<1>13. CASE Find
  BY <1>1, <1>13, FindKeeps
<1>14. CASE StoreBits
  BY <1>1, <1>14, StoreBitsKeeps
<1>15. CASE ReleaseTest
  BY <1>1, <1>15, ReleaseTestKeeps
<1>16. CASE StoreAvail
  BY <1>1, <1>16, StoreAvailKeeps
<1>17. CASE LoadWindow
  BY <1>1, <1>17, LoadWindowKeeps
<1>18. CASE StoreWindow
  BY <1>1, <1>18, StoreWindowKeeps
<1> QED
  BY <1>2, <1>3, <1>4, <1>5, <1>6, <1>7, <1>8, <1>9, <1>10, <1>11, <1>12, <1>13, <1>14,
     <1>15, <1>16, <1>17, <1>18 DEF MainLoop, Free

\* Nothing happens.
LEMMA StutterKeeps == ASSUME NEW S, Inv(S), UNCHANGED vars PROVE Inv(S)'
<1>1. UNCHANGED <<host, up, acked, data, rx, pool, slot, count, sched, main, handled, dropped>>
  BY DEF vars, queueVars
<1>2. Types' = Types /\ Handling' = Handling /\ Whole' = Whole
  BY <1>1 DEF Types, Handling, Whole, Used
<1>3. InLoop' = InLoop
  BY <1>1 DEF InLoop, AtRest, Waits, Element, Used, Before, Owed
<1>4. InFree' = InFree
  BY <1>1 DEF InFree, Element, Used, Before, Owed, Unmarked
<1>5. Single' = Single
  BY <1>1, <1>3, <1>4 DEF Single
<1>6. Lone(S)' = Lone(S) /\ OneAtATime' = OneAtATime
  BY <1>1 DEF Lone, OneAtATime
<1> QED
  BY <1>1, <1>2, <1>5, <1>6 DEF Inv

\* The invariant is inductive, where the scheduler has room.
LEMMA StepKeeps == ASSUME NEW S, Inv(S), Lone(S) => HasRoom, [Next]_vars PROVE Inv(S)'
<1>1. CASE UNCHANGED vars
  BY <1>1, StutterKeeps
<1>2. CASE Next
  <2>1. UNCHANGED host
    BY <1>2 DEF Next
  <2>2. ASSUME NEW kind \in host.kinds, Receive(kind) PROVE Inv(S)'
    BY <2>1, <2>2, ReceiveKeeps
  <2>3. CASE MainLoop
    BY <2>1, <2>3, MainLoopKeeps
  <2>4. CASE Close
    BY <2>1, <2>4, CloseKeeps
  <2>5. CASE Done
    BY <2>5, StutterKeeps DEF Done
  <2> QED
    BY <1>2, <2>2, <2>3, <2>4, <2>5 DEF Next
<1> QED
  BY <1>1, <1>2

\* The host stays the same.
LEMMA SameHost ==
  /\ Init => host \in Hosts
  /\ [Next]_vars => host' = host /\ Calm' = Calm /\ OneAtATime' = OneAtATime
  BY DEF Init, Next, vars, Calm, Paced, OneAtATime

\* It holds in every state with the calm hosts.
LEMMA AlwaysCalmInv == Spec => []CalmInv
<1>1. Init => CalmInv
  <2> SUFFICES ASSUME Init, Calm PROVE Inv(PacedHosts)
    BY DEF CalmInv
  <2>1. host \in Hosts
    BY SameHost
  <2>2. Lone(PacedHosts) <=> Paced
    BY <2>1 DEF Lone, PacedHosts, PatientHosts, Paced, OneAtATime
  <2> QED
    BY <2>2, InitHolds DEF Calm, Paced
<1>2. CalmInv /\ [Next]_vars => CalmInv'
  <2> SUFFICES ASSUME CalmInv, [Next]_vars, Calm' PROVE Inv(PacedHosts)'
    BY DEF CalmInv
  <2>1. Inv(PacedHosts)
    BY SameHost DEF CalmInv
  <2>2. ASSUME Lone(PacedHosts) PROVE HasRoom
    <3>1. host.packets <= SchedSize /\ host.packets \in Nat /\ SchedSize \in Nat /\ sched <= acked
          /\ acked \in Nat /\ sched \in Nat
      BY <2>1, <2>2, Parts, QueueConstants DEF Lone, PacedHosts, Types
    <3> QED
      BY <3>1 DEF HasRoom
  <2> QED
    BY <2>1, <2>2, StepKeeps
<1> QED
  BY <1>1, <1>2, PTL DEF Spec

\* And with the patient ones, as long as the scheduler has room.
LEMMA AlwaysPatientInv == Spec /\ []HasRoom => []PatientInv
<1>1. Init => PatientInv
  <2> SUFFICES ASSUME Init, OneAtATime PROVE Inv(PatientHosts)
    BY DEF PatientInv
  <2>1. Lone(PatientHosts)
    BY SameHost DEF Lone, PatientHosts, OneAtATime
  <2> QED
    BY <2>1, InitHolds
<1>2. PatientInv /\ HasRoom /\ [Next]_vars => PatientInv'
  BY SameHost, StepKeeps DEF PatientInv
<1> QED
  BY <1>1, <1>2, PTL DEF Spec

-----------------------------------------------------------------------------
(* What follows from it.                                                   *)

\* With a host that sends one packet at a time, the pool has one of few shapes.
LEMMA LonePool ==
  ASSUME NEW S, Inv(S), Lone(S)
  PROVE  /\ rx \in Buffer /\ pool \in {Resting(rx), Holding(rx), Unmarked(0), Unmarked(1)}
         /\ ~Releasing => pool \in {Resting(rx), Holding(rx)}
<1>1. Single /\ rx \in Buffer
  BY DEF Inv, Single
<1>2. CASE up = "open" /\ InLoop
  BY <1>1, <1>2 DEF InLoop, AtRest, Waits, Element
<1>3. CASE up = "open" /\ InFree
  <2>1. main.pc \in {"free", "count", "type"} => pool = Holding(rx)
    BY <1>3 DEF InFree, Element
  <2>2. main.pc \notin {"free", "count", "type"} =>
          pool \in {Resting(rx), Holding(rx), Unmarked(0), Unmarked(1)}
    BY <1>3 DEF InFree, Freeing
  <2>3. ~Releasing => main.pc = "free"
    BY <1>3 DEF InFree, Releasing, Freeing
  <2> QED
    BY <1>1, <2>1, <2>2, <2>3
<1>4. CASE up = "closed"
  BY <1>1, <1>4 DEF Single
<1>5. up \in {"open", "closed"}
  BY <1>1 DEF Inv, Types, Single
<1> QED
  BY <1>1, <1>2, <1>3, <1>4, <1>5 DEF Single

\* The type invariant.
LEMMA InvTypeOK == ASSUME NEW S, Inv(S) PROVE TypeOK
<1>1. Types /\ main.i \in 0 .. Slots /\ N \in Nat /\ N > 1
  BY Parts, QueueConstants DEF MainState
<1>2. pool \in Pool /\ pool.window \in 0 .. N /\ pool.ready \in 0 .. N /\ pool.avail \in 0 .. N
  <2>1. CASE ~host.preempts
    <3>1. Ring(pool)
      BY <2>1 DEF Inv, Whole
    <3> QED
      BY <3>1 DEF Ring, Pool
  <2>2. CASE host.preempts
    <3>1. rx \in Buffer /\ pool \in {Resting(rx), Holding(rx), Unmarked(0), Unmarked(1)}
      BY <2>2, LonePool DEF Inv
    <3>2. Wrap(rx + 1) \in Buffer /\ Wrap(rx - 1) \in Buffer
      BY <3>1, Around
    <3> QED
      BY <1>1, <3>1, <3>2 DEF Resting, Holding, Unmarked, Pool
  <2> QED
    BY <2>1, <2>2, Parts
<1>3. \A i \in Slot : slot[i].type \in Kind /\ slot[i].buf \in Buffer \cup {None}
  BY <1>1 DEF Types
<1> QED
  BY <1>1, <1>2, <1>3 DEF TypeOK, Types

\* The counters.
LEMMA InvCountersAgree == ASSUME NEW S, Inv(S) PROVE CountersAgree
<1> SUFFICES ASSUME ~Releasing
             PROVE  /\ up = "open" => count = Cardinality(Used)
                    /\ pool.window + pool.ready + pool.avail = N
  BY DEF CountersAgree
<1>1. CASE ~host.preempts
  BY <1>1 DEF Inv, Whole, Ring
<1>2. CASE host.preempts
  <2>1. Lone(S) /\ Single
    BY <1>2 DEF Inv
  <2>2. pool \in {Resting(rx), Holding(rx)} /\ N \in Int
    BY <2>1, LonePool, QueueConstants
  <2>3. pool.window + pool.ready + pool.avail = N
    BY <2>2 DEF Resting, Holding
  <2>4. ASSUME up = "open" PROVE count = Cardinality(Used)
    <3>1. (Used = {} /\ count = 0) \/ ((\E s \in Slot : Used = {s}) /\ count = 1)
      <4>1. CASE InLoop
        BY <4>1 DEF InLoop, AtRest, Waits, Element
      <4>2. CASE InFree
        <5>1. main.pc = "free" /\ main.i \in Slot
          BY <4>2, Parts DEF InFree, Releasing, Freeing, Handling
        <5> QED
          BY <4>2, <5>1 DEF InFree, Element
      <4> QED
        BY <2>1, <2>4, <4>1, <4>2 DEF Single
    <3> QED
      BY <3>1, FS_EmptySet, FS_Singleton
  <2> QED
    BY <2>3, <2>4
<1> QED
  BY <1>1, <1>2, Parts

\* The buffer of the packet that waits is the one before rx, and the free ones are behind it.
LEMMA InvKeepBuffers == ASSUME NEW S, Inv(S), Lone(S) PROVE ElementsKeepBuffers
<1> SUFFICES ASSUME up = "open", NEW i \in Used
             PROVE  slot[i].buf \notin FreeWindow \cup {rx}
  BY DEF ElementsKeepBuffers
<1>1. Single /\ rx \in Buffer
  BY DEF Inv, Single
<1>2. \E s \in Slot : Element(s)
  <2>1. CASE InLoop
    BY <2>1 DEF InLoop, AtRest, Waits
  <2>2. CASE InFree
    BY <2>2, Parts DEF InFree, Handling
  <2> QED
    BY <1>1, <2>1, <2>2 DEF Single
<1>3. slot[i].buf = Wrap(rx - 1) /\ pool = Holding(rx)
  BY <1>2 DEF Element, Before
<1>4. N \in Nat /\ N > 1 /\ rx \in Int /\ Wrap(rx - 1) # rx
  BY <1>1, QueueConstants, Around DEF Buffer
<1>5. ASSUME NEW j \in 0 .. pool.window - 1 PROVE Wrap(pool.write + j) # Wrap(rx - 1)
  <2>1. pool.window = N - 2 /\ pool.write = Wrap(rx + 1)
    BY <1>3 DEF Holding
  <2>2. j \in -N .. N - 1 /\ j + 1 \in -N .. N /\ -1 \in -N .. N /\ -1 < j + 1 /\ (j + 1) - (-1) < N
        /\ rx + (-1) = rx - 1
    BY <1>4, <2>1
  <2>3. Wrap(Wrap(rx + 1) + j) = Wrap(rx + (j + 1))
    BY <1>1, <2>2, Steps
  <2>4. Wrap(rx + (-1)) # Wrap(rx + (j + 1))
    BY <1>1, <2>2, Apart
  <2> QED
    BY <2>1, <2>2, <2>3, <2>4
<1> QED
  BY <1>3, <1>4, <1>5 DEF FreeWindow

\* The packets that the engine got, and the device that goes on receiving.
LEMMA InvInOrder ==
  ASSUME NEW S, Inv(S), Lone(S)
  PROVE  /\ handled = [i \in 1 .. Len(handled) |-> i]
         /\ \A i, j \in 1 .. Len(handled) : i < j => handled[i] < handled[j]
         /\ dropped = {} /\ up # "reset" /\ rx # None
<1>1. Single
  BY DEF Inv
<1>2. \A i \in 1 .. Len(handled) : handled[i] = i
  BY <1>1, HandledFacts
<1> QED
  BY <1>1, <1>2, QueueConstants DEF Single

\* A paced host is one of them.
LEMMA PacedInv == CalmInv /\ Paced => Inv(PacedHosts) /\ Lone(PacedHosts)
<1> SUFFICES ASSUME CalmInv, Paced PROVE Inv(PacedHosts) /\ Lone(PacedHosts)
  OBVIOUS
<1>1. Inv(PacedHosts)
  BY DEF CalmInv, Calm
<1> QED
  BY <1>1, Parts DEF Lone, PacedHosts, PatientHosts, Paced, OneAtATime

-----------------------------------------------------------------------------
(* The theorems.                                                           *)

\* Every variable has its type, with every host whose packets do not come
\* within a release, and with every one that waits for the device.
THEOREM TypeCorrect == Spec => [](Calm => TypeOK)
<1>1. CalmInv => (Calm => TypeOK)
  BY InvTypeOK DEF CalmInv
<1> QED
  BY <1>1, AlwaysCalmInv, PTL

\* However many elements and buffers there are, the count that the main loop
\* waits for is the number of used elements, and the three counters of the
\* pool add up to its buffers: with every host whose packets do not come within
\* a release (it may send any number of packets of any kind, faster than they
\* are handled), and with every one that waits for the device.
THEOREM CountersAlwaysAgree == Spec => [](Calm => CountersAgree)
<1>1. CalmInv => (Calm => CountersAgree)
  BY InvCountersAgree DEF CalmInv
<1> QED
  BY <1>1, AlwaysCalmInv, PTL

\* The buffer of a queued packet is neither received into nor handed out, at
\* no step of the release either, when the host waits for the device.
THEOREM BuffersAreKept == Spec => []PacedKeepBuffers
<1>1. CalmInv => PacedKeepBuffers
  BY PacedInv, InvKeepBuffers DEF PacedKeepBuffers
<1> QED
  BY <1>1, AlwaysCalmInv, PTL

\* The engine then gets every packet, once and in order.
THEOREM PacketsInOrder == Spec => []InOrder
<1>1. CalmInv => InOrder
  BY PacedInv, InvInOrder DEF InOrder
<1> QED
  BY <1>1, AlwaysCalmInv, PTL

\* And the device neither resets nor runs out of buffers to receive into.
THEOREM NeverDeaf == Spec => []StaysListening
<1>1. CalmInv => StaysListening
  BY PacedInv, InvInOrder DEF StaysListening
<1> QED
  BY <1>1, AlwaysCalmInv, PTL

\* What the paced hosts are promised, and that the packets that the engine got
\* are the first ones that were sent.
AllKept == OneAtATime => /\ ElementsKeepBuffers /\ CountersAgree
                         /\ handled = [i \in 1 .. Len(handled) |-> i]
                         /\ dropped = {} /\ up # "reset" /\ rx # None

\* However many packets a host sends that waits for the device, all of it holds
\* as long as no packet comes while the queue of the scheduler is full.
THEOREM AnyNumberOfPackets == Spec /\ []HasRoom => []AllKept
<1>1. PatientInv => AllKept
  <2> SUFFICES ASSUME OneAtATime, Inv(PatientHosts) PROVE AllKept
    BY DEF PatientInv, AllKept
  <2>1. Lone(PatientHosts)
    BY Parts DEF Lone, PatientHosts, OneAtATime
  <2>2. ElementsKeepBuffers /\ CountersAgree
    BY <2>1, InvKeepBuffers, InvCountersAgree
  <2>3. handled = [i \in 1 .. Len(handled) |-> i] /\ dropped = {} /\ up # "reset" /\ rx # None
    BY <2>1, InvInOrder
  <2> QED
    BY <2>2, <2>3 DEF AllKept
<1> QED
  BY <1>1, AlwaysPatientInv, PTL

=============================================================================
