------------------------ MODULE DfuTransportBleProofs ------------------------
(***************************************************************************)
(* Over the air: that the buffers of queued stores are theirs, that the    *)
(* host is told the truth, and that a host can always connect again, for   *)
(* every number of receive buffers, image size and receipt interval.       *)
(***************************************************************************)
EXTENDS DfuTransportBle, HciMemPoolProofs, SequenceTheorems, FiniteSetTheorems

DISC == Event("DISCONNECTED")
CONN == Event("CONNECTED")
AnyEvent == {Event(c) : c \in Controls \cup {"CONNECTED", "DISCONNECTED", "REQUEST", "GATT_TIMEOUT"}}
            \cup {<<"PACKET", n>> : n \in Sizes \cup {0}}

\* The states of the engine, those before it takes data, and pstorage's commands.
Early == {"IDLE", "PREPARING", "RDY", "RX_INIT"}
State == Early \cup {"RX_DATA", "VALIDATE", "WAIT_4_ACTIVATE"}
Settings == {"sclear", "sstore"}
Op == [op : Settings \cup {"clear"}, b : {NoBuffer}, b0 : {"VALID", "INVALID"}]
      \cup [op : {"data"}, b : Buffer, b0 : {"VALID", "INVALID"}]

AirTypes ==
  /\ link \in {"none", "up", "closing"} /\ beacon \in BOOLEAN /\ events \in Seq(AnyEvent)
  /\ m_is_advertising \in BOOLEAN /\ m_tear_down_in_progress \in BOOLEAN
TransportTypes ==
  /\ connected \in BOOLEAN /\ m_pkt_type \in {"INVALID", "START", "INIT", "FW"}
  /\ target \in {0, Target} /\ left \in 0 .. Target /\ (target # 0 => left > 0)
  /\ end \in {"none", "app", "ota", "serial"}
EngineTypes ==
  /\ mp_final_packet \in Buffer \cup {NoBuffer} /\ (mp_final_packet = NoBuffer <=> promised = 0)
  /\ st \in State /\ size \in Sizes \cup {0} /\ (st # "IDLE" => size \in Sizes)
  /\ received \in Nat /\ (\E n \in Sizes : received <= n) /\ counted = received
  /\ promised \in Nat /\ promised <= received
  /\ overrun \in BOOLEAN /\ timedOut \in BOOLEAN
OpsTypes == ops \in Seq(Op) /\ done \in BOOLEAN /\ (done => ops # <<>>)

Typed == AirTypes /\ TransportTypes /\ EngineTypes /\ OpsTypes

\* The link, the advertising and the events that the transport has not seen: the
\* end of a connection is the last of them, and its beginning the first.
LinkInv ==
  /\ beacon => link = "none" /\ Len(events) = 0 /\ ~m_tear_down_in_progress
  /\ Len(events) <= MaxEvents + 1 /\ (link # "none" => Len(events) <= MaxEvents)
  /\ \A i \in 1 .. Len(events) : events[i] = DISC => i = Len(events) /\ link = "none"
  /\ link = "none" /\ ~beacon /\ ~m_tear_down_in_progress =>
       Len(events) > 0 /\ events[Len(events)] = DISC
  /\ m_is_advertising /\ ~beacon /\ ~m_tear_down_in_progress =>
       Len(events) > 0 /\ events[1] = CONN

\* The image is activated once, when the link is given up.
Activated ==
  st = "WAIT_4_ACTIVATE" /\ ops # <<>> => link # "up" /\ m_tear_down_in_progress

\* The first s commands are the settings' or clear the bank, the others store data.
Commands(s) ==
  /\ s \in 0 .. 2 /\ s <= Len(ops) /\ Len(ops) - s <= N
  /\ \A i \in 1 .. s : ops[i].op # "data"
  /\ \A i \in s + 1 .. Len(ops) : ops[i].op = "data" /\ ops[i].b \in Buffer
  /\ st = "IDLE" => Len(ops) = 0
  /\ st = "PREPARING" => Len(ops) = 1 /\ ops[1].op = "clear"
  /\ st # "PREPARING" => \A i \in 1 .. s : ops[i].op # "clear"
  /\ st \in Early \cup {"WAIT_4_ACTIVATE"} => Len(ops) = s

\* The pool has the buffers of h chunks in use; while data come these are the
\* chunks of the queued stores, in order.
Chunks(s, h) ==
  /\ Ring(pool) /\ pool.ready = 0 /\ InUse(pool, h) /\ (h = 0 => pool.avail = 0)
  /\ st \in Early => h = 0 /\ received = 0
  /\ st = "RX_DATA" =>
       /\ h = Len(ops) - s /\ h <= received /\ (s > 0 => h = received)
       /\ \A k \in 1 .. h : ops[s + k].b = At(pool, k - 1 - pool.avail)
       /\ ~overrun /\ ~timedOut => pool.avail = h
       /\ promised > received - h => ops[s + (promised - (received - h))].b = mp_final_packet
  /\ answer[1] = "done" => st = "RX_DATA" /\ promised > 0 /\ promised <= received - h

Queues == \E s \in 0 .. 2 : Commands(s) /\ \E h \in 0 .. N : Chunks(s, h)
Counted == answer[1] = "count" => answer[2] = received

Inv == Typed /\ LinkInv /\ Activated /\ Queues /\ Counted

-----------------------------------------------------------------------------
(* What stays the same.                                                    *)

\* Everything but how the session ended.
session == <<link, beacon, events, connected, m_is_advertising, m_tear_down_in_progress,
             wasConnected, m_pkt_type, target, left, counted, mp_final_packet, pool, st, size,
             received, overrun, timer, timedOut, status, ops, done, answer, promised>>

\* No BUFFER is not a buffer, and the numbers that the model is built from.
LEMMA Constants ==
  /\ N \in Nat /\ N > 0 /\ NoBuffer \notin Buffer
  /\ Sizes \subseteq Nat \ {0} /\ Sizes # {} /\ Target \in Nat
  /\ MaxEvents \in Nat /\ MaxEvents > 0 /\ QueueSize \in Nat /\ QueueSize >= N + 2
<1>1. NoBuffer \notin Buffer
  BY DEF NoBuffer, Buffer
<1> QED
  BY <1>1, PoolAssumption, BleAssumption

\* The queue of commands and the pool do not change, nor the engine's state.
QueueSame ==
  /\ UNCHANGED <<pool, st, received, overrun, timedOut, ops, promised, mp_final_packet>>
  /\ answer'[1] = "done" => answer' = answer

\* A step that leaves them alone keeps what is said of the queues.
LEMMA QueuesKept == ASSUME Queues, QueueSame PROVE Queues'
<1>1. PICK s \in 0 .. 2 : Commands(s) /\ \E h \in 0 .. N : Chunks(s, h)
  BY DEF Queues
<1>2. PICK h \in 0 .. N : Chunks(s, h)
  BY <1>1
<1>3. Commands(s)'
  BY <1>1 DEF Commands, QueueSame
<1>4. Chunks(s, h)'
  BY <1>2 DEF Chunks, QueueSame, At
<1> QED
  BY <1>3, <1>4 DEF Queues

\* The invariant is about the session only.
LEMMA SameSession ==
  ASSUME Inv, UNCHANGED session, end' \in {"none", "app", "ota", "serial"}
  PROVE  Inv'
<1>1. Typed'
  BY DEF Inv, Typed, AirTypes, TransportTypes, EngineTypes, OpsTypes, session
<1>2. LinkInv' /\ Activated'
  BY DEF Inv, LinkInv, Activated, session
<1>3. Queues'
  BY QueuesKept DEF Inv, QueueSame, session
<1>4. Counted'
  BY DEF Inv, Counted, session
<1> QED
  BY <1>1, <1>2, <1>3, <1>4 DEF Inv

\* A failed SoftDevice or flash call resets the device.
LEMMA CrashKeeps == ASSUME Inv, Crash PROVE Inv'
<1>1. UNCHANGED session
  BY DEF Crash, air, transport, presence, receipts, data, engine, image, storage, flash, session
<1>2. end' \in {"none", "app", "ota", "serial"}
  BY DEF Crash
<1> QED
  BY <1>1, <1>2, SameSession

\* A step that answers nothing.
LEMMA SilentFacts ==
  ASSUME answer' = Silent
  PROVE  Counted' /\ (answer'[1] = "done" => answer' = answer) /\ answer'[1] # "done"
  BY DEF Silent, Counted

-----------------------------------------------------------------------------
(* The SoftDevice.                                                         *)

\* An event other than a disconnection, or the beginning of a connection that
\* the transport has noticed, is taken from the queue.
LEMMA TailLink ==
  ASSUME AirTypes, LinkInv, events # <<>>, Head(events) # DISC,
         Head(events) = CONN => m_is_advertising' = FALSE,
         events' = Tail(events), beacon' = beacon,
         m_is_advertising' = m_is_advertising \/ m_is_advertising' = FALSE,
         \/ link' = link /\ m_tear_down_in_progress' = m_tear_down_in_progress
         \/ link = "up" /\ link' = "closing"
            /\ m_tear_down_in_progress' \in {m_tear_down_in_progress, TRUE}
  PROVE  LinkInv' /\ events' \in Seq(AnyEvent)
<1>1. /\ events \in Seq(AnyEvent) /\ events' \in Seq(AnyEvent) /\ Len(events) \in Nat \ {0}
      /\ Len(events') = Len(events) - 1
      /\ \A i \in 1 .. Len(events') : events'[i] = events[i + 1]
      /\ Head(events) = events[1]
  BY EmptySeq, HeadTailProperties DEF AirTypes
<1>2. ~beacon
  BY <1>1 DEF LinkInv
<1>3. (link' # "none" => link # "none") /\ (link' = "none" <=> link = "none")
  OBVIOUS
<1>4. MaxEvents \in Nat
  BY Constants
<1>5. Len(events') <= MaxEvents + 1 /\ (link' # "none" => Len(events') <= MaxEvents)
  <2>1. Len(events) <= MaxEvents + 1 /\ (link # "none" => Len(events) <= MaxEvents)
    BY DEF LinkInv
  <2> QED
    BY <1>1, <1>3, <1>4, <2>1
<1>6. ASSUME NEW i \in 1 .. Len(events'), events'[i] = DISC
      PROVE  i = Len(events') /\ link' = "none"
  <2>1. i + 1 \in 1 .. Len(events) /\ events[i + 1] = DISC
    BY <1>1, <1>6
  <2>2. i + 1 = Len(events) /\ link = "none"
    BY <2>1 DEF LinkInv
  <2>3. i \in Int /\ Len(events) \in Int
    BY <1>1
  <2>4. i = Len(events) - 1
    BY <2>2, <2>3
  <2> QED
    BY <1>1, <1>3, <2>2, <2>4, Zenon
<1>7. ASSUME link' = "none", ~m_tear_down_in_progress'
      PROVE  Len(events') > 0 /\ events'[Len(events')] = DISC
  <2>1. link = "none" /\ ~m_tear_down_in_progress
    BY <1>3, <1>7
  <2>2. events[Len(events)] = DISC
    BY <1>2, <2>1 DEF LinkInv
  <2>3. Len(events) # 1
    BY <1>1, <2>2
  <2>4. Len(events') \in 1 .. Len(events') /\ Len(events') + 1 = Len(events)
    BY <1>1, <2>3
  <2> QED
    BY <1>1, <2>2, <2>4
<1>8. ASSUME m_is_advertising', ~m_tear_down_in_progress' PROVE FALSE
  <2>1. m_is_advertising /\ ~m_tear_down_in_progress
    BY <1>8 DEF AirTypes
  <2>2. events[1] = CONN
    BY <1>2, <2>1 DEF LinkInv
  <2> QED
    BY <1>1, <1>8, <2>2
<1> QED
  BY <1>1, <1>2, <1>5, <1>6, <1>7, <1>8 DEF LinkInv

\* What a host sends is none of the two.
LEMMA EventFacts ==
  /\ DISC \in AnyEvent /\ CONN \in AnyEvent /\ DISC # CONN
  /\ \A e \in Writes \cup {Event("REQUEST"), Event("GATT_TIMEOUT")} :
       e \in AnyEvent /\ e # DISC /\ e # CONN
  /\ \A e \in AnyEvent : e[1] # "DISCONNECTED" => e # DISC
  /\ \A e \in AnyEvent : e[1] # "CONNECTED" => e # CONN
  /\ \A e \in AnyEvent : e[1] = "DISCONNECTED" => e = DISC
  /\ \A e \in AnyEvent : e[1] = "CONNECTED" => e = CONN
  /\ \A e \in AnyEvent : e[1] = "PACKET" => e[2] \in Sizes \cup {0}
  BY DEF DISC, CONN, AnyEvent, Writes, Event, Controls

\* A host connects: advertising stops by itself, its event is the first.
LEMMA ConnectKeeps == ASSUME Inv, Connect PROVE Inv'
<1>1. /\ beacon /\ link' = "up" /\ beacon' = FALSE /\ events' = Append(events, CONN)
      /\ answer' = Silent
      /\ UNCHANGED <<connected, m_is_advertising, m_tear_down_in_progress, m_pkt_type, target, left,
                     counted, mp_final_packet, pool, st, size, received, overrun, timedOut, ops,
                     done, promised, end>>
  BY DEF Connect, Quiet, transport, presence, receipts, data, engine, image, storage, CONN
<1>2. /\ Typed /\ LinkInv /\ Activated /\ Queues /\ Counted
  BY DEF Inv
<1>3. link = "none" /\ Len(events) = 0 /\ ~m_tear_down_in_progress /\ events \in Seq(AnyEvent)
  BY <1>1, <1>2 DEF LinkInv, Typed, AirTypes
<1>4. /\ events' \in Seq(AnyEvent) /\ Len(events') = 1 /\ events'[1] = CONN
  BY <1>1, <1>3, AppendProperties, EventFacts
<1>5. Typed'
  <2>1. AirTypes'
    BY <1>1, <1>2, <1>4 DEF Typed, AirTypes
  <2>2. TransportTypes' /\ OpsTypes'
    BY <1>1, <1>2 DEF Typed, TransportTypes, OpsTypes
  <2>3. EngineTypes'
    BY <1>1, <1>2 DEF Typed, EngineTypes
  <2> QED
    BY <2>1, <2>2, <2>3 DEF Typed
<1>6. LinkInv'
  BY <1>1, <1>3, <1>4, EventFacts, Constants DEF LinkInv
<1>7. Activated'
  BY <1>1, <1>2, <1>3 DEF Activated
<1>8. Queues' /\ Counted'
  BY <1>1, <1>2, QueuesKept, SilentFacts DEF QueueSame
<1> QED
  BY <1>5, <1>6, <1>7, <1>8 DEF Inv

\* The connection ends: its event is the last.
LEMMA LoseLinkKeeps == ASSUME Inv, LoseLink PROVE Inv'
<1>1. /\ link # "none" /\ link' = "none" /\ events' = Append(events, DISC) /\ answer' = Silent
      /\ UNCHANGED <<beacon, connected, m_is_advertising, m_tear_down_in_progress, m_pkt_type, target,
                     left, counted, mp_final_packet, pool, st, size, received, overrun, timedOut, ops,
                     done, promised, end>>
  BY DEF LoseLink, Quiet, transport, presence, receipts, data, engine, image, storage, DISC
<1>2. /\ Typed /\ LinkInv /\ Activated /\ Queues /\ Counted
  BY DEF Inv
<1>3. /\ ~beacon /\ Len(events) <= MaxEvents /\ events \in Seq(AnyEvent) /\ MaxEvents \in Nat
      /\ Len(events) \in Nat
  BY <1>1, <1>2, Constants DEF LinkInv, Typed, AirTypes
<1>4. /\ events' \in Seq(AnyEvent) /\ Len(events') = Len(events) + 1
      /\ \A i \in 1 .. Len(events) : events'[i] = events[i]
      /\ events'[Len(events) + 1] = DISC
  BY <1>1, <1>3, AppendProperties, EventFacts
<1>5. Typed'
  <2>1. AirTypes'
    BY <1>1, <1>2, <1>4 DEF Typed, AirTypes
  <2>2. TransportTypes' /\ OpsTypes'
    BY <1>1, <1>2 DEF Typed, TransportTypes, OpsTypes
  <2>3. EngineTypes'
    BY <1>1, <1>2 DEF Typed, EngineTypes
  <2> QED
    BY <2>1, <2>2, <2>3 DEF Typed
<1>6. LinkInv'
  <2>1. ASSUME NEW i \in 1 .. Len(events'), events'[i] = DISC PROVE i = Len(events')
    <3>1. i \in 1 .. Len(events) \/ i = Len(events')
      BY <1>3, <1>4
    <3>2. i \notin 1 .. Len(events)
      BY <1>1, <1>2, <1>4, <2>1 DEF LinkInv
    <3> QED
      BY <3>1, <3>2
  <2>2. ASSUME m_is_advertising, ~m_tear_down_in_progress PROVE Len(events') > 0 /\ events'[1] = CONN
    <3>1. Len(events) > 0 /\ events[1] = CONN
      BY <1>2, <1>3, <2>2 DEF LinkInv
    <3>2. 1 \in 1 .. Len(events)
      BY <1>3, <3>1
    <3> QED
      BY <1>3, <1>4, <3>1, <3>2
  <2>3. Len(events') > 0 /\ events'[Len(events')] = DISC /\ Len(events') <= MaxEvents + 1
    BY <1>3, <1>4
  <2> QED
    BY <1>1, <1>3, <2>1, <2>2, <2>3 DEF LinkInv
<1>7. Activated'
  BY <1>1, <1>2 DEF Activated
<1>8. Queues' /\ Counted'
  BY <1>1, <1>2, QueuesKept, SilentFacts DEF QueueSame
<1> QED
  BY <1>5, <1>6, <1>7, <1>8 DEF Inv

\* The host writes, or the stack asks for something.
LEMMA HostWritesKeeps == ASSUME Inv, HostWrites PROVE Inv'
<1>1. PICK e \in Writes \cup {Event("REQUEST"), Event("GATT_TIMEOUT")} : events' = Append(events, e)
  BY DEF HostWrites
<1>2. /\ link = "up" /\ Len(events) < MaxEvents /\ answer' = Silent
      /\ UNCHANGED <<link, beacon, connected, m_is_advertising, m_tear_down_in_progress, m_pkt_type,
                     target, left, counted, mp_final_packet, pool, st, size, received, overrun,
                     timedOut, ops, done, promised, end>>
  BY DEF HostWrites, Quiet, transport, presence, receipts, data, engine, image, storage
<1>3. /\ Typed /\ LinkInv /\ Activated /\ Queues /\ Counted
  BY DEF Inv
<1>4. /\ ~beacon /\ events \in Seq(AnyEvent) /\ MaxEvents \in Nat /\ Len(events) \in Nat
      /\ e \in AnyEvent /\ e # DISC
  BY <1>2, <1>3, Constants, EventFacts DEF LinkInv, Typed, AirTypes
<1>5. /\ events' \in Seq(AnyEvent) /\ Len(events') = Len(events) + 1
      /\ \A i \in 1 .. Len(events) : events'[i] = events[i]
      /\ events'[Len(events) + 1] = e
  BY <1>1, <1>4, AppendProperties
<1>6. Typed'
  <2>1. AirTypes'
    BY <1>2, <1>3, <1>5 DEF Typed, AirTypes
  <2>2. TransportTypes' /\ OpsTypes'
    BY <1>2, <1>3 DEF Typed, TransportTypes, OpsTypes
  <2>3. EngineTypes'
    BY <1>2, <1>3 DEF Typed, EngineTypes
  <2> QED
    BY <2>1, <2>2, <2>3 DEF Typed
<1>7. LinkInv'
  <2>1. ASSUME NEW i \in 1 .. Len(events') PROVE events'[i] # DISC
    <3>1. i \in 1 .. Len(events) \/ i = Len(events) + 1
      BY <1>4, <1>5
    <3>2. \A j \in 1 .. Len(events) : events[j] # DISC
      BY <1>2, <1>3 DEF LinkInv
    <3> QED
      BY <1>4, <1>5, <3>1, <3>2
  <2>2. ASSUME m_is_advertising, ~m_tear_down_in_progress PROVE Len(events') > 0 /\ events'[1] = CONN
    <3>1. Len(events) > 0 /\ events[1] = CONN
      BY <1>3, <1>4, <2>2 DEF LinkInv
    <3>2. 1 \in 1 .. Len(events)
      BY <1>4, <3>1
    <3> QED
      BY <1>4, <1>5, <3>1, <3>2
  <2>3. Len(events') <= MaxEvents /\ Len(events') <= MaxEvents + 1
    BY <1>2, <1>4, <1>5
  <2> QED
    BY <1>2, <1>4, <2>1, <2>2, <2>3 DEF LinkInv
<1>8. Activated'
  BY <1>2, <1>3 DEF Activated
<1>9. Queues' /\ Counted'
  BY <1>2, <1>3, QueuesKept, SilentFacts DEF QueueSame
<1> QED
  BY <1>6, <1>7, <1>8, <1>9 DEF Inv

\* The flash is done with a command: only its event is new.
LEMMA FlashDoneKeeps == ASSUME Inv, FlashDone PROVE Inv'
<1>1. /\ ops # <<>> /\ done' = TRUE /\ answer' = Silent
      /\ UNCHANGED <<link, beacon, events, connected, m_is_advertising, m_tear_down_in_progress,
                     m_pkt_type, target, left, counted, mp_final_packet, pool, st, size, received,
                     overrun, timedOut, ops, promised, end>>
  BY DEF FlashDone, Quiet, air, transport, presence, receipts, data, engine, image
<1>2. /\ Typed /\ LinkInv /\ Activated /\ Queues /\ Counted
  BY DEF Inv
<1>3. Typed'
  <2>1. AirTypes' /\ TransportTypes'
    BY <1>1, <1>2 DEF Typed, AirTypes, TransportTypes
  <2>2. OpsTypes'
    BY <1>1, <1>2 DEF Typed, OpsTypes
  <2>3. EngineTypes'
    BY <1>1, <1>2 DEF Typed, EngineTypes
  <2> QED
    BY <2>1, <2>2, <2>3 DEF Typed
<1>4. LinkInv' /\ Activated'
  BY <1>1, <1>2 DEF LinkInv, Activated
<1>5. Queues' /\ Counted'
  BY <1>1, <1>2, QueuesKept, SilentFacts DEF QueueSame
<1> QED
  BY <1>3, <1>4, <1>5 DEF Inv

\* The timer runs out: the main loop has not seen it.
LEMMA ExpireKeeps == ASSUME Inv, Expire PROVE Inv'
<1>1. /\ answer' = Silent
      /\ UNCHANGED <<link, beacon, events, connected, m_is_advertising, m_tear_down_in_progress,
                     m_pkt_type, target, left, counted, mp_final_packet, pool, st, size, received,
                     overrun, timedOut, ops, done, promised, end>>
  BY DEF Expire, Quietly, air, transport, presence, receipts, data, engine, image, storage
<1>2. /\ Typed /\ LinkInv /\ Activated /\ Queues /\ Counted
  BY DEF Inv
<1>3. Typed'
  BY <1>1, <1>2 DEF Typed, AirTypes, TransportTypes, OpsTypes, EngineTypes
<1>4. LinkInv' /\ Activated'
  BY <1>1, <1>2 DEF LinkInv, Activated
<1>5. Queues' /\ Counted'
  BY <1>1, <1>2, QueuesKept, SilentFacts DEF QueueSame
<1> QED
  BY <1>3, <1>4, <1>5 DEF Inv

\* wait_for_events() returns.
LEMMA LeaveKeeps == ASSUME Inv, Leave PROVE Inv'
<1>1. /\ answer' = Silent /\ end' \in {"none", "app", "ota", "serial"}
      /\ UNCHANGED <<link, beacon, events, connected, m_is_advertising, m_tear_down_in_progress,
                     m_pkt_type, target, left, counted, mp_final_packet, pool, st, size, received,
                     overrun, timedOut, ops, done, promised>>
  BY DEF Leave, Quietly, air, transport, presence, receipts, data, engine, image, storage
<1>2. /\ Typed /\ LinkInv /\ Activated /\ Queues /\ Counted
  BY DEF Inv
<1>3. Typed'
  BY <1>1, <1>2 DEF Typed, AirTypes, TransportTypes, OpsTypes, EngineTypes
<1>4. LinkInv' /\ Activated'
  BY <1>1, <1>2 DEF LinkInv, Activated
<1>5. Queues' /\ Counted'
  BY <1>1, <1>2, QueuesKept, SilentFacts DEF QueueSame
<1> QED
  BY <1>3, <1>4, <1>5 DEF Inv

-----------------------------------------------------------------------------
(* proc_ble(): events that change nothing but the link and the transport.  *)

\* A handler that touches neither the commands nor the pool.
LEMMA EventKeeps ==
  ASSUME Inv, TransportTypes', QueueSame, events # <<>>, Head(events) # DISC,
         Head(events) = CONN => m_is_advertising' = FALSE,
         events' = Tail(events), beacon' = beacon,
         m_is_advertising' = m_is_advertising \/ m_is_advertising' = FALSE,
         \/ link' = link /\ m_tear_down_in_progress' = m_tear_down_in_progress
         \/ link = "up" /\ link' = "closing"
            /\ m_tear_down_in_progress' \in {m_tear_down_in_progress, TRUE},
         UNCHANGED <<counted, done>>, size' = size \/ size' \in Sizes, Counted'
  PROVE  Inv'
<1>1. Typed /\ AirTypes /\ LinkInv /\ Activated /\ Queues
  BY DEF Inv, Typed
<1>2. LinkInv' /\ events' \in Seq(AnyEvent)
  BY <1>1, TailLink
<1>3. AirTypes'
  BY <1>1, <1>2 DEF AirTypes
<1>4. EngineTypes' /\ OpsTypes'
  BY <1>1 DEF Typed, EngineTypes, OpsTypes, QueueSame
<1>5. Activated'
  BY <1>1 DEF Activated, QueueSame
<1>6. Queues'
  BY <1>1, QueuesKept
<1> QED
  BY <1>2, <1>3, <1>4, <1>5, <1>6 DEF Inv, Typed

\* What is fetched.
LEMMA Fetched ==
  ASSUME Inv, NEW kind, Fetch(kind)
  PROVE  /\ events # <<>> /\ Head(events) \in AnyEvent /\ Len(events) > 0
         /\ kind # "DISCONNECTED" => Head(events) # DISC
         /\ kind # "CONNECTED" => Head(events) # CONN
         /\ kind = "DISCONNECTED" => Head(events) = DISC
         /\ kind = "PACKET" => Length \in Sizes \cup {0}
<1>1. events # <<>> /\ Head(events)[1] = kind /\ events \in Seq(AnyEvent)
  BY DEF Fetch, Inv, Typed, AirTypes
<1>2. Head(events) \in AnyEvent /\ Len(events) > 0
  BY <1>1, HeadTailProperties, EmptySeq
<1> QED
  BY <1>1, <1>2, EventFacts DEF Length

\* The transport sees that there is a connection.
LEMMA ConnectedKeeps == ASSUME Inv, Connected PROVE Inv'
<1>1. CASE Crash
  BY <1>1, CrashKeeps
<1>2. CASE ~Crash
  <2>1. Fetch("CONNECTED")
    BY DEF Connected
  <2>2. /\ connected' = TRUE /\ m_is_advertising' = FALSE /\ answer' = Silent /\ events' = Tail(events)
        /\ UNCHANGED <<link, beacon, m_tear_down_in_progress, m_pkt_type, target, left, counted,
                       mp_final_packet, pool, st, size, received, overrun, timedOut, ops, done,
                       promised, end>>
    BY <1>2 DEF Connected, OnLink, Quietly, NotAdvertising, receipts, data, engine, image, storage
  <2>3. TransportTypes'
    BY <2>2 DEF Inv, Typed, TransportTypes
  <2>4. QueueSame /\ Counted'
    BY <2>2, SilentFacts DEF QueueSame
  <2>5. events # <<>> /\ Head(events) # DISC
    BY <2>1, Fetched
  <2> QED
    BY <2>2, <2>3, <2>4, <2>5, EventKeeps
<1> QED
  BY <1>1, <1>2

\* A request of the stack is answered.
LEMMA RequestKeeps == ASSUME Inv, Request PROVE Inv'
<1>1. CASE Crash
  BY <1>1, CrashKeeps
<1>2. CASE ~Crash
  <2>1. Fetch("REQUEST")
    BY DEF Request
  <2>2. /\ answer' = Silent /\ events' = Tail(events)
        /\ UNCHANGED <<link, beacon, connected, m_is_advertising, m_tear_down_in_progress, m_pkt_type,
                       target, left, counted, mp_final_packet, pool, st, size, received, overrun,
                       timedOut, ops, done, promised, end>>
    BY <1>2 DEF Request, OnLink, Quietly, transport, presence, receipts, data, engine, image, storage
  <2>3. TransportTypes'
    BY <2>2 DEF Inv, Typed, TransportTypes
  <2>4. QueueSame /\ Counted'
    BY <2>2, SilentFacts DEF QueueSame
  <2>5. events # <<>> /\ Head(events) # DISC /\ Head(events) # CONN
    BY <2>1, Fetched
  <2> QED
    BY <2>2, <2>3, <2>4, <2>5, EventKeeps
<1> QED
  BY <1>1, <1>2

\* A GATT timeout closes the link.
LEMMA GattTimeoutKeeps == ASSUME Inv, GattTimeout PROVE Inv'
<1>1. CASE Crash
  BY <1>1, CrashKeeps
<1>2. CASE ~Crash
  <2>1. Fetch("GATT_TIMEOUT")
    BY DEF GattTimeout
  <2>2. /\ answer' = Silent /\ events' = Tail(events) /\ link = "up" /\ link' = "closing"
        /\ UNCHANGED <<beacon, connected, m_is_advertising, m_tear_down_in_progress, m_pkt_type,
                       target, left, counted, mp_final_packet, pool, st, size, received, overrun,
                       timedOut, ops, done, promised, end>>
    BY <1>2 DEF GattTimeout, Disconnect, OnLink, Quietly, transport, presence, receipts, data, engine,
                image, storage
  <2>3. TransportTypes'
    BY <2>2 DEF Inv, Typed, TransportTypes
  <2>4. QueueSame /\ Counted'
    BY <2>2, SilentFacts DEF QueueSame
  <2>5. events # <<>> /\ Head(events) # DISC /\ Head(events) # CONN
    BY <2>1, Fetched
  <2> QED
    BY <2>2, <2>3, <2>4, <2>5, EventKeeps
<1> QED
  BY <1>1, <1>2

\* The host says what the packets to come are.
LEMMA PacketTypeKeeps == ASSUME Inv, PacketType PROVE Inv'
<1>1. CASE Crash
  BY <1>1, CrashKeeps
<1>2. CASE ~Crash
  <2>1. PICK c \in {"START", "INIT", "FW"} :
          Fetch(c) /\ OnLink(m_pkt_type' = c /\ Quietly
                            /\ UNCHANGED <<link, beacon, presence, receipts, data, engine, storage>>)
    BY DEF PacketType
  <2>2. /\ m_pkt_type' = c /\ answer' = Silent /\ events' = Tail(events)
        /\ UNCHANGED <<link, beacon, connected, m_is_advertising, m_tear_down_in_progress,
                       target, left, counted, mp_final_packet, pool, st, size, received, overrun,
                       timedOut, ops, done, promised, end>>
    BY <1>2, <2>1 DEF OnLink, Quietly, presence, receipts, data, engine, image, storage
  <2>3. TransportTypes'
    BY <2>2 DEF Inv, Typed, TransportTypes
  <2>4. QueueSame /\ Counted'
    BY <2>2, SilentFacts DEF QueueSame
  <2>5. events # <<>> /\ Head(events) # DISC /\ Head(events) # CONN
    BY <2>1, Fetched
  <2> QED
    BY <2>2, <2>3, <2>4, <2>5, EventKeeps
<1> QED
  BY <1>1, <1>2

\* Receipts are asked for, or no longer wanted.
LEMMA ReceiptsKeeps == ASSUME Inv, Receipts PROVE Inv'
<1>1. CASE Crash
  BY <1>1, CrashKeeps
<1>2. CASE ~Crash
  <2>1. PICK c \in {"NOTIF", "NOTIF_OFF"} :
          /\ Fetch(c)
          /\ OnLink(/\ target' = IF c = "NOTIF" THEN Target ELSE 0
                    /\ left' = IF c = "NOTIF" THEN Target ELSE left
                    /\ Quietly
                    /\ UNCHANGED <<link, beacon, presence, m_pkt_type, data, engine, storage>>)
    BY DEF Receipts
  <2>2. /\ answer' = Silent /\ events' = Tail(events)
        /\ target' = IF c = "NOTIF" THEN Target ELSE 0
        /\ left' = IF c = "NOTIF" THEN Target ELSE left
        /\ UNCHANGED <<link, beacon, connected, m_is_advertising, m_tear_down_in_progress, m_pkt_type,
                       counted, mp_final_packet, pool, st, size, received, overrun, timedOut, ops,
                       done, promised, end>>
    BY <1>2, <2>1 DEF OnLink, Quietly, presence, data, engine, image, storage
  <2>3. TransportTypes'
    BY <2>2, Constants DEF Inv, Typed, TransportTypes
  <2>4. QueueSame /\ Counted'
    BY <2>2, SilentFacts DEF QueueSame
  <2>5. events # <<>> /\ Head(events) # DISC /\ Head(events) # CONN
    BY <2>1, Fetched
  <2> QED
    BY <2>2, <2>3, <2>4, <2>5, EventKeeps
<1> QED
  BY <1>1, <1>2

\* The host asks how much was received: it is told what the engine has.
LEMMA SizeRequestKeeps == ASSUME Inv, SizeRequest PROVE Inv'
<1>1. CASE Crash
  BY <1>1, CrashKeeps
<1>2. CASE ~Crash
  <2>1. Fetch("SIZE_REQ")
    BY DEF SizeRequest
  <2>2. /\ answer' = <<"count", counted>> /\ events' = Tail(events)
        /\ UNCHANGED <<link, beacon, connected, m_is_advertising, m_tear_down_in_progress, m_pkt_type,
                       target, left, counted, mp_final_packet, pool, st, size, received, overrun,
                       timedOut, ops, done, promised, end>>
    BY <1>2 DEF SizeRequest, OnLink, transport, presence, receipts, data, engine, image, storage
  <2>3. TransportTypes'
    BY <2>2 DEF Inv, Typed, TransportTypes
  <2>4. QueueSame /\ Counted'
    BY <2>2 DEF QueueSame, Counted, Inv, Typed, EngineTypes
  <2>5. events # <<>> /\ Head(events) # DISC /\ Head(events) # CONN
    BY <2>1, Fetched
  <2> QED
    BY <2>2, <2>3, <2>4, <2>5, EventKeeps
<1> QED
  BY <1>1, <1>2

\* A packet of no known type is dropped.
LEMMA OtherPacketKeeps == ASSUME Inv, OtherPacket PROVE Inv'
<1>1. Fetch("PACKET")
  BY DEF OtherPacket, Packet
<1>2. /\ answer' = Silent /\ events' = Tail(events)
      /\ UNCHANGED <<link, beacon, connected, m_is_advertising, m_tear_down_in_progress, m_pkt_type,
                     target, left, counted, mp_final_packet, pool, st, size, received, overrun,
                     timedOut, ops, done, promised, end>>
  BY DEF OtherPacket, Unanswered, Quietly, transport, presence, receipts, data, engine, image, storage
<1>3. TransportTypes'
  BY <1>2 DEF Inv, Typed, TransportTypes
<1>4. QueueSame /\ Counted'
  BY <1>2, SilentFacts DEF QueueSame
<1>5. events # <<>> /\ Head(events) # DISC /\ Head(events) # CONN
  BY <1>1, Fetched
<1> QED
  BY <1>2, <1>3, <1>4, <1>5, EventKeeps

\* A data packet that no buffer is free for is refused.
LEMMA DataIgnoredKeeps == ASSUME Inv, DataIgnored PROVE Inv'
<1>1. CASE Crash
  BY <1>1, CrashKeeps
<1>2. CASE ~Crash
  <2>1. Fetch("PACKET")
    BY DEF DataIgnored, Packet
  <2>2. /\ answer' = Silent /\ events' = Tail(events)
        /\ UNCHANGED <<link, beacon, connected, m_is_advertising, m_tear_down_in_progress, m_pkt_type,
                       target, left, counted, mp_final_packet, pool, st, size, received, overrun,
                       timedOut, ops, done, promised, end>>
    BY <1>2 DEF DataIgnored, OnLink, Quietly, transport, presence, receipts, data, engine, image, storage
  <2>3. TransportTypes'
    BY <2>2 DEF Inv, Typed, TransportTypes
  <2>4. QueueSame /\ Counted'
    BY <2>2, SilentFacts DEF QueueSame
  <2>5. events # <<>> /\ Head(events) # DISC /\ Head(events) # CONN
    BY <2>1, Fetched
  <2> QED
    BY <2>2, <2>3, <2>4, <2>5, EventKeeps
<1> QED
  BY <1>1, <1>2

\* The last event of a connection: advertising starts again.
LEMMA DisconnectedKeeps == ASSUME Inv, Disconnected PROVE Inv'
<1>1. Fetch("DISCONNECTED")
  BY DEF Disconnected
<1>2. /\ events' = Tail(events) /\ connected' = FALSE /\ answer' = Silent
      /\ IF m_tear_down_in_progress THEN UNCHANGED <<beacon, m_is_advertising>> ELSE AdvertisingStart
      /\ UNCHANGED <<link, m_tear_down_in_progress, m_pkt_type, target, left, counted,
                     mp_final_packet, pool, st, size, received, overrun, timedOut, ops, done,
                     promised, end>>
  BY DEF Disconnected, Quietly, receipts, data, engine, image, storage
<1>3. /\ Typed /\ AirTypes /\ LinkInv /\ Activated /\ Queues /\ Counted
  BY DEF Inv, Typed
<1>4. events # <<>> /\ Head(events) = DISC /\ Len(events) > 0 /\ events \in Seq(AnyEvent)
  BY <1>1, <1>3, Fetched DEF AirTypes
<1>5. events[1] = DISC /\ Len(events) \in Nat
  BY <1>4, EmptySeq
<1>6. Len(events) = 1 /\ link = "none"
  <2>1. 1 \in 1 .. Len(events)
    BY <1>4, <1>5
  <2> QED
    BY <1>3, <1>5, <2>1 DEF LinkInv
<1>7. events' \in Seq(AnyEvent) /\ Len(events') = 0
  BY <1>2, <1>4, <1>6, HeadTailProperties
<1>8. ~m_tear_down_in_progress => beacon' = TRUE /\ m_is_advertising' = TRUE
  <2> SUFFICES ASSUME ~m_tear_down_in_progress PROVE beacon' = TRUE /\ m_is_advertising' = TRUE
    OBVIOUS
  <2>1. ~beacon
    BY <1>3, <1>6 DEF LinkInv
  <2>2. ~m_is_advertising
    BY <1>3, <1>5, <2>1, EventFacts DEF LinkInv
  <2> QED
    BY <1>2, <2>2 DEF AdvertisingStart
<1>9. m_tear_down_in_progress => ~beacon' /\ m_is_advertising' = m_is_advertising /\ beacon' = beacon
  BY <1>2, <1>3 DEF LinkInv
<1>10. LinkInv'
  BY <1>2, <1>3, <1>6, <1>7, <1>8, <1>9, Constants DEF LinkInv
<1>11. Typed'
  <2>1. AirTypes'
    BY <1>2, <1>3, <1>7, <1>8, <1>9 DEF AirTypes
  <2>2. TransportTypes' /\ OpsTypes'
    BY <1>2, <1>3 DEF Typed, TransportTypes, OpsTypes
  <2>3. EngineTypes'
    BY <1>2, <1>3 DEF Typed, EngineTypes
  <2> QED
    BY <2>1, <2>2, <2>3 DEF Typed
<1>12. Activated'
  BY <1>2, <1>3 DEF Activated
<1>13. Queues' /\ Counted'
  BY <1>2, <1>3, QueuesKept, SilentFacts DEF QueueSame
<1> QED
  BY <1>10, <1>11, <1>12, <1>13 DEF Inv

-----------------------------------------------------------------------------
(* proc_ble(): the engine's states.                                        *)

\* The parts of the invariant that an event which changes the engine's state
\* leaves alone.
LEMMA LinkKept ==
  ASSUME Inv, events # <<>>, Head(events) # DISC, Head(events) # CONN,
         events' = Tail(events), beacon' = beacon, m_is_advertising' = m_is_advertising,
         \/ link' = link /\ m_tear_down_in_progress' = m_tear_down_in_progress
         \/ link = "up" /\ link' = "closing"
            /\ m_tear_down_in_progress' \in {m_tear_down_in_progress, TRUE}
  PROVE  LinkInv' /\ AirTypes'
<1>1. Typed /\ AirTypes /\ LinkInv
  BY DEF Inv, Typed
<1>2. LinkInv' /\ events' \in Seq(AnyEvent)
  BY <1>1, TailLink
<1> QED
  BY <1>1, <1>2 DEF AirTypes

\* The commands and the pool's buffers that Queues speaks of.
LEMMA QueuesFacts ==
  ASSUME Inv
  PROVE  \E s \in 0 .. 2, h \in 0 .. N : Commands(s) /\ Chunks(s, h)
  BY DEF Inv, Queues

\* Numbers that the queues are described with are found.
LEMMA QueuesFrom ==
  ASSUME NEW s \in 0 .. 2, NEW h \in 0 .. N, Commands(s)', Chunks(s, h)'
  PROVE  Queues'
  BY DEF Queues

\* The queue of commands and the counts, as sequences and numbers.
LEMMA OpsFacts ==
  ASSUME Inv
  PROVE  /\ ops \in Seq(Op) /\ Len(ops) \in Nat /\ DOMAIN ops = 1 .. Len(ops)
         /\ ops = <<>> <=> Len(ops) = 0
         /\ received \in Nat /\ promised \in Nat /\ promised <= received
  BY EmptySeq, LenProperties DEF Inv, Typed, OpsTypes, EngineTypes

\* The init packet is complete: if it is accepted, data may come, and no buffer
\* is in use.
LEMMA InitDoneKeeps == ASSUME Inv, InitDone PROVE Inv'
<1>1. CASE Crash
  BY <1>1, CrashKeeps
<1>2. CASE ~Crash
  <2>1. Fetch("INIT_DONE")
    BY DEF InitDone
  <2>2. /\ m_pkt_type' = "INIT" /\ answer' = Silent /\ events' = Tail(events)
        /\ st' = st \/ (st = "RX_INIT" /\ st' = "RX_DATA")
        /\ UNCHANGED <<link, beacon, connected, m_is_advertising, m_tear_down_in_progress,
                       target, left, counted, mp_final_packet, pool, size, received, overrun,
                       timedOut, ops, done, promised, end>>
    BY <1>2 DEF InitDone, OnLink, Quietly, presence, receipts, data, storage
  <2>3. TransportTypes' /\ Counted' /\ answer'[1] # "done"
    BY <2>2, SilentFacts DEF Inv, Typed, TransportTypes
  <2>4. events # <<>> /\ Head(events) # DISC /\ Head(events) # CONN
    BY <2>1, Fetched
  <2>5. CASE st' = st
    <3>1. QueueSame
      BY <2>2, <2>3, <2>5 DEF QueueSame
    <3> QED
      BY <2>2, <2>3, <2>4, <3>1, EventKeeps
  <2>6. CASE st = "RX_INIT" /\ st' = "RX_DATA"
    <3>1. PICK s \in 0 .. 2, h \in 0 .. N : Commands(s) /\ Chunks(s, h)
      BY QueuesFacts
    <3>2. h = 0 /\ received = 0 /\ Len(ops) = s /\ pool.avail = 0 /\ ~(promised > 0)
      BY <2>6, <3>1, OpsFacts DEF Commands, Chunks, Early
    <3>3. Commands(s)'
      BY <2>2, <2>6, <3>1, <3>2 DEF Commands, Early
    <3>4. Chunks(s, h)'
      BY <2>2, <2>3, <2>6, <3>1, <3>2 DEF Chunks, Early
    <3>5. EngineTypes' /\ OpsTypes'
      BY <2>2, <2>6 DEF Inv, Typed, EngineTypes, OpsTypes, State
    <3>6. LinkInv' /\ AirTypes'
      BY <2>2, <2>4, LinkKept
    <3>7. Activated'
      BY <2>6 DEF Activated
    <3> QED
      BY <2>3, <3>1, <3>3, <3>4, <3>5, <3>6, <3>7, QueuesFrom DEF Inv, Typed
  <2> QED
    BY <2>2, <2>5, <2>6
<1> QED
  BY <1>1, <1>2

\* A part of the init packet.
LEMMA InitDataKeeps == ASSUME Inv, InitData PROVE Inv'
<1>1. CASE Crash
  BY <1>1, CrashKeeps
<1>2. CASE ~Crash
  <2>1. Fetch("PACKET")
    BY DEF InitData, Packet
  <2>2. /\ answer' = Silent /\ events' = Tail(events)
        /\ st' = st \/ (st = "RDY" /\ st' = "RX_INIT")
        /\ UNCHANGED <<link, beacon, connected, m_is_advertising, m_tear_down_in_progress, m_pkt_type,
                       target, left, counted, mp_final_packet, pool, size, received, overrun,
                       timedOut, ops, done, promised, end>>
    BY <1>2 DEF InitData, Unanswered, OnLink, Quietly, transport, presence, receipts, data, storage
  <2>3. TransportTypes' /\ Counted' /\ answer'[1] # "done"
    BY <2>2, SilentFacts DEF Inv, Typed, TransportTypes
  <2>4. events # <<>> /\ Head(events) # DISC /\ Head(events) # CONN
    BY <2>1, Fetched
  <2>5. CASE st' = st
    <3>1. QueueSame
      BY <2>2, <2>3, <2>5 DEF QueueSame
    <3> QED
      BY <2>2, <2>3, <2>4, <3>1, EventKeeps
  <2>6. CASE st = "RDY" /\ st' = "RX_INIT"
    <3>1. PICK s \in 0 .. 2, h \in 0 .. N : Commands(s) /\ Chunks(s, h)
      BY QueuesFacts
    <3>2. Commands(s)'
      BY <2>2, <2>6, <3>1 DEF Commands, Early
    <3>3. Chunks(s, h)'
      BY <2>2, <2>3, <2>6, <3>1 DEF Chunks, Early
    <3>4. EngineTypes' /\ OpsTypes'
      BY <2>2, <2>6 DEF Inv, Typed, EngineTypes, OpsTypes, State, Early
    <3>5. LinkInv' /\ AirTypes'
      BY <2>2, <2>4, LinkKept
    <3>6. Activated'
      BY <2>6 DEF Activated
    <3> QED
      BY <2>3, <3>1, <3>2, <3>3, <3>4, <3>5, <3>6, QueuesFrom DEF Inv, Typed
  <2> QED
    BY <2>2, <2>5, <2>6
<1> QED
  BY <1>1, <1>2

\* A start packet takes its size over whatever the state is.
LEMMA StartDataKeeps == ASSUME Inv, StartData PROVE Inv'
<1>1. CASE Crash
  BY <1>1, CrashKeeps
<1>2. CASE ~Crash
  <2>1. Fetch("PACKET")
    BY DEF StartData, Packet
  <2>2. /\ answer' = Silent /\ events' = Tail(events)
        /\ IF Length = 0 THEN UNCHANGED <<image, ops>> ELSE StartPacket(Length)
        /\ UNCHANGED <<link, beacon, connected, m_is_advertising, m_tear_down_in_progress, m_pkt_type,
                       target, left, counted, mp_final_packet, pool, timedOut, done, promised, end>>
    BY <1>2 DEF StartData, Unanswered, OnLink, Quietly, transport, presence, receipts, data
  <2>3. TransportTypes' /\ Counted' /\ answer'[1] # "done"
    BY <2>2, SilentFacts DEF Inv, Typed, TransportTypes
  <2>4. /\ events # <<>> /\ Head(events) # DISC /\ Head(events) # CONN
        /\ Length \in Sizes \cup {0}
    BY <2>1, Fetched
  <2>5. /\ received' = received /\ overrun' = overrun
        /\ \/ st' = st /\ ops' = ops /\ (size' = size \/ size' \in Sizes)
           \/ st = "IDLE" /\ st' = "PREPARING" /\ ops' = Append(ops, Clear) /\ size' \in Sizes
    BY <2>2, <2>4 DEF StartPacket, image
  <2>6. CASE st' = st /\ ops' = ops /\ (size' = size \/ size' \in Sizes)
    <3>1. QueueSame
      BY <2>2, <2>3, <2>5, <2>6 DEF QueueSame
    <3> QED
      BY <2>2, <2>3, <2>4, <2>6, <3>1, EventKeeps
  <2>7. CASE st = "IDLE" /\ st' = "PREPARING" /\ ops' = Append(ops, Clear) /\ size' \in Sizes
    <3>1. PICK s \in 0 .. 2, h \in 0 .. N : Commands(s) /\ Chunks(s, h)
      BY QueuesFacts
    <3>2. Clear \in Op /\ Clear.op = "clear"
      BY DEF Clear, Op
    <3>3. Len(ops) = 0 /\ s = 0 /\ h = 0 /\ received = 0 /\ ops \in Seq(Op)
      BY <2>7, <3>1, OpsFacts DEF Commands, Chunks, Early
    <3>4. ops' \in Seq(Op) /\ Len(ops') = 1 /\ ops'[1] = Clear /\ ops' # <<>>
      <4> DEFINE q == Append(ops, Clear)
      <4>1. q \in Seq(Op) /\ Len(q) = Len(ops) + 1 /\ q[Len(ops) + 1] = Clear /\ q # <<>>
        <5>1. Clear \in Op /\ ops \in Seq(Op)
          BY <3>2, <3>3
        <5> QED
          BY <5>1, AppendProperties
      <4>2. ops' = q
        BY <2>7
      <4> HIDE DEF q
      <4>3. Len(q) = 1 /\ q[1] = Clear
        BY <3>3, <4>1
      <4> QED
        BY <4>1, <4>2, <4>3
    <3>5. Commands(1)'
      BY <2>7, <3>2, <3>4, Constants DEF Commands, Early
    <3>6. Chunks(1, 0)'
      BY <2>2, <2>3, <2>5, <2>7, <3>1, <3>3 DEF Chunks, Early
    <3>7. EngineTypes'
      BY <2>2, <2>5, <2>7 DEF Inv, Typed, EngineTypes, State, Early
    <3>8. OpsTypes'
      BY <2>2, <3>4 DEF Inv, Typed, OpsTypes
    <3>9. LinkInv' /\ AirTypes'
      BY <2>2, <2>4, LinkKept
    <3>10. Activated'
      BY <2>7 DEF Activated
    <3>11. Queues'
      BY <3>3, <3>5, <3>6, Constants, QueuesFrom
    <3> QED
      BY <2>3, <3>7, <3>8, <3>9, <3>10, <3>11 DEF Inv, Typed
  <2> QED
    BY <2>5, <2>6, <2>7
<1> QED
  BY <1>1, <1>2

\* An image is only activated when no command is left.
LEMMA ValidateKeeps == ASSUME Inv, Validate PROVE Inv'
<1>1. CASE Crash
  BY <1>1, CrashKeeps
<1>2. CASE ~Crash
  <2>1. Fetch("VALIDATE")
    BY DEF Validate
  <2>2. /\ answer' = Silent /\ events' = Tail(events)
        /\ \/ st' = st
           \/ st = "RX_DATA" /\ received = size /\ st' = "VALIDATE"
           \/ st = "RX_DATA" /\ received = size /\ ~Pending /\ st' = "WAIT_4_ACTIVATE"
        /\ UNCHANGED <<link, beacon, connected, m_is_advertising, m_tear_down_in_progress, m_pkt_type,
                       target, left, counted, mp_final_packet, pool, size, received, overrun,
                       timedOut, ops, done, promised, end>>
    BY <1>2 DEF Validate, OnLink, Quietly, transport, presence, receipts, data, storage
  <2>3. TransportTypes' /\ Counted' /\ answer'[1] # "done"
    BY <2>2, SilentFacts DEF Inv, Typed, TransportTypes
  <2>4. events # <<>> /\ Head(events) # DISC /\ Head(events) # CONN
    BY <2>1, Fetched
  <2>5. CASE st' = st
    <3>1. QueueSame
      BY <2>2, <2>3, <2>5 DEF QueueSame
    <3> QED
      BY <2>2, <2>3, <2>4, <3>1, EventKeeps
  <2>6. CASE st = "RX_DATA" /\ received = size /\ st' \in {"VALIDATE", "WAIT_4_ACTIVATE"}
             /\ (st' = "WAIT_4_ACTIVATE" => ~Pending)
    <3>1. PICK s \in 0 .. 2, h \in 0 .. N : Commands(s) /\ Chunks(s, h)
      BY QueuesFacts
    <3>2. ~Pending => Len(ops) = s /\ ops = <<>>
      <4> SUFFICES ASSUME ~Pending PROVE Len(ops) = s /\ ops = <<>>
        OBVIOUS
      <4>1. Len(ops) = s
        <5> SUFFICES ASSUME Len(ops) # s PROVE FALSE
          OBVIOUS
        <5>1. s + 1 \in s + 1 .. Len(ops) /\ s + 1 \in DOMAIN ops
          BY <3>1, OpsFacts DEF Commands
        <5> QED
          BY <3>1, <5>1 DEF Commands, Pending
      <4>2. received \in Nat \ {0}
        BY <2>6, Constants DEF Inv, Typed, EngineTypes
      <4>3. s = 0
        BY <2>6, <3>1, <4>1, <4>2, OpsFacts DEF Chunks
      <4> QED
        BY <4>1, <4>3, OpsFacts
    <3>3. Commands(s)'
      BY <2>2, <2>6, <3>1, <3>2 DEF Commands, Early
    <3>4. Chunks(s, h)'
      BY <2>2, <2>3, <2>6, <3>1 DEF Chunks, Early
    <3>5. EngineTypes' /\ OpsTypes'
      BY <2>2, <2>6 DEF Inv, Typed, EngineTypes, OpsTypes, State, Early
    <3>6. LinkInv' /\ AirTypes'
      BY <2>2, <2>4, LinkKept
    <3>7. Activated'
      BY <2>2, <2>6, <3>2 DEF Activated
    <3> QED
      BY <2>3, <3>1, <3>3, <3>4, <3>5, <3>6, <3>7, QueuesFrom DEF Inv, Typed
  <2> QED
    BY <2>2, <2>5, <2>6
<1> QED
  BY <1>1, <1>2

-----------------------------------------------------------------------------
(* The end of a session, and the next one.                                 *)

\* The two commands of bootloader_settings_save().
LEMMA SaveFacts ==
  ASSUME NEW code \in {"VALID", "INVALID"}, NEW q \in Seq(Op)
  PROVE  LET n == Len(q) + 1
             t == q \o Save(code)
         IN  /\ t \in Seq(Op) /\ Len(t) = Len(q) + 2
             /\ \A i \in 1 .. Len(q) : t[i] = q[i]
             /\ t[Len(q) + 1].op = "sclear" /\ t[Len(q) + 2].op = "sstore"
<1> DEFINE w == Save(code)
           t == q \o w
<1>1. w \in Seq(Op) /\ Len(w) = 2 /\ w[1].op = "sclear" /\ w[2].op = "sstore"
  BY DEF Save, Op, Settings
<1> HIDE DEF w
<1>2. /\ t \in Seq(Op) /\ Len(t) = Len(q) + Len(w)
      /\ \A i \in 1 .. Len(t) : t[i] = IF i <= Len(q) THEN q[i] ELSE w[i - Len(q)]
  <2>1. q \in Seq(Op)
    OBVIOUS
  <2>2. /\ q \o w \in Seq(Op) /\ Len(q \o w) = Len(q) + Len(w)
        /\ \A i \in 1 .. Len(q) + Len(w) : (q \o w)[i] = IF i <= Len(q) THEN q[i] ELSE w[i - Len(q)]
    BY <1>1, <2>1, ConcatProperties
  <2> QED
    BY <2>2
<1>3. Len(q) \in Nat
  OBVIOUS
<1> HIDE DEF t
<1>4. t[Len(q) + 1] = w[1]
  <2>1. Len(q) + 1 \in 1 .. Len(t) /\ ~(Len(q) + 1 <= Len(q)) /\ (Len(q) + 1) - Len(q) = 1
    BY <1>1, <1>2, <1>3
  <2> QED
    BY <1>2, <2>1, Zenon
<1>5. t[Len(q) + 2] = w[2]
  <2>1. Len(q) + 2 \in 1 .. Len(t) /\ ~(Len(q) + 2 <= Len(q)) /\ (Len(q) + 2) - Len(q) = 2
    BY <1>1, <1>2, <1>3
  <2> QED
    BY <1>2, <2>1, Zenon
<1>6. \A i \in 1 .. Len(q) : t[i] = q[i]
  BY <1>1, <1>2, <1>3
<1> QED
  BY <1>1, <1>2, <1>3, <1>4, <1>5, <1>6 DEF t, w

\* The host activates the image or resets the device: the link is closed first.
LEMMA FinishKeeps == ASSUME Inv, Finish PROVE Inv'
<1>1. CASE Crash
  BY <1>1, CrashKeeps
<1>2. CASE ~Crash
  <2>1. PICK c \in {"ACTIVATE", "RESET"} : Fetch(c)
    BY DEF Finish
  <2>2. /\ answer' = Silent /\ events' = Tail(events) /\ link = "up" /\ link' = "closing"
        /\ m_tear_down_in_progress' = TRUE
        /\ \/ ops' = ops
           \/ st = "WAIT_4_ACTIVATE" /\ ops' = ops \o Save("VALID")
        /\ UNCHANGED <<beacon, connected, m_is_advertising, m_pkt_type, target, left, counted,
                       mp_final_packet, pool, st, size, received, overrun, timedOut, done, promised,
                       end>>
    BY <1>2 DEF Finish, Disconnect, OnLink, Quietly, receipts, data, image, flash
  <2>3. TransportTypes' /\ Counted' /\ answer'[1] # "done"
    BY <2>2, SilentFacts DEF Inv, Typed, TransportTypes
  <2>4. events # <<>> /\ Head(events) # DISC /\ Head(events) # CONN
    <3>1. c # "DISCONNECTED" /\ c # "CONNECTED"
      BY <2>1
    <3> QED
      BY <2>1, <3>1, Fetched
  <2>5. CASE ops' = ops
    <3>1. QueueSame
      BY <2>2, <2>3, <2>5 DEF QueueSame
    <3>2. m_tear_down_in_progress' \in {m_tear_down_in_progress, TRUE}
      BY <2>2
    <3> QED
      BY <2>2, <2>3, <2>4, <3>1, <3>2, EventKeeps
  <2>6. CASE st = "WAIT_4_ACTIVATE" /\ ops' = ops \o Save("VALID")
    <3>1. PICK s \in 0 .. 2, h \in 0 .. N : Commands(s) /\ Chunks(s, h)
      BY QueuesFacts
    <3>2. ops = <<>> /\ Len(ops) = 0 /\ ops \in Seq(Op)
      BY <2>2, <2>6, OpsFacts DEF Inv, Activated
    <3>3. /\ ops' \in Seq(Op) /\ Len(ops') = 2 /\ ops'[1].op = "sclear" /\ ops'[2].op = "sstore"
          /\ ops' # <<>>
      <4>1. /\ ops' \in Seq(Op) /\ Len(ops') = Len(ops) + 2
            /\ ops'[Len(ops) + 1].op = "sclear" /\ ops'[Len(ops) + 2].op = "sstore"
        BY <2>6, <3>2, SaveFacts
      <4> QED
        BY <3>2, <4>1
    <3>4. Commands(2)'
      BY <2>2, <2>6, <3>3, Constants DEF Commands, Early
    <3>5. Chunks(2, h)'
      BY <2>2, <2>3, <2>6, <3>1 DEF Chunks, Early
    <3>6. EngineTypes' /\ OpsTypes'
      BY <2>2, <3>3 DEF Inv, Typed, EngineTypes, OpsTypes
    <3>7. LinkInv' /\ AirTypes'
      BY <2>2, <2>4, LinkKept
    <3>8. Activated'
      BY <2>2 DEF Activated
    <3>9. Queues'
      BY <3>4, <3>5, QueuesFrom
    <3> QED
      BY <2>3, <3>6, <3>7, <3>8, <3>9 DEF Inv, Typed
  <2> QED
    BY <2>2, <2>5, <2>6
<1> QED
  BY <1>1, <1>2

\* The DFU timer: the transport closes the link, or stops advertising.
LEMMA TimeoutKeeps == ASSUME Inv, Timeout PROVE Inv'
<1>1. CASE Crash
  BY <1>1, CrashKeeps
<1>2. CASE ~Crash
  <2>1. /\ m_tear_down_in_progress' = TRUE /\ timedOut' = TRUE /\ answer' = Silent
        /\ \/ link = "up" /\ link' = "closing" /\ UNCHANGED <<beacon, m_is_advertising>>
           \/ beacon' = FALSE /\ m_is_advertising' = FALSE /\ link' = link
        /\ UNCHANGED <<events, connected, m_pkt_type, target, left, counted, mp_final_packet, pool, st,
                       size, received, overrun, ops, done, promised, end>>
    BY <1>2 DEF Timeout, Quietly, receipts, data, image, storage
  <2>2. Typed /\ LinkInv /\ Activated /\ Counted
    BY DEF Inv
  <2>3. Typed'
    <3>1. AirTypes'
      BY <2>1, <2>2 DEF Typed, AirTypes
    <3>2. TransportTypes' /\ OpsTypes'
      BY <2>1, <2>2 DEF Typed, TransportTypes, OpsTypes
    <3>3. EngineTypes'
      BY <2>1, <2>2 DEF Typed, EngineTypes
    <3> QED
      BY <3>1, <3>2, <3>3 DEF Typed
  <2>4. LinkInv'
    <3>1. ~beacon'
      BY <2>1, <2>2 DEF LinkInv
    <3>2. (link' # "none" => link # "none") /\ (link' = "none" <=> link = "none")
      BY <2>1
    <3> QED
      BY <2>1, <2>2, <3>1, <3>2 DEF LinkInv
  <2>5. Activated'
    BY <2>1, <2>2 DEF Activated
  <2>6. Counted' /\ answer'[1] # "done"
    BY <2>1, SilentFacts
  <2>7. PICK s \in 0 .. 2, h \in 0 .. N : Commands(s) /\ Chunks(s, h)
    BY QueuesFacts
  <2>8. Commands(s)'
    BY <2>1, <2>7 DEF Commands
  <2>9. Chunks(s, h)'
    BY <2>1, <2>6, <2>7 DEF Chunks, At
  <2> QED
    BY <2>3, <2>4, <2>5, <2>6, <2>8, <2>9, QueuesFrom DEF Inv
<1> QED
  BY <1>1, <1>2

\* A session begins as Init says.
LEMMA StartedInv == Started => Inv
<1> SUFFICES ASSUME Started PROVE Inv
  OBVIOUS
<1>1. /\ events \in Seq(AnyEvent) /\ Len(events) = 0 /\ ops \in Seq(Op) /\ Len(ops) = 0
  BY DEF Started
<1>2. Typed
  <2>1. AirTypes
    BY <1>1 DEF Started, AirTypes
  <2>2. TransportTypes
    <3>1. 0 \in 0 .. Target
      BY Constants
    <3> QED
      BY <3>1 DEF Started, TransportTypes
  <2>3. OpsTypes
    BY <1>1 DEF Started, OpsTypes
  <2>4. EngineTypes
    <3>1. PICK n \in Sizes : n \in Nat
      BY Constants
    <3>2. \E m \in Sizes : received <= m
      BY <3>1 DEF Started
    <3>3. st \in State /\ (mp_final_packet = NoBuffer <=> promised = 0)
      BY DEF Started, State, Early
    <3>4. /\ mp_final_packet \in Buffer \cup {NoBuffer} /\ overrun \in BOOLEAN /\ timedOut \in BOOLEAN
          /\ st = "IDLE" /\ size \in Sizes \cup {0}
      BY DEF Started
    <3>5. received \in Nat /\ counted = received /\ promised \in Nat /\ promised <= received
      BY DEF Started
    <3> QED
      BY <3>2, <3>3, <3>4, <3>5 DEF EngineTypes
  <2> QED
    BY <2>1, <2>2, <2>3, <2>4 DEF Typed
<1>3. LinkInv
  BY <1>1, Constants DEF Started, LinkInv
<1>4. Activated
  BY DEF Started, Activated
<1>5. Commands(0)
  BY <1>1, Constants DEF Started, Commands, Early
<1>6. Chunks(0, 0)
  <2>1. Ring(pool) /\ InUse(pool, 0) /\ pool.ready = 0 /\ pool.avail = 0
    BY OpenRing DEF Started, PoolOpen
  <2>2. answer[1] # "done"
    BY DEF Started, Silent
  <2> QED
    BY <2>1, <2>2 DEF Started, Chunks, Early
<1>7. Queues
  BY <1>5, <1>6, Constants DEF Queues
<1>8. Counted
  BY DEF Started, Counted, Silent
<1> QED
  BY <1>2, <1>3, <1>4, <1>7, <1>8 DEF Inv

\* The next session.
LEMMA RestartKeeps == Restart => Inv'
<1>1. Restart => Started'
  BY DEF Restart, Started
<1>2. Started => Inv
  BY StartedInv
<1> QED
  BY <1>1, <1>2, PTL

-----------------------------------------------------------------------------
(* proc_soc(): the first command is done.                                  *)

\* The command whose event is fetched, and those behind it.
LEMMA FirstCommand ==
  ASSUME Inv, NEW op, Soc(op)
  PROVE  /\ Len(ops) > 0 /\ Head(ops) = ops[1] /\ ops[1].op = op /\ ops # <<>>
         /\ Tail(ops) \in Seq(Op) /\ Len(Tail(ops)) = Len(ops) - 1
         /\ \A i \in 1 .. Len(ops) - 1 : Tail(ops)[i] = ops[i + 1]
<1>1. ops # <<>> /\ Head(ops).op = op /\ ops \in Seq(Op) /\ Len(ops) \in Nat
  BY OpsFacts DEF Soc, Inv, Typed, OpsTypes
<1>2. Len(ops) > 0 /\ Head(ops) = ops[1]
  BY <1>1, OpsFacts
<1>3. Tail(ops) \in Seq(Op) /\ Len(Tail(ops)) = Len(ops) - 1
  BY <1>1, <1>2
<1>4. \A i \in 1 .. Len(ops) - 1 : Tail(ops)[i] = ops[i + 1]
  BY <1>1, <1>2, <1>3
<1> QED
  BY <1>1, <1>2, <1>3, <1>4

\* The transport and the link know nothing of it.
LEMMA AirKept ==
  ASSUME Inv, UNCHANGED <<link, beacon, events, connected, m_is_advertising, m_tear_down_in_progress,
                          m_pkt_type, target, left, end>>
  PROVE  LinkInv' /\ AirTypes' /\ TransportTypes'
  BY DEF Inv, Typed, LinkInv, AirTypes, TransportTypes

\* dfu_cleared_func_app() saves the settings, and the engine is ready.
LEMMA ClearedKeeps == ASSUME Inv, Cleared PROVE Inv'
<1>1. CASE Crash
  BY <1>1, CrashKeeps
<1>2. CASE ~Crash
  <2>1. Soc("clear")
    BY DEF Cleared
  <2>2. /\ ops' = Tail(ops) \o Save("INVALID") /\ st' = "RDY" /\ answer' = Silent /\ done' = FALSE
        /\ UNCHANGED <<link, beacon, events, connected, m_is_advertising, m_tear_down_in_progress,
                       m_pkt_type, target, left, counted, mp_final_packet, pool, size, received,
                       overrun, timedOut, promised, end>>
    BY <1>2 DEF Cleared, Respond, Quietly, Finished, air, transport, presence, receipts, data
  <2>3. PICK s \in 0 .. 2, h \in 0 .. N : Commands(s) /\ Chunks(s, h)
    BY QueuesFacts
  <2>4. /\ Len(ops) > 0 /\ Len(ops) \in Nat /\ ops[1].op = "clear"
        /\ Tail(ops) \in Seq(Op) /\ Len(Tail(ops)) = Len(ops) - 1
    BY <2>1, FirstCommand, OpsFacts
  <2>5. st = "PREPARING" /\ Len(ops) = 1 /\ Len(Tail(ops)) = 0
    <3>1. 1 \in 1 .. s \/ 1 \in s + 1 .. Len(ops)
      BY <2>4
    <3> QED
      BY <2>3, <2>4, <3>1 DEF Commands
  <2>6. h = 0 /\ received = 0 /\ pool.avail = 0
    BY <2>3, <2>5 DEF Chunks, Early
  <2>7. /\ ops' \in Seq(Op) /\ Len(ops') = 2 /\ ops'[1].op = "sclear" /\ ops'[2].op = "sstore"
    <3>1. /\ ops' \in Seq(Op) /\ Len(ops') = Len(Tail(ops)) + 2
          /\ ops'[Len(Tail(ops)) + 1].op = "sclear" /\ ops'[Len(Tail(ops)) + 2].op = "sstore"
      BY <2>2, <2>4, SaveFacts
    <3>2. Len(Tail(ops)) + 1 = 1 /\ Len(Tail(ops)) + 2 = 2
      BY <2>5
    <3> QED
      BY <3>1, <3>2, Zenon
  <2>8. Commands(2)'
    BY <2>2, <2>7, Constants DEF Commands, Early
  <2>9. Counted' /\ answer'[1] # "done"
    BY <2>2, SilentFacts
  <2>10. Chunks(2, 0)'
    BY <2>2, <2>3, <2>6, <2>9 DEF Chunks, Early
  <2>11. EngineTypes' /\ OpsTypes'
    <3>1. OpsTypes'
      BY <2>2, <2>7 DEF OpsTypes
    <3>2. size \in Sizes
      BY <2>5 DEF Inv, Typed, EngineTypes
    <3> QED
      BY <2>2, <3>1, <3>2 DEF Inv, Typed, EngineTypes, State, Early
  <2>12. LinkInv' /\ AirTypes' /\ TransportTypes'
    BY <2>2, AirKept
  <2>13. Activated'
    BY <2>2 DEF Activated
  <2>14. Queues'
    BY <2>8, <2>10, Constants, QueuesFrom
  <2> QED
    BY <2>9, <2>11, <2>12, <2>13, <2>14 DEF Inv, Typed
<1> QED
  BY <1>1, <1>2

\* A command of the settings is done.
LEMMA SettingsDone ==
  ASSUME Inv, NEW op \in Settings, Soc(op), ops' \in Seq(Op), Len(ops') = Len(ops) - 1,
         \A i \in 1 .. Len(ops) - 1 : ops'[i] = ops[i + 1], done' = FALSE, answer' = Silent,
         UNCHANGED <<link, beacon, events, connected, m_is_advertising, m_tear_down_in_progress,
                     m_pkt_type, target, left, counted, mp_final_packet, pool, st, size, received,
                     overrun, timedOut, promised, end>>
  PROVE  Inv'
<1>1. PICK s \in 0 .. 2, h \in 0 .. N : Commands(s) /\ Chunks(s, h)
  BY QueuesFacts
<1>2. /\ Len(ops) > 0 /\ Len(ops) \in Nat /\ ops[1].op = op /\ op # "data" /\ op # "clear" /\ ops # <<>>
  BY FirstCommand, OpsFacts DEF Settings
<1>2a. /\ s \in 0 .. 2 /\ s <= Len(ops) /\ Len(ops) - s <= N /\ N \in Nat /\ s \in Nat
       /\ \A i \in 1 .. s : ops[i].op # "data"
       /\ \A i \in s + 1 .. Len(ops) : ops[i].op = "data" /\ ops[i].b \in Buffer
       /\ st \in Early \cup {"WAIT_4_ACTIVATE"} => Len(ops) = s
  BY <1>1, Constants DEF Commands
<1>4. st # "PREPARING" /\ st # "IDLE" /\ \A i \in 1 .. s : ops[i].op # "clear"
  <2>1. st # "PREPARING"
    BY <1>1, <1>2 DEF Commands
  <2> QED
    BY <1>1, <1>2, <2>1 DEF Commands
<1>3. s > 0 /\ s - 1 \in 0 .. 2
  <2>1. 1 \in 1 .. s \/ 1 \in s + 1 .. Len(ops)
    BY <1>2
  <2>2. 1 \notin s + 1 .. Len(ops)
    BY <1>2, <1>2a
  <2> QED
    BY <1>2a, <2>1, <2>2
<1>5. Commands(s - 1)'
  <2>1. s - 1 <= Len(ops') /\ Len(ops') - (s - 1) <= N /\ N \in Nat
    BY <1>2, <1>2a, <1>3
  <2>2. \A i \in 1 .. s - 1 : ops'[i].op # "data" /\ ops'[i].op # "clear"
    <3> TAKE i \in 1 .. s - 1
    <3>1. i + 1 \in 1 .. s /\ i \in 1 .. Len(ops) - 1
      BY <1>2, <1>2a
    <3> QED
      BY <1>2a, <1>4, <3>1
  <2>3. \A i \in (s - 1) + 1 .. Len(ops') : ops'[i].op = "data" /\ ops'[i].b \in Buffer
    <3> TAKE i \in (s - 1) + 1 .. Len(ops')
    <3>1. i + 1 \in s + 1 .. Len(ops) /\ i \in 1 .. Len(ops) - 1
      BY <1>2, <1>2a, <1>3
    <3> QED
      BY <1>2a, <3>1
  <2>4. st \in Early \cup {"WAIT_4_ACTIVATE"} => Len(ops') = s - 1
    BY <1>2a
  <2> QED
    BY <1>3, <1>4, <2>1, <2>2, <2>3, <2>4 DEF Commands
<1>6. Counted' /\ answer'[1] # "done"
  BY SilentFacts
<1>7. Chunks(s - 1, h)'
  <2>1. CASE st # "RX_DATA"
    BY <1>1, <1>6, <2>1 DEF Chunks
  <2>2. CASE st = "RX_DATA"
    <3>1. /\ h = Len(ops) - s /\ h <= received /\ h = received /\ received \in Nat /\ promised \in Nat
          /\ promised <= received /\ h \in Nat
      BY <1>1, <1>3, <2>2, OpsFacts DEF Chunks
    <3>2. \A k \in 1 .. h : ops'[(s - 1) + k] = ops[s + k]
      <4> TAKE k \in 1 .. h
      <4>1. (s - 1) + k \in 1 .. Len(ops) - 1 /\ ((s - 1) + k) + 1 = s + k
        BY <1>2, <1>2a, <1>3, <3>1
      <4> QED
        BY <4>1
    <3>3. h = Len(ops') - (s - 1)
      BY <1>2, <1>2a, <3>1
    <3>4. \A k \in 1 .. h : ops'[(s - 1) + k].b = At(pool, k - 1 - pool.avail)
      BY <1>1, <2>2, <3>2 DEF Chunks
    <3>5. promised > received - h => promised - (received - h) \in 1 .. h
      BY <3>1
    <3>6. promised > received - h => ops'[(s - 1) + (promised - (received - h))].b = mp_final_packet
      BY <1>1, <2>2, <3>2, <3>5 DEF Chunks
    <3> QED
      BY <1>1, <1>6, <2>2, <3>1, <3>3, <3>4, <3>6 DEF Chunks, At, Early
  <2> QED
    BY <2>1, <2>2
<1>8. EngineTypes' /\ OpsTypes'
  BY <1>2 DEF Inv, Typed, EngineTypes, OpsTypes
<1>9. LinkInv' /\ AirTypes' /\ TransportTypes'
  BY AirKept
<1>10. Activated'
  BY <1>2 DEF Inv, Activated
<1>11. Queues'
  BY <1>3, <1>5, <1>7, QueuesFrom
<1> QED
  BY <1>6, <1>8, <1>9, <1>10, <1>11 DEF Inv, Typed

\* The settings page is erased.
LEMMA SettingsErasedKeeps == ASSUME Inv, SettingsErased PROVE Inv'
<1>1. Soc("sclear") /\ "sclear" \in Settings
  BY DEF SettingsErased, Settings
<1>2. /\ ops' = Tail(ops) /\ done' = FALSE /\ answer' = Silent
      /\ UNCHANGED <<link, beacon, events, connected, m_is_advertising, m_tear_down_in_progress,
                     m_pkt_type, target, left, counted, mp_final_packet, pool, st, size, received,
                     overrun, timedOut, promised, end>>
  BY DEF SettingsErased, Quietly, Finished, air, transport, presence, receipts, data, engine, image
<1>3. /\ ops' \in Seq(Op) /\ Len(ops') = Len(ops) - 1
      /\ \A i \in 1 .. Len(ops) - 1 : ops'[i] = ops[i + 1]
  BY <1>1, <1>2, FirstCommand
<1> QED
  BY <1>1, <1>2, <1>3, SettingsDone

\* The settings are written.
LEMMA SettingsStoredKeeps == ASSUME Inv, SettingsStored PROVE Inv'
<1>1. Soc("sstore") /\ "sstore" \in Settings
  BY DEF SettingsStored, Settings
<1>2. /\ ops' = Tail(ops) /\ done' = FALSE /\ answer' = Silent
      /\ UNCHANGED <<link, beacon, events, connected, m_is_advertising, m_tear_down_in_progress,
                     m_pkt_type, target, left, counted, mp_final_packet, pool, st, size, received,
                     overrun, timedOut, promised, end>>
  BY DEF SettingsStored, Quietly, Finished, air, transport, presence, receipts, data, image
<1>3. /\ ops' \in Seq(Op) /\ Len(ops') = Len(ops) - 1
      /\ \A i \in 1 .. Len(ops) - 1 : ops'[i] = ops[i + 1]
  BY <1>1, <1>2, FirstCommand
<1> QED
  BY <1>1, <1>2, <1>3, SettingsDone

\* The chunk of a queued store is in flash while data come: its buffer, the
\* oldest in use, is consumed, and the answer to the last chunk is true.
LEMMA ChunkDone ==
  ASSUME Inv, Soc("data"), st = "RX_DATA",
         ops' \in Seq(Op), Len(ops') = Len(ops) - 1,
         \A i \in 1 .. Len(ops) - 1 : ops'[i] = ops[i + 1],
         pool' = Consumed(pool, ops[1].b),
         answer' = Silent \/ (answer' = Event("done") /\ mp_final_packet = ops[1].b),
         UNCHANGED <<mp_final_packet, st, received, overrun, timedOut, promised>>
  PROVE  Queues'
<1>1. PICK s \in 0 .. 2, h \in 0 .. N : Commands(s) /\ Chunks(s, h)
  BY QueuesFacts
<1>2. /\ Len(ops) > 0 /\ Len(ops) \in Nat /\ ops[1].op = "data" /\ N \in Nat /\ N > 0
      /\ received \in Nat /\ promised \in Nat /\ promised <= received
      /\ mp_final_packet = NoBuffer <=> promised = 0
  BY FirstCommand, OpsFacts, Constants DEF Inv, Typed, EngineTypes
<1>3. s = 0
  <2> SUFFICES ASSUME s # 0 PROVE FALSE
    OBVIOUS
  <2>1. 1 \in 1 .. s
    OBVIOUS
  <2> QED
    BY <1>1, <1>2, <2>1 DEF Commands
<1>4. /\ Len(ops) <= N
      /\ \A i \in 1 .. Len(ops) : ops[i].op = "data" /\ ops[i].b \in Buffer
  BY <1>1, <1>2, <1>3 DEF Commands
<1>5. /\ Ring(pool) /\ pool.ready = 0 /\ InUse(pool, h) /\ h = Len(ops) /\ h <= received
      /\ \A k \in 1 .. h : ops[k].b = At(pool, k - 1 - pool.avail)
      /\ ~overrun /\ ~timedOut => pool.avail = h
      /\ promised > received - h => ops[promised - (received - h)].b = mp_final_packet
  <2>1. \A k \in 1 .. h : ops[s + k].b = At(pool, k - 1 - pool.avail) /\ s + k = k
    BY <1>1, <1>3 DEF Chunks
  <2>2. promised > received - h => s + (promised - (received - h)) = promised - (received - h)
    BY <1>2, <1>3
  <2> QED
    BY <1>1, <1>2, <1>3, <2>1, <2>2 DEF Chunks
<1>6. /\ h > 0 /\ h \in Nat /\ pool.avail \in Nat /\ h <= pool.avail /\ pool.avail <= N /\ pool.read \in Buffer
  BY <1>2, <1>5 DEF InUse, Ring, Pool
<1>7. ops[1].b = At(pool, -pool.avail) /\ ops[1].b \in Buffer
  <2>1. 1 \in 1 .. h /\ 1 - 1 - pool.avail = -pool.avail
    BY <1>6
  <2> QED
    BY <1>4, <1>5, <2>1
<1>8. /\ Ring(pool') /\ InUse(pool', h - 1) /\ pool'.ready = 0 /\ pool'.read = pool.read
      /\ pool'.avail = IF h = 1 THEN 0 ELSE pool.avail - 1
  <2> DEFINE q == Consumed(pool, At(pool, -pool.avail))
  <2>1. /\ Ring(q) /\ InUse(q, h - 1) /\ q.ready = pool.ready /\ q.read = pool.read
        /\ q.avail = IF h = 1 THEN 0 ELSE pool.avail - 1
    BY <1>5, <1>6, ConsumedOldest
  <2>2. pool' = q
    BY <1>7
  <2> HIDE DEF q
  <2> QED
    BY <1>5, <2>1, <2>2
<1>9. Commands(0)'
  <2>1. \A i \in 0 + 1 .. Len(ops') : ops'[i].op = "data" /\ ops'[i].b \in Buffer
    BY <1>2, <1>4
  <2> QED
    BY <1>2, <1>4, <2>1 DEF Commands, Early
<1>10. \A k \in 1 .. h - 1 : ops'[0 + k].b = At(pool', k - 1 - pool'.avail)
  <2> TAKE k \in 1 .. h - 1
  <2>1. k + 1 \in 1 .. h /\ k \in 1 .. Len(ops) - 1 /\ 0 + k = k /\ h # 1
    BY <1>5, <1>6
  <2>2. ops'[k].b = At(pool, (k + 1) - 1 - pool.avail)
    BY <1>5, <2>1
  <2>3. pool'.avail = pool.avail - 1
    BY <1>8, <2>1
  <2>4. k - 1 - pool'.avail = (k + 1) - 1 - pool.avail
    BY <1>6, <2>3
  <2> QED
    BY <1>8, <2>1, <2>2, <2>4 DEF At
<1>11. ~overrun /\ ~timedOut => pool'.avail = h - 1
  BY <1>5, <1>6, <1>8
<1>12. promised > received - (h - 1) =>
         ops'[0 + (promised - (received - (h - 1)))].b = mp_final_packet
  <2> SUFFICES ASSUME promised > received - (h - 1)
               PROVE  ops'[0 + (promised - (received - (h - 1)))].b = mp_final_packet
    OBVIOUS
  <2> DEFINE i == 0 + (promised - (received - (h - 1)))
  <2>1. i \in 1 .. Len(ops) - 1 /\ i + 1 = promised - (received - h) /\ promised > received - h
    BY <1>2, <1>5, <1>6
  <2> HIDE DEF i
  <2>2. ops'[i] = ops[i + 1]
    BY <2>1
  <2>3. ops'[i].b = mp_final_packet
    BY <1>5, <2>1, <2>2
  <2> QED
    BY <2>3 DEF i
<1>13. ASSUME answer'[1] = "done" PROVE promised > 0 /\ promised <= received - (h - 1)
  <2>1. mp_final_packet = ops[1].b
    BY <1>13 DEF Silent
  <2>2. promised > 0
    BY <1>2, <1>7, <2>1, Constants
  <2>3. ASSUME promised > received - (h - 1) PROVE FALSE
    <3> DEFINE j == promised - (received - h)
    <3>1. j \in 2 .. h /\ promised > received - h
      BY <1>2, <1>5, <1>6, <2>3
    <3>2. ops[j].b = mp_final_packet
      BY <1>5, <3>1
    <3> HIDE DEF j
    <3>3. ops[j].b = At(pool, j - 1 - pool.avail)
      BY <1>5, <1>6, <3>1
    <3>4. At(pool, j - 1 - pool.avail) = At(pool, -pool.avail)
      BY <1>7, <2>1, <3>2, <3>3
    <3>5. /\ -pool.avail \in -N .. N /\ j - 1 - pool.avail \in -N .. N
          /\ -pool.avail < j - 1 - pool.avail /\ (j - 1 - pool.avail) - (-pool.avail) < N
      BY <1>2, <1>6, <3>1
    <3>6. Wrap(pool.read + (-pool.avail)) # Wrap(pool.read + (j - 1 - pool.avail))
      BY <1>6, <3>5, Apart
    <3> QED
      BY <3>4, <3>6 DEF At
  <2> QED
    BY <1>2, <1>6, <2>2, <2>3
<1>14. h - 1 \in 0 .. N /\ h - 1 = Len(ops') - 0 /\ h - 1 <= received
  BY <1>2, <1>4, <1>5, <1>6
<1>15. h - 1 = 0 => pool'.avail = 0
  BY <1>6, <1>8
<1>16. Chunks(0, h - 1)'
  BY <1>8, <1>10, <1>11, <1>12, <1>13, <1>14, <1>15 DEF Chunks, Early
<1> QED
  BY <1>9, <1>14, <1>16, Constants, QueuesFrom

\* dfu_cb_handler() for a store: no consume of it fails.
LEMMA StoredKeeps == ASSUME Inv, Stored PROVE Inv'
<1>1. CASE Crash
  BY <1>1, CrashKeeps
<1>2. CASE ~Crash
  <2>1. Soc("data")
    BY DEF Stored
  <2>2. /\ ops' = Tail(ops) /\ done' = FALSE
        /\ pool' = IF st = "RX_DATA" THEN Consumed(pool, Head(ops).b) ELSE pool
        /\ answer' = IF st = "RX_DATA" /\ IsFinal(Head(ops).b) THEN Event("done") ELSE Silent
        /\ UNCHANGED <<link, beacon, events, connected, m_is_advertising, m_tear_down_in_progress,
                       m_pkt_type, target, left, counted, mp_final_packet, st, size, received,
                       overrun, timedOut, promised, end>>
    BY <1>2 DEF Stored, Respond, Finished, air, presence, receipts, engine, image
  <2>3. /\ Len(ops) > 0 /\ Len(ops) \in Nat /\ Head(ops) = ops[1] /\ ops[1].op = "data" /\ ops # <<>>
    BY <2>1, FirstCommand, OpsFacts
  <2>4. /\ ops' \in Seq(Op) /\ Len(ops') = Len(ops) - 1
        /\ \A i \in 1 .. Len(ops) - 1 : ops'[i] = ops[i + 1]
    BY <2>1, <2>2, FirstCommand
  <2>5. Queues'
    <3>1. CASE st = "RX_DATA"
      <4>1. /\ pool' = Consumed(pool, ops[1].b)
            /\ answer' = Silent \/ (answer' = Event("done") /\ mp_final_packet = ops[1].b)
        BY <2>2, <2>3, <3>1 DEF IsFinal
      <4> QED
        BY <2>1, <2>2, <2>4, <3>1, <4>1, ChunkDone
    <3>2. CASE st # "RX_DATA"
      <4>1. PICK s \in 0 .. 2, h \in 0 .. N : Commands(s) /\ Chunks(s, h)
        BY QueuesFacts
      <4>2. s = 0
        <5> SUFFICES ASSUME s # 0 PROVE FALSE
          OBVIOUS
        <5>1. 1 \in 1 .. s
          OBVIOUS
        <5> QED
          BY <2>3, <4>1, <5>1 DEF Commands
      <4>3. st \notin Early \cup {"WAIT_4_ACTIVATE"}
        BY <2>3, <4>1, <4>2 DEF Commands
      <4>4. /\ Len(ops) <= N /\ N \in Nat
            /\ \A i \in 1 .. Len(ops) : ops[i].op = "data" /\ ops[i].b \in Buffer
        BY <2>3, <4>1, <4>2, Constants DEF Commands
      <4> HIDE <2>2
      <4>5. \A i \in 0 + 1 .. Len(ops') : ops'[i].op = "data" /\ ops'[i].b \in Buffer
        BY <2>3, <2>4, <4>4
      <4>6. st' = st /\ pool' = pool /\ answer' = Silent /\ received' = received
        BY <2>2, <3>2
      <4>7. Commands(0)'
        BY <2>3, <2>4, <4>3, <4>4, <4>5, <4>6 DEF Commands, Early
      <4>8. Chunks(0, h)'
        BY <3>2, <4>1, <4>3, <4>6 DEF Chunks, Silent
      <4> QED
        BY <4>7, <4>8, QueuesFrom, Constants
    <3> QED
      BY <3>1, <3>2
  <2>6. Counted'
    BY <2>2 DEF Counted, Silent, Event
  <2>7. EngineTypes' /\ OpsTypes'
    BY <2>2, <2>4 DEF Inv, Typed, EngineTypes, OpsTypes
  <2>8. LinkInv' /\ AirTypes' /\ TransportTypes'
    BY <2>2, AirKept
  <2>9. Activated'
    BY <2>2, <2>3 DEF Inv, Activated
  <2> QED
    BY <2>5, <2>6, <2>7, <2>8, <2>9 DEF Inv, Typed
<1> QED
  BY <1>1, <1>2

-----------------------------------------------------------------------------
(* app_data_process().                                                     *)

\* The engine refuses a chunk: the pool is as before but for the places that
\* cannot be released yet.
LEMMA DataRefusedKeeps == ASSUME Inv, DataRefused PROVE Inv'
<1>1. CASE Crash
  BY <1>1, CrashKeeps
<1>2. CASE ~Crash
  <2>1. Fetch("PACKET") /\ CanProduce(pool) /\ ~Accepts
    BY DEF DataRefused, Packet
  <2>2. /\ answer' = Silent /\ events' = Tail(events)
        /\ pool' = IF CanConsume(Taken, pool.write) THEN Consumed(Taken, pool.write) ELSE Taken
        /\ overrun' = (overrun \/ Overruns)
        /\ UNCHANGED <<link, beacon, connected, m_is_advertising, m_tear_down_in_progress, m_pkt_type,
                       target, left, counted, mp_final_packet, st, size, received, timedOut, ops,
                       done, promised, end>>
    BY <1>2 DEF DataRefused, OnLink, Quietly, presence, receipts, storage
  <2>3. TransportTypes' /\ Counted' /\ answer'[1] # "done"
    BY <2>2, SilentFacts DEF Inv, Typed, TransportTypes
  <2>4. events # <<>> /\ Head(events) # DISC /\ Head(events) # CONN
    BY <2>1, Fetched
  <2>5. PICK s \in 0 .. 2, h \in 0 .. N : Commands(s) /\ Chunks(s, h)
    BY QueuesFacts
  <2>6. Ring(pool) /\ pool.ready = 0 /\ InUse(pool, h) /\ (h = 0 => pool.avail = 0)
    BY <2>5 DEF Chunks
  <2>7. /\ Ring(pool') /\ pool'.ready = 0 /\ InUse(pool', h) /\ (h = 0 => pool'.avail = 0)
        /\ \A k \in 0 .. h - 1 : At(pool', k - pool'.avail) = At(pool, k - pool.avail)
    <3> DEFINE q == Consumed(Extracted(Produced(pool)), pool.write)
    <3>1. /\ CanConsume(Extracted(Produced(pool)), pool.write) /\ Ring(q) /\ q.ready = 0
          /\ InUse(q, h) /\ (h = 0 => q.avail = 0)
          /\ \A k \in 0 .. h - 1 : At(q, k - q.avail) = At(pool, k - pool.avail)
      BY <2>1, <2>6, ConsumedNewest
    <3>2. pool' = q
      BY <2>2, <3>1 DEF Taken
    <3> HIDE DEF q
    <3> QED
      BY <3>1, <3>2
  <2>8. Commands(s)'
    BY <2>2, <2>5 DEF Commands
  <2>9. st = "RX_DATA" => \A k \in 1 .. h : ops[s + k].b = At(pool', k - 1 - pool'.avail)
    <3> SUFFICES ASSUME st = "RX_DATA", NEW k \in 1 .. h
                 PROVE  ops[s + k].b = At(pool', k - 1 - pool'.avail)
      OBVIOUS
    <3>1. ops[s + k].b = At(pool, k - 1 - pool.avail)
      BY <2>5 DEF Chunks
    <3>2. k - 1 \in 0 .. h - 1
      OBVIOUS
    <3> QED
      BY <2>7, <3>1, <3>2
  <2>10. st = "RX_DATA" => overrun' \/ timedOut'
    <3> SUFFICES ASSUME st = "RX_DATA", ~overrun, ~timedOut PROVE Overruns
      BY <2>2 DEF Inv, Typed, EngineTypes
    <3>1. received \in Nat /\ size \in Nat
      BY Constants DEF Inv, Typed, EngineTypes
    <3> QED
      BY <2>1, <3>1 DEF Accepts, Overruns
  <2>11. Chunks(s, h)'
    <3>1. st' = st /\ received' = received /\ ops' = ops /\ promised' = promised
          /\ mp_final_packet' = mp_final_packet
      BY <2>2
    <3> QED
      BY <2>3, <2>5, <2>7, <2>9, <2>10, <3>1 DEF Chunks
  <2>12. EngineTypes' /\ OpsTypes'
    <3>1. overrun' \in BOOLEAN
      BY <2>2 DEF Inv, Typed, EngineTypes, Overruns
    <3> QED
      BY <2>2, <3>1 DEF Inv, Typed, EngineTypes, OpsTypes
  <2>13. LinkInv' /\ AirTypes'
    BY <2>2, <2>4, LinkKept
  <2>14. Activated'
    BY <2>2 DEF Inv, Activated
  <2> QED
    BY <2>3, <2>5, <2>8, <2>11, <2>12, <2>13, <2>14, QueuesFrom DEF Inv, Typed
<1> QED
  BY <1>1, <1>2

\* The engine stores a chunk: its buffer is the newest in use, its store the
\* last command.
LEMMA ChunkStored ==
  ASSUME Inv, CanProduce(pool), Accepts,
         pool' = Taken, ops' \in Seq(Op), Len(ops') = Len(ops) + 1,
         \A i \in 1 .. Len(ops) : ops'[i] = ops[i], ops'[Len(ops) + 1] = Store(pool.write),
         received' = received + 1,
         \/ mp_final_packet' = pool.write /\ promised' = received + 1
         \/ mp_final_packet' = mp_final_packet /\ promised' = promised,
         answer'[1] # "done", UNCHANGED <<st, overrun, timedOut>>
  PROVE  Queues' /\ pool.write \in Buffer
<1>1. PICK s \in 0 .. 2, h \in 0 .. N : Commands(s) /\ Chunks(s, h)
  BY QueuesFacts
<1>2. /\ Len(ops) \in Nat /\ N \in Nat /\ N > 0 /\ received \in Nat /\ promised \in Nat
      /\ promised <= received /\ st = "RX_DATA" /\ ~overrun /\ ~timedOut /\ s \in Nat /\ h \in Nat
  BY OpsFacts, Constants DEF Accepts
<1>3. /\ s <= Len(ops) /\ \A i \in 1 .. s : ops[i].op # "data" /\ ops[i].op # "clear"
      /\ \A i \in s + 1 .. Len(ops) : ops[i].op = "data" /\ ops[i].b \in Buffer
  BY <1>1, <1>2 DEF Commands
<1>4. /\ Ring(pool) /\ pool.ready = 0 /\ InUse(pool, pool.avail) /\ pool.avail = h
      /\ h = Len(ops) - s /\ h <= received /\ (s > 0 => h = received)
      /\ \A k \in 1 .. h : ops[s + k].b = At(pool, k - 1 - h)
      /\ promised > received - h => ops[s + (promised - (received - h))].b = mp_final_packet
  BY <1>1, <1>2 DEF Chunks
<1> DEFINE m == Produced(pool)
           q == Extracted(m)
<1>5. /\ Ring(m) /\ m.ready = pool.ready + 1 /\ m.avail = pool.avail /\ m.read = pool.read
      /\ pool.write = At(pool, pool.ready) /\ pool.write \in Buffer /\ pool.ready + pool.avail < N
  BY <1>4, ProducedFields
<1>6. InUse(m, m.avail)
  BY <1>4, <1>5, ProducedInUse
<1>7. m.ready = 1 /\ m.avail = h /\ m.read = pool.read /\ h < N /\ pool.write = At(pool, 0)
  BY <1>2, <1>4, <1>5
<1> HIDE DEF m
<1>8. CanExtract(m)
  BY <1>7 DEF CanExtract
<1>9. /\ Ring(q) /\ q.ready = 0 /\ q.avail = h + 1 /\ q.read = Wrap(pool.read + 1)
      /\ InUse(q, q.avail)
  <2>1. Ring(q) /\ q.ready = m.ready - 1 /\ q.avail = m.avail + 1 /\ q.read = Wrap(m.read + 1)
    BY <1>5, <1>8, ExtractedFields
  <2>2. InUse(q, q.avail)
    BY <1>5, <1>6, <1>8, ExtractedInUse
  <2> HIDE DEF q
  <2> QED
    BY <1>7, <2>1, <2>2
<1>10. pool' = q
  BY DEF Taken, m
<1> HIDE DEF q
<1>11. /\ Ring(pool') /\ pool'.ready = 0 /\ InUse(pool', h + 1) /\ pool'.avail = h + 1
       /\ pool'.read = Wrap(pool.read + 1)
  BY <1>9, <1>10
<1>12. \A j \in -N .. N - 1 : At(pool', j) = At(pool, j + 1)
  <2>1. pool.read \in Buffer
    BY <1>4 DEF Ring, Pool
  <2> QED
    BY <1>11, <2>1, Steps DEF At
<1>13. ops'[s + (h + 1)] = Store(pool.write)
  <2>1. s + (h + 1) = Len(ops) + 1
    BY <1>2, <1>4
  <2> QED
    BY <2>1
<1>14. Commands(s)'
  <2>1. /\ s <= Len(ops') /\ Len(ops') - s <= N
    BY <1>2, <1>4, <1>7
  <2>2. \A i \in 1 .. s : ops'[i].op # "data" /\ ops'[i].op # "clear"
    BY <1>2, <1>3
  <2>3. \A i \in s + 1 .. Len(ops') : ops'[i].op = "data" /\ ops'[i].b \in Buffer
    <3> TAKE i \in s + 1 .. Len(ops')
    <3>1. i \in s + 1 .. Len(ops) \/ i = Len(ops) + 1
      BY <1>2
    <3>2. CASE i \in s + 1 .. Len(ops)
      BY <1>2, <1>3, <3>2
    <3>3. CASE i = Len(ops) + 1
      BY <1>5, <3>3 DEF Store
    <3> QED
      BY <3>1, <3>2, <3>3
  <2> QED
    BY <1>2, <2>1, <2>2, <2>3 DEF Commands, Early
<1>15. \A k \in 1 .. h + 1 : ops'[s + k].b = At(pool', k - 1 - pool'.avail)
  <2> TAKE k \in 1 .. h + 1
  <2>1. k \in Int /\ k - 1 - (h + 1) \in -N .. N - 1 /\ (k - 1 - (h + 1)) + 1 = k - 1 - h
    BY <1>2, <1>7
  <2>2. At(pool', k - 1 - pool'.avail) = At(pool, k - 1 - h)
    <3>1. k - 1 - pool'.avail = k - 1 - (h + 1)
      BY <1>11
    <3>2. At(pool', k - 1 - (h + 1)) = At(pool, (k - 1 - (h + 1)) + 1)
      BY <1>12, <2>1
    <3> QED
      BY <2>1, <3>1, <3>2
  <2>3. CASE k = h + 1
    <3>1. k - 1 - h = 0
      BY <1>2, <2>3
    <3> QED
      BY <1>7, <1>13, <2>2, <2>3, <3>1 DEF Store
  <2>4. CASE k # h + 1
    <3>1. k \in 1 .. h
      BY <1>2, <2>4
    <3>2. s + k \in 1 .. Len(ops)
      <4>1. Len(ops) = s + h /\ s \in Nat /\ h \in Nat
        BY <1>2, <1>4
      <4>2. k \in Int /\ 1 <= k /\ k <= h
        BY <1>2, <3>1
      <4> HIDE <1>4
      <4> QED
        BY <4>1, <4>2
    <3> QED
      BY <1>4, <2>2, <3>1, <3>2
  <2> QED
    BY <2>3, <2>4
<1>16. promised' > received' - (h + 1) =>
         ops'[s + (promised' - (received' - (h + 1)))].b = mp_final_packet'
  <2>1. CASE mp_final_packet' = pool.write /\ promised' = received + 1
    <3>1. s + (promised' - (received' - (h + 1))) = s + (h + 1)
      BY <1>2, <2>1
    <3> QED
      BY <1>13, <2>1, <3>1 DEF Store
  <2>2. CASE mp_final_packet' = mp_final_packet /\ promised' = promised
    <3> SUFFICES ASSUME promised' > received' - (h + 1)
                 PROVE  ops'[s + (promised' - (received' - (h + 1)))].b = mp_final_packet'
      OBVIOUS
    <3> DEFINE i == s + (promised - (received - h))
    <3>1. /\ s + (promised' - (received' - (h + 1))) = i /\ i \in 1 .. Len(ops)
          /\ promised > received - h
      BY <1>2, <1>4, <2>2
    <3>2. ops[i].b = mp_final_packet
      BY <1>4, <3>1
    <3> HIDE DEF i
    <3> QED
      BY <2>2, <3>1, <3>2
  <2> QED
    BY <2>1, <2>2
<1>17. /\ h + 1 \in 0 .. N /\ h + 1 = Len(ops') - s /\ h + 1 <= received'
       /\ (s > 0 => h + 1 = received')
  BY <1>2, <1>4, <1>7
<1>18. Chunks(s, h + 1)'
  <2>1. h + 1 = 0 => pool'.avail = 0
    BY <1>2
  <2> QED
    BY <1>2, <1>11, <1>15, <1>16, <1>17, <2>1 DEF Chunks, Early
<1> QED
  BY <1>5, <1>14, <1>17, <1>18, QueuesFrom

\* A chunk of the image is accepted.
LEMMA DataAcceptedKeeps == ASSUME Inv, DataAccepted PROVE Inv'
<1>1. CASE Crash
  BY <1>1, CrashKeeps
<1>2. CASE ~Crash
  <2>1. Fetch("PACKET") /\ CanProduce(pool) /\ Accepts
    BY DEF DataAccepted, Packet
  <2>2. /\ events' = Tail(events) /\ pool' = Taken /\ ops' = Append(ops, Store(pool.write))
        /\ received' = received + 1 /\ counted' = counted + 1
        /\ mp_final_packet' = IF LastChunk THEN pool.write ELSE mp_final_packet
        /\ promised' = IF LastChunk THEN received + 1 ELSE promised
        /\ left' = IF ~Notified THEN left ELSE IF left = 1 THEN target ELSE left - 1
        /\ answer' = IF Notified /\ left = 1 THEN <<"count", counted + 1>> ELSE Silent
        /\ UNCHANGED <<link, beacon, connected, m_is_advertising, m_tear_down_in_progress, m_pkt_type,
                       target, st, size, overrun, timedOut, done, end>>
    BY <1>2 DEF DataAccepted, Unanswered, OnLink, presence
  <2>3. /\ counted = received /\ received \in Nat /\ received < size /\ size \in Sizes
        /\ st = "RX_DATA" /\ promised \in Nat /\ promised <= received
        /\ (mp_final_packet = NoBuffer <=> promised = 0)
        /\ mp_final_packet \in Buffer \cup {NoBuffer} /\ Sizes \subseteq Nat
    BY <2>1, Constants DEF Inv, Typed, EngineTypes, Accepts
  <2>4. Counted' /\ answer'[1] # "done"
    BY <2>2, <2>3 DEF Counted, Silent
  <2>5. TransportTypes'
    <3>1. /\ target \in {0, Target} /\ left \in 0 .. Target /\ Target \in Nat
          /\ (target # 0 => left > 0)
      BY Constants DEF Inv, Typed, TransportTypes
    <3>2. left' \in 0 .. Target /\ (target # 0 => left' > 0)
      <4>1. CASE ~Notified
        BY <2>2, <3>1, <4>1
      <4>2. CASE Notified
        <5>1. target # 0
          BY <4>2 DEF Notified
        <5> QED
          BY <2>2, <3>1, <4>2, <5>1
      <4> QED
        BY <4>1, <4>2
    <3> QED
      BY <2>2, <3>2 DEF Inv, Typed, TransportTypes
  <2>6. events # <<>> /\ Head(events) # DISC /\ Head(events) # CONN
    BY <2>1, Fetched
  <2>7. pool.write \in Buffer
    <3>1. Ring(pool)
      BY QueuesFacts DEF Chunks
    <3> QED
      BY <3>1 DEF Ring, Pool
  <2>8. /\ ops' \in Seq(Op) /\ Len(ops') = Len(ops) + 1 /\ ops' # <<>>
        /\ \A i \in 1 .. Len(ops) : ops'[i] = ops[i]
        /\ ops'[Len(ops) + 1] = Store(pool.write)
    <3>1. Store(pool.write) \in Op /\ ops \in Seq(Op)
      BY <2>7, OpsFacts DEF Store, Op
    <3> QED
      BY <2>2, <3>1, AppendProperties
  <2>9. \/ mp_final_packet' = pool.write /\ promised' = received + 1
        \/ mp_final_packet' = mp_final_packet /\ promised' = promised
    BY <2>2
  <2>10. Queues'
    BY <2>1, <2>2, <2>4, <2>8, <2>9, ChunkStored
  <2>11. EngineTypes' /\ OpsTypes'
    <3>1. received + 1 <= size
      BY <2>3
    <3>2. mp_final_packet' \in Buffer \cup {NoBuffer} /\ (mp_final_packet' = NoBuffer <=> promised' = 0)
          /\ promised' \in Nat /\ promised' <= received + 1
      BY <2>3, <2>7, <2>9, Constants
    <3> HIDE <2>8
    <3>3. OpsTypes'
      BY <2>2, <2>8 DEF Inv, Typed, OpsTypes
    <3> QED
      BY <2>2, <2>3, <3>1, <3>2, <3>3 DEF Inv, Typed, EngineTypes
  <2>12. LinkInv' /\ AirTypes'
    BY <2>2, <2>6, LinkKept
  <2>13. Activated'
    BY <2>2, <2>3 DEF Activated
  <2> QED
    BY <2>4, <2>5, <2>10, <2>11, <2>12, <2>13 DEF Inv, Typed
<1> QED
  BY <1>1, <1>2

-----------------------------------------------------------------------------
(* The theorems.                                                           *)

\* No step of the system breaks the invariant.
LEMMA StepKeeps == Inv /\ [Next]_vars => Inv'
<1> SUFFICES ASSUME Inv, [Next]_vars PROVE Inv'
  OBVIOUS
<1>1. CASE Connect \/ LoseLink \/ HostWrites \/ FlashDone
  BY <1>1, ConnectKeeps, LoseLinkKeeps, HostWritesKeeps, FlashDoneKeeps
<1>2. CASE FlashFails
  BY <1>2, CrashKeeps DEF FlashFails
<1>3. CASE ProcBle
  <2>1. CASE Connected \/ Disconnected \/ Request \/ GattTimeout \/ PacketType
    BY <2>1, ConnectedKeeps, DisconnectedKeeps, RequestKeeps, GattTimeoutKeeps, PacketTypeKeeps
  <2>2. CASE InitDone \/ Validate \/ Finish \/ Receipts \/ SizeRequest
    BY <2>2, InitDoneKeeps, ValidateKeeps, FinishKeeps, ReceiptsKeeps, SizeRequestKeeps
  <2>3. CASE OtherPacket \/ StartData \/ InitData
    BY <2>3, OtherPacketKeeps, StartDataKeeps, InitDataKeeps
  <2>4. CASE DataIgnored \/ DataRefused \/ DataAccepted
    BY <2>4, DataIgnoredKeeps, DataRefusedKeeps, DataAcceptedKeeps
  <2> QED
    BY <1>3, <2>1, <2>2, <2>3, <2>4 DEF ProcBle
<1>4. CASE ProcSoc
  BY <1>4, ClearedKeeps, SettingsErasedKeeps, SettingsStoredKeeps, StoredKeeps DEF ProcSoc
<1>5. CASE Expire \/ Timeout \/ Leave \/ Restart
  BY <1>5, ExpireKeeps, TimeoutKeeps, LeaveKeeps, RestartKeeps
<1>6. CASE UNCHANGED vars
  <2>1. UNCHANGED session /\ end' = end
    BY <1>6 DEF vars, air, transport, presence, receipts, data, engine, image, storage, flash, session
  <2>2. end \in {"none", "app", "ota", "serial"}
    BY DEF Inv, Typed, TransportTypes
  <2> QED
    BY <2>1, <2>2, SameSession
<1> QED
  BY <1>1, <1>2, <1>3, <1>4, <1>5, <1>6 DEF Next

\* The invariant of the transport, its engine and its queues.
LEMMA InvAlways == Spec => []Inv
<1>1. Init => Inv
  BY StartedInv DEF Init
<1> QED
  BY <1>1, StepKeeps, PTL DEF Spec

\* Whatever the host writes and wherever the link is lost, no counter, queue or
\* buffer leaves its range: at most one event more than the writes that wait.
THEOREM TypeCorrect == Spec => []TypeOK
<1>1. Inv => TypeOK
  <2> SUFFICES ASSUME Inv PROVE TypeOK
    OBVIOUS
  <2>1. pool \in Pool
    BY QueuesFacts DEF Chunks, Ring
  <2>2. PICK n \in Sizes : received <= n
    BY DEF Inv, Typed, EngineTypes
  <2>3. received \in 0 .. n
    <3>1. n \in Nat /\ received \in Nat
      BY Constants DEF Inv, Typed, EngineTypes
    <3> QED
      BY <2>2, <3>1
  <2>4. \E k \in Sizes : received \in 0 .. k
    BY <2>3
  <2>5. Len(events) <= MaxEvents + 1
    BY DEF Inv, LinkInv
  <2> QED
    BY <2>1, <2>4, <2>5 DEF Inv, Typed, AirTypes, TransportTypes, EngineTypes, TypeOK
<1> QED
  BY <1>1, InvAlways, PTL

\* The buffer of a store that pstorage has not done is not handed out again, no
\* two stores share one, and pstorage's queue has room for all of them.
THEOREM BuffersAreKept == Spec => []StoresKeepBuffers
<1>1. Inv => StoresKeepBuffers
  <2> SUFFICES ASSUME Inv PROVE StoresKeepBuffers
    OBVIOUS
  <2>1. PICK s \in 0 .. 2, h \in 0 .. N : Commands(s) /\ Chunks(s, h)
    BY QueuesFacts
  <2>2. /\ Len(ops) \in Nat /\ N \in Nat /\ N > 0 /\ QueueSize \in Nat /\ QueueSize >= N + 2
        /\ ops \in Seq(Op) /\ DOMAIN ops = 1 .. Len(ops)
    BY OpsFacts, Constants
  <2>3. /\ Len(ops) - s <= N /\ s <= Len(ops) /\ s \in Nat
        /\ \A i \in 1 .. s : ops[i].op # "data"
        /\ \A i \in s + 1 .. Len(ops) : ops[i].op = "data" /\ ops[i].b \in Buffer
    BY <2>1 DEF Commands
  <2>4. Len(ops) <= QueueSize
    BY <2>2, <2>3
  <2>5. ASSUME NEW i \in DOMAIN ops, NEW j \in DOMAIN ops, ops[i].op = "data", st = "RX_DATA"
        PROVE  ops[i].b \in pool.busy /\ (ops[j].b = ops[i].b => i = j)
    <3>1. /\ h = Len(ops) - s /\ h \in Nat /\ InUse(pool, h) /\ pool.read \in Buffer /\ pool.avail \in 0 .. N
          /\ \A k \in 1 .. h : ops[s + k].b = At(pool, k - 1 - pool.avail)
      BY <2>1, <2>5 DEF Chunks, Ring, Pool
    <3>2. h <= pool.avail
      BY <3>1 DEF InUse
    <3>3. \A k \in s + 1 .. Len(ops) : /\ ops[k].b = At(pool, (k - s) - 1 - pool.avail)
                                       /\ (k - s) - 1 - pool.avail \in -pool.avail .. h - pool.avail - 1
      <4> TAKE k \in s + 1 .. Len(ops)
      <4>1. k - s \in 1 .. h /\ s + (k - s) = k
        BY <2>2, <2>3, <3>1
      <4>2. ops[s + (k - s)].b = At(pool, (k - s) - 1 - pool.avail)
        BY <3>1, <4>1
      <4>3. (k - s) - 1 - pool.avail \in -pool.avail .. h - pool.avail - 1
        BY <3>1, <4>1
      <4> QED
        BY <4>1, <4>2, <4>3
    <3>4. i \in s + 1 .. Len(ops)
      BY <2>2, <2>3, <2>5
    <3>5. ops[i].b \in pool.busy
      BY <3>1, <3>3, <3>4 DEF InUse
    <3>6. ASSUME ops[j].b = ops[i].b, i # j PROVE FALSE
      <4>1. j \in s + 1 .. Len(ops)
        <5> SUFFICES ASSUME j \notin s + 1 .. Len(ops) PROVE FALSE
          OBVIOUS
        <5>1. j \in 1 .. s
          BY <2>2, <2>3
        <5>2. ops[j] \in Op /\ ops[j].op # "data"
          BY <2>2, <2>3, <5>1
        <5>3. ops[j].b = NoBuffer
          BY <5>2 DEF Op
        <5> QED
          BY <2>3, <3>4, <3>6, <5>3, Constants
      <4> DEFINE I == (i - s) - 1 - pool.avail
                 J == (j - s) - 1 - pool.avail
      <4>2. I \in -N .. N /\ J \in -N .. N /\ I # J /\ I - J < N /\ J - I < N
        <5>1. h = Len(ops) - s /\ h \in Nat /\ pool.avail \in 0 .. N /\ h <= pool.avail
          BY <3>1, <3>2
        <5>2. i - s \in 1 .. h /\ j - s \in 1 .. h /\ i - s # j - s
          BY <2>2, <2>3, <3>4, <3>6, <4>1, <5>1
        <5> DEFINE a == i - s
                   b == j - s
        <5>3. a \in Int /\ b \in Int /\ 1 <= a /\ a <= h /\ 1 <= b /\ b <= h /\ a # b
          BY <5>1, <5>2
        <5>4. I = a - 1 - pool.avail /\ J = b - 1 - pool.avail
          OBVIOUS
        <5> HIDE DEF a, b, I, J
        <5>5. N \in Nat /\ pool.avail \in Int /\ h \in Int /\ h <= pool.avail /\ pool.avail <= N
          BY <2>2, <5>1
        <5>6. I \in Int /\ J \in Int /\ I # J /\ I < 0 /\ J < 0 /\ I >= -pool.avail /\ J >= -pool.avail
          BY <5>3, <5>4, <5>5
        <5> QED
          BY <5>5, <5>6
      <4>3. At(pool, I) = At(pool, J)
        BY <3>3, <3>4, <3>6, <4>1
      <4> HIDE DEF I, J
      <4>4. CASE I < J
        BY <3>1, <4>2, <4>3, <4>4, Apart DEF At
      <4>5. CASE J < I
        BY <3>1, <4>2, <4>3, <4>5, Apart DEF At
      <4> QED
        BY <2>2, <4>2, <4>4, <4>5
    <3> QED
      BY <3>5, <3>6
  <2> QED
    BY <2>4, <2>5 DEF StoresKeepBuffers
<1> QED
  BY <1>1, InvAlways, PTL

\* A host that is told "done" has each chunk of the image in flash, and one that
\* asks gets the engine's count.
THEOREM HostIsToldTheTruth == Spec => []AnswersTrue
<1>1. Inv => AnswersTrue
  <2> SUFFICES ASSUME Inv PROVE AnswersTrue
    OBVIOUS
  <2>1. PICK s \in 0 .. 2, h \in 0 .. N : Commands(s) /\ Chunks(s, h)
    BY QueuesFacts
  <2> DEFINE D == {i \in DOMAIN ops : ops[i].op = "data"}
  <2>2. Len(ops) \in Nat /\ DOMAIN ops = 1 .. Len(ops) /\ received \in Nat /\ promised \in Nat
    BY OpsFacts
  <2>3. /\ s <= Len(ops) /\ s \in Nat
        /\ \A i \in 1 .. s : ops[i].op # "data"
        /\ \A i \in s + 1 .. Len(ops) : ops[i].op = "data"
    BY <2>1 DEF Commands
  <2>4. D = s + 1 .. Len(ops)
    <3>1. ASSUME NEW i \in D PROVE i \in s + 1 .. Len(ops)
      BY <2>2, <2>3
    <3>2. ASSUME NEW i \in s + 1 .. Len(ops) PROVE i \in D
      BY <2>2, <2>3
    <3> QED
      BY <3>1, <3>2
  <2>5. Cardinality(D) = Len(ops) - s
    <3>1. s + 1 \in Int /\ Len(ops) \in Int
      BY <2>2, <2>3
    <3>2. Cardinality(s + 1 .. Len(ops)) = IF s + 1 > Len(ops) THEN 0 ELSE Len(ops) - (s + 1) + 1
      BY <3>1, FS_Interval
    <3>3. Cardinality(D) = Cardinality(s + 1 .. Len(ops))
      BY <2>4
    <3> HIDE DEF D
    <3> QED
      BY <2>2, <2>3, <3>2, <3>3
  <2>6. answer[1] = "done" => promised > 0 /\ received - Cardinality(D) >= promised
    <3> SUFFICES ASSUME answer[1] = "done"
                 PROVE  promised > 0 /\ received - Cardinality(D) >= promised
      OBVIOUS
    <3>1. promised > 0 /\ promised <= received - h /\ h = Len(ops) - s
      BY <2>1 DEF Chunks
    <3> HIDE DEF D
    <3> QED
      BY <2>2, <2>3, <2>5, <3>1
  <2> QED
    BY <2>6 DEF Inv, Counted, AnswersTrue
<1> QED
  BY <1>1, InvAlways, PTL

\* Until the session is to end, a host can connect, or is connected, or the end
\* of its connection waits to be handled: the device never stops advertising
\* for good.
THEOREM AlwaysReachable == Spec => []Reachable
<1>1. Inv => Reachable
  <2> SUFFICES ASSUME Inv, ~m_tear_down_in_progress, ~beacon, link = "none"
               PROVE  DISC \in ToSet(events)
    BY DEF Reachable, DISC, Inv, Typed, AirTypes
  <2>1. Len(events) > 0 /\ events[Len(events)] = DISC
    BY DEF Inv, LinkInv
  <2>2. Len(events) \in DOMAIN events
    BY <2>1 DEF Inv, Typed, AirTypes
  <2> QED
    BY <2>1, <2>2 DEF ToSet
<1> QED
  BY <1>1, InvAlways, PTL

=============================================================================
