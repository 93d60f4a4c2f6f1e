---------------------------- MODULE SerialQueue ----------------------------
(***************************************************************************)
(* The queue between the UART interrupt and the main loop of the serial    *)
(* DFU transport (dfu_transport_serial.c over hci_transport.c's receive    *)
(* path and the pool of hci_mem_pool.c).                                   *)
(*                                                                         *)
(* Receive is the interrupt that completes a packet: it acknowledges the   *)
(* packet, takes the next receive buffer and allocates a queue element.    *)
(* It is atomic, for nothing preempts it.  The main loop is preempted      *)
(* between any two of its steps: releasing an element takes one step per   *)
(* load and store of a variable that the interrupt shares.  To separate    *)
(* what goes wrong there from the rest, a host may be one whose packets do *)
(* not come then; the release is one step with such a host.                *)
(***************************************************************************)
EXTENDS HciMemPool, FiniteSets, SequencesExt

CONSTANTS
  Slots,      \* MAX_BUFFERS
  SchedSize,  \* SCHED_QUEUE_SIZE
  Hosts,      \* the hosts that may be at the other end of the line
  None

\* A host has at most "window" packets under way that the device is not done
\* with, and sends "packets" of them, of the kinds it has.  Without "preempts"
\* none of its packets comes while an element is being released.
Kind == {"DATA", "STOP", "INVALID"}
Host == [window : Nat \ {0}, packets : Nat \ {0}, kinds : SUBSET Kind,
         preempts : BOOLEAN]

\* With one element the queue is always full, with one buffer there is none but
\* the one that is being received into; the elements are counted in a uint8_t.
ASSUME QueueAssumption ==
  /\ Slots \in 2 .. 256 /\ N > 1
  /\ SchedSize \in Nat \ {0}
  /\ Hosts \subseteq Host
  /\ None \notin Nat

VARIABLES
  host,     \* the host at the other end
  up,       \* "open", "closed", or "reset" after a failed APP_ERROR_CHECK
  \* ---- the receive path, in the interrupt
  acked,    \* how many packets the device has acknowledged
  data,     \* which packet each buffer holds
  rx,       \* mp_slip_used_rx_buffer; None while the ack buffer is registered
  pool,     \* m_rx_buffer_queue
  \* ---- shared
  slot,     \* m_data_queue.data_packet; "n" is the packet it was filled with
  count,    \* m_data_queue.count
  sched,    \* process_dfu_packet events in the scheduler queue
  \* ---- the main loop
  main,     \* where it is, and its local variables
  handled,  \* the packets given to the DFU engine
  dropped   \* packets that were acknowledged and not queued

queueVars == <<slot, count, sched>>
vars == <<host, up, acked, data, rx, pool, slot, count, sched, main, handled, dropped>>

Slot == 0 .. Slots - 1
FreeSlot == [type |-> "INVALID", buf |-> None, n |-> 0]
Idle == [pc |-> "idle", i |-> 0, back |-> "scan", buf |-> None, tmp |-> 0, bits |-> {}]

\* dfu_transport_serial_update_start() and hci_transport_open().
Init ==
  /\ host \in Hosts
  /\ up = "open"
  /\ acked = 0 /\ data = [b \in Buffer |-> [n |-> 0, kind |-> "INVALID"]]
  /\ rx = 0 /\ pool = Produced(PoolOpen)
  /\ slot = [i \in Slot |-> FreeSlot] /\ count = 0 /\ sched = 0
  /\ main = Idle
  /\ handled = <<>> /\ dropped = {}

\* A failed APP_ERROR_CHECK resets the device.
Reset ==
  /\ up' = "reset"
  /\ main' = Idle
  /\ UNCHANGED <<acked, data, rx, pool, queueVars, handled, dropped>>

-----------------------------------------------------------------------------
(* The interrupt.                                                          *)

Releasing == main.pc \notin {"idle", "test", "scan", "flush", "free"}
\* Packets that the device acknowledged and is not done with.
Outstanding == acked - Len(handled) - Cardinality(dropped)
                 + (IF Releasing \/ main.pc = "free" THEN 1 ELSE 0)

QueueFull == count = Slots - 1
FreeSlots == {i \in Slot : slot[i].type = "INVALID"}
Lowest(S) == CHOOSE i \in S : \A j \in S : i <= j

\* rpc_transport_event_handler(), with the packet in buffer b of pool p.
EventHandler(p, b, packet) ==
  IF packet.kind # "INVALID" /\ ~QueueFull /\ FreeSlots # {}
    THEN /\ slot' = [slot EXCEPT ![Lowest(FreeSlots)] =
                       [type |-> packet.kind, buf |-> b, n |-> packet.n]]
         /\ count' = (count + 1) % 256
         /\ dropped' = dropped
         /\ IF sched < SchedSize
              THEN sched' = sched + 1 /\ pool' = p /\ up' = up
              ELSE \* the element stays, its buffer is consumed
                   /\ sched' = sched /\ pool' = Consumed(p, b)
                   /\ up' = IF CanConsume(p, b) THEN up ELSE "reset"
    ELSE /\ dropped' = dropped \cup {packet.n}
         /\ pool' = Consumed(p, b)
         /\ up' = IF CanConsume(p, b) THEN up ELSE "reset"
         /\ UNCHANGED queueVars

\* rx_vendor_specific_pkt_type_handle() for the packet that is expected.
Receive(kind) ==
  /\ up = "open" /\ rx # None
  /\ acked < host.packets /\ Outstanding < host.window
  /\ LET packet == [n |-> acked + 1, kind |-> kind]
         p == IF CanProduce(pool) THEN Produced(pool) ELSE pool
     IN  /\ acked' = acked + 1
         /\ data' = [data EXCEPT ![rx] = packet]
         /\ rx' = IF CanProduce(pool) THEN pool.write ELSE None
         /\ EventHandler(Extracted(p), p.read, data'[p.read])
  /\ UNCHANGED <<main, handled>>

-----------------------------------------------------------------------------
(* The main loop: process_dfu_packet(), run by app_sched_execute().        *)

Goto(pc) == main' = [main EXCEPT !.pc = pc]

\* app_sched_execute() gives the place in its queue back after the handler.
Return == main' = Idle /\ sched' = sched - 1

Begin ==
  /\ main.pc = "idle" /\ sched > 0
  /\ Goto("test")
  /\ UNCHANGED <<up, acked, data, rx, pool, queueVars, handled, dropped>>

\* while (false == DATA_QUEUE_EMPTY())
Test ==
  /\ main.pc = "test"
  /\ IF count = 0 THEN Return
     ELSE main' = [main EXCEPT !.pc = "scan", !.i = 0] /\ sched' = sched
  /\ UNCHANGED <<up, acked, data, rx, pool, slot, count, handled, dropped>>

\* One index of the for loop, when there is nothing to handle.
Skip ==
  /\ main.pc = "scan"
  /\ main.i < Slots => slot[main.i].type = "INVALID"
  /\ main' = IF main.i = Slots THEN [main EXCEPT !.pc = "test", !.i = 0]
             ELSE [main EXCEPT !.i = @ + 1]
  /\ UNCHANGED <<up, acked, data, rx, pool, queueVars, handled, dropped>>

\* A START, INIT, DATA or unknown packet goes to the engine, then is freed.
Handle ==
  /\ main.pc = "scan" /\ main.i < Slots
  /\ slot[main.i].type = "DATA"
  /\ handled' = IF slot[main.i].buf = None THEN handled
                ELSE Append(handled, data[slot[main.i].buf].n)
  /\ main' = [main EXCEPT !.pc = "free", !.back = "scan"]
  /\ UNCHANGED <<up, acked, data, rx, pool, queueVars, dropped>>

\* STOP returns without freeing its element.  When the image was complete the
\* activation ends the DFU mode.
HandleStop ==
  /\ main.pc = "scan" /\ main.i < Slots
  /\ slot[main.i].type = "STOP"
  /\ handled' = IF slot[main.i].n \in Range(handled) THEN handled
                ELSE Append(handled, slot[main.i].n)
  /\ up' \in {"open", "closed"}
  /\ Return
  /\ UNCHANGED <<acked, data, rx, pool, slot, count, dropped>>

\* dfu_transport_serial_close() after a timeout: data_queue_flush().
Close ==
  /\ up = "open" /\ main.pc = "idle"
  /\ main' = [main EXCEPT !.pc = "flush", !.i = 0]
  /\ UNCHANGED <<up, acked, data, rx, pool, queueVars, handled, dropped>>

Flush ==
  /\ main.pc = "flush"
  /\ IF main.i = Slots
       THEN up' = "closed" /\ main' = Idle
       ELSE /\ up' = up
            /\ main' = IF slot[main.i].type = "INVALID"
                         THEN [main EXCEPT !.i = @ + 1]
                         ELSE [main EXCEPT !.pc = "free", !.back = "flush"]
  /\ UNCHANGED <<acked, data, rx, pool, queueVars, handled, dropped>>

-----------------------------------------------------------------------------
(* data_queue_element_free() of element main.i.                            *)

NotDecremented(c) == c                                    \* mutant
\* m_data_queue.count-- on a uint8_t.
Decremented(c) == (c - 1) % 256

Freed == main' = [Idle EXCEPT !.pc = main.back, !.i = main.i + 1, !.back = main.back]

\* hci_transport_rx_pkt_consume((p_data - 4)) and its APP_ERROR_CHECK.
FreeAtomic ==
  /\ ~host.preempts /\ main.pc = "free"
  /\ LET b == slot[main.i].buf
     IN  IF CanConsume(pool, b)
           THEN /\ count' = Decremented(count)
                /\ slot' = [slot EXCEPT ![main.i] = FreeSlot]
                /\ pool' = Consumed(pool, b)
                /\ Freed
                /\ UNCHANGED <<up, acked, data, rx, sched, handled, dropped>>
           ELSE Reset

\* p_data is read, then count--: load and store.
LoadCount ==
  /\ host.preempts /\ main.pc = "free"
  /\ main' = [main EXCEPT !.pc = "count", !.buf = slot[main.i].buf, !.tmp = count]
  /\ UNCHANGED <<up, acked, data, rx, pool, queueVars, handled, dropped>>
StoreCount ==
  /\ main.pc = "count"
  /\ count' = Decremented(main.tmp)
  /\ main' = [main EXCEPT !.pc = "type", !.tmp = 0]
  /\ UNCHANGED <<up, acked, data, rx, pool, slot, sched, handled, dropped>>

\* data_queue_element_init(): the type, which the source writes twice, then
\* the pointer.  A build may merge the two writes.
InitType ==
  /\ main.pc = "type"
  /\ slot' = [slot EXCEPT ![main.i].type = "INVALID"]
  /\ Goto("pointer")
  /\ UNCHANGED <<up, acked, data, rx, pool, count, sched, handled, dropped>>
InitPointer ==
  /\ main.pc = "pointer"
  /\ \E twice \in BOOLEAN :
       slot' = [slot EXCEPT ![main.i] =
                  [type |-> IF twice THEN "INVALID" ELSE @.type, buf |-> None, n |-> 0]]
  /\ Goto("find")
  /\ UNCHANGED <<up, acked, data, rx, pool, count, sched, handled, dropped>>

\* hci_mem_pool_rx_consume(): free_index ^= bit, load and store.
Find ==
  /\ main.pc = "find"
  /\ IF CanConsume(pool, main.buf)
       THEN /\ main' = [main EXCEPT !.pc = "bits", !.tmp = Oldest(pool),
                                    !.bits = Toggled(pool.busy, main.buf)]
            /\ UNCHANGED <<up, acked, data, rx, pool, queueVars, handled, dropped>>
       ELSE Reset
StoreBits ==
  /\ main.pc = "bits"
  /\ pool' = [pool EXCEPT !.busy = main.bits]
  /\ main' = [main EXCEPT !.pc = "release", !.bits = {}]
  /\ UNCHANGED <<up, acked, data, rx, queueVars, handled, dropped>>

\* The release loop; main.tmp is start_index.
ReleaseTest ==
  /\ main.pc = "release"
  /\ IF main.tmp \in pool.busy \/ pool.avail = 0 THEN Freed
     ELSE main' = [main EXCEPT !.pc = "avail", !.tmp = pool.avail]
  /\ UNCHANGED <<up, acked, data, rx, pool, queueVars, handled, dropped>>
StoreAvail ==
  /\ main.pc = "avail"
  /\ pool' = [pool EXCEPT !.avail = main.tmp - 1]
  /\ main' = [main EXCEPT !.pc = "load", !.tmp = 0]
  /\ UNCHANGED <<up, acked, data, rx, queueVars, handled, dropped>>
LoadWindow ==
  /\ main.pc = "load"
  /\ main' = [main EXCEPT !.pc = "window", !.tmp = pool.window]
  /\ UNCHANGED <<up, acked, data, rx, pool, queueVars, handled, dropped>>
StoreWindow ==
  /\ main.pc = "window"
  /\ pool' = [pool EXCEPT !.window = main.tmp + 1]
  /\ main' = [main EXCEPT !.pc = "release", !.tmp = Wrap(main.buf + 1)]
  /\ UNCHANGED <<up, acked, data, rx, queueVars, handled, dropped>>

Free == \/ FreeAtomic \/ LoadCount \/ StoreCount \/ InitType \/ InitPointer
        \/ Find \/ StoreBits \/ ReleaseTest \/ StoreAvail \/ LoadWindow \/ StoreWindow
MainLoop == /\ up = "open"
            /\ Begin \/ Test \/ Skip \/ Handle \/ HandleStop \/ Flush \/ Free

\* After the end the device starts anew, outside this module.
Done == up # "open" /\ UNCHANGED vars

Next == /\ (\E kind \in host.kinds : Receive(kind)) \/ MainLoop \/ Close \/ Done
        /\ UNCHANGED host

Spec == Init /\ [][Next]_vars
FairSpec == Spec /\ WF_vars(MainLoop /\ UNCHANGED host)

-----------------------------------------------------------------------------
(* Properties.                                                             *)

Used == {i \in Slot : slot[i].type # "INVALID"}

TypeOK ==
  /\ up \in {"open", "closed", "reset"}
  /\ host \in Hosts /\ acked \in 0 .. host.packets
  /\ rx \in Buffer \cup {None}
  /\ pool \in Pool /\ {pool.window, pool.ready, pool.avail} \subseteq 0 .. N
  /\ \A i \in Slot : slot[i].type \in Kind /\ slot[i].buf \in Buffer \cup {None}
  /\ count \in 0 .. 255
  /\ sched \in 0 .. SchedSize
  /\ main.i \in 0 .. Slots

\* The interrupt and the main loop both change the same counters: the "counter
\* to maintain number of elements in the queue", for whose 0 the main loop waits,
\* stays what it says, and no receive buffer is lost or counted twice.
CountersAgree ==
  /\ up = "open" /\ ~Releasing => count = Cardinality(Used)
  /\ ~Releasing => pool.window + pool.ready + pool.avail = N

\* process_dfu_packet() returns, whatever arrives while it runs: else neither
\* the DFU timer's event nor any other would be handled again.
HandlerReturns == []<>(up # "open" \/ main.pc = "idle")

\* hci_transport.h: "Extracted memory can't be reused by the underlying
\* transport layer untill freed": the buffer of a queued packet is neither the
\* one that is being received into nor one that may be handed out.
FreeWindow == {Wrap(pool.write + i) : i \in 0 .. pool.window - 1}
ElementsKeepBuffers ==
  up = "open" => \A i \in Used : slot[i].buf \notin FreeWindow \cup {rx}

(* With a host that sends a packet when the device is done with the one     *)
(* before, and no more of them than the scheduler has room for: the main    *)
(* loop may take them all in one event, and each has put one.               *)
OneAtATime == host.window = 1 /\ host.kinds = {"DATA"}
Paced == OneAtATime /\ host.packets <= SchedSize

\* The buffers of queued packets are theirs, as above, when the host is paced.
PacedKeepBuffers == Paced => ElementsKeepBuffers

\* The engine gets the packets in the order in which the host sent them, each
\* of them once, and every one that was acknowledged: data packets carry no
\* address of their own.
InOrder ==
  Paced => /\ \A i, j \in 1 .. Len(handled) : i < j => handled[i] < handled[j]
           /\ dropped = {}

\* There is always a buffer to receive the next packet into, not only the one
\* for acknowledgements, from which nothing leads back; and the APP_ERROR_CHECKs
\* around the queue and the pool never fail.
StaysListening == Paced => up # "reset" /\ (up = "open" => rx # None)
=============================================================================
