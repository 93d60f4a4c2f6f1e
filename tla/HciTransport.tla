---------------------------- MODULE HciTransport ----------------------------
(***************************************************************************)
(* The reliable packets of hci_transport.c over hci_slip.c: two ends, each *)
(* with the transmitting and the receiving half of the file, joined by a   *)
(* line that loses and damages frames and never reorders them.  The DFU    *)
(* device uses the receiving half; the host's program is not in the        *)
(* repository, and the file's own transmitting half stands for it.         *)
(*                                                                         *)
(* Every handler is one action: packets, acknowledgements and the end of a *)
(* transmission come in the UART interrupt, and the timeout must run "in   *)
(* APP-LO context", at the same level.  An application that writes from    *)
(* the main loop is preempted inside hci_transport_pkt_write(); one that   *)
(* writes from a handler of that level is not.                             *)
(***************************************************************************)
EXTENDS Naturals, Sequences

CONSTANTS
  Modulus,   \* of the sequence numbers, three bits in the header
  MaxRetry,  \* MAX_RETRY_COUNT
  Buffers,   \* HCI_RX_BUF_QUEUE_SIZE
  LineSize,  \* bound: frames under way in one direction
  Uses,      \* what the two applications may be like
  None

End == {"device", "host"}

\* Each application writes "load" packets (bound), from the main loop if "preempts".
Use == [load : [End -> Nat], preempts : BOOLEAN]

ASSUME TransportAssumption ==
  /\ Modulus \in Nat /\ Modulus > 2
  /\ MaxRetry \in Nat
  /\ {Buffers, LineSize} \subseteq Nat \ {0}
  /\ Uses \subseteq Use

VARIABLES
  use,   \* what the applications are like
  tx,    \* the transmitting half: m_tx_state, m_packet_transmit_seq_number,
         \* m_tx_retry_counter, the packet in mp_tx_buffer, whether the last
         \* result was HCI_TRANSPORT_TX_DONE_FAILURE, and the state that a
         \* preempted pkt_write_handle() is about to enter
  rx,    \* the receiving half: m_packet_expected_seq_number, whether a pool
         \* buffer is registered (mp_slip_used_rx_buffer), how many the pool
         \* has left; and, as history, the packet that the application got
         \* last, with a turn that changes when it gets one
  slip,  \* the frame in mp_tx_buffer of hci_slip.c; None when SLIP_READY
  line   \* the frames on their way to each end

vars == <<use, tx, rx, slip, line>>

Number == 0 .. Modulus - 1
\* A frame without a number does not pass is_rx_pkt_valid, or the checksum of
\* rx_ack_pkt_type_handle.
Frame == [type : {"DATA", "ACK"}, number : Number \cup {None}, packet : Nat]

ASSUME NoneAssumption ==
  None \notin Number /\ None \notin Frame /\ None \notin {"PENDING", "ACTIVE"}

Peer(n) == CHOOSE m \in End : m # n

\* hci_transport_open() at both ends.
Init ==
  /\ use \in Uses
  /\ tx = [n \in End |-> [state |-> "IDLE", seq |-> 1, retries |-> 0,
                          packet |-> 0, failed |-> FALSE, next |-> None]]
  /\ rx = [n \in End |-> [expected |-> 1, listening |-> TRUE,
                          free |-> Buffers - 1, last |-> 0, turn |-> FALSE]]
  /\ slip = [n \in End |-> None]
  /\ line = [n \in End |-> <<>>]

-----------------------------------------------------------------------------
(* Numbers and frames.                                                     *)

\* packet_number_expected_inc(), packet_number_tx_inc()
Incremented(s) == (s + 1) % Modulus

Data(t) == [type |-> "DATA", number |-> t.seq, packet |-> t.packet]
Ack(r) == [type |-> "ACK", number |-> r.expected, packet |-> 0]

\* What becomes of frame f, under way, when the buffer it is sent from is
\* overwritten with frame g: all of the one, all of the other, or bytes of both.
Overwritten(f, g) == IF f = g THEN {f} ELSE {f, g, [g EXCEPT !.number = None]}

\* What slip may hold after it held f and frame g was built in g's static
\* buffer and given to hci_slip_write(), which refuses it while it transmits.
Sent(f, g) ==
  CASE f = None        -> {g}
    [] f # None /\ f.type = g.type -> Overwritten(f, g)
    [] OTHER           -> {f}

RegisteredUnchecked(r) == [r EXCEPT !.free = @ - 1]       \* mutant
\* hci_mem_pool_rx_produce() and hci_slip_rx_buffer_register().
Registered(r) ==
  [r EXCEPT !.listening = r.free > 0, !.free = IF @ > 0 THEN @ - 1 ELSE 0]

-----------------------------------------------------------------------------
(* The transmitting half: the branches of tx_sm_event_handle().            *)

Active(t) == [t EXCEPT !.state = "ACTIVE", !.retries = 0]
Entered(t) == [IF t.next = "ACTIVE" THEN Active(t) ELSE [t EXCEPT !.state = "PENDING"]
                 EXCEPT !.next = None]
Success(t) == [t EXCEPT !.state = "IDLE", !.failed = FALSE, !.seq = Incremented(@)]
Failure(t) == [t EXCEPT !.state = "IDLE", !.failed = TRUE]

Busy(t) == t.state # "IDLE" \/ t.next # None

\* hci_transport_pkt_write() and pkt_write_handle(), up to hci_slip_write(),
Write(n) ==
  /\ ~Busy(tx[n]) /\ tx[n].packet < use.load[n]
  /\ LET t == [tx[n] EXCEPT !.packet = @ + 1,
                            !.next = IF slip[n] = None THEN "ACTIVE" ELSE "PENDING"]
     IN  /\ tx' = [tx EXCEPT ![n] = IF use.preempts THEN t ELSE Entered(t)]
         /\ \E f \in Sent(slip[n], Data(t)) : slip' = [slip EXCEPT ![n] = f]
  /\ UNCHANGED <<use, rx, line>>

\* and from there to the end.
Written(n) ==
  /\ tx[n].next # None
  /\ tx' = [tx EXCEPT ![n] = Entered(@)]
  /\ UNCHANGED <<use, rx, slip, line>>

\* transmit_buffer() puts the last byte, and TX_EVENT_SLIP_TX_DONE.
DoneUnnoticed(n) ==                                       \* mutant
  /\ slip[n] # None /\ Len(line[Peer(n)]) < LineSize
  /\ line' = [line EXCEPT ![Peer(n)] = Append(@, slip[n])]
  /\ slip' = [slip EXCEPT ![n] = None]
  /\ UNCHANGED <<use, tx, rx>>
SlipDone(n) ==
  /\ slip[n] # None /\ Len(line[Peer(n)]) < LineSize
  /\ line' = [line EXCEPT ![Peer(n)] = Append(@, slip[n])]
  /\ IF tx[n].state = "PENDING"
       THEN /\ slip' = [slip EXCEPT ![n] = Data(tx[n])]
            /\ tx' = [tx EXCEPT ![n] = Active(@)]
       ELSE /\ slip' = [slip EXCEPT ![n] = None]
            /\ tx' = tx
  /\ UNCHANGED <<use, rx>>

\* TX_EVENT_TIMEOUT: a retry that slip refuses counts as one.
Timeout(n) ==
  /\ tx[n].state = "ACTIVE"
  /\ IF tx[n].retries # MaxRetry
       THEN /\ tx' = [tx EXCEPT ![n].retries = @ + 1]
            /\ slip' = [slip EXCEPT ![n] = IF @ = None THEN Data(tx[n]) ELSE @]
       ELSE tx' = [tx EXCEPT ![n] = Failure(@)] /\ slip' = slip
  /\ UNCHANGED <<use, rx, line>>

-----------------------------------------------------------------------------
(* The receiving half: slip_event_handle() for the first frame on the line. *)

First(n) == Head(line[n])
Arrives(n, type) == line[n] # <<>> /\ First(n).type = type
Taken(n) == line' = [line EXCEPT ![n] = Tail(@)]

AnyNumber(n) == First(n).number # None                    \* mutant
Expected(n) == First(n).number = rx[n].expected

Delivered(n) == Registered([rx[n] EXCEPT !.expected = Incremented(@),
                                         !.last = First(n).packet, !.turn = ~@])

\* rx_vendor_specific_pkt_type_handle(): the packet that is expected.  The
\* application extracts it in its event handler.
Deliver(n) ==
  /\ Arrives(n, "DATA") /\ rx[n].listening /\ Expected(n)
  /\ Taken(n)
  /\ rx' = [rx EXCEPT ![n] = Delivered(n)]
  /\ \E f \in Sent(slip[n], Ack(Delivered(n))) : slip' = [slip EXCEPT ![n] = f]
  /\ UNCHANGED <<use, tx>>

\* ... and any other that is valid.
Repeat(n) ==
  /\ Arrives(n, "DATA") /\ rx[n].listening
  /\ First(n).number # None /\ ~Expected(n)
  /\ Taken(n)
  /\ \E f \in Sent(slip[n], Ack(rx[n])) : slip' = [slip EXCEPT ![n] = f]
  /\ UNCHANGED <<use, tx, rx>>

\* A packet that is not valid; or HCI_SLIP_RX_OVERFLOW, for the buffer for
\* acknowledgements has no room for a packet.
Discard(n) ==
  /\ Arrives(n, "DATA")
  /\ rx[n].listening => First(n).number = None
  /\ Taken(n)
  /\ UNCHANGED <<use, tx, rx, slip>>

AnyAck(n) == tx[n].state = "ACTIVE" /\ First(n).number # None            \* mutant
AckExpected(n) == /\ tx[n].state = "ACTIVE"
                  /\ First(n).number = Incremented(tx[n].seq)

\* An acknowledgement: rx_ack_pkt_type_handle(), and then the receive buffer is
\* registered again, or a new one if there was none.
Acknowledge(n) ==
  /\ Arrives(n, "ACK")
  /\ Taken(n)
  /\ tx' = IF AckExpected(n) THEN [tx EXCEPT ![n] = Success(@)] ELSE tx
  /\ rx' = IF rx[n].listening THEN rx ELSE [rx EXCEPT ![n] = Registered(@)]
  /\ UNCHANGED <<use, slip>>

\* hci_transport_rx_pkt_consume() for a packet that was extracted.
Consume(n) ==
  /\ rx[n].free + (IF rx[n].listening THEN 1 ELSE 0) < Buffers
  /\ rx' = [rx EXCEPT ![n].free = @ + 1]
  /\ UNCHANGED <<use, tx, slip, line>>

\* The line loses a frame, or damages it so that the receiver drops it.
Lose(n) ==
  /\ line[n] # <<>>
  /\ Taken(n)
  /\ UNCHANGED <<use, tx, rx, slip>>

Receive(n) == Deliver(n) \/ Repeat(n) \/ Discard(n) \/ Acknowledge(n)

Next == \E n \in End : \/ Write(n) \/ Written(n) \/ SlipDone(n) \/ Timeout(n)
                       \/ Receive(n) \/ Consume(n) \/ Lose(n)

Spec == Init /\ [][Next]_vars
\* The UART, the retransmission timer and the main loop go on.
FairSpec == /\ Spec
            /\ \A n \in End : /\ WF_vars(SlipDone(n)) /\ WF_vars(Timeout(n))
                              /\ WF_vars(Receive(n) \/ Lose(n)) /\ WF_vars(Written(n))

-----------------------------------------------------------------------------
(* Properties.                                                             *)

TypeOK ==
  /\ use \in Uses
  /\ tx \in [End -> [state : {"IDLE", "PENDING", "ACTIVE"}, seq : Number,
                     retries : 0 .. MaxRetry, packet : Nat, failed : BOOLEAN,
                     next : {"PENDING", "ACTIVE", None}]]
  /\ rx \in [End -> [expected : Number, listening : BOOLEAN,
                     free : 0 .. Buffers, last : Nat, turn : BOOLEAN]]
  /\ slip \in [End -> Frame \cup {None}]
  /\ line \in [End -> Seq(Frame)]

\* There is no link establishment and so no way to agree on the numbers again:
\* the receiver always expects the number that the sender uses or the one after
\* it, whatever was lost, repeated, given up or torn.
InStep == \A n \in End :
  rx[Peer(n)].expected \in {tx[n].seq, Incremented(tx[n].seq)}

\* "An event will be send upon transmission completion": a packet that was
\* accepted gets its result, with whatever line and whatever else slip sends,
\* provided that it was not written from the main loop: there SLIP_TX_DONE may
\* come before the state that waits for it.
WriteEnds == \A n \in End : Busy(tx[n]) /\ ~use.preempts ~> ~Busy(tx[n])

\* Each direction keeps the promise of ReliableLink; "peer transport entity has
\* acknowledged the transmission" is what a success says.
ToDevice == INSTANCE ReliableLink WITH
  written <- tx["host"].packet, busy <- Busy(tx["host"]),
  delivered <- rx["device"].last, turn <- rx["device"].turn,
  doubt <- tx["host"].failed
ToHost == INSTANCE ReliableLink WITH
  written <- tx["device"].packet, busy <- Busy(tx["device"]),
  delivered <- rx["host"].last, turn <- rx["host"].turn,
  doubt <- tx["device"].failed
KeepsPromise == ToDevice!Spec /\ ToHost!Spec
=============================================================================
