----------------------------- MODULE HciMemPool -----------------------------
(***************************************************************************)
(* hci_mem_pool.c: the ring of receive buffers between the transport, which*)
(* produces and extracts them in the UART interrupt, and the serial DFU    *)
(* transport, which consumes them in the main loop.  The operations are    *)
(* functions on the pool's record, so that SerialQueue can compose several *)
(* of them in one interrupt; MemPoolClient is the pool on its own.         *)
(***************************************************************************)
EXTENDS Integers, Sequences

CONSTANT N  \* HCI_RX_BUF_QUEUE_SIZE

ASSUME PoolAssumption == N \in Nat \ {0}

Buffer == 0 .. N - 1
Wrap(i) == i % N

\* m_rx_buffer_queue; "busy" is free_index, whose bits are SET while in use.
Pool == [window : Int, ready : Int, avail : Int,
         write : Buffer, read : Buffer, busy : SUBSET Buffer]
\* hci_mem_pool_open()
PoolOpen == [window |-> N, ready |-> 0, avail |-> 0,
             write |-> 0, read |-> 0, busy |-> {}]

\* hci_mem_pool_rx_produce(): hands out buffer p.write.
AlwaysProduce(p) == TRUE                                  \* mutant
CanProduce(p) == p.window # 0
ProducedInPlace(p) == [p EXCEPT !.window = @ - 1, !.ready = @ + 1, \* mutant
                                !.busy = @ \cup {p.write}]
Produced(p) == [p EXCEPT !.window = @ - 1, !.ready = @ + 1,
                         !.busy = @ \cup {p.write}, !.write = Wrap(@ + 1)]

\* hci_mem_pool_rx_extract(): returns buffer p.read.
CanExtract(p) == p.ready # 0
Extracted(p) == [p EXCEPT !.ready = @ - 1, !.avail = @ + 1, !.read = Wrap(@ + 1)]

(* hci_mem_pool_rx_consume().                                              *)
Oldest(p) == Wrap(p.read - p.avail)
\* The indexes that the do-while loop looks at, one at least.
Scanned(p) == {b \in Buffer : \/ Oldest(p) = p.read
                              \/ Wrap(b - Oldest(p)) < Wrap(p.read - Oldest(p))}
CanConsume(p, b) == p.avail # 0 /\ b \in Scanned(p)
BitSet(s, b) == s \cup {b}                                \* mutant
\* free_index ^= bit
Toggled(s, b) == IF b \in s THEN s \ {b} ELSE s \cup {b}
\* How many buffers the release loop releases.  After the first it looks at the
\* buffer behind the consumed one, again and again: if that is in use the loop
\* stops, and if it is not, only avail = 0 stops it.
ReleaseCount(p, oldest, found) ==
  IF oldest \in p.busy THEN 0
  ELSE IF Wrap(found + 1) \in p.busy THEN 1 ELSE p.avail
ReleasedUncounted(p, n) == [p EXCEPT !.window = @ + n]     \* mutant
Released(p, n) == [p EXCEPT !.window = @ + n, !.avail = @ - n]
Consumed(p, b) ==
  IF p.avail = 0 THEN p
  ELSE LET found == IF b \in Scanned(p) THEN b ELSE p.read
           q == [p EXCEPT !.busy = IF b \in Scanned(p) THEN Toggled(@, b) ELSE @]
       IN  Released(q, ReleaseCount(q, Oldest(p), found))
=============================================================================
