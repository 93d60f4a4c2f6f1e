---------------------------- MODULE MemPoolClient ----------------------------
(* The receive pool and a client that consumes the buffers it extracted, in *)
(* the order of extraction.  SerialQueue has one that does not keep to it.  *)
EXTENDS HciMemPool, SequencesExt

VARIABLES
  pool,  \* m_rx_buffer_queue
  held   \* the client's buffers: extracted, not consumed, oldest first

vars == <<pool, held>>

Init == pool = PoolOpen /\ held = <<>>

Produce ==
  /\ CanProduce(pool)
  /\ pool' = Produced(pool) /\ held' = held

Extract ==
  /\ CanExtract(pool)
  /\ pool' = Extracted(pool) /\ held' = Append(held, pool.read)

Consume ==
  /\ held # <<>>
  /\ pool' = Consumed(pool, Head(held)) /\ held' = Tail(held)

Next == Produce \/ Extract \/ Consume

Spec == Init /\ [][Next]_vars

-----------------------------------------------------------------------------
(* Properties.                                                             *)

\* The counters stay within the ring.
TypeOK ==
  /\ pool \in Pool
  /\ {pool.window, pool.ready, pool.avail} \subseteq 0 .. N
  /\ held \in Seq(Buffer)

\* consume() accepts every buffer that was extracted and not consumed: its errors
\* are for "no packet available to free" and for "not a valid pointer".
HeldIsConsumable == \A i \in 1 .. Len(held) : CanConsume(pool, held[i])

\* The ring keeps the promise of RxPool; above all, "Extracted memory can't be
\* reused by the underlying transport layer untill freed" (hci_transport.h).
ReadyBuffers == [i \in 1 .. pool.ready |-> Wrap(pool.read + i - 1)]
Promise == INSTANCE RxPool WITH ready <- ReadyBuffers
KeepsPromise == Promise!Spec
=============================================================================
