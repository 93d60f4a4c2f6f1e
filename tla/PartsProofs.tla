----------------------------- MODULE PartsProofs -----------------------------
(***************************************************************************)
(* Proofs about the components side by side in Parts: the memory pool      *)
(* keeps its promise to an orderly client, the ring of the scheduler is a  *)
(* FIFO queue and the SoftDevice's events are fetched, flash and cached    *)
(* page are a memory that reads as it was written, the dual-bank engine    *)
(* leaves a whole application and announces nothing incomplete, the SLIP   *)
(* decoder gets back into step, and a boot does what it was asked for.  A  *)
(* behaviour of Parts is one of each component.                            *)
(***************************************************************************)
EXTENDS Parts, HciMemPoolProofs, FiniteSetTheorems, SequenceTheorems

(* The memory pool: it keeps the promise of RxPool to a client that        *)
(* consumes in order, for every ring size.  What is extracted stays out of *)
(* the ring until it is consumed, and buffers come out as they went in.    *)

\* The client's buffers are the ones the pool counts as handed out, in place.
Held ==
  /\ Ring(pool) /\ InUse(pool, pool.avail)
  /\ held \in Seq(Buffer) /\ Len(held) = pool.avail
  /\ \A i \in 1 .. Len(held) : held[i] = At(pool, i - 1 - pool.avail)

\* Numbers and members that the proofs below keep using.
LEMMA HeldFacts ==
  ASSUME Held
  PROVE  /\ N \in Nat /\ N > 0 /\ pool \in Pool /\ pool.read \in Buffer
         /\ pool.avail \in 0 .. N /\ pool.ready \in 0 .. N /\ pool.ready + pool.avail <= N
         /\ Len(held) \in Nat /\ DOMAIN held = 1 .. Len(held)
<1>1. /\ N \in Nat /\ N > 0 /\ pool \in Pool /\ pool.read \in Buffer
      /\ pool.avail \in 0 .. N /\ pool.ready \in 0 .. N /\ pool.ready + pool.avail <= N
  BY WrapCases DEF Held, Ring, Pool
<1>2. Len(held) \in Nat /\ DOMAIN held = 1 .. Len(held)
  BY LenProperties DEF Held
<1> QED
  BY <1>1, <1>2

\* The first buffer that is held is the one consume() looks at first.
LEMMA HeadIsOldest ==
  ASSUME Held, held # <<>>
  PROVE  Head(held) = At(pool, -pool.avail) /\ pool.avail \in 1 .. N /\ Len(held) >= 1
<1>1. Len(held) \in Nat \ {0} /\ Head(held) = held[1]
  BY EmptySeq DEF Held
<1>2. held[1] = At(pool, 1 - 1 - pool.avail)
  BY <1>1 DEF Held
<1>3. 1 - 1 - pool.avail = -pool.avail /\ pool.avail \in 1 .. N
  BY <1>1, HeldFacts DEF Held
<1> QED
  BY <1>1, <1>2, <1>3

-----------------------------------------------------------------------------
(* The invariant.                                                          *)

LEMMA HeldProduce == ASSUME Held, Produce PROVE Held'
<1>1. /\ Ring(pool) /\ InUse(pool, pool.avail) /\ CanProduce(pool) /\ pool' = Produced(pool)
      /\ held' = held
  BY DEF Held, Produce
<1>2. /\ Ring(pool') /\ InUse(pool', pool.avail) /\ pool'.avail = pool.avail
      /\ pool'.read = pool.read
  BY <1>1, ProducedFields, ProducedInUse
<1>3. \A k : At(pool', k) = At(pool, k)
  BY <1>2 DEF At
<1> QED
  BY <1>1, <1>2, <1>3 DEF Held

LEMMA HeldExtract == ASSUME Held, Extract PROVE Held'
<1>1. /\ Ring(pool) /\ InUse(pool, pool.avail) /\ CanExtract(pool) /\ pool' = Extracted(pool)
      /\ held' = Append(held, pool.read) /\ held \in Seq(Buffer) /\ Len(held) = pool.avail
  BY DEF Held, Extract
<1>2. /\ Ring(pool') /\ InUse(pool', pool'.avail) /\ pool'.avail = pool.avail + 1
      /\ pool'.read = Wrap(pool.read + 1) /\ pool.ready \in 1 .. N
  BY <1>1, ExtractedFields, ExtractedInUse
<1>3. \A k \in -N .. N - 1 : At(pool', k) = At(pool, k + 1)
  BY <1>2, HeldFacts, Steps DEF At
<1>4. pool.read = At(pool, 0)
  BY HeldFacts, Steps DEF At, Buffer
<1>5. /\ held' \in Seq(Buffer) /\ Len(held') = Len(held) + 1
      /\ \A i \in 1 .. Len(held) : held'[i] = held[i]
      /\ held'[Len(held) + 1] = pool.read
  BY <1>1, HeldFacts, AppendProperties
<1>6. ASSUME NEW i \in 1 .. Len(held') PROVE held'[i] = At(pool', i - 1 - pool'.avail)
  <2>1. /\ i \in Int /\ i - 1 - pool'.avail \in -N .. N - 1
        /\ (i - 1 - pool'.avail) + 1 = i - 1 - pool.avail
    BY <1>1, <1>2, <1>5, HeldFacts
  <2>2. At(pool', i - 1 - pool'.avail) = At(pool, i - 1 - pool.avail)
    BY <1>3, <2>1
  <2>3. CASE i \in 1 .. Len(held)
    BY <1>5, <2>2, <2>3 DEF Held
  <2>4. CASE i = Len(held) + 1
    <3>1. i - 1 - pool.avail = 0
      BY <1>1, <2>4, HeldFacts
    <3> QED
      BY <1>4, <1>5, <2>2, <2>4, <3>1
  <2> QED
    BY <1>5, <2>3, <2>4, HeldFacts
<1>7. Len(held') = pool'.avail
  BY <1>1, <1>2, <1>5
<1> QED
  BY <1>2, <1>5, <1>6, <1>7 DEF Held

LEMMA HeldConsume == ASSUME Held, Consume PROVE Held'
<1>1. /\ Ring(pool) /\ InUse(pool, pool.avail) /\ held # <<>> /\ held \in Seq(Buffer)
      /\ pool' = Consumed(pool, Head(held)) /\ held' = Tail(held) /\ Len(held) = pool.avail
  BY DEF Held, Consume
<1>2. Head(held) = At(pool, -pool.avail) /\ pool.avail \in 1 .. N /\ N \in Nat
  BY <1>1, HeadIsOldest, HeldFacts
<1>3. /\ Ring(pool') /\ InUse(pool', pool.avail - 1) /\ pool'.read = pool.read
      /\ pool'.avail = IF pool.avail = 1 THEN 0 ELSE pool.avail - 1
  <2>1. pool.avail > 0
    BY <1>2
  <2> QED
    BY <1>1, <1>2, <2>1, ConsumedOldest
<1>4. pool'.avail = pool.avail - 1
  BY <1>2, <1>3
<1>5. /\ held' \in Seq(Buffer) /\ Len(held') = Len(held) - 1
      /\ \A i \in 1 .. Len(held') : held'[i] = held[i + 1]
  BY <1>1, HeadTailProperties
<1>6. ASSUME NEW i \in 1 .. Len(held') PROVE held'[i] = At(pool', i - 1 - pool'.avail)
  <2>1. i + 1 \in 1 .. Len(held) /\ (i + 1) - 1 - pool.avail = i - 1 - pool'.avail
    BY <1>1, <1>2, <1>4, <1>5
  <2>2. held[i + 1] = At(pool, (i + 1) - 1 - pool.avail)
    BY <2>1 DEF Held
  <2> QED
    BY <1>3, <1>5, <2>1, <2>2 DEF At
<1>7. Len(held') = pool'.avail /\ InUse(pool', pool'.avail)
  BY <1>1, <1>3, <1>4, <1>5
<1> QED
  BY <1>3, <1>5, <1>6, <1>7 DEF Held

\* Every reachable state is of this kind.
LEMMA HeldAlways == Spec => []Held
<1>1. Init => Held
  <2> SUFFICES ASSUME Init PROVE Held
    OBVIOUS
  <2>1. Ring(pool) /\ InUse(pool, 0) /\ pool.avail = 0 /\ held = <<>>
    BY OpenRing DEF Init, PoolOpen
  <2>2. held \in Seq(Buffer) /\ Len(held) = 0
    BY <2>1, EmptySeq
  <2> QED
    BY <2>1, <2>2 DEF Held
<1>2. Held /\ [Next]_vars => Held'
  <2> SUFFICES ASSUME Held, [Next]_vars PROVE Held'
    OBVIOUS
  <2>1. CASE UNCHANGED vars
    BY <2>1 DEF vars, Held
  <2> QED
    BY <2>1, HeldProduce, HeldExtract, HeldConsume DEF Next
<1> QED
  BY <1>1, <1>2, PTL DEF Spec

-----------------------------------------------------------------------------
(* The theorems.                                                           *)

\* The counters of the ring stay within it (hci_mem_pool.c).
THEOREM PoolTypeCorrect == Spec => []TypeOK
<1>1. Held => TypeOK
  BY DEF Held, Ring, TypeOK
<1> QED
  BY <1>1, HeldAlways, PTL

\* hci_mem_pool_rx_consume() never refuses a buffer that was extracted.
THEOREM ConsumeNeverFails == Spec => []HeldIsConsumable
<1>1. ASSUME Held PROVE HeldIsConsumable
  <2> SUFFICES ASSUME NEW i \in 1 .. Len(held) PROVE CanConsume(pool, held[i])
    BY DEF HeldIsConsumable
  <2>1. held[i] = At(pool, i - 1 - pool.avail) /\ Len(held) = pool.avail /\ Ring(pool)
    BY <1>1 DEF Held
  <2>2. i - 1 - pool.avail \in -pool.avail .. -1
    BY <1>1, <2>1, HeldFacts
  <2> QED
    BY <2>1, <2>2, Found
<1> QED
  BY <1>1, HeldAlways, PTL

\* What a pool has ready is a sequence, each buffer at its place.
ReadyOf(p) == [i \in 1 .. p.ready |-> Wrap(p.read + i - 1)]

LEMMA ReadySequence ==
  ASSUME NEW p, Ring(p)
  PROVE  /\ ReadyOf(p) \in Seq(Buffer) /\ Len(ReadyOf(p)) = p.ready
         /\ DOMAIN ReadyOf(p) = 1 .. p.ready
         /\ \A i \in 1 .. p.ready : ReadyOf(p)[i] = At(p, i - 1)
<1>1. p.ready \in Nat /\ p.read \in Int
  BY WrapCases DEF Ring, Pool, Buffer
<1>2. \A i \in 1 .. p.ready : Wrap(p.read + i - 1) = At(p, i - 1)
  <2> TAKE i \in 1 .. p.ready
  <2>1. p.read + i - 1 = p.read + (i - 1)
    BY <1>1
  <2> QED
    BY <2>1 DEF At
<1>3. \A i \in 1 .. p.ready : Wrap(p.read + i - 1) \in Buffer
  BY <1>1, WrapCases
<1> QED
  BY <1>1, <1>2, <1>3 DEF ReadyOf

\* The mapping to RxPool, now and after a step.
LEMMA ReadyFacts ==
  ASSUME Held, Held'
  PROVE  /\ /\ ReadyBuffers \in Seq(Buffer) /\ Len(ReadyBuffers) = pool.ready
            /\ DOMAIN ReadyBuffers = 1 .. pool.ready
            /\ \A i \in 1 .. pool.ready : ReadyBuffers[i] = At(pool, i - 1)
         /\ /\ ReadyBuffers' \in Seq(Buffer) /\ Len(ReadyBuffers') = pool'.ready
            /\ \A i \in 1 .. pool'.ready : ReadyBuffers'[i] = At(pool', i - 1)
<1>1. ReadyBuffers = ReadyOf(pool) /\ ReadyBuffers' = ReadyOf(pool')
  BY DEF ReadyBuffers, ReadyOf
<1>2. Ring(pool) /\ Ring(pool')
  BY DEF Held
<1> QED
  BY <1>1, <1>2, ReadySequence

\* A buffer that is produced is neither ready nor held.
LEMMA StepProduce == ASSUME Held, Held', Produce PROVE Promise!Produce(pool.write)
<1>1. /\ Ring(pool) /\ InUse(pool, pool.avail) /\ CanProduce(pool) /\ pool' = Produced(pool)
      /\ held' = held
  BY DEF Held, Produce
<1>2. /\ pool.write \notin pool.busy /\ pool.write \in Buffer /\ pool.write = At(pool, pool.ready)
      /\ pool'.read = pool.read /\ pool'.ready = pool.ready + 1
  BY <1>1, ProducedInUse, ProducedFields
<1>3. pool.write \notin ToSet(ReadyBuffers)
  <2> SUFFICES ASSUME NEW i \in 1 .. pool.ready PROVE ReadyBuffers[i] # pool.write
    BY ReadyFacts DEF ToSet
  <2>1. ReadyBuffers[i] = At(pool, i - 1) /\ i - 1 \in 0 .. pool.ready - 1
    BY ReadyFacts, HeldFacts
  <2>2. At(pool, i - 1) \in pool.busy
    BY <1>1, <2>1 DEF InUse
  <2> QED
    BY <1>2, <2>1, <2>2
<1>4. pool.write \notin ToSet(held)
  <2> SUFFICES ASSUME NEW i \in 1 .. Len(held) PROVE held[i] # pool.write
    BY HeldFacts DEF ToSet
  <2>1. /\ held[i] = At(pool, i - 1 - pool.avail)
        /\ i - 1 - pool.avail \in -pool.avail .. pool.avail - pool.avail - 1
    BY HeldFacts DEF Held
  <2>2. At(pool, i - 1 - pool.avail) \in pool.busy
    BY <1>1, <2>1 DEF InUse
  <2> QED
    BY <1>2, <2>1, <2>2
<1>5. ReadyBuffers' = Append(ReadyBuffers, pool.write)
  <2>1. /\ ReadyBuffers' \in Seq(Buffer) /\ Len(ReadyBuffers') = pool.ready + 1
        /\ \A i \in 1 .. pool.ready + 1 : ReadyBuffers'[i] = At(pool', i - 1)
    <3>1. /\ ReadyBuffers' \in Seq(Buffer) /\ Len(ReadyBuffers') = pool'.ready
          /\ \A i \in 1 .. pool'.ready : ReadyBuffers'[i] = At(pool', i - 1)
      BY ReadyFacts
    <3> QED
      BY <1>2, <3>1
  <2>2. /\ Append(ReadyBuffers, pool.write) \in Seq(Buffer)
        /\ Len(Append(ReadyBuffers, pool.write)) = pool.ready + 1
        /\ \A i \in 1 .. pool.ready : Append(ReadyBuffers, pool.write)[i] = ReadyBuffers[i]
        /\ Append(ReadyBuffers, pool.write)[pool.ready + 1] = pool.write
    BY <1>2, ReadyFacts, AppendProperties
  <2>3. ASSUME NEW i \in 1 .. pool.ready + 1
        PROVE  ReadyBuffers'[i] = Append(ReadyBuffers, pool.write)[i]
    <3>1. ReadyBuffers'[i] = At(pool, i - 1)
      BY <1>2, <2>1 DEF At
    <3>2. CASE i \in 1 .. pool.ready
      BY <2>2, <3>1, <3>2, ReadyFacts
    <3>3. CASE i = pool.ready + 1
      <4>1. i - 1 = pool.ready
        BY <3>3, HeldFacts
      <4> QED
        BY <1>2, <2>2, <3>1, <3>3, <4>1
    <3>4. pool.ready \in Nat
      BY HeldFacts
    <3>5. i \in 1 .. pool.ready \/ i = pool.ready + 1
      BY <3>4
    <3> QED
      BY <3>2, <3>3, <3>5
  <2> QED
    BY <2>1, <2>2, <2>3, SeqEqual
<1> QED
  BY <1>1, <1>3, <1>4, <1>5 DEF Promise!Produce, Promise!ToSet, ToSet

\* Extraction takes the buffer that was ready first.
LEMMA StepExtract == ASSUME Held, Held', Extract PROVE Promise!Extract
<1>1. /\ Ring(pool) /\ CanExtract(pool) /\ pool' = Extracted(pool)
      /\ held' = Append(held, pool.read)
  BY DEF Held, Extract
<1>2. /\ pool'.ready = pool.ready - 1 /\ pool'.read = Wrap(pool.read + 1)
      /\ pool.ready \in 1 .. N
  BY <1>1, ExtractedFields
<1>3. \A k \in -N .. N - 1 : At(pool', k) = At(pool, k + 1)
  BY <1>2, HeldFacts, Steps DEF At
<1>4. pool.read = At(pool, 0)
  BY HeldFacts, Steps DEF At, Buffer
<1>5. ReadyBuffers # <<>> /\ Head(ReadyBuffers) = pool.read
  <2>1. Len(ReadyBuffers) # 0 /\ ReadyBuffers[1] = At(pool, 1 - 1)
    BY <1>2, ReadyFacts
  <2>2. ReadyBuffers # <<>>
    BY <2>1, EmptySeq, ReadyFacts
  <2> QED
    BY <1>4, <2>1, <2>2, ReadyFacts
<1>6. ReadyBuffers' = Tail(ReadyBuffers)
  <2>1. /\ ReadyBuffers' \in Seq(Buffer) /\ Len(ReadyBuffers') = pool.ready - 1
        /\ \A i \in 1 .. pool.ready - 1 : ReadyBuffers'[i] = At(pool', i - 1)
    <3>1. /\ ReadyBuffers' \in Seq(Buffer) /\ Len(ReadyBuffers') = pool'.ready
          /\ \A i \in 1 .. pool'.ready : ReadyBuffers'[i] = At(pool', i - 1)
      BY ReadyFacts
    <3> QED
      BY <1>2, <3>1
  <2>2. /\ Tail(ReadyBuffers) \in Seq(Buffer) /\ Len(Tail(ReadyBuffers)) = pool.ready - 1
        /\ \A i \in 1 .. pool.ready - 1 : Tail(ReadyBuffers)[i] = ReadyBuffers[i + 1]
    <3>1. /\ Tail(ReadyBuffers) \in Seq(Buffer)
          /\ Len(Tail(ReadyBuffers)) = Len(ReadyBuffers) - 1
          /\ \A i \in 1 .. Len(Tail(ReadyBuffers)) : Tail(ReadyBuffers)[i] = ReadyBuffers[i + 1]
      BY <1>5, ReadyFacts, HeadTailProperties
    <3> QED
      BY <3>1, ReadyFacts
  <2>3. ASSUME NEW i \in 1 .. pool.ready - 1 PROVE ReadyBuffers'[i] = Tail(ReadyBuffers)[i]
    <3>1. i + 1 \in 1 .. pool.ready /\ i - 1 \in -N .. N - 1 /\ (i - 1) + 1 = (i + 1) - 1
      BY <1>2, HeldFacts
    <3>2. ReadyBuffers'[i] = At(pool, (i + 1) - 1)
      BY <1>3, <2>1, <3>1
    <3>3. ReadyBuffers[i + 1] = At(pool, (i + 1) - 1)
      BY <3>1, ReadyFacts
    <3> QED
      BY <2>2, <3>2, <3>3
  <2> QED
    BY <2>1, <2>2, <2>3, SeqEqual
<1> QED
  BY <1>1, <1>5, <1>6 DEF Promise!Extract

\* Consumption takes the first of the client's buffers.
LEMMA StepConsume == ASSUME Held, Held', Consume PROVE Promise!Consume(1) /\ 1 \in 1 .. Len(held)
<1>1. /\ Ring(pool) /\ InUse(pool, pool.avail) /\ held # <<>> /\ held \in Seq(Buffer)
      /\ pool' = Consumed(pool, Head(held)) /\ held' = Tail(held)
  BY DEF Held, Consume
<1>2. pool'.ready = pool.ready /\ pool'.read = pool.read
  BY <1>1, ConsumedFields
<1>3. ReadyBuffers' = ReadyBuffers
  BY <1>2 DEF ReadyBuffers
<1>4. RemoveAt(held, 1) = Tail(held)
  <2>1. SubSeq(held, 1, 1 - 1) = <<>>
    BY SubSeqEmpty
  <2>2. SubSeq(held, 1 + 1, Len(held)) = Tail(held) /\ Tail(held) \in Seq(Buffer)
    BY <1>1, TailIsSubSeq, HeadTailProperties
  <2>3. <<>> \o Tail(held) = Tail(held)
    BY <2>2, ConcatEmptySeq
  <2> QED
    BY <2>1, <2>2, <2>3 DEF RemoveAt
<1>5. 1 \in 1 .. Len(held)
  BY <1>1, HeadIsOldest, HeldFacts
<1> QED
  BY <1>1, <1>3, <1>4, <1>5 DEF Promise!Consume, Promise!RemoveAt, RemoveAt

\* hci_transport.h: "Extracted memory can't be reused by the underlying transport
\* layer untill freed", and buffers are extracted in the order of production: the
\* ring implements RxPool.
THEOREM RingKeepsPromise == Spec => KeepsPromise
<1>1. ASSUME Init PROVE Promise!Init
  <2>1. pool.ready = 0 /\ held = <<>> /\ Held
    <3>1. Ring(pool) /\ InUse(pool, 0) /\ pool.avail = 0 /\ held = <<>> /\ pool.ready = 0
      BY <1>1, OpenRing DEF Init, PoolOpen
    <3>2. held \in Seq(Buffer) /\ Len(held) = 0
      BY <3>1, EmptySeq
    <3> QED
      BY <3>1, <3>2 DEF Held
  <2>2. ReadyBuffers = <<>>
    <3>1. ReadyOf(pool) \in Seq(Buffer) /\ Len(ReadyOf(pool)) = 0
      BY <2>1, ReadySequence DEF Held
    <3> QED
      BY <3>1, EmptySeq DEF ReadyOf, ReadyBuffers
  <2> QED
    BY <2>1, <2>2 DEF Promise!Init
<1>2. ASSUME Held, Held', [Next]_vars PROVE [Promise!Next]_(Promise!vars)
  <2>1. CASE UNCHANGED vars
    BY <2>1 DEF vars, Promise!vars, ReadyBuffers
  <2>2. CASE Produce
    <3>1. Promise!Produce(pool.write) /\ pool.write \in Buffer
      BY <1>2, <2>2, StepProduce DEF Held, Ring, Pool
    <3> QED
      BY <3>1 DEF Promise!Next
  <2>3. CASE Extract
    BY <1>2, <2>3, StepExtract DEF Promise!Next
  <2>4. CASE Consume
    BY <1>2, <2>4, StepConsume DEF Promise!Next
  <2> QED
    BY <1>2, <2>1, <2>2, <2>3, <2>4 DEF Next
<1> QED
  BY <1>1, <1>2, HeldAlways, PTL DEF Spec, Promise!Spec, KeepsPromise

-----------------------------------------------------------------------------
(* The scheduler.                                                          *)

\* The operators of FiniteSets that AppScheduler extends are those of the library.
LEMMA SameCardinality ==
  /\ \A S : Sched!Cardinality(S) = Cardinality(S)
  /\ \A S : Sched!IsFiniteSet(S) = IsFiniteSet(S)
<1>1. \A S : Sched!Cardinality(S) = Cardinality(S)
  BY Zenon DEF Sched!Cardinality, Cardinality
<1>2. \A S : Sched!IsFiniteSet(S) = IsFiniteSet(S)
  BY Zenon DEF Sched!IsFiniteSet, IsFiniteSet
<1> QED BY <1>1, <1>2

\* What is assumed of the size of the queue and of the events.
LEMMA SchedConstants ==
  /\ QSize \in 1 .. 254
  /\ IsFiniteSet(Timer) /\ Cardinality(Timer) + 2 <= QSize
  /\ Sd \notin Timer /\ NoEvent \notin Timer \cup {Sd}
<1>1. /\ QSize \in 1 .. 254 /\ Sd \notin Timer /\ NoEvent \notin Timer \cup {Sd}
      /\ Sched!IsFiniteSet(Timer) /\ Sched!Cardinality(Timer) + 2 <= QSize
  BY SchedAssumption DEF Sched!QueueAssumption
<1> QED BY <1>1, SameCardinality

LEMMA SchedSize == QSize \in Nat /\ QSize > 0
  BY SchedConstants

\* The slots between two indices.
Between(s, e) == IF s <= e THEN s .. e - 1 ELSE (s .. QSize) \cup (0 .. e - 1)

LEMMA Advance ==
  ASSUME NEW s \in Sched!Index, NEW e \in Sched!Index
  PROVE  /\ Sched!NextIndex(e) \in Sched!Index /\ Sched!NextIndex(e) # e
         /\ Sched!NextIndex(e) # s => /\ Between(s, Sched!NextIndex(e)) = Between(s, e) \cup {e}
                                      /\ e \notin Between(s, e)
         /\ s # e => /\ Between(Sched!NextIndex(s), e) = Between(s, e) \ {s}
                     /\ s \in Between(s, e)
         /\ Sched!NextIndex(e) = s => Between(s, e) = Sched!Index \ {e}
         /\ Between(s, e) \subseteq Sched!Index
         /\ Between(s, s) = {}
<1>1. QSize \in Nat /\ QSize > 0
  BY SchedConstants
<1>2. Sched!NextIndex(e) \in Sched!Index /\ Sched!NextIndex(e) # e
  BY <1>1 DEF Sched!Index, Sched!NextIndex
<1>3. Sched!NextIndex(e) # s => Between(s, Sched!NextIndex(e)) = Between(s, e) \cup {e}
                                /\ e \notin Between(s, e)
  BY <1>1 DEF Between, Sched!Index, Sched!NextIndex
<1>4. s # e => Between(Sched!NextIndex(s), e) = Between(s, e) \ {s} /\ s \in Between(s, e)
  BY <1>1 DEF Between, Sched!Index, Sched!NextIndex
<1>5. Sched!NextIndex(e) = s => Between(s, e) = Sched!Index \ {e}
  BY <1>1 DEF Between, Sched!Index, Sched!NextIndex
<1>6. Between(s, e) \subseteq Sched!Index /\ Between(s, s) = {}
  BY <1>1 DEF Between, Sched!Index, Sched!NextIndex
<1> QED BY <1>2, <1>3, <1>4, <1>5, <1>6

\* The event in a slot, for the calls r in progress and the slots t.
EventIn(r, t, i) ==
  IF {k \in 1 .. Len(r) : r[k].i = i} = {} THEN t[i].data
  ELSE r[CHOOSE k \in {k \in 1 .. Len(r) : r[k].i = i} : TRUE].ev
OwnSlots(r) == \A k, l \in 1 .. Len(r) : r[k].i = r[l].i => k = l

LEMMA PutInIs == \A i : Sched!PutIn(i) = EventIn(sIsr, sEntry, i)
  BY Zenon DEF Sched!PutIn, Sched!Writing, EventIn

LEMMA BeingWritten ==
  ASSUME NEW r, NEW t, OwnSlots(r), NEW k \in 1 .. Len(r)
  PROVE  EventIn(r, t, r[k].i) = r[k].ev
<1>1. {j \in 1 .. Len(r) : r[j].i = r[k].i} = {k}
  BY DEF OwnSlots
<1>2. (CHOOSE j \in {k} : TRUE) = k
  OBVIOUS
<1> QED BY <1>1, <1>2 DEF EventIn

LEMMA WasWritten ==
  ASSUME NEW r, NEW t, NEW i, \A k \in 1 .. Len(r) : r[k].i # i
  PROVE  EventIn(r, t, i) = t[i].data
<1>1. {k \in 1 .. Len(r) : r[k].i = i} = {}
  OBVIOUS
<1> QED BY <1>1 DEF EventIn

\* The events of slots that have the same calls and the same data.
LEMMA SameEvents ==
  ASSUME NEW r, NEW t, NEW q, NEW u, NEW i, OwnSlots(r), OwnSlots(q),
         (\E k \in 1 .. Len(r) : r[k].i = i) =>
            \E k \in 1 .. Len(r), l \in 1 .. Len(q) :
               r[k].i = i /\ q[l].i = i /\ r[k].ev = q[l].ev,
         (\A k \in 1 .. Len(r) : r[k].i # i) =>
            (\A k \in 1 .. Len(q) : q[k].i # i) /\ t[i].data = u[i].data
  PROVE  EventIn(r, t, i) = EventIn(q, u, i)
<1>1. CASE \A k \in 1 .. Len(r) : r[k].i # i
  BY <1>1, WasWritten
<1>2. CASE \E k \in 1 .. Len(r) : r[k].i = i
  <2>1. PICK k \in 1 .. Len(r), l \in 1 .. Len(q) : r[k].i = i /\ q[l].i = i /\ r[k].ev = q[l].ev
    BY <1>2
  <2>2. EventIn(r, t, r[k].i) = r[k].ev /\ EventIn(q, u, q[l].i) = q[l].ev
    BY BeingWritten
  <2> QED BY <2>1, <2>2
<1> QED BY <1>1, <1>2

-----------------------------------------------------------------------------
(* The invariant.                                                          *)

Call == [ev : Sched!Event, i : Sched!Index, pc : {"handler", "data"}]

\* The calls in progress have slots of their own in the window, and only the
\* SoftDevice's interrupts another's.
Calls ==
  /\ \A k \in 1 .. Len(sIsr) : sIsr[k].i \in Sched!Window
  /\ OwnSlots(sIsr)
  /\ Len(sIsr) = 2 => sIsr[1].ev = Sd /\ sIsr[2].ev # Sd

\* A slot that nobody writes has an event, whole.
Written ==
  /\ \A i \in Sched!Window : Sched!Writing(i) = {} => /\ sEntry[i].handler = sEntry[i].data
                                                      /\ sEntry[i].data \in Sched!Event
  /\ \A k \in 1 .. Len(sIsr) : sIsr[k].pc = "data" => sEntry[sIsr[k].i].handler = sIsr[k].ev

\* The main loop handles the first slot of the window.
Runs ==
  sMain.pc # "idle" => /\ sStart # sEnd /\ sMain.i = sStart /\ Sched!Writing(sStart) = {}
                       /\ sMain.ev = sEntry[sStart].handler

OneEach ==
  \A i, j \in Sched!Window :
    EventIn(sIsr, sEntry, i) = EventIn(sIsr, sEntry, j) /\ EventIn(sIsr, sEntry, i) \in Timer => i = j

Fetched ==
  sSd => sIrq \/ \E i \in Sched!Window : /\ EventIn(sIsr, sEntry, i) = Sd
                                         /\ ~(sMain.pc = "done" /\ sMain.i = i)

SchedInv == Sched!TypeOK /\ Calls /\ Written /\ Runs /\ OneEach /\ Fetched

LEMMA WindowIs == Sched!Window = Between(sStart, sEnd) /\ Sched!Window' = Between(sStart', sEnd')
  BY DEF Sched!Window, Between

\* What Reserve does to the calls and the events of the slots.
LEMMA Reserved ==
  ASSUME SchedInv, NEW e \in Sched!Event, ~Sched!Full, Sched!Preempts(e), Sched!Reserve(e)
  PROVE  /\ sIsr' \in Seq(Call) /\ Len(sIsr') = Len(sIsr) + 1 /\ Len(sIsr') <= 2
         /\ sIsr'[1] = [ev |-> e, i |-> sEnd, pc |-> "handler"]
         /\ \A k \in 1 .. Len(sIsr) : sIsr'[k + 1] = sIsr[k]
         /\ \A k \in 2 .. Len(sIsr') : sIsr'[k] = sIsr[k - 1]
         /\ Sched!Window' = Sched!Window \cup {sEnd} /\ sEnd \notin Sched!Window /\ Sched!Window \subseteq Sched!Index
         /\ sEnd' \in Sched!Index /\ sStart \in Sched!Index /\ sEnd' # sStart
         /\ Calls'
         /\ \A i \in Sched!Window : EventIn(sIsr', sEntry', i) = EventIn(sIsr, sEntry, i)
         /\ EventIn(sIsr', sEntry', sEnd) = e
<1>1. sIsr \in Seq(Call) /\ Len(sIsr) \in Nat /\ Len(sIsr) <= 2 /\ sStart \in Sched!Index /\ sEnd \in Sched!Index
  BY DEF SchedInv, Sched!TypeOK, Call
<1>0. Len(sIsr) \in {0, 1, 2}
  <2>1. Len(sIsr) \in Nat
    BY <1>1
  <2>2. Len(sIsr) <= 2
    BY <1>1
  <2>3. \A n \in Nat : n <= 2 => n \in {0, 1, 2}
    OBVIOUS
  <2> QED BY ONLY <2>1, <2>2, <2>3
<1>2. [ev |-> e, i |-> sEnd, pc |-> "handler"] \in Call
  BY <1>1 DEF Call
<1>3. /\ sIsr' \in Seq(Call) /\ Len(sIsr') = Len(sIsr) + 1
      /\ sIsr'[1] = [ev |-> e, i |-> sEnd, pc |-> "handler"]
      /\ \A k \in 1 .. Len(sIsr) : sIsr'[k + 1] = sIsr[k]
      /\ \A k \in 2 .. Len(sIsr') : sIsr'[k] = sIsr[k - 1]
  BY <1>1, <1>2 DEF Sched!Reserve
<1>4. Len(sIsr) <= 1 /\ (Len(sIsr) = 1 => e = Sd /\ sIsr[1].ev # Sd)
  <2>1. CASE sIsr = <<>>
    BY <2>1
  <2>2. CASE e = Sd /\ \A k \in 1 .. Len(sIsr) : sIsr[k].ev # Sd
    <3>1. Len(sIsr) = 2 => sIsr[1].ev = Sd
      BY DEF SchedInv, Calls
    <3>2. Len(sIsr) >= 1 => sIsr[1].ev # Sd
      BY <2>2, <1>1
    <3> QED BY <3>1, <3>2, <2>2, <1>0
  <2> QED BY <2>1, <2>2 DEF Sched!Preempts
<1>5. /\ Sched!Window' = Sched!Window \cup {sEnd} /\ sEnd \notin Sched!Window /\ Sched!Window \subseteq Sched!Index
      /\ sEnd' \in Sched!Index /\ sEnd' # sStart
  BY <1>1, WindowIs, Advance DEF Sched!Reserve, Sched!Full
<1>6. \A k \in 1 .. Len(sIsr) : sIsr[k].i \in Sched!Window /\ sIsr[k].i # sEnd
  BY <1>5 DEF SchedInv, Calls
<1>7. OwnSlots(sIsr) /\ OwnSlots(sIsr')
  <2>1. OwnSlots(sIsr)
    BY DEF SchedInv, Calls
  <2>2. \A k, l \in 1 .. Len(sIsr') : sIsr'[k].i = sIsr'[l].i => k = l
    BY <2>1, <1>1, <1>3, <1>4, <1>6 DEF OwnSlots
  <2> QED BY <2>1, <2>2 DEF OwnSlots
<1>8. Calls'
  <2>1. ASSUME NEW k \in 1 .. Len(sIsr') PROVE sIsr'[k].i \in Sched!Window'
    <3>1. CASE k = 1
      BY <3>1, <1>3, <1>5
    <3>2. CASE k # 1
      <4>1. k - 1 \in 1 .. Len(sIsr) /\ sIsr'[k] = sIsr[k - 1]
        BY <3>2, <1>1, <1>3
      <4> QED BY <4>1, <1>5, <1>6
    <3> QED BY <3>1, <3>2
  <2>2. Len(sIsr') = 2 => sIsr'[1].ev = Sd /\ sIsr'[2].ev # Sd
    <3> SUFFICES ASSUME Len(sIsr') = 2 PROVE sIsr'[1].ev = Sd /\ sIsr'[2].ev # Sd
      OBVIOUS
    <3>1. Len(sIsr) = 1
      <4>1. Len(sIsr') = Len(sIsr) + 1
        BY <1>3
      <4> QED BY <4>1, <1>0
    <3>2. sIsr'[2] = sIsr[1]
      BY <1>3, <3>1, 2 \in 2 .. Len(sIsr')
    <3> QED BY <1>3, <1>4, <3>1, <3>2
  <2> QED BY <2>1, <2>2, <1>7 DEF Calls
<1>9. EventIn(sIsr', sEntry', sEnd) = e
  <2>1. 1 \in 1 .. Len(sIsr')
    BY <1>1, <1>3
  <2>2. EventIn(sIsr', sEntry', sIsr'[1].i) = sIsr'[1].ev
    BY <2>1, <1>7, BeingWritten
  <2> QED BY <2>2, <1>3
<1>10. ASSUME NEW i \in Sched!Window PROVE EventIn(sIsr', sEntry', i) = EventIn(sIsr, sEntry, i)
  <2>1. sEntry' = sEntry /\ i # sEnd
    BY <1>5 DEF Sched!Reserve
  <2>2. CASE \E k \in 1 .. Len(sIsr) : sIsr[k].i = i
    <3>1. PICK k \in 1 .. Len(sIsr) : sIsr[k].i = i
      BY <2>2
    <3>2. k + 1 \in 1 .. Len(sIsr') /\ sIsr'[k + 1] = sIsr[k]
      BY <1>1, <1>3
    <3>3. EventIn(sIsr, sEntry, sIsr[k].i) = sIsr[k].ev
      BY <1>7, BeingWritten
    <3>4. EventIn(sIsr', sEntry', sIsr'[k + 1].i) = sIsr'[k + 1].ev
      BY <1>7, <3>2, BeingWritten
    <3> QED BY <3>1, <3>2, <3>3, <3>4
  <2>3. CASE \A k \in 1 .. Len(sIsr) : sIsr[k].i # i
    <3>1. \A k \in 1 .. Len(sIsr') : sIsr'[k].i # i
      BY <2>1, <2>3, <1>1, <1>3
    <3>2. EventIn(sIsr', sEntry', i) = sEntry'[i].data
      BY <3>1, WasWritten
    <3>3. EventIn(sIsr, sEntry, i) = sEntry[i].data
      BY <2>3, WasWritten
    <3> QED BY <3>2, <3>3, <2>1
  <2> QED BY <2>2, <2>3
<1> QED BY <1>1, <1>3, <1>4, <1>5, <1>8, <1>9, <1>10

\* A step that keeps the window and the events in it.
SameRing ==
  /\ sStart' = sStart /\ sEnd' = sEnd
  /\ \A i \in Sched!Window : EventIn(sIsr', sEntry', i) = EventIn(sIsr, sEntry, i)

LEMMA SchedTypes ==
  ASSUME Sched!TypeOK
  PROVE  /\ sIsr \in Seq(Call) /\ Len(sIsr) \in {0, 1, 2}
         /\ sStart \in Sched!Index /\ sEnd \in Sched!Index
         /\ sEntry \in [Sched!Index -> [handler : Sched!Event \cup {NoEvent}, data : Sched!Event \cup {NoEvent}]]
         /\ sMain \in [pc : {"idle", "run", "done"}, i : Sched!Index, ev : Sched!Event \cup {NoEvent}]
         /\ \A k \in 1 .. Len(sIsr) : /\ sIsr[k].ev \in Sched!Event /\ sIsr[k].i \in Sched!Index
                                      /\ sIsr[k].pc \in {"handler", "data"}
<1>1. sIsr \in Seq(Call)
  BY DEF Sched!TypeOK, Call
<1>2. Len(sIsr) \in Nat
  BY <1>1
<1>3. Len(sIsr) <= 2
  BY DEF Sched!TypeOK
<1>4. \A n \in Nat : n <= 2 => n \in {0, 1, 2}
  OBVIOUS
<1>5. Len(sIsr) \in {0, 1, 2}
  BY ONLY <1>2, <1>3, <1>4
<1>6. \A k \in 1 .. Len(sIsr) : sIsr[k] \in Call
  BY <1>1
<1>7. \A k \in 1 .. Len(sIsr) : /\ sIsr[k].ev \in Sched!Event /\ sIsr[k].i \in Sched!Index
                                /\ sIsr[k].pc \in {"handler", "data"}
  BY <1>6 DEF Call
<1> QED BY <1>1, <1>5, <1>7 DEF Sched!TypeOK

LEMMA HandlerWritten ==
  ASSUME SchedInv, Sched!WriteHandler
  PROVE  SchedInv' /\ SameRing
<1>1. /\ sIsr \in Seq(Call) /\ Len(sIsr) \in {0, 1, 2} /\ sStart \in Sched!Index /\ sEnd \in Sched!Index
      /\ sEntry \in [Sched!Index -> [handler : Sched!Event \cup {NoEvent}, data : Sched!Event \cup {NoEvent}]]
      /\ \A k \in 1 .. Len(sIsr) : /\ sIsr[k].ev \in Sched!Event /\ sIsr[k].i \in Sched!Index
                                   /\ sIsr[k].pc \in {"handler", "data"}
  BY SchedTypes DEF SchedInv
<1>2. sIsr # <<>> /\ Head(sIsr) = sIsr[1] /\ 1 \in 1 .. Len(sIsr)
  BY <1>1 DEF Sched!WriteHandler
<1>3. [sIsr[1] EXCEPT !.pc = "data"] \in Call
  <2>1. sIsr[1] \in Call
    BY <1>1, <1>2
  <2> QED BY <2>1 DEF Call
<1>4. /\ sIsr' \in Seq(Call) /\ Len(sIsr') = Len(sIsr)
      /\ sIsr'[1] = [sIsr[1] EXCEPT !.pc = "data"]
      /\ \A k \in 2 .. Len(sIsr) : sIsr'[k] = sIsr[k]
  <2> DEFINE c == [sIsr[1] EXCEPT !.pc = "data"]
  <2>1. sIsr' = <<c>> \o Tail(sIsr)
    BY <1>2 DEF Sched!WriteHandler
  <2>2. c \in Call
    BY <1>3
  <2> HIDE DEF c
  <2>3. Tail(sIsr) \in Seq(Call) /\ Len(Tail(sIsr)) = Len(sIsr) - 1
    BY <1>1, <1>2
  <2>4. \A k \in 1 .. Len(sIsr) - 1 : Tail(sIsr)[k] = sIsr[k + 1]
    BY <1>1, <1>2
  <2>5. sIsr' \in Seq(Call) /\ Len(sIsr') = 1 + Len(Tail(sIsr)) /\ sIsr'[1] = c
    BY <2>1, <2>2, <2>3
  <2>6. \A k \in 2 .. Len(sIsr) : sIsr'[k] = Tail(sIsr)[k - 1]
    BY <2>1, <2>2, <2>3
  <2> QED BY <2>3, <2>4, <2>5, <2>6, <1>1 DEF c
<1>5. \A k \in 1 .. Len(sIsr) : sIsr'[k].i = sIsr[k].i /\ sIsr'[k].ev = sIsr[k].ev
  <2>1. sIsr'[1].i = sIsr[1].i /\ sIsr'[1].ev = sIsr[1].ev
    <3>1. sIsr[1] \in Call
      BY <1>1, <1>2
    <3> QED BY <3>1, <1>4 DEF Call
  <2>2. \A k \in 2 .. Len(sIsr) : sIsr'[k].i = sIsr[k].i /\ sIsr'[k].ev = sIsr[k].ev
    BY <1>4
  <2> QED BY <2>1, <2>2, <1>1
<1>6. sEntry' = [sEntry EXCEPT ![sIsr[1].i].handler = sIsr[1].ev]
  BY <1>2 DEF Sched!WriteHandler
<1>7. /\ sStart' = sStart /\ sEnd' = sEnd /\ Sched!Window' = Sched!Window /\ sMain' = sMain /\ sSd' = sSd /\ sIrq' = sIrq
  BY WindowIs DEF Sched!WriteHandler
<1>8. sIsr[1].i \in Sched!Index /\ sIsr[1].ev \in Sched!Event
  BY <1>1, <1>2
<1>9. /\ sEntry' \in [Sched!Index -> [handler : Sched!Event \cup {NoEvent}, data : Sched!Event \cup {NoEvent}]]
      /\ \A i \in Sched!Index : sEntry'[i].data = sEntry[i].data
      /\ \A i \in Sched!Index : i # sIsr[1].i => sEntry'[i] = sEntry[i]
      /\ sEntry'[sIsr[1].i].handler = sIsr[1].ev
  BY <1>1, <1>6, <1>8
<1>10. Sched!Window \subseteq Sched!Index
  BY <1>1, WindowIs, Advance
<1>11. OwnSlots(sIsr) /\ OwnSlots(sIsr')
  BY <1>1, <1>4, <1>5 DEF SchedInv, Calls, OwnSlots
<1>12. SameRing
  <2>1. ASSUME NEW i \in Sched!Window PROVE EventIn(sIsr', sEntry', i) = EventIn(sIsr, sEntry, i)
    BY <1>4, <1>5, <1>9, <1>10, <1>11, SameEvents
  <2> QED BY <2>1, <1>7 DEF SameRing
<1>13. \A i : Sched!Writing(i)' = Sched!Writing(i)
  BY <1>4, <1>5 DEF Sched!Writing
<1>14. Sched!TypeOK'
  <2>1. sIsr' \in Seq([ev : Sched!Event, i : Sched!Index, pc : {"handler", "data"}]) /\ Len(sIsr') <= 2
    BY <1>1, <1>4 DEF Call
  <2> QED BY <2>1, <1>7, <1>9 DEF SchedInv, Sched!TypeOK
<1>15. Calls'
  BY <1>4, <1>5, <1>7, <1>11 DEF SchedInv, Calls
<1>16. Written'
  <2>1. ASSUME NEW i \in Sched!Window, Sched!Writing(i) = {}
        PROVE  sEntry'[i].handler = sEntry'[i].data /\ sEntry'[i].data \in Sched!Event
    <3>1. i # sIsr[1].i
      BY <2>1, <1>2 DEF Sched!Writing
    <3>2. sEntry'[i] = sEntry[i]
      BY <3>1, <1>9, <1>10
    <3> QED BY <3>2, <2>1 DEF SchedInv, Written
  <2>2. ASSUME NEW k \in 1 .. Len(sIsr), sIsr'[k].pc = "data"
        PROVE  sEntry'[sIsr'[k].i].handler = sIsr'[k].ev
    <3>1. CASE k = 1
      BY <3>1, <1>5, <1>9
    <3>2. CASE k # 1
      <4>1. sIsr'[k] = sIsr[k] /\ sIsr[k].i # sIsr[1].i /\ sIsr[k].i \in Sched!Index
        BY <3>2, <1>1, <1>2, <1>4, <1>11 DEF OwnSlots
      <4>2. sEntry'[sIsr[k].i] = sEntry[sIsr[k].i]
        BY <4>1, <1>9
      <4> QED BY <4>1, <4>2, <2>2 DEF SchedInv, Written
    <3> QED BY <3>1, <3>2
  <2> QED BY <2>1, <2>2, <1>4, <1>7, <1>13 DEF Written
<1>17. Runs'
  <2> SUFFICES ASSUME sMain.pc # "idle"
               PROVE  /\ sStart # sEnd /\ sMain.i = sStart /\ Sched!Writing(sStart) = {}
                      /\ sMain.ev = sEntry'[sStart].handler
    BY <1>7, <1>13 DEF Runs
  <2>1. sStart # sEnd /\ sMain.i = sStart /\ Sched!Writing(sStart) = {} /\ sMain.ev = sEntry[sStart].handler
    BY DEF SchedInv, Runs
  <2>2. sStart # sIsr[1].i
    BY <2>1, <1>2 DEF Sched!Writing
  <2> QED BY <2>1, <2>2, <1>1, <1>9
<1>18. OneEach' /\ Fetched'
  BY <1>7, <1>12 DEF SameRing, SchedInv, OneEach, Fetched
<1> QED BY <1>12, <1>14, <1>15, <1>16, <1>17, <1>18 DEF SchedInv

LEMMA DataWritten ==
  ASSUME SchedInv, Sched!WriteData
  PROVE  SchedInv' /\ SameRing
<1>1. /\ sIsr \in Seq(Call) /\ Len(sIsr) \in {0, 1, 2} /\ sStart \in Sched!Index /\ sEnd \in Sched!Index
      /\ sEntry \in [Sched!Index -> [handler : Sched!Event \cup {NoEvent}, data : Sched!Event \cup {NoEvent}]]
      /\ \A k \in 1 .. Len(sIsr) : /\ sIsr[k].ev \in Sched!Event /\ sIsr[k].i \in Sched!Index
                                   /\ sIsr[k].pc \in {"handler", "data"}
  BY SchedTypes DEF SchedInv
<1>2. sIsr # <<>> /\ Head(sIsr) = sIsr[1] /\ 1 \in 1 .. Len(sIsr) /\ sIsr[1].pc = "data"
  BY <1>1 DEF Sched!WriteData
<1>3. /\ sIsr' \in Seq(Call) /\ Len(sIsr') = Len(sIsr) - 1
      /\ \A k \in 1 .. Len(sIsr') : k + 1 \in 1 .. Len(sIsr) /\ sIsr'[k] = sIsr[k + 1]
  BY <1>1, <1>2 DEF Sched!WriteData
<1>4. \A k \in 2 .. Len(sIsr) : k - 1 \in 1 .. Len(sIsr') /\ sIsr'[k - 1] = sIsr[k]
  BY <1>1, <1>3
<1>5. sEntry' = [sEntry EXCEPT ![sIsr[1].i].data = sIsr[1].ev]
  BY <1>2 DEF Sched!WriteData
<1>6. /\ sStart' = sStart /\ sEnd' = sEnd /\ Sched!Window' = Sched!Window /\ sMain' = sMain /\ sSd' = sSd /\ sIrq' = sIrq
  BY WindowIs DEF Sched!WriteData
<1>7. sIsr[1].i \in Sched!Index /\ sIsr[1].ev \in Sched!Event
  BY <1>1, <1>2
<1>8. /\ sEntry' \in [Sched!Index -> [handler : Sched!Event \cup {NoEvent}, data : Sched!Event \cup {NoEvent}]]
      /\ \A i \in Sched!Index : sEntry'[i].handler = sEntry[i].handler
      /\ \A i \in Sched!Index : i # sIsr[1].i => sEntry'[i] = sEntry[i]
      /\ sEntry'[sIsr[1].i].data = sIsr[1].ev
  BY <1>1, <1>5, <1>7
<1>9. Sched!Window \subseteq Sched!Index
  BY <1>1, WindowIs, Advance
<1>10. OwnSlots(sIsr) /\ OwnSlots(sIsr')
  <2>1. OwnSlots(sIsr)
    BY DEF SchedInv, Calls
  <2>2. ASSUME NEW k \in 1 .. Len(sIsr'), NEW l \in 1 .. Len(sIsr'), sIsr'[k].i = sIsr'[l].i
        PROVE  k = l
    <3>1. k + 1 = l + 1
      BY <2>1, <2>2, <1>3 DEF OwnSlots
    <3> QED BY <3>1
  <2> QED BY <2>1, <2>2 DEF OwnSlots
<1>11. \A k \in 1 .. Len(sIsr') : sIsr'[k].i # sIsr[1].i
  BY <1>1, <1>2, <1>3, <1>10 DEF OwnSlots
<1>12. ASSUME NEW i \in Sched!Window PROVE EventIn(sIsr', sEntry', i) = EventIn(sIsr, sEntry, i)
  <2>1. CASE i = sIsr[1].i
    <3>1. EventIn(sIsr, sEntry, sIsr[1].i) = sIsr[1].ev
      BY <1>2, <1>10, BeingWritten
    <3>2. EventIn(sIsr', sEntry', sIsr[1].i) = sEntry'[sIsr[1].i].data
      BY <1>11, WasWritten
    <3> QED BY <2>1, <3>1, <3>2, <1>8
  <2>2. CASE i # sIsr[1].i /\ \E k \in 1 .. Len(sIsr) : sIsr[k].i = i
    <3>1. PICK k \in 1 .. Len(sIsr) : sIsr[k].i = i
      BY <2>2
    <3>2. k \in 2 .. Len(sIsr)
      BY <2>2, <3>1
    <3>3. EventIn(sIsr, sEntry, sIsr[k].i) = sIsr[k].ev
      BY <1>10, BeingWritten
    <3>4. EventIn(sIsr', sEntry', sIsr'[k - 1].i) = sIsr'[k - 1].ev
      BY <3>2, <1>4, <1>10, BeingWritten
    <3> QED BY <3>1, <3>2, <3>3, <3>4, <1>4
  <2>3. CASE \A k \in 1 .. Len(sIsr) : sIsr[k].i # i
    <3>1. \A k \in 1 .. Len(sIsr') : sIsr'[k].i # i
      BY <2>3, <1>3
    <3>2. EventIn(sIsr', sEntry', i) = sEntry'[i].data
      BY <3>1, WasWritten
    <3>3. EventIn(sIsr, sEntry, i) = sEntry[i].data
      BY <2>3, WasWritten
    <3>4. i # sIsr[1].i /\ i \in Sched!Index
      BY <2>3, <1>2, <1>9
    <3> QED BY <3>2, <3>3, <3>4, <1>8
  <2> QED BY <2>1, <2>2, <2>3
<1>13. SameRing
  BY <1>6, <1>12 DEF SameRing
<1>14. ASSUME NEW i, i # sIsr[1].i, Sched!Writing(i)' = {} PROVE Sched!Writing(i) = {}
  <2> SUFFICES ASSUME NEW k \in 1 .. Len(sIsr), sIsr[k].i = i PROVE FALSE
    BY DEF Sched!Writing
  <2>1. k \in 2 .. Len(sIsr)
    BY <1>14
  <2>2. k - 1 \in Sched!Writing(i)'
    BY <2>1, <1>4 DEF Sched!Writing
  <2> QED BY <2>2, <1>14
<1>15. Sched!TypeOK'
  <2>1. sIsr' \in Seq([ev : Sched!Event, i : Sched!Index, pc : {"handler", "data"}])
    BY <1>3 DEF Call
  <2>2. Len(sIsr') <= 2
    <3>1. Len(sIsr') = Len(sIsr) - 1
      BY <1>3
    <3>2. Len(sIsr) \in {0, 1, 2}
      BY <1>1
    <3> QED BY ONLY <3>1, <3>2
  <2> QED BY <2>1, <2>2, <1>6, <1>8 DEF SchedInv, Sched!TypeOK
<1>16. Calls'
  <2>1. \A k \in 1 .. Len(sIsr') : sIsr'[k].i \in Sched!Window'
    BY <1>3, <1>6 DEF SchedInv, Calls
  <2>2. Len(sIsr') # 2
    BY <1>1, <1>3
  <2> QED BY <2>1, <2>2, <1>10 DEF Calls
<1>17. Written'
  <2>1. ASSUME NEW i \in Sched!Window, Sched!Writing(i)' = {}
        PROVE  sEntry'[i].handler = sEntry'[i].data /\ sEntry'[i].data \in Sched!Event
    <3>1. CASE i = sIsr[1].i
      <4>1. sEntry[sIsr[1].i].handler = sIsr[1].ev
        BY <1>2 DEF SchedInv, Written
      <4> QED BY <3>1, <4>1, <1>7, <1>8
    <3>2. CASE i # sIsr[1].i
      <4>1. sEntry'[i] = sEntry[i] /\ Sched!Writing(i) = {}
        BY <3>2, <2>1, <1>8, <1>9, <1>14
      <4> QED BY <4>1 DEF SchedInv, Written
    <3> QED BY <3>1, <3>2
  <2>2. ASSUME NEW k \in 1 .. Len(sIsr'), sIsr'[k].pc = "data"
        PROVE  sEntry'[sIsr'[k].i].handler = sIsr'[k].ev
    <3>1. k + 1 \in 1 .. Len(sIsr) /\ sIsr'[k] = sIsr[k + 1] /\ sIsr[k + 1].i \in Sched!Index
      BY <1>1, <1>3
    <3>2. sEntry[sIsr[k + 1].i].handler = sIsr[k + 1].ev
      BY <3>1, <2>2 DEF SchedInv, Written
    <3> QED BY <3>1, <3>2, <1>8
  <2> QED BY <2>1, <2>2, <1>6 DEF Written
<1>18. Runs'
  <2> SUFFICES ASSUME sMain.pc # "idle"
               PROVE  /\ sStart # sEnd /\ sMain.i = sStart /\ Sched!Writing(sStart)' = {}
                      /\ sMain.ev = sEntry'[sStart].handler
    BY <1>6 DEF Runs, Sched!Writing
  <2>1. sStart # sEnd /\ sMain.i = sStart /\ Sched!Writing(sStart) = {} /\ sMain.ev = sEntry[sStart].handler
    BY DEF SchedInv, Runs
  <2>2. Sched!Writing(sStart)' = {}
    BY <2>1, <1>3, <1>6 DEF Sched!Writing
  <2> QED BY <2>1, <2>2, <1>1, <1>8
<1>19. OneEach' /\ Fetched'
  BY <1>6, <1>12 DEF SchedInv, OneEach, Fetched
<1> QED BY <1>13, <1>15, <1>16, <1>17, <1>18, <1>19 DEF SchedInv

\* What is not the calls' own is kept by Reserve.
LEMMA ReserveKeeps ==
  ASSUME SchedInv, NEW e \in Sched!Event, ~Sched!Full, Sched!Preempts(e), Sched!Reserve(e), sMain' = sMain,
         sSd' \in BOOLEAN, sIrq' \in BOOLEAN,
         e \in Timer => \A i \in Sched!Window : EventIn(sIsr, sEntry, i) # e
  PROVE  Sched!TypeOK' /\ Calls' /\ Written' /\ Runs' /\ OneEach'
<1>1. /\ sIsr \in Seq(Call) /\ Len(sIsr) \in {0, 1, 2} /\ sStart \in Sched!Index /\ sEnd \in Sched!Index
      /\ sEntry \in [Sched!Index -> [handler : Sched!Event \cup {NoEvent}, data : Sched!Event \cup {NoEvent}]]
      /\ \A k \in 1 .. Len(sIsr) : /\ sIsr[k].ev \in Sched!Event /\ sIsr[k].i \in Sched!Index
                                   /\ sIsr[k].pc \in {"handler", "data"}
  BY SchedTypes DEF SchedInv
<1>2. /\ sIsr' \in Seq(Call) /\ Len(sIsr') = Len(sIsr) + 1 /\ Len(sIsr') <= 2
      /\ sIsr'[1] = [ev |-> e, i |-> sEnd, pc |-> "handler"]
      /\ \A k \in 1 .. Len(sIsr) : sIsr'[k + 1] = sIsr[k]
      /\ \A k \in 2 .. Len(sIsr') : sIsr'[k] = sIsr[k - 1]
      /\ Sched!Window' = Sched!Window \cup {sEnd} /\ sEnd \notin Sched!Window /\ Sched!Window \subseteq Sched!Index
      /\ sEnd' \in Sched!Index /\ sEnd' # sStart
      /\ Calls'
      /\ \A i \in Sched!Window : EventIn(sIsr', sEntry', i) = EventIn(sIsr, sEntry, i)
      /\ EventIn(sIsr', sEntry', sEnd) = e
  BY Reserved
<1>3. sEntry' = sEntry /\ sStart' = sStart
  BY DEF Sched!Reserve
<1>4. Sched!TypeOK'
  <2>1. sIsr' \in Seq([ev : Sched!Event, i : Sched!Index, pc : {"handler", "data"}])
    BY <1>2 DEF Call
  <2> QED BY <1>1, <1>2, <1>3, <2>1 DEF SchedInv, Sched!TypeOK
<1>5. \A i : i # sEnd => (Sched!Writing(i)' = {}) = (Sched!Writing(i) = {})
  <2> SUFFICES ASSUME NEW i, i # sEnd PROVE (Sched!Writing(i)' = {}) <=> (Sched!Writing(i) = {})
    OBVIOUS
  <2>1. ASSUME NEW k \in 1 .. Len(sIsr), sIsr[k].i = i PROVE Sched!Writing(i)' # {}
    <3>1. k + 1 \in 1 .. Len(sIsr') /\ sIsr'[k + 1] = sIsr[k]
      BY <1>1, <1>2
    <3> QED BY <3>1, <2>1 DEF Sched!Writing
  <2>2. ASSUME NEW k \in 1 .. Len(sIsr'), sIsr'[k].i = i PROVE Sched!Writing(i) # {}
    <3>1. sIsr'[1].i = sEnd
      BY <1>2
    <3>2. k # 1
      BY <3>1, <2>2
    <3>3. k - 1 \in 1 .. Len(sIsr) /\ sIsr'[k] = sIsr[k - 1]
      BY <3>2, <1>1, <1>2
    <3> QED BY <3>3, <2>2 DEF Sched!Writing
  <2> QED BY <2>1, <2>2 DEF Sched!Writing
<1>7. Written'
  <2>1. ASSUME NEW i \in Sched!Window', {k \in 1 .. Len(sIsr') : sIsr'[k].i = i} = {}
        PROVE  sEntry[i].handler = sEntry[i].data /\ sEntry[i].data \in Sched!Event
    <3>1. 1 \in 1 .. Len(sIsr') /\ sIsr'[1].i = sEnd
      BY <1>1, <1>2
    <3>2. i # sEnd
      BY <3>1, <2>1
    <3>3. Sched!Writing(i) = {}
      BY <3>2, <2>1, <1>5 DEF Sched!Writing
    <3> QED BY <3>2, <3>3, <1>2 DEF SchedInv, Written
  <2>2. ASSUME NEW k \in 1 .. Len(sIsr'), sIsr'[k].pc = "data"
        PROVE  sEntry[sIsr'[k].i].handler = sIsr'[k].ev
    <3>1. sIsr'[1].pc = "handler"
      BY <1>2
    <3>2. k # 1
      BY <3>1, <2>2
    <3>3. k - 1 \in 1 .. Len(sIsr) /\ sIsr'[k] = sIsr[k - 1]
      BY <3>2, <1>1, <1>2
    <3> QED BY <3>3, <2>2 DEF SchedInv, Written
  <2> QED BY <2>1, <2>2, <1>3 DEF Written, Sched!Writing
<1>8. Runs'
  <2> SUFFICES ASSUME sMain.pc # "idle"
               PROVE  /\ sStart # sEnd' /\ sMain.i = sStart /\ Sched!Writing(sStart)' = {}
                      /\ sMain.ev = sEntry[sStart].handler
    BY <1>3 DEF Runs, Sched!Writing
  <2>1. sStart # sEnd /\ sMain.i = sStart /\ Sched!Writing(sStart) = {} /\ sMain.ev = sEntry[sStart].handler
    BY DEF SchedInv, Runs
  <2>2. \A k \in 1 .. Len(sIsr') : sIsr'[k].i # sStart
    <3> SUFFICES ASSUME NEW k \in 1 .. Len(sIsr'), sIsr'[k].i = sStart PROVE FALSE
      OBVIOUS
    <3>1. sIsr'[1].i = sEnd
      BY <1>2
    <3>2. k # 1
      BY <3>1, <2>1
    <3>3. k - 1 \in 1 .. Len(sIsr) /\ sIsr'[k] = sIsr[k - 1]
      BY <3>2, <1>1, <1>2
    <3> QED BY <3>3, <2>1 DEF Sched!Writing
  <2> QED BY <2>1, <2>2, <1>2, <1>3 DEF Sched!Writing
<1>9. OneEach'
  <2>1. \A i \in Sched!Window : EventIn(sIsr', sEntry', i) = EventIn(sIsr, sEntry, i)
    BY <1>2
  <2>2. e \in Timer => \A i \in Sched!Window : EventIn(sIsr, sEntry, i) # e
    OBVIOUS
  <2>3. OneEach /\ Sched!Window' = Sched!Window \cup {sEnd} /\ EventIn(sIsr', sEntry', sEnd) = e
    BY <1>2 DEF SchedInv
  <2> QED BY ONLY <2>1, <2>2, <2>3 DEF OneEach
<1> QED BY <1>2, <1>4, <1>7, <1>8, <1>9

\* Every event of the window is one.
LEMMA WindowHolds ==
  ASSUME SchedInv
  PROVE  \A i \in Sched!Window : EventIn(sIsr, sEntry, i) \in Sched!Event
<1>1. /\ Len(sIsr) \in {0, 1, 2} /\ OwnSlots(sIsr)
      /\ \A k \in 1 .. Len(sIsr) : sIsr[k].ev \in Sched!Event
  BY SchedTypes DEF SchedInv, Calls
<1> SUFFICES ASSUME NEW i \in Sched!Window PROVE EventIn(sIsr, sEntry, i) \in Sched!Event
  OBVIOUS
<1>2. CASE \E k \in 1 .. Len(sIsr) : sIsr[k].i = i
  <2>1. PICK k \in 1 .. Len(sIsr) : sIsr[k].i = i
    BY <1>2
  <2>2. EventIn(sIsr, sEntry, sIsr[k].i) = sIsr[k].ev
    BY <1>1, BeingWritten
  <2> QED BY <2>1, <2>2, <1>1
<1>3. CASE \A k \in 1 .. Len(sIsr) : sIsr[k].i # i
  <2>1. EventIn(sIsr, sEntry, i) = sEntry[i].data /\ Sched!Writing(i) = {}
    BY <1>3, WasWritten DEF Sched!Writing
  <2> QED BY <2>1 DEF SchedInv, Written
<1> QED BY <1>2, <1>3

\* In a full queue there are more slots than timers, behind the first too.
LEMMA SdIsQueued ==
  ASSUME SchedInv, Sched!Full
  PROVE  \E i \in Sched!Window : i # sStart /\ EventIn(sIsr, sEntry, i) = Sd
<1>1. sStart \in Sched!Index /\ sEnd \in Sched!Index /\ QSize \in Nat
  BY SchedTypes, SchedSize DEF SchedInv
<1> DEFINE rest == Sched!Window \ {sStart}
<1>2. Sched!Window = Sched!Index \ {sEnd} /\ sStart # sEnd
  BY <1>1, WindowIs, Advance DEF Sched!Full
<1>3. IsFiniteSet(Sched!Index) /\ Cardinality(Sched!Index) = QSize + 1
  <2>1. IsFiniteSet(0 .. QSize) /\ Cardinality(0 .. QSize) = QSize - 0 + 1
    BY <1>1, FS_Interval
  <2> QED BY <2>1, <1>1 DEF Sched!Index
<1>4. IsFiniteSet(Sched!Index \ {sEnd}) /\ Cardinality(Sched!Index \ {sEnd}) = QSize
  <2>1. IsFiniteSet(Sched!Index \ {sEnd}) /\ Cardinality(Sched!Index \ {sEnd}) = Cardinality(Sched!Index) - 1
    BY <1>1, <1>3, FS_RemoveElement
  <2> QED BY <2>1, <1>1, <1>3
<1>5. rest = (Sched!Index \ {sEnd}) \ {sStart} /\ sStart \in Sched!Index \ {sEnd}
  BY <1>1, <1>2
<1>6. IsFiniteSet(rest) /\ Cardinality(rest) = QSize - 1
  <2>1. IsFiniteSet(rest) /\ Cardinality(rest) = Cardinality(Sched!Index \ {sEnd}) - 1
    BY <1>4, <1>5, FS_RemoveElement
  <2> QED BY <2>1, <1>4
<1> SUFFICES ASSUME \A i \in rest : EventIn(sIsr, sEntry, i) # Sd PROVE FALSE
  OBVIOUS
<1> DEFINE f == [i \in rest |-> EventIn(sIsr, sEntry, i)]
<1>7. f \in [rest -> Timer]
  BY WindowHolds DEF Sched!Event
<1>8. f \in Injection(rest, Timer)
  <2>1. \A i, j \in rest : f[i] = f[j] => i = j
    <3>1. OneEach /\ rest \subseteq Sched!Window
      BY DEF SchedInv
    <3> QED BY <3>1, <1>7 DEF OneEach
  <2> HIDE DEF f, rest
  <2> QED BY <1>7, <2>1 DEF Injection, IsInjective
<1>9. IsFiniteSet(Timer) /\ Cardinality(Timer) + 2 <= QSize
  BY SchedConstants
<1> HIDE DEF f, rest
<1>10. Cardinality(rest) <= Cardinality(Timer)
  BY <1>8, <1>9, FS_Injection
<1>11. Cardinality(Timer) \in Nat
  BY <1>9, FS_CardinalityType
<1> QED BY <1>1, <1>6, <1>9, <1>10, <1>11

LEMMA SchedStarts == Sched!Init => SchedInv
<1> SUFFICES ASSUME Sched!Init PROVE SchedInv
  OBVIOUS
<1>1. QSize \in Nat /\ 0 \in Sched!Index
  BY SchedConstants DEF Sched!Index
<1>2. Sched!Window = {}
  BY <1>1, WindowIs, Advance DEF Sched!Init
<1>3. Len(sIsr) = 0 /\ sIsr \in Seq([ev : Sched!Event, i : Sched!Index, pc : {"handler", "data"}])
  BY DEF Sched!Init
<1>4. Sched!TypeOK
  <2>1. Sched!Blank \in [handler : Sched!Event \cup {NoEvent}, data : Sched!Event \cup {NoEvent}]
    BY DEF Sched!Blank
  <2>2. Sched!Idle \in [pc : {"idle", "run", "done"}, i : Sched!Index, ev : Sched!Event \cup {NoEvent}]
    BY <1>1 DEF Sched!Idle
  <2>3. Len(sIsr) <= 2
    BY <1>3
  <2> QED BY <1>1, <1>3, <2>1, <2>2, <2>3 DEF Sched!Init, Sched!TypeOK
<1>5. Calls
  BY <1>3 DEF Calls, OwnSlots
<1>6. Written
  BY <1>2, <1>3 DEF Written
<1>7. Runs /\ Fetched /\ OneEach
  BY <1>2 DEF Sched!Init, Sched!Idle, Runs, Fetched, OneEach
<1> QED BY <1>4, <1>5, <1>6, <1>7 DEF SchedInv

LEMMA MainLoopFacts ==
  ASSUME SchedInv, Sched!MainRuns
  PROVE  /\ Sched!Writing(sStart) = {}
         /\ sStart # sEnd => /\ sStart \in Sched!Window
                             /\ sEntry[sStart].handler = sEntry[sStart].data
                             /\ sEntry[sStart].data \in Sched!Event
                             /\ EventIn(sIsr, sEntry, sStart) = sEntry[sStart].data
<1>1. sStart \in Sched!Index /\ sEnd \in Sched!Index
  BY SchedTypes DEF SchedInv
<1>2. \A k \in 1 .. Len(sIsr) : sIsr[k].i # sStart
  BY DEF Sched!MainRuns
<1>3. Sched!Writing(sStart) = {}
  BY <1>2 DEF Sched!Writing
<1>4. EventIn(sIsr, sEntry, sStart) = sEntry[sStart].data
  BY <1>2, WasWritten
<1>5. sStart # sEnd => sStart \in Sched!Window
  BY <1>1, WindowIs, Advance
<1> QED BY <1>3, <1>4, <1>5 DEF SchedInv, Written

LEMMA TakeSound ==
  ASSUME SchedInv, Sched!Take
  PROVE  SchedInv' /\ SameRing
<1>1. /\ sStart \in Sched!Index /\ sEnd \in Sched!Index
      /\ sMain \in [pc : {"idle", "run", "done"}, i : Sched!Index, ev : Sched!Event \cup {NoEvent}]
  BY SchedTypes DEF SchedInv
<1>2. /\ UNCHANGED <<sStart, sEnd, sEntry, sIsr, sSd, sIrq>> /\ Sched!Window' = Sched!Window /\ sStart # sEnd
      /\ sMain' = [pc |-> "run", i |-> sStart, ev |-> sEntry[sStart].handler]
  BY WindowIs DEF Sched!Take, Sched!ring, Sched!Empty
<1>3. /\ sStart \in Sched!Window /\ sEntry[sStart].handler = sEntry[sStart].data
      /\ sEntry[sStart].data \in Sched!Event /\ Sched!Writing(sStart) = {}
  BY <1>2, MainLoopFacts DEF Sched!Take
<1>4. Sched!TypeOK'
  <2>1. sMain' \in [pc : {"idle", "run", "done"}, i : Sched!Index, ev : Sched!Event \cup {NoEvent}]
    BY <1>1, <1>2, <1>3
  <2> QED BY <1>2, <2>1 DEF SchedInv, Sched!TypeOK
<1>5. Calls' /\ Written'
  BY <1>2 DEF SchedInv, Calls, Written, Sched!Writing
<1>6. Runs'
  BY <1>2, <1>3 DEF Runs, Sched!Writing
<1>7. OneEach' /\ Fetched'
  BY <1>2 DEF SchedInv, OneEach, Fetched, Sched!Take
<1>8. SameRing
  BY <1>2 DEF SameRing
<1> QED BY <1>4, <1>5, <1>6, <1>7, <1>8 DEF SchedInv

LEMMA HandleSound ==
  ASSUME SchedInv, Sched!Handle
  PROVE  SchedInv' /\ SameRing
<1>1. sMain \in [pc : {"idle", "run", "done"}, i : Sched!Index, ev : Sched!Event \cup {NoEvent}]
  BY SchedTypes DEF SchedInv
<1>2. /\ UNCHANGED <<sStart, sEnd, sEntry, sIsr, sIrq>> /\ Sched!Window' = Sched!Window
      /\ sMain.pc = "run" /\ sSd' = (sSd /\ sMain.ev # Sd)
      /\ sMain' = [sMain EXCEPT !.pc = "done"]
  BY WindowIs DEF Sched!Handle, Sched!ring
<1>3. /\ sStart # sEnd /\ sMain.i = sStart /\ Sched!Writing(sStart) = {}
      /\ sMain.ev = sEntry[sStart].handler
  BY <1>2 DEF SchedInv, Runs
<1>4. /\ sMain' \in [pc : {"idle", "run", "done"}, i : Sched!Index, ev : Sched!Event \cup {NoEvent}]
      /\ sMain'.pc = "done" /\ sMain'.i = sStart /\ sMain'.ev = sEntry[sStart].handler
  BY <1>1, <1>2, <1>3
<1>5. EventIn(sIsr, sEntry, sStart) = sMain.ev
  BY <1>3, MainLoopFacts DEF Sched!Handle
<1>6. Sched!TypeOK'
  BY <1>2, <1>4 DEF SchedInv, Sched!TypeOK
<1>7. Calls' /\ Written'
  BY <1>2 DEF SchedInv, Calls, Written, Sched!Writing
<1>8. Runs'
  BY <1>2, <1>3, <1>4 DEF Runs, Sched!Writing
<1>9. OneEach'
  BY <1>2 DEF SchedInv, OneEach
<1>10. Fetched'
  <2> SUFFICES ASSUME sSd, sMain.ev # Sd, ~sIrq
               PROVE  \E i \in Sched!Window : EventIn(sIsr, sEntry, i) = Sd /\ i # sStart
    BY <1>2, <1>4 DEF Fetched
  <2>1. PICK i \in Sched!Window : EventIn(sIsr, sEntry, i) = Sd
    BY DEF SchedInv, Fetched
  <2> QED BY <2>1, <1>5
<1>11. SameRing
  BY <1>2 DEF SameRing
<1> QED BY <1>6, <1>7, <1>8, <1>9, <1>10, <1>11 DEF SchedInv

LEMMA ReleaseSound ==
  ASSUME SchedInv, Sched!Release
  PROVE  SchedInv' /\ sStart # sEnd
<1>1. sStart \in Sched!Index /\ sEnd \in Sched!Index /\ QSize \in Nat
  BY SchedTypes, SchedSize DEF SchedInv
<1>2. /\ UNCHANGED <<sEnd, sEntry, sIsr, sSd, sIrq>> /\ sMain.pc = "done"
      /\ sStart' = Sched!NextIndex(sStart) /\ sMain' = Sched!Idle
  BY DEF Sched!Release
<1>3. sStart # sEnd /\ sMain.i = sStart
  BY <1>2 DEF SchedInv, Runs
<1>4. Sched!Window' = Sched!Window \ {sStart} /\ sStart' \in Sched!Index
  BY <1>1, <1>2, <1>3, WindowIs, Advance
<1>5. sIsr = <<>> /\ Len(sIsr) = 0
  BY DEF Sched!Release, Sched!MainRuns
<1>6. Sched!TypeOK'
  <2>1. 0 \in Sched!Index
    BY <1>1 DEF Sched!Index
  <2> QED BY <1>2, <1>4, <2>1 DEF SchedInv, Sched!TypeOK, Sched!Idle
<1>7. Calls'
  BY <1>2, <1>5 DEF Calls, OwnSlots
<1>8. Written'
  BY <1>2, <1>4, <1>5 DEF SchedInv, Written, Sched!Writing
<1>9. Runs'
  BY <1>2 DEF Runs, Sched!Idle
<1>10. OneEach'
  BY <1>2, <1>4 DEF SchedInv, OneEach
<1>11. Fetched'
  BY <1>2, <1>3, <1>4 DEF SchedInv, Fetched, Sched!Idle
<1> QED BY <1>3, <1>6, <1>7, <1>8, <1>9, <1>10, <1>11 DEF SchedInv

LEMMA SdEventSound ==
  ASSUME SchedInv, Sched!SdEvent
  PROVE  SchedInv' /\ SameRing
<1>1. UNCHANGED <<sStart, sEnd, sEntry, sIsr, sMain>> /\ Sched!Window' = Sched!Window /\ sSd' = TRUE /\ sIrq' = TRUE
  BY WindowIs DEF Sched!SdEvent, Sched!ring
<1>2. Sched!TypeOK'
  BY <1>1 DEF SchedInv, Sched!TypeOK
<1>3. Calls' /\ Written' /\ Runs' /\ OneEach' /\ Fetched' /\ SameRing
  BY <1>1 DEF SchedInv, Calls, Written, Runs, OneEach, Fetched, Sched!Writing, SameRing
<1> QED BY <1>2, <1>3 DEF SchedInv

\* A call that finds room.
Puts(e) == ~Sched!Full /\ Sched!Preempts(e) /\ Sched!Reserve(e)

LEMMA SdEvtIrqSound ==
  ASSUME SchedInv, Sched!SdEvtIrq
  PROVE  SchedInv' /\ (SameRing \/ Puts(Sd))
<1>1. UNCHANGED <<sMain, sSd>> /\ sIrq' = FALSE /\ Sched!Preempts(Sd)
  BY DEF Sched!SdEvtIrq
<1>2. CASE Sched!Full
  <2>1. UNCHANGED <<sStart, sEnd, sEntry, sIsr>> /\ Sched!Window' = Sched!Window
    BY <1>2, WindowIs DEF Sched!SdEvtIrq, Sched!ring
  <2>2. Sched!TypeOK'
    BY <1>1, <2>1 DEF SchedInv, Sched!TypeOK
  <2>3. Calls' /\ Written' /\ Runs' /\ OneEach' /\ SameRing
    BY <1>1, <2>1 DEF SchedInv, Calls, Written, Runs, OneEach, Sched!Writing, SameRing
  <2>4. Fetched'
    <3>1. PICK i \in Sched!Window : i # sStart /\ EventIn(sIsr, sEntry, i) = Sd
      BY <1>2, SdIsQueued
    <3>2. ~(sMain.pc = "done" /\ sMain.i = i)
      BY <3>1 DEF SchedInv, Runs
    <3> QED BY <3>1, <3>2, <1>1, <2>1 DEF Fetched
  <2> QED BY <2>2, <2>3, <2>4 DEF SchedInv
<1>3. CASE ~Sched!Full
  <2>1. Sched!Reserve(Sd) /\ Sd \in Sched!Event /\ Sd \notin Timer
    BY <1>3, SchedConstants DEF Sched!SdEvtIrq, Sched!Event
  <2>2. sSd' \in BOOLEAN /\ sIrq' \in BOOLEAN
    BY <1>1 DEF SchedInv, Sched!TypeOK
  <2>3. Sched!TypeOK' /\ Calls' /\ Written' /\ Runs' /\ OneEach'
    BY <1>1, <1>3, <2>1, <2>2, ReserveKeeps
  <2>4. /\ sEnd \in Sched!Window' /\ EventIn(sIsr', sEntry', sEnd) = Sd
        /\ sEnd \notin Sched!Window /\ sStart \in Sched!Index /\ sStart' = sStart
    BY <1>1, <1>3, <2>1, Reserved DEF Sched!Reserve
  <2>5. ~(sMain.pc = "done" /\ sMain.i = sEnd)
    BY DEF SchedInv, Runs
  <2>6. Fetched'
    BY <1>1, <2>4, <2>5 DEF Fetched
  <2> QED BY <1>1, <1>3, <2>1, <2>3, <2>6 DEF SchedInv, Puts
<1> QED BY <1>2, <1>3

Restarted == sEnd' = sStart'

LEMMA TimerIrqSound ==
  ASSUME SchedInv, NEW t \in Timer, Sched!TimerIrq(t)
  PROVE  SchedInv' /\ (Restarted \/ Puts(t))
<1>1. Sched!Preempts(t) /\ \A i \in Sched!Window : EventIn(sIsr, sEntry, i) # t
  BY PutInIs DEF Sched!TimerIrq
<1>2. CASE Sched!Full
  <2>1. Sched!Init'
    BY <1>2 DEF Sched!TimerIrq, Sched!Init
  <2>2. SchedInv'
    BY <2>1, SchedStarts, PTL
  <2> QED BY <2>1, <2>2 DEF Sched!Init, Restarted
<1>3. CASE ~Sched!Full
  <2>1. Sched!Reserve(t) /\ UNCHANGED <<sMain, sSd, sIrq>> /\ t \in Sched!Event
    BY <1>3 DEF Sched!TimerIrq, Sched!Event
  <2>2. sSd' \in BOOLEAN /\ sIrq' \in BOOLEAN
    BY <2>1 DEF SchedInv, Sched!TypeOK
  <2>3. Sched!TypeOK' /\ Calls' /\ Written' /\ Runs' /\ OneEach'
    BY <1>1, <1>3, <2>1, <2>2, ReserveKeeps
  <2>4. Sched!Window \subseteq Sched!Window' /\ \A i \in Sched!Window : EventIn(sIsr', sEntry', i) = EventIn(sIsr, sEntry, i)
    BY <1>1, <1>3, <2>1, Reserved
  <2>5. Fetched'
    BY <2>1, <2>4 DEF SchedInv, Fetched
  <2> QED BY <1>1, <1>3, <2>1, <2>3, <2>5 DEF SchedInv, Puts
<1> QED BY <1>2, <1>3

LEMMA SchedStep ==
  ASSUME SchedInv, Sched!Next
  PROVE  /\ SchedInv'
         /\ \/ SameRing \/ (\E e \in Sched!Event : Puts(e)) \/ Restarted
            \/ Sched!Release /\ sStart # sEnd
<1>1. CASE Sched!SdEvent
  BY <1>1, SdEventSound
<1>2. CASE Sched!WriteHandler
  BY <1>2, HandlerWritten
<1>3. CASE Sched!WriteData
  BY <1>3, DataWritten
<1>4. CASE Sched!SdEvtIrq
  BY <1>4, SdEvtIrqSound DEF Sched!Event
<1>5. ASSUME NEW t \in Timer, Sched!TimerIrq(t)
      PROVE  SchedInv' /\ (Restarted \/ \E e \in Sched!Event : Puts(e))
  BY <1>5, TimerIrqSound DEF Sched!Event
<1>6. CASE Sched!Take
  BY <1>6, TakeSound
<1>7. CASE Sched!Handle
  BY <1>7, HandleSound
<1>8. CASE Sched!Release
  BY <1>8, ReleaseSound
<1> QED BY <1>1, <1>2, <1>3, <1>4, <1>5, <1>6, <1>7, <1>8 DEF Sched!Next, Sched!Interrupt, Sched!MainLoop

LEMMA SchedStutters == SchedInv /\ UNCHANGED Sched!vars => SchedInv' /\ SameRing
<1> SUFFICES ASSUME SchedInv, UNCHANGED Sched!vars PROVE SchedInv' /\ SameRing
  OBVIOUS
<1>1. UNCHANGED <<sStart, sEnd, sEntry, sIsr, sMain, sSd, sIrq>> /\ Sched!Window' = Sched!Window
  BY WindowIs DEF Sched!vars
<1>2. Sched!TypeOK'
  BY <1>1 DEF SchedInv, Sched!TypeOK
<1>3. Calls' /\ Written' /\ Runs' /\ OneEach' /\ Fetched' /\ SameRing
  BY <1>1 DEF SchedInv, Calls, Written, Runs, OneEach, Fetched, Sched!Writing, SameRing
<1> QED BY <1>2, <1>3 DEF SchedInv

LEMMA SchedAlwaysInv == Sched!Spec => []SchedInv
<1>1. SchedInv /\ [Sched!Next]_(Sched!vars) => SchedInv'
  BY SchedStep, SchedStutters
<1> QED BY <1>1, SchedStarts, PTL DEF Sched!Spec

LEMMA SchedForgetsNothing == SchedInv => Sched!SdNotForgotten /\ Sched!RunningIntact
<1> SUFFICES ASSUME SchedInv PROVE Sched!SdNotForgotten /\ Sched!RunningIntact
  OBVIOUS
<1>1. Sched!SdNotForgotten
  BY PutInIs DEF SchedInv, Fetched, Sched!SdNotForgotten
<1>2. Sched!RunningIntact
  <2> SUFFICES ASSUME sMain.pc # "idle"
               PROVE  /\ sMain.ev # NoEvent
                      /\ sEntry[sMain.i] = [handler |-> sMain.ev, data |-> sMain.ev]
                      /\ Sched!Writing(sMain.i) = {}
    BY DEF Sched!RunningIntact
  <2>1. sStart # sEnd /\ sMain.i = sStart /\ Sched!Writing(sStart) = {} /\ sMain.ev = sEntry[sStart].handler
    BY DEF SchedInv, Runs
  <2>2. sStart \in Sched!Index /\ sEnd \in Sched!Index /\ sStart \in Sched!Window
    BY <2>1, SchedTypes, WindowIs, Advance DEF SchedInv
  <2>3. sEntry[sStart].handler = sEntry[sStart].data /\ sEntry[sStart].data \in Sched!Event
    BY <2>1, <2>2 DEF SchedInv, Written
  <2>4. sEntry[sStart] \in [handler : Sched!Event \cup {NoEvent}, data : Sched!Event \cup {NoEvent}]
    BY <2>2, SchedTypes DEF SchedInv
  <2>5. NoEvent \notin Sched!Event
    BY SchedConstants DEF Sched!Event
  <2> QED BY <2>1, <2>3, <2>4, <2>5
<1> QED BY <1>1, <1>2

-----------------------------------------------------------------------------
(* The queue.                                                              *)

Count(s, e) == IF s <= e THEN e - s ELSE e - s + QSize + 1
Slot(s, k) == IF s + k - 1 <= QSize THEN s + k - 1 ELSE s + k - 1 - (QSize + 1)
Queue(r, t, s, e) == [k \in 1 .. Count(s, e) |-> EventIn(r, t, Slot(s, k))]

LEMMA RingCount ==
  ASSUME NEW s \in Sched!Index, NEW e \in Sched!Index
  PROVE  /\ Count(s, e) \in 0 .. QSize
         /\ Cardinality(Between(s, e)) = Count(s, e)
<1>1. QSize \in Nat /\ s \in 0 .. QSize /\ e \in 0 .. QSize
  BY SchedConstants DEF Sched!Index
<1>2. Count(s, e) \in 0 .. QSize
  BY <1>1 DEF Count
<1>3. CASE s <= e
  <2>1. Cardinality(s .. e - 1) = IF s > e - 1 THEN 0 ELSE (e - 1) - s + 1
    BY <1>1, FS_Interval
  <2> QED BY <2>1, <1>1, <1>2, <1>3 DEF Between, Count
<1>4. CASE ~(s <= e)
  <2> DEFINE high == s .. QSize  low == 0 .. e - 1
  <2>1. IsFiniteSet(high) /\ Cardinality(high) = QSize - s + 1
    <3>1. IsFiniteSet(high) /\ Cardinality(high) = IF s > QSize THEN 0 ELSE QSize - s + 1
      BY <1>1, FS_Interval
    <3> QED BY <3>1, <1>1
  <2>2. IsFiniteSet(low) /\ Cardinality(low) = e
    <3>1. IsFiniteSet(low) /\ Cardinality(low) = IF 0 > e - 1 THEN 0 ELSE (e - 1) - 0 + 1
      BY <1>1, FS_Interval
    <3> QED BY <3>1, <1>1
  <2>3. high \cap low = {}
    BY <1>1, <1>4
  <2>4. Between(s, e) = high \cup low
    BY <1>4 DEF Between
  <2> HIDE DEF high, low
  <2>5. Cardinality(high \cup low) = Cardinality(high) + Cardinality(low) - Cardinality(high \cap low)
    BY <2>1, <2>2, FS_Union
  <2>6. Cardinality(high \cap low) = 0
    BY <2>3, FS_EmptySet
  <2> QED BY <1>1, <1>2, <1>4, <2>1, <2>2, <2>4, <2>5, <2>6 DEF Count
<1> QED BY <1>2, <1>3, <1>4

LEMMA RingSlots ==
  ASSUME NEW s \in Sched!Index, NEW e \in Sched!Index
  PROVE  /\ \A k \in 1 .. Count(s, e) : Slot(s, k) \in Between(s, e)
         /\ Slot(s, Count(s, e) + 1) = e
         /\ Sched!NextIndex(e) # s => Count(s, Sched!NextIndex(e)) = Count(s, e) + 1
         /\ s # e => /\ Count(s, e) > 0
                     /\ Count(Sched!NextIndex(s), e) = Count(s, e) - 1
                     /\ \A k \in 1 .. Count(s, e) - 1 : Slot(Sched!NextIndex(s), k) = Slot(s, k + 1)
<1>1. QSize \in Nat /\ s \in 0 .. QSize /\ e \in 0 .. QSize
  BY SchedConstants DEF Sched!Index
<1>2. \A k \in 1 .. Count(s, e) : Slot(s, k) \in Between(s, e)
  BY <1>1 DEF Count, Slot, Between
<1>3. Slot(s, Count(s, e) + 1) = e
  BY <1>1 DEF Count, Slot
<1>4. Sched!NextIndex(e) # s => Count(s, Sched!NextIndex(e)) = Count(s, e) + 1
  BY <1>1 DEF Count, Sched!NextIndex
<1>5. s # e => Count(s, e) > 0 /\ Count(Sched!NextIndex(s), e) = Count(s, e) - 1
  BY <1>1 DEF Count, Sched!NextIndex
<1>6. s # e => \A k \in 1 .. Count(s, e) - 1 : Slot(Sched!NextIndex(s), k) = Slot(s, k + 1)
  BY <1>1 DEF Count, Slot, Sched!NextIndex
<1> QED BY <1>2, <1>3, <1>4, <1>5, <1>6

LEMMA Wraps ==
  ASSUME NEW s \in Sched!Index, NEW k \in 1 .. QSize
  PROVE  (s + k - 1) % (QSize + 1) = Slot(s, k)
<1>1. QSize \in Nat /\ s \in 0 .. QSize
  BY SchedConstants DEF Sched!Index
<1>2. \A m \in Nat : \A x \in 0 .. m : x % (m + 1) = x
  OBVIOUS
<1>3. \A m \in Nat : \A x \in m + 1 .. m + m : x % (m + 1) = x - (m + 1)
  OBVIOUS
<1> QED BY <1>1, <1>2, <1>3 DEF Slot

LEMMA QueuedIs ==
  /\ Sched!TypeOK => Sched!Queued = Queue(sIsr, sEntry, sStart, sEnd)
  /\ Sched!TypeOK' => Sched!Queued' = Queue(sIsr', sEntry', sStart', sEnd')
<1>1. ASSUME NEW r, NEW t, NEW s \in Sched!Index, NEW e \in Sched!Index
      PROVE  [k \in 1 .. Cardinality(Between(s, e)) |-> EventIn(r, t, (s + k - 1) % (QSize + 1))]
             = Queue(r, t, s, e)
  <2>1. Cardinality(Between(s, e)) = Count(s, e) /\ Count(s, e) \in 0 .. QSize
    BY RingCount
  <2>2. \A k \in 1 .. Count(s, e) : (s + k - 1) % (QSize + 1) = Slot(s, k)
    <3>1. QSize \in Nat
      BY SchedConstants
    <3>2. \A k \in 1 .. Count(s, e) : k \in 1 .. QSize
      BY <3>1, <2>1
    <3> QED BY <3>2, Wraps
  <2> QED BY <2>1, <2>2 DEF Queue
<1>2. ASSUME Sched!TypeOK PROVE Sched!Queued = Queue(sIsr, sEntry, sStart, sEnd)
  <2>1. sStart \in Sched!Index /\ sEnd \in Sched!Index
    BY <1>2 DEF Sched!TypeOK
  <2> QED BY <2>1, <1>1, PutInIs, WindowIs, SameCardinality DEF Sched!Queued
<1>3. ASSUME Sched!TypeOK' PROVE Sched!Queued' = Queue(sIsr', sEntry', sStart', sEnd')
  <2>1. sStart' \in Sched!Index /\ sEnd' \in Sched!Index
    BY <1>3 DEF Sched!TypeOK
  <2>2. \A i : Sched!PutIn(i)' = EventIn(sIsr', sEntry', i)
    BY Zenon DEF Sched!PutIn, Sched!Writing, EventIn
  <2>3. Sched!Queued' = [k \in 1 .. Cardinality(Sched!Window') |-> EventIn(sIsr', sEntry', (sStart' + k - 1) % (QSize + 1))]
    BY <2>2, SameCardinality DEF Sched!Queued
  <2> QED BY <2>1, <2>3, <1>1, WindowIs
<1> QED BY <1>2, <1>3

\* A function over 1 .. m is a sequence.
LEMMA IsSequence ==
  ASSUME NEW m \in Nat, NEW S, NEW f \in [1 .. m -> S]
  PROVE  f \in Seq(S) /\ Len(f) = m
  OBVIOUS

LEMMA StepKeepsOrder ==
  ASSUME SchedInv, SchedInv',
         \/ SameRing \/ (\E e \in Sched!Event : Puts(e)) \/ Restarted
         \/ Sched!Release /\ sStart # sEnd
  PROVE  [Sched!Promise!Next]_(Sched!Queued)
<1> DEFINE q == Queue(sIsr, sEntry, sStart, sEnd)
           p == Queue(sIsr', sEntry', sStart', sEnd')
           n == Count(sStart, sEnd)
<1>1. Sched!Queued = q /\ Sched!Queued' = p
  BY QueuedIs DEF SchedInv
<1>2. sStart \in Sched!Index /\ sEnd \in Sched!Index /\ QSize \in Nat
  BY SchedTypes, SchedSize DEF SchedInv
<1>3. n \in 0 .. QSize /\ n \in Nat
  BY <1>2, RingCount
<1>4. /\ \A k \in 1 .. n : Slot(sStart, k) \in Sched!Window
      /\ Slot(sStart, n + 1) = sEnd
  BY <1>2, RingSlots, WindowIs
<1>5. q \in Seq(Sched!Event) /\ Len(q) = n
  <2>1. \A k \in 1 .. n : EventIn(sIsr, sEntry, Slot(sStart, k)) \in Sched!Event
    BY <1>4, WindowHolds
  <2> HIDE DEF n
  <2>2. q = [k \in 1 .. n |-> EventIn(sIsr, sEntry, Slot(sStart, k))]
    BY DEF n, Queue
  <2> QED BY <2>1, <2>2, <1>3
<1>6. CASE SameRing
  <2>1. p = q
    BY <1>4, <1>6 DEF SameRing, Queue
  <2> QED BY <2>1, <1>1
<1>7. ASSUME NEW e \in Sched!Event, Puts(e) PROVE Sched!Promise!Put(e)
  <2>1. /\ \A i \in Sched!Window : EventIn(sIsr', sEntry', i) = EventIn(sIsr, sEntry, i)
        /\ EventIn(sIsr', sEntry', sEnd) = e
        /\ sEnd' = Sched!NextIndex(sEnd) /\ sStart' = sStart /\ sEnd' # sStart
    BY <1>7, Reserved DEF Puts, Sched!Reserve
  <2>2. Count(sStart', sEnd') = n + 1 /\ sEnd' \in Sched!Index
    BY <2>1, <1>2, RingSlots, Advance
  <2>3. n + 1 \in 0 .. QSize
    BY <2>1, <2>2, <1>2, RingCount
  <2>4. p = [k \in 1 .. n + 1 |-> EventIn(sIsr', sEntry', Slot(sStart, k))]
    BY <2>1, <2>2 DEF Queue
  <2>5. q = [k \in 1 .. n |-> EventIn(sIsr, sEntry, Slot(sStart, k))]
    BY DEF Queue
  <2> HIDE DEF p, q, n
  <2>6. /\ \A k \in 1 .. n : p[k] = q[k]
        /\ p[n + 1] = e
    BY <2>1, <2>4, <2>5, <1>3, <1>4
  <2>7. p = Append(q, e)
    <3>1. Append(q, e) \in Seq(Sched!Event) /\ Len(Append(q, e)) = n + 1
      BY <1>5
    <3>2. \A k \in 1 .. n : Append(q, e)[k] = q[k]
      BY <1>5
    <3>3. Append(q, e)[n + 1] = e
      BY <1>5
    <3>4. \A k \in 1 .. n + 1 : k \in 1 .. n \/ k = n + 1
      BY <1>3
    <3>5. \A k \in 1 .. n + 1 : p[k] = Append(q, e)[k]
      BY ONLY <2>6, <3>2, <3>3, <3>4
    <3>6. \A k \in 1 .. n + 1 : Append(q, e)[k] \in Sched!Event
      BY <3>1
    <3>7. p \in Seq(Sched!Event) /\ Len(p) = n + 1
      <4>1. p \in [1 .. n + 1 -> Sched!Event]
        BY <2>4, <3>5, <3>6
      <4>2. n + 1 \in Nat
        BY <1>3
      <4> QED BY <4>1, <4>2, IsSequence
    <3> QED BY <3>1, <3>5, <3>7, SeqEqual
  <2>8. Len(q) < QSize
    BY <2>3, <1>2, <1>3, <1>5
  <2> QED BY <2>7, <2>8, <1>1 DEF Sched!Promise!Put
<1>8. CASE Restarted
  <2>1. sStart' \in Sched!Index /\ sEnd' \in Sched!Index
    BY DEF SchedInv, Sched!TypeOK
  <2>2. Count(sStart', sEnd') = 0
    <3>1. \A x \in Sched!Index : Count(x, x) = 0
      BY <1>2 DEF Count, Sched!Index
    <3>2. sEnd' = sStart'
      BY <1>8 DEF Restarted
    <3> HIDE DEF p, q, n
    <3> QED BY <2>1, <3>1, <3>2
  <2>3. p = <<>>
    BY <2>2 DEF Queue
  <2> QED BY <2>3, <1>1 DEF Sched!Promise!Next, Sched!Promise!Reset
<1>9. CASE Sched!Release /\ sStart # sEnd
  <2>1. UNCHANGED <<sEnd, sEntry, sIsr>> /\ sStart' = Sched!NextIndex(sStart) /\ sStart # sEnd
    BY <1>9 DEF Sched!Release
  <2>2. /\ n > 0 /\ Count(sStart', sEnd') = n - 1
        /\ \A k \in 1 .. n - 1 : Slot(sStart', k) = Slot(sStart, k + 1)
    BY <2>1, <1>2, RingSlots
  <2>3. p = [k \in 1 .. n - 1 |-> EventIn(sIsr, sEntry, Slot(sStart, k + 1))]
    BY <2>1, <2>2 DEF Queue
  <2>4. q = [k \in 1 .. n |-> EventIn(sIsr, sEntry, Slot(sStart, k))]
    BY DEF Queue
  <2> HIDE DEF p, q, n
  <2>5. \A k \in 1 .. n - 1 : p[k] = q[k + 1]
    BY <2>3, <2>4, <1>3
  <2>6. p = Tail(q) /\ q # <<>>
    <3>1. q # <<>>
      BY <2>2, <1>5, <1>3
    <3>2. Tail(q) \in Seq(Sched!Event) /\ Len(Tail(q)) = n - 1
      BY <3>1, <1>5
    <3>3. \A k \in 1 .. n - 1 : Tail(q)[k] = q[k + 1]
      BY <3>1, <1>5
    <3>4. \A k \in 1 .. n - 1 : p[k] = Tail(q)[k]
      BY ONLY <2>5, <3>3
    <3>5. \A k \in 1 .. n - 1 : Tail(q)[k] \in Sched!Event
      BY <3>2
    <3>6. p \in Seq(Sched!Event) /\ Len(p) = n - 1
      <4>1. p \in [1 .. n - 1 -> Sched!Event]
        BY <2>3, <3>4, <3>5
      <4>2. n - 1 \in Nat
        BY <1>3, <2>2
      <4> QED BY <4>1, <4>2, IsSequence
    <3> QED BY <3>1, <3>2, <3>4, <3>6, SeqEqual
  <2> QED BY <2>6, <1>1 DEF Sched!Promise!Next, Sched!Promise!Handled
<1> QED BY <1>6, <1>7, <1>8, <1>9 DEF Sched!Promise!Next

-----------------------------------------------------------------------------
(* The page cache.                                                         *)

\* The words of a page.
LEMMA WordsOfPage ==
  /\ \A a \in Cache!Addr : /\ Cache!PageOf(a) \in Cache!Page /\ a % PageWords \in 0 .. PageWords - 1
                           /\ a = Cache!PageOf(a) * PageWords + (a % PageWords)
  /\ \A p \in Cache!Page, k \in 0 .. PageWords - 1 :
       /\ p * PageWords + k \in Cache!Addr
       /\ Cache!PageOf(p * PageWords + k) = p /\ (p * PageWords + k) % PageWords = k
<1>1. /\ Pages \in Nat /\ Pages > 0 /\ PageWords \in Nat /\ PageWords > 0
  BY CacheAssumed DEF Cache!CacheAssumption
<1>2. ASSUME NEW a \in Cache!Addr
      PROVE  /\ Cache!PageOf(a) \in Cache!Page /\ a % PageWords \in 0 .. PageWords - 1
             /\ a = Cache!PageOf(a) * PageWords + (a % PageWords)
  <2>1. a \in Nat /\ a < Pages * PageWords
    BY <1>1 DEF Cache!Addr
  <2>2. a % PageWords \in 0 .. PageWords - 1 /\ a \div PageWords \in Nat
        /\ a = PageWords * (a \div PageWords) + (a % PageWords)
    BY <1>1, <2>1
  <2>3. a \div PageWords < Pages
    <3> DEFINE d == a \div PageWords
    <3>1. d \in Nat /\ PageWords * d <= a
      BY <2>1, <2>2, <1>1
    <3> HIDE DEF d
    <3>2. ~(d >= Pages)
      <4> SUFFICES ASSUME d >= Pages PROVE FALSE
        OBVIOUS
      <4>1. PageWords * d >= PageWords * Pages
        BY <3>1, <1>1
      <4> QED BY <4>1, <3>1, <2>1, <1>1
    <3> QED BY <3>1, <3>2, <1>1 DEF d
  <2> QED BY <1>1, <2>2, <2>3 DEF Cache!PageOf, Cache!Page
<1>3. ASSUME NEW p \in Cache!Page, NEW k \in 0 .. PageWords - 1
      PROVE  /\ p * PageWords + k \in Cache!Addr
             /\ Cache!PageOf(p * PageWords + k) = p /\ (p * PageWords + k) % PageWords = k
  <2>1. p \in Nat /\ p <= Pages - 1 /\ k \in Nat /\ k <= PageWords - 1
    BY <1>1 DEF Cache!Page
  <2>2. p * PageWords + k \in Cache!Addr
    <3>1. p * PageWords \in Nat /\ p * PageWords <= (Pages - 1) * PageWords
      BY <1>1, <2>1
    <3>2. (Pages - 1) * PageWords = Pages * PageWords - PageWords
      BY <1>1
    <3> QED BY <1>1, <2>1, <3>1, <3>2 DEF Cache!Addr
  <2>3. (p * PageWords + k) \div PageWords = p /\ (p * PageWords + k) % PageWords = k
    BY <1>1, <2>1
  <2> QED BY <2>2, <2>3 DEF Cache!PageOf
<1> QED BY <1>2, <1>3

-----------------------------------------------------------------------------
(* The invariant.                                                          *)

Request == [dst : Cache!Addr, data : Seq(Value), erase : BOOLEAN]
Asked ==
  /\ cRequest \in Request
  /\ IF cRequest.data = <<>> THEN cRequest = Cache!NoRequest
     ELSE cRequest.dst + Len(cRequest.data) <= Pages * PageWords

\* What is left of a flush: the words of the page are the last ones to be written,
\* in their order, and those before them are in flash.
Flushes ==
  /\ cAddr \in Cache!Page /\ cTodo # <<>>
  /\ \A i \in 1 .. Len(cTodo) : Cache!PageOf(cTodo[i][1]) = cAddr
  /\ \A k \in 0 .. PageWords - 1 :
       IF k + Len(cTodo) < PageWords
       THEN cFlash[cAddr * PageWords + k] = cBuf[k]
       ELSE cTodo[Len(cTodo) - PageWords + k + 1] = <<cAddr * PageWords + k, cBuf[k]>>
Passes ==
  /\ cTodo # <<>> => cRequest = Cache!NoRequest
  /\ \A i \in 1 .. Len(cTodo) : Cache!PageOf(cTodo[i][1]) # cAddr

CacheTypes ==
  /\ cFlash \in [Cache!Addr -> Value] /\ cAddr \in Cache!Page \cup {NoPage}
  /\ cBuf \in [0 .. PageWords - 1 -> Value]
  /\ cTodo \in Seq(Cache!Addr \X Value) /\ cFlushing \in BOOLEAN
CacheInv ==
  /\ CacheTypes /\ Asked
  /\ IF cFlushing THEN Flushes ELSE Passes

Want == [dst |-> cRequest.dst, data |-> cRequest.data]
Past == IF cFlushing THEN <<>> ELSE cTodo
Promised == [Cache!Promise!Next]_<<Cache!View, cAddr, Want, Past>>

LEMMA CacheFacts ==
  ASSUME CacheInv
  PROVE  /\ Pages \in Nat /\ Pages > 0 /\ PageWords \in Nat /\ PageWords > 0 /\ MaxLen \in Nat
         /\ Erased \in Value /\ NoPage \notin Cache!Page
         /\ Cache!View \in [Cache!Addr -> Value]
         /\ \A a \in Cache!Addr : Cache!View[a] = IF Cache!PageOf(a) = cAddr THEN cBuf[a % PageWords] ELSE cFlash[a]
         /\ Len(cTodo) \in Nat /\ (cTodo = <<>> <=> Len(cTodo) = 0)
         /\ (cTodo = <<>> => ~cFlushing)
<1>1. /\ Pages \in Nat /\ Pages > 0 /\ PageWords \in Nat /\ PageWords > 0 /\ MaxLen \in Nat
      /\ Erased \in Value /\ NoPage \notin Cache!Page
  BY CacheAssumed DEF Cache!CacheAssumption, Cache!Page
<1>2. \A a \in Cache!Addr : a % PageWords \in 0 .. PageWords - 1
  BY WordsOfPage
<1>3. Cache!View \in [Cache!Addr -> Value]
  BY <1>2 DEF CacheInv, CacheTypes, Cache!View
<1>4. \A a \in Cache!Addr : Cache!View[a] = IF Cache!PageOf(a) = cAddr THEN cBuf[a % PageWords] ELSE cFlash[a]
  BY DEF Cache!View
<1>5. Len(cTodo) \in Nat /\ (cTodo = <<>> <=> Len(cTodo) = 0)
  BY EmptySeq DEF CacheInv, CacheTypes
<1>6. cTodo = <<>> => ~cFlushing
  BY DEF CacheInv, Flushes
<1> QED BY <1>1, <1>3, <1>4, <1>5, <1>6

\* A step that leaves the memory, or only makes its page durable.
LEMMA Synced ==
  ASSUME \A a \in Cache!Addr : Cache!View'[a] = Cache!View[a], cAddr' \in {cAddr, NoPage},
         UNCHANGED cRequest, Past' = Past
  PROVE  Promised
<1>1. Cache!View' = Cache!View
  BY DEF Cache!View
<1>2. Want' = Want
  BY DEF Want
<1> QED BY <1>1, <1>2 DEF Promised, Cache!Promise!Next, Cache!Promise!Sync, Want, Past

LEMMA CacheStarts == Cache!Init => CacheInv /\ Cache!Promise!Init
<1> SUFFICES ASSUME Cache!Init PROVE CacheInv /\ Cache!Promise!Init
  OBVIOUS
<1>1. /\ cFlash = [a \in Cache!Addr |-> Erased] /\ cAddr = NoPage
      /\ cBuf = [i \in 0 .. PageWords - 1 |-> Erased]
      /\ cRequest = [dst |-> 0, data |-> <<>>, erase |-> FALSE] /\ cTodo = <<>> /\ cFlushing = FALSE
  BY DEF Cache!Init, Cache!NoBuf, Cache!NoRequest
<1>2. /\ Pages \in Nat /\ Pages > 0 /\ PageWords \in Nat /\ PageWords > 0
      /\ Erased \in Value /\ NoPage \notin Cache!Page
  BY CacheAssumed DEF Cache!CacheAssumption, Cache!Page
<1>3. 0 \in Cache!Addr
  <2>1. 0 \in Cache!Page /\ 0 \in 0 .. PageWords - 1 /\ 0 * PageWords + 0 = 0
    BY <1>2 DEF Cache!Page
  <2> QED BY <2>1, WordsOfPage
<1>4. <<>> \in Seq(Value) /\ <<>> \in Seq(Cache!Addr \X Value)
  OBVIOUS
<1>5. cRequest \in Request /\ cRequest.data = <<>>
  BY <1>1, <1>3, <1>4 DEF Request
<1>6. CacheInv
  <2>1. CacheTypes
    BY <1>1, <1>2, <1>4 DEF CacheTypes
  <2>2. Asked
    BY <1>1, <1>5 DEF Asked, Cache!NoRequest
  <2>3. Passes
    BY <1>1 DEF Passes
  <2> QED BY <2>1, <2>2, <2>3, <1>1 DEF CacheInv
<1>7. Cache!View \in [Cache!Addr -> Value]
  BY <1>6, CacheFacts
<1> QED BY <1>1, <1>6, <1>7 DEF Cache!Promise!Init, Cache!Promise!Addr, Cache!Addr, Cache!Promise!Nothing

LEMMA WriteSound ==
  ASSUME CacheInv, NEW dst \in Cache!Addr, NEW data \in Cache!BoundedSeq(Value, MaxLen), NEW e \in BOOLEAN,
         data # <<>>, Cache!Write(dst, data, e)
  PROVE  CacheInv' /\ Promised
<1>1. /\ cTodo = <<>> /\ cRequest = Cache!NoRequest /\ dst + Len(data) <= Pages * PageWords
      /\ cRequest' = [dst |-> dst, data |-> data, erase |-> e]
      /\ UNCHANGED <<cFlash, cAddr, cBuf, cTodo, cFlushing>>
  BY DEF Cache!Write, Cache!Returned
<1>2. MaxLen \in Nat /\ ~cFlushing
  BY <1>1, CacheFacts
<1>3. PICK n \in 0 .. MaxLen : data \in [1 .. n -> Value]
  BY DEF Cache!BoundedSeq, Cache!SeqOf
<1>4. data \in Seq(Value) /\ Len(data) = n
  <2>1. n \in Nat
    BY <1>2
  <2> QED BY <2>1, <1>3
<1>5. n \in 1 .. MaxLen
  BY <1>2, <1>4
<1>6. CacheInv'
  <2>1. CacheTypes'
    BY <1>1 DEF CacheInv, CacheTypes
  <2>2. cRequest' \in Request
    BY <1>1, <1>4 DEF Request
  <2>3. Asked'
    BY <1>1, <1>4, <2>2 DEF Asked
  <2>4. Passes'
    BY <1>1, <1>2 DEF CacheInv, Passes
  <2> QED BY <2>1, <2>3, <2>4, <1>1, <1>2 DEF CacheInv
<1>7. Cache!View' = Cache!View
  BY <1>1 DEF Cache!View
<1>8. Want = Cache!Promise!Nothing /\ Past = <<>> /\ Past' = <<>>
  BY <1>1, <1>2 DEF Want, Past, Cache!NoRequest, Cache!Promise!Nothing
<1>9. Want' = [dst |-> dst, data |-> data]
  BY <1>1 DEF Want
<1>10. Want' \in [dst : {dst}, data : [1 .. n -> Value]]
  BY <1>3, <1>9
<1>11. Cache!Promise!Call
  <2>1. dst \in Cache!Promise!Addr
    BY DEF Cache!Addr, Cache!Promise!Addr
  <2> QED BY <2>1, <1>1, <1>4, <1>5, <1>7, <1>8, <1>10 DEF Cache!Promise!Call, Want, Past
<1> QED BY <1>6, <1>11 DEF Promised, Cache!Promise!Next

LEMMA PowerLossSound ==
  ASSUME CacheInv, Cache!PowerLoss
  PROVE  CacheInv' /\ Promised
<1>1. /\ cAddr' = NoPage /\ cBuf' = [i \in 0 .. PageWords - 1 |-> Erased]
      /\ cRequest' = [dst |-> 0, data |-> <<>>, erase |-> FALSE]
      /\ cTodo' = <<>> /\ cFlushing' = FALSE /\ cFlash' = cFlash
  BY DEF Cache!PowerLoss, Cache!NoBuf, Cache!NoRequest
<1>2. /\ Pages \in Nat /\ PageWords \in Nat /\ PageWords > 0 /\ Pages > 0 /\ Erased \in Value
      /\ NoPage \notin Cache!Page
      /\ \A a \in Cache!Addr : Cache!View[a] = IF Cache!PageOf(a) = cAddr THEN cBuf[a % PageWords] ELSE cFlash[a]
  BY CacheFacts
<1>3. 0 \in Cache!Addr
  <2>1. 0 \in Cache!Page /\ 0 \in 0 .. PageWords - 1 /\ 0 * PageWords + 0 = 0
    BY <1>2 DEF Cache!Page
  <2> QED BY <2>1, WordsOfPage
<1>4. CacheInv'
  <2>1. <<>> \in Seq(Value) /\ <<>> \in Seq(Cache!Addr \X Value)
    OBVIOUS
  <2>2. CacheTypes'
    BY <1>1, <1>2, <2>1 DEF CacheInv, CacheTypes
  <2>3. cRequest' \in Request /\ cRequest'.data = <<>>
    BY <1>1, <1>3, <2>1 DEF Request
  <2>4. Asked' /\ Passes'
    BY <1>1, <2>3 DEF Asked, Cache!NoRequest, Passes
  <2> QED BY <2>2, <2>4, <1>1 DEF CacheInv
<1>5. \A a \in Cache!Addr : Cache!View'[a] = cFlash[a]
  <2>1. \A a \in Cache!Addr : Cache!PageOf(a) # NoPage
    BY <1>2, WordsOfPage
  <2> QED BY <2>1, <1>1 DEF Cache!View
<1>6. Cache!View' \in [Cache!Addr -> Value]
  BY <1>5 DEF Cache!View, CacheInv, CacheTypes
<1>7. Want' = Cache!Promise!Nothing /\ Past' = <<>>
  BY <1>1 DEF Want, Past, Cache!Promise!Nothing
<1>8. Cache!Promise!PowerLoss
  <2>1. Cache!Promise!Addr = Cache!Addr
    BY DEF Cache!Addr, Cache!Promise!Addr
  <2>2. \A a \in Cache!Addr : Cache!PageOf(a) # cAddr => Cache!View'[a] = Cache!View[a]
    BY <1>2, <1>5
  <2>3. \A a : Cache!Promise!PageOf(a) = Cache!PageOf(a)
    BY DEF Cache!PageOf, Cache!Promise!PageOf
  <2> QED BY <2>1, <2>2, <2>3, <1>1, <1>6, <1>7 DEF Cache!Promise!PowerLoss, Want, Past
<1> QED BY <1>4, <1>8 DEF Promised, Cache!Promise!Next

\* The words that an erase and a write of a page are.
LEMMA PageWrites ==
  ASSUME CacheInv, NEW p \in Cache!Page
  PROVE  /\ Cache!Erasing(p) \in Seq(Cache!Addr \X Value) /\ Len(Cache!Erasing(p)) = PageWords
         /\ Cache!Writing(p) \in Seq(Cache!Addr \X Value) /\ Len(Cache!Writing(p)) = PageWords
         /\ \A i \in 1 .. PageWords : /\ Cache!Erasing(p)[i] = <<p * PageWords + i - 1, Erased>>
                                      /\ Cache!Writing(p)[i] = <<p * PageWords + i - 1, cBuf[i - 1]>>
                                      /\ Cache!PageOf(p * PageWords + i - 1) = p
<1>1. /\ PageWords \in Nat /\ Erased \in Value /\ Pages \in Nat
      /\ cBuf \in [0 .. PageWords - 1 -> Value]
  BY CacheFacts DEF CacheInv, CacheTypes
<1>2. \A i \in 1 .. PageWords : /\ p * PageWords + i - 1 \in Cache!Addr
                                /\ Cache!PageOf(p * PageWords + i - 1) = p
  <2> SUFFICES ASSUME NEW i \in 1 .. PageWords
               PROVE  /\ p * PageWords + i - 1 \in Cache!Addr
                      /\ Cache!PageOf(p * PageWords + i - 1) = p
    OBVIOUS
  <2>1. p * PageWords \in Int
    BY <1>1 DEF Cache!Page
  <2>2. i - 1 \in 0 .. PageWords - 1 /\ p * PageWords + i - 1 = p * PageWords + (i - 1)
    BY <1>1, <2>1
  <2> QED BY <2>2, WordsOfPage
<1>3. \A i \in 1 .. PageWords : /\ Cache!Erasing(p)[i] = <<p * PageWords + i - 1, Erased>>
                                /\ Cache!Writing(p)[i] = <<p * PageWords + i - 1, cBuf[i - 1]>>
  BY DEF Cache!Erasing, Cache!Writing, Cache!Words
<1>4. \A i \in 1 .. PageWords : cBuf[i - 1] \in Value
  <2>1. \A i \in 1 .. PageWords : i - 1 \in 0 .. PageWords - 1
    BY <1>1
  <2> QED BY <2>1, <1>1
<1>5. Cache!Erasing(p) \in [1 .. PageWords -> Cache!Addr \X Value]
  BY <1>1, <1>2, <1>3 DEF Cache!Erasing
<1>6. Cache!Writing(p) \in [1 .. PageWords -> Cache!Addr \X Value]
  BY <1>1, <1>2, <1>3, <1>4 DEF Cache!Writing
<1> QED BY <1>1, <1>2, <1>3, <1>5, <1>6

LEMMA EraseSound ==
  ASSUME CacheInv, NEW p \in Cache!Page, NEW n \in 1 .. Pages, Cache!Erase(p, n)
  PROVE  CacheInv' /\ Promised
<1>1. /\ cTodo = <<>> /\ cRequest = Cache!NoRequest /\ p + n <= Pages
      /\ \A q \in p .. p + n - 1 : q # cAddr
      /\ cTodo' = [i \in 1 .. n * PageWords |-> <<p * PageWords + i - 1, Erased>>]
      /\ UNCHANGED <<cFlash, cAddr, cBuf, cRequest, cFlushing>>
  BY DEF Cache!Erase, Cache!Returned, Cache!NotCached
<1>2. ~cFlushing /\ PageWords \in Nat /\ PageWords > 0 /\ Pages \in Nat /\ Erased \in Value
  BY <1>1, CacheFacts
<1>3. p \in Nat /\ n \in Nat /\ n * PageWords \in Nat /\ p * PageWords \in Nat
      /\ (p + n) * PageWords = p * PageWords + n * PageWords
      /\ (p + n) * PageWords <= Pages * PageWords
  <2>1. p \in Nat /\ n \in Nat /\ n * PageWords \in Nat /\ p * PageWords \in Nat
    BY <1>2 DEF Cache!Page
  <2>2. (p + n) * PageWords = p * PageWords + n * PageWords
    BY <2>1, <1>2
  <2>3. \A x, y, z \in Nat : x <= y => x * z <= y * z
    OBVIOUS
  <2> QED BY <2>1, <2>2, <2>3, <1>1, <1>2
<1>4. ASSUME NEW i \in 1 .. n * PageWords
      PROVE  /\ p * PageWords + i - 1 \in Cache!Addr
             /\ Cache!PageOf(p * PageWords + i - 1) # cAddr
  <2> DEFINE a == p * PageWords + i - 1
  <2>1. a \in Nat /\ a >= p * PageWords /\ a < (p + n) * PageWords /\ a \in Cache!Addr
    BY <1>2, <1>3 DEF Cache!Addr
  <2> HIDE DEF a
  <2>2. /\ Cache!PageOf(a) \in Nat /\ a % PageWords \in 0 .. PageWords - 1
        /\ a = Cache!PageOf(a) * PageWords + (a % PageWords)
    BY <2>1, <1>2, WordsOfPage DEF Cache!Page
  <2>3. Cache!PageOf(a) >= p
    <3> SUFFICES ASSUME Cache!PageOf(a) + 1 <= p PROVE FALSE
      BY <2>2, <1>3
    <3>1. (Cache!PageOf(a) + 1) * PageWords <= p * PageWords
      BY <2>2, <1>2, <1>3
    <3>2. (Cache!PageOf(a) + 1) * PageWords = Cache!PageOf(a) * PageWords + PageWords
      BY <2>2, <1>2
    <3> QED BY <3>1, <3>2, <2>1, <2>2, <1>2, <1>3
  <2>4. Cache!PageOf(a) < p + n
    <3> SUFFICES ASSUME p + n <= Cache!PageOf(a) PROVE FALSE
      BY <2>2, <1>3
    <3>1. (p + n) * PageWords <= Cache!PageOf(a) * PageWords
      BY <2>2, <1>2, <1>3
    <3> QED BY <3>1, <2>1, <2>2, <1>2, <1>3
  <2> QED BY <2>1, <2>2, <2>3, <2>4, <1>1, <1>3 DEF a
<1>5. cTodo' \in Seq(Cache!Addr \X Value) /\ Len(cTodo') = n * PageWords
  <2>1. cTodo' \in [1 .. n * PageWords -> Cache!Addr \X Value]
    BY <1>1, <1>2, <1>4
  <2>2. n * PageWords \in Nat
    BY <1>3
  <2> QED BY <2>1, <2>2, IsSequence
<1>6. CacheInv'
  <2>1. CacheTypes'
    BY <1>1, <1>5 DEF CacheInv, CacheTypes
  <2>2. Asked'
    BY <1>1 DEF CacheInv, Asked
  <2>3. Passes'
    <3>1. \A i \in 1 .. Len(cTodo') : Cache!PageOf(cTodo'[i][1]) # cAddr
      BY <1>1, <1>4, <1>5
    <3> QED BY <3>1, <1>1 DEF Passes
  <2> QED BY <2>1, <2>2, <2>3, <1>1, <1>2 DEF CacheInv
<1>7. Cache!View' = Cache!View /\ Want' = Want /\ Want = Cache!Promise!Nothing /\ Past = <<>> /\ Past' = cTodo'
  BY <1>1, <1>2 DEF Cache!View, Want, Past, Cache!NoRequest, Cache!Promise!Nothing
<1>8. Cache!Promise!CallPast
  <2>1. Cache!Promise!Addr = Cache!Addr
    BY DEF Cache!Addr, Cache!Promise!Addr
  <2> QED BY <2>1, <1>1, <1>5, <1>7 DEF Cache!Promise!CallPast, Want, Past
<1> QED BY <1>6, <1>8 DEF Promised, Cache!Promise!Next

LEMMA SaveSound ==
  ASSUME CacheInv, NEW p \in Cache!Page, NEW v \in Value, Cache!Save(p, v)
  PROVE  CacheInv' /\ Promised
<1>1. /\ cTodo = <<>> /\ cRequest = Cache!NoRequest /\ p # cAddr
      /\ cTodo' = Cache!Erasing(p) \o <<<<Cache!Words(p)[1], v>>>>
      /\ UNCHANGED <<cFlash, cAddr, cBuf, cRequest, cFlushing>>
  BY DEF Cache!Save, Cache!Returned, Cache!NotCached
<1>2. ~cFlushing /\ PageWords \in Nat /\ PageWords > 0 /\ Pages \in Nat
  BY <1>1, CacheFacts
<1>3. /\ Cache!Erasing(p) \in Seq(Cache!Addr \X Value) /\ Len(Cache!Erasing(p)) = PageWords
      /\ \A i \in 1 .. PageWords : Cache!PageOf(Cache!Erasing(p)[i][1]) = p
  BY PageWrites
<1> DEFINE w == <<Cache!Words(p)[1], v>>
<1>4. w \in Cache!Addr \X Value /\ Cache!PageOf(w[1]) = p
  <2>1. 1 \in 1 .. PageWords /\ Cache!Words(p)[1] = p * PageWords + 1 - 1 /\ p * PageWords + 1 - 1 = p * PageWords + 0
    BY <1>2 DEF Cache!Words, Cache!Page
  <2>2. 0 \in 0 .. PageWords - 1
    BY <1>2
  <2> QED BY <2>1, <2>2, WordsOfPage
<1> HIDE DEF w
<1>5. cTodo' = Cache!Erasing(p) \o <<w>>
  BY <1>1 DEF w
<1>6. /\ cTodo' \in Seq(Cache!Addr \X Value) /\ Len(cTodo') = PageWords + 1
      /\ \A i \in 1 .. PageWords + 1 :
           cTodo'[i] = IF i <= PageWords THEN Cache!Erasing(p)[i] ELSE w
  <2> DEFINE s == Cache!Erasing(p)  t == <<w>>
  <2>1. s \in Seq(Cache!Addr \X Value) /\ t \in Seq(Cache!Addr \X Value) /\ Len(t) = 1 /\ t[1] = w
    BY <1>3, <1>4
  <2>2. cTodo' = s \o t /\ Len(s) = PageWords
    BY <1>3, <1>5
  <2> HIDE DEF s, t
  <2>3. /\ cTodo' \in Seq(Cache!Addr \X Value) /\ Len(cTodo') = PageWords + 1
        /\ \A i \in 1 .. PageWords + 1 :
             cTodo'[i] = IF i <= PageWords THEN s[i] ELSE t[i - PageWords]
    BY <2>1, <2>2, ConcatProperties
  <2>4. \A i \in 1 .. PageWords + 1 : ~(i <= PageWords) => i - PageWords = 1
    BY <1>2
  <2> QED BY <2>1, <2>3, <2>4 DEF s
<1>7. CacheInv'
  <2>1. CacheTypes'
    BY <1>1, <1>6 DEF CacheInv, CacheTypes
  <2>2. Asked'
    BY <1>1 DEF CacheInv, Asked
  <2>3. Passes'
    <3>1. ASSUME NEW i \in 1 .. Len(cTodo') PROVE Cache!PageOf(cTodo'[i][1]) = p
      <4>1. i \in 1 .. PageWords + 1 /\ (i <= PageWords => i \in 1 .. PageWords)
        BY <1>2, <1>6
      <4>2. cTodo'[i] = IF i <= PageWords THEN Cache!Erasing(p)[i] ELSE w
        BY <4>1, <1>6
      <4> QED BY <4>1, <4>2, <1>3, <1>4
    <3> QED BY <3>1, <1>1 DEF Passes
  <2> QED BY <2>1, <2>2, <2>3, <1>1, <1>2 DEF CacheInv
<1>8. Cache!View' = Cache!View /\ Want' = Want /\ Want = Cache!Promise!Nothing /\ Past = <<>> /\ Past' = cTodo'
  BY <1>1, <1>2 DEF Cache!View, Want, Past, Cache!NoRequest, Cache!Promise!Nothing
<1>9. Cache!Promise!CallPast
  <2>1. Cache!Promise!Addr = Cache!Addr
    BY DEF Cache!Addr, Cache!Promise!Addr
  <2> QED BY <2>1, <1>1, <1>6, <1>8 DEF Cache!Promise!CallPast, Want, Past
<1> QED BY <1>7, <1>9 DEF Promised, Cache!Promise!Next

LEMMA FlushSound ==
  ASSUME CacheInv, NEW e \in BOOLEAN, cTodo = <<>>, cAddr # NoPage, Cache!StartFlush(e),
         UNCHANGED <<cFlash, cBuf, cRequest>>
  PROVE  CacheInv' /\ Promised
<1>1. /\ ~cFlushing /\ PageWords \in Nat /\ PageWords > 0 /\ Pages \in Nat /\ NoPage \notin Cache!Page
      /\ cAddr \in Cache!Page /\ cBuf \in [0 .. PageWords - 1 -> Value]
  BY CacheFacts DEF CacheInv, CacheTypes
<1>2. /\ cTodo' = Cache!ToFlush(cAddr, e) /\ cFlushing' = ~Cache!Clean(cAddr)
      /\ cAddr' = IF Cache!Clean(cAddr) THEN NoPage ELSE cAddr
  BY DEF Cache!StartFlush
<1>3. CASE Cache!Clean(cAddr)
  <2>1. cTodo' = <<>> /\ cAddr' = NoPage /\ cFlushing' = FALSE
    BY <1>2, <1>3 DEF Cache!ToFlush
  <2>2. CacheInv'
    <3>1. CacheTypes' /\ Asked'
      BY <2>1 DEF CacheInv, CacheTypes, Asked
    <3>2. Passes'
      BY <2>1 DEF Passes
    <3> QED BY <2>1, <3>1, <3>2 DEF CacheInv
  <2>3. \A k \in 0 .. PageWords - 1 : cBuf[k] = cFlash[cAddr * PageWords + k]
    BY <1>3 DEF Cache!Clean, Cache!InFlash
  <2>4. ASSUME NEW a \in Cache!Addr PROVE Cache!View'[a] = Cache!View[a]
    <3>1. Cache!PageOf(a) # NoPage /\ a % PageWords \in 0 .. PageWords - 1
          /\ a = Cache!PageOf(a) * PageWords + (a % PageWords)
      BY <1>1, WordsOfPage
    <3>2. Cache!View'[a] = cFlash[a]
      BY <2>1, <3>1 DEF Cache!View
    <3>3. Cache!View[a] = IF Cache!PageOf(a) = cAddr THEN cBuf[a % PageWords] ELSE cFlash[a]
      BY CacheFacts
    <3> QED BY <2>3, <3>1, <3>2, <3>3
  <2>5. Past' = Past
    BY <1>1, <2>1 DEF Past
  <2> QED BY <2>1, <2>2, <2>4, <2>5, Synced
<1>4. CASE ~Cache!Clean(cAddr)
  <2> DEFINE w == Cache!Writing(cAddr)
  <2>1. cAddr' = cAddr /\ cFlushing' = TRUE
    BY <1>2, <1>4
  <2>2. /\ Cache!Erasing(cAddr) \in Seq(Cache!Addr \X Value) /\ Len(Cache!Erasing(cAddr)) = PageWords
        /\ w \in Seq(Cache!Addr \X Value) /\ Len(w) = PageWords
        /\ \A i \in 1 .. PageWords : /\ w[i] = <<cAddr * PageWords + i - 1, cBuf[i - 1]>>
                                     /\ Cache!PageOf(w[i][1]) = cAddr
                                     /\ Cache!PageOf(Cache!Erasing(cAddr)[i][1]) = cAddr
    <3>1. /\ Cache!Erasing(cAddr) \in Seq(Cache!Addr \X Value) /\ Len(Cache!Erasing(cAddr)) = PageWords
          /\ w \in Seq(Cache!Addr \X Value) /\ Len(w) = PageWords
      BY <1>1, PageWrites
    <3>2. \A i \in 1 .. PageWords :
            /\ Cache!Erasing(cAddr)[i] = <<cAddr * PageWords + i - 1, Erased>>
            /\ w[i] = <<cAddr * PageWords + i - 1, cBuf[i - 1]>>
            /\ Cache!PageOf(cAddr * PageWords + i - 1) = cAddr
      BY <1>1, PageWrites
    <3> HIDE DEF w
    <3> QED BY <3>1, <3>2
  <2> HIDE DEF w
  <2>3. PICK s \in Seq(Cache!Addr \X Value) : /\ cTodo' = s \o w
                                             /\ \A i \in 1 .. Len(s) : Cache!PageOf(s[i][1]) = cAddr
    <3>1. cTodo' = (IF e THEN Cache!Erasing(cAddr) ELSE <<>>) \o w
      BY <1>2, <1>4 DEF Cache!ToFlush, w
    <3>2. /\ <<>> \in Seq(Cache!Addr \X Value)
          /\ \A i \in 1 .. Len(<<>>) : Cache!PageOf(<<>>[i][1]) = cAddr
      OBVIOUS
    <3>3. CASE e
      BY <3>1, <3>3, <2>2
    <3>4. CASE ~e
      <4>1. cTodo' = <<>> \o w
        BY <3>1, <3>4
      <4> QED BY <4>1, <3>2
    <3> QED BY <3>3, <3>4
  <2>4. PICK m \in Nat : m = Len(s)
    OBVIOUS
  <2>5. /\ cTodo' \in Seq(Cache!Addr \X Value) /\ Len(cTodo') = m + PageWords
        /\ \A i \in 1 .. m + PageWords : cTodo'[i] = IF i <= m THEN s[i] ELSE w[i - m]
    BY <2>2, <2>3, <2>4, ConcatProperties
  <2>6. ASSUME NEW i \in 1 .. Len(cTodo') PROVE Cache!PageOf(cTodo'[i][1]) = cAddr
    <3>1. i \in 1 .. m \/ i - m \in 1 .. PageWords
      BY <2>5, <1>1
    <3> QED BY <3>1, <2>2, <2>3, <2>4, <2>5, <1>1
  <2>7. ASSUME NEW k \in 0 .. PageWords - 1
        PROVE  /\ ~(k + Len(cTodo') < PageWords)
               /\ cTodo'[Len(cTodo') - PageWords + k + 1] = <<cAddr * PageWords + k, cBuf[k]>>
    <3>1. /\ ~(k + (m + PageWords) < PageWords)
          /\ (m + PageWords) - PageWords + k + 1 = m + (k + 1)
          /\ m + (k + 1) \in 1 .. m + PageWords /\ ~(m + (k + 1) <= m) /\ (m + (k + 1)) - m = k + 1
          /\ k + 1 \in 1 .. PageWords /\ (k + 1) - 1 = k
      BY <1>1
    <3>2. cTodo'[m + (k + 1)] = w[k + 1]
      BY <3>1, <2>5
    <3>3. cAddr * PageWords + (k + 1) - 1 = cAddr * PageWords + k
      <4>1. cAddr * PageWords \in Int
        BY <1>1 DEF Cache!Page
      <4> QED BY <4>1
    <3>4. w[k + 1] = <<cAddr * PageWords + (k + 1) - 1, cBuf[(k + 1) - 1]>>
      BY <3>1, <2>2
    <3> QED BY <3>1, <3>2, <3>3, <3>4, <2>5
  <2>8. cTodo' # <<>>
    <3>1. Len(cTodo') # 0
      BY <2>5, <1>1
    <3> QED BY <3>1
  <2>9. CacheInv'
    <3>1. CacheTypes'
      BY <2>1, <2>5 DEF CacheInv, CacheTypes
    <3>2. Asked'
      BY DEF CacheInv, Asked
    <3>3. Flushes'
      BY <1>1, <2>1, <2>6, <2>7, <2>8 DEF Flushes
    <3> QED BY <2>1, <3>1, <3>2, <3>3 DEF CacheInv
  <2>10. Cache!View' = Cache!View /\ Past' = Past
    <3>1. Past' = Past
      BY <1>1, <2>1 DEF Past
    <3> QED BY <3>1, <2>1 DEF Cache!View
  <2> QED BY <2>1, <2>9, <2>10, Synced
<1> QED BY <1>3, <1>4

LEMMA WriteWordSound ==
  ASSUME CacheInv, Cache!WriteWord
  PROVE  CacheInv' /\ Promised
<1>1. /\ cTodo # <<>> /\ UNCHANGED <<cBuf, cRequest>>
      /\ cAddr' = IF cFlushing /\ Len(cTodo) = 1 THEN NoPage ELSE cAddr
      /\ cFlushing' = (cFlushing /\ Len(cTodo) > 1)
      /\ cTodo' = Tail(cTodo)
  BY DEF Cache!WriteWord
<1>2. /\ PageWords \in Nat /\ PageWords > 0 /\ Pages \in Nat /\ NoPage \notin Cache!Page
      /\ cTodo \in Seq(Cache!Addr \X Value) /\ cFlash \in [Cache!Addr -> Value]
      /\ cBuf \in [0 .. PageWords - 1 -> Value]
      /\ \A a \in Cache!Addr : Cache!View[a] = IF Cache!PageOf(a) = cAddr THEN cBuf[a % PageWords] ELSE cFlash[a]
  BY CacheFacts DEF CacheInv, CacheTypes
<1>3. PICK n \in Nat : n = Len(cTodo)
  BY <1>2
<1>4. n > 0 /\ Head(cTodo) = cTodo[1] /\ 1 \in 1 .. n
  BY <1>1, <1>2, <1>3
<1>5. cTodo[1] \in Cache!Addr \X Value
  BY <1>2, <1>3, <1>4
<1> DEFINE at == cTodo[1][1]  v == cTodo[1][2]
<1>6. at \in Cache!Addr /\ v \in Value /\ cTodo[1] = <<at, v>>
  BY <1>5
<1>7. cFlash' = [cFlash EXCEPT ![at] = v]
  BY <1>4 DEF Cache!WriteWord
<1> HIDE DEF at, v
<1>8. /\ cFlash' \in [Cache!Addr -> Value] /\ cFlash'[at] = v
      /\ \A a \in Cache!Addr : a # at => cFlash'[a] = cFlash[a]
  BY <1>2, <1>6, <1>7
<1>9. /\ cTodo' \in Seq(Cache!Addr \X Value) /\ Len(cTodo') = n - 1
      /\ \A i \in 1 .. n - 1 : cTodo'[i] = cTodo[i + 1]
  BY <1>1, <1>2, <1>3, HeadTailProperties
<1>10. CASE cFlushing
  <2>1. /\ cAddr \in Cache!Page /\ Cache!PageOf(at) = cAddr
        /\ \A i \in 1 .. n : Cache!PageOf(cTodo[i][1]) = cAddr
        /\ \A k \in 0 .. PageWords - 1 :
             IF k + n < PageWords
             THEN cFlash[cAddr * PageWords + k] = cBuf[k]
             ELSE cTodo[n - PageWords + k + 1] = <<cAddr * PageWords + k, cBuf[k]>>
    BY <1>3, <1>4, <1>10 DEF CacheInv, Flushes, at
  <2>2. \A k \in 0 .. PageWords - 1 : cAddr * PageWords + k \in Cache!Addr
    BY <2>1, WordsOfPage
  <2>3. \A k, j \in 0 .. PageWords - 1 :
          cAddr * PageWords + k = cAddr * PageWords + j => k = j
    <3>1. cAddr * PageWords \in Int
      BY <1>2, <2>1 DEF Cache!Page
    <3> QED BY <3>1
  \* What is to be written to the page after this word, and what is not.
  <2>4. ASSUME NEW k \in 0 .. PageWords - 1
        PROVE  IF k + (n - 1) < PageWords
               THEN cFlash'[cAddr * PageWords + k] = cBuf[k]
               ELSE cTodo'[(n - 1) - PageWords + k + 1] = <<cAddr * PageWords + k, cBuf[k]>>
    <3>1. CASE k + n < PageWords
      <4>1. PageWords - n \in 0 .. PageWords - 1 /\ n - PageWords + (PageWords - n) + 1 = 1
            /\ ~((PageWords - n) + n < PageWords) /\ k # PageWords - n /\ k + (n - 1) < PageWords
        BY <3>1, <1>2, <1>4
      <4>2. cTodo[1] = <<cAddr * PageWords + (PageWords - n), cBuf[PageWords - n]>>
        BY <4>1, <2>1
      <4>3. at # cAddr * PageWords + k
        BY <4>1, <4>2, <1>6, <2>3
      <4> QED BY <4>1, <4>3, <3>1, <1>8, <2>1, <2>2
    <3>2. CASE k + n = PageWords
      <4>1. n - PageWords + k + 1 = 1 /\ ~(k + n < PageWords) /\ k + (n - 1) < PageWords
        BY <3>2, <1>2, <1>4
      <4>2. cTodo[1] = <<cAddr * PageWords + k, cBuf[k]>>
        BY <4>1, <2>1
      <4> QED BY <4>1, <4>2, <1>6, <1>8
    <3>3. CASE k + n > PageWords
      <4>1. /\ (n - 1) - PageWords + k + 1 \in 1 .. n - 1
            /\ ((n - 1) - PageWords + k + 1) + 1 = n - PageWords + k + 1
            /\ ~(k + n < PageWords) /\ ~(k + (n - 1) < PageWords)
        BY <3>3, <1>2, <1>4
      <4>2. cTodo[n - PageWords + k + 1] = <<cAddr * PageWords + k, cBuf[k]>>
        BY <4>1, <2>1
      <4>3. cTodo'[(n - 1) - PageWords + k + 1] = cTodo[((n - 1) - PageWords + k + 1) + 1]
        BY <4>1, <1>9
      <4> QED BY <4>1, <4>2, <4>3
    <3> QED BY <3>1, <3>2, <3>3, <1>2
  <2>5. Asked'
    BY <1>1 DEF CacheInv, Asked
  <2>6. \A a \in Cache!Addr : Cache!PageOf(a) # cAddr => cFlash'[a] = cFlash[a]
    BY <1>8, <2>1
  <2>7. CASE n = 1
    <3>1. cAddr' = NoPage /\ cFlushing' = FALSE /\ Len(cTodo') = 0
      <4>1. Len(cTodo) = 1 /\ ~(Len(cTodo) > 1)
        <5>1. Len(cTodo) = 1
          BY <2>7, <1>3
        <5>2. \A m \in {1} : ~(m > 1)
          OBVIOUS
        <5> QED BY <5>1, <5>2
      <4>2. Len(cTodo') = n - 1
        BY <1>9
      <4>3. n - 1 = 0
        BY <2>7
      <4> QED BY <4>1, <4>2, <4>3, <1>1, <1>10
    <3>2. cTodo' = <<>>
      BY <3>1, <1>9, EmptySeq
    <3>3. CacheInv'
      <4>1. CacheTypes'
        BY <3>1, <1>1, <1>8, <1>9 DEF CacheInv, CacheTypes
      <4>2. Passes'
        BY <3>2 DEF Passes
      <4> QED BY <3>1, <4>1, <4>2, <2>5 DEF CacheInv
    <3>4. ASSUME NEW a \in Cache!Addr PROVE Cache!View'[a] = Cache!View[a]
      <4>1. Cache!PageOf(a) \in Cache!Page /\ a % PageWords \in 0 .. PageWords - 1
            /\ a = Cache!PageOf(a) * PageWords + (a % PageWords)
        BY WordsOfPage
      <4>2. Cache!View'[a] = cFlash'[a]
        BY <3>1, <4>1, <1>2 DEF Cache!View
      <4>3. Cache!PageOf(a) = cAddr => cFlash'[a] = cBuf[a % PageWords]
        <5>1. \A k \in 0 .. PageWords - 1 : k + (n - 1) < PageWords
          BY <2>7, <1>2
        <5> QED BY <5>1, <4>1, <2>4
      <4> QED BY <4>2, <4>3, <1>2, <2>6
    <3>5. Past' = Past
      BY <3>1, <3>2, <1>10 DEF Past
    <3> QED BY <3>1, <3>3, <3>4, <3>5, <1>1, Synced
  <2>8. CASE n # 1
    <3>1. cAddr' = cAddr /\ cFlushing' = TRUE /\ Len(cTodo') # 0
      <4>1. Len(cTodo) # 1 /\ Len(cTodo) > 1
        BY ONLY <2>8, <1>3, <1>4, n \in Nat
      <4>2. Len(cTodo') = n - 1
        BY <1>9
      <4>3. n - 1 # 0
        BY <2>8
      <4> QED BY <4>1, <4>2, <4>3, <1>1, <1>10
    <3>2. cTodo' # <<>>
      BY <3>1
    <3>3. CacheInv'
      <4>1. CacheTypes'
        BY <3>1, <1>1, <1>8, <1>9 DEF CacheInv, CacheTypes
      <4>2. \A i \in 1 .. n - 1 : i + 1 \in 1 .. n
        OBVIOUS
      <4>3. \A i \in 1 .. Len(cTodo') : Cache!PageOf(cTodo'[i][1]) = cAddr
        <5> SUFFICES ASSUME NEW i \in 1 .. Len(cTodo') PROVE Cache!PageOf(cTodo'[i][1]) = cAddr
          OBVIOUS
        <5>1. i \in 1 .. n - 1
          BY <1>9
        <5>2. cTodo'[i] = cTodo[i + 1] /\ Cache!PageOf(cTodo[i + 1][1]) = cAddr
          BY <5>1, <4>2, <1>9, <2>1
        <5> QED BY <5>2
      <4>4. \A k \in 0 .. PageWords - 1 :
              IF k + Len(cTodo') < PageWords
              THEN cFlash'[cAddr * PageWords + k] = cBuf[k]
              ELSE cTodo'[Len(cTodo') - PageWords + k + 1] = <<cAddr * PageWords + k, cBuf[k]>>
        <5>1. Len(cTodo') = n - 1
          BY <1>9
        <5> QED BY ONLY <5>1, <2>4
      <4>5. Flushes'
        BY <3>1, <3>2, <4>3, <4>4, <1>1, <2>1 DEF Flushes
      <4> QED BY <3>1, <4>1, <4>5, <2>5 DEF CacheInv
    <3>4. \A a \in Cache!Addr : Cache!View'[a] = Cache!View[a]
      BY <3>1, <1>1, <1>2, <2>6 DEF Cache!View
    <3>5. Past' = Past
      BY <3>1, <1>10 DEF Past
    <3> QED BY <3>1, <3>3, <3>4, <3>5, <1>1, Synced
  <2> QED BY <2>7, <2>8
<1>11. CASE ~cFlushing
  <2>1. /\ cRequest = Cache!NoRequest /\ \A i \in 1 .. n : Cache!PageOf(cTodo[i][1]) # cAddr
        /\ cAddr' = cAddr /\ cFlushing' = FALSE
    BY <1>1, <1>3, <1>11 DEF CacheInv, Passes
  <2>2. Cache!PageOf(at) # cAddr
    BY <2>1, <1>4 DEF at
  <2>3. CacheInv'
    <3>1. CacheTypes'
      BY <2>1, <1>1, <1>8, <1>9 DEF CacheInv, CacheTypes
    <3>2. Asked'
      BY <1>1 DEF CacheInv, Asked
    <3>3. Passes'
      <4>1. \A i \in 1 .. n - 1 : i + 1 \in 1 .. n
        OBVIOUS
      <4> QED BY <4>1, <2>1, <1>1, <1>9 DEF Passes
    <3> QED BY <2>1, <3>1, <3>2, <3>3 DEF CacheInv
  <2>4. Cache!View' = [Cache!View EXCEPT ![at] = v]
    <3>1. Cache!View \in [Cache!Addr -> Value]
      BY CacheFacts
    <3>2. \A a \in Cache!Addr : Cache!View'[a] = IF a = at THEN v ELSE Cache!View[a]
      BY <1>1, <1>2, <1>8, <2>1, <2>2 DEF Cache!View
    <3> QED BY <3>1, <3>2, <1>6 DEF Cache!View
  <2>5. Past = cTodo /\ Past' = Tail(cTodo) /\ Want' = Want
    BY <1>1, <1>11, <2>1 DEF Past, Want
  <2>6. Cache!Promise!Direct
    <3>1. \A a : Cache!Promise!PageOf(a) = Cache!PageOf(a)
      BY DEF Cache!PageOf, Cache!Promise!PageOf
    <3>2. Head(Past)[1] = at /\ Head(Past)[2] = v
      BY <1>4, <2>5 DEF at, v
    <3> QED BY <3>1, <3>2, <1>1, <2>1, <2>2, <2>4, <2>5 DEF Cache!Promise!Direct, Want, Past
  <2> QED BY <2>3, <2>6 DEF Promised, Cache!Promise!Next
<1> QED BY <1>10, <1>11

LEMMA CopyInSound ==
  ASSUME CacheInv, Cache!CopyIn
  PROVE  CacheInv' /\ Promised
<1> DEFINE d == cRequest.dst  data == cRequest.data  R == Cache!Round  L == Len(cRequest.data)
           p == Cache!PageOf(cRequest.dst)  at == cRequest.dst % PageWords
<1>1. /\ cTodo = <<>> /\ data # <<>> /\ cAddr \in {NoPage, p} /\ cAddr' = p
      /\ cBuf' = [i \in 0 .. PageWords - 1 |->
                    IF i \in at .. at + R - 1 THEN data[i - at + 1] ELSE Cache!ReadIn(p)[i]]
      /\ cRequest' = IF R = L THEN Cache!NoRequest
                     ELSE [cRequest EXCEPT !.dst = @ + R, !.data = SubSeq(@, R + 1, Len(@))]
      /\ UNCHANGED <<cFlash, cTodo, cFlushing>>
  BY DEF Cache!CopyIn, Cache!ToFlushFirst
<1>2. /\ PageWords \in Nat /\ PageWords > 0 /\ Pages \in Nat /\ NoPage \notin Cache!Page /\ ~cFlushing
      /\ cFlash \in [Cache!Addr -> Value] /\ cBuf \in [0 .. PageWords - 1 -> Value]
      /\ \A a \in Cache!Addr : Cache!View[a] = IF Cache!PageOf(a) = cAddr THEN cBuf[a % PageWords] ELSE cFlash[a]
  BY <1>1, CacheFacts DEF CacheInv, CacheTypes
<1>3. cRequest \in Request /\ d \in Cache!Addr /\ data \in Seq(Value) /\ d + L <= Pages * PageWords
  BY <1>1 DEF CacheInv, Asked, Request
<1>4. /\ p \in Cache!Page /\ at \in 0 .. PageWords - 1 /\ d = p * PageWords + at
      /\ p * PageWords \in Int
  <2>1. p \in Cache!Page /\ at \in 0 .. PageWords - 1 /\ d = p * PageWords + at
    BY <1>3, WordsOfPage
  <2> QED BY <2>1, <1>2 DEF Cache!Page
<1>5. L \in Nat /\ L > 0
  <2>1. L \in Nat \ {0}
    BY <1>1, <1>3, EmptySeq
  <2> QED BY <2>1
<1>6. R \in Nat /\ R > 0 /\ R <= L /\ at + R <= PageWords
  <2>1. R = IF L < PageWords - at THEN L ELSE PageWords - at
    BY DEF Cache!Round, Cache!BytesToEnd
  <2> HIDE DEF R, L, at
  <2> QED BY <2>1, <1>2, <1>4, <1>5
<1> HIDE DEF d, data, R, L, p, at
<1>7. ASSUME NEW a \in Cache!Addr, Cache!PageOf(a) = p
      PROVE  /\ a % PageWords \in 0 .. PageWords - 1
             /\ a \in d .. d + R - 1 <=> a % PageWords \in at .. at + R - 1
             /\ a % PageWords \in at .. at + R - 1 =>
                  /\ (a % PageWords) - at + 1 = a - d + 1
                  /\ (a % PageWords) - at + 1 \in 1 .. L
             /\ Cache!ReadIn(p)[a % PageWords] = Cache!View[a]
  <2> DEFINE k == a % PageWords
  <2>1. k \in 0 .. PageWords - 1 /\ a = p * PageWords + k
    BY <1>7, WordsOfPage
  <2> HIDE DEF k
  <2>2. /\ a \in d .. d + R - 1 <=> k \in at .. at + R - 1
        /\ k \in at .. at + R - 1 => k - at + 1 = a - d + 1 /\ k - at + 1 \in 1 .. L
    BY <2>1, <1>2, <1>4, <1>5, <1>6
  <2>3. Cache!ReadIn(p)[k] = Cache!View[a]
    <3>1. CASE cAddr = p
      BY <3>1, <1>2, <1>7 DEF Cache!ReadIn, k
    <3>2. CASE cAddr # p
      <4>1. Cache!ReadIn(p)[k] = cFlash[p * PageWords + k]
        BY <3>2, <2>1 DEF Cache!ReadIn, Cache!InFlash
      <4> QED BY <4>1, <3>2, <2>1, <1>2, <1>7
    <3> QED BY <3>1, <3>2
  <2> QED BY <2>1, <2>2, <2>3 DEF k
<1>8. ASSUME NEW a \in Cache!Addr, Cache!PageOf(a) # p
      PROVE  a \notin d .. d + R - 1 /\ Cache!View[a] = cFlash[a]
  <2>1. a \notin d .. d + R - 1
    <3> SUFFICES ASSUME a \in d .. d + R - 1 PROVE FALSE
      OBVIOUS
    <3>1. a - p * PageWords \in 0 .. PageWords - 1 /\ a = p * PageWords + (a - p * PageWords)
      BY <1>2, <1>4, <1>6
    <3> QED BY <3>1, <1>4, <1>8, WordsOfPage
  <2>2. Cache!PageOf(a) # NoPage
    BY <1>2, WordsOfPage
  <2> QED BY <2>1, <2>2, <1>1, <1>2, <1>8
<1>9. cBuf' \in [0 .. PageWords - 1 -> Value]
  <2>1. ASSUME NEW k \in 0 .. PageWords - 1
        PROVE  (IF k \in at .. at + R - 1 THEN data[k - at + 1] ELSE Cache!ReadIn(p)[k]) \in Value
    <3>1. /\ p * PageWords + k \in Cache!Addr /\ Cache!PageOf(p * PageWords + k) = p
          /\ (p * PageWords + k) % PageWords = k
      BY <1>4, WordsOfPage
    <3>2. k \in at .. at + R - 1 => k - at + 1 \in 1 .. L
      BY <3>1, <1>7
    <3>3. Cache!ReadIn(p)[k] \in Value
      <4>1. Cache!ReadIn(p)[k] = Cache!View[p * PageWords + k]
        BY <3>1, <1>7
      <4>2. Cache!View \in [Cache!Addr -> Value]
        BY CacheFacts
      <4> QED BY <3>1, <4>1, <4>2
    <3>4. \A i \in 1 .. L : data[i] \in Value
      BY <1>3 DEF L, data
    <3> QED BY <3>2, <3>3, <3>4
  <2> QED BY <2>1, <1>1
<1>10. IF R = L THEN cRequest' = Cache!NoRequest
       ELSE /\ cRequest'.dst = d + R /\ cRequest'.data = SubSeq(data, R + 1, L)
            /\ cRequest'.erase \in BOOLEAN /\ cRequest' \in Request
            /\ Len(cRequest'.data) = L - R /\ cRequest'.data # <<>>
  <2>1. CASE R = L
    BY <2>1, <1>1
  <2>2. CASE R # L
    <3>1. cRequest' = [cRequest EXCEPT !.dst = @ + R, !.data = SubSeq(@, R + 1, Len(@))]
      BY <2>2, <1>1
    <3>2. cRequest' = [dst |-> d + R, data |-> SubSeq(data, R + 1, L), erase |-> cRequest.erase]
      BY <3>1, <1>3 DEF Request, d, data, L
    <3>3. R + 1 \in 1 .. L + 1 /\ L \in 0 .. L /\ R + 1 <= L /\ L - R > 0 /\ L - (R + 1) + 1 = L - R
      BY <2>2, <1>5, <1>6
    <3>4. SubSeq(data, R + 1, L) \in Seq(Value) /\ Len(SubSeq(data, R + 1, L)) = L - R
      <4>1. L = Len(data)
        BY DEF L, data
      <4> QED BY <4>1, <3>3, <1>3, <1>5, <1>6
    <3>5. SubSeq(data, R + 1, L) # <<>>
      <4>1. L - R # 0
        BY <3>3, <1>5, <1>6
      <4> QED BY <4>1, <3>4
    <3>6. d + R \in Cache!Addr
      <4>1. d \in Nat /\ Pages * PageWords \in Nat
        BY <1>2, <1>3 DEF Cache!Addr
      <4>2. d + R < Pages * PageWords
        BY <4>1, <3>3, <1>3, <1>5, <1>6
      <4> QED BY <4>1, <4>2, <1>6 DEF Cache!Addr
    <3>7. cRequest.erase \in BOOLEAN
      BY <1>3 DEF Request
    <3> QED BY <2>2, <3>2, <3>4, <3>5, <3>6, <3>7 DEF Request
  <2> QED BY <2>1, <2>2
<1>11. CacheInv'
  <2>1. CacheTypes'
    BY <1>1, <1>4, <1>9 DEF CacheInv, CacheTypes
  <2>2. Asked'
    <3>1. CASE R = L
      <4>1. cRequest' = Cache!NoRequest /\ cRequest'.data = <<>>
        BY <3>1, <1>10 DEF Cache!NoRequest
      <4>2. Cache!NoRequest \in Request
        <5>1. 0 \in Cache!Addr
          <6>1. d \in Nat /\ Pages * PageWords \in Nat /\ d < Pages * PageWords
            BY <1>2, <1>3 DEF Cache!Addr
          <6> QED BY <6>1 DEF Cache!Addr
        <5>2. <<>> \in Seq(Value)
          OBVIOUS
        <5> QED BY <5>1, <5>2 DEF Cache!NoRequest, Request
      <4> QED BY <4>1, <4>2 DEF Asked
    <3>2. CASE R # L
      <4>1. (d + R) + (L - R) = d + L
        BY <1>2, <1>3, <1>5, <1>6 DEF Cache!Addr
      <4> QED BY <3>2, <4>1, <1>3, <1>10 DEF Asked
    <3> QED BY <3>1, <3>2
  <2>3. Passes'
    BY <1>1 DEF Passes
  <2> QED BY <2>1, <2>2, <2>3, <1>1, <1>2 DEF CacheInv
<1>12. ASSUME NEW a \in Cache!Addr
       PROVE  Cache!View'[a] = IF a \in d .. d + R - 1 THEN data[a - d + 1] ELSE Cache!View[a]
  <2>1. Cache!View'[a] = IF Cache!PageOf(a) = p THEN cBuf'[a % PageWords] ELSE cFlash[a]
    BY <1>1 DEF Cache!View
  <2>2. CASE Cache!PageOf(a) = p
    <3>1. cBuf'[a % PageWords] = IF a % PageWords \in at .. at + R - 1
                                 THEN data[(a % PageWords) - at + 1] ELSE Cache!ReadIn(p)[a % PageWords]
      BY <1>1, <1>7, <2>2
    <3> QED BY <2>1, <2>2, <3>1, <1>7
  <2>3. CASE Cache!PageOf(a) # p
    BY <2>1, <2>3, <1>8
  <2> QED BY <2>2, <2>3
<1>13. Cache!View' = [a \in Cache!Addr |-> IF a \in d .. d + R - 1 THEN data[a - d + 1] ELSE Cache!View[a]]
  BY <1>12 DEF Cache!View
<1>14. /\ Want.dst = d /\ Want.data = data /\ Past' = Past
       /\ Want' = IF R = L THEN Cache!Promise!Nothing
                  ELSE [dst |-> d + R, data |-> SubSeq(data, R + 1, L)]
  BY <1>1, <1>2, <1>10 DEF Want, Past, Cache!Promise!Nothing, Cache!NoRequest, d, data
<1>15. Cache!Promise!Write(R)
  <2>1. Cache!Promise!Addr = Cache!Addr /\ \A a : Cache!Promise!PageOf(a) = Cache!PageOf(a)
    BY DEF Cache!Addr, Cache!Promise!Addr, Cache!PageOf, Cache!Promise!PageOf
  <2>2. Cache!PageOf(d + R - 1) = p /\ Cache!PageOf(d) = p
    <3>1. at + R - 1 \in 0 .. PageWords - 1 /\ d + R - 1 = p * PageWords + (at + R - 1)
      BY <1>2, <1>4, <1>6
    <3> QED BY <3>1, <1>4, WordsOfPage
  <2>3. L = Len(data)
    BY DEF L, data
  <2> QED BY <2>1, <2>2, <2>3, <1>1, <1>6, <1>13, <1>14 DEF Cache!Promise!Write, Want, Past
<1>16. R \in 1 .. PageWords
  BY <1>2, <1>4, <1>6
<1> QED BY <1>11, <1>15, <1>16 DEF Promised, Cache!Promise!Next

LEMMA CacheStep == CacheInv /\ [Cache!Next]_(Cache!vars) => CacheInv' /\ Promised
<1> SUFFICES ASSUME CacheInv, [Cache!Next]_(Cache!vars) PROVE CacheInv' /\ Promised
  OBVIOUS
<1>1. CASE \E dst \in Cache!Addr, data \in Cache!BoundedSeq(Value, MaxLen), e \in BOOLEAN :
             data # <<>> /\ Cache!Write(dst, data, e)
  BY <1>1, WriteSound
<1>2. CASE Cache!FlushForWrite
  <2>1. cRequest.erase \in BOOLEAN
    BY DEF CacheInv, Asked, Request
  <2> QED BY <1>2, <2>1, FlushSound DEF Cache!FlushForWrite, Cache!ToFlushFirst
<1>3. CASE Cache!CopyIn
  BY <1>3, CopyInSound
<1>4. CASE Cache!WriteWord
  BY <1>4, WriteWordSound
<1>5. CASE \E e \in BOOLEAN : Cache!Flush(e)
  BY <1>5, FlushSound DEF Cache!Flush, Cache!Returned
<1>6. CASE \E p \in Cache!Page, n \in 1 .. Pages : Cache!Erase(p, n)
  BY <1>6, EraseSound
<1>7. CASE \E p \in Cache!Page, v \in Value : Cache!Save(p, v)
  BY <1>7, SaveSound
<1>8. CASE Cache!PowerLoss
  BY <1>8, PowerLossSound
<1>9. CASE UNCHANGED Cache!vars
  BY <1>9, Synced DEF Cache!vars, CacheInv, CacheTypes, Asked, Flushes, Passes, Cache!View, Past
<1> QED BY <1>1, <1>2, <1>3, <1>4, <1>5, <1>6, <1>7, <1>8, <1>9 DEF Cache!Next

\* No round makes a write longer than the one that was called.
Short == Len(cRequest.data) <= MaxLen

LEMMA StaysShort == CacheInv /\ Short /\ [Cache!Next]_(Cache!vars) => Short'
<1> SUFFICES ASSUME CacheInv, Short, [Cache!Next]_(Cache!vars) PROVE Short'
  OBVIOUS
<1>1. /\ cRequest \in Request /\ cRequest.data \in Seq(Value) /\ Len(cRequest.data) \in Nat
      /\ MaxLen \in Nat /\ PageWords \in Nat /\ PageWords > 0
  BY CacheFacts DEF CacheInv, Asked, Request
<1>2. ASSUME cRequest' = Cache!NoRequest PROVE Short'
  BY <1>1, <1>2 DEF Cache!NoRequest, Short
<1>3. ASSUME NEW dst \in Cache!Addr, NEW data \in Cache!BoundedSeq(Value, MaxLen), NEW e \in BOOLEAN,
             Cache!Write(dst, data, e)
      PROVE  Short'
  <2>1. PICK n \in 0 .. MaxLen : data \in [1 .. n -> Value]
    BY DEF Cache!BoundedSeq, Cache!SeqOf
  <2>2. Len(data) = n /\ n <= MaxLen
    BY <1>1, <2>1
  <2>3. cRequest'.data = data
    BY <1>3 DEF Cache!Write
  <2> QED BY <2>2, <2>3 DEF Short
<1>4. CASE Cache!CopyIn /\ Cache!Round # Len(cRequest.data)
  <2>1. cRequest'.data = SubSeq(cRequest.data, Cache!Round + 1, Len(cRequest.data))
    BY <1>1, <1>4 DEF Cache!CopyIn, Request
  <2>2. cRequest.dst % PageWords \in 0 .. PageWords - 1
    BY <1>1, WordsOfPage DEF Request
  <2>3. Cache!Round \in Nat /\ Cache!Round <= Len(cRequest.data)
    <3>1. Cache!BytesToEnd \in Nat
      BY <1>1, <2>2 DEF Cache!BytesToEnd
    <3> QED BY <1>1, <3>1 DEF Cache!Round
  <2>4. Len(cRequest'.data) = Len(cRequest.data) - Cache!Round
    BY <1>1, <2>1, <2>3
  <2> QED BY <1>1, <2>3, <2>4 DEF Short
<1>5. CASE Cache!CopyIn /\ Cache!Round = Len(cRequest.data)
  BY <1>2, <1>5 DEF Cache!CopyIn
<1>6. CASE \/ Cache!FlushForWrite \/ Cache!WriteWord \/ UNCHANGED Cache!vars \/ (\E e \in BOOLEAN : Cache!Flush(e))
           \/ (\E p \in Cache!Page, n \in 1 .. Pages : Cache!Erase(p, n))
           \/ (\E p \in Cache!Page, v \in Value : Cache!Save(p, v))
  <2>1. cRequest' = cRequest
    BY <1>6 DEF Cache!FlushForWrite, Cache!WriteWord, Cache!Flush, Cache!Erase, Cache!Save, Cache!vars
  <2> QED BY <2>1 DEF Short
<1>7. CASE Cache!PowerLoss
  BY <1>2, <1>7 DEF Cache!PowerLoss
<1> QED BY <1>3, <1>4, <1>5, <1>6, <1>7 DEF Cache!Next

-----------------------------------------------------------------------------
(* The dual-bank engine.                                                   *)

Size == Len(dUpdate.image)
Base == Dual!BankOf(dUpdate.kind)

\* What OldOrNew says of the start of the bootloader holds all the time.
Whole ==
  /\ ~dCut => Dual!AppIsValid /\ Dual!Holds(0, dLast)
  /\ dStg.b0 = "VALID_SD" => \E u \in Updates : u.kind = "SD" /\ Dual!Holds(0, u.image)
  /\ dStg.b1 = "VALID_BOOT" => \E u \in Updates : u.kind = "BL" /\ Dual!Holds(BankChunks, u.image)

\* Only its activation announces an update.
Announced ==
  dMode = "dfu" =>
    /\ dStg.b0 = "VALID_SD" => dSt = "WAIT_4_ACTIVATE" /\ dUpdate.kind = "SD"
    /\ dStg.b1 = "VALID_BOOT" => dSt = "WAIT_4_ACTIVATE" /\ dUpdate.kind = "BL"

Fits == dSt # "IDLE" => dMode = "dfu" /\ dUpdate \in Updates /\ ~Dual!TooLarge(dUpdate)

Waiting == dSt = "IDLE" => dOps = <<>> /\ dReceived = 0

PreparingOps ==
  /\ Len(dOps) = 1 /\ dOps[1] = Dual!Clear(Base, Size) /\ dReceived = 0
  /\ \A k \in 0 .. dProg - 1 : dFlash[Base + k] = Erased
  /\ dUpdate.kind = "SD" /\ dProg > 0 => dCut
Preparing == dSt = "PREPARING" => PreparingOps

\* The save at the end of the erase, then the data in their order; what is not
\* written yet is erased.
IsSave(op, kind) ==
  /\ op.op = "settings" /\ op.n = 2 /\ kind = "SD"
  /\ op.v \in [b0 : {"ERASED", "INVALID"}, b1 : {"ERASED", "INVALID"}]
IsData(op, at, n) ==
  /\ op.op = "data" /\ op.n = 1 /\ op.v \in Word
  /\ op.at \in at .. at + n - 1
ReceivingOps ==
  /\ \A i \in 1 .. Len(dOps) : IsSave(dOps[i], dUpdate.kind) \/ IsData(dOps[i], Base, dReceived)
  /\ \A i, j \in 1 .. Len(dOps) : i < j =>
       /\ dOps[j].op = "settings" => dOps[i].op = "settings"
       /\ dOps[i].op = "data" => dOps[i].at < dOps[j].at
  /\ \A i \in 1 .. Len(dOps) :
       dOps[i].op = "data" /\ (i # 1 \/ dProg = 0) => dFlash[dOps[i].at] = Erased
  /\ \A i \in 1 .. Len(dOps), k \in Base .. Base + Size - 1 :
       dOps[i].op = "settings" => dFlash[k] = Erased
  /\ \A k \in Base + dReceived .. Base + Size - 1 : dFlash[k] = Erased
  /\ dUpdate.kind = "SD" => dCut
Receiving == dSt \in {"RDY", "RX_DATA", "VALIDATE"} => ReceivingOps

\* An activation, each operation by how many are left after it.
Done(op) == op.op = "data" /\ op.n = 1
Settings(r) == [op |-> "settings", at |-> 0, n |-> 2, v |-> r]
Record(u, b) == [b0 |-> IF u.kind = "APP" THEN "VALID"
                        ELSE IF u.kind = "SD" THEN "VALID_SD" ELSE b,
                 b1 |-> IF u.kind = "BL" THEN "VALID_BOOT" ELSE "INVALID"]
Step(op, left, u, b) ==
  \/ left = 0 /\ op = Settings(Record(u, b))
  \/ left = 1 /\ op = Settings(Dual!ErasedRecord)
  \/ left = 2 /\ u.kind = "APP" /\ op = Dual!Copy(Len(u.image))
  \/ left = 2 /\ u.kind # "APP" /\ Done(op)
  \/ left = 3 /\ u.kind = "APP" /\ op = Dual!Clear(0, Len(u.image))
  \/ left = 4 /\ u.kind = "APP" /\ Done(op)
Activating(b) ==
  /\ ~dCut /\ dUpdate.kind = "BL" => b # "INVALID"
  /\ \A i \in 1 .. Len(dOps) : Step(dOps[i], Len(dOps) - i, dUpdate, b)
  /\ dOps # <<>> /\ Done(dOps[1]) => dProg = 1
  /\ dUpdate.kind = "APP" =>
       /\ Len(dOps) = 4 /\ dProg > 0 => dCut
       /\ Len(dOps) = 3 => /\ \A k \in 1 .. dProg : dFlash[k - 1] = dUpdate.image[k]
                           /\ IF dProg = Size THEN dLast = dUpdate.image ELSE dCut
       /\ Len(dOps) \in {1, 2} => dLast = dUpdate.image /\ Dual!Holds(0, dLast)
NotYet == \A i \in 1 .. Len(dOps) : i = 1 /\ Done(dOps[i]) /\ dProg = 1
Activated ==
  dSt = "WAIT_4_ACTIVATE" =>
    /\ Dual!Holds(Base, dUpdate.image)
    /\ dUpdate.kind = "SD" => dCut
    /\ \/ NotYet
       \/ dStatus # "UPDATING" /\ \E b \in {"ERASED", "VALID", "INVALID"} : Activating(b)

SettingsPage == [b0 : {"ERASED", "VALID", "VALID_SD", "INVALID"},
                 b1 : {"ERASED", "VALID_BOOT", "INVALID"}]
Operation == [op : {"clear", "data", "copy", "settings"}, at : Nat, n : Nat,
              v : Word \cup {Erased} \cup SettingsPage]
DualTypes ==
  /\ Dual!TypeOK /\ dCut \in BOOLEAN
  /\ dLast \in Seq(Word) /\ Len(dLast) \in 1 .. BankChunks
  /\ dOps \in Seq(Operation)
  /\ IF dOps = <<>> THEN dProg = 0 ELSE dProg <= dOps[1].n

DualInv == DualTypes /\ Whole /\ Announced /\ Fits /\ Waiting /\ Preparing /\ Receiving /\ Activated

LEMMA SaveIs == \A r : /\ Dual!Save(r) = <<Settings(Dual!ErasedRecord), Settings(r)>>
                       /\ Len(Dual!Save(r)) = 2
                       /\ Dual!Save(r)[1] = Settings(Dual!ErasedRecord) /\ Dual!Save(r)[2] = Settings(r)
  BY DEF Dual!Save, Settings

\* What the type and the size of the update are.
LEMMA DualFacts ==
  ASSUME DualInv
  PROVE  /\ BankChunks \in Nat /\ BankChunks > 0
         /\ dUpdate.kind \in {"APP", "SD", "BL"} /\ dUpdate.image \in Seq(Word) /\ Size \in Nat
         /\ \A k \in 1 .. Size : dUpdate.image[k] \in Word
         /\ Base \in {0, BankChunks} /\ (Base = 0 <=> dUpdate.kind = "SD")
         /\ dReceived \in 0 .. Size /\ dProg \in Nat
         /\ Len(dOps) \in Nat
         /\ dFlash \in [Dual!Chunks -> Word \cup {Erased}] /\ Erased \notin Word
         /\ Dual!Chunks = 0 .. 2 * BankChunks - 1
         /\ dSt # "IDLE" => /\ dMode = "dfu" /\ dUpdate \in Updates /\ Size > 0
                            /\ Base + Size <= 2 * BankChunks
                            /\ dUpdate.kind = "APP" => Size <= BankChunks
<1>1. BankChunks \in Nat /\ BankChunks > 0 /\ Erased \notin Word
  BY DualAssumed DEF Dual!DualAssumption
<1>2. dUpdate \in [kind : {"APP", "SD", "BL"}, image : Seq(Word)]
  <2>1. dUpdate \in Updates \cup {Dual!NoUpdate}
    BY DEF DualInv, DualTypes, Dual!TypeOK
  <2>2. Dual!NoUpdate \in [kind : {"APP", "SD", "BL"}, image : Seq(Word)]
    <3>1. <<>> \in Seq(Word)
      OBVIOUS
    <3> QED BY <3>1 DEF Dual!NoUpdate
  <2>3. \A u \in Updates : u \in [kind : {"APP", "SD", "BL"}, image : Seq(Word)]
    BY DualAssumed DEF Dual!DualAssumption
  <2> QED BY <2>1, <2>2, <2>3
<1>3. /\ dUpdate.kind \in {"APP", "SD", "BL"} /\ dUpdate.image \in Seq(Word) /\ Size \in Nat
      /\ \A k \in 1 .. Size : dUpdate.image[k] \in Word
  BY <1>2 DEF Size
<1>4. Base \in {0, BankChunks} /\ (Base = 0 <=> dUpdate.kind = "SD")
  BY <1>1 DEF Base, Dual!BankOf
<1>5. dReceived \in 0 .. Size /\ dProg \in Nat /\ dFlash \in [Dual!Chunks -> Word \cup {Erased}]
  BY <1>1 DEF DualInv, DualTypes, Dual!TypeOK, Size
<1>6. Len(dOps) \in Nat
  BY DEF DualInv, DualTypes
<1>7. ASSUME dSt # "IDLE"
      PROVE  /\ dMode = "dfu" /\ dUpdate \in Updates /\ Size > 0
             /\ Base + Size <= 2 * BankChunks
             /\ dUpdate.kind = "APP" => Size <= BankChunks
  <2>1. dMode = "dfu" /\ dUpdate \in Updates /\ ~Dual!TooLarge(dUpdate)
    BY <1>7 DEF DualInv, Fits
  <2>2. dUpdate.image # <<>>
    BY <2>1, DualAssumed DEF Dual!DualAssumption
  <2>3. Size > 0
    BY <2>2, <1>3 DEF Size
  <2>4. ~(Size > IF dUpdate.kind = "SD" THEN 2 * BankChunks ELSE BankChunks)
    BY <2>1 DEF Dual!TooLarge, Size
  <2> QED BY <2>1, <2>3, <2>4, <1>1, <1>3, <1>4
<1> QED BY <1>1, <1>3, <1>4, <1>5, <1>6, <1>7 DEF Dual!Chunks

\* Bank 0 and the settings are as they were.
LEMMA WholeKept ==
  ASSUME DualInv, dStg' = dStg, dLast' = dLast, ~dCut' => ~dCut,
         \A k \in 0 .. BankChunks - 1 : dFlash'[k] = dFlash[k],
         dStg.b0 # "VALID_SD", dStg.b1 # "VALID_BOOT"
  PROVE  Whole'
<1>1. BankChunks \in Nat /\ BankChunks > 0
  BY DualFacts
<1>2. Len(dLast) \in 1 .. BankChunks
  BY DEF DualInv, DualTypes
<1>3. dFlash'[0] = dFlash[0]
  BY <1>1
<1>4. Dual!Holds(0, dLast) => Dual!Holds(0, dLast)'
  <2>1. \A k \in 1 .. Len(dLast) : 0 + k - 1 \in 0 .. BankChunks - 1
    BY <1>1, <1>2
  <2> QED BY <2>1 DEF Dual!Holds
<1> QED BY <1>3, <1>4 DEF DualInv, Whole, Dual!AppIsValid

\* A step that does nothing but what no part of the invariant but TypeOK reads.
LEMMA Stays ==
  ASSUME DualInv, Dual!TypeOK', UNCHANGED <<Dual!nonVolatile, dMode, dSt, dOps, dProg, dUpdate, dReceived>>,
         dStatus = "UPDATING" \/ dStatus' # "UPDATING"
  PROVE  DualInv'
<1> USE DEF Dual!nonVolatile
<1>1. DualTypes'
  BY DEF DualInv, DualTypes
<1>2. Whole' /\ Announced' /\ Fits' /\ Waiting'
  BY DEF DualInv, Whole, Announced, Fits, Waiting, Dual!AppIsValid, Dual!Holds, Dual!TooLarge
<1>3. Size' = Size /\ Base' = Base
  BY DEF Size, Base
<1>4. Preparing'
  BY <1>3 DEF DualInv, Preparing, PreparingOps
<1>5. Receiving'
  BY <1>3 DEF DualInv, Receiving, ReceivingOps, IsSave, IsData
<1>6. Activated'
  <2>1. ASSUME NEW b PROVE Activating(b) => Activating(b)'
    BY <1>3 DEF Activating, Step, Record, Dual!Holds
  <2>2. NotYet => NotYet'
    BY DEF NotYet
  <2>3. Dual!Holds(Base, dUpdate.image) => Dual!Holds(Base, dUpdate.image)'
    BY <1>3 DEF Dual!Holds
  <2> QED BY <2>1, <2>2, <2>3 DEF DualInv, Activated
<1> QED BY <1>1, <1>2, <1>4, <1>5, <1>6 DEF DualInv

LEMMA DualStutters == DualInv /\ UNCHANGED Dual!vars => DualInv'
<1> SUFFICES ASSUME DualInv, UNCHANGED Dual!vars PROVE DualInv'
  OBVIOUS
<1>1. UNCHANGED <<dFlash, dStg, dLast, dCut, dMode, dOta, dStatus, dSt, dUpdate, dReceived, dTimer, dOps, dProg>>
  BY DEF Dual!vars, Dual!nonVolatile, Dual!image
<1>2. Dual!TypeOK'
  BY <1>1 DEF DualInv, DualTypes, Dual!TypeOK
<1> QED BY <1>1, <1>2, Stays DEF Dual!nonVolatile

LEMMA DualStarts == Dual!Init => DualInv
<1> SUFFICES ASSUME Dual!Init PROVE DualInv
  OBVIOUS
<1>1. /\ BankChunks \in Nat /\ BankChunks > 0 /\ Erased \notin Word
      /\ Old \in Seq(Word) /\ Len(Old) \in 1 .. BankChunks
  BY DualAssumed DEF Dual!DualAssumption
<1>2. /\ dFlash = [k \in Dual!Chunks |-> IF k < Len(Old) THEN Old[k + 1] ELSE Erased]
      /\ dStg \in {Dual!ErasedRecord, [b0 |-> "VALID", b1 |-> "INVALID"]}
      /\ dMode = "boot" /\ dOta = FALSE /\ dStatus = "UPDATING" /\ dSt = "IDLE"
      /\ dUpdate = Dual!NoUpdate /\ dReceived = 0 /\ dOverrun = FALSE
      /\ dTimer = "off" /\ dTimedOut = FALSE /\ dOps = <<>> /\ dProg = 0
      /\ dLast = Old /\ dCut = FALSE
  BY DEF Dual!Init, Dual!RamInit
<1>3. dStg \in SettingsPage /\ dStg.b0 \in {"ERASED", "VALID"} /\ dStg.b1 # "VALID_BOOT"
  BY <1>2 DEF Dual!ErasedRecord, SettingsPage
<1>4. \A k \in 1 .. Len(Old) : Old[k] \in Word
  BY <1>1
<1>5. dFlash \in [Dual!Chunks -> Word \cup {Erased}]
  <2>1. \A k \in Dual!Chunks : k < Len(Old) => k + 1 \in 1 .. Len(Old)
    BY <1>1 DEF Dual!Chunks
  <2> QED BY <1>2, <1>4, <2>1
<1>6. \A k \in 1 .. Len(Old) : dFlash[0 + k - 1] = Old[k]
  <2> SUFFICES ASSUME NEW k \in 1 .. Len(Old) PROVE dFlash[0 + k - 1] = Old[k]
    OBVIOUS
  <2>1. k - 1 \in Dual!Chunks /\ k - 1 < Len(Old) /\ (k - 1) + 1 = k /\ 0 + k - 1 = k - 1
    BY <1>1 DEF Dual!Chunks
  <2> QED BY <2>1, <1>2
<1>7. Dual!TypeOK
  <2>1. dReceived \in 0 .. Len(dUpdate.image)
    BY <1>2 DEF Dual!NoUpdate
  <2>2. dStg \in [b0 : {"ERASED", "VALID", "VALID_SD", "INVALID"},
               b1 : {"ERASED", "VALID_BOOT", "INVALID"}]
    BY <1>3 DEF SettingsPage
  <2>3. dProg \in 0 .. 2 * BankChunks
    BY <1>1, <1>2
  <2> QED BY <1>2, <1>5, <2>1, <2>2, <2>3 DEF Dual!TypeOK
<1>8. DualTypes
  <2>1. <<>> \in Seq(Operation)
    OBVIOUS
  <2> QED BY <2>1, <1>1, <1>2, <1>7 DEF DualTypes
<1>9. Whole
  <2>1. dFlash[0] # Erased
    BY <1>1, <1>4, <1>6
  <2> QED BY <2>1, <1>2, <1>3, <1>6 DEF Whole, Dual!AppIsValid, Dual!Holds
<1> QED BY <1>2, <1>8, <1>9 DEF DualInv, Announced, Fits, Waiting, Preparing, Receiving, Activated

LEMMA ResetSound ==
  ASSUME DualInv, Dual!Reset
  PROVE  DualInv'
<1>1. /\ dMode' = "boot" /\ dOta' = FALSE /\ dStatus' = "UPDATING" /\ dSt' = "IDLE"
      /\ dUpdate' = Dual!NoUpdate /\ dReceived' = 0 /\ dTimer' = "off" /\ dOps' = <<>> /\ dProg' = 0
      /\ UNCHANGED <<dFlash, dStg, dLast, dCut>>
  BY DEF Dual!Reset, Dual!nonVolatile
<1>2. BankChunks \in Nat
  BY DualFacts
<1>3. Dual!TypeOK'
  <2>1. dReceived' \in 0 .. Len(dUpdate'.image)
    BY <1>1 DEF Dual!NoUpdate
  <2>2. dProg' \in 0 .. 2 * BankChunks
    BY <1>1, <1>2
  <2> QED BY <1>1, <2>1, <2>2 DEF DualInv, DualTypes, Dual!TypeOK
<1>4. DualTypes'
  <2>1. <<>> \in Seq(Operation)
    OBVIOUS
  <2> QED BY <2>1, <1>1, <1>3 DEF DualInv, DualTypes
<1>5. Whole'
  BY <1>1 DEF DualInv, Whole, Dual!AppIsValid, Dual!Holds
<1> QED BY <1>1, <1>4, <1>5 DEF DualInv, Announced, Fits, Waiting, Preparing, Receiving, Activated

LEMMA BootSound ==
  ASSUME DualInv, Dual!Boot
  PROVE  DualInv'
<1>1. /\ dMode = "boot" /\ ~Dual!SdInProgress /\ dMode' \in {"app", "dfu"} /\ dOta' \in BOOLEAN
      /\ dTimer' \in {"on", "due", "off"}
      /\ UNCHANGED <<dFlash, dStg, dLast, dCut, dStatus, dSt, dUpdate, dReceived, dOps, dProg>>
  <2>1. dOta \in BOOLEAN /\ dTimer \in {"on", "due", "off"}
    BY DEF DualInv, DualTypes, Dual!TypeOK
  <2> QED BY <2>1 DEF Dual!Boot, Dual!nonVolatile, Dual!image
<1>2. dSt = "IDLE"
  BY <1>1 DEF DualInv, Fits
<1>3. Dual!TypeOK'
  BY <1>1 DEF DualInv, DualTypes, Dual!TypeOK
<1>4. DualTypes' /\ Whole' /\ Waiting'
  BY <1>1, <1>3 DEF DualInv, DualTypes, Whole, Dual!AppIsValid, Dual!Holds, Waiting
<1>5. Announced'
  BY <1>1 DEF Announced, Dual!SdInProgress
<1> QED BY <1>1, <1>2, <1>4, <1>5 DEF DualInv, Fits, Preparing, Receiving, Activated

LEMMA HostInitSound ==
  ASSUME DualInv, Dual!HostInit
  PROVE  DualInv'
<1>1. /\ dSt = "RDY" /\ dSt' = "RX_DATA"
      /\ UNCHANGED <<dFlash, dStg, dLast, dCut, dMode, dOta, dStatus, dUpdate, dReceived, dTimer, dOps, dProg>>
  BY DEF Dual!HostInit, Dual!nonVolatile, Dual!image
<1>2. Dual!TypeOK'
  BY <1>1 DEF DualInv, DualTypes, Dual!TypeOK
<1>3. DualTypes' /\ Whole' /\ Announced' /\ Fits'
  BY <1>1, <1>2 DEF DualInv, DualTypes, Whole, Dual!AppIsValid, Dual!Holds, Announced, Fits, Dual!TooLarge
<1>4. Size' = Size /\ Base' = Base
  BY <1>1 DEF Size, Base
<1>5. Receiving'
  BY <1>1, <1>4 DEF DualInv, Receiving, ReceivingOps, IsSave, IsData
<1> QED BY <1>1, <1>3, <1>5 DEF DualInv, Waiting, Preparing, Activated

LEMMA HostStartSound ==
  ASSUME DualInv, NEW u \in Updates, Dual!HostStart(u)
  PROVE  DualInv'
<1>1. /\ dMode = "dfu" /\ dSt = "IDLE" /\ ~Dual!TooLarge(u) /\ dUpdate' = u /\ dSt' = "PREPARING"
      /\ dOps' = Append(dOps, Dual!Clear(Dual!BankOf(u.kind), Len(u.image)))
      /\ UNCHANGED <<dFlash, dStg, dLast, dCut, dMode, dOta, dStatus, dReceived, dTimer, dProg>>
  BY DEF Dual!HostStart, Dual!Ready, Dual!nonVolatile
<1>2. dOps = <<>> /\ dReceived = 0 /\ dProg = 0
  BY <1>1 DEF DualInv, Waiting, DualTypes
<1>3. BankChunks \in Nat /\ Len(u.image) \in Nat /\ Dual!BankOf(u.kind) \in Nat
  BY DualFacts, DualAssumed DEF Dual!DualAssumption, Dual!BankOf
<1> DEFINE op == Dual!Clear(Dual!BankOf(u.kind), Len(u.image))
<1>4. op \in Operation /\ op.n = Len(u.image)
  BY <1>3 DEF Dual!Clear, Operation
<1> HIDE DEF op
<1>5. dOps' = <<op>>
  BY <1>1, <1>2 DEF op
<1>6. dOps' \in Seq(Operation) /\ Len(dOps') = 1 /\ dOps'[1] = op /\ dOps' # <<>>
  BY <1>4, <1>5
<1>7. Size' = Len(u.image) /\ Base' = Dual!BankOf(u.kind)
  BY <1>1 DEF Size, Base
<1>8. Dual!TypeOK'
  <2>1. dReceived' \in 0 .. Len(dUpdate'.image)
    BY <1>1, <1>2, <1>3
  <2> QED BY <1>1, <2>1 DEF DualInv, DualTypes, Dual!TypeOK
<1>9. DualTypes'
  BY <1>1, <1>2, <1>3, <1>4, <1>6, <1>8 DEF DualInv, DualTypes
<1>10. Whole' /\ Announced'
  BY <1>1 DEF DualInv, Whole, Dual!AppIsValid, Dual!Holds, Announced
<1>11. Preparing'
  BY <1>1, <1>2, <1>6, <1>7 DEF Preparing, PreparingOps, op
<1>12. Fits'
  BY <1>1 DEF Fits, Dual!TooLarge
<1> QED BY <1>1, <1>9, <1>10, <1>11, <1>12 DEF DualInv, Waiting, Receiving, Activated

LEMMA HostDataSound ==
  ASSUME DualInv, NEW v \in Word, Dual!HostData(v)
  PROVE  DualInv'
<1>1. /\ dSt = "RX_DATA"
      /\ UNCHANGED <<dFlash, dStg, dLast, dCut, dMode, dOta, dStatus, dSt, dUpdate, dTimer, dProg>>
  BY DEF Dual!HostData, Dual!Ready, Dual!nonVolatile
<1>2. CASE UNCHANGED <<dReceived, dOps>>
  <2>1. Dual!TypeOK'
    BY <1>1, <1>2 DEF DualInv, DualTypes, Dual!TypeOK
  <2> QED BY <1>1, <1>2, <2>1, Stays DEF Dual!nonVolatile
<1>3. CASE /\ dReceived < Size /\ dReceived' = dReceived + 1
           /\ dOps' = Append(dOps, Dual!Data(Base + dReceived, v))
  <2>1. /\ Size \in Nat /\ Size > 0 /\ Base \in Nat /\ dReceived \in 0 .. Size
        /\ dOps \in Seq(Operation) /\ Len(dOps) \in Nat /\ BankChunks \in Nat
    BY <1>1, DualFacts DEF DualInv, DualTypes
  <2> DEFINE op == Dual!Data(Base + dReceived, v)
  <2>2. op \in Operation /\ op.n = 1 /\ op.op = "data" /\ op.v \in Word /\ op.at = Base + dReceived
    BY <2>1 DEF Dual!Data, Operation
  <2> HIDE DEF op
  <2>3. /\ dOps' \in Seq(Operation) /\ Len(dOps') = Len(dOps) + 1 /\ dOps'[Len(dOps) + 1] = op
        /\ \A i \in 1 .. Len(dOps) : dOps'[i] = dOps[i]
    BY <2>1, <2>2, <1>3 DEF op
  <2>4. Size' = Size /\ Base' = Base
    BY <1>1 DEF Size, Base
  <2>5. Dual!TypeOK'
    <3>1. dReceived' \in 0 .. Len(dUpdate'.image)
      BY <2>1, <1>1, <1>3 DEF Size
    <3> QED BY <1>1, <3>1 DEF DualInv, DualTypes, Dual!TypeOK
  <2>6. DualTypes'
    <3>1. dOps' # <<>>
      BY <2>1, <2>3
    <3>2. dProg <= dOps'[1].n
      <4>1. CASE dOps = <<>>
        BY <4>1, <2>2, <2>3 DEF DualInv, DualTypes
      <4>2. CASE dOps # <<>>
        <5>1. 1 \in 1 .. Len(dOps)
          BY <4>2, <2>1
        <5> QED BY <5>1, <4>2, <2>3 DEF DualInv, DualTypes
      <4> QED BY <4>1, <4>2
    <3> QED BY <1>1, <2>3, <2>5, <3>1, <3>2 DEF DualInv, DualTypes
  <2>7. Whole' /\ Announced' /\ Fits'
    BY <1>1 DEF DualInv, Whole, Dual!AppIsValid, Dual!Holds, Announced, Fits, Dual!TooLarge
  <2>8. ReceivingOps
    BY <1>1 DEF DualInv, Receiving
  <2>9. \A i \in 1 .. Len(dOps') : i \in 1 .. Len(dOps) \/ (i = Len(dOps) + 1 /\ dOps'[i] = op)
    BY <2>1, <2>3
  <2>10. dFlash[Base + dReceived] = Erased
    BY <2>1, <2>8, <1>3 DEF ReceivingOps
  <2>11. ReceivingOps'
    <3>1. \A i \in 1 .. Len(dOps') : IsSave(dOps'[i], dUpdate.kind) \/ IsData(dOps'[i], Base, dReceived')
      <4>1. \A i \in 1 .. Len(dOps) : IsSave(dOps[i], dUpdate.kind) \/ IsData(dOps[i], Base, dReceived')
        <5>1. \A i \in 1 .. Len(dOps) : IsSave(dOps[i], dUpdate.kind) \/ IsData(dOps[i], Base, dReceived)
          BY <2>8 DEF ReceivingOps
        <5>2. Base .. Base + dReceived - 1 \subseteq Base .. Base + dReceived' - 1
          BY <2>1, <1>3
        <5> QED BY <5>1, <5>2 DEF IsData
      <4>2. IsData(op, Base, dReceived')
        BY <2>1, <2>2, <1>3 DEF IsData
      <4> QED BY <4>1, <4>2, <2>3, <2>9
    <3>2. ASSUME NEW i \in 1 .. Len(dOps'), NEW j \in 1 .. Len(dOps'), i < j
          PROVE  /\ dOps'[j].op = "settings" => dOps'[i].op = "settings"
                 /\ dOps'[i].op = "data" => dOps'[i].at < dOps'[j].at
      <4>1. i \in 1 .. Len(dOps) /\ dOps'[i] = dOps[i]
        BY <3>2, <2>1, <2>3
      <4>2. CASE j \in 1 .. Len(dOps)
        BY <4>1, <4>2, <3>2, <2>3, <2>8 DEF ReceivingOps
      <4>3. CASE dOps'[j] = op
        <5>1. dOps[i].op = "data" => dOps[i].at < Base + dReceived
          <6>1. dOps[i].op = "data" => dOps[i].at \in Base .. Base + dReceived - 1
            BY <4>1, <2>8 DEF ReceivingOps, IsSave, IsData
          <6> QED BY <6>1, <2>1
        <5> QED BY <5>1, <4>1, <4>3, <2>2
      <4> QED BY <4>2, <4>3, <2>9
    <3>3. ASSUME NEW i \in 1 .. Len(dOps'), dOps'[i].op = "data", i # 1 \/ dProg = 0
          PROVE  dFlash[dOps'[i].at] = Erased
      <4>1. CASE i \in 1 .. Len(dOps)
        BY <4>1, <3>3, <2>3, <2>8 DEF ReceivingOps
      <4>2. CASE dOps'[i] = op
        BY <4>2, <2>2, <2>10
      <4> QED BY <4>1, <4>2, <2>9
    <3>4. ASSUME NEW i \in 1 .. Len(dOps'), NEW k \in Base .. Base + Size - 1, dOps'[i].op = "settings"
          PROVE  dFlash[k] = Erased
      <4>1. i \in 1 .. Len(dOps)
        BY <3>4, <2>2, <2>9
      <4> QED BY <4>1, <3>4, <2>3, <2>8 DEF ReceivingOps
    <3>5. \A k \in Base + dReceived' .. Base + Size - 1 : dFlash[k] = Erased
      BY <2>1, <2>8, <1>3 DEF ReceivingOps
    <3>6. dUpdate.kind = "SD" => dCut
      BY <2>8 DEF ReceivingOps
    <3> QED BY <1>1, <2>4, <3>1, <3>2, <3>3, <3>4, <3>5, <3>6 DEF ReceivingOps
  <2> QED BY <1>1, <2>6, <2>7, <2>11 DEF DualInv, Waiting, Preparing, Receiving, Activated
<1>4. dReceived \in Nat /\ Size \in Nat
  BY DualFacts
<1> QED BY <1>2, <1>3, <1>4 DEF Dual!HostData, Size, Base

\* What holds the image as announced has no data to come, nor the save before it.
LEMMA MatchIsWritten ==
  ASSUME DualInv, dSt = "RX_DATA", Dual!Holds(Base, dUpdate.image)
  PROVE  NotYet
<1>1. /\ Size \in Nat /\ Size > 0 /\ Base \in Nat /\ dReceived \in 0 .. Size
      /\ \A k \in 1 .. Size : dUpdate.image[k] \in Word
      /\ Erased \notin Word /\ dProg \in Nat /\ Len(dOps) \in Nat
      /\ dOps \in Seq(Operation) /\ dOps # <<>> => dProg <= dOps[1].n
  BY DualFacts DEF DualInv, DualTypes
<1>2. ReceivingOps
  BY DEF DualInv, Receiving
<1>3. \A k \in Base .. Base + Size - 1 : dFlash[k] # Erased
  <2> SUFFICES ASSUME NEW k \in Base .. Base + Size - 1 PROVE dFlash[k] # Erased
    OBVIOUS
  <2>1. k - Base + 1 \in 1 .. Size /\ Base + (k - Base + 1) - 1 = k
    BY <1>1
  <2>2. dFlash[Base + (k - Base + 1) - 1] = dUpdate.image[k - Base + 1]
    BY <2>1 DEF Dual!Holds, Size
  <2> QED BY <2>1, <2>2, <1>1
<1>4. \A i \in 1 .. Len(dOps) : dOps[i].op # "settings"
  <2>1. Base \in Base .. Base + Size - 1
    BY <1>1
  <2> QED BY <2>1, <1>2, <1>3 DEF ReceivingOps
<1>5. ASSUME NEW i \in 1 .. Len(dOps)
      PROVE  i = 1 /\ Done(dOps[i]) /\ dProg # 0
  <2>1. IsData(dOps[i], Base, dReceived)
    BY <1>2, <1>4 DEF ReceivingOps, IsSave
  <2>2. dOps[i].at \in Base .. Base + Size - 1
    BY <2>1, <1>1 DEF IsData
  <2>3. dFlash[dOps[i].at] # Erased
    BY <2>2, <1>3
  <2> QED BY <2>1, <2>3, <1>2 DEF ReceivingOps, IsData, Done
<1>6. ASSUME NEW i \in 1 .. Len(dOps) PROVE i = 1 /\ Done(dOps[i]) /\ dProg = 1
  <2>1. i = 1 /\ Done(dOps[1]) /\ dProg # 0 /\ dProg <= dOps[1].n
    <3>1. dOps # <<>>
      <4>1. Len(dOps) >= 1
        BY <1>1
      <4> QED BY <4>1
    <3>2. dOps # <<>> => dProg <= dOps[1].n
      BY DEF DualInv, DualTypes
    <3>3. dProg <= dOps[1].n
      BY ONLY <3>1, <3>2
    <3> QED BY <3>3, <1>5
  <2> QED BY <2>1, <1>1 DEF Done
<1> QED BY <1>6 DEF NotYet

LEMMA HostValidateSound ==
  ASSUME DualInv, Dual!HostValidate
  PROVE  DualInv'
<1>1. /\ dSt = "RX_DATA"
      /\ dSt' = IF ~dTimedOut /\ Dual!CrcMatches THEN "WAIT_4_ACTIVATE" ELSE "VALIDATE"
      /\ UNCHANGED <<dFlash, dStg, dLast, dCut, dMode, dOta, dStatus, dUpdate, dReceived, dTimer, dOps, dProg>>
  BY DEF Dual!HostValidate, Dual!nonVolatile, Dual!image
<1>2. Dual!TypeOK'
  BY <1>1 DEF DualInv, DualTypes, Dual!TypeOK
<1>3. DualTypes' /\ Whole' /\ Announced' /\ Fits'
  BY <1>1, <1>2 DEF DualInv, DualTypes, Whole, Dual!AppIsValid, Dual!Holds, Announced, Fits, Dual!TooLarge
<1>4. Size' = Size /\ Base' = Base
  BY <1>1 DEF Size, Base
<1>5. Receiving'
  BY <1>1, <1>4 DEF DualInv, Receiving, ReceivingOps
<1>6. Activated'
  <2> SUFFICES ASSUME Dual!CrcMatches, dSt' = "WAIT_4_ACTIVATE"
               PROVE  Dual!Holds(Base, dUpdate.image)' /\ (dUpdate.kind = "SD" => dCut) /\ NotYet'
    BY <1>1 DEF Activated
  <2>1. Dual!Holds(Base, dUpdate.image)
    BY DEF Dual!CrcMatches, Base
  <2>2. NotYet
    BY <2>1, <1>1, MatchIsWritten
  <2>3. dUpdate.kind = "SD" => dCut
    BY <1>1 DEF DualInv, Receiving, ReceivingOps
  <2> QED BY <2>1, <2>2, <2>3, <1>1, <1>4 DEF Dual!Holds, NotYet
<1> QED BY <1>1, <1>3, <1>5, <1>6 DEF DualInv, Waiting, Preparing

\* An activation, operation by operation.
LEMMA ActivationIs ==
  ASSUME DualInv, dSt # "IDLE"
  PROVE  /\ Dual!Activation \in Seq(Operation)
         /\ Len(Dual!Activation) = IF dUpdate.kind = "APP" THEN 4 ELSE 2
         /\ \A i \in 1 .. Len(Dual!Activation) : Step(Dual!Activation[i], Len(Dual!Activation) - i, dUpdate, dStg.b0)
<1>1. /\ Size \in Nat /\ Size = Len(dUpdate.image) /\ dUpdate.kind \in {"APP", "SD", "BL"}
  BY DualFacts DEF Size
<1>2. dStg.b0 \in {"ERASED", "VALID", "VALID_SD", "INVALID"}
  BY DEF DualInv, DualTypes, Dual!TypeOK
<1>3. Record(dUpdate, dStg.b0) \in SettingsPage /\ Dual!ErasedRecord \in SettingsPage
  BY <1>1, <1>2 DEF Record, SettingsPage, Dual!ErasedRecord
<1>4. Settings(Record(dUpdate, dStg.b0)) \in Operation /\ Settings(Dual!ErasedRecord) \in Operation
  BY <1>3 DEF Settings, Operation
<1>5. Dual!Clear(0, Size) \in Operation /\ Dual!Copy(Size) \in Operation
  BY <1>1 DEF Dual!Clear, Dual!Copy, Operation
<1>6. CASE dUpdate.kind = "APP"
  <2>1. Dual!Activation = <<Dual!Clear(0, Size), Dual!Copy(Size)>>
                          \o <<Settings(Dual!ErasedRecord), Settings(Record(dUpdate, dStg.b0))>>
    BY <1>1, <1>6, SaveIs DEF Dual!Activation, Record
  <2> DEFINE c == Dual!Clear(0, Size)  d == Dual!Copy(Size)
             e == Settings(Dual!ErasedRecord)  f == Settings(Record(dUpdate, dStg.b0))
  <2>2. c \in Operation /\ d \in Operation /\ e \in Operation /\ f \in Operation
    BY <1>4, <1>5
  <2>3. Dual!Activation = <<c, d>> \o <<e, f>>
    BY <2>1
  <2> HIDE DEF c, d, e, f
  <2>4. /\ Dual!Activation \in Seq(Operation) /\ Len(Dual!Activation) = 4
        /\ Dual!Activation[1] = c /\ Dual!Activation[2] = d /\ Dual!Activation[3] = e /\ Dual!Activation[4] = f
    BY <2>2, <2>3
  <2>5. \A i \in 1 .. 4 : i = 1 \/ i = 2 \/ i = 3 \/ i = 4
    OBVIOUS
  <2>6. Step(c, 3, dUpdate, dStg.b0) /\ Step(d, 2, dUpdate, dStg.b0) /\ Step(e, 1, dUpdate, dStg.b0) /\ Step(f, 0, dUpdate, dStg.b0)
    BY <1>1, <1>6 DEF Step, c, d, e, f
  <2>7. \A i \in 1 .. 4 : Step(Dual!Activation[i], 4 - i, dUpdate, dStg.b0)
    BY <2>4, <2>5, <2>6
  <2> QED BY <2>4, <2>7, <1>6
<1>7. CASE dUpdate.kind # "APP"
  <2>1. Dual!Activation = <<Settings(Dual!ErasedRecord), Settings(Record(dUpdate, dStg.b0))>>
    BY <1>1, <1>7, SaveIs DEF Dual!Activation, Record
  <2> DEFINE e == Settings(Dual!ErasedRecord)  f == Settings(Record(dUpdate, dStg.b0))
  <2>2. e \in Operation /\ f \in Operation /\ Dual!Activation = <<e, f>>
    BY <2>1, <1>4
  <2>3. Step(e, 1, dUpdate, dStg.b0) /\ Step(f, 0, dUpdate, dStg.b0)
    BY DEF Step
  <2> HIDE DEF e, f
  <2>4. Dual!Activation \in Seq(Operation) /\ Len(Dual!Activation) = 2 /\ Dual!Activation[1] = e /\ Dual!Activation[2] = f
    BY <2>2
  <2>5. \A i \in 1 .. 2 : Step(Dual!Activation[i], 2 - i, dUpdate, dStg.b0)
    <3>1. \A i \in 1 .. 2 : i = 1 \/ i = 2
      OBVIOUS
    <3> QED BY <3>1, <2>3, <2>4
  <2> QED BY <2>4, <2>5, <1>7
<1> QED BY <1>6, <1>7

LEMMA HostActivateSound ==
  ASSUME DualInv, Dual!HostActivate
  PROVE  DualInv'
<1>1. /\ dSt = "WAIT_4_ACTIVATE" /\ dStatus = "UPDATING" /\ dStatus' = "SAVING" /\ dMode = "dfu"
      /\ dOps' = dOps \o Dual!Activation /\ dTimer' \in {"on", "due", "off"}
      /\ UNCHANGED <<dFlash, dStg, dLast, dCut, dMode, dOta, dSt, dUpdate, dReceived, dProg>>
  <2>1. dTimer \in {"on", "due", "off"}
    BY DEF DualInv, DualTypes, Dual!TypeOK
  <2> QED BY <2>1 DEF Dual!HostActivate, Dual!Ready, Dual!nonVolatile, Dual!image
<1>2. NotYet /\ Dual!Holds(Base, dUpdate.image) /\ (dUpdate.kind = "SD" => dCut)
  BY <1>1 DEF DualInv, Activated
<1>3. /\ dOps \in Seq(Operation) /\ Len(dOps) \in Nat /\ dProg \in Nat
      /\ dUpdate.kind \in {"APP", "SD", "BL"}
  BY DualFacts DEF DualInv, DualTypes
<1>4. Len(dOps) \in {0, 1}
  <2>1. ~(Len(dOps) >= 2)
    <3> SUFFICES ASSUME Len(dOps) >= 2 PROVE FALSE
      OBVIOUS
    <3>1. 2 \in 1 .. Len(dOps)
      BY <1>3
    <3> QED BY <3>1, <1>2 DEF NotYet
  <2>2. Len(dOps) \in Nat
    BY <1>3
  <2>3. \A n \in Nat : ~(n >= 2) => n \in {0, 1}
    OBVIOUS
  <2> QED BY ONLY <2>1, <2>2, <2>3
<1> DEFINE a == Dual!Activation
<1>5. /\ a \in Seq(Operation) /\ Len(a) = IF dUpdate.kind = "APP" THEN 4 ELSE 2
      /\ \A i \in 1 .. Len(a) : Step(a[i], Len(a) - i, dUpdate, dStg.b0)
  BY <1>1, ActivationIs
<1> HIDE DEF a
<1>6. Len(a) \in {2, 4}
  BY <1>5
<1>7. /\ dOps' \in Seq(Operation) /\ Len(dOps') = Len(dOps) + Len(a)
      /\ \A i \in 1 .. Len(dOps) : dOps'[i] = dOps[i]
      /\ \A i \in Len(dOps) + 1 .. Len(dOps') : dOps'[i] = a[i - Len(dOps)]
  <2>1. dOps' = dOps \o a
    BY <1>1 DEF a
  <2>2. dOps \in Seq(Operation) /\ a \in Seq(Operation)
    BY <1>3, <1>5
  <2>3. /\ dOps' \in Seq(Operation) /\ Len(dOps') = Len(dOps) + Len(a)
        /\ \A i \in 1 .. Len(dOps) + Len(a) :
             dOps'[i] = IF i <= Len(dOps) THEN dOps[i] ELSE a[i - Len(dOps)]
    BY <2>1, <2>2, ConcatProperties
  <2>4. Len(dOps) \in Nat /\ Len(a) \in Nat
    BY <1>4, <1>6
  <2>5. \A i \in 1 .. Len(dOps) : i \in 1 .. Len(dOps) + Len(a) /\ i <= Len(dOps)
    BY <2>4
  <2>6. \A i \in Len(dOps) + 1 .. Len(dOps') : i \in 1 .. Len(dOps) + Len(a) /\ ~(i <= Len(dOps))
    BY <2>3, <2>4
  <2> QED BY <2>3, <2>5, <2>6
<1>8. Size' = Size /\ Base' = Base
  BY <1>1 DEF Size, Base
<1>9. Dual!TypeOK'
  BY <1>1 DEF DualInv, DualTypes, Dual!TypeOK
<1>10. dOps = <<>> => dProg = 0
  BY DEF DualInv, DualTypes
<1>11. dOps # <<>> => Len(dOps) = 1 /\ Done(dOps[1]) /\ dProg = 1 /\ dOps'[1] = dOps[1]
  <2>1. dOps # <<>> => 1 \in 1 .. Len(dOps)
    BY <1>3
  <2> QED BY <2>1, <1>2, <1>4, <1>7 DEF NotYet
<1>12. dOps' # <<>> /\ dOps'[1] \in Operation
  <2>1. Len(dOps') \in 2 .. 5
    <3>1. Len(dOps') = Len(dOps) + Len(a)
      BY <1>7
    <3>2. \A x \in {0, 1}, y \in {2, 4} : x + y \in 2 .. 5
      OBVIOUS
    <3> QED BY ONLY <3>1, <3>2, <1>4, <1>6
  <2>2. 1 \in 1 .. Len(dOps')
    BY <2>1
  <2>3. dOps' \in Seq(Operation)
    BY <1>7
  <2> QED BY <2>1, <2>2, <2>3
<1>13. DualTypes'
  <2>1. dProg <= dOps'[1].n
    <3>1. dOps'[1].n \in Nat
      BY <1>12 DEF Operation
    <3> QED BY <3>1, <1>3, <1>10, <1>11 DEF Done
  <2> QED BY <2>1, <1>1, <1>7, <1>9, <1>12 DEF DualInv, DualTypes
<1>14. Whole' /\ Announced' /\ Fits'
  BY <1>1 DEF DualInv, Whole, Dual!AppIsValid, Dual!Holds, Announced, Fits, Dual!TooLarge
<1>15. Activated'
  <2>1. PICK b \in {"ERASED", "VALID", "INVALID"} :
          /\ ~dCut /\ dUpdate.kind = "BL" => b # "INVALID"
          /\ \A i \in 1 .. Len(a) : Step(a[i], Len(a) - i, dUpdate, b)
    <3>1. dStg.b0 \in {"ERASED", "VALID", "VALID_SD", "INVALID"}
      BY DEF DualInv, DualTypes, Dual!TypeOK
    <3>2. CASE dUpdate.kind # "SD"
      <4>1. dStg.b0 # "VALID_SD"
        BY <3>2, <1>1 DEF DualInv, Announced
      <4>2. ~dCut => dStg.b0 # "INVALID"
        BY DEF DualInv, Whole, Dual!AppIsValid
      <4> QED BY <3>1, <4>1, <4>2, <1>5
    <3>3. CASE dUpdate.kind = "SD"
      <4>1. \A i \in 1 .. Len(a) : Step(a[i], Len(a) - i, dUpdate, "INVALID")
        BY <3>3, <1>5 DEF Step, Record
      <4> QED BY <3>3, <4>1
    <3> QED BY <3>2, <3>3
  <2>2. Len(dOps') = Len(dOps) + Len(a)
    BY <1>7
  <2>3. ASSUME NEW i \in 1 .. Len(dOps') PROVE Step(dOps'[i], Len(dOps') - i, dUpdate, b)
    <3>1. CASE i \in 1 .. Len(dOps)
      <4>1. i = 1 /\ Done(dOps'[1])
        BY <3>1, <1>2, <1>7 DEF NotYet
      <4>2. Len(dOps) = 1
        BY <3>1, <1>4
      <4>3. Len(dOps') - i = IF dUpdate.kind = "APP" THEN 4 ELSE 2
        BY <4>1, <4>2, <2>2, <1>5
      <4> QED BY <4>1, <4>3 DEF Step
    <3>2. CASE i \in Len(dOps) + 1 .. Len(dOps')
      <4>1. /\ i - Len(dOps) \in 1 .. Len(a)
            /\ Len(a) - (i - Len(dOps)) = Len(dOps') - i
        BY <3>2, <2>2, <1>4, <1>6
      <4>2. dOps'[i] = a[i - Len(dOps)]
        BY <3>2, <1>7
      <4>3. Step(a[i - Len(dOps)], Len(a) - (i - Len(dOps)), dUpdate, b)
        BY <4>1, <2>1
      <4> QED BY <4>1, <4>2, <4>3
    <3>3. i \in 1 .. Len(dOps) \/ i \in Len(dOps) + 1 .. Len(dOps')
      BY <1>4, <1>6, <2>2
    <3> QED BY <3>1, <3>2, <3>3
  <2>4. Done(dOps'[1]) => dProg = 1
    <3>1. CASE dOps # <<>>
      BY <3>1, <1>11
    <3>2. CASE dOps = <<>>
      <4>1. Len(dOps) = 0
        BY <3>2
      <4>2. \A y \in {2, 4} : 1 \in 1 .. 0 + y /\ (0 + y) - 1 \in {1, 3}
        OBVIOUS
      <4>3. 1 \in 1 .. Len(dOps') /\ Len(dOps') - 1 \in {1, 3}
        BY ONLY <4>1, <4>2, <2>2, <1>6
      <4>4. Step(dOps'[1], Len(dOps') - 1, dUpdate, b)
        BY <4>3, <2>3
      <4>5. ASSUME NEW x \in {1, 3}, NEW op, Step(op, x, dUpdate, b) PROVE ~Done(op)
        BY <4>5 DEF Step, Done, Settings, Dual!Clear
      <4> QED BY <4>3, <4>4, <4>5
    <3> QED BY <3>1, <3>2
  <2>5. dUpdate.kind = "APP" => Len(dOps') \in {4, 5} /\ (Len(dOps') = 4 => dProg = 0)
    <3> SUFFICES ASSUME dUpdate.kind = "APP"
                 PROVE  Len(dOps') \in {4, 5} /\ (Len(dOps') = 4 => dProg = 0)
      OBVIOUS
    <3>1. Len(a) = 4
      BY <1>5
    <3>2. \A x \in {0, 1} : x + 4 \in {4, 5} /\ (x + 4 = 4 => x = 0)
      OBVIOUS
    <3>3. Len(dOps') \in {4, 5} /\ (Len(dOps') = 4 => Len(dOps) = 0)
      BY ONLY <3>1, <3>2, <2>2, <1>4
    <3>4. Len(dOps) = 0 => dOps = <<>>
      BY <1>3
    <3> QED BY ONLY <3>3, <3>4, <1>10
  <2>6. \A i \in 1 .. Len(dOps') : Step(dOps'[i], Len(dOps') - i, dUpdate', b)
    BY <2>3, <1>1
  <2>7. /\ ~dCut' /\ dUpdate'.kind = "BL" => b # "INVALID"
        /\ dOps' # <<>> /\ Done(dOps'[1]) => dProg' = 1
    BY <1>1, <2>1, <2>4
  <2>8. dUpdate'.kind = "APP" => /\ Len(dOps') # 3 /\ Len(dOps') \notin {1, 2}
                                 /\ Len(dOps') = 4 => ~(dProg' > 0)
    BY <1>1, <2>5
  <2>9. Activating(b)'
    BY <2>6, <2>7, <2>8 DEF Activating
  <2> QED BY <1>1, <1>2, <1>8, <2>9 DEF Activated, Dual!Holds
<1> QED BY <1>1, <1>13, <1>14, <1>15 DEF DualInv, Waiting, Preparing, Receiving

\* What a step of flash does, whatever the phase.
LEMMA FlashStepIs ==
  ASSUME DualInv, Dual!FlashStep
  PROVE  /\ Len(dOps) \in Nat /\ Len(dOps) > 0 /\ 1 \in 1 .. Len(dOps) /\ dOps # <<>>
         /\ Head(dOps) = dOps[1] /\ dProg \in Nat /\ dProg < dOps[1].n /\ dProg' = dProg + 1
         /\ dMode = "dfu" /\ dSt # "IDLE"
         /\ UNCHANGED <<dMode, dOta, dStatus, dSt, dUpdate, dReceived, dTimer, dOps>>
         /\ Size' = Size /\ Base' = Base
<1>1. /\ dOps # <<>> /\ dProg < Head(dOps).n /\ dProg' = dProg + 1
      /\ UNCHANGED <<dMode, dOta, dStatus, dSt, dUpdate, dReceived, dTimer, dOps>>
  BY DEF Dual!FlashStep, Dual!image
<1>2. dOps \in Seq(Operation) /\ dProg \in Nat
  BY DualFacts DEF DualInv, DualTypes
<1>3. Len(dOps) \in Nat /\ Len(dOps) > 0 /\ Head(dOps) = dOps[1]
  BY <1>1, <1>2
<1>4. dSt # "IDLE"
  BY <1>1 DEF DualInv, Waiting
<1>5. dMode = "dfu"
  BY <1>4 DEF DualInv, Fits
<1>6. 1 \in 1 .. Len(dOps)
  BY ONLY <1>3
<1> QED BY <1>1, <1>2, <1>3, <1>4, <1>5, <1>6 DEF Size, Base

LEMMA FlashStepTypes ==
  ASSUME DualInv, Dual!FlashStep, dOps[1].n <= 2 * BankChunks, dCut' \in BOOLEAN,
         dFlash' \in [Dual!Chunks -> Word \cup {Erased}], dStg' \in SettingsPage,
         dLast' \in Seq(Word), Len(dLast') \in 1 .. BankChunks
  PROVE  DualTypes' /\ Fits'
<1>1. /\ dOps # <<>> /\ dProg \in Nat /\ dProg < dOps[1].n /\ dProg' = dProg + 1
      /\ UNCHANGED <<dMode, dOta, dStatus, dSt, dUpdate, dReceived, dTimer, dOps>>
      /\ BankChunks \in Nat
  BY FlashStepIs, DualFacts
<1>2. dOps[1].n \in Nat
  <2>1. dOps \in Seq(Operation) /\ 1 \in 1 .. Len(dOps)
    BY FlashStepIs DEF DualInv, DualTypes
  <2>2. dOps[1] \in Operation
    BY <2>1
  <2> QED BY <2>2 DEF Operation
<1>3. dProg' <= dOps'[1].n /\ dProg' \in 0 .. 2 * BankChunks
  BY <1>1, <1>2
<1>4. Dual!TypeOK'
  BY <1>1, <1>3 DEF DualInv, DualTypes, Dual!TypeOK, SettingsPage
<1> QED BY <1>1, <1>3, <1>4 DEF DualInv, DualTypes, Fits, Dual!TooLarge

LEMMA FlashStepPreparing ==
  ASSUME DualInv, Dual!FlashStep, dSt = "PREPARING"
  PROVE  DualInv'
<1>1. /\ dOps # <<>> /\ Head(dOps) = dOps[1] /\ dProg \in Nat /\ dProg < dOps[1].n /\ dProg' = dProg + 1
      /\ dMode = "dfu" /\ UNCHANGED <<dMode, dOta, dStatus, dSt, dUpdate, dReceived, dTimer, dOps>>
      /\ Size' = Size /\ Base' = Base
  BY FlashStepIs
<1>2. /\ BankChunks \in Nat /\ BankChunks > 0 /\ Size \in Nat /\ Size > 0
      /\ Base \in {0, BankChunks} /\ (Base = 0 <=> dUpdate.kind = "SD") /\ Base + Size <= 2 * BankChunks
      /\ dFlash \in [Dual!Chunks -> Word \cup {Erased}] /\ Dual!Chunks = 0 .. 2 * BankChunks - 1
  BY DualFacts
<1>3. PreparingOps
  BY DEF DualInv, Preparing
<1>4. dOps[1] = [op |-> "clear", at |-> Base, n |-> Size, v |-> Erased]
  BY <1>3 DEF PreparingOps, Dual!Clear
<1>5. /\ dFlash' = [dFlash EXCEPT ![Base + dProg] = Erased] /\ dStg' = dStg /\ dLast' = dLast
      /\ dCut' = IF dUpdate.kind = "SD" THEN TRUE ELSE dCut
  <2>1. dOps[1].op = "clear" /\ dOps[1].at = Base /\ dOps[1].v = Erased
    BY <1>4
  <2>2. dFlash' = [dFlash EXCEPT ![Base + dProg] = Erased]
    BY <1>1, <2>1 DEF Dual!FlashStep
  <2>3. dStg' = dStg
    BY <1>1, <2>1 DEF Dual!FlashStep
  <2>4. dLast' = dLast
    BY <1>1, <2>1 DEF Dual!FlashStep
  <2>5. dCut' = IF dUpdate.kind = "SD" THEN TRUE ELSE dCut
    BY <1>1, <2>1 DEF Dual!FlashStep
  <2> QED BY <2>2, <2>3, <2>4, <2>5
<1>6. Base + dProg \in Dual!Chunks
  BY <1>1, <1>2, <1>4
<1>7. /\ dFlash' \in [Dual!Chunks -> Word \cup {Erased}] /\ dFlash'[Base + dProg] = Erased
      /\ \A k \in Dual!Chunks : k # Base + dProg => dFlash'[k] = dFlash[k]
  BY <1>2, <1>5, <1>6
<1>8. DualTypes' /\ Fits'
  <2>1. dOps[1].n <= 2 * BankChunks
    BY <1>2, <1>4
  <2> QED BY <1>5, <1>7, <2>1, FlashStepTypes DEF DualInv, DualTypes, Dual!TypeOK, SettingsPage
<1>9. dStg.b0 # "VALID_SD" /\ dStg.b1 # "VALID_BOOT"
  BY <1>1 DEF DualInv, Announced
<1>10. Whole'
  <2>1. CASE dUpdate.kind = "SD"
    BY <2>1, <1>5, <1>9 DEF Whole
  <2>2. CASE dUpdate.kind # "SD"
    <3>1. \A k \in 0 .. BankChunks - 1 : dFlash'[k] = dFlash[k]
      BY <2>2, <1>1, <1>2, <1>7
    <3> QED BY <3>1, <2>2, <1>5, <1>9, WholeKept
  <2> QED BY <2>1, <2>2
<1>11. Preparing'
  <2>1. \A k \in 0 .. dProg' - 1 : dFlash'[Base + k] = Erased
    <3> SUFFICES ASSUME NEW k \in 0 .. dProg' - 1 PROVE dFlash'[Base + k] = Erased
      OBVIOUS
    <3>1. CASE k = dProg
      BY <3>1, <1>7
    <3>2. CASE k # dProg
      <4>1. k \in 0 .. dProg - 1 /\ Base + k \in Dual!Chunks /\ Base + k # Base + dProg
        BY <3>2, <1>1, <1>2, <1>4
      <4> QED BY <4>1, <1>3, <1>7 DEF PreparingOps
    <3> QED BY <3>1, <3>2
  <2> QED BY <2>1, <1>1, <1>3, <1>5 DEF Preparing, PreparingOps, Dual!Clear
<1>12. Announced'
  BY <1>1, <1>5, <1>9 DEF Announced
<1> QED BY <1>1, <1>8, <1>10, <1>11, <1>12 DEF DualInv, Waiting, Receiving, Activated

LEMMA FlashStepReceiving ==
  ASSUME DualInv, Dual!FlashStep, dSt \in {"RDY", "RX_DATA", "VALIDATE"}
  PROVE  DualInv'
<1>1. /\ dOps # <<>> /\ Head(dOps) = dOps[1] /\ dProg \in Nat /\ dProg < dOps[1].n /\ dProg' = dProg + 1
      /\ 1 \in 1 .. Len(dOps)
      /\ dMode = "dfu" /\ UNCHANGED <<dMode, dOta, dStatus, dSt, dUpdate, dReceived, dTimer, dOps>>
      /\ Size' = Size /\ Base' = Base
  BY FlashStepIs
<1>2. /\ BankChunks \in Nat /\ BankChunks > 0 /\ Size \in Nat /\ Size > 0
      /\ Base \in {0, BankChunks} /\ (Base = 0 <=> dUpdate.kind = "SD") /\ Base + Size <= 2 * BankChunks
      /\ dFlash \in [Dual!Chunks -> Word \cup {Erased}] /\ Dual!Chunks = 0 .. 2 * BankChunks - 1
      /\ dReceived \in 0 .. Size
  BY DualFacts
<1>3. ReceivingOps
  BY DEF DualInv, Receiving
<1>4. dStg.b0 # "VALID_SD" /\ dStg.b1 # "VALID_BOOT" /\ dStg \in SettingsPage
  BY <1>1 DEF DualInv, Announced, DualTypes, Dual!TypeOK, SettingsPage
<1>5. CASE IsSave(dOps[1], dUpdate.kind)
  <2>1. /\ dOps[1].op = "settings" /\ dOps[1].n = 2 /\ dUpdate.kind = "SD" /\ dCut
        /\ dOps[1].v \in [b0 : {"ERASED", "INVALID"}, b1 : {"ERASED", "INVALID"}]
    BY <1>3, <1>5 DEF IsSave, ReceivingOps
  <2>2. /\ dFlash' = dFlash /\ dLast' = dLast /\ dCut' = dCut
        /\ dStg' = IF dProg = 0 THEN [dStg EXCEPT !.b0 = dOps[1].v.b0] ELSE [dStg EXCEPT !.b1 = dOps[1].v.b1]
    BY <1>1, <2>1 DEF Dual!FlashStep
  <2>3. dStg' \in SettingsPage /\ dStg'.b0 # "VALID_SD" /\ dStg'.b1 # "VALID_BOOT"
    BY <2>1, <2>2, <1>4 DEF SettingsPage
  <2>4. DualTypes' /\ Fits'
    <3>1. dOps[1].n <= 2 * BankChunks
      BY <2>1, <1>2
    <3> QED BY <2>2, <2>3, <3>1, <1>2, FlashStepTypes DEF DualInv, DualTypes
  <2>5. Whole' /\ Announced'
    BY <2>1, <2>2, <2>3 DEF Whole, Announced
  <2>6. Receiving'
    <3>1. \A i \in 1 .. Len(dOps) : i # 1 \/ dOps[i].op # "data"
      BY <2>1
    <3> QED BY <2>2, <3>1, <1>1, <1>3 DEF Receiving, ReceivingOps
  <2> QED BY <1>1, <2>4, <2>5, <2>6 DEF DualInv, Waiting, Preparing, Activated
<1>6. CASE IsData(dOps[1], Base, dReceived)
  <2> DEFINE at == dOps[1].at
  <2>1. /\ dOps[1].op = "data" /\ dOps[1].n = 1 /\ dOps[1].v \in Word
        /\ at \in Base .. Base + dReceived - 1 /\ dProg = 0
    BY <1>1, <1>6 DEF IsData
  <2>2. /\ dFlash' = [dFlash EXCEPT ![at + dProg] = dOps[1].v] /\ dLast' = dLast /\ dStg' = dStg
        /\ dCut' = dCut
    BY <1>1, <2>1 DEF Dual!FlashStep
  <2>3. at + dProg = at /\ at \in Dual!Chunks
    BY <2>1, <1>2
  <2>4. /\ dFlash' \in [Dual!Chunks -> Word \cup {Erased}]
        /\ \A k \in Dual!Chunks : k # at => dFlash'[k] = dFlash[k]
    BY <2>1, <2>2, <2>3, <1>2
  <2>5. DualTypes' /\ Fits'
    <3>1. dOps[1].n <= 2 * BankChunks
      BY <2>1, <1>2
    <3> QED BY <2>2, <2>4, <3>1, <1>4, FlashStepTypes DEF DualInv, DualTypes
  <2>6. Whole'
    <3>1. CASE dUpdate.kind = "SD"
      BY <3>1, <2>2, <1>3, <1>4 DEF Whole, ReceivingOps
    <3>2. CASE dUpdate.kind # "SD"
      <4>1. \A k \in 0 .. BankChunks - 1 : dFlash'[k] = dFlash[k]
        BY <3>2, <2>1, <2>4, <1>2
      <4> QED BY <4>1, <3>2, <2>2, <1>4, WholeKept
    <3> QED BY <3>1, <3>2
  <2>7. Announced'
    BY <2>2, <1>1, <1>4 DEF Announced
  <2>8. \A i \in 1 .. Len(dOps) : dOps[i].op # "settings"
    <3> SUFFICES ASSUME NEW i \in 1 .. Len(dOps), dOps[i].op = "settings" PROVE FALSE
      OBVIOUS
    <3>1. i # 1
      BY <2>1
    <3>2. 1 < i
      BY <3>1
    <3> QED BY <3>2, <1>1, <1>3, <2>1 DEF ReceivingOps
  <2>9. \A i \in 1 .. Len(dOps) : i # 1 => /\ dOps[i].at \in Base .. Base + dReceived - 1
                                         /\ dOps[i].at # at /\ dOps[i].op = "data"
                                         /\ dFlash[dOps[i].at] = Erased
    <3> SUFFICES ASSUME NEW i \in 1 .. Len(dOps), i # 1
                 PROVE  /\ dOps[i].at \in Base .. Base + dReceived - 1 /\ dOps[i].at # at
                        /\ dOps[i].op = "data" /\ dFlash[dOps[i].at] = Erased
      OBVIOUS
    <3>1. IsData(dOps[i], Base, dReceived)
      BY <2>8, <1>3 DEF ReceivingOps, IsSave
    <3>2. 1 < i
      OBVIOUS
    <3>3. at < dOps[i].at
      BY <3>2, <2>1, <1>1, <1>3 DEF ReceivingOps
    <3>4. dOps[i].at \in Base .. Base + dReceived - 1 /\ dOps[i].op = "data"
      BY <3>1 DEF IsData
    <3>5. dOps[i].at # at
      BY <3>3, <3>4, <2>1, <1>2
    <3>6. dFlash[dOps[i].at] = Erased
      BY <3>4, <1>3 DEF ReceivingOps
    <3> QED BY <3>4, <3>5, <3>6
  <2>10. Receiving'
    <3>1. \A i \in 1 .. Len(dOps) : i # 1 => dFlash'[dOps[i].at] = Erased
      <4>1. \A i \in 1 .. Len(dOps) : i # 1 => dOps[i].at \in Dual!Chunks
        BY <2>9, <1>2
      <4> QED BY <4>1, <2>4, <2>9
    <3>2. \A k \in Base + dReceived .. Base + Size - 1 : dFlash'[k] = Erased
      <4>1. \A k \in Base + dReceived .. Base + Size - 1 : k \in Dual!Chunks /\ k # at
        BY <2>1, <1>2
      <4> QED BY <4>1, <2>4, <1>3 DEF ReceivingOps
    <3>3. dProg' # 0
      BY <1>1
    <3> QED BY <2>2, <2>8, <3>1, <3>2, <3>3, <1>1, <1>3 DEF Receiving, ReceivingOps
  <2> QED BY <1>1, <2>5, <2>6, <2>7, <2>10 DEF DualInv, Waiting, Preparing, Activated
<1> QED BY <1>1, <1>3, <1>5, <1>6 DEF ReceivingOps

\* The first operation of an activation, when it is not done.
LEMMA FirstStep ==
  ASSUME DualInv, dSt = "WAIT_4_ACTIVATE", dOps # <<>>, dProg < dOps[1].n,
         NEW b, Activating(b)
  PROVE  \/ Len(dOps) = 1 /\ dOps[1] = Settings(Record(dUpdate, b))
         \/ Len(dOps) = 2 /\ dOps[1] = Settings(Dual!ErasedRecord)
         \/ Len(dOps) = 3 /\ dUpdate.kind = "APP" /\ dOps[1] = Dual!Copy(Size)
         \/ Len(dOps) = 4 /\ dUpdate.kind = "APP" /\ dOps[1] = Dual!Clear(0, Size)
<1>1. Len(dOps) \in Nat /\ dOps \in Seq(Operation) /\ dProg \in Nat
  BY DualFacts DEF DualInv, DualTypes
<1>2. 1 \in 1 .. Len(dOps)
  BY <1>1
<1>3. Step(dOps[1], Len(dOps) - 1, dUpdate, b)
  BY <1>2 DEF Activating
<1>4. ~Done(dOps[1])
  BY <1>1 DEF Activating, Done
<1>5. PICK n \in Nat : n = Len(dOps) - 1
  BY <1>1, <1>2
<1>6. /\ n = 0 => Len(dOps) = 1
      /\ n = 1 => Len(dOps) = 2
      /\ n = 2 => Len(dOps) = 3
      /\ n = 3 => Len(dOps) = 4
  BY ONLY <1>1, <1>5
<1>7. Step(dOps[1], n, dUpdate, b)
  BY <1>3, <1>5
<1> QED BY <1>4, <1>6, <1>7 DEF Step, Size

LEMMA FlashStepActivated ==
  ASSUME DualInv, Dual!FlashStep, dSt = "WAIT_4_ACTIVATE"
  PROVE  DualInv'
<1>1. /\ dOps # <<>> /\ Head(dOps) = dOps[1] /\ dProg \in Nat /\ dProg < dOps[1].n /\ dProg' = dProg + 1
      /\ 1 \in 1 .. Len(dOps) /\ Len(dOps) \in Nat
      /\ dMode = "dfu" /\ UNCHANGED <<dMode, dOta, dStatus, dSt, dUpdate, dReceived, dTimer, dOps>>
      /\ Size' = Size /\ Base' = Base
  BY FlashStepIs
<1>2. /\ BankChunks \in Nat /\ BankChunks > 0 /\ Size \in Nat /\ Size > 0
      /\ Base \in {0, BankChunks} /\ (Base = 0 <=> dUpdate.kind = "SD") /\ Base + Size <= 2 * BankChunks
      /\ dFlash \in [Dual!Chunks -> Word \cup {Erased}] /\ Dual!Chunks = 0 .. 2 * BankChunks - 1
      /\ dUpdate.kind \in {"APP", "SD", "BL"} /\ dUpdate \in Updates /\ Erased \notin Word
      /\ dUpdate.image \in Seq(Word) /\ \A k \in 1 .. Size : dUpdate.image[k] \in Word
      /\ dUpdate.kind = "APP" => Size <= BankChunks
  BY <1>1, DualFacts
<1>3. /\ dStg \in SettingsPage /\ dCut \in BOOLEAN /\ dLast \in Seq(Word) /\ Len(dLast) \in 1 .. BankChunks
      /\ dStg.b0 \in {"ERASED", "VALID", "VALID_SD", "INVALID"}
      /\ dStg.b0 = "VALID_SD" => dUpdate.kind = "SD"
      /\ dStg.b1 = "VALID_BOOT" => dUpdate.kind = "BL"
  BY <1>1 DEF DualInv, DualTypes, Dual!TypeOK, SettingsPage, Announced
<1>4. Dual!Holds(Base, dUpdate.image) /\ (dUpdate.kind = "SD" => dCut)
  BY DEF DualInv, Activated
<1>5. ~NotYet
  BY <1>1 DEF NotYet, Done
<1>6. PICK b \in {"ERASED", "VALID", "INVALID"} : dStatus # "UPDATING" /\ Activating(b)
  BY <1>5 DEF DualInv, Activated
<1>7. Waiting' /\ Preparing' /\ Receiving'
  BY <1>1 DEF Waiting, Preparing, Receiving
<1>8. ASSUME Dual!Holds(Base, dUpdate.image)', dUpdate.kind = "SD" => dCut', Activating(b)'
      PROVE  Activated'
  BY <1>1, <1>6, <1>8 DEF Activated
<1>9. /\ ~dCut /\ dUpdate.kind = "BL" => b # "INVALID"
      /\ \A i \in 1 .. Len(dOps) : Step(dOps[i], Len(dOps) - i, dUpdate, b)
  BY <1>6 DEF Activating
<1>10. CASE Len(dOps) = 4 /\ dUpdate.kind = "APP" /\ dOps[1] = Dual!Clear(0, Size)
  <2>1. dOps[1].op = "clear" /\ dOps[1].at = 0 /\ dOps[1].n = Size /\ dOps[1].v = Erased
    BY <1>10 DEF Dual!Clear
  <2>2. dFlash' = [dFlash EXCEPT ![0 + dProg] = Erased]
    BY <1>1, <2>1 DEF Dual!FlashStep
  <2>3. dStg' = dStg /\ dLast' = dLast
    BY <1>1, <2>1 DEF Dual!FlashStep
  <2>4. dCut' = TRUE
    BY <1>1, <2>1 DEF Dual!FlashStep
  <2>5. 0 + dProg = dProg /\ dProg \in Dual!Chunks /\ dProg < BankChunks
    BY <1>1, <1>2, <1>10, <2>1
  <2>6. /\ dFlash' \in [Dual!Chunks -> Word \cup {Erased}]
        /\ \A k \in Dual!Chunks : k # dProg => dFlash'[k] = dFlash[k]
    BY <1>2, <2>2, <2>5
  <2>7. DualTypes' /\ Fits'
    <3>1. dOps[1].n <= 2 * BankChunks
      BY <2>1, <1>2, <1>10
    <3> QED BY <1>3, <2>3, <2>4, <2>6, <3>1, FlashStepTypes
  <2>8. Whole' /\ Announced'
    BY <1>1, <1>3, <1>10, <2>3, <2>4 DEF Whole, Announced
  <2>9. Dual!Holds(Base, dUpdate.image)'
    <3>1. ASSUME NEW k \in 1 .. Len(dUpdate.image) PROVE dFlash'[Base + k - 1] = dUpdate.image[k]
      <4>1. Base + k - 1 \in Dual!Chunks /\ Base + k - 1 # dProg
        BY <1>2, <1>10, <2>5 DEF Size
      <4> QED BY <4>1, <1>4, <2>6 DEF Dual!Holds
    <3> QED BY <3>1, <1>1 DEF Dual!Holds
  <2>10. ~Done(dOps[1])
    BY <2>1 DEF Done
  <2>11. Activating(b)'
    <3>1. Len(dOps) # 3 /\ Len(dOps) \notin {1, 2}
      BY <1>10
    <3> QED BY <1>1, <1>9, <2>4, <2>10, <3>1 DEF Activating
  <2> QED BY <1>7, <1>8, <2>4, <2>7, <2>8, <2>9, <2>11 DEF DualInv
<1>11. CASE Len(dOps) = 3 /\ dUpdate.kind = "APP" /\ dOps[1] = Dual!Copy(Size)
  <2>1. dOps[1].op = "copy" /\ dOps[1].n = Size
    BY <1>11 DEF Dual!Copy
  <2>2. dFlash' = [dFlash EXCEPT ![dProg] = dFlash[BankChunks + dProg]]
    BY <1>1, <2>1 DEF Dual!FlashStep
  <2>3. dStg' = dStg
    BY <1>1, <2>1 DEF Dual!FlashStep
  <2>4. dLast' = IF dProg + 1 = Size THEN dUpdate.image ELSE dLast
    BY <1>1, <2>1 DEF Dual!FlashStep
  <2>5. dCut' = IF dProg + 1 = Size THEN dStg.b0 = "INVALID" ELSE dCut
    BY <1>1, <2>1 DEF Dual!FlashStep
  <2>6. /\ \A k \in 1 .. dProg : dFlash[k - 1] = dUpdate.image[k]
        /\ dCut
    <3>1. dProg # Size
      BY <1>1, <1>2, <2>1
    <3> QED BY <3>1, <1>6, <1>11 DEF Activating
  <2>7. dProg \in Dual!Chunks /\ dProg < BankChunks /\ dProg + 1 \in 1 .. Size /\ BankChunks + dProg \in Dual!Chunks
    BY <1>1, <1>2, <1>11, <2>1
  <2>8. dFlash[BankChunks + dProg] = dUpdate.image[dProg + 1]
    <3>1. Base = BankChunks /\ Base + (dProg + 1) - 1 = BankChunks + dProg
      BY <1>1, <1>2, <1>11
    <3> QED BY <3>1, <1>4, <2>7 DEF Dual!Holds, Size
  <2>9. /\ dFlash' \in [Dual!Chunks -> Word \cup {Erased}] /\ dFlash'[dProg] = dUpdate.image[dProg + 1]
        /\ \A k \in Dual!Chunks : k # dProg => dFlash'[k] = dFlash[k]
    BY <1>2, <2>2, <2>7, <2>8
  <2>10. \A k \in 1 .. dProg + 1 : dFlash'[k - 1] = dUpdate.image[k]
    <3> SUFFICES ASSUME NEW k \in 1 .. dProg + 1 PROVE dFlash'[k - 1] = dUpdate.image[k]
      OBVIOUS
    <3>1. CASE k = dProg + 1
      <4>1. k - 1 = dProg
        BY <3>1, <1>1
      <4> QED BY <3>1, <4>1, <2>9
    <3>2. CASE k # dProg + 1
      <4>1. k \in 1 .. dProg /\ k - 1 \in Dual!Chunks /\ k - 1 # dProg
        BY <3>2, <1>1, <1>2, <2>7
      <4> QED BY <4>1, <2>6, <2>9
    <3> QED BY <3>1, <3>2
  <2>11. dCut' \in BOOLEAN
    BY <2>5, <1>3
  <2>12. dLast' \in Seq(Word) /\ Len(dLast') \in 1 .. BankChunks
    BY <2>4, <1>2, <1>3, <1>11 DEF Size
  <2>13. DualTypes' /\ Fits'
    <3>1. dOps[1].n <= 2 * BankChunks
      BY <2>1, <1>2, <1>11
    <3> QED BY <1>3, <2>3, <2>9, <2>11, <2>12, <3>1, FlashStepTypes
  <2>14. dProg + 1 = Size => Dual!Holds(0, dLast)'
    <3>1. \A k \in 1 .. Size : 0 + k - 1 = k - 1
      BY <1>2
    <3> QED BY <3>1, <2>4, <2>10 DEF Dual!Holds, Size
  <2>15. Whole' /\ Announced'
    <3>1. dStg.b0 # "VALID_SD" /\ dStg.b1 # "VALID_BOOT"
      BY <1>3, <1>11
    <3>2. ASSUME ~dCut' PROVE Dual!AppIsValid' /\ Dual!Holds(0, dLast)'
      <4>1. dProg + 1 = Size /\ dStg.b0 # "INVALID"
        BY <3>2, <2>5, <2>6
      <4>2. dFlash'[0] # Erased
        <5>1. 1 \in 1 .. dProg + 1 /\ 1 - 1 = 0 /\ 1 \in 1 .. Size
          BY <1>1, <1>2
        <5>2. dFlash'[0] = dUpdate.image[1]
          BY <5>1, <2>10
        <5> QED BY <5>1, <5>2, <1>2
      <4>3. dStg.b0 \in {"ERASED", "VALID"}
        BY <3>1, <4>1, <1>3
      <4> QED BY <4>1, <4>2, <4>3, <2>3, <2>14 DEF Dual!AppIsValid
    <3> QED BY <3>1, <3>2, <2>3 DEF Whole, Announced
  <2>16. Dual!Holds(Base, dUpdate.image)'
    <3>1. ASSUME NEW k \in 1 .. Len(dUpdate.image) PROVE dFlash'[Base + k - 1] = dUpdate.image[k]
      <4>1. Base + k - 1 \in Dual!Chunks /\ Base + k - 1 # dProg
        BY <1>2, <1>11, <2>7 DEF Size
      <4> QED BY <4>1, <1>4, <2>9 DEF Dual!Holds
    <3> QED BY <3>1, <1>1 DEF Dual!Holds
  <2>17. ~Done(dOps[1])
    BY <2>1 DEF Done
  <2>18. Activating(b)'
    <3>1. Len(dOps) # 4 /\ Len(dOps) \notin {1, 2} /\ dUpdate.kind # "BL"
      BY <1>11
    <3>2. IF dProg' = Size THEN dLast' = dUpdate.image ELSE dCut'
      BY <1>1, <2>4, <2>5, <2>6
    <3>3. \A k \in 1 .. dProg' : dFlash'[k - 1] = dUpdate.image[k]
      BY <1>1, <2>10
    <3> QED BY <1>1, <1>9, <2>17, <3>1, <3>2, <3>3 DEF Activating
  <2> QED BY <1>7, <1>8, <1>11, <2>13, <2>15, <2>16, <2>18 DEF DualInv
<1>12. CASE Len(dOps) \in {1, 2} /\ \E r \in SettingsPage :
              /\ dOps[1] = Settings(r)
              /\ r = Dual!ErasedRecord \/ r = Record(dUpdate, b)
  <2>1. PICK r \in SettingsPage : dOps[1] = Settings(r) /\ (r = Dual!ErasedRecord \/ r = Record(dUpdate, b))
    BY <1>12
  <2>2. dOps[1].op = "settings" /\ dOps[1].n = 2 /\ dOps[1].v = r
    BY <2>1 DEF Settings
  <2>3. dFlash' = dFlash
    BY <1>1, <2>2 DEF Dual!FlashStep
  <2>4. dLast' = dLast
    BY <1>1, <2>2 DEF Dual!FlashStep
  <2>5. dStg' = IF dProg = 0 THEN [dStg EXCEPT !.b0 = r.b0] ELSE [dStg EXCEPT !.b1 = r.b1]
    BY <1>1, <2>2 DEF Dual!FlashStep
  <2>6. dCut' = IF dProg = 0 /\ r.b0 = "VALID" /\ dUpdate.kind = "APP" THEN FALSE ELSE dCut
    BY <1>1, <2>2 DEF Dual!FlashStep
  <2>7. /\ dStg' \in SettingsPage /\ dCut' \in BOOLEAN
        /\ dStg'.b0 = IF dProg = 0 THEN r.b0 ELSE dStg.b0
        /\ dStg'.b1 = IF dProg = 0 THEN dStg.b1 ELSE r.b1
    BY <2>1, <2>5, <2>6, <1>3 DEF SettingsPage
  <2>8. /\ r.b0 = "VALID_SD" => dUpdate.kind = "SD"
        /\ r.b1 = "VALID_BOOT" => dUpdate.kind = "BL"
        /\ ~dCut => r.b0 \in {"ERASED", "VALID"}
    BY <2>1, <1>2, <1>4, <1>9 DEF Record, Dual!ErasedRecord
  <2>9. dUpdate.kind = "APP" => dLast = dUpdate.image /\ Dual!Holds(0, dLast)
    BY <1>6, <1>12 DEF Activating
  <2>10. DualTypes' /\ Fits'
    <3>1. dOps[1].n <= 2 * BankChunks
      BY <2>2, <1>2
    <3> QED BY <1>2, <1>3, <2>3, <2>4, <2>7, <3>1, FlashStepTypes
  <2>11. Announced'
    BY <1>1, <1>3, <2>7, <2>8 DEF Announced
  <2>12. Whole'
    <3>1. ASSUME ~dCut' PROVE Dual!AppIsValid' /\ Dual!Holds(0, dLast)'
      <4>1. CASE dCut
        <5>1. dProg = 0 /\ r.b0 = "VALID" /\ dUpdate.kind = "APP"
          BY <3>1, <4>1, <2>6
        <5>2. 1 \in 1 .. Size /\ 0 + 1 - 1 = 0
          BY <1>2
        <5>3. dFlash[0] = dUpdate.image[1]
          BY <5>1, <5>2, <2>9 DEF Dual!Holds, Size
        <5> QED BY <5>1, <5>2, <5>3, <2>3, <2>4, <2>7, <2>9, <1>2 DEF Dual!AppIsValid, Dual!Holds
      <4>2. CASE ~dCut
        <5>1. Dual!AppIsValid /\ Dual!Holds(0, dLast)
          BY <4>2 DEF DualInv, Whole
        <5> QED BY <5>1, <4>2, <2>3, <2>4, <2>7, <2>8 DEF Dual!AppIsValid, Dual!Holds
      <4> QED BY <4>1, <4>2
    <3>2. dStg'.b0 = "VALID_SD" => dUpdate.kind = "SD" /\ Dual!Holds(0, dUpdate.image)'
      BY <1>2, <1>3, <1>4, <2>3, <2>7, <2>8, <1>1 DEF Dual!Holds
    <3>3. dStg'.b1 = "VALID_BOOT" => dUpdate.kind = "BL" /\ Dual!Holds(BankChunks, dUpdate.image)'
      <4>1. dUpdate.kind = "BL" => Base = BankChunks
        BY <1>2
      <4> QED BY <4>1, <1>3, <1>4, <2>3, <2>7, <2>8, <1>1 DEF Dual!Holds
    <3> QED BY <3>1, <3>2, <3>3, <1>1, <1>2 DEF Whole, Dual!Holds
  <2>13. Dual!Holds(Base, dUpdate.image)'
    BY <1>1, <1>4, <2>3 DEF Dual!Holds
  <2>14. dUpdate.kind = "SD" => dCut'
    BY <2>6, <1>4
  <2>15. Activating(b)'
    <3>1. Len(dOps) # 4 /\ Len(dOps) # 3 /\ ~Done(dOps[1])
      BY <1>12, <2>2 DEF Done
    <3>2. ~dCut' /\ dUpdate.kind = "BL" => b # "INVALID"
      BY <2>6, <1>9
    <3>3. dUpdate.kind = "APP" => dLast' = dUpdate.image /\ Dual!Holds(0, dLast)'
      BY <2>3, <2>4, <2>9 DEF Dual!Holds
    <3> QED BY <1>1, <1>9, <3>1, <3>2, <3>3 DEF Activating
  <2> QED BY <1>7, <1>8, <2>10, <2>11, <2>12, <2>13, <2>14, <2>15 DEF DualInv
<1>13. Record(dUpdate, b) \in SettingsPage /\ Dual!ErasedRecord \in SettingsPage
  BY <1>2 DEF Record, Dual!ErasedRecord, SettingsPage
<1> QED BY <1>1, <1>6, <1>10, <1>11, <1>12, <1>13, FirstStep

\* What the end of an operation does, whatever the phase.
LEMMA OpDoneIs ==
  ASSUME DualInv, Dual!OpDone
  PROVE  /\ dOps # <<>> /\ dProg = dOps[1].n /\ dProg' = 0 /\ dMode = "dfu" /\ dSt # "IDLE"
         /\ Len(dOps) \in Nat /\ 1 \in 1 .. Len(dOps)
         /\ UNCHANGED <<dFlash, dStg, dLast, dCut, dMode, dOta, dUpdate, dReceived, dTimer>>
         /\ Size' = Size /\ Base' = Base
         /\ dStatus' \in {dStatus, "COMPLETE"}
         /\ Tail(dOps) \in Seq(Operation) /\ Len(Tail(dOps)) = Len(dOps) - 1
         /\ \A i \in 1 .. Len(dOps) - 1 : i + 1 \in 1 .. Len(dOps) /\ Tail(dOps)[i] = dOps[i + 1]
         /\ IF dOps[1].op = "clear" /\ dSt = "PREPARING"
            THEN dSt' = "RDY" /\ dOps' = Tail(dOps) \o (IF dUpdate.kind = "SD"
                                 THEN Dual!Save([b0 |-> "INVALID", b1 |-> dStg.b1]) ELSE <<>>)
            ELSE dSt' = dSt /\ dOps' = Tail(dOps)
<1>1. dOps # <<>> /\ dOps \in Seq(Operation) /\ Len(dOps) \in Nat
  BY DualFacts DEF Dual!OpDone, DualInv, DualTypes
<1>2. Head(dOps) = dOps[1] /\ Len(dOps) > 0
  BY <1>1
<1>3. /\ Tail(dOps) \in Seq(Operation) /\ Len(Tail(dOps)) = Len(dOps) - 1
      /\ \A i \in 1 .. Len(dOps) - 1 : Tail(dOps)[i] = dOps[i + 1]
  BY <1>1, HeadTailProperties
<1>4. 1 \in 1 .. Len(dOps) /\ \A i \in 1 .. Len(dOps) - 1 : i + 1 \in 1 .. Len(dOps)
  BY ONLY <1>1, <1>2
<1>5. /\ dProg = dOps[1].n /\ dProg' = 0 /\ dStatus' \in {dStatus, "COMPLETE"}
      /\ UNCHANGED <<dFlash, dStg, dLast, dCut, dMode, dOta, dUpdate, dReceived, dTimer>>
  BY <1>2 DEF Dual!OpDone, Dual!nonVolatile, Dual!image
<1>6. dSt # "IDLE"
  BY <1>1 DEF DualInv, Waiting
<1>7. dMode = "dfu"
  BY <1>6 DEF DualInv, Fits
<1>8. Tail(dOps) \o <<>> = Tail(dOps)
  BY <1>3
<1>9. IF dOps[1].op = "clear" /\ dSt = "PREPARING"
      THEN dSt' = "RDY" /\ dOps' = Tail(dOps) \o (IF dUpdate.kind = "SD"
                           THEN Dual!Save([b0 |-> "INVALID", b1 |-> dStg.b1]) ELSE <<>>)
      ELSE dSt' = dSt /\ dOps' = Tail(dOps)
  BY <1>2, <1>8 DEF Dual!OpDone
<1> QED BY <1>1, <1>3, <1>4, <1>5, <1>6, <1>7, <1>9 DEF Size, Base

LEMMA OpDoneTypes ==
  ASSUME DualInv, Dual!OpDone, dOps' \in Seq(Operation)
  PROVE  DualTypes' /\ Whole' /\ Announced' /\ Fits'
<1>1. /\ dProg' = 0 /\ dMode = "dfu" /\ dSt # "IDLE" /\ dStatus' \in {dStatus, "COMPLETE"}
      /\ UNCHANGED <<dFlash, dStg, dLast, dCut, dMode, dOta, dUpdate, dReceived, dTimer>>
      /\ dSt' \in {dSt, "RDY"} /\ (dSt' # dSt => dSt = "PREPARING") /\ BankChunks \in Nat
  BY OpDoneIs, DualFacts
<1>2. Dual!TypeOK'
  BY <1>1 DEF DualInv, DualTypes, Dual!TypeOK, Dual!Final
<1>3. dOps' # <<>> => dOps'[1].n \in Nat
  <2>1. \A s \in Seq(Operation) : s # <<>> => s[1] \in Operation
    OBVIOUS
  <2>2. \A o \in Operation : o.n \in Nat
    BY DEF Operation
  <2> QED BY <2>1, <2>2
<1>4. DualTypes'
  BY <1>1, <1>2, <1>3 DEF DualInv, DualTypes
<1> QED BY <1>1, <1>4 DEF DualInv, Whole, Dual!AppIsValid, Dual!Holds, Announced, Fits, Dual!TooLarge

LEMMA OpDonePreparing ==
  ASSUME DualInv, Dual!OpDone, dSt = "PREPARING"
  PROVE  DualInv'
<1>1. PreparingOps
  BY DEF DualInv, Preparing
<1>2. /\ dProg = dOps[1].n /\ dProg' = 0 /\ dMode = "dfu" /\ Size' = Size /\ Base' = Base
      /\ Tail(dOps) \in Seq(Operation) /\ Len(Tail(dOps)) = Len(dOps) - 1
      /\ UNCHANGED <<dFlash, dStg, dLast, dCut, dMode, dUpdate, dReceived>>
  BY OpDoneIs
<1>3. /\ Size \in Nat /\ Size > 0 /\ Base \in Nat /\ dStg.b1 \in {"ERASED", "INVALID"}
  BY <1>2, DualFacts DEF DualInv, Announced, DualTypes, Dual!TypeOK
<1>4. dOps[1].op = "clear" /\ dOps[1].n = Size /\ Len(dOps) = 1 /\ dReceived = 0
  BY <1>1 DEF PreparingOps, Dual!Clear, Size
<1>5. Tail(dOps) = <<>>
  <2>1. Len(Tail(dOps)) = 0
    BY <1>2, <1>4
  <2>2. \A s \in Seq(Operation) : Len(s) = 0 => s = <<>>
    OBVIOUS
  <2> QED BY <2>1, <2>2, <1>2
<1>6. dSt' = "RDY" /\ dOps' = IF dUpdate.kind = "SD"
                              THEN Dual!Save([b0 |-> "INVALID", b1 |-> dStg.b1]) ELSE <<>>
  <2>1. dSt' = "RDY" /\ dOps' = Tail(dOps) \o (IF dUpdate.kind = "SD"
                                 THEN Dual!Save([b0 |-> "INVALID", b1 |-> dStg.b1]) ELSE <<>>)
    BY <1>4, OpDoneIs
  <2>2. <<>> \o Dual!Save([b0 |-> "INVALID", b1 |-> dStg.b1]) = Dual!Save([b0 |-> "INVALID", b1 |-> dStg.b1])
    BY DEF Dual!Save
  <2>3. <<>> \o <<>> = <<>>
    OBVIOUS
  <2> QED BY <2>1, <2>2, <2>3, <1>5
<1>7. \A k \in Base .. Base + Size - 1 : dFlash[k] = Erased
  <2> SUFFICES ASSUME NEW k \in Base .. Base + Size - 1 PROVE dFlash[k] = Erased
    OBVIOUS
  <2>1. k - Base \in 0 .. dProg - 1 /\ Base + (k - Base) = k
    BY <1>2, <1>3, <1>4
  <2> QED BY <2>1, <1>1 DEF PreparingOps
<1>8. dUpdate.kind = "SD" => dCut
  BY <1>1, <1>2, <1>3, <1>4 DEF PreparingOps
<1> DEFINE r == [b0 |-> "INVALID", b1 |-> dStg.b1]
<1>9. r \in SettingsPage /\ Dual!ErasedRecord \in SettingsPage
  BY <1>3 DEF SettingsPage, Dual!ErasedRecord
<1>10. /\ dOps' \in Seq(Operation)
       /\ \A i \in 1 .. Len(dOps') : IsSave(dOps'[i], dUpdate.kind)
  <2>1. CASE dUpdate.kind = "SD"
    <3>1. dOps' = <<Settings(Dual!ErasedRecord), Settings(r)>>
      BY <2>1, <1>6, SaveIs
    <3>2. Settings(Dual!ErasedRecord) \in Operation /\ Settings(r) \in Operation
      BY <1>9 DEF Settings, Operation
    <3>3. IsSave(Settings(Dual!ErasedRecord), "SD") /\ IsSave(Settings(r), "SD")
      BY <1>3 DEF IsSave, Settings, Dual!ErasedRecord
    <3> DEFINE x == Settings(Dual!ErasedRecord)  y == Settings(r)
    <3>4. x \in Operation /\ y \in Operation /\ IsSave(x, "SD") /\ IsSave(y, "SD") /\ dOps' = <<x, y>>
      BY <3>1, <3>2, <3>3
    <3> HIDE DEF x, y
    <3>5. dOps' \in Seq(Operation) /\ Len(dOps') = 2 /\ dOps'[1] = x /\ dOps'[2] = y
      BY <3>4
    <3>6. \A i \in 1 .. 2 : i = 1 \/ i = 2
      OBVIOUS
    <3> QED BY <3>4, <3>5, <3>6, <2>1
  <2>2. CASE dUpdate.kind # "SD"
    <3>1. dOps' = <<>> /\ <<>> \in Seq(Operation) /\ Len(<<>>) = 0
      BY <2>2, <1>6
    <3> QED BY <3>1
  <2> QED BY <2>1, <2>2
<1>11. DualTypes' /\ Whole' /\ Announced' /\ Fits'
  BY <1>10, OpDoneTypes
<1>12. Receiving'
  <2>1. \A i \in 1 .. Len(dOps') : dOps'[i].op = "settings"
    BY <1>10 DEF IsSave
  <2>2. \A k \in Base + dReceived .. Base + Size - 1 : dFlash[k] = Erased
    BY <1>3, <1>4, <1>7
  <2> QED BY <1>2, <1>7, <1>8, <1>10, <2>1, <2>2 DEF Receiving, ReceivingOps
<1> QED BY <1>6, <1>11, <1>12 DEF DualInv, Waiting, Preparing, Activated

LEMMA OpDoneReceiving ==
  ASSUME DualInv, Dual!OpDone, dSt \in {"RDY", "RX_DATA", "VALIDATE"}
  PROVE  DualInv'
<1>1. /\ dProg' = 0 /\ dMode = "dfu" /\ Size' = Size /\ Base' = Base /\ dSt' = dSt /\ dOps' = Tail(dOps)
      /\ dOps' \in Seq(Operation) /\ Len(dOps') = Len(dOps) - 1 /\ Len(dOps) \in Nat
      /\ \A i \in 1 .. Len(dOps') : i + 1 \in 1 .. Len(dOps) /\ dOps'[i] = dOps[i + 1]
      /\ UNCHANGED <<dFlash, dStg, dLast, dCut, dMode, dUpdate, dReceived>>
  BY OpDoneIs
<1>2. ReceivingOps
  BY DEF DualInv, Receiving
<1>3. DualTypes' /\ Whole' /\ Announced' /\ Fits'
  BY <1>1, OpDoneTypes
<1>4. \A i \in 1 .. Len(dOps') : IsSave(dOps'[i], dUpdate.kind) \/ IsData(dOps'[i], Base, dReceived)
  BY <1>1, <1>2 DEF ReceivingOps
<1>5. ASSUME NEW i \in 1 .. Len(dOps'), NEW j \in 1 .. Len(dOps'), i < j
      PROVE  /\ dOps'[j].op = "settings" => dOps'[i].op = "settings"
             /\ dOps'[i].op = "data" => dOps'[i].at < dOps'[j].at
  <2>1. i + 1 \in 1 .. Len(dOps) /\ j + 1 \in 1 .. Len(dOps) /\ i + 1 < j + 1
    BY <1>1, <1>5
  <2> QED BY <2>1, <1>1, <1>2 DEF ReceivingOps
<1>6. ASSUME NEW i \in 1 .. Len(dOps'), dOps'[i].op = "data" PROVE dFlash[dOps'[i].at] = Erased
  <2>1. i + 1 \in 1 .. Len(dOps) /\ i + 1 # 1
    BY <1>1
  <2> QED BY <2>1, <1>1, <1>2, <1>6 DEF ReceivingOps
<1>7. ASSUME NEW i \in 1 .. Len(dOps'), NEW k \in Base .. Base + Size - 1, dOps'[i].op = "settings"
      PROVE  dFlash[k] = Erased
  BY <1>1, <1>2, <1>7 DEF ReceivingOps
<1>8. Receiving'
  BY <1>1, <1>2, <1>4, <1>5, <1>6, <1>7 DEF Receiving, ReceivingOps
<1> QED BY <1>1, <1>3, <1>8 DEF DualInv, Waiting, Preparing, Activated

LEMMA OpDoneActivated ==
  ASSUME DualInv, Dual!OpDone, dSt = "WAIT_4_ACTIVATE"
  PROVE  DualInv'
<1>1. /\ dProg = dOps[1].n /\ dProg' = 0 /\ dMode = "dfu" /\ Size' = Size /\ Base' = Base /\ dSt' = dSt
      /\ dOps' \in Seq(Operation) /\ Len(dOps') = Len(dOps) - 1 /\ Len(dOps) \in Nat
      /\ 1 \in 1 .. Len(dOps) /\ dOps # <<>> /\ dStatus' \in {dStatus, "COMPLETE"}
      /\ \A i \in 1 .. Len(dOps') : i + 1 \in 1 .. Len(dOps) /\ dOps'[i] = dOps[i + 1]
      /\ UNCHANGED <<dFlash, dStg, dLast, dCut, dMode, dUpdate, dReceived>>
  BY OpDoneIs
<1>2. Dual!Holds(Base, dUpdate.image) /\ (dUpdate.kind = "SD" => dCut)
  BY DEF DualInv, Activated
<1>3. DualTypes' /\ Whole' /\ Announced' /\ Fits'
  BY <1>1, OpDoneTypes
<1>4. ASSUME NotYet PROVE Activated'
  <2>1. Len(dOps) = 1
    <3>1. ~(Len(dOps) >= 2)
      <4> SUFFICES ASSUME Len(dOps) >= 2 PROVE FALSE
        OBVIOUS
      <4>1. 2 \in 1 .. Len(dOps)
        BY <1>1
      <4> QED BY <4>1, <1>4 DEF NotYet
    <3> QED BY <3>1, <1>1
  <2>2. NotYet'
    BY <2>1, <1>1 DEF NotYet
  <2> QED BY <2>2, <1>1, <1>2 DEF Activated, Dual!Holds
<1>5. ASSUME dStatus # "UPDATING", NEW b \in {"ERASED", "VALID", "INVALID"}, Activating(b)
      PROVE  Activated'
  <2>1. \A i \in 1 .. Len(dOps') : Step(dOps'[i], Len(dOps') - i, dUpdate, b)
    <3> SUFFICES ASSUME NEW i \in 1 .. Len(dOps') PROVE Step(dOps'[i], Len(dOps') - i, dUpdate, b)
      OBVIOUS
    <3>1. i + 1 \in 1 .. Len(dOps) /\ dOps'[i] = dOps[i + 1] /\ Len(dOps) - (i + 1) = Len(dOps') - i
      BY <1>1
    <3>2. Step(dOps[i + 1], Len(dOps) - (i + 1), dUpdate, b)
      BY <3>1, <1>5 DEF Activating
    <3> QED BY <3>1, <3>2
  <2>2. Step(dOps[1], Len(dOps) - 1, dUpdate, b)
    BY <1>1, <1>5 DEF Activating
  <2>3. PICK n \in Nat : n = Len(dOps')
    BY <1>1
  <2>4. Len(dOps) = n + 1 /\ Len(dOps) - 1 = n
    BY <2>3, <1>1
  <2>5. n \in 0 .. 4 /\ Step(dOps[1], n, dUpdate, b)
    <3>1. Step(dOps[1], n, dUpdate, b)
      BY <2>2, <2>4
    <3> QED BY <3>1 DEF Step
  <2>6. dOps' # <<>> => ~Done(dOps'[1])
    <3> SUFFICES ASSUME dOps' # <<>> PROVE ~Done(dOps'[1])
      OBVIOUS
    <3>1. n > 0
      BY <2>3, <1>1
    <3>2. 1 \in 1 .. Len(dOps') /\ Len(dOps') - 1 \in {0, 1, 2, 3}
      BY ONLY <2>3, <2>5, <3>1
    <3>3. Step(dOps'[1], Len(dOps') - 1, dUpdate, b)
      BY <2>1, <3>2
    <3>4. Len(dOps') - 1 = 2 => dUpdate.kind = "APP"
      <4> SUFFICES ASSUME n = 3 PROVE dUpdate.kind = "APP"
        BY <2>3, <1>1
      <4> QED BY <2>5 DEF Step
    <3>5. ASSUME NEW x \in {0, 1, 2, 3}, NEW op, Step(op, x, dUpdate, b), x = 2 => dUpdate.kind = "APP"
          PROVE  ~Done(op)
      BY <3>5 DEF Step, Done, Settings, Dual!Clear, Dual!Copy
    <3> QED BY <3>2, <3>3, <3>4, <3>5
  <2>7. ASSUME dUpdate.kind = "APP", n = 3
        PROVE  dCut
    <3>1. dOps[1] = Dual!Clear(0, Len(dUpdate.image))
      BY <2>5, <2>7 DEF Step
    <3>2. dProg > 0
      <4>1. dOps[1].n = Size /\ Size > 0
        BY <3>1, <1>1, DualFacts DEF Dual!Clear, Size
      <4> QED BY <4>1, <1>1
    <3>3. Len(dOps) = 4
      BY <2>4, <2>7
    <3> QED BY <3>2, <3>3, <2>7, <1>5 DEF Activating
  <2>8. ASSUME dUpdate.kind = "APP", n = 2
        PROVE  dLast = dUpdate.image /\ Dual!Holds(0, dLast)
    <3>1. dOps[1] = Dual!Copy(Len(dUpdate.image))
      BY <2>5, <2>8 DEF Step
    <3>2. dProg = Size
      BY <3>1, <1>1 DEF Dual!Copy, Size
    <3>3. Len(dOps) = 3
      BY <2>4, <2>8
    <3>4. dLast = dUpdate.image /\ \A k \in 1 .. dProg : dFlash[k - 1] = dUpdate.image[k]
      BY <3>2, <3>3, <2>8, <1>5 DEF Activating
    <3>5. \A k \in 1 .. Size : 0 + k - 1 = k - 1
      OBVIOUS
    <3> QED BY <3>2, <3>4, <3>5 DEF Dual!Holds, Size
  <2>9. ASSUME dUpdate.kind = "APP", n = 1
        PROVE  dLast = dUpdate.image /\ Dual!Holds(0, dLast)
    <3>1. Len(dOps) = 2
      BY <2>4, <2>9
    <3> QED BY <3>1, <2>9, <1>5 DEF Activating
  <2>10. dUpdate.kind = "APP" =>
           /\ Len(dOps') # 4 \/ ~(dProg' > 0)
           /\ Len(dOps') = 3 => dCut /\ dProg' = 0 /\ dProg' # Size
           /\ Len(dOps') \in {1, 2} => dLast = dUpdate.image /\ Dual!Holds(0, dLast)
    <3>1. Size > 0
      BY <1>1, DualFacts
    <3> QED BY <3>1, <2>3, <2>7, <2>8, <2>9, <1>1
  <2>11. ~dCut /\ dUpdate.kind = "BL" => b # "INVALID"
    BY <1>5 DEF Activating
  <2>12. \A k \in 1 .. 0 : dFlash[k - 1] = dUpdate.image[k]
    OBVIOUS
  <2>13. Activating(b)'
    BY <1>1, <2>1, <2>6, <2>10, <2>11, <2>12 DEF Activating, Dual!Holds
  <2> QED BY <2>13, <1>1, <1>2, <1>5 DEF Activated, Dual!Holds
<1>6. Activated'
  BY <1>4, <1>5 DEF DualInv, Activated
<1> QED BY <1>1, <1>3, <1>6 DEF DualInv, Waiting, Preparing, Receiving

LEMMA DualStep == DualInv /\ Dual!Next => DualInv'
<1> SUFFICES ASSUME DualInv, Dual!Next PROVE DualInv'
  OBVIOUS
<1>1. CASE Dual!PowerLoss \/ Dual!Leave
  BY <1>1, ResetSound DEF Dual!PowerLoss, Dual!Leave
<1>2. CASE Dual!Boot
  BY <1>2, BootSound
<1>3. CASE Dual!FlashStep
  <2>1. dSt \in {"IDLE", "PREPARING", "RDY", "RX_DATA", "VALIDATE", "WAIT_4_ACTIVATE"} /\ dSt # "IDLE"
    BY <1>3, FlashStepIs DEF DualInv, DualTypes, Dual!TypeOK
  <2> QED BY <2>1, <1>3, FlashStepPreparing, FlashStepReceiving, FlashStepActivated
<1>4. CASE Dual!OpDone
  <2>1. dSt \in {"IDLE", "PREPARING", "RDY", "RX_DATA", "VALIDATE", "WAIT_4_ACTIVATE"} /\ dSt # "IDLE"
    BY <1>4, OpDoneIs DEF DualInv, DualTypes, Dual!TypeOK
  <2> QED BY <2>1, <1>4, OpDonePreparing, OpDoneReceiving, OpDoneActivated
<1>5. CASE \E u \in Updates : Dual!HostStart(u)
  BY <1>5, HostStartSound
<1>6. CASE Dual!HostInit
  BY <1>6, HostInitSound
<1>7. CASE \E v \in Word : Dual!HostData(v)
  BY <1>7, HostDataSound
<1>8. CASE Dual!HostValidate
  BY <1>8, HostValidateSound
<1>9. CASE Dual!HostActivate
  BY <1>9, HostActivateSound
<1>10. CASE Dual!HostReset \/ Dual!Expire \/ Dual!TimeoutHandler
  <2>1. /\ UNCHANGED <<Dual!nonVolatile, dMode, dOta, dSt, dUpdate, dReceived, dOps, dProg>>
        /\ dStatus' \in {dStatus, "RESET", "TIMEOUT"} /\ dTimer' \in {dTimer, "due", "off"}
    BY <1>10 DEF Dual!HostReset, Dual!Expire, Dual!TimeoutHandler, Dual!nonVolatile, Dual!image
  <2>2. Dual!TypeOK'
    BY <2>1 DEF DualInv, DualTypes, Dual!TypeOK, Dual!Final, Dual!nonVolatile
  <2> QED BY <2>1, <2>2, Stays
<1>11. CASE Dual!MbrFault
  BY <1>11, DualStutters DEF Dual!MbrFault
<1> QED BY <1>1, <1>2, <1>3, <1>4, <1>5, <1>6, <1>7, <1>8, <1>9, <1>10, <1>11 DEF Dual!Next

LEMMA DualAlwaysInv == Dual!Spec => []DualInv
<1>1. DualInv /\ [Dual!Next]_(Dual!vars) => DualInv'
  BY DualStep, DualStutters
<1> QED BY <1>1, DualStarts, PTL DEF Dual!Spec

-----------------------------------------------------------------------------
(* The two ends of the SLIP line.                                          *)

\* The places of the encoder in its frame, and of the decoder in the frame of
\* which the encoder has put the first bytes.
Encodes ==
  /\ lTx # <<>> /\ lIndex = Len(lTx) => lSend = "default"
  /\ lSend = "encoded" => lIndex < Len(lTx) /\ lTx[lIndex + 1] \in Line!Special
  /\ lSend = "end" => lIndex = 0
Follows == lGot = SubSeq(lTx, 1, lIndex) /\ lHandle = IF lSend = "encoded" THEN "esc" ELSE "default"

\* After a missed frame the decoder is at the beginning of a frame when the
\* encoder is, and follows it, or has dropped the rest of it with an overflow.
LineInStep ==
  lMissed > 0 /\ (lTx = <<>> \/ ~lDamaged) =>
    IF lTx = <<>> \/ lSend = "end" THEN lGot = <<>> /\ lHandle # "esc"
    ELSE Follows \/ (lBuffer = "ack" /\ lHandle = "wait_start")
LineInv == Line!TypeOK /\ Line!InBounds /\ Encodes /\ (lHandle = "wait_start" => lGot = <<>>) /\ LineInStep

LEMMA LineFacts ==
  ASSUME LineInv
  PROVE  /\ BufSize \in Nat /\ AckBufSize \in Nat /\ MaxDamage \in Nat /\ Line!Size(lBuffer) \in Nat
         /\ lTx \in Seq(Line!Byte) /\ Len(lTx) \in Nat /\ lIndex \in 0 .. Len(lTx) /\ (lTx = <<>> <=> Len(lTx) = 0)
         /\ \A i \in 1 .. Len(lTx) : lTx[i] \in Line!Byte
         /\ lGot \in Seq(Line!Byte) /\ Len(lGot) \in Nat /\ lMissed \in 0 .. 2 /\ lDamage \in Nat
<1>1. BufSize \in Nat /\ AckBufSize \in Nat /\ MaxDamage \in Nat /\ Line!Frames \subseteq Seq(Line!Byte)
  BY LineAssumed DEF Line!SlipAssumption
<1>2. lTx \in Seq(Line!Byte)
  <2>1. <<>> \in Seq(Line!Byte)
    OBVIOUS
  <2> QED BY <1>1, <2>1 DEF LineInv, Line!TypeOK
<1>3. Len(lTx) \in Nat /\ (lTx = <<>> <=> Len(lTx) = 0) /\ \A i \in 1 .. Len(lTx) : lTx[i] \in Line!Byte
  BY <1>2, EmptySeq
<1>4. /\ lIndex \in 0 .. Len(lTx) /\ lGot \in Seq(Line!Byte) /\ Len(lGot) \in Nat /\ lMissed \in 0 .. 2
      /\ lDamage \in 0 .. MaxDamage /\ lBuffer \in {"pool", "ack"}
  BY DEF LineInv, Line!TypeOK
<1>5. lDamage \in Nat
  BY <1>1, <1>4
<1> QED BY <1>1, <1>2, <1>3, <1>4, <1>5 DEF Line!Size

\* A byte put, and where the encoder is then.
LEMMA SentIs ==
  ASSUME LineInv, lTx # <<>>, Line!Sent
  PROVE  /\ Line!Put \in Line!Byte /\ (Line!LastByte => Line!Put = "END")
         /\ Encodes' /\ lTx' \in {lTx, <<>>} /\ lIndex' \in 0 .. Len(lTx')
         /\ lSend' \in {"default", "encoded"} /\ (lTx' = <<>> <=> Line!LastByte)
         /\ ~Line!LastByte =>
              /\ lTx' = lTx
              /\ CASE lSend = "end" -> Line!Put = "END" /\ lIndex' = lIndex /\ lSend' = "default"
                   [] lSend = "default" /\ lTx[lIndex + 1] \in Line!Special ->
                        Line!Put = "ESC" /\ lIndex' = lIndex /\ lSend' = "encoded"
                   [] lSend = "default" /\ lTx[lIndex + 1] \notin Line!Special ->
                        Line!Put = lTx[lIndex + 1] /\ lIndex' = lIndex + 1 /\ lSend' = "default"
                   [] lSend = "encoded" ->
                        /\ Line!Put = (IF lTx[lIndex + 1] = "END" THEN "ESC_END" ELSE "ESC_ESC")
                        /\ lIndex' = lIndex + 1 /\ lSend' = "default"
<1>1. /\ Len(lTx) \in Nat /\ lIndex \in 0 .. Len(lTx) /\ Len(lTx) # 0
      /\ \A i \in 1 .. Len(lTx) : lTx[i] \in Line!Byte
  BY LineFacts
<1>2. /\ lSend \in {"end", "default", "encoded"} /\ Encodes
  BY DEF LineInv, Line!TypeOK
<1>3. CASE Line!LastByte
  <2>1. Line!Sender = "end" /\ Line!Put = "END" /\ lTx' = <<>> /\ lIndex' = 0 /\ lSend' = "default"
    BY <1>3 DEF Line!LastByte, Line!Sender, Line!Put, Line!Sent
  <2>2. Len(lTx') = 0
    BY <2>1
  <2> QED BY <1>3, <2>1, <2>2 DEF Encodes, Line!Byte
<1>4. CASE ~Line!LastByte
  <2>1. lIndex < Len(lTx) /\ lIndex + 1 \in 1 .. Len(lTx) /\ lTx[lIndex + 1] \in Line!Byte /\ lTx' = lTx
    BY <1>1, <1>4 DEF Line!LastByte, Line!Sent
  <2>2. Line!Sender = IF lSend = "default" /\ lTx[lIndex + 1] \in Line!Special THEN "esc" ELSE lSend
    BY <1>4 DEF Line!Sender, Line!LastByte
  <2>3. CASE lSend = "end"
    <3>1. Line!Put = "END" /\ lIndex' = lIndex /\ lSend' = "default"
      BY <1>4, <2>1, <2>2, <2>3 DEF Line!Put, Line!Sent
    <3> QED BY <1>1, <1>4, <2>1, <2>3, <3>1 DEF Encodes, Line!Byte, Line!LastByte
  <2>4. CASE lSend = "default" /\ lTx[lIndex + 1] \in Line!Special
    <3>1. Line!Put = "ESC" /\ lIndex' = lIndex /\ lSend' = "encoded"
      BY <1>4, <2>1, <2>2, <2>4 DEF Line!Put, Line!Sent
    <3> QED BY <1>1, <1>4, <2>1, <2>4, <3>1 DEF Encodes, Line!Byte, Line!LastByte
  <2>5. CASE lSend = "default" /\ lTx[lIndex + 1] \notin Line!Special
    <3>1. Line!Put = lTx[lIndex + 1] /\ lIndex' = lIndex + 1 /\ lSend' = "default"
      BY <1>4, <2>1, <2>2, <2>5 DEF Line!Put, Line!Sent
    <3> QED BY <1>1, <1>4, <2>1, <2>5, <3>1 DEF Encodes
  <2>6. CASE lSend = "encoded"
    <3>1. /\ Line!Put = (IF lTx[lIndex + 1] = "END" THEN "ESC_END" ELSE "ESC_ESC")
          /\ lIndex' = lIndex + 1 /\ lSend' = "default"
      BY <1>4, <2>1, <2>2, <2>6 DEF Line!Put, Line!Sent
    <3> QED BY <1>1, <1>4, <2>1, <2>6, <3>1 DEF Encodes, Line!Byte
  <2> QED BY <1>2, <2>3, <2>4, <2>5, <2>6
<1> QED BY <1>3, <1>4

\* A byte received, whichever it is, and an END.
LEMMA DecodeIs ==
  ASSUME LineInv, NEW byte \in Line!Byte, Line!Decode(byte)
  PROVE  /\ lHandle' \in {"wait_start", "default", "esc"} /\ lBuffer' \in {"pool", "ack"}
         /\ lGot' \in Seq(Line!Byte) /\ Line!InBounds' /\ (lHandle' = "wait_start" => lGot' = <<>>)
         /\ byte = "END" => lGot' = <<>> /\ lHandle' # "esc"
         /\ Line!Overflowed => lBuffer' = "ack" /\ lHandle' = "wait_start"
         /\ lHandle = "wait_start" /\ byte # "END" => lHandle' = "wait_start" /\ (lBuffer' = lBuffer \/ lBuffer' = "ack")
<1>1. /\ BufSize \in Nat /\ AckBufSize \in Nat /\ lGot \in Seq(Line!Byte) /\ Len(lGot) \in Nat
      /\ Line!Size(lBuffer) \in Nat /\ Len(lGot) <= Line!Size(lBuffer)
  BY LineFacts DEF LineInv, Line!InBounds
<1>2. /\ lHandle \in {"wait_start", "default", "esc"} /\ lBuffer \in {"pool", "ack"}
      /\ (lHandle = "wait_start" => lGot = <<>>)
  BY DEF LineInv, Line!TypeOK
<1>3. <<>> \in Seq(Line!Byte) /\ Len(<<>>) = 0 /\ \A b : Line!Size(b) >= 0
  BY <1>1 DEF Line!Size
<1>4. ASSUME NEW b \in Line!Byte, Line!Store(b), ~Line!Overflowed
      PROVE  /\ lHandle' = "default" /\ lBuffer' = lBuffer /\ lGot' \in Seq(Line!Byte) /\ Line!InBounds'
  <2>1. lGot' \in Seq(Line!Byte) /\ Len(lGot') = Len(lGot) + 1 /\ lHandle' = "default" /\ lBuffer' = lBuffer
    BY <1>1, <1>4 DEF Line!Store
  <2>2. Len(lGot) < Line!Size(lBuffer)
    BY <1>1, <1>4 DEF Line!Overflowed
  <2> QED BY <1>1, <2>1, <2>2 DEF Line!InBounds, Line!Size
<1>5. ASSUME lGot' = <<>> PROVE lGot' \in Seq(Line!Byte) /\ Line!InBounds'
  BY <1>3, <1>5 DEF Line!InBounds, Line!Size
<1>6. ASSUME UNCHANGED <<lBuffer, lGot>> PROVE lGot' \in Seq(Line!Byte) /\ Line!InBounds'
  BY <1>1, <1>6 DEF Line!InBounds, Line!Size
<1>7. CASE Line!Overflowed
  BY <1>5, <1>7 DEF Line!Decode, Line!Register
<1>8. CASE ~Line!Overflowed /\ lHandle = "wait_start"
  BY <1>2, <1>6, <1>8 DEF Line!Decode
<1>9. CASE ~Line!Overflowed /\ lHandle = "default"
  <2>1. CASE byte = "END"
    <3>1. Line!SlipEnd
      BY <1>9, <2>1 DEF Line!Decode
    <3> QED BY <1>2, <1>5, <1>6, <1>9, <2>1, <3>1 DEF Line!SlipEnd, Line!Register
  <2>2. CASE byte = "ESC"
    <3>1. lHandle' = "esc" /\ UNCHANGED <<lBuffer, lGot>>
      BY <1>9, <2>2 DEF Line!Decode
    <3> QED BY <1>2, <1>6, <1>9, <2>2, <3>1
  <2>3. CASE byte \notin {"END", "ESC"}
    <3>1. Line!Store(byte)
      BY <1>9, <2>3 DEF Line!Decode
    <3> QED BY <1>2, <1>4, <1>9, <2>3, <3>1
  <2> QED BY <2>1, <2>2, <2>3
<1>10. CASE ~Line!Overflowed /\ lHandle = "esc"
  <2>1. CASE byte = "END"
    <3>1. IF lGot = <<>> THEN Line!SlipEnd ELSE Line!SlipEndEsc
      BY <1>10, <2>1 DEF Line!Decode
    <3> QED BY <1>2, <1>5, <1>6, <1>10, <2>1, <3>1 DEF Line!SlipEnd, Line!SlipEndEsc, Line!Register
  <2>2. CASE byte # "END"
    <3>1. \E b \in Line!Byte : Line!Store(b)
      BY <1>10, <2>2 DEF Line!Decode, Line!Byte
    <3> QED BY <1>2, <1>4, <1>10, <2>2, <3>1
  <2> QED BY <2>1, <2>2
<1> QED BY <1>2, <1>7, <1>8, <1>9, <1>10

\* Whole frames are followed.
LEMMA ArriveFollows ==
  ASSUME LineInv, lTx # <<>>, Line!Sent, Line!Decode(Line!Put), ~Line!LastByte, LineInStep, lMissed > 0, ~lDamaged
  PROVE  \/ lGot' = SubSeq(lTx', 1, lIndex') /\ lHandle' = IF lSend' = "encoded" THEN "esc" ELSE "default"
         \/ lBuffer' = "ack" /\ lHandle' = "wait_start"
<1>1. /\ Len(lTx) \in Nat /\ lIndex \in 0 .. Len(lTx) /\ lTx \in Seq(Line!Byte) /\ Len(lTx) # 0
      /\ \A i \in 1 .. Len(lTx) : lTx[i] \in Line!Byte
  BY LineFacts
<1>2. lSend \in {"end", "default", "encoded"} /\ Encodes /\ lIndex < Len(lTx)
  BY <1>1 DEF LineInv, Line!TypeOK, Line!LastByte
<1>3. /\ lTx' = lTx
      /\ CASE lSend = "end" -> Line!Put = "END" /\ lIndex' = lIndex /\ lSend' = "default"
           [] lSend = "default" /\ lTx[lIndex + 1] \in Line!Special ->
                Line!Put = "ESC" /\ lIndex' = lIndex /\ lSend' = "encoded"
           [] lSend = "default" /\ lTx[lIndex + 1] \notin Line!Special ->
                Line!Put = lTx[lIndex + 1] /\ lIndex' = lIndex + 1 /\ lSend' = "default"
           [] lSend = "encoded" ->
                /\ Line!Put = (IF lTx[lIndex + 1] = "END" THEN "ESC_END" ELSE "ESC_ESC")
                /\ lIndex' = lIndex + 1 /\ lSend' = "default"
  BY SentIs
<1>4. CASE Line!Overflowed
  BY <1>4 DEF Line!Decode, Line!Register
<1>5. SubSeq(lTx, 1, 0) = <<>> /\ SubSeq(lTx, 1, lIndex + 1) = Append(SubSeq(lTx, 1, lIndex), lTx[lIndex + 1])
  <2>1. SubSeq(lTx, 1, 0) = <<>>
    OBVIOUS
  <2>2. SubSeq(lTx, 1, lIndex) \in Seq(Line!Byte) /\ Len(SubSeq(lTx, 1, lIndex)) = lIndex
        /\ \A i \in 1 .. lIndex : SubSeq(lTx, 1, lIndex)[i] = lTx[i]
    BY <1>1
  <2>3. SubSeq(lTx, 1, lIndex + 1) \in Seq(Line!Byte) /\ Len(SubSeq(lTx, 1, lIndex + 1)) = lIndex + 1
        /\ \A i \in 1 .. lIndex + 1 : SubSeq(lTx, 1, lIndex + 1)[i] = lTx[i]
    BY <1>1, <1>2
  <2>4. /\ Append(SubSeq(lTx, 1, lIndex), lTx[lIndex + 1]) \in Seq(Line!Byte)
        /\ Len(Append(SubSeq(lTx, 1, lIndex), lTx[lIndex + 1])) = lIndex + 1
        /\ \A i \in 1 .. lIndex : Append(SubSeq(lTx, 1, lIndex), lTx[lIndex + 1])[i] = lTx[i]
        /\ Append(SubSeq(lTx, 1, lIndex), lTx[lIndex + 1])[lIndex + 1] = lTx[lIndex + 1]
    <3>1. lTx[lIndex + 1] \in Line!Byte
      BY <1>1, <1>2
    <3> QED BY <3>1, <2>2, AppendProperties
  <2>5. \A i \in 1 .. lIndex + 1 : i \in 1 .. lIndex \/ i = lIndex + 1
    BY <1>1
  <2> QED BY <2>1, <2>3, <2>4, <2>5, SeqEqual
<1>6. CASE ~Line!Overflowed /\ lSend = "end"
  <2>1. lGot = <<>> /\ lHandle \in {"wait_start", "default"} /\ lIndex = 0
    BY <1>2, <1>6 DEF LineInStep, Encodes, LineInv, Line!TypeOK
  <2>2. Line!Put = "END" /\ lIndex' = 0 /\ lSend' = "default"
    BY <1>3, <1>6, <2>1
  <2>3. lGot' = <<>> /\ lHandle' = "default"
    BY <1>6, <2>1, <2>2 DEF Line!Decode, Line!SlipEnd
  <2> QED BY <1>3, <1>5, <2>2, <2>3
<1>7. CASE ~Line!Overflowed /\ lSend # "end" /\ lBuffer = "ack" /\ lHandle = "wait_start"
  <2>1. Line!Put # "END"
    <3>1. lTx[lIndex + 1] \in Line!Byte
      BY <1>1, <1>2
    <3> QED BY <1>2, <1>3, <1>7, <3>1 DEF Line!Byte, Line!Special
  <2> QED BY <1>7, <2>1 DEF Line!Decode
<1>8. CASE ~Line!Overflowed /\ lSend = "default" /\ lGot = SubSeq(lTx, 1, lIndex) /\ lHandle = "default"
  <2>1. CASE lTx[lIndex + 1] \in Line!Special
    <3>1. Line!Put = "ESC" /\ lIndex' = lIndex /\ lSend' = "encoded"
      BY <1>3, <1>8, <2>1
    <3>2. lHandle' = "esc" /\ lGot' = lGot
      BY <1>8, <3>1 DEF Line!Decode
    <3> QED BY <1>3, <1>8, <3>1, <3>2
  <2>2. CASE lTx[lIndex + 1] \notin Line!Special
    <3>1. Line!Put = lTx[lIndex + 1] /\ lIndex' = lIndex + 1 /\ lSend' = "default" /\ Line!Put \notin Line!Special
      BY <1>3, <1>8, <2>2
    <3>2. Line!Store(Line!Put)
      BY <1>8, <3>1 DEF Line!Decode, Line!Special
    <3>3. lHandle' = "default" /\ lGot' = Append(lGot, Line!Put)
      BY <3>2 DEF Line!Store
    <3> QED BY <1>3, <1>5, <1>8, <3>1, <3>3
  <2> QED BY <2>1, <2>2
<1>9. CASE ~Line!Overflowed /\ lSend = "encoded" /\ lGot = SubSeq(lTx, 1, lIndex) /\ lHandle = "esc"
  <2>1. /\ lTx[lIndex + 1] \in {"END", "ESC"} /\ lIndex' = lIndex + 1 /\ lSend' = "default"
        /\ Line!Put = (IF lTx[lIndex + 1] = "END" THEN "ESC_END" ELSE "ESC_ESC")
    BY <1>2, <1>3, <1>9 DEF Encodes, Line!Special
  <2>2. Line!Store(lTx[lIndex + 1])
    BY <1>9, <2>1 DEF Line!Decode
  <2>3. lHandle' = "default" /\ lGot' = Append(lGot, lTx[lIndex + 1])
    BY <2>2 DEF Line!Store
  <2> QED BY <1>3, <1>5, <1>9, <2>1, <2>3
<1>10. lSend = "end" \/ Follows \/ (lBuffer = "ack" /\ lHandle = "wait_start")
  BY DEF LineInStep
<1> QED BY <1>2, <1>4, <1>6, <1>7, <1>8, <1>9, <1>10 DEF Follows

\* A byte of a whole frame.
LEMMA ArriveSound ==
  ASSUME LineInv, Line!Arrive
  PROVE  LineInv' /\ (lMissed' > lMissed /\ lMissed > 0 => "ack" \in {lBuffer, lBuffer'})
<1>1. /\ lTx # <<>> /\ Line!Sent /\ Line!Decode(Line!Put) /\ Line!Judge(~lDamaged) /\ UNCHANGED <<lDamage, lDamaged>>
  BY DEF Line!Arrive
<1>2. /\ Line!Put \in Line!Byte /\ (Line!LastByte => Line!Put = "END")
      /\ Encodes' /\ lTx' \in {lTx, <<>>} /\ lIndex' \in 0 .. Len(lTx')
      /\ lSend' \in {"default", "encoded"} /\ (lTx' = <<>> <=> Line!LastByte)
  BY <1>1, SentIs
<1>3. /\ lHandle' \in {"wait_start", "default", "esc"} /\ lBuffer' \in {"pool", "ack"}
      /\ lGot' \in Seq(Line!Byte) /\ Line!InBounds' /\ (lHandle' = "wait_start" => lGot' = <<>>)
      /\ (Line!Put = "END" => lGot' = <<>> /\ lHandle' # "esc")
      /\ (Line!Overflowed => lBuffer' = "ack" /\ lHandle' = "wait_start")
  BY <1>1, <1>2, DecodeIs
<1>4. lMissed' \in 0 .. 2 /\ (~Line!LastByte => lMissed' = lMissed)
      /\ (lMissed' > lMissed => Line!LastByte /\ ~lDamaged /\ ~Line!Received)
  <2>1. lMissed \in 0 .. 2
    BY LineFacts
  <2> QED BY <1>1, <2>1 DEF Line!Judge
<1>5. Line!TypeOK'
  BY <1>1, <1>2, <1>3, <1>4 DEF LineInv, Line!TypeOK
<1>6. LineInStep'
  <2>1. CASE Line!LastByte
    BY <1>2, <1>3, <2>1 DEF LineInStep
  <2>2. CASE ~Line!LastByte /\ lMissed > 0 /\ ~lDamaged
    <3>1. LineInStep
      BY DEF LineInv
    <3>2. \/ lGot' = SubSeq(lTx', 1, lIndex') /\ lHandle' = IF lSend' = "encoded" THEN "esc" ELSE "default"
          \/ lBuffer' = "ack" /\ lHandle' = "wait_start"
      BY <1>1, <2>2, <3>1, ArriveFollows
    <3>3. lTx' # <<>> /\ lSend' # "end"
      BY <1>2, <2>2
    <3> QED BY <3>2, <3>3 DEF LineInStep, Follows
  <2>3. CASE ~Line!LastByte /\ ~(lMissed > 0 /\ ~lDamaged)
    <3>1. lMissed' = lMissed /\ lDamaged' = lDamaged /\ lTx' # <<>> /\ lDamaged \in BOOLEAN
      BY <1>1, <1>2, <1>4, <2>3 DEF LineInv, Line!TypeOK
    <3> QED BY <2>3, <3>1 DEF LineInStep
  <2> QED BY <2>1, <2>2, <2>3
<1>7. ASSUME lMissed' > lMissed, lMissed > 0 PROVE "ack" \in {lBuffer, lBuffer'}
  <2>1. Line!LastByte /\ ~lDamaged /\ ~Line!Received /\ Len(lTx) \in Nat /\ lTx \in Seq(Line!Byte) /\ lIndex = Len(lTx)
    BY <1>4, <1>7, LineFacts DEF Line!LastByte
  <2>2. lSend = "default"
    BY <1>1, <2>1 DEF LineInv, Encodes
  <2>3. Follows \/ lBuffer = "ack"
    BY <1>1, <1>7, <2>1, <2>2 DEF LineInv, LineInStep
  <2>4. ASSUME Follows PROVE Line!Overflowed
    <3>1. lGot = lTx /\ lHandle = "default"
      BY <2>1, <2>2, <2>4 DEF Follows
    <3> QED BY <2>1, <3>1 DEF Line!Received
  <2> QED BY <1>3, <2>3, <2>4
<1> QED BY <1>2, <1>3, <1>5, <1>6, <1>7 DEF LineInv

\* A byte that is lost or garbled.
LEMMA DamageSound ==
  ASSUME LineInv, Line!Lose \/ Line!Garble
  PROVE  LineInv' /\ lMissed' <= lMissed
<1>1. /\ lTx # <<>> /\ Line!Sent /\ Line!Damage /\ Line!Judge(FALSE)
      /\ (UNCHANGED Line!decoder) \/ (\E byte \in Line!Byte \ {Line!Put} : Line!Decode(byte))
  BY DEF Line!Lose, Line!Garble
<1>2. /\ Encodes' /\ lTx' \in {lTx, <<>>} /\ lIndex' \in 0 .. Len(lTx')
      /\ lSend' \in {"default", "encoded"} /\ (lTx' = <<>> <=> Line!LastByte)
  BY <1>1, SentIs
<1>3. /\ lHandle' \in {"wait_start", "default", "esc"} /\ lBuffer' \in {"pool", "ack"}
      /\ lGot' \in Seq(Line!Byte) /\ Line!InBounds' /\ (lHandle' = "wait_start" => lGot' = <<>>)
  <2>1. CASE UNCHANGED Line!decoder
    BY <2>1 DEF LineInv, Line!TypeOK, Line!InBounds, Line!decoder, Line!Size
  <2>2. ASSUME NEW byte \in Line!Byte \ {Line!Put}, Line!Decode(byte)
        PROVE  /\ lHandle' \in {"wait_start", "default", "esc"} /\ lBuffer' \in {"pool", "ack"}
               /\ lGot' \in Seq(Line!Byte) /\ Line!InBounds' /\ (lHandle' = "wait_start" => lGot' = <<>>)
    BY <2>2, DecodeIs
  <2> QED BY <1>1, <2>1, <2>2
<1>4. /\ lMissed \in 0 .. 2 /\ lMissed' = (IF Line!LastByte THEN 0 ELSE lMissed)
      /\ MaxDamage \in Nat /\ lDamage \in Nat /\ lDamage' \in 0 .. MaxDamage /\ lDamaged' = TRUE
  <2>1. lMissed \in 0 .. 2 /\ MaxDamage \in Nat /\ lDamage \in Nat
    BY LineFacts
  <2>2. lMissed' = IF Line!LastByte THEN 0 ELSE lMissed
    BY <1>1 DEF Line!Judge
  <2>3. lDamage < MaxDamage /\ lDamage' = lDamage + 1 /\ lDamaged' = TRUE
    BY <1>1 DEF Line!Damage
  <2> QED BY <2>1, <2>2, <2>3
<1>5. Line!TypeOK'
  BY <1>2, <1>3, <1>4 DEF LineInv, Line!TypeOK
<1>6. LineInStep'
  BY <1>2, <1>4 DEF LineInStep
<1> QED BY <1>2, <1>3, <1>4, <1>5, <1>6 DEF LineInv

LEMMA LineStep ==
  ASSUME LineInv, [Line!Next]_(Line!vars)
  PROVE  LineInv' /\ (lMissed' > lMissed /\ lMissed > 0 => "ack" \in {lBuffer, lBuffer'})
<1>0. lMissed \in 0 .. 2
  BY LineFacts
<1>1. CASE UNCHANGED Line!vars
  <2>1. LineInv' /\ lMissed' = lMissed
    BY <1>1 DEF Line!vars, Line!encoder, Line!decoder, LineInv, Line!TypeOK, Line!InBounds, Line!Size, Encodes, LineInStep, Follows
  <2> QED BY <1>0, <2>1
<1>2. ASSUME NEW f \in Line!Frames, Line!Write(f)
      PROVE  LineInv' /\ (lMissed' > lMissed /\ lMissed > 0 => "ack" \in {lBuffer, lBuffer'})
  <2>1. /\ lTx = <<>> /\ lTx' = f /\ lIndex' = 0 /\ lSend' = "end" /\ lDamaged' = FALSE
        /\ UNCHANGED <<lHandle, lBuffer, lGot, lDamage, lMissed>>
    BY <1>2 DEF Line!Write, Line!decoder
  <2>2. f \in Seq(Line!Byte) /\ Len(f) \in Nat /\ (f # <<>> => Len(f) # 0)
    <3>1. f \in Seq(Line!Byte)
      BY LineAssumed DEF Line!SlipAssumption
    <3> QED BY <3>1, EmptySeq
  <2>3. Line!TypeOK'
    <3>1. lTx' \in Line!Frames \cup {<<>>} /\ lIndex' \in 0 .. Len(lTx')
      BY <1>2, <2>1, <2>2
    <3>2. /\ lHandle \in {"wait_start", "default", "esc"} /\ lBuffer \in {"pool", "ack"}
          /\ lGot \in Seq(Line!Byte) /\ lDamage \in 0 .. MaxDamage /\ lMissed \in 0 .. 2
      BY DEF LineInv, Line!TypeOK
    <3> QED BY <2>1, <3>1, <3>2 DEF Line!TypeOK
  <2>4. Line!InBounds'
    BY <2>1 DEF LineInv, Line!InBounds, Line!Size
  <2>5. Encodes'
    BY <2>1, <2>2 DEF Encodes
  <2>6. LineInStep'
    BY <2>1 DEF LineInv, LineInStep
  <2> QED BY <1>0, <2>1, <2>3, <2>4, <2>5, <2>6 DEF LineInv
<1>3. CASE Line!Arrive
  BY <1>3, ArriveSound
<1>4. CASE Line!Lose \/ Line!Garble
  <2>1. LineInv' /\ lMissed' <= lMissed
    BY <1>4, DamageSound
  <2>2. lMissed' \in 0 .. 2
    BY <2>1 DEF LineInv, Line!TypeOK
  <2> QED BY <1>0, <2>1, <2>2
<1> QED BY <1>1, <1>2, <1>3, <1>4 DEF Line!Next

LEMMA LineStarts == Line!Init => LineInv
<1> SUFFICES ASSUME Line!Init PROVE LineInv
  OBVIOUS
<1>1. BufSize \in Nat /\ AckBufSize \in Nat /\ MaxDamage \in Nat
  BY LineAssumed DEF Line!SlipAssumption
<1>2. <<>> \in Seq(Line!Byte) /\ Len(<<>>) = 0
  OBVIOUS
<1>3. Line!TypeOK
  <2>1. lTx \in Line!Frames \cup {<<>>} /\ lIndex \in 0 .. Len(lTx) /\ lGot \in Seq(Line!Byte)
    BY <1>2 DEF Line!Init
  <2>2. lDamage \in 0 .. MaxDamage /\ lMissed \in 0 .. 2
    BY <1>1 DEF Line!Init
  <2> QED BY <2>1, <2>2 DEF Line!Init, Line!TypeOK
<1>4. Line!InBounds /\ Encodes /\ LineInStep
  BY <1>1, <1>2 DEF Line!Init, Line!InBounds, Line!Size, Encodes, LineInStep
<1> QED BY <1>3, <1>4 DEF LineInv, Line!Init

LEMMA LineAlwaysInv == Line!Spec => []LineInv
<1> QED BY LineStarts, LineStep, PTL DEF Line!Spec

-----------------------------------------------------------------------------
(* The decision at each boot.                                              *)

Phase == {"off", "boot", "delay", "dfu", "app"}
Asks == [what : Boot!Magic \cup {"power", "tap", "reset"}, in : Phase]
SecondTap == bAsked = [what |-> "tap", in |-> "delay"]

\* What the three registers say of the request and of the boot before.
BootInv ==
  /\ Boot!TypeOK /\ bAsked \in Asks
  /\ bPhase = "boot" =>
       /\ bGpregret = IF bAsked.what \in Boot!Magic THEN bAsked.what ELSE "zero"
       /\ bDbl = "MAGIC" <=> SecondTap
       /\ SecondTap => bPin
       /\ bApp.valid => IF bAsked.in = "dfu" THEN bDbl = Boot!DblMark ELSE bDbl # "APP"
  /\ bPhase \in {"delay", "dfu", "app"} => bGpregret = "zero"
  /\ bPhase = "delay" => /\ bDbl = "MAGIC" /\ bApp.valid /\ ~bApp.tap /\ ~bButton /\ ~SecondTap
                         /\ bAsked.what \notin Boot!Magic
  /\ bPhase = "dfu" => bDbl # "MAGIC" /\ (bApp.valid => bDbl = Boot!DblMark)
  /\ bPhase = "app" => bDbl = "zero"

LEMMA BootTypes ==
  ASSUME BootInv
  PROVE  /\ bPhase \in Phase /\ bGpregret \in Boot!Magic \cup {"zero"}
         /\ bDbl \in {"junk", "zero", "MAGIC", "APP"}
         /\ bPin \in BOOLEAN /\ bButton \in BOOLEAN /\ bLink \in BOOLEAN /\ bWasConn \in BOOLEAN /\ bTimer \in BOOLEAN
         /\ bApp = [valid |-> bApp.valid, tap |-> bApp.tap] /\ bApp.valid \in BOOLEAN /\ bApp.tap \in BOOLEAN
         /\ bAsked = [what |-> bAsked.what, in |-> bAsked.in]
         /\ bAsked.what \in Boot!Magic \cup {"power", "tap", "reset"} /\ bAsked.in \in Phase
  BY DEF BootInv, Boot!TypeOK, Boot!App, Asks, Phase

\* A reset, for which the registers agree with what is asked.
LEMMA BootRestarted ==
  ASSUME BootInv, NEW what \in Boot!Magic \cup {"power", "tap", "reset"}, Boot!Restart(what),
         bApp' \in Boot!App, bPin' \in BOOLEAN, bDbl' \in {"junk", "zero", "MAGIC", "APP"},
         bGpregret' = (IF what \in Boot!Magic THEN what ELSE "zero"),
         bDbl' = "MAGIC" <=> (what = "tap" /\ bPhase = "delay"),
         what = "tap" => bPin',
         bApp'.valid => IF bPhase = "dfu" THEN bDbl' = (IF bApp'.tap THEN "APP" ELSE "zero") ELSE bDbl' # "APP"
  PROVE  BootInv'
<1>1. /\ bPhase' = "boot" /\ bButton' \in BOOLEAN /\ bLink' = FALSE /\ bWasConn' = FALSE /\ bTimer' = FALSE
      /\ bAsked' = [what |-> what, in |-> bPhase] /\ bPhase \in Phase
  BY BootTypes DEF Boot!Restart
<1>2. bGpregret' \in Boot!Magic \cup {"zero"}
  OBVIOUS
<1>3. Boot!TypeOK' /\ bAsked' \in Asks
  BY <1>1, <1>2 DEF Boot!TypeOK, Asks
<1>4. SecondTap' <=> (what = "tap" /\ bPhase = "delay")
  BY <1>1 DEF SecondTap
<1>5. bAsked'.what = what /\ bAsked'.in = bPhase
  BY <1>1
<1> QED BY <1>1, <1>3, <1>4, <1>5 DEF BootInv, Boot!DblMark

\* The application is started; from "boot" or "delay" it is not asked otherwise.
LEMMA AppStarted ==
  ASSUME BootInv, Boot!StartApp, bGpregret' = "zero"
  PROVE  BootInv'
<1>1. /\ bPhase' = "app" /\ bDbl' = "zero" /\ bPin' = FALSE /\ UNCHANGED <<bApp, bButton, bLink, bWasConn, bTimer, bAsked>>
  BY DEF Boot!StartApp, Boot!session
<1>2. Boot!TypeOK' /\ bAsked' \in Asks
  BY <1>1 DEF BootInv, Boot!TypeOK
<1> QED BY <1>1, <1>2 DEF BootInv

\* What check_dfu_mode() decides by.
LEMMA BootDecides ==
  ASSUME BootInv, bPhase = "boot"
  PROVE  /\ bGpregret = "SKIP" <=> bAsked.what = "SKIP"
         /\ Boot!OtaDfu <=> bAsked.what \in Boot!OtaMagic
         /\ Boot!Cleared = "zero"
         /\ bAsked.what # "SKIP" /\ bApp.valid => (Boot!EntersDfu <=> Boot!WantsDfu)
         /\ bAsked.what = "SKIP" => ~Boot!WantsDfu
<1>1. /\ bGpregret = (IF bAsked.what \in Boot!Magic THEN bAsked.what ELSE "zero")
      /\ bDbl = "MAGIC" <=> SecondTap
      /\ SecondTap => bPin
      /\ bApp.valid => IF bAsked.in = "dfu" THEN bDbl = Boot!DblMark ELSE bDbl # "APP"
  BY DEF BootInv
<1>2. /\ bGpregret = "SKIP" <=> bAsked.what = "SKIP"
      /\ Boot!OtaDfu <=> bAsked.what \in Boot!OtaMagic
      /\ Boot!SerialOnly <=> bAsked.what = "SERIAL_ONLY"
  BY <1>1 DEF Boot!OtaDfu, Boot!SerialOnly, Boot!OtaMagic, Boot!Magic
<1>3. Boot!DoubleTap <=> SecondTap
  BY <1>1 DEF Boot!DoubleTap
<1>4. Boot!Cleared = "zero"
  BY <1>1 DEF Boot!Cleared, Boot!DfuStart, Boot!OtaDfu, Boot!SerialOnly, Boot!OtaMagic, Boot!Magic
<1>5. Boot!DfuStart <=> bAsked.what \in Boot!OtaMagic \cup {"SERIAL_ONLY"} \/ SecondTap
  BY <1>2, <1>3 DEF Boot!DfuStart
<1>6. ASSUME bAsked.what # "SKIP", bApp.valid PROVE Boot!EntersDfu <=> Boot!WantsDfu
  <2>1. bApp.tap /\ ~Boot!DfuStart /\ ~bButton => (Boot!JustStartApp <=> bAsked.in = "dfu")
    BY <1>1, <1>6 DEF Boot!JustStartApp, Boot!DblMark
  <2>2. Boot!WantsDfu <=> Boot!DfuStart \/ bButton \/ (bApp.tap /\ bAsked.in # "dfu")
    BY <1>5, <1>6 DEF Boot!WantsDfu, SecondTap
  <2> QED BY <2>1, <2>2 DEF Boot!EntersDfu
<1>7. ASSUME bAsked.what = "SKIP" PROVE ~Boot!WantsDfu
  <2>1. ~SecondTap
    BY <1>7 DEF SecondTap
  <2> QED BY <1>7, <2>1 DEF Boot!WantsDfu, SecondTap, Boot!OtaMagic
<1> QED BY <1>2, <1>4, <1>6, <1>7

AsAsked == bPhase \in {"boot", "delay"} /\ bPhase' \in {"dfu", "app"} =>
             /\ (bPhase' = "dfu") <=> (Boot!WantsDfu \/ ~bApp.valid)
             /\ (bPhase' = "dfu") => (bLink' <=> (bAsked.what \in Boot!OtaMagic))

\* Resets, and what they leave to the next boot.
LEMMA BootResets ==
  ASSUME BootInv, Boot!PowerOn \/ Boot!PowerOff \/ Boot!Tap \/ Boot!SoftReset \/ (\E m \in Boot!Magic : Boot!Request(m))
  PROVE  BootInv' /\ bPhase' \in {"boot", "off"}
<1>1. CASE Boot!PowerOn
  <2>1. /\ bPhase = "off" /\ Boot!Restart("power") /\ bApp' = bApp /\ bGpregret' = "zero" /\ bDbl' = "junk" /\ bPin' = FALSE
    BY <1>1 DEF Boot!PowerOn
  <2>2. bApp' \in Boot!App
    BY <2>1 DEF BootInv, Boot!TypeOK
  <2>3. BootInv'
    BY <2>1, <2>2, BootRestarted DEF Boot!Magic, Boot!OtaMagic
  <2> QED BY <2>1, <2>3 DEF Boot!Restart
<1>2. CASE Boot!PowerOff
  <2>1. /\ bPhase' = "off" /\ UNCHANGED <<bGpregret, bDbl, bPin, bApp, bButton, bLink, bWasConn, bTimer, bAsked>>
    BY <1>2 DEF Boot!PowerOff, Boot!registers, Boot!session
  <2>2. Boot!TypeOK' /\ bAsked' \in Asks
    BY <2>1 DEF BootInv, Boot!TypeOK
  <2> QED BY <2>1, <2>2 DEF BootInv
<1>3. CASE Boot!Tap
  <2>1. /\ bPhase \in {"delay", "dfu", "app"} /\ Boot!Restart("tap") /\ bPin' = TRUE /\ UNCHANGED <<bGpregret, bDbl, bApp>>
    BY <1>3 DEF Boot!Tap
  <2>2. /\ bApp' \in Boot!App /\ bDbl' \in {"junk", "zero", "MAGIC", "APP"} /\ bGpregret' = "zero"
        /\ bDbl' = "MAGIC" <=> bPhase = "delay"
        /\ bApp'.valid => IF bPhase = "dfu" THEN bDbl' = (IF bApp'.tap THEN "APP" ELSE "zero") ELSE bDbl' # "APP"
    BY <2>1 DEF BootInv, Boot!TypeOK, Boot!DblMark
  <2>3. BootInv'
    BY <2>1, <2>2, BootRestarted DEF Boot!Magic, Boot!OtaMagic
  <2> QED BY <2>1, <2>3 DEF Boot!Restart
<1>4. CASE Boot!SoftReset
  <2>1. /\ bPhase \in {"dfu", "app"} /\ Boot!Restart("reset") /\ UNCHANGED <<bGpregret, bDbl, bPin, bApp>>
    BY <1>4 DEF Boot!SoftReset, Boot!registers
  <2>2. /\ bApp' \in Boot!App /\ bDbl' \in {"junk", "zero", "MAGIC", "APP"} /\ bGpregret' = "zero" /\ bPin' \in BOOLEAN
        /\ bDbl' # "MAGIC"
        /\ bApp'.valid => IF bPhase = "dfu" THEN bDbl' = (IF bApp'.tap THEN "APP" ELSE "zero") ELSE bDbl' # "APP"
    BY <2>1, BootTypes DEF BootInv, Boot!TypeOK, Boot!DblMark
  <2>3. BootInv'
    BY <2>1, <2>2, BootRestarted DEF Boot!Magic, Boot!OtaMagic
  <2> QED BY <2>1, <2>3 DEF Boot!Restart
<1>5. ASSUME NEW m \in Boot!Magic, Boot!Request(m) PROVE BootInv' /\ bPhase' \in {"boot", "off"}
  <2>1. /\ bPhase = "app" /\ Boot!Restart(m) /\ bGpregret' = m /\ UNCHANGED <<bDbl, bPin, bApp>>
    BY <1>5 DEF Boot!Request
  <2>2. /\ bApp' \in Boot!App /\ bDbl' = "zero" /\ bPin' \in BOOLEAN /\ m # "tap"
    BY <2>1, BootTypes DEF BootInv, Boot!TypeOK, Boot!Magic, Boot!OtaMagic
  <2>3. BootInv'
    BY <2>1, <2>2, BootRestarted
  <2> QED BY <2>1, <2>3 DEF Boot!Restart
<1> QED BY <1>1, <1>2, <1>3, <1>4, <1>5

\* check_dfu_mode() and the delay for a second tap.
LEMMA BootChecks ==
  ASSUME BootInv, Boot!Skip \/ Boot!Check \/ Boot!DelayOver
  PROVE  BootInv' /\ AsAsked
<1>1. CASE Boot!Skip /\ bApp.valid
  <2>1. bPhase = "boot" /\ bAsked.what = "SKIP" /\ bGpregret' = "zero" /\ Boot!StartApp /\ ~Boot!WantsDfu
    BY <1>1, BootDecides DEF Boot!Skip
  <2> QED BY <1>1, <2>1, AppStarted DEF AsAsked, Boot!StartApp
<1>2. CASE Boot!Skip /\ ~bApp.valid
  <2>1. /\ bPhase = "boot" /\ bAsked.what = "SKIP" /\ bGpregret' = "zero" /\ Boot!Restart("reset")
        /\ UNCHANGED <<bDbl, bPin, bApp>>
    BY <1>2, BootDecides DEF Boot!Skip
  <2>2. /\ bApp' \in Boot!App /\ bPin' \in BOOLEAN /\ bDbl' \in {"junk", "zero", "MAGIC", "APP"} /\ bDbl' # "MAGIC" /\ ~bApp'.valid
    BY <1>2, <2>1, BootTypes DEF BootInv, Boot!TypeOK, SecondTap
  <2>3. BootInv'
    BY <2>1, <2>2, BootRestarted DEF Boot!Magic, Boot!OtaMagic
  <2> QED BY <2>1, <2>3 DEF AsAsked, Boot!Restart
<1>3. CASE Boot!Check
  <2>1. /\ bPhase = "boot" /\ bAsked.what # "SKIP" /\ bGpregret' = "zero"
        /\ bApp.valid => (Boot!EntersDfu <=> Boot!WantsDfu)
        /\ Boot!OtaDfu <=> bAsked.what \in Boot!OtaMagic
    BY <1>3, BootDecides DEF Boot!Check
  <2>2. CASE (Boot!EntersDfu \/ ~bApp.valid) /\ Boot!EnterDfu
    <3>1. /\ bPhase' = "dfu" /\ bDbl' = Boot!DblMark /\ bLink' = Boot!OtaDfu /\ bWasConn' = FALSE
          /\ bTimer' = (~Boot!OtaDfu /\ (bApp.tap \/ Boot!SerialOnly)) /\ UNCHANGED <<bPin, bApp, bButton, bAsked>>
      BY <2>2 DEF Boot!EnterDfu
    <3>2. /\ Boot!DblMark \in {"APP", "zero"} /\ Boot!DblMark' = Boot!DblMark
          /\ bLink' \in BOOLEAN /\ bTimer' \in BOOLEAN /\ bGpregret' \in Boot!Magic \cup {"zero"}
      <4>1. Boot!OtaDfu \in BOOLEAN /\ Boot!SerialOnly \in BOOLEAN
        BY DEF Boot!OtaDfu, Boot!SerialOnly
      <4>2. bLink' \in BOOLEAN /\ bTimer' \in BOOLEAN
        BY <3>1, <4>1, BootTypes
      <4> QED BY <2>1, <3>1, <4>2 DEF Boot!DblMark
    <3>4. Boot!TypeOK' /\ bAsked' \in Asks
      BY <3>1, <3>2 DEF BootInv, Boot!TypeOK
    <3>3. BootInv'
      BY <2>1, <3>1, <3>2, <3>4 DEF BootInv
    <3> QED BY <2>1, <2>2, <3>1, <3>3 DEF AsAsked
  <2>3. CASE ~Boot!EntersDfu /\ bApp.valid /\ bPin /\ ~Boot!JustStartApp /\ bPhase' = "delay" /\ bDbl' = "MAGIC"
             /\ UNCHANGED <<bPin, bApp, bButton, Boot!session, bAsked>>
    <3>1. UNCHANGED <<bPin, bApp, bButton, bLink, bWasConn, bTimer, bAsked>>
      BY <2>3 DEF Boot!session
    <3>2. Boot!TypeOK' /\ bAsked' \in Asks
      BY <2>1, <2>3, <3>1 DEF BootInv, Boot!TypeOK
    <3>3. ~bApp.tap /\ ~bButton /\ ~Boot!WantsDfu
      BY <2>1, <2>3 DEF Boot!EntersDfu
    <3>4. bAsked.what \notin Boot!Magic /\ ~SecondTap
      BY <2>1, <3>3 DEF Boot!WantsDfu, SecondTap, Boot!Magic
    <3>5. BootInv'
      BY <2>1, <2>3, <3>1, <3>2, <3>3, <3>4 DEF BootInv, SecondTap
    <3> QED BY <2>3, <3>5 DEF AsAsked
  <2>4. CASE ~Boot!EntersDfu /\ bApp.valid /\ Boot!StartApp
    BY <2>1, <2>4, AppStarted DEF AsAsked, Boot!StartApp
  <2> QED BY <1>3, <2>2, <2>3, <2>4 DEF Boot!Check
<1>4. CASE Boot!DelayOver
  <2>1. /\ bPhase = "delay" /\ Boot!StartApp /\ bGpregret' = "zero" /\ bApp.valid
        /\ ~bApp.tap /\ ~bButton /\ ~SecondTap /\ bAsked.what \notin Boot!Magic
    BY <1>4 DEF Boot!DelayOver, BootInv
  <2>2. ~Boot!WantsDfu
    BY <2>1 DEF Boot!WantsDfu, SecondTap, Boot!Magic
  <2> QED BY <2>1, <2>2, AppStarted DEF AsAsked, Boot!StartApp
<1> QED BY <1>1, <1>2, <1>3, <1>4

\* The end of the DFU mode.
LEMMA EndSound ==
  ASSUME BootInv, bPhase = "dfu", NEW a \in Boot!App, Boot!End(a), a.valid \/ a = bApp
  PROVE  BootInv'
<1>1. CASE a.valid
  <2>1. /\ bPhase' = "app" /\ bDbl' = "zero" /\ bPin' = FALSE /\ bApp' = a
        /\ UNCHANGED <<bGpregret, bButton, bLink, bWasConn, bTimer, bAsked>>
    BY <1>1 DEF Boot!End, Boot!session
  <2>2. Boot!TypeOK' /\ bAsked' \in Asks
    BY <2>1 DEF BootInv, Boot!TypeOK
  <2> QED BY <2>1, <2>2 DEF BootInv
<1>2. CASE ~a.valid
  <2>1. /\ bGpregret' = Boot!GpregretAtReset /\ Boot!Restart(IF bWasConn THEN "OTA_RESET" ELSE "reset")
        /\ UNCHANGED <<bDbl, bPin>> /\ bApp' = a
    BY <1>2 DEF Boot!End
  <2>2. /\ bGpregret = "zero" /\ bDbl # "MAGIC" /\ bPin' \in BOOLEAN /\ bDbl' \in {"junk", "zero", "MAGIC", "APP"}
    BY <2>1, BootTypes DEF BootInv
  <2>3. CASE bWasConn
    <3>1. bGpregret' = "OTA_RESET" /\ Boot!Restart("OTA_RESET")
      BY <2>1, <2>3 DEF Boot!GpregretAtReset
    <3> QED BY <1>2, <2>1, <2>2, <3>1, BootRestarted DEF Boot!Magic, Boot!OtaMagic
  <2>4. CASE ~bWasConn
    <3>1. bGpregret' = "zero" /\ Boot!Restart("reset")
      BY <2>1, <2>2, <2>4 DEF Boot!GpregretAtReset
    <3> QED BY <1>2, <2>1, <2>2, <3>1, BootRestarted DEF Boot!Magic, Boot!OtaMagic
  <2> QED BY <2>3, <2>4
<1> QED BY <1>1, <1>2

LEMMA DfuModeSound ==
  ASSUME BootInv, Boot!Connect \/ Boot!Packet \/ Boot!Erase \/ Boot!StartupTimeout \/ Boot!BreakOff \/ Boot!Update
  PROVE  BootInv' /\ bPhase = "dfu"
<1>1. CASE Boot!Connect \/ Boot!Packet
  <2>1. /\ bPhase = "dfu" /\ UNCHANGED <<bPhase, bGpregret, bDbl, bPin, bApp, bButton, bLink, bAsked>>
        /\ bWasConn' \in {bWasConn, TRUE} /\ bTimer' \in {bTimer, FALSE}
    BY <1>1 DEF Boot!Connect, Boot!Packet, Boot!registers
  <2>2. Boot!TypeOK' /\ bAsked' \in Asks /\ Boot!DblMark' = Boot!DblMark
    BY <2>1, BootTypes DEF BootInv, Boot!TypeOK, Boot!DblMark
  <2> QED BY <2>1, <2>2 DEF BootInv
<1>2. CASE Boot!Erase
  <2>1. /\ bPhase = "dfu" /\ UNCHANGED <<bPhase, bGpregret, bDbl, bPin, bButton, bLink, bWasConn, bTimer, bAsked>>
        /\ bApp' \in Boot!App /\ bApp'.valid = FALSE
    BY <1>2 DEF Boot!Erase, Boot!registers, Boot!session, Boot!App
  <2>2. Boot!TypeOK' /\ bAsked' \in Asks
    BY <2>1 DEF BootInv, Boot!TypeOK
  <2> QED BY <2>1, <2>2 DEF BootInv
<1>3. CASE Boot!StartupTimeout \/ Boot!BreakOff
  <2>1. bPhase = "dfu" /\ Boot!End(bApp) /\ bApp \in Boot!App
    BY <1>3 DEF Boot!StartupTimeout, Boot!BreakOff, BootInv, Boot!TypeOK
  <2> QED BY <2>1, EndSound
<1>4. CASE Boot!Update
  <2>1. bPhase = "dfu"
    BY <1>4 DEF Boot!Update
  <2>2. ASSUME NEW t \in BOOLEAN, Boot!End([valid |-> TRUE, tap |-> t]) PROVE BootInv'
    <3>1. [valid |-> TRUE, tap |-> t] \in Boot!App /\ [valid |-> TRUE, tap |-> t].valid
      BY DEF Boot!App
    <3> QED BY <2>1, <2>2, <3>1, EndSound
  <2> QED BY <1>4, <2>1, <2>2 DEF Boot!Update
<1> QED BY <1>1, <1>2, <1>3, <1>4

LEMMA BootStep == ASSUME BootInv, [Boot!Next]_(Boot!vars) PROVE BootInv' /\ (Boot!Next => AsAsked)
<1>1. CASE UNCHANGED Boot!vars
  <2>1. /\ UNCHANGED <<bPhase, bGpregret, bDbl, bPin, bApp, bButton, bLink, bWasConn, bTimer, bAsked>>
    BY <1>1 DEF Boot!vars, Boot!registers, Boot!session
  <2>2. Boot!TypeOK' /\ bAsked' \in Asks /\ Boot!DblMark' = Boot!DblMark /\ SecondTap' = SecondTap
    BY <2>1 DEF BootInv, Boot!TypeOK, Boot!DblMark, SecondTap
  <2>3. AsAsked
    BY <2>1 DEF AsAsked
  <2> QED BY <2>1, <2>2, <2>3 DEF BootInv
<1>2. CASE Boot!PowerOn \/ Boot!PowerOff \/ Boot!Tap \/ Boot!SoftReset \/ (\E m \in Boot!Magic : Boot!Request(m))
  <2>1. BootInv' /\ bPhase' \in {"boot", "off"}
    BY <1>2, BootResets
  <2> QED BY <2>1 DEF AsAsked
<1>3. CASE Boot!Skip \/ Boot!Check \/ Boot!DelayOver
  BY <1>3, BootChecks
<1>4. CASE Boot!Connect \/ Boot!Packet \/ Boot!Erase \/ Boot!StartupTimeout \/ Boot!BreakOff \/ Boot!Update
  <2>1. BootInv' /\ bPhase = "dfu"
    BY <1>4, DfuModeSound
  <2> QED BY <2>1 DEF AsAsked
<1> QED BY <1>1, <1>2, <1>3, <1>4 DEF Boot!Next

LEMMA BootStarts == Boot!Init => BootInv
<1> SUFFICES ASSUME Boot!Init PROVE BootInv
  OBVIOUS
<1>1. Boot!TypeOK
  BY DEF Boot!Init, Boot!TypeOK
<1>2. bAsked \in Asks
  BY DEF Boot!Init, Asks, Phase
<1> QED BY <1>1, <1>2 DEF Boot!Init, BootInv

LEMMA BootAlwaysInv == Boot!Spec => []BootInv
<1> QED BY BootStarts, BootStep, PTL DEF Boot!Spec

-----------------------------------------------------------------------------
(* The components in Parts.                                                *)

\* A behaviour of Parts is one of the scheduler.
LEMMA PartsHasSched == PartsSpec => Sched!Spec
<1>1. PartsInit => Sched!Init
  BY DEF PartsInit
<1>2. [PartsNext]_partsVars => [Sched!Next]_(Sched!vars)
  BY DEF PartsNext, Only, partsVars, sched, Sched!vars, Sched!ring
<1> QED BY <1>1, <1>2, PTL DEF PartsSpec, Sched!Spec

\* A behaviour of Parts is one of the dual-bank engine.
LEMMA PartsHasDual == PartsSpec => Dual!Spec
<1>1. PartsInit => Dual!Init
  BY DEF PartsInit
<1>2. [PartsNext]_partsVars => [Dual!Next]_(Dual!vars)
  BY DEF PartsNext, Only, partsVars, dual, Dual!vars, Dual!nonVolatile, Dual!image
<1> QED BY <1>1, <1>2, PTL DEF PartsSpec, Dual!Spec

\* And of each of the others.
LEMMA PartsHasPool == PartsSpec => Spec
<1>1. PartsInit => Init
  BY DEF PartsInit
<1>2. [PartsNext]_partsVars => [Next]_vars
  BY DEF PartsNext, Only, partsVars, vars
<1> QED BY <1>1, <1>2, PTL DEF PartsSpec, Spec

LEMMA PartsHasCache == PartsSpec => Cache!Spec
<1>1. PartsInit => Cache!Init
  BY DEF PartsInit
<1>2. [PartsNext]_partsVars => [Cache!Next]_(Cache!vars)
  BY DEF PartsNext, Only, partsVars, cache, Cache!vars
<1> QED BY <1>1, <1>2, PTL DEF PartsSpec, Cache!Spec

LEMMA PartsHasLine == PartsSpec => Line!Spec
<1>1. PartsInit => Line!Init
  BY DEF PartsInit
<1>2. [PartsNext]_partsVars => [Line!Next]_(Line!vars)
  BY DEF PartsNext, Only, partsVars, line, Line!vars, Line!encoder, Line!decoder
<1> QED BY <1>1, <1>2, PTL DEF PartsSpec, Line!Spec

LEMMA PartsHasBoot == PartsSpec => Boot!Spec
<1>1. PartsInit => Boot!Init
  BY DEF PartsInit
<1>2. [PartsNext]_partsVars => [Boot!Next]_(Boot!vars)
  BY DEF PartsNext, Only, partsVars, boot, Boot!vars, Boot!registers, Boot!session
<1> QED BY <1>1, <1>2, PTL DEF PartsSpec, Boot!Spec

\* For every size of the queue and set of timers: events that the SoftDevice has
\* and nobody fetched have an interrupt or a queued event that fetches them,
\* though SD_EVT_IRQHandler drops its event when the queue is full.
THEOREM EventsAreFetched == PartsSpec => []SdNotForgotten
<1>1. SchedInv => SdNotForgotten
  BY SchedForgetsNothing DEF SdNotForgotten
<1> QED BY <1>1, PartsHasSched, SchedAlwaysInv, PTL

\* While a handler runs, app_sched_execute()'s slot holds its event, whole, and no
\* interrupt writes there.
THEOREM HandlersSlotIsItsOwn == PartsSpec => []Sched!RunningIntact
<1>1. SchedInv => Sched!RunningIntact
  BY SchedForgetsNothing
<1> QED BY <1>1, PartsHasSched, SchedAlwaysInv, PTL

\* The ring of app_scheduler.c implements the queue of EventQueue: events are
\* handled one by one, in the order in which their calls reserved the slots.
THEOREM RingIsQueue == PartsSpec => KeepsOrder
<1>1. Sched!Init => Sched!Promise!Init
  <2> SUFFICES ASSUME Sched!Init PROVE Sched!Queued = <<>>
    BY DEF Sched!Promise!Init
  <2>1. Sched!TypeOK /\ sStart = 0 /\ sEnd = 0
    BY SchedStarts DEF Sched!Init, SchedInv
  <2>2. Sched!Queued = Queue(sIsr, sEntry, 0, 0)
    BY <2>1, QueuedIs
  <2> QED BY <2>2 DEF Queue, Count
<1>2. SchedInv /\ SchedInv' /\ [Sched!Next]_(Sched!vars) => [Sched!Promise!Next]_(Sched!Queued)
  BY SchedStep, SchedStutters, StepKeepsOrder
<1> QED BY <1>1, <1>2, PartsHasSched, SchedAlwaysInv, PTL
        DEF Sched!Spec, KeepsOrder, Sched!KeepsOrder, Sched!Promise!Spec

\* For every number and size of pages: the flash and its one cached page are a
\* memory that reads as it was written, and a power loss between any two words
\* takes no page but the one of the last write (PagedMemory; flash_nrf5x.c).
THEOREM CacheIsMemory == PartsSpec => KeepsPages
<1>1. CacheInv /\ [Cache!Next]_(Cache!vars) =>
        CacheInv' /\ [Cache!Promise!Next]_<<Cache!View, cAddr, Want, Past>>
  BY CacheStep DEF Promised
<1> QED BY <1>1, PartsHasCache, CacheStarts, PTL
        DEF Cache!Spec, KeepsPages, Cache!KeepsPages, Cache!Promise!Spec, Want, Past

\* For every size of the banks and set of updates: unless an overwriting of bank 0
\* was cut short, each start of the bootloader finds the last application whole and
\* valid, and the settings announce a SoftDevice or a bootloader only when its bank
\* holds it, whole (dfu_dual_bank.c).
THEOREM BanksAreSafe == PartsSpec => []OldOrNew
<1>1. DualInv => OldOrNew
  BY DEF DualInv, Whole, OldOrNew, Dual!OldOrNew
<1> QED BY <1>1, PartsHasDual, DualAlwaysInv, PTL

\* For all frames, buffer sizes and any number of damaged bytes: of the frames that
\* come whole, the decoder of hci_slip.c misses no two in a row, unless the buffer
\* for acknowledgements is registered.
THEOREM WholeFramesResync == PartsSpec => Resyncs
<1> QED BY PartsHasLine, LineStarts, LineStep, PTL DEF Line!Spec, Resyncs, Line!Resyncs

\* Whatever resets, taps and losses of power come in any order, each boot does what
\* it was asked for (check_dfu_mode(), main()).
THEOREM BootsAsAsked == PartsSpec => DecidesAsAsked
<1>1. BootInv /\ [Boot!Next]_(Boot!vars) => [AsAsked]_(Boot!vars)
  BY BootStep
<1> QED BY <1>1, PartsHasBoot, BootAlwaysInv, PTL
        DEF Boot!Spec, DecidesAsAsked, Boot!DecidesAsAsked, AsAsked

\* The components' states have their types, the decoder writes no byte past the
\* end of its buffer, and the pool takes back every buffer it handed out.
THEOREM PartsAreSound == PartsSpec => []StatesSound
<1>1. SchedInv => Sched!TypeOK /\ Sched!RunningIntact
  BY SchedForgetsNothing DEF SchedInv
<1>2. CacheInv /\ Short => Cache!TypeOK
  <2> SUFFICES ASSUME CacheInv, Short PROVE Cache!TypeOK
    OBVIOUS
  <2>1. CacheTypes /\ Asked
    BY DEF CacheInv
  <2>2. cRequest.dst \in Cache!Addr
    BY <2>1 DEF Asked, Request
  <2>3. \A i \in 1 .. Len(cTodo) : cTodo[i] \in Cache!Addr \X Value
    BY <2>1 DEF CacheTypes
  <2>4. cFlushing => cAddr # NoPage /\ cTodo # <<>>
    BY CacheAssumed DEF Cache!CacheAssumption, Cache!Page, CacheInv, Flushes
  <2> QED BY <2>1, <2>2, <2>3, <2>4 DEF CacheTypes, Short, Cache!TypeOK
<1>3. LineInv => Line!TypeOK /\ Line!InBounds
  BY DEF LineInv
<1>4. BootInv => Boot!TypeOK
  BY DEF BootInv
<1>5. DualInv => Dual!TypeOK
  BY DEF DualInv, DualTypes
<1>6. PartsSpec => [](CacheInv /\ Short)
  <2>1. Cache!Init => Short
    BY CacheAssumed DEF Cache!CacheAssumption, Cache!Init, Cache!NoRequest, Short
  <2>2. CacheInv /\ Short /\ [Cache!Next]_(Cache!vars) => CacheInv' /\ Short'
    BY CacheStep, StaysShort
  <2> QED BY <2>1, <2>2, PartsHasCache, CacheStarts, PTL DEF Cache!Spec
<1>7. PartsSpec => [](TypeOK /\ HeldIsConsumable)
  BY PartsHasPool, PoolTypeCorrect, ConsumeNeverFails, PTL
<1>8. /\ Sched!TypeOK /\ Sched!RunningIntact /\ Cache!TypeOK /\ Line!TypeOK /\ Line!InBounds
      /\ Boot!TypeOK /\ Dual!TypeOK /\ TypeOK /\ HeldIsConsumable
      => StatesSound
  BY DEF StatesSound
<1> QED BY <1>1, <1>2, <1>3, <1>4, <1>5, <1>6, <1>7, <1>8, PartsHasSched, SchedAlwaysInv,
           PartsHasLine, LineAlwaysInv, PartsHasBoot, BootAlwaysInv, PartsHasDual, DualAlwaysInv, PTL
=============================================================================
