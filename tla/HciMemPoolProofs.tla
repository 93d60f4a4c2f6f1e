-------------------------- MODULE HciMemPoolProofs --------------------------
(***************************************************************************)
(* Lemmas about the operations of the receive pool, for every ring size:   *)
(* no operation loses or duplicates a slot of the ring, and which buffers  *)
(* are marked in use after each of them, for the clients that consume the  *)
(* oldest buffer or the newest.                                            *)
(***************************************************************************)
EXTENDS HciMemPool, TLAPS

\* The buffer k places after the next one to be extracted.
At(p, k) == Wrap(p.read + k)

\* Every slot of the ring is free, ready or handed out.
Ring(p) ==
  /\ p \in Pool
  /\ {p.window, p.ready, p.avail} \subseteq 0 .. N
  /\ p.window + p.ready + p.avail = N
  /\ p.write = At(p, p.ready)

\* In use are the first h of the buffers that are handed out, and all that are
\* ready.
InUse(p, h) ==
  /\ h \in 0 .. p.avail
  /\ p.busy = {At(p, k) : k \in -p.avail .. h - p.avail - 1} \cup {At(p, k) : k \in 0 .. p.ready - 1}

-----------------------------------------------------------------------------
(* Places in the ring.                                                     *)

\* Wrap() on the numbers that occur.
LEMMA WrapCases ==
  /\ N \in Nat /\ N > 0
  /\ \A i \in Int : Wrap(i) \in Buffer
  /\ \A i \in 0 .. N - 1 : Wrap(i) = i
  /\ \A i \in N .. 2 * N - 1 : Wrap(i) = i - N
  /\ \A i \in -N .. -1 : Wrap(i) = i + N
<1>1. N \in Nat /\ N > 0
  BY PoolAssumption
<1>2. \A i \in Int : i % N \in 0 .. N - 1
  BY <1>1
<1>3. \A i \in 0 .. N - 1 : i % N = i
  BY <1>1
<1>4. \A i \in N .. 2 * N - 1 : i % N = i - N
  BY <1>1
<1>5. \A i \in -N .. -1 : i % N = i + N
  BY <1>1
<1> QED
  BY <1>1, <1>2, <1>3, <1>4, <1>5 DEF Wrap, Buffer

\* Fewer than N places apart are two buffers.
LEMMA Apart ==
  ASSUME NEW r \in Buffer, NEW i \in -N .. N, NEW j \in -N .. N, i < j, j - i < N
  PROVE  Wrap(r + i) # Wrap(r + j)
<1>1. N \in Nat /\ N > 0 /\ r \in 0 .. N - 1
  BY WrapCases DEF Buffer
<1>2. \A k \in -N .. N : Wrap(r + k) = IF r + k < 0 THEN r + k + N
                                       ELSE IF r + k < N THEN r + k ELSE r + k - N
  BY <1>1, WrapCases
<1> QED
  BY <1>1, <1>2

\* The places before and after one.
LEMMA Steps ==
  ASSUME NEW r \in Buffer
  PROVE  /\ Wrap(r) = r /\ Wrap(r + 1) \in Buffer
         /\ \A k \in -N .. N - 1 : Wrap(Wrap(r + k) + 1) = Wrap(r + (k + 1))
         /\ \A k \in -N .. N - 1 : Wrap(Wrap(r + 1) + k) = Wrap(r + (k + 1))
         /\ Wrap(r + N) = r /\ Wrap(r - N) = r
<1>1. N \in Nat /\ N > 0 /\ r \in 0 .. N - 1
  BY WrapCases DEF Buffer
<1>2. \A k \in -N .. N : Wrap(r + k) = IF r + k < 0 THEN r + k + N
                                       ELSE IF r + k < N THEN r + k ELSE r + k - N
  BY <1>1, WrapCases
<1>3. \A k \in -N .. N : Wrap(r + k) \in 0 .. N - 1
  BY <1>1, WrapCases DEF Buffer
<1>4. \A s \in 0 .. N - 1 : Wrap(s + 1) = IF s + 1 < N THEN s + 1 ELSE 0
  BY <1>1, WrapCases
<1>5. \A k \in -N .. N - 1 : Wrap(Wrap(r + k) + 1) = Wrap(r + (k + 1))
  <2> TAKE k \in -N .. N - 1
  <2>1. k + 1 \in -N .. N /\ k \in -N .. N /\ k \in Int
    BY <1>1
  <2>2. Wrap(Wrap(r + k) + 1) = IF Wrap(r + k) + 1 < N THEN Wrap(r + k) + 1 ELSE 0
    BY <1>3, <1>4, <2>1
  <2>3. Wrap(r + (k + 1)) = IF r + (k + 1) < 0 THEN r + (k + 1) + N
                            ELSE IF r + (k + 1) < N THEN r + (k + 1) ELSE r + (k + 1) - N
    BY <1>2, <2>1
  <2>4. Wrap(r + k) = IF r + k < 0 THEN r + k + N ELSE IF r + k < N THEN r + k ELSE r + k - N
    BY <1>2, <2>1
  <2> QED
    BY <1>1, <2>1, <2>2, <2>3, <2>4
<1>6. \A k \in -N .. N - 1 : Wrap(Wrap(r + 1) + k) = Wrap(r + (k + 1))
  <2> TAKE k \in -N .. N - 1
  <2>1. k + 1 \in -N .. N /\ k \in -N .. N /\ k \in Int
    BY <1>1
  <2>2. CASE r + 1 < N
    <3>1. Wrap(r + 1) = r + 1 /\ (r + 1) + k = r + (k + 1)
      BY <1>1, <1>4, <2>1, <2>2
    <3> QED
      BY <3>1
  <2>3. CASE ~(r + 1 < N)
    <3>1. Wrap(r + 1) = 0 /\ r = N - 1
      BY <1>1, <1>4, <2>3
    <3>2. Wrap(0 + k) = IF k < 0 THEN k + N ELSE k
      BY <1>1, <2>1, WrapCases
    <3>3. Wrap(r + (k + 1)) = IF r + (k + 1) < 0 THEN r + (k + 1) + N
                              ELSE IF r + (k + 1) < N THEN r + (k + 1) ELSE r + (k + 1) - N
      BY <1>2, <2>1
    <3> QED
      BY <1>1, <2>1, <3>1, <3>2, <3>3
  <2> QED
    BY <2>2, <2>3
<1>7. Wrap(r + N) = r /\ Wrap(r - N) = r /\ Wrap(r) = r
  BY <1>1, WrapCases
<1> QED
  BY <1>3, <1>5, <1>6, <1>7, <1>1, WrapCases

-----------------------------------------------------------------------------
(* The counters and indexes.                                               *)

\* A pool that was just opened has all its buffers free.
LEMMA OpenRing == Ring(PoolOpen) /\ InUse(PoolOpen, 0)
<1>1. N \in Nat /\ N > 0 /\ 0 \in Buffer /\ Wrap(0 + 0) = 0
  BY WrapCases DEF Buffer
<1>2. PoolOpen \in Pool
  BY <1>1 DEF PoolOpen, Pool
<1>3. Ring(PoolOpen)
  BY <1>1, <1>2 DEF PoolOpen, Ring, At
<1>4. InUse(PoolOpen, 0)
  BY <1>1 DEF PoolOpen, InUse
<1> QED
  BY <1>3, <1>4

\* What hci_mem_pool_rx_produce() changes.
LEMMA ProducedFields ==
  ASSUME NEW p, Ring(p), CanProduce(p)
  PROVE  /\ Ring(Produced(p))
         /\ Produced(p).window = p.window - 1 /\ Produced(p).ready = p.ready + 1
         /\ Produced(p).avail = p.avail /\ Produced(p).read = p.read
         /\ Produced(p).write = Wrap(p.write + 1) /\ Produced(p).busy = p.busy \cup {p.write}
         /\ p.write = At(p, p.ready) /\ p.write \in Buffer /\ p.ready + p.avail < N
<1> DEFINE q == Produced(p)
<1>1. /\ q.window = p.window - 1 /\ q.ready = p.ready + 1 /\ q.avail = p.avail
      /\ q.read = p.read /\ q.write = Wrap(p.write + 1) /\ q.busy = p.busy \cup {p.write}
  BY DEF Ring, Pool, Produced
<1>2. /\ p.window \in 1 .. N /\ p.ready \in 0 .. N - 1 /\ p.avail \in 0 .. N - 1
      /\ p.window + p.ready + p.avail = N /\ N \in Nat /\ N > 0
  BY WrapCases DEF Ring, CanProduce
<1>3. p.read \in Buffer /\ p.write \in Buffer /\ p.busy \subseteq Buffer
  BY DEF Ring, Pool
<1>4. q.write = Wrap(p.read + (p.ready + 1))
  <2>1. p.write = Wrap(p.read + p.ready) /\ p.ready \in -N .. N - 1
    BY <1>2 DEF Ring, At
  <2> QED
    BY <1>1, <1>3, <2>1, Steps
<1>5. q \in Pool
  <2>1. Wrap(p.write + 1) \in Buffer
    BY <1>3, Steps
  <2>2. p.window - 1 \in Int /\ p.ready + 1 \in Int
    BY <1>2
  <2> QED
    BY <1>3, <2>1, <2>2 DEF Ring, Pool, Produced
<1>6. Ring(q)
  BY <1>1, <1>2, <1>4, <1>5 DEF Ring, At
<1> QED
  BY <1>1, <1>2, <1>3, <1>6 DEF Ring

\* What hci_mem_pool_rx_extract() changes.
LEMMA ExtractedFields ==
  ASSUME NEW p, Ring(p), CanExtract(p)
  PROVE  /\ Ring(Extracted(p))
         /\ Extracted(p).window = p.window /\ Extracted(p).ready = p.ready - 1
         /\ Extracted(p).avail = p.avail + 1 /\ Extracted(p).read = Wrap(p.read + 1)
         /\ Extracted(p).write = p.write /\ Extracted(p).busy = p.busy
         /\ p.ready \in 1 .. N
<1> DEFINE q == Extracted(p)
<1>1. /\ q.window = p.window /\ q.ready = p.ready - 1 /\ q.avail = p.avail + 1
      /\ q.read = Wrap(p.read + 1) /\ q.write = p.write /\ q.busy = p.busy
  BY DEF Ring, Pool, Extracted
<1>2. /\ p.window \in 0 .. N /\ p.ready \in 1 .. N /\ p.avail \in 0 .. N - 1
      /\ p.window + p.ready + p.avail = N /\ N \in Nat /\ N > 0
  BY WrapCases DEF Ring, CanExtract
<1>3. p.read \in Buffer /\ p.write \in Buffer /\ p.busy \subseteq Buffer
  BY DEF Ring, Pool
<1>4. q.write = Wrap(q.read + (p.ready - 1))
  <2>1. p.ready - 1 \in -N .. N - 1 /\ (p.ready - 1) + 1 = p.ready
    BY <1>2
  <2>2. p.write = Wrap(p.read + p.ready)
    BY DEF Ring, At
  <2> QED
    BY <1>1, <1>3, <2>1, <2>2, Steps
<1>5. q \in Pool
  <2>1. Wrap(p.read + 1) \in Buffer
    BY <1>3, Steps
  <2>2. p.avail + 1 \in Int /\ p.ready - 1 \in Int
    BY <1>2
  <2> QED
    BY <1>3, <2>1, <2>2 DEF Ring, Pool, Extracted
<1>6. Ring(q)
  BY <1>1, <1>2, <1>4, <1>5 DEF Ring, At
<1> QED
  BY <1>1, <1>2, <1>6

\* What hci_mem_pool_rx_consume() changes, whatever buffer it is given.
LEMMA ConsumedFields ==
  ASSUME NEW p, Ring(p), NEW b
  PROVE  /\ Ring(Consumed(p, b))
         /\ Consumed(p, b).ready = p.ready /\ Consumed(p, b).read = p.read
         /\ Consumed(p, b).write = p.write
         /\ CanConsume(p, b) =>
              LET rest == Toggled(p.busy, b)
                  n    == IF Oldest(p) \in rest THEN 0
                          ELSE IF Wrap(b + 1) \in rest THEN 1 ELSE p.avail
              IN  /\ Consumed(p, b).busy = rest
                  /\ Consumed(p, b).avail = p.avail - n /\ Consumed(p, b).window = p.window + n
<1>1. CASE p.avail = 0
  BY <1>1 DEF Consumed, CanConsume
<1>2. CASE p.avail # 0
  <2> DEFINE found == IF b \in Scanned(p) THEN b ELSE p.read
             q == [p EXCEPT !.busy = IF b \in Scanned(p) THEN Toggled(@, b) ELSE @]
             n == ReleaseCount(q, Oldest(p), found)
  <2>1. Consumed(p, b) = Released(q, n)
    BY <1>2 DEF Consumed
  <2>2. /\ q.window = p.window /\ q.ready = p.ready /\ q.avail = p.avail
        /\ q.write = p.write /\ q.read = p.read
        /\ q.busy = IF b \in Scanned(p) THEN Toggled(p.busy, b) ELSE p.busy
    BY DEF Ring, Pool
  <2>3. Scanned(p) \subseteq Buffer
    BY DEF Scanned
  <2>4. q \in Pool
    <3>1. (IF b \in Scanned(p) THEN Toggled(p.busy, b) ELSE p.busy) \in SUBSET Buffer
      BY <2>3 DEF Ring, Pool, Toggled
    <3> QED
      BY <3>1 DEF Ring, Pool
  <2>5. n \in {0, 1, p.avail}
    BY <2>2 DEF ReleaseCount
  <2>6. /\ p.avail \in 1 .. N /\ p.window \in 0 .. N /\ p.ready \in 0 .. N
        /\ p.window + p.ready + p.avail = N /\ N \in Nat
    BY <1>2, WrapCases DEF Ring
  <2> DEFINE c == Released(q, n)
  <2>7. /\ c.window = p.window + n /\ c.avail = p.avail - n /\ c.ready = p.ready
        /\ c.write = p.write /\ c.read = p.read /\ c.busy = q.busy
    BY <2>2, <2>4 DEF Released, Pool
  <2>8. c \in Pool
    <3>1. q.window + n \in Int /\ q.avail - n \in Int
      BY <2>2, <2>5, <2>6
    <3> HIDE DEF n, q
    <3> QED
      BY <2>4, <3>1 DEF Released, Pool
  <2>9. Ring(c)
    <3>1. {c.window, c.ready, c.avail} \subseteq 0 .. N /\ c.window + c.ready + c.avail = N
      <4> HIDE DEF n, q, c
      <4> QED
        BY <2>5, <2>6, <2>7
    <3>2. c.write = At(c, c.ready)
      <4> HIDE DEF n, q, c
      <4> QED
        BY <2>7 DEF Ring, At
    <3> HIDE DEF c
    <3> QED
      BY <2>8, <3>1, <3>2 DEF Ring
  <2>10. ASSUME CanConsume(p, b)
         PROVE  /\ q.busy = Toggled(p.busy, b)
                /\ n = IF Oldest(p) \in Toggled(p.busy, b) THEN 0
                       ELSE IF Wrap(b + 1) \in Toggled(p.busy, b) THEN 1 ELSE p.avail
    <3>1. b \in Scanned(p)
      BY <2>10 DEF CanConsume
    <3>2. found = b /\ q.busy = Toggled(p.busy, b)
      BY <2>2, <3>1
    <3> HIDE DEF q, found
    <3> QED
      BY <2>2, <3>2 DEF ReleaseCount
  <2> HIDE DEF n, q, found
  <2> QED
    BY <2>1, <2>7, <2>9, <2>10
<1> QED
  BY <1>1, <1>2

-----------------------------------------------------------------------------
(* Which buffers are in use.                                               *)

\* A buffer within the ring is in use if its place says so.
LEMMA Places ==
  ASSUME NEW p, Ring(p), NEW h, InUse(p, h), NEW k \in -p.avail .. p.ready, k < N - p.avail
  PROVE  /\ At(p, k) \in Buffer
         /\ At(p, k) \in p.busy <=> k < h - p.avail \/ k \in 0 .. p.ready - 1
<1>1. /\ N \in Nat /\ p.ready \in 0 .. N /\ p.avail \in 0 .. N /\ p.ready + p.avail <= N
      /\ p.read \in Buffer /\ h \in 0 .. p.avail
  BY WrapCases DEF Ring, Pool, InUse
<1>2. k \in Int /\ k \in -N .. N /\ p.read + k \in Int
  BY <1>1 DEF Buffer
<1>3. At(p, k) \in Buffer
  BY <1>2, WrapCases DEF At
<1>4. ASSUME NEW j \in -p.avail .. p.ready - 1, At(p, j) = At(p, k) PROVE j = k
  <2>1. j \in -N .. N /\ j - k < N /\ k - j < N
    BY <1>1, <1>2
  <2>2. ~(j < k) /\ ~(k < j)
    BY <1>1, <1>2, <1>4, <2>1, Apart DEF At
  <2> QED
    BY <1>2, <2>1, <2>2
<1>5. ASSUME At(p, k) \in p.busy PROVE k < h - p.avail \/ k \in 0 .. p.ready - 1
  <2>1. PICK j \in (-p.avail .. h - p.avail - 1) \cup (0 .. p.ready - 1) : At(p, j) = At(p, k)
    BY <1>5 DEF InUse
  <2>2. j \in -p.avail .. p.ready - 1
    BY <1>1, <2>1
  <2>3. j = k
    BY <1>4, <2>1, <2>2
  <2> QED
    BY <1>1, <2>1, <2>3
<1>6. ASSUME k < h - p.avail \/ k \in 0 .. p.ready - 1 PROVE At(p, k) \in p.busy
  <2>1. k \in -p.avail .. h - p.avail - 1 \/ k \in 0 .. p.ready - 1
    BY <1>1, <1>2, <1>6
  <2> QED
    BY <2>1 DEF InUse
<1> QED
  BY <1>3, <1>5, <1>6

\* A produced buffer was not in use, and is now.
LEMMA ProducedInUse ==
  ASSUME NEW p, Ring(p), NEW h, InUse(p, h), CanProduce(p)
  PROVE  p.write \notin p.busy /\ InUse(Produced(p), h)
<1> DEFINE q == Produced(p)
<1>1. /\ q.ready = p.ready + 1 /\ q.avail = p.avail /\ q.read = p.read
      /\ q.busy = p.busy \cup {p.write}
      /\ p.write = At(p, p.ready) /\ p.write \in Buffer /\ p.ready + p.avail < N
  BY ProducedFields
<1>2. N \in Nat /\ p.ready \in 0 .. N /\ p.avail \in 0 .. N /\ h \in 0 .. p.avail
  BY WrapCases DEF Ring, InUse
<1>3. p.write \notin p.busy
  <2>1. p.ready \in -p.avail .. p.ready /\ p.ready < N - p.avail
    BY <1>1, <1>2
  <2>2. ~(p.ready < h - p.avail) /\ p.ready \notin 0 .. p.ready - 1
    BY <1>2
  <2> QED
    BY <1>1, <2>1, <2>2, Places
<1>4. \A k : At(q, k) = At(p, k)
  BY <1>1 DEF At
<1>5. 0 .. q.ready - 1 = (0 .. p.ready - 1) \cup {p.ready}
  BY <1>1, <1>2
<1>6. q.busy = {At(q, k) : k \in -q.avail .. h - q.avail - 1} \cup {At(q, k) : k \in 0 .. q.ready - 1}
  <2>1. q.busy = {At(p, k) : k \in -p.avail .. h - p.avail - 1} \cup {At(p, k) : k \in 0 .. p.ready - 1}
                 \cup {At(p, p.ready)}
    BY <1>1 DEF InUse
  <2> HIDE DEF q
  <2> QED
    BY <1>1, <1>4, <1>5, <2>1
<1> QED
  BY <1>1, <1>2, <1>3, <1>6 DEF InUse

\* Extracting a buffer leaves it in use.
LEMMA ExtractedInUse ==
  ASSUME NEW p, Ring(p), InUse(p, p.avail), CanExtract(p)
  PROVE  InUse(Extracted(p), Extracted(p).avail)
<1> DEFINE q == Extracted(p)
<1>1. /\ q.ready = p.ready - 1 /\ q.avail = p.avail + 1 /\ q.read = Wrap(p.read + 1)
      /\ q.busy = p.busy /\ p.ready \in 1 .. N
  BY ExtractedFields
<1>2. N \in Nat /\ p.avail \in 0 .. N /\ p.read \in Buffer /\ p.ready + p.avail <= N
  BY WrapCases, <1>1 DEF Ring, Pool
<1>3. \A k \in -N .. N - 1 : At(q, k) = At(p, k + 1)
  BY <1>1, <1>2, Steps DEF At
<1> HIDE DEF q
<1>4. ASSUME NEW b \in p.busy
      PROVE  b \in {At(q, k) : k \in -q.avail .. -1} \cup {At(q, k) : k \in 0 .. q.ready - 1}
  <2>1. PICK j \in (-p.avail .. p.avail - p.avail - 1) \cup (0 .. p.ready - 1) : b = At(p, j)
    BY <1>4 DEF InUse
  <2>2. j \in Int /\ j - 1 \in -N .. N - 1 /\ (j - 1) + 1 = j
    BY <1>1, <1>2, <2>1
  <2>3. b = At(q, j - 1)
    BY <1>3, <2>1, <2>2
  <2>4. j - 1 \in (-q.avail .. -1) \cup (0 .. q.ready - 1)
    BY <1>1, <1>2, <2>1, <2>2
  <2> QED
    BY <2>3, <2>4
<1>5. ASSUME NEW k \in (-q.avail .. -1) \cup (0 .. q.ready - 1)
      PROVE  At(q, k) \in p.busy
  <2>1. k \in -N .. N - 1 /\ k + 1 \in (-p.avail .. p.avail - p.avail - 1) \cup (0 .. p.ready - 1)
    BY <1>1, <1>2
  <2>2. At(q, k) = At(p, k + 1)
    BY <1>3, <2>1
  <2> QED
    BY <2>1, <2>2 DEF InUse
<1>6. q.avail - q.avail - 1 = -1 /\ q.avail \in 0 .. q.avail
  BY <1>1, <1>2
<1>7. q.busy = {At(q, k) : k \in -q.avail .. q.avail - q.avail - 1}
               \cup {At(q, k) : k \in 0 .. q.ready - 1}
  BY <1>1, <1>4, <1>5, <1>6
<1> QED
  BY <1>6, <1>7 DEF InUse, q

\* The first that is handed out is the one consume() looks at first.
LEMMA OldestPlace ==
  ASSUME NEW p, Ring(p)
  PROVE  Oldest(p) = At(p, -p.avail)
<1>1. p.read \in Int /\ p.avail \in Int /\ p.read - p.avail = p.read + (-p.avail)
  BY WrapCases DEF Ring, Pool, Buffer
<1> QED
  BY <1>1 DEF Oldest, At

\* consume() finds every buffer that is handed out.
LEMMA Found ==
  ASSUME NEW p, Ring(p), NEW k \in -p.avail .. -1
  PROVE  CanConsume(p, At(p, k))
<1>1. /\ N \in Nat /\ N > 0 /\ p.avail \in 1 .. N /\ p.read \in 0 .. N - 1 /\ k \in -N .. -1
      /\ p.avail # 0 /\ k \in Int
  BY WrapCases DEF Ring, Pool, Buffer
<1>2. At(p, k) \in Buffer /\ p.read + k \in Int
  BY <1>1, WrapCases DEF At
<1>3. Oldest(p) = IF p.avail <= p.read THEN p.read - p.avail ELSE p.read - p.avail + N
  BY <1>1, WrapCases DEF Oldest
<1>4. At(p, k) = IF p.read + k < 0 THEN p.read + k + N ELSE p.read + k
  BY <1>1, WrapCases DEF At
<1>5. CASE p.avail = N
  BY <1>1, <1>2, <1>3, <1>5 DEF CanConsume, Scanned
<1>6. CASE p.avail < N
  <2>1. \A i \in -(N - 1) .. N - 1 : Wrap(i) = IF i < 0 THEN i + N ELSE i
    BY <1>1, WrapCases
  <2>2. Oldest(p) \in 0 .. N - 1 /\ At(p, k) \in 0 .. N - 1
    BY <1>1, <1>3, <1>4
  <2>3. At(p, k) - Oldest(p) \in -(N - 1) .. N - 1 /\ p.read - Oldest(p) \in -(N - 1) .. N - 1
    BY <1>1, <2>2
  <2>4. Wrap(p.read - Oldest(p)) = p.avail
    BY <1>1, <1>3, <1>6, <2>1, <2>3
  <2>5. Wrap(At(p, k) - Oldest(p)) = k + p.avail
    BY <1>1, <1>3, <1>4, <1>6, <2>1, <2>3
  <2>6. Wrap(At(p, k) - Oldest(p)) < Wrap(p.read - Oldest(p))
    BY <1>1, <2>4, <2>5
  <2> QED
    BY <1>1, <1>2, <2>6 DEF CanConsume, Scanned
<1> QED
  BY <1>1, <1>5, <1>6

\* Consuming the oldest buffer that is in use releases its slot, and if it was
\* the last one all that were consumed before their turn.
LEMMA ConsumedOldest ==
  ASSUME NEW p, Ring(p), NEW h, InUse(p, h), h > 0, p.ready = 0 \/ h = p.avail
  PROVE  LET b == At(p, -p.avail)
             q == Consumed(p, b)
         IN  /\ CanConsume(p, b) /\ Ring(q) /\ InUse(q, h - 1)
             /\ q.ready = p.ready /\ q.read = p.read /\ q.write = p.write
             /\ q.avail = IF h = 1 THEN 0 ELSE p.avail - 1
<1> DEFINE b == At(p, -p.avail)
           q == Consumed(p, b)
           rest == p.busy \ {b}
<1>1. /\ N \in Nat /\ N > 0 /\ p.avail \in 1 .. N /\ h \in 1 .. p.avail /\ p.ready \in 0 .. N
      /\ p.ready + p.avail <= N /\ p.read \in Buffer
  BY WrapCases DEF Ring, Pool, InUse
<1>2. CanConsume(p, b)
  BY <1>1, Found
<1>3. \A k \in -p.avail .. p.ready - 1 : At(p, k) = b => k = -p.avail
  <2> SUFFICES ASSUME NEW k \in -p.avail .. p.ready - 1, k # -p.avail PROVE At(p, k) # b
    OBVIOUS
  <2>1. k \in Int /\ -p.avail \in Int /\ -p.avail <= k /\ k <= p.ready - 1
    BY <1>1
  <2>2. -p.avail \in -N .. N /\ k \in -N .. N /\ -p.avail < k
    BY <1>1, <2>1
  <2>3. k - (-p.avail) < N
    BY <1>1, <2>1
  <2> QED
    BY <1>1, <2>2, <2>3, Apart DEF At
<1>4. b \in p.busy
  <2>1. -p.avail \in -p.avail .. h - p.avail - 1
    BY <1>1
  <2> QED
    BY <2>1 DEF InUse
<1>5. Toggled(p.busy, b) = rest /\ Oldest(p) = b /\ b \notin rest
  BY <1>4, OldestPlace DEF Toggled
<1>6. Wrap(b + 1) = At(p, -p.avail + 1)
  <2>1. -p.avail \in -N .. N - 1
    BY <1>1
  <2> QED
    BY <1>1, <2>1, Steps DEF At
<1>7. h > 1 => Wrap(b + 1) \in rest
  <2> SUFFICES ASSUME h > 1 PROVE At(p, -p.avail + 1) \in rest
    BY <1>6
  <2>1. -p.avail + 1 \in -p.avail .. h - p.avail - 1 /\ -p.avail + 1 # -p.avail
    BY <1>1
  <2>2. -p.avail + 1 \in -p.avail .. p.ready - 1
    BY <1>1
  <2>3. At(p, -p.avail + 1) \in p.busy
    BY <2>1 DEF InUse
  <2> QED
    BY <1>3, <2>1, <2>2, <2>3
<1>8. h = 1 /\ p.avail > 1 => Wrap(b + 1) \notin rest
  <2> SUFFICES ASSUME h = 1, p.avail > 1 PROVE At(p, -p.avail + 1) \notin p.busy
    BY <1>6
  <2>1. p.ready = 0
    BY <1>1
  <2>2. /\ -p.avail + 1 \in -p.avail .. p.ready /\ -p.avail + 1 < N - p.avail
        /\ ~(-p.avail + 1 < h - p.avail) /\ -p.avail + 1 \notin 0 .. p.ready - 1
    BY <1>1, <2>1
  <2> QED
    BY <2>2, Places
<1> DEFINE n == IF h = 1 THEN p.avail ELSE 1
<1>9. /\ Ring(q) /\ q.ready = p.ready /\ q.read = p.read /\ q.write = p.write
      /\ q.busy = rest /\ q.avail = p.avail - n
  <2>1. n = IF Oldest(p) \in rest THEN 0 ELSE IF Wrap(b + 1) \in rest THEN 1 ELSE p.avail
    BY <1>1, <1>5, <1>7, <1>8
  <2>2. /\ Ring(q) /\ q.ready = p.ready /\ q.read = p.read /\ q.write = p.write
        /\ q.busy = Toggled(p.busy, b)
        /\ q.avail = p.avail - (IF Oldest(p) \in Toggled(p.busy, b) THEN 0
                                ELSE IF Wrap(b + 1) \in Toggled(p.busy, b) THEN 1 ELSE p.avail)
    BY <1>2, ConsumedFields
  <2> HIDE DEF q, b, rest, n
  <2> QED
    BY <1>5, <2>1, <2>2
<1>10. q.avail = IF h = 1 THEN 0 ELSE p.avail - 1
  BY <1>1, <1>9
<1> HIDE DEF q
<1>11. \A k : At(q, k) = At(p, k)
  BY <1>9 DEF At
<1>12. rest = {At(p, k) : k \in -p.avail + 1 .. h - p.avail - 1} \cup {At(p, k) : k \in 0 .. p.ready - 1}
  <2>1. ASSUME NEW x \in rest
        PROVE  \E k \in (-p.avail + 1 .. h - p.avail - 1) \cup (0 .. p.ready - 1) : x = At(p, k)
    <3>1. PICK k \in (-p.avail .. h - p.avail - 1) \cup (0 .. p.ready - 1) : x = At(p, k)
      BY <2>1 DEF InUse
    <3>2. k # -p.avail
      BY <3>1
    <3>3. k \in (-p.avail + 1 .. h - p.avail - 1) \cup (0 .. p.ready - 1)
      BY <1>1, <3>1, <3>2
    <3> QED
      BY <3>1, <3>3
  <2>2. ASSUME NEW k \in (-p.avail + 1 .. h - p.avail - 1) \cup (0 .. p.ready - 1)
        PROVE  At(p, k) \in rest
    <3>1. /\ k \in (-p.avail .. h - p.avail - 1) \cup (0 .. p.ready - 1)
          /\ k \in -p.avail .. p.ready - 1 /\ k # -p.avail
      BY <1>1, <2>2
    <3>2. At(p, k) \in p.busy
      BY <3>1 DEF InUse
    <3> QED
      BY <1>3, <3>1, <3>2
  <2> HIDE DEF rest
  <2> QED
    BY <2>1, <2>2
<1>13. InUse(q, h - 1)
  <2>1. h - 1 \in 0 .. q.avail
    BY <1>1, <1>10
  <2>2. CASE h = 1
    <3>1. -p.avail + 1 .. h - p.avail - 1 = {} /\ -q.avail .. (h - 1) - q.avail - 1 = {}
      BY <1>1, <1>10, <2>2
    <3> HIDE DEF rest
    <3> QED
      BY <1>9, <1>11, <1>12, <2>1, <3>1 DEF InUse
  <2>3. CASE h # 1
    <3>1. -p.avail + 1 = -q.avail /\ h - p.avail - 1 = (h - 1) - q.avail - 1
      BY <1>1, <1>10, <2>3
    <3> HIDE DEF rest
    <3> QED
      BY <1>9, <1>11, <1>12, <2>1, <3>1 DEF InUse
  <2> QED
    BY <2>2, <2>3
<1> QED
  BY <1>2, <1>9, <1>10, <1>13 DEF q

\* Consuming the newest buffer at once keeps its slot, if an older one is in use,
\* and the others in use.
LEMMA ConsumedNewest ==
  ASSUME NEW p, Ring(p), p.ready = 0, NEW h, InUse(p, h), h = 0 => p.avail = 0, CanProduce(p)
  PROVE  LET t == Extracted(Produced(p))
             q == Consumed(t, p.write)
         IN  /\ CanConsume(t, p.write) /\ Ring(q) /\ q.ready = 0
             /\ InUse(q, h) /\ (h = 0 => q.avail = 0) /\ q.busy = p.busy
             /\ q.avail - h >= p.avail - h
             /\ \A k \in 0 .. h - 1 : At(q, k - q.avail) = At(p, k - p.avail)
<1> DEFINE m == Produced(p)
           t == Extracted(m)
           b == p.write
           q == Consumed(t, b)
<1>1. /\ Ring(m) /\ m.ready = 1 /\ m.avail = p.avail /\ m.read = p.read /\ m.busy = p.busy \cup {b}
      /\ b = At(p, 0) /\ b \in Buffer /\ p.avail < N
  <2>1. p.avail \in 0 .. N /\ N \in Nat
    BY WrapCases DEF Ring
  <2>2. /\ Ring(m) /\ m.ready = p.ready + 1 /\ m.avail = p.avail /\ m.read = p.read
        /\ m.busy = p.busy \cup {b} /\ b = At(p, p.ready) /\ b \in Buffer /\ p.ready + p.avail < N
    BY ProducedFields
  <2> HIDE DEF m, b
  <2> QED
    BY <2>1, <2>2
<1>2. CanExtract(m)
  BY <1>1 DEF CanExtract
<1>3. /\ Ring(t) /\ t.ready = 0 /\ t.avail = p.avail + 1 /\ t.read = Wrap(p.read + 1)
      /\ t.busy = p.busy \cup {b}
  <2> HIDE DEF m
  <2> QED
    BY <1>1, <1>2, ExtractedFields
<1>4. b \notin p.busy
  BY ProducedInUse
<1>5. N \in Nat /\ p.avail \in 0 .. N /\ p.read \in Buffer /\ h \in 0 .. p.avail /\ N > 0
  BY WrapCases DEF Ring, Pool, InUse
<1> HIDE DEF m, t
<1>6. \A k \in -N .. N - 1 : At(t, k) = At(p, k + 1)
  BY <1>3, <1>5, Steps DEF At
<1>7. b = At(t, -1)
  BY <1>1, <1>5, <1>6
<1>8. CanConsume(t, b)
  <2>1. -1 \in -t.avail .. -1
    BY <1>3, <1>5
  <2> QED
    BY <1>3, <1>7, <2>1, Found
<1>9. Oldest(t) = At(p, -p.avail)
  <2>1. -t.avail \in -N .. N - 1 /\ -t.avail + 1 = -p.avail
    BY <1>1, <1>3, <1>5
  <2> QED
    BY <1>3, <1>6, <2>1, OldestPlace
<1>10. Toggled(t.busy, b) = p.busy
  BY <1>3, <1>4 DEF Toggled
<1>11. /\ Ring(q) /\ q.ready = 0 /\ q.read = t.read /\ q.busy = p.busy
       /\ q.avail = t.avail - (IF Oldest(t) \in p.busy THEN 0
                               ELSE IF Wrap(b + 1) \in p.busy THEN 1 ELSE t.avail)
  <2> HIDE DEF b
  <2>0. Ring(t)
    BY <1>3
  <2>1. /\ Ring(q) /\ q.ready = t.ready /\ q.read = t.read
        /\ q.busy = Toggled(t.busy, b)
        /\ q.avail = t.avail - (IF Oldest(t) \in Toggled(t.busy, b) THEN 0
                                ELSE IF Wrap(b + 1) \in Toggled(t.busy, b) THEN 1 ELSE t.avail)
    BY <1>8, <2>0, ConsumedFields
  <2> HIDE DEF q
  <2> QED
    BY <1>3, <1>10, <2>1
<1>12. \A k : At(q, k) = At(t, k)
  BY <1>11 DEF At
<1> HIDE DEF q
<1>13. CASE h = 0
  <2>1. p.avail = 0 /\ p.busy = {}
    <3>1. p.avail = 0 /\ -p.avail .. h - p.avail - 1 = {} /\ 0 .. p.ready - 1 = {}
      BY <1>13
    <3> QED
      BY <3>1 DEF InUse
  <2>2. q.avail = 0
    BY <1>3, <1>11, <2>1
  <2>3. -q.avail .. h - q.avail - 1 = {} /\ 0 .. q.ready - 1 = {} /\ 0 .. h - 1 = {}
    BY <1>11, <1>13, <2>2
  <2>4. InUse(q, h)
    BY <1>11, <1>13, <2>1, <2>2, <2>3 DEF InUse
  <2> QED
    BY <1>8, <1>11, <1>13, <2>1, <2>2, <2>3, <2>4 DEF q, t, m
<1>14. CASE h # 0
  <2>1. -p.avail \in -p.avail .. h - p.avail - 1
    BY <1>5, <1>14
  <2>2. Oldest(t) \in p.busy
    BY <1>9, <2>1 DEF InUse
  <2>3. q.avail = p.avail + 1
    BY <1>3, <1>5, <1>11, <2>2
  <2>4. \A k \in 0 .. h - 1 : At(q, k - q.avail) = At(p, k - p.avail)
    <3> TAKE k \in 0 .. h - 1
    <3>1. k - q.avail \in -N .. N - 1 /\ (k - q.avail) + 1 = k - p.avail
      BY <1>1, <1>5, <2>3
    <3> QED
      BY <1>6, <1>12, <3>1
  <2>5. p.busy = {At(p, k) : k \in -p.avail .. h - p.avail - 1}
    <3>1. 0 .. p.ready - 1 = {}
      OBVIOUS
    <3> QED
      BY <3>1 DEF InUse
  <2>6. ASSUME NEW x \in p.busy PROVE \E k \in -q.avail .. h - q.avail - 1 : x = At(q, k)
    <3>1. PICK k \in -p.avail .. h - p.avail - 1 : x = At(p, k)
      BY <2>5
    <3>2. /\ k - 1 \in -N .. N - 1 /\ (k - 1) + 1 = k /\ k - 1 \in -q.avail .. h - q.avail - 1
      BY <1>1, <1>5, <2>3
    <3> QED
      BY <1>6, <1>12, <3>1, <3>2
  <2>7. ASSUME NEW k \in -q.avail .. h - q.avail - 1 PROVE At(q, k) \in p.busy
    <3>1. k \in -N .. N - 1 /\ k + 1 \in -p.avail .. h - p.avail - 1
      BY <1>1, <1>5, <2>3
    <3> QED
      BY <1>6, <1>12, <2>5, <3>1
  <2>8. InUse(q, h)
    <3>1. h \in 0 .. q.avail /\ 0 .. q.ready - 1 = {}
      BY <1>5, <1>11, <2>3
    <3>2. q.busy = {At(q, k) : k \in -q.avail .. h - q.avail - 1}
      BY <1>11, <2>6, <2>7
    <3> QED
      BY <3>1, <3>2 DEF InUse
  <2>9. q.avail - h >= p.avail - h
    BY <1>5, <2>3
  <2> QED
    BY <1>8, <1>11, <1>14, <2>4, <2>8, <2>9 DEF q, t, m
<1> QED
  BY <1>13, <1>14

=============================================================================
