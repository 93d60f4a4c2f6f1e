------------------------- MODULE HciTransportProofs -------------------------
(***************************************************************************)
(* That the two ends of the HCI transport stay in step and that each       *)
(* direction keeps the promise of ReliableLink, for every Modulus above 2, *)
(* every number of retries and buffers, and every use.  The argument is    *)
(* that of the alternating bit protocol: read from the sender to the       *)
(* receiver and back, the numbers change once, from the old to the new.    *)
(***************************************************************************)
EXTENDS HciTransport, TLAPS, SequenceTheorems

\* Frame i of those under way: the line first, then the one in hci_slip.c.
Nth(q, s, i) == IF i <= Len(q) THEN q[i] ELSE s
Is(f, type) == f # None /\ f.type = type

\* Frames of one type under way have a number in lo until one has the number
\* hi; from there on they have hi, or none.
Follow(q, s, type, lo, hi) ==
  /\ \A i \in 1 .. Len(q) + 1 :
       Is(Nth(q, s, i), type) => Nth(q, s, i).number \in lo \cup {hi, None}
  /\ \A i, j \in 1 .. Len(q) + 1 :
       /\ i < j /\ Is(Nth(q, s, i), type) /\ Is(Nth(q, s, j), type)
       /\ Nth(q, s, i).number = hi
       => Nth(q, s, j).number \in {hi, None}

\* The numbers that come before number e.
Before(e) == {d \in Number : Incremented(d) = e}

\* Packets from n: what is under way is the packet before the expected one or
\* has the number in use; acknowledgements say that number or what is expected.
NumbersInv(n) ==
  /\ rx[Peer(n)].expected \in {tx[n].seq, Incremented(tx[n].seq)}
  /\ Follow(line[Peer(n)], slip[n], "DATA", Before(rx[Peer(n)].expected), tx[n].seq)
  /\ Follow(line[n], slip[Peer(n)], "ACK", {tx[n].seq}, rx[Peer(n)].expected)

Numbered == TypeOK /\ \A n \in End : NumbersInv(n)

Frames == Frame \cup {None}

-----------------------------------------------------------------------------
(* The ends, the numbers and the halves.                                   *)

\* There are two ends, each the peer of the other.
LEMMA PeerFacts ==
  ASSUME NEW n \in End
  PROVE  /\ Peer(n) \in End /\ Peer(n) # n /\ Peer(Peer(n)) = n
         /\ \A m \in End : m = n \/ m = Peer(n)
<1>1. \A x \in End : \E y \in End : y # x
  BY DEF End
<1>2. ASSUME NEW x \in End PROVE Peer(x) \in End /\ Peer(x) # x
  BY <1>1 DEF Peer
<1> QED
  BY <1>2 DEF End

\* Three numbers in a row are different.
LEMMA NumberFacts ==
  /\ None \notin Number /\ 1 \in Number
  /\ \A s \in Number : /\ Incremented(s) \in Number /\ Incremented(s) # s
                       /\ Incremented(Incremented(s)) # s
  /\ \A s, d \in Number : Incremented(s) = Incremented(d) => s = d
<1>1. Modulus \in Nat /\ Modulus > 2 /\ None \notin Number
  BY TransportAssumption, NoneAssumption
<1>2. ASSUME NEW s \in Number
      PROVE  Incremented(s) = IF s = Modulus - 1 THEN 0 ELSE s + 1
  <2>1. s \in 0 .. Modulus - 1
    BY DEF Number
  <2> QED
    BY <1>1, <2>1 DEF Incremented
<1>3. \A s \in Number : s \in Nat /\ s <= Modulus - 1
  BY <1>1 DEF Number
<1>4. \A s \in Nat : s <= Modulus - 1 => s \in Number
  BY <1>1 DEF Number
<1> QED
  BY <1>1, <1>2, <1>3, <1>4

\* What comes before the successor of s is s.
LEMMA BeforeSuccessor ==
  ASSUME NEW s \in Number
  PROVE  Before(Incremented(s)) = {s}
  BY NumberFacts DEF Before

Sender == [state : {"IDLE", "PENDING", "ACTIVE"}, seq : Number,
           retries : 0 .. MaxRetry, packet : Nat, failed : BOOLEAN,
           next : {"PENDING", "ACTIVE", None}]
Receiver == [expected : Number, listening : BOOLEAN,
             free : 0 .. Buffers, last : Nat, turn : BOOLEAN]

\* The branches of the state machine keep the transmitting half well typed.
LEMMA SenderTypes ==
  ASSUME NEW t \in Sender
  PROVE  /\ Active(t) \in Sender /\ Success(t) \in Sender /\ Failure(t) \in Sender
         /\ t.next # None => Entered(t) \in Sender
         /\ t.retries # MaxRetry => [t EXCEPT !.retries = @ + 1] \in Sender
<1>1. MaxRetry \in Nat /\ 0 \in 0 .. MaxRetry
  BY TransportAssumption
<1>2. Active(t) \in Sender
  BY <1>1 DEF Active, Sender
<1>3. Success(t) \in Sender /\ Failure(t) \in Sender
  BY NumberFacts DEF Success, Failure, Sender
<1>4. [t EXCEPT !.state = "PENDING"] \in Sender
  BY DEF Sender
<1>5. \A u \in Sender : [u EXCEPT !.next = None] \in Sender
  BY DEF Sender
<1>6. Entered(t) \in Sender
  BY <1>2, <1>4, <1>5 DEF Entered
<1>7. t.retries # MaxRetry => [t EXCEPT !.retries = @ + 1] \in Sender
  BY <1>1 DEF Sender
<1> QED
  BY <1>2, <1>3, <1>6, <1>7

\* A receive buffer is registered only if the pool has one.
LEMMA ReceiverTypes ==
  ASSUME NEW r \in Receiver
  PROVE  /\ Registered(r) \in Receiver
         /\ Registered(r).expected = r.expected /\ Registered(r).last = r.last
         /\ Registered(r).turn = r.turn
<1>1. Buffers \in Nat \ {0} /\ r.free \in 0 .. Buffers
  BY TransportAssumption DEF Receiver
<1>2. (IF r.free > 0 THEN r.free - 1 ELSE 0) \in 0 .. Buffers /\ (r.free > 0) \in BOOLEAN
  BY <1>1
<1>3. Registered(r) = [r EXCEPT !.listening = r.free > 0,
                                !.free = IF r.free > 0 THEN r.free - 1 ELSE 0]
  BY DEF Registered, Receiver
<1>4. /\ Registered(r).expected = r.expected /\ Registered(r).last = r.last
      /\ Registered(r).turn = r.turn
  BY <1>3 DEF Receiver
<1>5. \A k \in 0 .. Buffers :
        /\ [r EXCEPT !.listening = TRUE, !.free = k] \in Receiver
        /\ [r EXCEPT !.listening = FALSE, !.free = k] \in Receiver
  BY DEF Receiver
<1>6. Registered(r) \in Receiver
  <2>1. CASE r.free > 0
    <3>1. (r.free > 0) = TRUE /\ r.free - 1 \in 0 .. Buffers
      BY <1>1, <2>1
    <3>2. Registered(r) = [r EXCEPT !.listening = TRUE, !.free = r.free - 1]
      BY <1>3, <3>1
    <3> QED
      BY <1>5, <3>1, <3>2
  <2>2. CASE ~(r.free > 0)
    <3>1. (r.free > 0) = FALSE /\ 0 \in 0 .. Buffers
      BY <1>1, <2>2
    <3>2. Registered(r) = [r EXCEPT !.listening = FALSE, !.free = 0]
      BY <1>3, <3>1
    <3> QED
      BY <1>5, <3>1, <3>2
  <2> QED
    BY <2>1, <2>2
<1> QED
  BY <1>4, <1>6

LEMMA FrameTypes ==
  /\ \A t \in Sender : Data(t) \in Frame
  /\ \A r \in Receiver : Ack(r) \in Frame
  /\ \A f \in Frames, g \in Frame : \A h \in Sent(f, g) :
       /\ h \in Frames
       /\ \/ h = f
          \/ h = g
          \/ h = [g EXCEPT !.number = None]
<1>1. \A t \in Sender : Data(t) \in Frame
  BY DEF Data, Frame, Sender
<1>2. \A r \in Receiver : Ack(r) \in Frame
  BY DEF Ack, Frame, Receiver
<1>3. \A g \in Frame : [g EXCEPT !.number = None] \in Frame
  BY DEF Frame
<1>4. ASSUME NEW f \in Frames, NEW g \in Frame, NEW h \in Sent(f, g)
      PROVE  h = f \/ h = g \/ h = [g EXCEPT !.number = None]
  <2>1. CASE f = None
    BY <1>4, <2>1 DEF Sent
  <2>2. CASE f # None /\ f.type = g.type
    BY <1>4, <2>2 DEF Sent, Overwritten
  <2>3. CASE f # None /\ f.type # g.type
    BY <1>4, <2>3 DEF Sent
  <2> QED
    BY <2>1, <2>2, <2>3
<1>5. ASSUME NEW f \in Frames, NEW g \in Frame, NEW h \in Sent(f, g)
      PROVE  h \in Frames
  BY <1>3, <1>4 DEF Frames
<1> QED
  BY <1>1, <1>2, <1>4, <1>5

-----------------------------------------------------------------------------
(* Type correctness.                                                       *)

LEMMA TypeFacts ==
  ASSUME TypeOK, NEW n \in End
  PROVE  /\ tx[n] \in Sender /\ rx[n] \in Receiver /\ slip[n] \in Frames
         /\ line[n] \in Seq(Frame)
  BY DEF TypeOK, Sender, Receiver, Frames

\* A step that updates each component at one end with a well-typed value.
LEMMA UpdateTypes ==
  ASSUME TypeOK, NEW n \in End, NEW m \in End, use' = use,
         tx' = tx \/ \E t \in Sender : tx' = [tx EXCEPT ![n] = t],
         rx' = rx \/ \E r \in Receiver : rx' = [rx EXCEPT ![n] = r],
         slip' = slip \/ \E f \in Frames : slip' = [slip EXCEPT ![n] = f],
         line' = line \/ \E q \in Seq(Frame) : line' = [line EXCEPT ![m] = q]
  PROVE  TypeOK'
<1>1. /\ use \in Uses /\ tx \in [End -> Sender] /\ rx \in [End -> Receiver]
      /\ slip \in [End -> Frames] /\ line \in [End -> Seq(Frame)]
  BY DEF TypeOK, Sender, Receiver, Frames
<1>2. tx' \in [End -> Sender] /\ rx' \in [End -> Receiver]
  BY <1>1
<1>3. slip' \in [End -> Frames] /\ line' \in [End -> Seq(Frame)]
  BY <1>1
<1>4. use' \in Uses
  BY <1>1
<1> QED
  BY <1>2, <1>3, <1>4 DEF TypeOK, Sender, Receiver, Frames

LEMMA SendingTypes ==
  ASSUME TypeOK, NEW n \in End,
         Write(n) \/ Written(n) \/ SlipDone(n) \/ Timeout(n)
  PROVE  TypeOK'
<1>1. tx[n] \in Sender /\ slip[n] \in Frames /\ Peer(n) \in End
      /\ line[Peer(n)] \in Seq(Frame)
  BY TypeFacts, PeerFacts
<1>2. CASE Write(n)
  <2> DEFINE t == [tx[n] EXCEPT !.packet = @ + 1,
                                !.next = IF slip[n] = None THEN "ACTIVE" ELSE "PENDING"]
  <2>1. t \in Sender /\ t.next # None
    <3>1. t \in Sender
      <4>1. tx[n].packet + 1 \in Nat
        BY <1>1 DEF Sender
      <4>2. \A k \in Nat, x \in {"PENDING", "ACTIVE", None} :
              [tx[n] EXCEPT !.packet = k, !.next = x] \in Sender
        BY <1>1 DEF Sender
      <4> QED
        BY <4>1, <4>2
    <3>2. "ACTIVE" # None /\ "PENDING" # None
      BY NoneAssumption
    <3> QED
      BY <1>1, <3>1, <3>2 DEF Sender
  <2> HIDE DEF t
  <2>2. Data(t) \in Frame /\ Entered(t) \in Sender
    BY <2>1, FrameTypes, SenderTypes
  <2>3. PICK f \in Sent(slip[n], Data(t)) : slip' = [slip EXCEPT ![n] = f]
    BY <1>2 DEF Write, t
  <2>4. f \in Frames
    BY <1>1, <2>2, FrameTypes
  <2>5. tx' = [tx EXCEPT ![n] = t] \/ tx' = [tx EXCEPT ![n] = Entered(t)]
    BY <1>2 DEF Write, t
  <2>6. UNCHANGED <<use, rx, line>>
    BY <1>2 DEF Write
  <2> QED
    BY <2>1, <2>2, <2>3, <2>4, <2>5, <2>6, UpdateTypes
<1>3. CASE Written(n)
  BY <1>1, <1>3, SenderTypes, UpdateTypes DEF Written
<1>4. CASE SlipDone(n)
  <2>1. Append(line[Peer(n)], slip[n]) \in Seq(Frame)
    BY <1>1, <1>4 DEF SlipDone, Frames
  <2>2. Data(tx[n]) \in Frames /\ None \in Frames /\ Active(tx[n]) \in Sender
    BY <1>1, FrameTypes, SenderTypes DEF Frames
  <2>3. /\ use' = use /\ rx' = rx
        /\ line' = [line EXCEPT ![Peer(n)] = Append(line[Peer(n)], slip[n])]
        /\ tx' = tx \/ tx' = [tx EXCEPT ![n] = Active(tx[n])]
        /\ slip' = [slip EXCEPT ![n] = Data(tx[n])] \/ slip' = [slip EXCEPT ![n] = None]
    BY <1>4 DEF SlipDone
  <2> QED
    BY <1>1, <2>1, <2>2, <2>3, UpdateTypes
<1>5. CASE Timeout(n)
  <2>1. /\ Failure(tx[n]) \in Sender /\ Data(tx[n]) \in Frames
        /\ tx[n].retries # MaxRetry => [tx[n] EXCEPT !.retries = @ + 1] \in Sender
    BY <1>1, FrameTypes, SenderTypes DEF Frames
  <2>2. UNCHANGED <<use, rx, line>>
    BY <1>5 DEF Timeout
  <2>3. CASE tx[n].retries # MaxRetry
    <3>1. /\ tx' = [tx EXCEPT ![n] = [tx[n] EXCEPT !.retries = @ + 1]]
          /\ slip' = [slip EXCEPT ![n] = IF slip[n] = None THEN Data(tx[n]) ELSE slip[n]]
      BY <1>5, <2>3 DEF Timeout
    <3>2. (IF slip[n] = None THEN Data(tx[n]) ELSE slip[n]) \in Frames
      BY <1>1, <2>1
    <3> QED
      BY <2>1, <2>2, <2>3, <3>1, <3>2, UpdateTypes
  <2>4. CASE tx[n].retries = MaxRetry
    <3>1. tx' = [tx EXCEPT ![n] = Failure(tx[n])] /\ slip' = slip
      BY <1>5, <2>4 DEF Timeout
    <3> QED
      BY <2>1, <2>2, <3>1, UpdateTypes
  <2> QED
    BY <2>3, <2>4
<1> QED
  BY <1>2, <1>3, <1>4, <1>5

\* What is left of the line after its first frame.
LEMMA TakenTypes ==
  ASSUME TypeOK, NEW n \in End, line[n] # <<>>
  PROVE  First(n) \in Frame /\ Tail(line[n]) \in Seq(Frame)
  BY TypeFacts DEF First

LEMMA DeliveredTypes ==
  ASSUME TypeOK, NEW n \in End, Arrives(n, "DATA")
  PROVE  /\ Delivered(n) \in Receiver
         /\ Delivered(n).expected = Incremented(rx[n].expected)
         /\ Delivered(n).last = First(n).packet
         /\ Delivered(n).turn = ~rx[n].turn
<1> DEFINE r == [rx[n] EXCEPT !.expected = Incremented(@),
                              !.last = First(n).packet, !.turn = ~@]
<1>1. rx[n] \in Receiver /\ First(n) \in Frame
  BY TypeFacts, TakenTypes DEF Arrives
<1>2. r \in Receiver
  BY <1>1, NumberFacts DEF Receiver, Frame
<1>3. /\ r.expected = Incremented(rx[n].expected)
      /\ r.last = First(n).packet /\ r.turn = ~rx[n].turn
  BY <1>1 DEF Receiver
<1>4. Delivered(n) = Registered(r)
  BY DEF Delivered
<1> QED
  BY <1>2, <1>3, <1>4, ReceiverTypes

LEMMA ReceivingTypes ==
  ASSUME TypeOK, NEW n \in End, Receive(n) \/ Lose(n) \/ Consume(n)
  PROVE  TypeOK'
<1>1. tx[n] \in Sender /\ rx[n] \in Receiver /\ slip[n] \in Frames
  BY TypeFacts
<1>2. ASSUME Taken(n), line[n] # <<>>
      PROVE  \E q \in Seq(Frame) : line' = [line EXCEPT ![n] = q]
  BY <1>2, TakenTypes DEF Taken
<1>3. CASE Deliver(n)
  <2>1. Delivered(n) \in Receiver /\ Ack(Delivered(n)) \in Frame
    BY <1>3, DeliveredTypes, FrameTypes DEF Deliver
  <2>2. PICK f \in Sent(slip[n], Ack(Delivered(n))) : slip' = [slip EXCEPT ![n] = f]
    BY <1>3 DEF Deliver
  <2>3. f \in Frames
    BY <1>1, <2>1, FrameTypes
  <2>4. use' = use /\ tx' = tx /\ rx' = [rx EXCEPT ![n] = Delivered(n)]
        /\ Taken(n) /\ line[n] # <<>>
    BY <1>3 DEF Deliver, Arrives
  <2> QED
    BY <1>2, <2>1, <2>2, <2>3, <2>4, UpdateTypes
<1>4. CASE Repeat(n)
  <2>1. Ack(rx[n]) \in Frame
    BY <1>1, FrameTypes
  <2>2. PICK f \in Sent(slip[n], Ack(rx[n])) : slip' = [slip EXCEPT ![n] = f]
    BY <1>4 DEF Repeat
  <2>3. f \in Frames
    BY <1>1, <2>1, FrameTypes
  <2>4. UNCHANGED <<use, tx, rx>> /\ Taken(n) /\ line[n] # <<>>
    BY <1>4 DEF Repeat, Arrives
  <2> QED
    BY <1>2, <2>2, <2>3, <2>4, UpdateTypes
<1>5. CASE Discard(n) \/ Lose(n)
  BY <1>2, <1>5, UpdateTypes DEF Discard, Lose, Arrives
<1>6. CASE Acknowledge(n)
  <2>1. Success(tx[n]) \in Sender /\ Registered(rx[n]) \in Receiver
    BY <1>1, SenderTypes, ReceiverTypes
  <2>2. /\ use' = use /\ slip' = slip /\ Taken(n) /\ line[n] # <<>>
        /\ tx' = tx \/ tx' = [tx EXCEPT ![n] = Success(tx[n])]
        /\ rx' = rx \/ rx' = [rx EXCEPT ![n] = Registered(rx[n])]
    BY <1>6 DEF Acknowledge, Arrives
  <2> QED
    BY <1>2, <2>1, <2>2, UpdateTypes
<1>7. CASE Consume(n)
  <2>1. [rx[n] EXCEPT !.free = @ + 1] \in Receiver
    BY <1>1, <1>7, TransportAssumption DEF Consume, Receiver
  <2>2. UNCHANGED <<use, tx, slip, line>> /\ rx' = [rx EXCEPT ![n] = [rx[n] EXCEPT !.free = @ + 1]]
    BY <1>7 DEF Consume
  <2> QED
    BY <2>1, <2>2, UpdateTypes
<1> QED
  BY <1>3, <1>4, <1>5, <1>6, <1>7 DEF Receive

LEMMA InitTypes == ASSUME Init PROVE TypeOK
<1>1. /\ MaxRetry \in Nat /\ Buffers \in Nat \ {0} /\ 1 \in Number
      /\ <<>> \in Seq(Frame)
  BY TransportAssumption, NumberFacts
<1>2. /\ use \in Uses
      /\ slip \in [End -> Frames] /\ line \in [End -> Seq(Frame)]
  BY <1>1 DEF Init, Frames
<1>3. tx \in [End -> Sender] /\ rx \in [End -> Receiver]
  BY <1>1 DEF Init, Sender, Receiver
<1> QED
  BY <1>2, <1>3 DEF TypeOK, Frames, Sender, Receiver

LEMMA NextTypes == ASSUME TypeOK, [Next]_vars PROVE TypeOK'
<1>1. CASE UNCHANGED vars
  BY <1>1 DEF vars, TypeOK
<1>2. CASE Next
  BY <1>2, SendingTypes, ReceivingTypes DEF Next
<1> QED
  BY <1>1, <1>2

\* The state stays well typed: the pool counts at most its buffers, and the
\* retries stop at MAX_RETRY_COUNT.
THEOREM TypeCorrect == Spec => []TypeOK
<1>1. Init => TypeOK
  BY InitTypes
<1>2. TypeOK /\ [Next]_vars => TypeOK'
  BY NextTypes
<1> QED
  BY <1>1, <1>2, PTL DEF Spec
-----------------------------------------------------------------------------
(* Frames under way.                                                       *)

\* A frame leaves the line.
LEMMA NthTail ==
  ASSUME NEW q \in Seq(Frame), NEW s \in Frames, q # <<>>
  PROVE  /\ Tail(q) \in Seq(Frame) /\ Len(q) \in Nat \ {0} /\ Len(Tail(q)) = Len(q) - 1
         /\ 1 \in 1 .. Len(q) + 1 /\ Nth(q, s, 1) = Head(q) /\ Head(q) \in Frame
         /\ \A i \in 1 .. Len(Tail(q)) + 1 :
              i + 1 \in 1 .. Len(q) + 1 /\ Nth(Tail(q), s, i) = Nth(q, s, i + 1)
<1>1. Tail(q) \in Seq(Frame) /\ Len(q) \in Nat \ {0} /\ Len(Tail(q)) = Len(q) - 1
      /\ Head(q) = q[1] /\ Head(q) \in Frame
  <2>1. Len(q) \in Nat \ {0}
    BY EmptySeq
  <2>2. Tail(q) \in Seq(Frame) /\ Len(Tail(q)) = Len(q) - 1
    BY HeadTailProperties
  <2> QED
    BY <2>1, <2>2
<1>2. \A i \in 1 .. Len(Tail(q)) : Tail(q)[i] = q[i + 1]
  BY HeadTailProperties
<1>3. ASSUME NEW i \in 1 .. Len(Tail(q)) + 1
      PROVE  i + 1 \in 1 .. Len(q) + 1 /\ Nth(Tail(q), s, i) = Nth(q, s, i + 1)
  <2>1. CASE i <= Len(Tail(q))
    BY <1>1, <1>2, <2>1 DEF Nth
  <2>2. CASE i > Len(Tail(q))
    BY <1>1, <2>2 DEF Nth
  <2> QED
    BY <1>1, <2>1, <2>2
<1> QED
  BY <1>1, <1>3 DEF Nth

LEMMA FollowTail ==
  ASSUME NEW q \in Seq(Frame), NEW s \in Frames, q # <<>>, NEW type, NEW lo, NEW hi,
         Follow(q, s, type, lo, hi)
  PROVE  Follow(Tail(q), s, type, lo, hi)
<1> DEFINE r == Tail(q)
<1>1. /\ Len(r) = Len(q) - 1 /\ Len(q) \in Nat \ {0}
      /\ \A i \in 1 .. Len(r) + 1 :
           i + 1 \in 1 .. Len(q) + 1 /\ Nth(r, s, i) = Nth(q, s, i + 1)
  BY NthTail
<1> HIDE DEF r
<1>2. \A i \in 1 .. Len(r) + 1 :
        Is(Nth(r, s, i), type) => Nth(r, s, i).number \in lo \cup {hi, None}
  BY <1>1 DEF Follow
<1>3. ASSUME NEW i \in 1 .. Len(r) + 1, NEW j \in 1 .. Len(r) + 1, i < j,
             Is(Nth(r, s, i), type), Is(Nth(r, s, j), type), Nth(r, s, i).number = hi
      PROVE  Nth(r, s, j).number \in {hi, None}
  <2>1. i + 1 < j + 1 /\ i + 1 \in 1 .. Len(q) + 1 /\ j + 1 \in 1 .. Len(q) + 1
    BY <1>1, <1>3
  <2> QED
    BY <1>1, <1>3, <2>1 DEF Follow
<1> QED
  BY <1>2, <1>3 DEF Follow, r

\* Behind a frame with the number hi, nothing else comes.
LEMMA FollowHead ==
  ASSUME NEW q \in Seq(Frame), NEW s \in Frames, q # <<>>, NEW type, NEW lo, NEW hi,
         Follow(q, s, type, lo, hi), Is(Head(q), type), Head(q).number = hi,
         NEW any
  PROVE  Follow(Tail(q), s, type, any, hi)
<1> DEFINE r == Tail(q)
<1>1. /\ Len(r) = Len(q) - 1 /\ Len(q) \in Nat \ {0}
      /\ 1 \in 1 .. Len(q) + 1 /\ Nth(q, s, 1) = Head(q)
      /\ \A i \in 1 .. Len(r) + 1 :
           i + 1 \in 1 .. Len(q) + 1 /\ Nth(r, s, i) = Nth(q, s, i + 1)
  BY NthTail
<1> HIDE DEF r
<1>2. \A i \in 1 .. Len(r) + 1 : Is(Nth(r, s, i), type) => Nth(r, s, i).number \in {hi, None}
  <2> TAKE i \in 1 .. Len(r) + 1
  <2>1. 1 < i + 1
    BY <1>1
  <2> QED
    BY <1>1, <2>1 DEF Follow
<1> QED
  BY <1>2 DEF Follow, r

\* The frame of hci_slip.c goes to the line.
LEMMA NthDone ==
  ASSUME NEW q \in Seq(Frame), NEW s \in Frame, NEW f \in Frames
  PROVE  /\ Append(q, s) \in Seq(Frame) /\ Len(q) \in Nat
         /\ Len(Append(q, s)) = Len(q) + 1
         /\ \A i \in 1 .. Len(q) + 1 : Nth(Append(q, s), f, i) = Nth(q, s, i)
         /\ Nth(Append(q, s), f, Len(q) + 2) = f
  BY DEF Nth

LEMMA FollowDone ==
  ASSUME NEW q \in Seq(Frame), NEW s \in Frame, NEW type, NEW lo, NEW hi,
         Follow(q, s, type, lo, hi)
  PROVE  Follow(Append(q, s), None, type, lo, hi)
<1> DEFINE r == Append(q, s)
<1>1. /\ Len(r) = Len(q) + 1 /\ Len(q) \in Nat
      /\ \A i \in 1 .. Len(q) + 1 : Nth(r, None, i) = Nth(q, s, i)
      /\ Nth(r, None, Len(q) + 2) = None
  <2>1. None \in Frames
    BY DEF Frames
  <2> QED
    BY <2>1, NthDone
<1>2. \A i \in 1 .. Len(r) + 1 : Is(Nth(r, None, i), type) => i \in 1 .. Len(q) + 1
  <2> TAKE i \in 1 .. Len(r) + 1
  <2>1. i \in 1 .. Len(q) + 1 \/ i = Len(q) + 2
    BY <1>1
  <2> QED
    BY <1>1, <2>1 DEF Is
<1> HIDE DEF r
<1>3. \A i \in 1 .. Len(r) + 1 :
        Is(Nth(r, None, i), type) => Nth(r, None, i).number \in lo \cup {hi, None}
  BY <1>1, <1>2 DEF Follow
<1>4. ASSUME NEW i \in 1 .. Len(r) + 1, NEW j \in 1 .. Len(r) + 1, i < j,
             Is(Nth(r, None, i), type), Is(Nth(r, None, j), type),
             Nth(r, None, i).number = hi
      PROVE  Nth(r, None, j).number \in {hi, None}
  BY <1>1, <1>2, <1>4 DEF Follow
<1> QED
  BY <1>3, <1>4 DEF Follow, r

\* hci_slip.c gets a new frame: of another type, or with the last number.
LEMMA FollowNew ==
  ASSUME NEW q \in Seq(Frame), NEW s \in Frames, NEW f \in Frames,
         NEW type, NEW lo, NEW hi, Follow(q, s, type, lo, hi),
         f = s \/ ~Is(f, type) \/ f.number \in {hi, None}
  PROVE  Follow(q, f, type, lo, hi)
<1>1. CASE f = s
  BY <1>1
<1>2. CASE f # s
  <2>1. Is(f, type) => f.number \in {hi, None}
    BY <1>2
  <2>2. /\ Len(q) \in Nat
        /\ \A i \in 1 .. Len(q) + 1 : /\ i \in 1 .. Len(q) \/ i = Len(q) + 1
                                      /\ i \in 1 .. Len(q) => Nth(q, f, i) = Nth(q, s, i)
        /\ Nth(q, f, Len(q) + 1) = f
    BY DEF Nth
  <2>3. \A i \in 1 .. Len(q) + 1 :
          Is(Nth(q, f, i), type) => Nth(q, f, i).number \in lo \cup {hi, None}
    BY <2>1, <2>2 DEF Follow
  <2>4. ASSUME NEW i \in 1 .. Len(q) + 1, NEW j \in 1 .. Len(q) + 1, i < j,
               Is(Nth(q, f, i), type), Is(Nth(q, f, j), type), Nth(q, f, i).number = hi
        PROVE  Nth(q, f, j).number \in {hi, None}
    <3>1. i \in 1 .. Len(q)
      BY <2>2, <2>4
    <3>2. CASE j = Len(q) + 1
      BY <2>1, <2>2, <2>4, <3>2
    <3>3. CASE j \in 1 .. Len(q)
      BY <2>2, <2>4, <3>1, <3>3 DEF Follow
    <3> QED
      BY <2>2, <3>2, <3>3
  <2> QED
    BY <2>3, <2>4 DEF Follow
<1> QED
  BY <1>1, <1>2

\* The last number is a new one, which no frame has yet.
LEMMA FollowNext ==
  ASSUME NEW q, NEW s, NEW type, NEW lo, NEW hi, Follow(q, s, type, lo, hi),
         NEW lo2, lo \cup {hi} \subseteq lo2, NEW hi2, hi2 \notin lo \cup {hi, None}
  PROVE  Follow(q, s, type, lo2, hi2)
<1>1. \A i \in 1 .. Len(q) + 1 :
        Is(Nth(q, s, i), type) => /\ Nth(q, s, i).number \in lo \cup {hi, None}
                                  /\ Nth(q, s, i).number # hi2
  BY DEF Follow
<1>2. \A i \in 1 .. Len(q) + 1 :
        Is(Nth(q, s, i), type) => Nth(q, s, i).number \in lo2 \cup {hi2, None}
  BY <1>1
<1> QED
  BY <1>1, <1>2 DEF Follow

-----------------------------------------------------------------------------
(* The numbers.                                                            *)

LEMMA InitNumbers == ASSUME Init PROVE Numbered
<1>1. TypeOK
  BY InitTypes
<1>2. ASSUME NEW n \in End PROVE NumbersInv(n)
  <2>1. /\ line[n] = <<>> /\ line[Peer(n)] = <<>> /\ slip[n] = None
        /\ slip[Peer(n)] = None /\ tx[n].seq = 1 /\ rx[Peer(n)].expected = 1
    BY PeerFacts DEF Init
  <2>2. \A i \in 1 .. Len(<<>>) + 1 : ~Is(Nth(<<>>, None, i), "DATA") /\ ~Is(Nth(<<>>, None, i), "ACK")
    BY DEF Nth, Is
  <2> QED
    BY <2>1, <2>2 DEF NumbersInv, Follow
<1> QED
  BY <1>1, <1>2 DEF Numbered

\* What the sending half does to the frames under way: the one in hci_slip.c may
\* go to the line, and a data frame with the number in use may take its place.
Pushed(n, q, s) ==
  /\ \/ q = line[Peer(n)] /\ s = slip[n]
     \/ /\ q = line[Peer(n)]
        /\ s \in Frame /\ s.type = "DATA" /\ s.number \in {tx[n].seq, None}
     \/ /\ q = Append(line[Peer(n)], slip[n]) /\ slip[n] # None
        /\ \/ s = None
           \/ s \in Frame /\ s.type = "DATA" /\ s.number = tx[n].seq

LEMMA PushedFollows ==
  ASSUME Numbered, NEW n \in End, NEW q, NEW s, Pushed(n, q, s)
  PROVE  /\ Follow(q, s, "DATA", Before(rx[Peer(n)].expected), tx[n].seq)
         /\ Follow(q, s, "ACK", {tx[Peer(n)].seq}, rx[n].expected)
<1> DEFINE m == Peer(n)
<1>1. /\ Peer(m) = n /\ m \in End /\ line[m] \in Seq(Frame) /\ slip[n] \in Frames
      /\ Follow(line[m], slip[n], "DATA", Before(rx[m].expected), tx[n].seq)
      /\ Follow(line[m], slip[n], "ACK", {tx[m].seq}, rx[n].expected)
  BY PeerFacts, TypeFacts DEF Numbered, NumbersInv
<1> HIDE DEF m
<1>2. \A f \in Frame : f \in Frames
  BY DEF Frames
<1>3. CASE q = line[m] /\ s = slip[n]
  BY <1>1, <1>3 DEF m
<1>4. CASE /\ q = line[m]
           /\ s \in Frame /\ s.type = "DATA" /\ s.number \in {tx[n].seq, None}
  <2>1. ~Is(s, "ACK")
    BY <1>4 DEF Is
  <2> QED
    BY <1>1, <1>2, <1>4, <2>1, FollowNew DEF m
<1>5. CASE /\ q = Append(line[m], slip[n]) /\ slip[n] # None
           /\ \/ s = None
              \/ s \in Frame /\ s.type = "DATA" /\ s.number = tx[n].seq
  <2>1. slip[n] \in Frame /\ None \in Frames
    BY <1>1, <1>5 DEF Frames
  <2>2. q \in Seq(Frame) /\ s \in Frames
    BY <1>1, <1>2, <1>5, <2>1
  <2>3. /\ Follow(q, None, "DATA", Before(rx[m].expected), tx[n].seq)
        /\ Follow(q, None, "ACK", {tx[m].seq}, rx[n].expected)
    BY <1>1, <1>5, <2>1, FollowDone
  <2>4. CASE s = None
    BY <2>3, <2>4 DEF m
  <2>5. CASE s \in Frame /\ s.type = "DATA" /\ s.number = tx[n].seq
    <3>1. ~Is(s, "ACK") /\ s.number \in {tx[n].seq, None}
      BY <2>5 DEF Is
    <3> QED
      BY <2>1, <2>2, <2>3, <3>1, FollowNew DEF m
  <2> QED
    BY <1>5, <2>4, <2>5
<1> QED
  BY <1>3, <1>4, <1>5 DEF Pushed, m

\* What the steps of the sending half have in common.
Sends(n) ==
  /\ rx' = rx /\ tx'[n].seq = tx[n].seq /\ tx'[Peer(n)] = tx[Peer(n)]
  /\ line'[n] = line[n] /\ slip'[Peer(n)] = slip[Peer(n)]
  /\ Pushed(n, line'[Peer(n)], slip'[n])

\* A frame that overwrites another has its number, its own or none.
LEMMA SentFacts ==
  ASSUME NEW f \in Frames, NEW g \in Frame, NEW h \in Sent(f, g)
  PROVE  h = f \/ (h \in Frame /\ h.type = g.type /\ h.number \in {g.number, None}
                   /\ h.packet = g.packet)
  BY FrameTypes DEF Frame

\* Written(n) and Entered(t) change neither the number nor the packet.
LEMMA EnteredFacts ==
  ASSUME NEW t \in Sender
  PROVE  /\ Entered(t).seq = t.seq /\ Entered(t).packet = t.packet
         /\ Entered(t).failed = t.failed /\ Entered(t).next = None
         /\ Entered(t).state \in {"ACTIVE", "PENDING"}
         /\ Active(t).seq = t.seq /\ Active(t).packet = t.packet
         /\ Active(t).failed = t.failed /\ Active(t).next = t.next
         /\ Active(t).state = "ACTIVE"
  BY DEF Entered, Active, Sender

\* The packet that the application writes, and the state to be entered.
NewPacket(n) == [tx[n] EXCEPT !.packet = @ + 1,
                              !.next = IF slip[n] = None THEN "ACTIVE" ELSE "PENDING"]

LEMMA NewPacketFacts ==
  ASSUME TypeOK, NEW n \in End
  PROVE  /\ NewPacket(n) \in Sender /\ NewPacket(n).seq = tx[n].seq
         /\ NewPacket(n).packet = tx[n].packet + 1 /\ NewPacket(n).failed = tx[n].failed
         /\ NewPacket(n).next \in {"PENDING", "ACTIVE"}
         /\ NewPacket(n).state = tx[n].state
<1>1. tx[n] \in Sender
  BY TypeFacts
<1>2. \A k \in Nat, x \in {"PENDING", "ACTIVE", None} :
        [tx[n] EXCEPT !.packet = k, !.next = x] \in Sender
  BY <1>1 DEF Sender
<1>3. tx[n].packet + 1 \in Nat
  BY <1>1 DEF Sender
<1>4. NewPacket(n) \in Sender
  BY <1>2, <1>3 DEF NewPacket
<1> QED
  BY <1>1, <1>4 DEF NewPacket, Sender

LEMMA SendingPushes ==
  ASSUME TypeOK, NEW n \in End,
         Write(n) \/ Written(n) \/ SlipDone(n) \/ Timeout(n)
  PROVE  Sends(n)
<1> DEFINE m == Peer(n)
<1>0. /\ tx[n] \in Sender /\ slip[n] \in Frames
      /\ m \in End /\ m # n /\ line[m] \in Seq(Frame)
      /\ DOMAIN tx = End /\ DOMAIN slip = End /\ DOMAIN line = End
  BY TypeFacts, PeerFacts DEF TypeOK
<1>d. Data(tx[n]) \in Frame /\ Data(tx[n]).type = "DATA" /\ Data(tx[n]).number = tx[n].seq
  BY <1>0, FrameTypes DEF Data
<1> HIDE DEF m
<1>1. CASE Write(n)
  <2>1. /\ rx' = rx /\ line' = line
        /\ tx' = [tx EXCEPT ![n] = NewPacket(n)] \/ tx' = [tx EXCEPT ![n] = Entered(NewPacket(n))]
    BY <1>1 DEF Write, NewPacket
  <2>2. PICK f \in Sent(slip[n], Data(NewPacket(n))) : slip' = [slip EXCEPT ![n] = f]
    BY <1>1 DEF Write, NewPacket
  <2>3. /\ Data(NewPacket(n)) \in Frame /\ Data(NewPacket(n)).type = "DATA"
        /\ Data(NewPacket(n)).number = tx[n].seq
    BY FrameTypes, NewPacketFacts DEF Data
  <2>4. f = slip[n] \/ (f \in Frame /\ f.type = "DATA" /\ f.number \in {tx[n].seq, None})
    BY <1>0, <2>3, SentFacts
  <2>5. /\ tx'[n].seq = tx[n].seq /\ tx'[m] = tx[m]
        /\ slip'[n] = f /\ slip'[m] = slip[m]
    BY <1>0, <2>1, <2>2, NewPacketFacts, EnteredFacts
  <2> QED
    BY <2>1, <2>4, <2>5 DEF Sends, Pushed, m
<1>2. CASE Written(n)
  <2>1. /\ rx' = rx /\ line' = line /\ slip' = slip /\ tx' = [tx EXCEPT ![n] = Entered(tx[n])]
    BY <1>2 DEF Written
  <2>2. tx'[n].seq = tx[n].seq /\ tx'[m] = tx[m]
    BY <1>0, <2>1, EnteredFacts
  <2> QED
    BY <2>1, <2>2 DEF Sends, Pushed, m
<1>3. CASE SlipDone(n)
  <2>1. /\ rx' = rx /\ slip[n] # None
        /\ line' = [line EXCEPT ![m] = Append(line[m], slip[n])]
        /\ \/ tx' = tx /\ slip' = [slip EXCEPT ![n] = None]
           \/ tx' = [tx EXCEPT ![n] = Active(tx[n])] /\ slip' = [slip EXCEPT ![n] = Data(tx[n])]
    BY <1>3 DEF SlipDone, m
  <2>2. /\ tx'[n].seq = tx[n].seq /\ tx'[m] = tx[m]
        /\ line'[m] = Append(line[m], slip[n]) /\ line'[n] = line[n]
        /\ slip'[n] \in {None, Data(tx[n])} /\ slip'[m] = slip[m]
    BY <1>0, <2>1, EnteredFacts
  <2> QED
    BY <1>d, <2>1, <2>2 DEF Sends, Pushed, m
<1>4. CASE Timeout(n)
  <2>1. rx' = rx /\ line' = line
    BY <1>4 DEF Timeout
  <2>2. \/ tx' = [tx EXCEPT ![n].retries = @ + 1]
        \/ tx' = [tx EXCEPT ![n] = Failure(tx[n])]
    BY <1>4 DEF Timeout
  <2>3. tx'[n].seq = tx[n].seq /\ tx'[m] = tx[m]
    BY <1>0, <2>2 DEF Failure, Sender
  <2>4. /\ slip'[n] \in {slip[n], Data(tx[n])} /\ slip'[m] = slip[m]
    BY <1>0, <1>4 DEF Timeout
  <2> QED
    BY <1>d, <2>1, <2>3, <2>4 DEF Sends, Pushed, m
<1> QED
  BY <1>1, <1>2, <1>3, <1>4

\* The sending half keeps the numbers.
LEMMA SendingNumbers ==
  ASSUME Numbered, NEW n \in End, Sends(n)
  PROVE  \A k \in End : NumbersInv(k)'
<1> DEFINE m == Peer(n)
<1>1. m \in End /\ Peer(m) = n /\ \A k \in End : k = n \/ k = m
  BY PeerFacts
<1>2. /\ Follow(line'[m], slip'[n], "DATA", Before(rx[m].expected), tx[n].seq)
      /\ Follow(line'[m], slip'[n], "ACK", {tx[m].seq}, rx[n].expected)
  BY PushedFollows DEF Sends
<1>3. NumbersInv(n) /\ NumbersInv(m)
  BY <1>1 DEF Numbered
<1>4. NumbersInv(n)'
  BY <1>2, <1>3 DEF NumbersInv, Sends
<1>5. NumbersInv(m)'
  BY <1>1, <1>2, <1>3 DEF NumbersInv, Sends
<1> QED
  BY <1>1, <1>4, <1>5

\* What the arrival of a frame at n does: the frame leaves the line, and an
\* acknowledgement of what is expected may take its place in hci_slip.c.
Answered(n, expected) ==
  \/ slip'[n] = slip[n]
  \/ slip'[n] \in Frame /\ slip'[n].type = "ACK" /\ slip'[n].number \in {expected, None}

\* What the steps of the receiving half have in common.
Receives(n) ==
  /\ line[n] # <<>> /\ line'[n] = Tail(line[n])
  /\ line'[Peer(n)] = line[Peer(n)] /\ slip'[Peer(n)] = slip[Peer(n)]
  /\ tx'[Peer(n)] = tx[Peer(n)] /\ rx'[Peer(n)] = rx[Peer(n)]

LEMMA ReceivingFacts ==
  ASSUME Numbered, NEW n \in End, line[n] # <<>>
  PROVE  LET m == Peer(n) IN
         /\ m \in End /\ Peer(m) = n /\ \A k \in End : k = n \/ k = m
         /\ line[n] \in Seq(Frame) /\ line[m] \in Seq(Frame)
         /\ slip[n] \in Frames /\ slip[m] \in Frames
         /\ First(n) \in Frame
         /\ tx[n].seq \in Number /\ tx[m].seq \in Number
         /\ rx[n].expected \in Number /\ rx[m].expected \in Number
         /\ NumbersInv(n) /\ NumbersInv(m)
<1>1. Peer(n) \in End
  BY PeerFacts
<1>2. TypeOK
  BY DEF Numbered
<1>3. /\ tx[n].seq \in Number /\ tx[Peer(n)].seq \in Number
      /\ rx[n].expected \in Number /\ rx[Peer(n)].expected \in Number
  BY <1>1, <1>2, TypeFacts DEF Sender, Receiver
<1> QED
  BY <1>1, <1>2, <1>3, PeerFacts, TypeFacts, TakenTypes DEF Numbered

\* A data frame arrives: is it the expected one?
LEMMA ArrivedNumber ==
  ASSUME Numbered, NEW n \in End, Arrives(n, "DATA"), Expected(n)
  PROVE  /\ First(n).number = tx[Peer(n)].seq
         /\ rx[n].expected = tx[Peer(n)].seq
         /\ Before(rx[n].expected) \cap {tx[Peer(n)].seq} = {}
<1> DEFINE m == Peer(n)
<1>1. /\ Peer(m) = n /\ line[n] \in Seq(Frame) /\ slip[m] \in Frames /\ line[n] # <<>>
      /\ tx[m].seq \in Number /\ rx[n].expected \in Number /\ NumbersInv(m)
  BY ReceivingFacts DEF Arrives
<1>2. First(n).number \in Before(rx[n].expected) \cup {tx[m].seq, None}
  <2>1. Nth(line[n], slip[m], 1) = First(n) /\ 1 \in 1 .. Len(line[n]) + 1
    BY <1>1, NthTail DEF First
  <2>2. Is(First(n), "DATA")
    <3>1. First(n) \in Frame
      BY ReceivingFacts DEF Arrives
    <3> QED
      BY <3>1, NoneAssumption DEF Is, Arrives
  <2> QED
    BY <1>1, <2>1, <2>2 DEF NumbersInv, Follow
<1>3. First(n).number = rx[n].expected
  BY DEF Expected
<1>4. rx[n].expected \notin Before(rx[n].expected) /\ rx[n].expected # None
  BY <1>1, NumberFacts DEF Before
<1> QED
  BY <1>2, <1>3, <1>4
LEMMA ArrivalType ==
  ASSUME Numbered, NEW n \in End, line[n] # <<>>
  PROVE  /\ Head(line[n]) = First(n)
         /\ \A type : First(n).type = type => Is(Head(line[n]), type)
<1>1. First(n) \in Frame
  BY ReceivingFacts
<1>2. First(n) # None
  BY <1>1, NoneAssumption
<1> QED
  BY <1>2 DEF First, Is

\* Both paths after an arrival at n that leaves the numbers as they are.
LEMMA ArrivalNumbers ==
  ASSUME Numbered, NEW n \in End, Receives(n), Answered(n, rx[n].expected),
         tx'[n].seq = tx[n].seq, rx'[n].expected = rx[n].expected
  PROVE  \A k \in End : NumbersInv(k)'
<1> DEFINE m == Peer(n)
<1>0. /\ m \in End /\ Peer(m) = n /\ \A k \in End : k = n \/ k = m
      /\ line[n] \in Seq(Frame) /\ line[m] \in Seq(Frame)
      /\ slip[n] \in Frames /\ slip[m] \in Frames
      /\ NumbersInv(n) /\ NumbersInv(m) /\ line[n] # <<>>
  BY ReceivingFacts DEF Receives
<1>1. /\ line'[n] = Tail(line[n]) /\ line'[m] = line[m] /\ slip'[m] = slip[m]
      /\ tx'[m] = tx[m] /\ rx'[m] = rx[m]
  BY DEF Receives
<1> HIDE DEF m
<1>2. /\ Follow(line[m], slip[n], "DATA", Before(rx[m].expected), tx[n].seq)
      /\ Follow(line[m], slip[n], "ACK", {tx[m].seq}, rx[n].expected)
      /\ Follow(line[n], slip[m], "DATA", Before(rx[n].expected), tx[m].seq)
      /\ Follow(line[n], slip[m], "ACK", {tx[n].seq}, rx[m].expected)
  BY <1>0 DEF NumbersInv, m
<1>3. /\ Follow(line'[n], slip[m], "DATA", Before(rx[n].expected), tx[m].seq)
      /\ Follow(line'[n], slip[m], "ACK", {tx[n].seq}, rx[m].expected)
  BY <1>0, <1>1, <1>2, FollowTail
<1>4. slip'[n] \in Frames
  BY <1>0 DEF Answered, Frames
<1>5. Follow(line[m], slip'[n], "DATA", Before(rx[m].expected), tx[n].seq)
  <2>1. slip'[n] = slip[n] \/ ~Is(slip'[n], "DATA")
    BY DEF Answered, Is
  <2> QED
    BY <1>0, <1>2, <1>4, <2>1, FollowNew
<1>6. Follow(line[m], slip'[n], "ACK", {tx[m].seq}, rx[n].expected)
  <2>1. slip'[n] = slip[n] \/ slip'[n].number \in {rx[n].expected, None}
    BY DEF Answered
  <2> QED
    BY <1>0, <1>2, <1>4, <2>1, FollowNew
<1>7. NumbersInv(n)'
  BY <1>0, <1>1, <1>3, <1>5 DEF NumbersInv, m
<1>8. NumbersInv(m)'
  BY <1>0, <1>1, <1>3, <1>6 DEF NumbersInv, m
<1> QED
  BY <1>0, <1>7, <1>8

\* The expected packet: its number is the one in use, and nothing under way has
\* the next number yet.
LEMMA DeliverNumbers ==
  ASSUME Numbered, NEW n \in End, Receives(n), Arrives(n, "DATA"), Expected(n),
         tx'[n] = tx[n], rx'[n].expected = Incremented(rx[n].expected),
         Answered(n, Incremented(rx[n].expected))
  PROVE  \A k \in End : NumbersInv(k)'
<1> DEFINE m == Peer(n)
           S == tx[m].seq
           E == Incremented(S)
<1>0. /\ m \in End /\ Peer(m) = n /\ \A k \in End : k = n \/ k = m
      /\ line[n] \in Seq(Frame) /\ line[m] \in Seq(Frame)
      /\ slip[n] \in Frames /\ slip[m] \in Frames
      /\ NumbersInv(n) /\ NumbersInv(m) /\ line[n] # <<>> /\ S \in Number
  BY ReceivingFacts DEF Receives
<1>1. /\ line'[n] = Tail(line[n]) /\ line'[m] = line[m] /\ slip'[m] = slip[m]
      /\ tx'[m] = tx[m] /\ rx'[m] = rx[m]
  BY DEF Receives
<1>2. First(n).number = S /\ rx[n].expected = S /\ rx'[n].expected = E
  BY ArrivedNumber
<1>3. E \in Number /\ E # S /\ E # None
  BY <1>0, NumberFacts
<1>4. Is(Head(line[n]), "DATA") /\ Head(line[n]).number = S
  BY <1>0, <1>2, ArrivalType DEF Arrives
<1>9. Answered(n, E)
  BY <1>2
<1> HIDE DEF m, S, E
<1>5. /\ Follow(line[m], slip[n], "DATA", Before(rx[m].expected), tx[n].seq)
      /\ Follow(line[m], slip[n], "ACK", {S}, S)
      /\ Follow(line[n], slip[m], "DATA", Before(rx[n].expected), S)
      /\ Follow(line[n], slip[m], "ACK", {tx[n].seq}, rx[m].expected)
  BY <1>0, <1>2 DEF NumbersInv, m, S
<1>6. slip'[n] \in Frames
  BY <1>0, <1>9 DEF Answered, Frames
<1>7. NumbersInv(n)'
  <2>1. Follow(line'[n], slip[m], "ACK", {tx[n].seq}, rx[m].expected)
    BY <1>0, <1>1, <1>5, FollowTail
  <2>2. slip'[n] = slip[n] \/ ~Is(slip'[n], "DATA")
    BY <1>9 DEF Answered, Is
  <2>3. Follow(line[m], slip'[n], "DATA", Before(rx[m].expected), tx[n].seq)
    BY <1>0, <1>5, <1>6, <2>2, FollowNew
  <2> QED
    BY <1>0, <1>1, <2>1, <2>3 DEF NumbersInv, m
<1>8. NumbersInv(m)'
  <2>1. Follow(line'[n], slip[m], "DATA", Before(E), S)
    BY <1>0, <1>1, <1>4, <1>5, FollowHead
  <2>2. Follow(line[m], slip[n], "ACK", {S}, E)
    <3>1. {S} \cup {S} \subseteq {S} /\ E \notin {S} \cup {S, None}
      BY <1>3
    <3> QED
      BY <1>5, <3>1, FollowNext
  <2>3. Follow(line[m], slip'[n], "ACK", {S}, E)
    <3>1. slip'[n] = slip[n] \/ slip'[n].number \in {E, None}
      BY <1>9 DEF Answered
    <3> QED
      BY <1>0, <1>6, <2>2, <3>1, FollowNew
  <2>4. Peer(m) = n /\ tx'[m].seq = S /\ rx'[n].expected = E
    BY <1>0, <1>1, <1>2 DEF S
  <2>5. E \in {S, Incremented(S)}
    BY DEF E
  <2> QED
    BY <1>1, <2>1, <2>3, <2>4, <2>5 DEF NumbersInv
<1> QED
  BY <1>0, <1>7, <1>8

\* The expected acknowledgement: the peer expects the number that follows, and
\* whatever is still under way has the number that was in use until now.
LEMMA AcknowledgedNumber ==
  ASSUME Numbered, NEW n \in End, Arrives(n, "ACK"), AckExpected(n)
  PROVE  rx[Peer(n)].expected = Incremented(tx[n].seq)
         /\ First(n).number = Incremented(tx[n].seq)
<1> DEFINE m == Peer(n)
<1>1. /\ line[n] \in Seq(Frame) /\ slip[m] \in Frames /\ line[n] # <<>>
      /\ tx[n].seq \in Number /\ NumbersInv(n)
  BY ReceivingFacts DEF Arrives
<1>2. First(n).number \in {tx[n].seq} \cup {rx[m].expected, None}
  <2>1. Nth(line[n], slip[m], 1) = First(n) /\ 1 \in 1 .. Len(line[n]) + 1
    BY <1>1, NthTail DEF First
  <2>2. Is(First(n), "ACK")
    BY <1>1, ArrivalType DEF Arrives
  <2> QED
    BY <1>1, <2>1, <2>2 DEF NumbersInv, Follow
<1>3. First(n).number = Incremented(tx[n].seq)
  BY DEF AckExpected
<1>4. Incremented(tx[n].seq) # tx[n].seq /\ Incremented(tx[n].seq) # None
  BY <1>1, NumberFacts
<1> QED
  BY <1>2, <1>3, <1>4

LEMMA AcknowledgeNumbers ==
  ASSUME Numbered, NEW n \in End, Receives(n), Arrives(n, "ACK"), AckExpected(n),
         tx'[n].seq = Incremented(tx[n].seq), slip'[n] = slip[n],
         rx'[n].expected = rx[n].expected
  PROVE  \A k \in End : NumbersInv(k)'
<1> DEFINE m == Peer(n)
           S == tx[n].seq
           E == Incremented(S)
<1>0. /\ m \in End /\ Peer(m) = n /\ \A k \in End : k = n \/ k = m
      /\ line[n] \in Seq(Frame) /\ line[m] \in Seq(Frame)
      /\ slip[n] \in Frames /\ slip[m] \in Frames
      /\ NumbersInv(n) /\ NumbersInv(m) /\ line[n] # <<>> /\ S \in Number
  BY ReceivingFacts DEF Receives
<1>1. /\ line'[n] = Tail(line[n]) /\ line'[m] = line[m] /\ slip'[m] = slip[m]
      /\ tx'[m] = tx[m] /\ rx'[m] = rx[m]
  BY DEF Receives
<1>2. rx[m].expected = E /\ tx'[n].seq = E /\ First(n).number = E
  BY AcknowledgedNumber
<1>3. E \in Number /\ E # S /\ E # None /\ Before(E) = {S}
  BY <1>0, NumberFacts, BeforeSuccessor
<1>4. Is(Head(line[n]), "ACK") /\ Head(line[n]).number = E
  BY <1>0, <1>2, ArrivalType DEF Arrives
<1> HIDE DEF m, S, E
<1>5. /\ Follow(line[m], slip[n], "DATA", {S}, S)
      /\ Follow(line[m], slip[n], "ACK", {tx[m].seq}, rx[n].expected)
      /\ Follow(line[n], slip[m], "DATA", Before(rx[n].expected), tx[m].seq)
      /\ Follow(line[n], slip[m], "ACK", {S}, E)
  BY <1>0, <1>2, <1>3 DEF NumbersInv, m, S
<1>6. NumbersInv(n)'
  <2>1. Follow(line'[n], slip[m], "ACK", {E}, E)
    BY <1>0, <1>1, <1>4, <1>5, FollowHead
  <2>2. Follow(line[m], slip[n], "DATA", Before(E), E)
    <3>1. {S} \cup {S} \subseteq Before(E) /\ E \notin {S} \cup {S, None}
      BY <1>3
    <3> QED
      BY <1>5, <3>1, FollowNext
  <2> QED
    BY <1>1, <1>2, <2>1, <2>2 DEF NumbersInv, m
<1>7. NumbersInv(m)'
  <2>1. Follow(line'[n], slip[m], "DATA", Before(rx[n].expected), tx[m].seq)
    BY <1>0, <1>1, <1>5, FollowTail
  <2> QED
    BY <1>0, <1>1, <1>5, <2>1 DEF NumbersInv, m
<1> QED
  BY <1>0, <1>6, <1>7

\* The cases of an arrival at n.
LEMMA ReceiveCases ==
  ASSUME TypeOK, NEW n \in End, Receive(n) \/ Lose(n)
  PROVE  /\ Receives(n)
         /\ \/ /\ Arrives(n, "DATA") /\ Expected(n)
               /\ tx'[n] = tx[n] /\ rx'[n] = Delivered(n)
               /\ Answered(n, Incremented(rx[n].expected))
            \/ /\ tx'[n] = tx[n] /\ rx'[n] = rx[n]
               /\ Answered(n, rx[n].expected)
            \/ /\ Arrives(n, "ACK") /\ slip'[n] = slip[n]
               /\ tx'[n] = IF AckExpected(n) THEN Success(tx[n]) ELSE tx[n]
               /\ rx'[n] \in {rx[n], Registered(rx[n])}
<1> DEFINE m == Peer(n)
<1>0. /\ m \in End /\ m # n /\ slip[n] \in Frames /\ tx[n] \in Sender /\ rx[n] \in Receiver
      /\ DOMAIN tx = End /\ DOMAIN rx = End /\ DOMAIN slip = End /\ DOMAIN line = End
  BY PeerFacts, TypeFacts DEF TypeOK
<1>1. CASE Deliver(n)
  <2>1. /\ Arrives(n, "DATA") /\ Expected(n) /\ tx' = tx /\ rx' = [rx EXCEPT ![n] = Delivered(n)]
        /\ line' = [line EXCEPT ![n] = Tail(line[n])] /\ line[n] # <<>>
    BY <1>1 DEF Deliver, Arrives, Taken
  <2>2. PICK f \in Sent(slip[n], Ack(Delivered(n))) : slip' = [slip EXCEPT ![n] = f]
    BY <1>1 DEF Deliver
  <2>3. /\ Ack(Delivered(n)) \in Frame /\ Ack(Delivered(n)).type = "ACK"
        /\ Ack(Delivered(n)).number = Incremented(rx[n].expected)
    BY <2>1, DeliveredTypes, FrameTypes DEF Ack
  <2>4. f = slip[n] \/ (f \in Frame /\ f.type = "ACK"
                        /\ f.number \in {Incremented(rx[n].expected), None})
    BY <1>0, <2>3, SentFacts
  <2>5. Answered(n, Incremented(rx[n].expected))
    BY <1>0, <2>2, <2>4 DEF Answered
  <2>6. Receives(n) /\ tx'[n] = tx[n] /\ rx'[n] = Delivered(n)
    BY <1>0, <2>1, <2>2 DEF Receives
  <2> QED
    BY <2>1, <2>5, <2>6
<1>2. CASE Repeat(n)
  <2>1. /\ tx' = tx /\ rx' = rx
        /\ line' = [line EXCEPT ![n] = Tail(line[n])] /\ line[n] # <<>>
    BY <1>2 DEF Repeat, Arrives, Taken
  <2>2. PICK f \in Sent(slip[n], Ack(rx[n])) : slip' = [slip EXCEPT ![n] = f]
    BY <1>2 DEF Repeat
  <2>3. /\ Ack(rx[n]) \in Frame /\ Ack(rx[n]).type = "ACK"
        /\ Ack(rx[n]).number = rx[n].expected
    BY <1>0, FrameTypes DEF Ack
  <2>4. f = slip[n] \/ (f \in Frame /\ f.type = "ACK" /\ f.number \in {rx[n].expected, None})
    BY <1>0, <2>3, SentFacts
  <2>5. Answered(n, rx[n].expected)
    BY <1>0, <2>2, <2>4 DEF Answered
  <2>6. Receives(n)
    BY <1>0, <2>1, <2>2 DEF Receives
  <2> QED
    BY <2>1, <2>5, <2>6
<1>3. CASE Discard(n) \/ Lose(n)
  <2>1. /\ tx' = tx /\ rx' = rx /\ slip' = slip
        /\ line' = [line EXCEPT ![n] = Tail(line[n])] /\ line[n] # <<>>
    BY <1>3 DEF Discard, Lose, Arrives, Taken
  <2> QED
    BY <1>0, <2>1 DEF Receives, Answered
<1>4. CASE Acknowledge(n)
  <2>1. /\ Arrives(n, "ACK") /\ slip' = slip
        /\ line' = [line EXCEPT ![n] = Tail(line[n])] /\ line[n] # <<>>
        /\ tx' = IF AckExpected(n) THEN [tx EXCEPT ![n] = Success(tx[n])] ELSE tx
        /\ rx' = rx \/ rx' = [rx EXCEPT ![n] = Registered(rx[n])]
    BY <1>4 DEF Acknowledge, Arrives, Taken
  <2>2. /\ tx'[n] = IF AckExpected(n) THEN Success(tx[n]) ELSE tx[n]
        /\ rx'[n] \in {rx[n], Registered(rx[n])}
    BY <1>0, <2>1
  <2>3. Receives(n)
    BY <1>0, <2>1 DEF Receives
  <2> QED
    BY <2>1, <2>2, <2>3
<1> QED
  BY <1>1, <1>2, <1>3, <1>4 DEF Receive

LEMMA ReceivingNumbers ==
  ASSUME Numbered, NEW n \in End, Receive(n) \/ Lose(n)
  PROVE  \A k \in End : NumbersInv(k)'
<1>1. TypeOK /\ tx[n] \in Sender /\ rx[n] \in Receiver /\ Receives(n)
  BY TypeFacts, ReceiveCases DEF Numbered
<1>2. CASE /\ Arrives(n, "DATA") /\ Expected(n)
           /\ tx'[n] = tx[n] /\ rx'[n] = Delivered(n)
           /\ Answered(n, Incremented(rx[n].expected))
  BY <1>1, <1>2, DeliveredTypes, DeliverNumbers
<1>3. CASE tx'[n] = tx[n] /\ rx'[n] = rx[n] /\ Answered(n, rx[n].expected)
  BY <1>1, <1>3, ArrivalNumbers
<1>4. CASE /\ Arrives(n, "ACK") /\ slip'[n] = slip[n]
           /\ tx'[n] = IF AckExpected(n) THEN Success(tx[n]) ELSE tx[n]
           /\ rx'[n] \in {rx[n], Registered(rx[n])}
  <2>1. rx'[n].expected = rx[n].expected /\ Answered(n, rx[n].expected)
    BY <1>1, <1>4, ReceiverTypes DEF Answered
  <2>2. Success(tx[n]).seq = Incremented(tx[n].seq)
    BY <1>1 DEF Success, Sender
  <2>3. CASE AckExpected(n)
    BY <1>1, <1>4, <2>1, <2>2, <2>3, AcknowledgeNumbers
  <2>4. CASE ~AckExpected(n)
    BY <1>1, <1>4, <2>1, <2>4, ArrivalNumbers
  <2> QED
    BY <2>3, <2>4
<1> QED
  BY <1>2, <1>3, <1>4, ReceiveCases DEF Numbered

LEMMA ConsumeFacts ==
  ASSUME TypeOK, NEW n \in End, Consume(n)
  PROVE  /\ UNCHANGED <<use, tx, slip, line>>
         /\ \A k \in End : /\ rx'[k].expected = rx[k].expected
                           /\ rx'[k].last = rx[k].last /\ rx'[k].turn = rx[k].turn
<1>1. rx' = [rx EXCEPT ![n].free = @ + 1] /\ UNCHANGED <<use, tx, slip, line>>
  BY DEF Consume
<1> QED
  BY <1>1 DEF TypeOK

LEMMA NextNumbers == ASSUME Numbered, [Next]_vars PROVE Numbered'
<1>1. TypeOK'
  BY NextTypes DEF Numbered
<1>2. \A k \in End : NumbersInv(k)'
  <2>1. CASE UNCHANGED vars
    BY <2>1 DEF vars, Numbered, NumbersInv
  <2>2. ASSUME NEW n \in End, Consume(n) PROVE \A k \in End : NumbersInv(k)'
    <3> TAKE k \in End
    <3>1. NumbersInv(k) /\ Peer(k) \in End
      BY PeerFacts DEF Numbered
    <3>2. UNCHANGED <<tx, slip, line>> /\ rx'[Peer(k)].expected = rx[Peer(k)].expected
      BY <2>2, <3>1, ConsumeFacts DEF Numbered
    <3> QED
      BY <3>1, <3>2 DEF NumbersInv
  <2> QED
    BY <2>1, <2>2, SendingPushes, SendingNumbers, ReceivingNumbers DEF Next, Numbered
<1> QED
  BY <1>1, <1>2 DEF Numbered

LEMMA NumbersHold == Spec => []Numbered
<1>1. Init => Numbered
  BY InitNumbers
<1>2. Numbered /\ [Next]_vars => Numbered'
  BY NextNumbers
<1> QED
  BY <1>1, <1>2, PTL DEF Spec

\* Whatever is lost, repeated, given up or torn, the receiver expects the number
\* in use or the one after it.
THEOREM StaysInStep == Spec => []InStep
<1>1. Numbered => InStep
  BY DEF Numbered, NumbersInv, InStep
<1> QED
  BY <1>1, NumbersHold, PTL
-----------------------------------------------------------------------------
(* The packets.                                                            *)

\* What the receiver of the packets from n expects, and what it got last.
Wanted(n) == rx[Peer(n)].expected
Last(n) == rx[Peer(n)].last

\* The packets that a frame with the number in use may carry: later than the
\* last one delivered, and the only one unless the one before it failed.
Allowed(n) ==
  {p \in Nat : /\ Last(n) < p /\ p <= tx[n].packet
               /\ tx[n].failed \/ (Busy(tx[n]) /\ p = tx[n].packet)}

\* The data frames under way that have the given number carry such packets.
Carry(q, s, number, packets) ==
  \A i \in 1 .. Len(q) + 1 :
    Is(Nth(q, s, i), "DATA") /\ Nth(q, s, i).number = number
      => Nth(q, s, i).packet \in packets

PacketsInv(n) ==
  /\ Last(n) <= tx[n].packet
  /\ tx[n].next # None => tx[n].state = "IDLE"
  /\ ~Busy(tx[n]) /\ ~tx[n].failed => Wanted(n) = tx[n].seq
  /\ Wanted(n) # tx[n].seq => Last(n) = tx[n].packet \/ tx[n].failed
  /\ Busy(tx[n]) /\ Wanted(n) = tx[n].seq => Last(n) < tx[n].packet
  /\ Wanted(n) = tx[n].seq => Carry(line[Peer(n)], slip[n], tx[n].seq, Allowed(n))

Linked == Numbered /\ \A n \in End : PacketsInv(n)

LEMMA CarryTail ==
  ASSUME NEW q \in Seq(Frame), NEW s \in Frames, q # <<>>, NEW number, NEW packets,
         Carry(q, s, number, packets)
  PROVE  /\ Carry(Tail(q), s, number, packets)
         /\ Is(Head(q), "DATA") /\ Head(q).number = number => Head(q).packet \in packets
<1> DEFINE r == Tail(q)
<1>1. /\ 1 \in 1 .. Len(q) + 1 /\ Nth(q, s, 1) = Head(q)
      /\ \A i \in 1 .. Len(r) + 1 :
           i + 1 \in 1 .. Len(q) + 1 /\ Nth(r, s, i) = Nth(q, s, i + 1)
  BY NthTail
<1> HIDE DEF r
<1> QED
  BY <1>1 DEF Carry, r

LEMMA CarryNew ==
  ASSUME NEW q \in Seq(Frame), NEW s \in Frames, NEW f \in Frames, NEW number, NEW packets,
         Carry(q, s, number, packets),
         f = s \/ ~Is(f, "DATA") \/ f.packet \in packets
  PROVE  Carry(q, f, number, packets)
<1>1. CASE f = s
  BY <1>1
<1>2. CASE f # s
  <2>1. Is(f, "DATA") => f.packet \in packets
    BY <1>2
  <2>2. /\ Len(q) \in Nat
        /\ \A i \in 1 .. Len(q) + 1 : /\ i \in 1 .. Len(q) \/ i = Len(q) + 1
                                      /\ i \in 1 .. Len(q) => Nth(q, f, i) = Nth(q, s, i)
        /\ Nth(q, f, Len(q) + 1) = f
    BY DEF Nth
  <2> QED
    BY <2>1, <2>2 DEF Carry
<1> QED
  BY <1>1, <1>2

LEMMA CarryDone ==
  ASSUME NEW q \in Seq(Frame), NEW s \in Frame, NEW number, NEW packets,
         Carry(q, s, number, packets)
  PROVE  Append(q, s) \in Seq(Frame) /\ Carry(Append(q, s), None, number, packets)
<1> DEFINE r == Append(q, s)
<1>1. /\ Len(r) = Len(q) + 1 /\ Len(q) \in Nat /\ r \in Seq(Frame)
      /\ \A i \in 1 .. Len(q) + 1 : Nth(r, None, i) = Nth(q, s, i)
      /\ Nth(r, None, Len(q) + 2) = None
  <2>1. None \in Frames
    BY DEF Frames
  <2> QED
    BY <2>1, NthDone
<1>2. \A i \in 1 .. Len(r) + 1 : Is(Nth(r, None, i), "DATA") => i \in 1 .. Len(q) + 1
  <2> TAKE i \in 1 .. Len(r) + 1
  <2>1. i \in 1 .. Len(q) + 1 \/ i = Len(q) + 2
    BY <1>1
  <2> QED
    BY <1>1, <2>1 DEF Is
<1> HIDE DEF r
<1> QED
  BY <1>1, <1>2 DEF Carry, r

\* The steps of ReliableLink in the direction from n.
SameLink(n) == /\ tx'[n].packet = tx[n].packet /\ Busy(tx[n])' = Busy(tx[n])
               /\ Last(n)' = Last(n) /\ rx'[Peer(n)].turn = rx[Peer(n)].turn
               /\ tx'[n].failed = tx[n].failed
SameReceiver(n) == Last(n)' = Last(n) /\ rx'[Peer(n)].turn = rx[Peer(n)].turn
LinkWrite(n) == /\ ~Busy(tx[n]) /\ Busy(tx[n])' = TRUE
                /\ tx'[n].packet = tx[n].packet + 1
                /\ SameReceiver(n) /\ tx'[n].failed = tx[n].failed
LinkDeliver(n) == /\ Last(n)' \in Last(n) + 1 .. tx[n].packet
                  /\ rx'[Peer(n)].turn = ~rx[Peer(n)].turn
                  /\ tx'[n].packet = tx[n].packet /\ Busy(tx[n])' = Busy(tx[n])
                  /\ tx'[n].failed = tx[n].failed
LinkSuccess(n) == /\ Busy(tx[n]) /\ (Last(n) = tx[n].packet \/ tx[n].failed)
                  /\ Busy(tx[n])' = FALSE /\ tx'[n].failed = FALSE
                  /\ SameReceiver(n) /\ tx'[n].packet = tx[n].packet
LinkFailure(n) == /\ Busy(tx[n])
                  /\ Busy(tx[n])' = FALSE /\ tx'[n].failed = TRUE
                  /\ SameReceiver(n) /\ tx'[n].packet = tx[n].packet
LinkStep(n) == \/ SameLink(n) \/ LinkWrite(n) \/ LinkDeliver(n)
               \/ LinkSuccess(n) \/ LinkFailure(n)

LEMMA LinkedFacts ==
  ASSUME Linked, NEW n \in End
  PROVE  /\ TypeOK /\ PacketsInv(n) /\ NumbersInv(n) /\ NumbersInv(Peer(n))
         /\ Peer(n) \in End /\ Peer(n) # n /\ Peer(Peer(n)) = n
         /\ tx[n] \in Sender /\ slip[n] \in Frames
         /\ line[n] \in Seq(Frame) /\ line[Peer(n)] \in Seq(Frame)
         /\ tx[n].packet \in Nat /\ tx[n].failed \in BOOLEAN /\ tx[n].seq \in Number
         /\ Last(n) \in Nat /\ Wanted(n) \in Number
<1>1. TypeOK /\ Peer(n) \in End /\ tx[n] \in Sender /\ rx[Peer(n)] \in Receiver
  BY PeerFacts, TypeFacts DEF Linked, Numbered
<1>2. /\ tx[n].packet \in Nat /\ tx[n].failed \in BOOLEAN /\ tx[n].seq \in Number
      /\ Last(n) \in Nat /\ Wanted(n) \in Number
  BY <1>1 DEF Sender, Receiver, Last, Wanted
<1> QED
  BY <1>1, <1>2, PeerFacts, TypeFacts DEF Linked, Numbered

\* A step that the two applications do not see.
LEMMA QuietPackets ==
  ASSUME Linked, NEW n \in End, SameLink(n),
         tx'[n].seq = tx[n].seq, Wanted(n)' = Wanted(n),
         tx'[n].next # None => tx'[n].state = "IDLE",
         Wanted(n) = tx[n].seq =>
           Carry(line'[Peer(n)], slip'[n], tx[n].seq, Allowed(n))
  PROVE  PacketsInv(n)' /\ LinkStep(n)
<1>1. PacketsInv(n)
  BY DEF Linked
<1>2. Allowed(n)' = Allowed(n)
  BY DEF Allowed, SameLink
<1> QED
  BY <1>1, <1>2 DEF PacketsInv, SameLink, LinkStep

\* The new packet is later than all others, and the only one without a failure.
LEMMA WritePackets ==
  ASSUME Linked, NEW n \in End, Write(n)
  PROVE  PacketsInv(n)' /\ LinkStep(n)
<1> DEFINE m == Peer(n)
           t == NewPacket(n)
<1>1. /\ TypeOK /\ tx[n] \in Sender /\ slip[n] \in Frames /\ line[m] \in Seq(Frame)
      /\ tx[n].packet \in Nat /\ Last(n) \in Nat /\ PacketsInv(n)
      /\ DOMAIN tx = End /\ DOMAIN slip = End
  BY LinkedFacts DEF TypeOK
<1>2. /\ ~Busy(tx[n]) /\ rx' = rx /\ line' = line
      /\ tx'[n] = t \/ tx'[n] = Entered(t)
  BY <1>1 DEF Write, NewPacket
<1>3. PICK f \in Sent(slip[n], Data(t)) : slip' = [slip EXCEPT ![n] = f]
  BY DEF Write, NewPacket
<1>4. /\ t \in Sender /\ t.seq = tx[n].seq /\ t.packet = tx[n].packet + 1
      /\ t.failed = tx[n].failed /\ t.next \in {"PENDING", "ACTIVE"} /\ t.state = tx[n].state
  BY <1>1, NewPacketFacts
<1>5. /\ Data(t) \in Frame /\ Data(t).packet = tx[n].packet + 1
  BY <1>4, FrameTypes DEF Data
<1>6. /\ f = slip[n] \/ f.packet = tx[n].packet + 1
      /\ f \in Frames /\ slip'[n] = f
  BY <1>1, <1>3, <1>5, SentFacts, FrameTypes
<1> HIDE DEF t
<1>7. /\ tx'[n].seq = tx[n].seq /\ tx'[n].packet = tx[n].packet + 1
      /\ tx'[n].failed = tx[n].failed
      /\ tx'[n].next # None => tx'[n].state = "IDLE"
      /\ Busy(tx[n])'
  <2>1. tx[n].state = "IDLE" /\ t.next # None
    BY <1>2, <1>4, NoneAssumption DEF Busy
  <2>2. CASE tx'[n] = t
    BY <1>4, <2>1, <2>2 DEF Busy
  <2>3. CASE tx'[n] = Entered(t)
    BY <1>4, <2>3, EnteredFacts DEF Busy
  <2> QED
    BY <1>2, <2>2, <2>3
<1>8. Last(n)' = Last(n) /\ Wanted(n)' = Wanted(n)
      /\ rx'[Peer(n)].turn = rx[Peer(n)].turn
  BY <1>2 DEF Last, Wanted
<1>9. Allowed(n) \subseteq Allowed(n)' /\ tx[n].packet + 1 \in Allowed(n)'
  BY <1>1, <1>2, <1>7, <1>8 DEF Allowed, PacketsInv
<1>10. Wanted(n) = tx[n].seq => Carry(line[m], f, tx[n].seq, Allowed(n)')
  <2> SUFFICES ASSUME Wanted(n) = tx[n].seq
               PROVE  Carry(line[m], f, tx[n].seq, Allowed(n)')
    OBVIOUS
  <2>1. Carry(line[m], slip[n], tx[n].seq, Allowed(n)')
    BY <1>1, <1>9 DEF PacketsInv, Carry
  <2> QED
    BY <1>1, <1>6, <1>9, <2>1, CarryNew
<1>11. PacketsInv(n)'
  BY <1>1, <1>2, <1>6, <1>7, <1>8, <1>10 DEF PacketsInv
<1>12. LinkWrite(n)
  BY <1>2, <1>7, <1>8 DEF LinkWrite, SameReceiver
<1> QED
  BY <1>11, <1>12 DEF LinkStep

LEMMA SlipDonePackets ==
  ASSUME Linked, NEW n \in End, SlipDone(n)
  PROVE  PacketsInv(n)' /\ LinkStep(n)
<1> DEFINE m == Peer(n)
<1>1. /\ TypeOK /\ tx[n] \in Sender /\ slip[n] \in Frames /\ line[m] \in Seq(Frame)
      /\ tx[n].packet \in Nat /\ Last(n) \in Nat /\ PacketsInv(n) /\ m \in End
      /\ DOMAIN tx = End /\ DOMAIN slip = End /\ DOMAIN line = End
  BY LinkedFacts DEF TypeOK
<1>2. /\ rx' = rx /\ slip[n] # None /\ line'[m] = Append(line[m], slip[n])
      /\ \/ tx'[n] = tx[n] /\ slip'[n] = None
         \/ tx[n].state = "PENDING" /\ tx'[n] = Active(tx[n]) /\ slip'[n] = Data(tx[n])
  BY <1>1 DEF SlipDone
<1>3. slip[n] \in Frame /\ None \in Frames /\ Data(tx[n]) \in Frames
      /\ Data(tx[n]).packet = tx[n].packet
  BY <1>1, <1>2, FrameTypes DEF Frames, Data
<1>4. SameLink(n) /\ tx'[n].seq = tx[n].seq /\ (tx'[n].next # None => tx'[n].state = "IDLE")
      /\ Wanted(n)' = Wanted(n)
  <2>1. CASE tx'[n] = tx[n]
    BY <1>1, <1>2, <2>1 DEF SameLink, Last, Wanted, Busy, PacketsInv
  <2>2. CASE tx[n].state = "PENDING" /\ tx'[n] = Active(tx[n])
    <3>1. tx[n].next = None
      BY <1>1, <2>2 DEF PacketsInv
    <3> QED
      BY <1>1, <1>2, <2>2, <3>1, EnteredFacts DEF SameLink, Last, Wanted, Busy
  <2> QED
    BY <1>2, <2>1, <2>2
<1>5. ASSUME Wanted(n) = tx[n].seq
      PROVE  Carry(line'[m], slip'[n], tx[n].seq, Allowed(n))
  <2>1. Carry(line[m], slip[n], tx[n].seq, Allowed(n))
    BY <1>1, <1>5 DEF PacketsInv
  <2>2. line'[m] \in Seq(Frame) /\ Carry(line'[m], None, tx[n].seq, Allowed(n))
    BY <1>1, <1>2, <1>3, <2>1, CarryDone
  <2>3. CASE slip'[n] = None
    BY <2>2, <2>3
  <2>4. CASE tx[n].state = "PENDING" /\ slip'[n] = Data(tx[n])
    <3>1. Data(tx[n]).packet \in Allowed(n)
      BY <1>1, <1>3, <1>5, <2>4 DEF PacketsInv, Busy, Allowed
    <3> QED
      BY <1>3, <2>2, <2>4, <3>1, CarryNew
  <2> QED
    BY <1>2, <2>3, <2>4
<1> QED
  BY <1>4, <1>5, QuietPackets

\* After the last retry the packet has failed, and may still be delivered.
LEMMA TimeoutPackets ==
  ASSUME Linked, NEW n \in End, Timeout(n)
  PROVE  PacketsInv(n)' /\ LinkStep(n)
<1> DEFINE m == Peer(n)
<1>1. /\ TypeOK /\ tx[n] \in Sender /\ slip[n] \in Frames /\ line[m] \in Seq(Frame)
      /\ tx[n].packet \in Nat /\ Last(n) \in Nat /\ PacketsInv(n)
      /\ DOMAIN tx = End /\ DOMAIN slip = End
  BY LinkedFacts DEF TypeOK
<1>2. /\ tx[n].state = "ACTIVE" /\ rx' = rx /\ line' = line /\ tx[n].next = None
      /\ Last(n)' = Last(n) /\ Wanted(n)' = Wanted(n)
      /\ rx'[Peer(n)].turn = rx[Peer(n)].turn /\ Busy(tx[n])
  BY <1>1 DEF Timeout, PacketsInv, Last, Wanted, Busy
<1>3. CASE tx[n].retries # MaxRetry
  <2>1. /\ tx'[n] = [tx[n] EXCEPT !.retries = @ + 1]
        /\ slip'[n] \in {slip[n], Data(tx[n])}
    BY <1>1, <1>3 DEF Timeout
  <2>2. /\ tx'[n].packet = tx[n].packet /\ tx'[n].failed = tx[n].failed
        /\ tx'[n].seq = tx[n].seq /\ tx'[n].state = tx[n].state /\ tx'[n].next = tx[n].next
    BY <1>1, <2>1 DEF Sender
  <2>3. SameLink(n)
    BY <1>2, <2>2 DEF SameLink, Busy
  <2>4. ASSUME Wanted(n) = tx[n].seq
        PROVE  Carry(line[m], slip'[n], tx[n].seq, Allowed(n))
    <3>1. Carry(line[m], slip[n], tx[n].seq, Allowed(n))
      BY <1>1, <2>4 DEF PacketsInv
    <3>2. Data(tx[n]) \in Frames /\ Data(tx[n]).packet \in Allowed(n)
      BY <1>1, <1>2, <2>4, FrameTypes DEF PacketsInv, Allowed, Data, Frames
    <3> QED
      BY <1>1, <2>1, <3>1, <3>2, CarryNew
  <2> QED
    BY <1>2, <2>2, <2>3, <2>4, QuietPackets
<1>4. CASE tx[n].retries = MaxRetry
  <2>1. tx'[n] = Failure(tx[n]) /\ slip' = slip
    BY <1>1, <1>4 DEF Timeout
  <2>2. /\ tx'[n].packet = tx[n].packet /\ tx'[n].failed = TRUE
        /\ tx'[n].seq = tx[n].seq /\ tx'[n].state = "IDLE" /\ tx'[n].next = None
    BY <1>1, <1>2, <2>1 DEF Failure, Sender
  <2>3. ~Busy(tx[n])'
    BY <2>2 DEF Busy
  <2>4. Allowed(n) \subseteq Allowed(n)'
    BY <1>2, <2>2 DEF Allowed
  <2>5. Wanted(n) = tx[n].seq => Carry(line[m], slip[n], tx[n].seq, Allowed(n)')
    BY <1>1, <2>4 DEF PacketsInv, Carry
  <2>6. PacketsInv(n)'
    BY <1>1, <1>2, <2>1, <2>2, <2>3, <2>5 DEF PacketsInv
  <2>7. LinkFailure(n)
    BY <1>2, <2>2, <2>3 DEF LinkFailure, SameReceiver
  <2> QED
    BY <2>6, <2>7 DEF LinkStep
<1> QED
  BY <1>3, <1>4

LEMMA WrittenPackets ==
  ASSUME Linked, NEW n \in End, Written(n)
  PROVE  PacketsInv(n)' /\ LinkStep(n)
<1>1. /\ tx[n] \in Sender /\ PacketsInv(n) /\ tx'[n] = Entered(tx[n]) /\ tx[n].next # None
      /\ UNCHANGED <<rx, slip, line>>
  BY LinkedFacts DEF Written, TypeOK
<1>2. SameLink(n) /\ tx'[n].seq = tx[n].seq /\ tx'[n].next = None /\ Wanted(n)' = Wanted(n)
  BY <1>1, EnteredFacts DEF SameLink, Last, Wanted, Busy
<1> QED
  BY <1>1, <1>2, QuietPackets DEF PacketsInv

\* The other direction does not notice.
LEMMA SendingPackets ==
  ASSUME Linked, NEW n \in End,
         Write(n) \/ Written(n) \/ SlipDone(n) \/ Timeout(n)
  PROVE  \A k \in End : PacketsInv(k)' /\ LinkStep(k)
<1> DEFINE m == Peer(n)
<1>1. m \in End /\ Peer(m) = n /\ \A k \in End : k = n \/ k = m
  BY PeerFacts
<1>2. PacketsInv(m) /\ Sends(n)
  BY <1>1, SendingPushes DEF Linked, Numbered
<1> HIDE DEF m
<1>3. /\ tx'[m] = tx[m] /\ rx' = rx /\ slip'[m] = slip[m] /\ line'[n] = line[n]
  BY <1>2 DEF Sends, m
<1>4. SameLink(m) /\ Wanted(m)' = Wanted(m)
  BY <1>1, <1>3 DEF SameLink, Last, Wanted, Busy
<1>5. PacketsInv(m)' /\ LinkStep(m)
  BY <1>1, <1>2, <1>3, <1>4, QuietPackets DEF PacketsInv
<1>6. PacketsInv(n)' /\ LinkStep(n)
  BY WritePackets, WrittenPackets, SlipDonePackets, TimeoutPackets
<1> QED
  BY <1>1, <1>5, <1>6

\* Frames arrive at n: the packets from n, and their acknowledgements.
LEMMA ReceivingOwn ==
  ASSUME Linked, NEW n \in End, Receive(n) \/ Lose(n)
  PROVE  PacketsInv(n)' /\ LinkStep(n)
<1> DEFINE m == Peer(n)
<1>1. /\ TypeOK /\ tx[n] \in Sender /\ slip[n] \in Frames /\ line[m] \in Seq(Frame)
      /\ PacketsInv(n) /\ NumbersInv(n) /\ tx[n].seq \in Number /\ m # n /\ Receives(n)
  BY LinkedFacts, ReceiveCases
<1>2. /\ line'[m] = line[m] /\ rx'[m] = rx[m]
      /\ Last(n)' = Last(n) /\ Wanted(n)' = Wanted(n)
      /\ rx'[Peer(n)].turn = rx[Peer(n)].turn
  BY <1>1 DEF Receives, Last, Wanted
<1>3. ASSUME NEW e, Answered(n, e), Wanted(n) = tx[n].seq
      PROVE  Carry(line[m], slip'[n], tx[n].seq, Allowed(n))
  <2>1. slip'[n] \in Frames /\ (slip'[n] = slip[n] \/ ~Is(slip'[n], "DATA"))
    BY <1>1, <1>3 DEF Answered, Is, Frames
  <2>2. Carry(line[m], slip[n], tx[n].seq, Allowed(n))
    BY <1>1, <1>3 DEF PacketsInv
  <2> QED
    BY <1>1, <2>1, <2>2, CarryNew
<1>4. ASSUME NEW e, Answered(n, e), tx'[n] = tx[n]
      PROVE  PacketsInv(n)' /\ LinkStep(n)
  <2>1. SameLink(n) /\ (tx'[n].next # None => tx'[n].state = "IDLE")
    BY <1>1, <1>2, <1>4 DEF SameLink, Busy, PacketsInv
  <2> QED
    BY <1>2, <1>3, <1>4, <2>1, QuietPackets
<1>5. ASSUME Arrives(n, "ACK"), AckExpected(n), slip'[n] = slip[n], tx'[n] = Success(tx[n])
      PROVE  PacketsInv(n)' /\ LinkStep(n)
  <2>1. tx[n].state = "ACTIVE" /\ tx[n].next = None /\ Busy(tx[n])
    BY <1>1, <1>5 DEF AckExpected, PacketsInv, Busy
  <2>2. Wanted(n) = Incremented(tx[n].seq) /\ Wanted(n) # tx[n].seq /\ Wanted(n) # None
        /\ Before(Wanted(n)) = {tx[n].seq}
    BY <1>1, <1>5, AcknowledgedNumber, NumberFacts, BeforeSuccessor DEF Linked, Wanted
  <2>3. /\ tx'[n].seq = Wanted(n) /\ tx'[n].packet = tx[n].packet /\ tx'[n].failed = FALSE
        /\ tx'[n].state = "IDLE" /\ tx'[n].next = None /\ ~Busy(tx[n])'
    BY <1>1, <1>5, <2>1, <2>2 DEF Success, Sender, Busy
  <2>4. Last(n) = tx[n].packet \/ tx[n].failed
    BY <1>1, <2>2 DEF PacketsInv
  <2>5. Follow(line[m], slip[n], "DATA", {tx[n].seq}, tx[n].seq)
    BY <1>1, <2>2 DEF NumbersInv, Wanted
  <2>6. Carry(line[m], slip[n], Wanted(n), Allowed(n)')
    BY <2>2, <2>5 DEF Follow, Carry
  <2>7. PacketsInv(n)'
    BY <1>1, <1>2, <1>5, <2>3, <2>6 DEF PacketsInv
  <2>8. LinkSuccess(n)
    BY <1>2, <2>1, <2>3, <2>4 DEF LinkSuccess, SameReceiver
  <2> QED
    BY <2>7, <2>8 DEF LinkStep
<1>6. ASSUME slip'[n] = slip[n] PROVE Answered(n, rx[n].expected)
  BY <1>6 DEF Answered
<1> QED
  BY <1>1, <1>4, <1>5, <1>6, ReceiveCases

\* Frames arrive at n: the packets from its peer.
LEMMA ReceivingPeer ==
  ASSUME Linked, NEW n \in End, Receive(n) \/ Lose(n), NEW m \in End, m = Peer(n)
  PROVE  PacketsInv(m)' /\ LinkStep(m)
<1>1. /\ TypeOK /\ Peer(m) = n /\ PacketsInv(m) /\ rx[n] \in Receiver /\ slip[m] \in Frames
      /\ line[n] \in Seq(Frame) /\ tx[m].seq \in Number /\ Receives(n)
      /\ tx[m].packet \in Nat /\ Last(m) \in Nat
  BY LinkedFacts, ReceiveCases, TypeFacts
<1>2. /\ line'[n] = Tail(line[n]) /\ line[n] # <<>> /\ tx'[m] = tx[m] /\ slip'[m] = slip[m]
      /\ Busy(tx[m])' = Busy(tx[m])
  BY <1>1 DEF Receives, Busy
<1>3. ASSUME rx'[n].expected = rx[n].expected, rx'[n].last = rx[n].last,
             rx'[n].turn = rx[n].turn
      PROVE  PacketsInv(m)' /\ LinkStep(m)
  <2>1. SameLink(m) /\ Wanted(m)' = Wanted(m)
    BY <1>1, <1>2, <1>3 DEF SameLink, Last, Wanted
  <2>2. Wanted(m) = tx[m].seq => Carry(line'[n], slip'[m], tx[m].seq, Allowed(m))
    BY <1>1, <1>2, CarryTail DEF PacketsInv
  <2> QED
    BY <1>1, <1>2, <2>1, <2>2, QuietPackets DEF PacketsInv
<1>4. ASSUME Arrives(n, "DATA"), Expected(n), rx'[n] = Delivered(n)
      PROVE  PacketsInv(m)' /\ LinkStep(m)
  <2>1. /\ First(n).number = tx[m].seq /\ Wanted(m) = tx[m].seq
    BY <1>1, <1>4, ArrivedNumber DEF Linked, Wanted
  <2>2. /\ Wanted(m)' = Incremented(tx[m].seq) /\ Last(m)' = First(n).packet
        /\ rx'[n].turn = ~rx[n].turn
    BY <1>1, <1>4, <2>1, DeliveredTypes DEF Wanted, Last
  <2>3. First(n).packet \in Allowed(m)
    <3>1. Head(line[n]) = First(n) /\ Is(Head(line[n]), "DATA")
      BY <1>2, <1>4, ArrivalType DEF Arrives, Linked
    <3>2. Carry(line[n], slip[m], tx[m].seq, Allowed(m))
      BY <1>1, <2>1 DEF PacketsInv
    <3> QED
      BY <1>1, <1>2, <2>1, <3>1, <3>2, CarryTail
  <2>4. /\ First(n).packet \in Nat /\ Last(m) < First(n).packet
        /\ First(n).packet <= tx[m].packet
        /\ tx[m].failed \/ (Busy(tx[m]) /\ First(n).packet = tx[m].packet)
    BY <2>3 DEF Allowed
  <2>5. Wanted(m)' # tx[m].seq
    BY <1>1, <2>2, NumberFacts
  <2>6. PacketsInv(m)'
    BY <1>1, <1>2, <2>2, <2>4, <2>5 DEF PacketsInv
  <2>7. LinkDeliver(m)
    BY <1>1, <1>2, <2>2, <2>4 DEF LinkDeliver
  <2> QED
    BY <2>6, <2>7 DEF LinkStep
<1> QED
  BY <1>1, <1>3, <1>4, ReceiveCases, ReceiverTypes

LEMMA InitPackets == ASSUME Init PROVE Linked
<1>1. Numbered
  BY InitNumbers
<1>2. ASSUME NEW n \in End PROVE PacketsInv(n)
  <2>1. /\ line[Peer(n)] = <<>> /\ slip[n] = None
        /\ tx[n] = [state |-> "IDLE", seq |-> 1, retries |-> 0,
                    packet |-> 0, failed |-> FALSE, next |-> None]
        /\ Wanted(n) = 1 /\ Last(n) = 0
    BY PeerFacts DEF Init, Wanted, Last
  <2>2. ~Busy(tx[n])
    BY <2>1 DEF Busy
  <2>3. \A i \in 1 .. Len(<<>>) + 1 : ~Is(Nth(<<>>, None, i), "DATA")
    BY DEF Nth, Is
  <2> QED
    BY <2>1, <2>2, <2>3 DEF PacketsInv, Carry
<1> QED
  BY <1>1, <1>2 DEF Linked

\* Every step keeps the packets in order, and is a step of both promises.
LEMMA NextPackets ==
  ASSUME Linked, [Next]_vars
  PROVE  Linked' /\ \A k \in End : LinkStep(k)
<1>1. Numbered'
  BY NextNumbers DEF Linked
<1>2. ASSUME NEW n \in End, Consume(n) \/ UNCHANGED vars, NEW k \in End
      PROVE  PacketsInv(k)' /\ LinkStep(k)
  <2>1. PacketsInv(k) /\ Peer(k) \in End /\ TypeOK
    BY LinkedFacts
  <2>2. /\ UNCHANGED <<tx, slip, line>>
        /\ rx'[Peer(k)].expected = rx[Peer(k)].expected
        /\ rx'[Peer(k)].last = rx[Peer(k)].last /\ rx'[Peer(k)].turn = rx[Peer(k)].turn
    BY <1>2, <2>1, ConsumeFacts DEF vars
  <2>3. SameLink(k) /\ Wanted(k)' = Wanted(k)
    BY <2>2 DEF SameLink, Last, Wanted, Busy
  <2> QED
    BY <2>1, <2>2, <2>3, QuietPackets DEF PacketsInv
<1>3. ASSUME NEW n \in End, Receive(n) \/ Lose(n), NEW k \in End
      PROVE  PacketsInv(k)' /\ LinkStep(k)
  BY <1>3, PeerFacts, ReceivingOwn, ReceivingPeer
<1>4. \A k \in End : PacketsInv(k)' /\ LinkStep(k)
  <2>1. CASE UNCHANGED vars
    BY <1>2, <2>1
  <2>2. CASE Next
    BY <1>2, <1>3, <2>2, SendingPackets DEF Next
  <2> QED
    BY <2>1, <2>2
<1> QED
  BY <1>1, <1>4 DEF Linked

LEMMA LinkedHolds == Spec => []Linked
<1>1. Linked /\ [Next]_vars => Linked'
  BY NextPackets
<1> QED
  BY InitPackets, <1>1, PTL DEF Spec

\* Each direction of the transport implements ReliableLink: packets are delivered
\* in the order in which they were written, none twice, and a success is true,
\* or stands for the packet whose failure came before it.
THEOREM LinkIsReliable == Spec => KeepsPromise
<1>1. "host" \in End /\ "device" \in End /\ Peer("host") = "device" /\ Peer("device") = "host"
  BY PeerFacts DEF End
<1>2. Init => ToDevice!Init /\ ToHost!Init
  BY <1>1 DEF Init, ToDevice!Init, ToHost!Init, Busy
<1>3. ASSUME LinkStep("host") PROVE [ToDevice!Next]_(ToDevice!vars)
  <2>1. CASE SameLink("host")
    BY <1>1, <2>1 DEF SameLink, ToDevice!vars, Last
  <2>2. CASE LinkWrite("host")
    BY <1>1, <2>2 DEF LinkWrite, SameReceiver, Last, ToDevice!Next, ToDevice!Write
  <2>3. CASE LinkDeliver("host")
    BY <1>1, <2>3 DEF LinkDeliver, Last, ToDevice!Next, ToDevice!Deliver
  <2>4. CASE LinkSuccess("host")
    BY <1>1, <2>4 DEF LinkSuccess, SameReceiver, Last, ToDevice!Next, ToDevice!Success
  <2>5. CASE LinkFailure("host")
    BY <1>1, <2>5 DEF LinkFailure, SameReceiver, Last, ToDevice!Next, ToDevice!Failure
  <2> QED
    BY <1>3, <2>1, <2>2, <2>3, <2>4, <2>5 DEF LinkStep
<1>4. ASSUME LinkStep("device") PROVE [ToHost!Next]_(ToHost!vars)
  <2>1. CASE SameLink("device")
    BY <1>1, <2>1 DEF SameLink, ToHost!vars, Last
  <2>2. CASE LinkWrite("device")
    BY <1>1, <2>2 DEF LinkWrite, SameReceiver, Last, ToHost!Next, ToHost!Write
  <2>3. CASE LinkDeliver("device")
    BY <1>1, <2>3 DEF LinkDeliver, Last, ToHost!Next, ToHost!Deliver
  <2>4. CASE LinkSuccess("device")
    BY <1>1, <2>4 DEF LinkSuccess, SameReceiver, Last, ToHost!Next, ToHost!Success
  <2>5. CASE LinkFailure("device")
    BY <1>1, <2>5 DEF LinkFailure, SameReceiver, Last, ToHost!Next, ToHost!Failure
  <2> QED
    BY <1>4, <2>1, <2>2, <2>3, <2>4, <2>5 DEF LinkStep
<1>5. Linked /\ [Next]_vars => [ToDevice!Next]_(ToDevice!vars) /\ [ToHost!Next]_(ToHost!vars)
  BY <1>1, <1>3, <1>4, NextPackets
<1> QED
  BY <1>2, <1>5, LinkedHolds, PTL DEF Spec, KeepsPromise, ToDevice!Spec, ToHost!Spec
=============================================================================
