---------------------------- MODULE PagedMemory ----------------------------
(***************************************************************************)
(* What flash_nrf5x.c promises to those who write through it: a memory     *)
(* that reads as it was written, of which a power loss can take no more    *)
(* than the page of the last write.                                        *)
(***************************************************************************)
EXTENDS Integers, Sequences

CONSTANTS Pages, PageWords, Value, MaxLen, NoPage

VARIABLES
  view, \* what was written, word by word
  open, \* the one page that is not durable yet, or NoPage
  want, \* the write that was called and is not done: where, and what
  past  \* words on their way past the cache

Addr == 0 .. Pages * PageWords - 1
PageOf(a) == a \div PageWords
Nothing == [dst |-> 0, data |-> <<>>]

Init == view \in [Addr -> Value] /\ open = NoPage /\ want = Nothing /\ past = <<>>

Call ==
  /\ want = Nothing /\ past = <<>>
  /\ \E dst \in Addr, n \in 1 .. MaxLen :
       /\ dst + n <= Pages * PageWords
       /\ want' \in [dst : {dst}, data : [1 .. n -> Value]]
  /\ UNCHANGED <<view, open, past>>

\* The next words of the write, as far as one page goes.
Write(n) ==
  LET dst == want.dst IN
  /\ n <= Len(want.data) /\ PageOf(dst + n - 1) = PageOf(dst)
  /\ open' = PageOf(dst)
  /\ view' = [a \in Addr |-> IF a \in dst .. dst + n - 1 THEN want.data[a - dst + 1]
                                                           ELSE view[a]]
  /\ want' = IF n = Len(want.data) THEN Nothing
             ELSE [dst |-> dst + n, data |-> SubSeq(want.data, n + 1, Len(want.data))]
  /\ past' = past

\* The page that was open is durable.
Sync == open' = NoPage /\ UNCHANGED <<view, want, past>>

\* Writes that go past the cache, word by word, and are at once durable.
CallPast ==
  /\ want = Nothing /\ past = <<>>
  /\ past' \in Seq(Addr \X Value)
  /\ UNCHANGED <<view, open, want>>
Direct ==
  /\ past # <<>> /\ PageOf(Head(past)[1]) # open
  /\ view' = [view EXCEPT ![Head(past)[1]] = Head(past)[2]]
  /\ past' = Tail(past)
  /\ UNCHANGED <<open, want>>

PowerLoss ==
  /\ open' = NoPage /\ want' = Nothing /\ past' = <<>>
  /\ view' \in [Addr -> Value]
  /\ \A a \in Addr : PageOf(a) # open => view'[a] = view[a]

Next ==
  \/ Call \/ (\E n \in 1 .. PageWords : Write(n))
  \/ Sync \/ CallPast \/ Direct \/ PowerLoss

Spec == Init /\ [][Next]_<<view, open, want, past>>
=============================================================================
