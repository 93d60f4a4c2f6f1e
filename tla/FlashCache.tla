----------------------------- MODULE FlashCache -----------------------------
(***************************************************************************)
(* flash_nrf5x.c: one page of RAM in front of the flash, and the erase and *)
(* the writes that go past it.  The code is sequential; what interrupts it *)
(* is a power loss between two words, so a call is as many steps as it     *)
(* writes words.  Over serial the image goes through the cache, and the    *)
(* settings page and the erase of the bank go past it.                     *)
(***************************************************************************)
EXTENDS Integers, Sequences, SequencesExt

CONSTANTS
  Pages, PageWords, \* the flash, and CODE_PAGE_SIZE, in words
  Value, Erased,    \* what a word can hold; 0xFFFFFFFF
  MaxLen,           \* length of a write, in words
  NoPage            \* FLASH_CACHE_INVALID_ADDR

CacheAssumption ==
  /\ Pages \in Nat \ {0} /\ PageWords \in Nat \ {0} /\ MaxLen \in Nat
  /\ Erased \in Value /\ NoPage \notin 0 .. Pages - 1

VARIABLES
  flash,   \* the flash, word by word
  flAddr,  \* _fl_addr, as a page number
  flBuf,   \* _fl_buf
  request, \* what flash_nrf5x_write() has still to do
  todo,    \* words still to be written to flash
  flushing \* those words are the cached page's

vars == <<flash, flAddr, flBuf, request, todo, flushing>>

Addr == 0 .. Pages * PageWords - 1
Page == 0 .. Pages - 1
PageOf(a) == a \div PageWords
Words(p) == [i \in 1 .. PageWords |-> p * PageWords + i - 1]
InFlash(p) == [i \in 0 .. PageWords - 1 |-> flash[p * PageWords + i]]
NoBuf == [i \in 0 .. PageWords - 1 |-> Erased]
NoRequest == [dst |-> 0, data |-> <<>>, erase |-> FALSE]

Init ==
  /\ flash = [a \in Addr |-> Erased]
  /\ flAddr = NoPage /\ flBuf = NoBuf
  /\ request = NoRequest /\ todo = <<>> /\ flushing = FALSE

Returned == todo = <<>> /\ request = NoRequest

-----------------------------------------------------------------------------
(* flash_nrf5x_flush(): the page as a list of words to write.              *)

Clean(p) == flBuf = InFlash(p)
Erasing(p) == [i \in 1 .. PageWords |-> <<Words(p)[i], Erased>>]
Writing(p) == [i \in 1 .. PageWords |-> <<Words(p)[i], flBuf[i - 1]>>]
ToFlush(p, erase) ==
  IF Clean(p) THEN <<>> ELSE (IF erase THEN Erasing(p) ELSE <<>>) \o Writing(p)

\* The words go out one by one; the cache is given up after the last one.
WriteWord ==
  /\ todo # <<>>
  /\ flash' = [flash EXCEPT ![Head(todo)[1]] = Head(todo)[2]]
  /\ todo' = Tail(todo)
  /\ flAddr' = IF flushing /\ Len(todo) = 1 THEN NoPage ELSE flAddr
  /\ flushing' = (flushing /\ Len(todo) > 1)
  /\ UNCHANGED <<flBuf, request>>

NotFlushed(erase) ==                     \* mutant: the page is dropped
  flAddr' = NoPage /\ UNCHANGED <<todo, flushing>>
StartFlush(erase) ==
  /\ todo' = ToFlush(flAddr, erase)
  /\ flushing' = ~Clean(flAddr)
  /\ flAddr' = IF Clean(flAddr) THEN NoPage ELSE flAddr

Flush(erase) ==
  /\ Returned /\ flAddr # NoPage
  /\ StartFlush(erase)
  /\ UNCHANGED <<flash, flBuf, request>>

-----------------------------------------------------------------------------
(* flash_nrf5x_write(), one round of its loop at a time.                   *)

Write(dst, data, erase) ==
  /\ Returned
  /\ dst + Len(data) <= Pages * PageWords
  /\ request' = [dst |-> dst, data |-> data, erase |-> erase]
  /\ UNCHANGED <<flash, flAddr, flBuf, todo, flushing>>

ToFlushFirst == flAddr \notin {NoPage, PageOf(request.dst)}

\* "If page changed, write modified contents".
FlushForWrite ==
  /\ todo = <<>> /\ request.data # <<>> /\ ToFlushFirst
  /\ StartFlush(request.erase)
  /\ UNCHANGED <<flash, flBuf, request>>

ReadIn(p) == IF flAddr = p THEN flBuf ELSE InFlash(p)
BytesToEnd == PageWords - (request.dst % PageWords)
Round == IF Len(request.data) < BytesToEnd THEN Len(request.data) ELSE BytesToEnd

CopyIn ==
  /\ todo = <<>> /\ request.data # <<>> /\ ~ToFlushFirst
  /\ LET p == PageOf(request.dst)
         at == request.dst % PageWords
     IN /\ flAddr' = p
        /\ flBuf' = [i \in 0 .. PageWords - 1 |->
                       IF i \in at .. at + Round - 1 THEN request.data[i - at + 1]
                                                     ELSE ReadIn(p)[i]]
  /\ request' = IF Round = Len(request.data) THEN NoRequest
                ELSE [request EXCEPT !.dst = @ + Round,
                                     !.data = SubSeq(@, Round + 1, Len(@))]
  /\ UNCHANGED <<flash, todo, flushing>>

-----------------------------------------------------------------------------
(* Past the cache, to pages that are not in it: START comes before the     *)
(* first packet, and the settings page is not part of the bank.            *)

NotCached(p) == p # flAddr

\* flash_nrf5x_erase().
Erase(p, n) ==
  /\ Returned /\ p + n <= Pages
  /\ \A q \in p .. p + n - 1 : NotCached(q)
  /\ todo' = [i \in 1 .. n * PageWords |-> <<p * PageWords + i - 1, Erased>>]
  /\ UNCHANGED <<flash, flAddr, flBuf, request, flushing>>

\* nrfx_nvmc_page_erase() and nrfx_nvmc_words_write(), for the settings.
Save(p, v) ==
  /\ Returned /\ NotCached(p)
  /\ todo' = Erasing(p) \o <<<<Words(p)[1], v>>>>
  /\ UNCHANGED <<flash, flAddr, flBuf, request, flushing>>

\* RAM is lost, and what was still to be written.
PowerLoss ==
  /\ flAddr' = NoPage /\ flBuf' = NoBuf
  /\ request' = NoRequest /\ todo' = <<>> /\ flushing' = FALSE
  /\ flash' = flash

Next ==
  \/ \E dst \in Addr, data \in BoundedSeq(Value, MaxLen), e \in BOOLEAN :
       data # <<>> /\ Write(dst, data, e)
  \/ FlushForWrite \/ CopyIn \/ WriteWord
  \/ \E e \in BOOLEAN : Flush(e)
  \/ \E p \in Page, n \in 1 .. Pages : Erase(p, n)
  \/ \E p \in Page, v \in Value : Save(p, v)
  \/ PowerLoss

Spec == Init /\ [][Next]_vars

-----------------------------------------------------------------------------
(* Properties.                                                             *)

TypeOK ==
  /\ flash \in [Addr -> Value] /\ flAddr \in Page \cup {NoPage}
  /\ flBuf \in [0 .. PageWords - 1 -> Value]
  /\ request.dst \in Addr /\ Len(request.data) <= MaxLen
  /\ \A i \in 1 .. Len(todo) : todo[i] \in Addr \X Value
  /\ flushing => flAddr # NoPage /\ todo # <<>>

\* The flash and its one cached page are a memory that reads as it was written,
\* whatever pages a write goes over and whatever goes past the cache; a power
\* loss between any two words takes no page but the one of the last write, not
\* even when the next write has already asked for another page.
View == [a \in Addr |-> IF PageOf(a) = flAddr THEN flBuf[a % PageWords] ELSE flash[a]]
Promise == INSTANCE PagedMemory WITH
  view <- View, open <- flAddr,
  want <- [dst |-> request.dst, data |-> request.data],
  past <- IF flushing THEN <<>> ELSE todo
KeepsPages == Promise!Spec
=============================================================================
