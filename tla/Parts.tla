-------------------------------- MODULE Parts --------------------------------
(***************************************************************************)
(* Six components that share no state, side by side: a behaviour is one of *)
(* the component that its first state chooses, and the variables of the    *)
(* others do not change.  The pool has its own names here, and each of the *)
(* others the constants of its module.                                     *)
(***************************************************************************)
EXTENDS MemPoolClient

CONSTANTS
  QSize, Timer, Sd, NoEvent,                               \* AppScheduler
  Pages, PageWords, Value, MaxLen, NoPage,                 \* FlashCache
  DataFrames, AckFrames, BufSize, AckBufSize, MaxDamage,   \* Slip
  BankChunks, Word, Old, Updates,                          \* DfuDualBank
  Erased                                                   \* both of flash

VARIABLES
  part,  \* the component
  sStart, sEnd, sEntry, sIsr, sMain, sSd, sIrq,
  bPhase, bGpregret, bDbl, bPin, bApp, bButton, bLink, bWasConn, bTimer, bAsked,
  cFlash, cAddr, cBuf, cRequest, cTodo, cFlushing,
  lTx, lIndex, lSend, lHandle, lBuffer, lGot, lDamage, lDamaged, lMissed,
  dFlash, dStg, dMode, dOta, dStatus, dSt, dUpdate, dReceived, dOverrun, dTimer, dTimedOut,
  dOps, dProg, dLast, dCut

sched == <<sStart, sEnd, sEntry, sIsr, sMain, sSd, sIrq>>
boot  == <<bPhase, bGpregret, bDbl, bPin, bApp, bButton, bLink, bWasConn, bTimer, bAsked>>
cache == <<cFlash, cAddr, cBuf, cRequest, cTodo, cFlushing>>
line  == <<lTx, lIndex, lSend, lHandle, lBuffer, lGot, lDamage, lDamaged, lMissed>>
dual  == <<dFlash, dStg, dMode, dOta, dStatus, dSt, dUpdate, dReceived, dOverrun, dTimer,
           dTimedOut, dOps, dProg, dLast, dCut>>
partsVars == <<part, vars, sched, boot, cache, line, dual>>

\* app_scheduler.c.
Sched == INSTANCE AppScheduler WITH
  start <- sStart, end <- sEnd, entry <- sEntry, isr <- sIsr, main <- sMain, sd <- sSd, irq <- sIrq
ASSUME SchedAssumption == Sched!QueueAssumption

\* check_dfu_mode() and main() of main.c.
Boot == INSTANCE BootMode WITH
  phase <- bPhase, gpregret <- bGpregret, dbl <- bDbl, pin <- bPin, app <- bApp,
  button <- bButton, link <- bLink, wasConn <- bWasConn, timer <- bTimer, asked <- bAsked

\* flash_nrf5x.c.
Cache == INSTANCE FlashCache WITH
  flash <- cFlash, flAddr <- cAddr, flBuf <- cBuf, request <- cRequest, todo <- cTodo,
  flushing <- cFlushing
ASSUME CacheAssumed == Cache!CacheAssumption

\* hci_slip.c.
Line == INSTANCE Slip WITH
  tx <- lTx, index <- lIndex, send <- lSend, handle <- lHandle, buffer <- lBuffer, got <- lGot,
  damage <- lDamage, damaged <- lDamaged, missed <- lMissed
ASSUME LineAssumed == Line!SlipAssumption

\* dfu_dual_bank.c.
Dual == INSTANCE DfuDualBank WITH
  flash <- dFlash, stg <- dStg, mode <- dMode, ota <- dOta, status <- dStatus, st <- dSt,
  update <- dUpdate, received <- dReceived, overrun <- dOverrun, timer <- dTimer,
  timedOut <- dTimedOut, ops <- dOps, prog <- dProg, last <- dLast, cut <- dCut
ASSUME DualAssumed == Dual!DualAssumption

-----------------------------------------------------------------------------

Only(p) ==
  /\ part = p /\ part' = p
  /\ p # "pool" => UNCHANGED vars
  /\ p # "sched" => UNCHANGED sched
  /\ p # "boot" => UNCHANGED boot
  /\ p # "cache" => UNCHANGED cache
  /\ p # "line" => UNCHANGED line
  /\ p # "dual" => UNCHANGED dual

\* The components that do not take part have one first state each.
PartsInit ==
  /\ part \in {"pool", "sched", "boot", "cache", "line", "dual"}
  /\ Init /\ Sched!Init /\ Cache!Init /\ Line!Init
  /\ Boot!Init /\ (part # "boot" => bApp = [valid |-> TRUE, tap |-> FALSE])
  /\ Dual!Init /\ (part # "dual" => dStg = Dual!ErasedRecord)

PartsNext ==
  \/ Only("pool") /\ Next
  \/ Only("sched") /\ Sched!Next
  \/ Only("boot") /\ Boot!Next
  \/ Only("cache") /\ Cache!Next
  \/ Only("line") /\ Line!Next
  \/ Only("dual") /\ Dual!Next

PartsSpec == PartsInit /\ [][PartsNext]_partsVars

-----------------------------------------------------------------------------
(* Properties: the components' own; KeepsPromise is the pool's.            *)

\* Every component's state has its type, hci_slip.c writes no byte past the end
\* of the registered buffer, the pool takes back every buffer it handed out, and
\* the scheduler's slot of the event being handled is its own until then.
StatesSound ==
  /\ TypeOK /\ HeldIsConsumable
  /\ Sched!TypeOK /\ Boot!TypeOK /\ Cache!TypeOK
  /\ Line!TypeOK /\ Line!InBounds /\ Dual!TypeOK
  /\ Sched!RunningIntact

\* main.c: events of the SoftDevice that are not fetched have an interrupt or a
\* queued event to fetch them, though with a full queue the interrupt does nothing.
SdNotForgotten == Sched!SdNotForgotten
\* app_scheduler.c: the ring is a FIFO queue (EventQueue).
KeepsOrder == Sched!KeepsOrder
\* main.c: every boot does what it was asked for, and nothing stale.
DecidesAsAsked == Boot!DecidesAsAsked
\* flash_nrf5x.c: flash and cached page are a memory that reads as it was written
\* and of which a power loss takes one page at most (PagedMemory).
KeepsPages == Cache!KeepsPages
\* hci_slip.c: whole frames get the decoder back in step.
Resyncs == Line!Resyncs
\* dfu_dual_bank.c: an update that was not activated, or was to the end, leaves a
\* whole application, and nothing incomplete is announced.
OldOrNew == Dual!OldOrNew
=============================================================================
