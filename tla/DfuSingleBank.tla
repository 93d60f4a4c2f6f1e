---------------------------- MODULE DfuSingleBank ----------------------------
(***************************************************************************)
(* The single-bank update engine and the decision to boot: dfu_single_bank *)
(* (the DFU state machine), bootloader.c (settings page, update status,    *)
(* app validity) and main() of the nRF54L bootloader, over a flash that    *)
(* can lose power between any two elementary writes.                       *)
(*                                                                         *)
(* One data packet carries one CHUNK of the image, and bank 0 is a         *)
(* function from chunk numbers to chunk contents.  Chunk -1 is the last    *)
(* chunk below the bank (the CF2 page of the bootloader).  An image is a   *)
(* sequence of words, one per chunk, and stands for its own CRC: the model *)
(* assumes that CRC-16 does not collide.                                   *)
(*                                                                         *)
(* Flash work is a FIFO of operations, each executed one elementary write  *)
(* at a time.  Over the air it is the pstorage queue and runs while the    *)
(* main loop handles packets; over serial the same operations are done     *)
(* inside the handler, so the main loop is blocked until the FIFO drains.  *)
(***************************************************************************)
EXTENDS Integers, Sequences, FiniteSets

CONSTANTS
  BankChunks,    \* chunks in bank 0 (DFU_IMAGE_MAX_SIZE_FULL)
  PageChunks,    \* chunks per flash page (CODE_PAGE_SIZE)
  BlMaxChunks,   \* DFU_BL_IMAGE_MAX_SIZE in chunks
  QueueSize,     \* PSTORAGE_CMD_QUEUE_SIZE
  Word,          \* contents a chunk of an image can have
  Erased,        \* content of an erased chunk (all 0xFF)
  Garbage,       \* content of a chunk that was overwritten in part
  Images,        \* images a host may send: sequences of words
  SwdImages,     \* images a debug probe may program
  NoInit, BadInit, \* no init packet received / one that prevalidate refuses
  StartPackets,  \* start packets a host may send
  Links,         \* which transports are in use: subset of BOOLEAN (TRUE = OTA)
  Restarts       \* may an OTA host send START when an update is under way?

Chunks == 0 .. BankChunks - 1
Cells  == -1 .. BankChunks - 1
Modes  == {"SD", "BL", "APP"}
StartPacket == [mode : SUBSET Modes, sd : Nat, bl : Nat, app : Nat, words : BOOLEAN]

ASSUME SizesAssumption ==
  /\ PageChunks \in Nat \ {0}
  /\ BankChunks \in Nat \ {0}
  /\ BankChunks % PageChunks = 0
  /\ BlMaxChunks \in Nat
  /\ QueueSize \in Nat /\ QueueSize >= 3
ASSUME ContentAssumption ==
  /\ Erased \notin Word /\ Garbage \notin Word /\ Erased # Garbage
  /\ Images \subseteq Seq(Word)
  /\ SwdImages \subseteq {s \in Seq(Word) : Len(s) \in 1 .. BankChunks}
  /\ NoInit \notin Images /\ BadInit \notin Images /\ NoInit # BadInit
ASSUME InputAssumption ==
  /\ StartPackets \subseteq StartPacket
  /\ Links \subseteq BOOLEAN
  /\ Restarts \in BOOLEAN

VARIABLES
  \* ---- non-volatile
  flash,     \* content of every cell of bank 0 and of the chunk below it
  stg,       \* the settings page: bank_0, bank_1, "an SD or BL size is not 0"
  \* ---- where main() is
  mode,      \* "off", "finalize", "check", "dfu" or "app"
  ota,       \* _ota_dfu
  status,    \* m_update_status
  \* ---- dfu_single_bank.c
  st,        \* m_dfu_state
  pkt,       \* m_start_packet
  imageSize, \* m_image_size in chunks
  activate,  \* m_functions.activate
  received,  \* m_data_received in chunks (less one byte once overrun)
  overrun,   \* m_data_received was set to 0xFFFFFFFF
  init,      \* m_init_packet: the image whose CRC it carries
  \* ---- DFU timer
  timerOn, timerEvt, timedOut,
  \* ---- flash operations
  fq,        \* pending operations, head in execution
  prog,      \* elementary writes already done of the head
  sbuf,      \* the static settings record that a queued store points to
  cache      \* _fl_buf: writes to the page cached by flash_nrf5x.c

nonVolatile == <<flash, stg>>
dfuVars     == <<st, pkt, imageSize, activate, received, overrun, init>>
timerVars   == <<timerOn, timerEvt, timedOut>>
opVars      == <<fq, prog, sbuf, cache>>
vars == <<flash, stg, mode, ota, status, dfuVars, timerVars, opVars>>

Bank0Codes == {"ERASED", "VALID_APP", "VALID_SD", "INVALID"}
Bank1Codes == {"ERASED", "VALID_BOOT", "INVALID"}
Settings == [b0 : Bank0Codes, b1 : Bank1Codes, img : BOOLEAN]
ErasedSettings == [b0 |-> "ERASED", b1 |-> "ERASED", img |-> TRUE]
SettingsWords == 3
\* The page after word n of the record "new" is written over "old".
WordWritten(old, new, n) ==
  [b0  |-> IF n = 0 THEN new.b0 ELSE old.b0,
   b1  |-> IF n = 1 THEN new.b1 ELSE old.b1,
   img |-> IF n = 2 THEN new.img ELSE old.img]
ZeroSettings   == [b0 |-> "INVALID", b1 |-> "INVALID", img |-> FALSE]
NoPacket == [mode |-> {}, sd |-> 0, bl |-> 0, app |-> 0, words |-> TRUE]

DfuStates == {"IDLE", "PREPARING", "RDY", "RX_INIT_PKT", "RX_DATA_PKT",
              "VALIDATE", "WAIT_4_ACTIVATE"}
FinalButTimeout == {"COMPLETE", "SYS_RESET", "RESET_TO_SELF"}     \* mutant
FinalStatus == {"COMPLETE", "TIMEOUT", "SYS_RESET", "RESET_TO_SELF"}
Statuses == {"UPDATING", "SETTINGS_SAVING"} \cup FinalStatus

EraseOp(n)   == [op |-> "erase", k |-> n, v |-> Erased]
DataOp(k, v) == [op |-> "data", k |-> k, v |-> v]
SettingsErase == [op |-> "serase", k |-> 0, v |-> Erased]
SettingsStore == [op |-> "sstore", k |-> 0, v |-> Erased]
SaveOps == <<SettingsErase, SettingsStore>>

-----------------------------------------------------------------------------
(* What is in flash.                                                       *)

\* bootloader_app_is_valid(): the stored CRC is always 0, so it is not tested.
AppIsValid == flash[0] # Erased /\ stg.b0 \in {"ERASED", "VALID_APP"}
\* bootloader_dfu_sd_in_progress().
SdInProgress == stg.b0 = "VALID_SD" \/ stg.b1 = "VALID_BOOT"
\* Bank 0 starts with the image s.
Holds(s) == \A k \in 0 .. Len(s) - 1 : k \in Chunks /\ flash[k] = s[k + 1]

-----------------------------------------------------------------------------
(* Reset, power loss and the start of main().                              *)

\* Everything in RAM returns to its start value.
RamCleared ==
  /\ status' = "UPDATING"
  /\ st' = "IDLE" /\ pkt' = NoPacket /\ imageSize' = 0 /\ activate' = "NONE"
  /\ received' = 0 /\ overrun' = FALSE /\ init' = NoInit
  /\ timerOn' = FALSE /\ timerEvt' = FALSE /\ timedOut' = FALSE
  /\ fq' = <<>> /\ prog' = 0 /\ sbuf' = ZeroSettings /\ cache' = <<>>
  /\ ota' = FALSE

Reboot == mode' = "off" /\ RamCleared

Init ==
  /\ flash = [k \in Cells |-> IF k = -1 THEN Garbage ELSE Erased]
  /\ stg = ErasedSettings
  /\ mode = "off" /\ ota = FALSE /\ status = "UPDATING"
  /\ st = "IDLE" /\ pkt = NoPacket /\ imageSize = 0 /\ activate = "NONE"
  /\ received = 0 /\ overrun = FALSE /\ init = NoInit
  /\ timerOn = FALSE /\ timerEvt = FALSE /\ timedOut = FALSE
  /\ fq = <<>> /\ prog = 0 /\ sbuf = ZeroSettings /\ cache = <<>>

\* Power loss, pin reset, a failed APP_ERROR_CHECK, a flash operation error,
\* or the application resetting: possible between any two elementary steps.
PowerLoss == mode # "off" /\ Reboot /\ UNCHANGED nonVolatile

\* A debug probe writes an image and leaves the settings page erased.
SwdProgram(s) ==
  /\ mode = "off"
  /\ flash' = [k \in Cells |-> IF k \in 0 .. Len(s) - 1 THEN s[k + 1] ELSE flash[k]]
  /\ stg' = ErasedSettings
  /\ UNCHANGED <<mode, ota, status, dfuVars, timerVars, opVars>>

\* main() up to check_dfu_mode().  With an SD or BL size recorded, the MBR
\* command fails and APP_ERROR_CHECK resets; with none, finalize saves the
\* settings of DFU_UPDATE_SD_SWAPPED.
Start ==
  /\ mode = "off"
  /\ IF ~SdInProgress
       THEN mode' = "check" /\ UNCHANGED <<status, fq, sbuf>>
       ELSE /\ ~stg.img
            /\ mode' = "finalize" /\ status' = "SETTINGS_SAVING"
            /\ fq' = SaveOps
            /\ sbuf' = [b0 |-> IF stg.b0 = "VALID_SD" THEN "INVALID" ELSE stg.b0,
                        b1 |-> "INVALID", img |-> FALSE]
  /\ UNCHANGED <<nonVolatile, ota, dfuVars, timerVars, prog, cache>>

\* The reset that follows when the MBR command reports NOT_SUPPORTED.
MbrFault ==
  /\ mode = "off" /\ SdInProgress /\ stg.img
  /\ UNCHANGED vars

FinalizeDone ==
  /\ mode = "finalize" /\ fq = <<>> /\ status = "COMPLETE"
  /\ mode' = "check"
  /\ UNCHANGED <<nonVolatile, ota, status, dfuVars, timerVars, opVars>>

\* Where main() goes after check_dfu_mode(): the application or a reset.
Leave(s) ==
  IF s # "RESET_TO_SELF" /\ AppIsValid /\ ~SdInProgress
    THEN mode' = "app" /\ RamCleared
    ELSE Reboot

CheckOnRequest(wanted, link) ==             \* mutant: the application is not looked at
  /\ mode = "check"
  /\ IF status = "UPDATING" /\ wanted = "yes"
       THEN /\ mode' = "dfu" /\ ota' = link /\ timerOn' = TRUE
            /\ UNCHANGED <<status, dfuVars, timerEvt, timedOut, opVars>>
       ELSE Leave(status)
  /\ UNCHANGED nonVolatile

\* check_dfu_mode(): buttons, registers and the double reset are inputs here.
\* "skip" is DFU_MAGIC_SKIP, which returns even when there is no valid
\* application; the register is cleared, so the next start does not skip.
\* After a finalize the status is still COMPLETE: wait_for_events() returns on
\* its first pass, before any packet can have arrived.
CheckDfuMode(wanted, link) ==
  /\ mode = "check"
  /\ IF status = "UPDATING" /\ (wanted = "yes" \/ (wanted = "no" /\ ~AppIsValid))
       THEN /\ mode' = "dfu" /\ ota' = link
            /\ timerOn' = TRUE                    \* dfu_init()
            /\ UNCHANGED <<status, dfuVars, timerEvt, timedOut, opVars>>
       ELSE Leave(status)
  /\ UNCHANGED nonVolatile

-----------------------------------------------------------------------------
(* Flash operations.                                                       *)

\* Elementary writes of an operation.
Steps(op) == CASE op.op = "erase" -> op.k
               [] op.op = "data"  -> 1
               [] OTHER           -> SettingsWords

\* One elementary write of the operation at the head of the queue.
FlashStep ==
  /\ fq # <<>> /\ prog < Steps(Head(fq))
  /\ LET op == Head(fq) IN
       \/ /\ op.op = "erase"
          /\ flash' = [flash EXCEPT ![prog] = Erased]
          /\ stg' = stg
       \/ /\ op.op = "data"
          /\ flash' = [flash EXCEPT ![op.k] = op.v]
          /\ stg' = stg
       \/ /\ op.op \in {"serase", "sstore"}
          /\ stg' = WordWritten(stg, IF op.op = "serase" THEN ErasedSettings ELSE sbuf, prog)
          /\ flash' = flash
  /\ prog' = prog + 1
  /\ UNCHANGED <<mode, ota, status, dfuVars, timerVars, fq, sbuf, cache>>

BankErasedUnmarked == <<>>                  \* mutant: the record is left as it was
\* DFU_BANK_0_ERASED saves the settings.
BankErasedOps == SaveOps

SavedWhenErased(op) == op.op = "serase" /\ status = "SETTINGS_SAVING"    \* mutant
\* bootloader.c's pstorage callback: the store that ends an activation.
SettingsSaved(op) == op.op = "sstore" /\ status = "SETTINGS_SAVING"

\* The operation is complete: pstorage_sys_event_handler() (over serial, the
\* handler itself) takes it off the queue and calls the owner back.  The end
\* of the bank erase makes the settings say so before any data is written.
OpDone ==
  /\ fq # <<>> /\ prog = Steps(Head(fq))
  /\ prog' = 0
  /\ IF Head(fq).op = "erase" /\ st = "PREPARING"
       THEN /\ sbuf' = [sbuf EXCEPT !.b0 = "INVALID", !.b1 = stg.b1]
            /\ fq' = Tail(fq) \o BankErasedOps
            /\ st' = "RDY"
       ELSE fq' = Tail(fq) /\ UNCHANGED <<sbuf, st>>
  /\ status' = IF SettingsSaved(Head(fq)) THEN "COMPLETE" ELSE status
  /\ UNCHANGED <<nonVolatile, mode, ota, pkt, imageSize, activate, received,
                 overrun, init, timerVars, cache>>

\* The main loop can handle an event: over serial, flash work blocks it.
MainReady == mode = "dfu" /\ (ota \/ fq = <<>>)
\* There is room for n more commands; otherwise the caller waits in proc_soc().
Room(n) == ota => Len(fq) + n <= QueueSize

\* dfu_transport_serial_close() drops the buffered packets and the port.
HostReady == MainReady /\ (~ota => status # "TIMEOUT")

-----------------------------------------------------------------------------
(* START packet: dfu_start_pkt_handle().                                   *)

Total(p) == p.sd + p.bl + p.app
PageUp(n) == ((n + PageChunks - 1) \div PageChunks) * PageChunks
\* pstorage clears at least one page, flash_nrf5x_erase() rounds up.
EraseSize(n) == IF ota /\ n = 0 THEN PageChunks ELSE PageUp(n)

NotSupported(p) == \/ "APP" \in p.mode /\ p.mode \cap {"SD", "BL"} # {}
                   \/ ~p.words
OnlyBlTooLarge(p) == p.bl > BlMaxChunks     \* mutant: the total is not checked
TooLarge(p) == p.bl > BlMaxChunks \/ Total(p) > BankChunks
ActivateOf(p) == IF "SD" \in p.mode THEN "SD"
                 ELSE IF "BL" \in p.mode THEN "BL" ELSE "APP"
StartAccepted(p) ==
  ~NotSupported(p) /\ ~TooLarge(p) /\ st = "IDLE" /\ ~timedOut

\* The start packet is stored before it is judged, and the size and the
\* activate function before the state is.
StartPktHandle(p) ==
  /\ pkt' = p
  /\ imageSize' = IF NotSupported(p) THEN imageSize ELSE Total(p)
  /\ activate' = IF NotSupported(p) \/ TooLarge(p) THEN activate ELSE ActivateOf(p)
  /\ IF StartAccepted(p)
       THEN /\ Room(1)
            /\ st' = "PREPARING" /\ timerOn' = TRUE
            /\ fq' = Append(fq, EraseOp(EraseSize(Total(p))))
       ELSE UNCHANGED <<st, timerOn, fq>>
  /\ UNCHANGED <<received, overrun, init>>

\* Over the air an error is only reported; over serial it is fatal.
HostStart(p) ==
  /\ HostReady
  /\ ota /\ ~Restarts => st = "IDLE"
  /\ IF ~ota /\ ~StartAccepted(p)
       THEN Reboot /\ UNCHANGED nonVolatile
       ELSE /\ StartPktHandle(p)
            /\ UNCHANGED <<nonVolatile, mode, ota, status, timerEvt, timedOut,
                           prog, sbuf, cache>>

-----------------------------------------------------------------------------
(* INIT packets: dfu_init_pkt_handle() and dfu_init_pkt_complete().        *)

\* A second packet is appended: the CRC stays that of the first.
Appended(d) == IF init \in Images THEN init ELSE d

\* Over the air: one write to the packet characteristic.
HostInitBle(d) ==
  /\ HostReady /\ ota
  /\ st \in {"RDY", "RX_INIT_PKT"}
  /\ st' = "RX_INIT_PKT"
  /\ IF received > 0 \/ timedOut
       THEN UNCHANGED <<timerOn, init>>
       ELSE timerOn' = TRUE /\ init' = Appended(d)
  /\ UNCHANGED <<nonVolatile, mode, ota, status, pkt, imageSize, activate,
                 received, overrun, timerEvt, timedOut, opVars>>

\* Over the air: the control point says the init packet is complete.
HostInitComplete ==
  /\ HostReady /\ ota
  /\ st = "RX_INIT_PKT" /\ received = 0
  /\ IF init \in Images
       THEN st' = "RX_DATA_PKT" /\ init' = init
       ELSE st' = st /\ init' = NoInit
  /\ UNCHANGED <<nonVolatile, mode, ota, status, pkt, imageSize, activate,
                 received, overrun, timerVars, opVars>>

\* Over serial one packet does both, and an error is fatal.
HostInitSerial(d) ==
  /\ HostReady /\ ~ota
  /\ IF st = "RDY" /\ d \in Images /\ ~timedOut
       THEN /\ st' = "RX_DATA_PKT" /\ init' = d /\ timerOn' = TRUE
            /\ UNCHANGED <<nonVolatile, mode, ota, status, pkt, imageSize, activate,
                           received, overrun, timerEvt, timedOut, opVars>>
       ELSE Reboot /\ UNCHANGED nonVolatile

-----------------------------------------------------------------------------
(* DATA packets: dfu_data_pkt_handle() and the page cache of flash_nrf5x.  *)

Page(k) == k \div PageChunks
\* flash_nrf5x_write() of one write: a change of page flushes the cache first.
Put(cq, op) == IF cq.cache = <<>> \/ Page(cq.cache[1].k) = Page(op.k)
                 THEN [cq EXCEPT !.cache = Append(@, op)]
                 ELSE [cache |-> <<op>>, fq |-> cq.fq \o cq.cache]

\* With m_data_received at 0xFFFFFFFF + n chunks, a chunk is written one byte
\* early: it spoils the chunk before it and does not fill its own.
CachedWrite(v) ==
  LET now == [cache |-> cache, fq |-> fq]
  IN  IF ~overrun THEN Put(now, DataOp(received, v))
      ELSE Put(Put(now, DataOp(received - 1, Garbage)), DataOp(received, Garbage))

SerialWrite(v) ==
  LET w == CachedWrite(v)
  IN  IF received + 1 = imageSize /\ ~overrun       \* flash_nrf5x_flush()
        THEN fq' = w.fq \o w.cache /\ cache' = <<>>
        ELSE fq' = w.fq /\ cache' = w.cache

StoreTaken == FALSE                         \* mutant: no alignment check
\* pstorage_store(): an offset that is not word aligned is an INVALID_ADDR.
StoreRejected == overrun

HostData(v) ==
  /\ HostReady /\ st = "RX_DATA_PKT"
  /\ IF received + 1 > imageSize
       THEN \* 0xFFFFFFFF is chunk 0 less one byte, modulo 2^32
            /\ received' = 0 /\ overrun' = TRUE
            /\ UNCHANGED <<timerOn, fq, cache>>
       ELSE /\ ~timedOut /\ timerOn' = TRUE
            /\ \/ /\ ota /\ StoreRejected
                  /\ UNCHANGED <<received, fq, cache>>
               \/ /\ ota /\ ~StoreRejected /\ Room(1)
                  /\ fq' = Append(fq, DataOp(received, v))
                  /\ received' = received + 1 /\ cache' = cache
               \/ /\ ~ota /\ SerialWrite(v)
                  /\ received' = received + 1
            /\ overrun' = overrun
  /\ UNCHANGED <<nonVolatile, mode, ota, status, st, pkt, imageSize, activate,
                 init, timerEvt, timedOut, prog, sbuf>>

-----------------------------------------------------------------------------
(* Validation, activation, reset.                                          *)

AllReceived == received = imageSize /\ ~overrun
LengthMatches == Len(init) = imageSize      \* mutant: the CRC is not compared
\* dfu_init_postvalidate(): the CRC of imageSize bytes of the bank.
CrcMatches == Len(init) = imageSize /\ Holds(init)

ValidatedUnchecked ==                       \* mutant: the result of the CRC is ignored
  IF st = "RX_DATA_PKT" /\ AllReceived THEN "WAIT_4_ACTIVATE" ELSE st
\* dfu_image_validate(): the next state of the DFU state machine.
Validated ==
  IF st = "RX_DATA_PKT" /\ AllReceived
    THEN IF ~timedOut /\ CrcMatches THEN "WAIT_4_ACTIVATE" ELSE "VALIDATE"
    ELSE st
ValidateRestartsTimer == st = "RX_DATA_PKT" /\ AllReceived /\ ~timedOut

\* dfu_activate_app(), _sd() and _bl(): the settings that are to be saved.
ActivatedSettings ==
  CASE activate = "SD" -> [b0 |-> "VALID_SD", b1 |-> "INVALID",
                           img |-> pkt.sd > 0 \/ pkt.bl > 0]
    [] activate = "BL" -> [b0 |-> stg.b0, b1 |-> "VALID_BOOT",
                           img |-> pkt.sd > 0 \/ pkt.bl > 0]
    [] OTHER           -> [sbuf EXCEPT !.b0 = "VALID_APP", !.b1 = "INVALID"]

\* dfu_image_activate() in state WAIT_4_ACTIVATE.
ImageActivate ==
  /\ Room(2)
  /\ timerOn' = FALSE
  /\ sbuf' = ActivatedSettings
  /\ fq' = fq \o SaveOps
  /\ status' = "SETTINGS_SAVING"

\* dfu_reset().
DfuReset ==
  /\ status' = IF st = "RX_DATA_PKT" /\ ~AllReceived
                 THEN "RESET_TO_SELF" ELSE "SYS_RESET"
  /\ UNCHANGED <<timerOn, sbuf, fq>>

HostValidate ==
  /\ HostReady /\ ota
  /\ st' = Validated
  /\ timerOn' = (timerOn \/ ValidateRestartsTimer)
  /\ UNCHANGED <<nonVolatile, mode, ota, status, pkt, imageSize, activate, received,
                 overrun, init, timerEvt, timedOut, opVars>>

\* Both commands first close the link (dfu_transport_ble_close()); when it is
\* being closed already, the second disconnect fails and APP_ERROR_CHECK resets.
Closing == status # "UPDATING"

\* BLE_DFU_ACTIVATE_N_RESET: a refused activation becomes a reset.
HostActivate ==
  /\ HostReady /\ ota
  /\ IF Closing
       THEN Reboot /\ UNCHANGED nonVolatile
       ELSE /\ IF st = "WAIT_4_ACTIVATE" THEN ImageActivate ELSE DfuReset
            /\ UNCHANGED <<nonVolatile, mode, ota, dfuVars, timerEvt, timedOut,
                           prog, cache>>

\* BLE_DFU_SYS_RESET.
HostReset ==
  /\ HostReady /\ ota
  /\ IF Closing
       THEN Reboot
       ELSE /\ DfuReset
            /\ UNCHANGED <<mode, ota, dfuVars, timerEvt, timedOut, prog, cache>>
  /\ UNCHANGED nonVolatile

\* STOP_DATA_PACKET: validate, then activate, both results ignored.
HostStop ==
  /\ HostReady /\ ~ota
  /\ st' = Validated
  /\ IF st' = "WAIT_4_ACTIVATE"
       THEN ImageActivate
       ELSE /\ timerOn' = (timerOn \/ ValidateRestartsTimer)
            /\ UNCHANGED <<sbuf, fq, status>>
  /\ UNCHANGED <<nonVolatile, mode, ota, pkt, imageSize, activate, received,
                 overrun, init, timerEvt, timedOut, prog, cache>>

-----------------------------------------------------------------------------
(* The DFU timer and the end of the DFU mode.                              *)

\* The timer interrupt puts the handler into the scheduler queue.
TimerExpires ==
  /\ timerOn /\ mode = "dfu"
  /\ timerOn' = FALSE /\ timerEvt' = TRUE
  /\ UNCHANGED <<nonVolatile, mode, ota, status, dfuVars, timedOut, opVars>>

\* dfu_timeout_handler(), run by the main loop.
TimeoutHandler ==
  /\ MainReady /\ timerEvt
  /\ timerEvt' = FALSE /\ timedOut' = TRUE
  /\ status' = "TIMEOUT"
  /\ UNCHANGED <<nonVolatile, mode, ota, dfuVars, timerOn, opVars>>

\* dfu_startup_timer_handler(): serial DFU mode that the user did not ask for
\* ends when no packet arrives.  It is not the DFU timer: timedOut stays.
StartupTimeout ==
  /\ MainReady /\ ~ota /\ pkt = NoPacket
  /\ status' = "TIMEOUT"
  /\ UNCHANGED <<nonVolatile, mode, ota, dfuVars, timerVars, opVars>>

\* wait_for_events() returns and main() goes on; pending operations are lost.
WaitForEventsReturns ==
  /\ MainReady /\ status \in FinalStatus
  /\ Leave(status)
  /\ UNCHANGED nonVolatile

-----------------------------------------------------------------------------
Boot == \/ Start \/ MbrFault \/ FinalizeDone
        \/ \E wanted \in {"yes", "no", "skip"}, link \in Links : CheckDfuMode(wanted, link)
Flash == FlashStep \/ OpDone
Host == \/ \E p \in StartPackets : HostStart(p)
        \/ \E d \in Images \cup {BadInit} : HostInitBle(d) \/ HostInitSerial(d)
        \/ HostInitComplete
        \/ \E v \in Word : HostData(v)
        \/ HostValidate \/ HostActivate \/ HostReset \/ HostStop
Timer == TimerExpires \/ TimeoutHandler \/ StartupTimeout
Environment == PowerLoss \/ \E s \in SwdImages : SwdProgram(s)

Next == Boot \/ Flash \/ Host \/ Timer \/ WaitForEventsReturns \/ Environment

Spec == Init /\ [][Next]_vars

(* Fairness.  The processor and the flash make progress, timers expire, and  *)
(* app_sched_execute() takes events in order, so a packet flood delays an    *)
(* event that waits but cannot starve it.  Power is lost any number of       *)
(* times but does not come and go forever at the same point, and the         *)
(* register value that skips the DFU mode is there for one start only.       *)
EnterOrBoot == \E wanted \in {"yes", "no"}, link \in Links : CheckDfuMode(wanted, link)
Fairness ==
  /\ WF_vars(Start) /\ SF_vars(EnterOrBoot)
  /\ SF_vars(FlashStep) /\ SF_vars(OpDone) /\ SF_vars(FinalizeDone)
  /\ WF_vars(TimerExpires) /\ SF_vars(TimeoutHandler) /\ SF_vars(WaitForEventsReturns)
FairSpec == Spec /\ Fairness

-----------------------------------------------------------------------------
(* Properties.                                                             *)

Content == Word \cup {Erased, Garbage}

Operation == [op : {"erase", "data", "serase", "sstore"}, k : Int, v : Content]

TypeOK ==
  /\ flash \in [Cells -> Content]
  /\ stg \in Settings
  /\ mode \in {"off", "finalize", "check", "dfu", "app"}
  /\ ota \in BOOLEAN
  /\ status \in Statuses
  /\ st \in DfuStates
  /\ pkt \in StartPackets \cup {NoPacket}
  /\ imageSize \in Nat
  /\ activate \in {"NONE", "SD", "BL", "APP"}
  /\ received \in 0 .. BankChunks
  /\ overrun \in BOOLEAN
  /\ init \in Images \cup {NoInit, BadInit}
  /\ timerOn \in BOOLEAN /\ timerEvt \in BOOLEAN /\ timedOut \in BOOLEAN
  /\ fq \in Seq(Operation)
  /\ prog \in Nat
  /\ sbuf \in Settings
  /\ cache \in Seq(Operation)

\* Whatever the host sends and wherever the power fails, an application that
\* bootloader_app_is_valid() accepts is an image that arrived complete with the
\* CRC of its init packet, or that a debug probe programmed.
BootComplete ==
  AppIsValid => \E s \in Images \cup SwdImages : Len(s) > 0 /\ Holds(s)

\* The same for the two updates that main() would finish after a reset: the
\* settings announce a SoftDevice or a bootloader only over a complete image.
UpdateComplete ==
  SdInProgress => \E s \in Images \cup SwdImages : Len(s) > 0 /\ Holds(s)

\* dfu_init_postvalidate() reads the bank while stores may still be queued;
\* yet an image it accepted is all in flash, and no queued operation, late
\* data packet or second START touches it until the reset.
ValidatedIntact == st = "WAIT_4_ACTIVATE" => Len(init) = imageSize /\ Holds(init)

\* "All operations for the update procedure has completed and it is safe to
\* reset the system" (bootloader_status_t): after an activation the flash queue
\* is empty and the settings page reads as it was meant to.
CompleteIsSafe == status = "COMPLETE" /\ mode = "dfu" => fq = <<>> /\ stg = sbuf

\* The settings page says INVALID before the first byte of an image reaches
\* the bank, so that no partial image is ever covered by an older record.
InvalidBeforeData ==
  [][\A k \in Chunks : flash'[k] # flash[k] /\ flash'[k] # Erased /\ mode = "dfu"
       => stg.b0 = "INVALID" /\ stg.b1 # "VALID_BOOT"]_vars

\* The DFU mode always ends: the DFU timer runs, or an activation is under way
\* whose last flash operation ends it.
DfuEnds == mode = "dfu" ~> mode # "dfu"

\* The device always comes back to a running application or to the DFU mode.
Recovers == []<>(mode \in {"dfu", "app"})

\* dfu_single_bank.c: m_data_received at the top "will ensure that all future
\* application data packet writes will be blocked": over the air no packet that
\* is too long for the image gets the transfer going again.
OverrunBlocks == ota /\ overrun => received = 0
=============================================================================
