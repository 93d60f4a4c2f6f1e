----------------------------- MODULE DfuDualBank -----------------------------
(***************************************************************************)
(* dfu_dual_bank.c, the engine of a build with DUALBANK_FW, with what      *)
(* bootloader.c and main() do for it: an application or a bootloader is    *)
(* received in bank 1, a SoftDevice in bank 0; activation copies an        *)
(* application from bank 1 to bank 0.  A chunk is a flash page and a data  *)
(* packet; an image is a sequence of words and stands for its own CRC.     *)
(* Flash operations are a queue, as in DfuSingleBank, which over serial    *)
(* blocks the main loop.  A host sends one START per session, and          *)
(* FlashCache has the page that serial writes are kept in.                 *)
(***************************************************************************)
EXTENDS Integers, Sequences

CONSTANTS
  BankChunks, \* DFU_IMAGE_MAX_SIZE_BANKED
  Word, Erased,
  Old,        \* the application in bank 0 when it all begins
  Updates     \* what hosts may send: kind and image

Chunks == 0 .. 2 * BankChunks - 1

\* No chunk of an image reads as erased flash.  The host's image has a word at
\* least, and there is an application, in bank 0, when it all begins.
DualAssumption ==
  /\ BankChunks \in Nat \ {0}
  /\ Erased \notin Word
  /\ Old \in Seq(Word) /\ Len(Old) \in 1 .. BankChunks
  /\ Updates \subseteq [kind : {"APP", "SD", "BL"}, image : Seq(Word) \ {<<>>}]

VARIABLES
  flash, stg, \* both banks; bank_0 and bank_1 of the settings page
  mode,       \* "boot", "app" or "dfu"
  ota, status, st,
  update,     \* m_start_packet and the CRC of the init packet
  received, overrun,
  timer,      \* "on", "due" (its event is queued) or "off"
  timedOut,
  ops, prog,  \* flash operations, words done of the first
  last, cut   \* history: the application to boot; bank 0 is being overwritten

nonVolatile == <<flash, stg, last, cut>>
image == <<update, received, overrun>>
vars == <<nonVolatile, mode, ota, status, st, image, timer, timedOut, ops, prog>>

NoUpdate == [kind |-> "APP", image |-> <<>>]
ErasedRecord == [b0 |-> "ERASED", b1 |-> "ERASED"]
Final == {"COMPLETE", "TIMEOUT", "RESET"}

RamInit ==
  /\ mode = "boot" /\ ota = FALSE /\ status = "UPDATING" /\ st = "IDLE"
  /\ update = NoUpdate /\ received = 0 /\ overrun = FALSE
  /\ timer = "off" /\ timedOut = FALSE /\ ops = <<>> /\ prog = 0

\* The application was programmed by a probe, or by an update.
Init ==
  /\ flash = [k \in Chunks |-> IF k < Len(Old) THEN Old[k + 1] ELSE Erased]
  /\ stg \in {ErasedRecord, [b0 |-> "VALID", b1 |-> "INVALID"]}
  /\ RamInit /\ last = Old /\ cut = FALSE

Holds(at, s) == \A k \in 1 .. Len(s) : flash[at + k - 1] = s[k]
\* bootloader_app_is_valid(), bootloader_dfu_sd_in_progress().
AppIsValid == flash[0] # Erased /\ stg.b0 \in {"ERASED", "VALID"}
SdInProgress == stg.b0 = "VALID_SD" \/ stg.b1 = "VALID_BOOT"

-----------------------------------------------------------------------------
(* main().                                                                 *)

Reset ==
  /\ mode' = "boot" /\ ota' = FALSE /\ status' = "UPDATING" /\ st' = "IDLE"
  /\ update' = NoUpdate /\ received' = 0 /\ overrun' = FALSE
  /\ timer' = "off" /\ timedOut' = FALSE /\ ops' = <<>> /\ prog' = 0
  /\ UNCHANGED nonVolatile

\* Also every reset by a failed check: over serial, that of a refused packet.
PowerLoss == mode # "boot" /\ Reset
\* wait_for_events() returns; what is queued is not waited for.  Boot stands for
\* both ways on, a reset and the start of the application.
Leave == mode = "dfu" /\ status \in Final /\ Reset

Boot ==
  /\ mode = "boot" /\ ~SdInProgress
  /\ \/ AppIsValid /\ mode' = "app" /\ UNCHANGED <<ota, timer>>
     \/ mode' = "dfu" /\ ota' \in BOOLEAN /\ timer' = "on"
  /\ UNCHANGED <<nonVolatile, status, st, image, timedOut, ops, prog>>

\* The MBR command that would finish the update is not supported.
MbrFault == mode = "boot" /\ SdInProgress /\ UNCHANGED vars

-----------------------------------------------------------------------------
(* Flash operations.                                                       *)

Clear(at, n) == [op |-> "clear", at |-> at, n |-> n, v |-> Erased]
Data(at, v)  == [op |-> "data", at |-> at, n |-> 1, v |-> v]
Copy(n)      == [op |-> "copy", at |-> 0, n |-> n, v |-> Erased]
Save(record) == <<[op |-> "settings", at |-> 0, n |-> 2, v |-> ErasedRecord],
                  [op |-> "settings", at |-> 0, n |-> 2, v |-> record]>>

\* A word of the first operation.  Bank 0 is overwritten from the first erased
\* word of an activation, or of a SoftDevice update, until the copy is whole
\* and the settings, if they called it invalid, do so no more.
FlashStep ==
  /\ ops # <<>> /\ prog < Head(ops).n
  /\ LET op    == Head(ops)
         whole == op.op = "copy" /\ prog + 1 = op.n
         valid == op.op = "settings" /\ prog = 0 /\ op.v.b0 = "VALID" /\ update.kind = "APP"
     IN  /\ flash' = CASE op.op = "settings" -> flash
                       [] op.op = "copy" -> [flash EXCEPT ![prog] = flash[BankChunks + prog]]
                       [] OTHER -> [flash EXCEPT ![op.at + prog] = op.v]
         /\ stg' = IF op.op # "settings" THEN stg
                   ELSE IF prog = 0 THEN [stg EXCEPT !.b0 = op.v.b0]
                   ELSE [stg EXCEPT !.b1 = op.v.b1]
         /\ cut' = CASE op.op = "clear" /\ (st = "WAIT_4_ACTIVATE" \/ update.kind = "SD") -> TRUE
                     [] whole -> stg.b0 = "INVALID"
                     [] valid -> FALSE
                     [] OTHER -> cut
         /\ last' = IF whole THEN update.image ELSE last
  /\ prog' = prog + 1
  /\ UNCHANGED <<mode, ota, status, st, image, timer, timedOut, ops>>

\* pstorage_callback_handler(), of the engine and of bootloader.c.  At the end of
\* the erase dfu_cleared_func_app() saves the settings, dfu_cleared_func_swap()
\* does nothing.
OpDone ==
  /\ ops # <<>> /\ prog = Head(ops).n
  /\ LET prepared == Head(ops).op = "clear" /\ st = "PREPARING"
         saved    == Head(ops).op = "settings" /\ Head(ops).v # ErasedRecord
     IN  /\ st' = IF prepared THEN "RDY" ELSE st
         /\ ops' = Tail(ops) \o IF prepared /\ update.kind = "SD"
                                THEN Save([b0 |-> "INVALID", b1 |-> stg.b1]) ELSE <<>>
         /\ status' = IF saved /\ status = "SAVING" THEN "COMPLETE" ELSE status
  /\ prog' = 0
  /\ UNCHANGED <<nonVolatile, mode, ota, image, timer, timedOut>>

-----------------------------------------------------------------------------
(* The host, and the DFU timer.                                            *)

Ready == mode = "dfu" /\ (ota \/ ops = <<>>)

\* mp_storage_handle_active
BankOf(kind) == IF kind = "SD" THEN 0 ELSE BankChunks
TooLarge(u) == Len(u.image) > IF u.kind = "SD" THEN 2 * BankChunks ELSE BankChunks

\* dfu_start_pkt_handle() that is not refused.
HostStart(u) ==
  /\ Ready /\ st = "IDLE" /\ ~TooLarge(u) /\ ~timedOut
  /\ update' = u /\ st' = "PREPARING"
  /\ ops' = Append(ops, Clear(BankOf(u.kind), Len(u.image)))
  /\ UNCHANGED <<nonVolatile, mode, ota, status, received, overrun, timer, timedOut, prog>>

\* dfu_init_pkt_handle() and dfu_init_pkt_complete().
HostInit ==
  /\ Ready /\ st = "RDY" /\ ~timedOut
  /\ st' = "RX_DATA"
  /\ UNCHANGED <<nonVolatile, mode, ota, status, image, timer, timedOut, ops, prog>>

\* dfu_data_pkt_handle(): the data may be any.
HostData(v) ==
  /\ Ready /\ st = "RX_DATA" /\ ~timedOut
  /\ IF overrun \/ received >= Len(update.image)
       THEN overrun' = TRUE /\ UNCHANGED <<received, ops>>
       ELSE /\ ops' = Append(ops, Data(BankOf(update.kind) + received, v))
            /\ received' = received + 1 /\ overrun' = overrun
  /\ UNCHANGED <<nonVolatile, mode, ota, status, st, update, timer, timedOut, prog>>

LengthMatches == TRUE                       \* mutant: the CRC is not compared
CrcMatches == Holds(BankOf(update.kind), update.image)
\* dfu_image_validate()
HostValidate ==
  /\ Ready /\ st = "RX_DATA" /\ ~overrun /\ received = Len(update.image)
  /\ st' = IF ~timedOut /\ CrcMatches THEN "WAIT_4_ACTIVATE" ELSE "VALIDATE"
  /\ UNCHANGED <<nonVolatile, mode, ota, status, image, timer, timedOut, ops, prog>>

\* dfu_activate_app(), dfu_activate_sd(), dfu_activate_bl().  A save at the end of
\* the erase has been written by then, for the CRC of what came after it matched.
Activation ==
  CASE update.kind = "APP" -> <<Clear(0, Len(update.image)), Copy(Len(update.image))>>
                              \o Save([b0 |-> "VALID", b1 |-> "INVALID"])
    [] update.kind = "SD"  -> Save([b0 |-> "VALID_SD", b1 |-> "INVALID"])
    [] update.kind = "BL"  -> Save([b0 |-> stg.b0, b1 |-> "VALID_BOOT"])

\* dfu_image_activate().  Over the air the link is closed before; a second
\* command, or one to reset, finds it closing, and fails.
HostActivate ==
  /\ Ready /\ st = "WAIT_4_ACTIVATE" /\ status = "UPDATING"
  /\ ops' = ops \o Activation
  /\ status' = "SAVING" /\ timer' = IF timer = "on" THEN "off" ELSE timer
  /\ UNCHANGED <<nonVolatile, mode, ota, st, image, timedOut, prog>>

\* dfu_reset()
HostReset ==
  /\ Ready /\ status = "UPDATING" /\ status' = "RESET"
  /\ UNCHANGED <<nonVolatile, mode, ota, st, image, timer, timedOut, ops, prog>>

Expire ==
  /\ mode = "dfu" /\ timer = "on" /\ timer' = "due"
  /\ UNCHANGED <<nonVolatile, mode, ota, status, st, image, timedOut, ops, prog>>
TimeoutHandler ==
  /\ Ready /\ timer = "due"
  /\ timer' = "off" /\ timedOut' = TRUE /\ status' = "TIMEOUT"
  /\ UNCHANGED <<nonVolatile, mode, ota, st, image, ops, prog>>

Next ==
  \/ PowerLoss \/ Leave \/ Boot \/ MbrFault \/ FlashStep \/ OpDone
  \/ (\E u \in Updates : HostStart(u)) \/ HostInit \/ (\E v \in Word : HostData(v))
  \/ HostValidate \/ HostActivate \/ HostReset \/ Expire \/ TimeoutHandler

Spec == Init /\ [][Next]_vars

-----------------------------------------------------------------------------
(* Properties.                                                             *)

TypeOK ==
  /\ flash \in [Chunks -> Word \cup {Erased}]
  /\ stg \in [b0 : {"ERASED", "VALID", "VALID_SD", "INVALID"},
              b1 : {"ERASED", "VALID_BOOT", "INVALID"}]
  /\ mode \in {"boot", "app", "dfu"} /\ ota \in BOOLEAN
  /\ status \in {"UPDATING", "SAVING"} \cup Final
  /\ st \in {"IDLE", "PREPARING", "RDY", "RX_DATA", "VALIDATE", "WAIT_4_ACTIVATE"}
  /\ update \in Updates \cup {NoUpdate} /\ received \in 0 .. Len(update.image)
  /\ timer \in {"on", "due", "off"} /\ prog \in 0 .. 2 * BankChunks

\* README.md:122, "Split flash into two banks for safe updates": unless an
\* overwriting of bank 0 was cut short, each start of the bootloader finds the last
\* application, whole and valid, whatever has happened to an update, also when
\* the copy is done and the settings are not, or half; and the settings announce
\* a SoftDevice or a bootloader only when it is in its bank, whole.
OldOrNew ==
  mode = "boot" =>
    /\ ~cut => AppIsValid /\ Holds(0, last)
    /\ stg.b0 = "VALID_SD" => \E u \in Updates : u.kind = "SD" /\ Holds(0, u.image)
    /\ stg.b1 = "VALID_BOOT" => \E u \in Updates : u.kind = "BL" /\ Holds(BankChunks, u.image)
=============================================================================
