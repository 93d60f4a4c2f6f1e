-------------------------- MODULE DfuTransportBle --------------------------
(***************************************************************************)
(* dfu_transport_ble.c and ble_dfu.c: an update over the air, from the     *)
(* advertising to the reset that ends it.  The SoftDevice below them has a *)
(* link that can be lost at any moment and a queue of events; the engine   *)
(* (dfu_single_bank.c, for application images) and the pstorage queue are  *)
(* here with what the transport sees of them, the receive buffers are the  *)
(* pool of HciMemPool.  A data packet carries one chunk of the image.      *)
(*                                                                         *)
(* proc_sd_task() handles every BLE event before it looks at flash events. *)
(* A SoftDevice call on a lost link fails, on one that is being closed it  *)
(* may; nearly every failure ends in APP_ERROR_CHECK and a reset.          *)
(***************************************************************************)
EXTENDS HciMemPool, FiniteSets, SequencesExt

CONSTANTS
  Sizes,     \* image sizes that a start packet may give, in chunks
  Target,    \* packets per receipt that the host may ask for
  MaxEvents, \* writes of the host that wait for proc_sd_task()
  QueueSize, \* PSTORAGE_CMD_QUEUE_SIZE
  Faults     \* whether the flash may fail

\* pstorage_platform.h: PSTORAGE_CMD_QUEUE_SIZE is HCI_RX_BUF_QUEUE_SIZE and two.
ASSUME BleAssumption ==
  /\ Sizes \subseteq Nat \ {0} /\ Sizes # {}
  /\ Target \in Nat /\ MaxEvents \in Nat \ {0}
  /\ QueueSize \in Nat /\ QueueSize >= N + 2

VARIABLES
  \* ---- the SoftDevice
  link,         \* "none", "up" or, disconnected from this side, "closing"
  beacon,       \* it advertises
  events,       \* BLE events that were not fetched, <<kind, payload>>
  \* ---- dfu_transport_ble.c; connected is m_conn_handle, and ble_dfu.c's
  connected, m_is_advertising, m_tear_down_in_progress, m_pkt_type,
  counted,      \* m_num_of_firmware_bytes_rcvd
  target, left, \* m_pkt_notif_target (0: disabled), m_pkt_notif_target_cnt
  mp_final_packet, pool,
  \* ---- dfu_single_bank.c, bootloader.c, main.c
  st, size, received, overrun, timer, timedOut, status, wasConnected,
  \* ---- pstorage: commands, and whether the flash event of the first waits
  ops, done,
  \* ---- flash: the first words of bank 0 are there; bank_0 of the settings
  bank, b0,
  \* ---- how the session ended; history: the last answer, chunks it was about
  end, answer, promised

air       == <<link, beacon, events>>
presence  == <<connected, m_is_advertising, m_tear_down_in_progress, wasConnected>>
receipts  == <<target, left>>
data      == <<counted, mp_final_packet, pool>>
transport == <<presence, m_pkt_type, receipts, data>>
image     == <<st, size, received, overrun>>
engine    == <<image, timer, timedOut, status>>
flash     == <<bank, b0>>
storage   == <<ops, done, flash>>
vars == <<air, transport, engine, storage, end, answer, promised>>

NoBuffer == -1
Silent == <<"none", 0>>
Event(kind) == <<kind, 0>>
Controls == {"START", "INIT", "INIT_DONE", "FW", "VALIDATE", "ACTIVATE", "RESET",
             "NOTIF", "NOTIF_OFF", "SIZE_REQ"}
\* What a host writes: the control point, or a packet -- a start packet if the
\* device waits for one -- with a length that fits (its image size) or not (0).
Writes == {Event(c) : c \in Controls} \cup {<<"PACKET", n>> : n \in Sizes \cup {0}}

\* bootloader_dfu_start() over the air: dfu_init() and
\* dfu_transport_ble_update_start().
Started ==
  /\ link = "none" /\ beacon = TRUE /\ events = <<>>
  /\ connected = FALSE /\ m_is_advertising = TRUE /\ m_tear_down_in_progress = FALSE
  /\ m_pkt_type = "INVALID" /\ counted = 0 /\ target = 0 /\ left = 0
  /\ mp_final_packet = NoBuffer /\ pool = PoolOpen
  /\ st = "IDLE" /\ size = 0 /\ received = 0 /\ overrun = FALSE
  /\ timer = "on" /\ timedOut = FALSE /\ status = "UPDATING" /\ wasConnected = FALSE
  /\ ops = <<>> /\ done = FALSE
  /\ end = "none" /\ answer = Silent /\ promised = 0

\* There is an application, which asked for the update.
Init == Started /\ bank = TRUE /\ b0 \in {"VALID", "ERASED"}

\* bootloader_app_is_valid()
Valid == bank /\ b0 \in {"VALID", "ERASED"}

\* APP_ERROR_CHECK of an error, and main() after the reset: GPREGRET is clear.
Crash ==
  /\ end' = IF Valid THEN "app" ELSE "serial"
  /\ UNCHANGED <<air, transport, engine, storage, answer, promised>>

Running == end = "none"
Quiet == answer' = Silent /\ UNCHANGED <<end, promised>>

-----------------------------------------------------------------------------
(* The SoftDevice and the host at the other end.                           *)

Connect ==
  /\ Running /\ beacon
  /\ link' = "up" /\ beacon' = FALSE
  /\ events' = Append(events, Event("CONNECTED"))
  /\ Quiet /\ UNCHANGED <<transport, engine, storage>>

\* The host disconnects, the link is lost, or the closing is done.
LoseLink ==
  /\ Running /\ link # "none"
  /\ link' = "none" /\ events' = Append(events, Event("DISCONNECTED"))
  /\ Quiet /\ UNCHANGED <<beacon, transport, engine, storage>>

\* A write, or a request of the stack that has to be answered.
HostWrites ==
  /\ Running /\ link = "up" /\ Len(events) < MaxEvents
  /\ \E e \in Writes \cup {Event("REQUEST"), Event("GATT_TIMEOUT")} : events' = Append(events, e)
  /\ Quiet /\ UNCHANGED <<link, beacon, transport, engine, storage>>

\* The first command is done in flash: its event waits to be fetched.
FlashDone ==
  /\ Running /\ ops # <<>> /\ ~done
  /\ done' = TRUE
  /\ LET op == Head(ops) IN
     /\ bank' = (op.op # "clear" /\ (op.op = "data" \/ bank))
     /\ b0' = CASE op.op = "sclear" -> "ERASED"
                [] op.op = "sstore" -> op.b0
                [] OTHER -> b0
  /\ Quiet /\ UNCHANGED <<ops, air, transport, engine>>

\* The SoftDevice gave up; dfu_cb_handler() and APP_ERROR_CHECK(result).
FlashFails == Faults /\ Running /\ ops # <<>> /\ ~done /\ Crash

-----------------------------------------------------------------------------
(* The engine, as its callers see it.                                      *)

Clear      == [op |-> "clear", b |-> NoBuffer, b0 |-> "INVALID"]
Store(b)   == [op |-> "data", b |-> b, b0 |-> "INVALID"]
Save(code) == <<[op |-> "sclear", b |-> NoBuffer, b0 |-> code],
                [op |-> "sstore", b |-> NoBuffer, b0 |-> code]>>

\* dfu_start_pkt_handle(): the size is taken over before the state is looked at.
StartPacket(n) ==
  /\ size' = n
  /\ IF st = "IDLE" /\ ~timedOut
     THEN st' = "PREPARING" /\ ops' = Append(ops, Clear)
     ELSE UNCHANGED <<st, ops>>
  /\ UNCHANGED <<received, overrun>>

AcceptsMore == st = "RX_DATA" /\ ~overrun /\ ~timedOut           \* mutant
\* dfu_data_pkt_handle() accepts a chunk.
Accepts == st = "RX_DATA" /\ ~overrun /\ received < size /\ ~timedOut
Overruns == st = "RX_DATA" /\ received >= size

\* dfu_reset(), through bootloader_dfu_update_process().
ResetStatus ==
  IF st = "RX_DATA" /\ (overrun \/ received # size) THEN "RESET_TO_SELF" ELSE "SYS_RESET"

-----------------------------------------------------------------------------
(* proc_ble().                                                             *)

Fetch(kind) == Running /\ events # <<>> /\ Head(events)[1] = kind

\* A handler that makes SoftDevice calls on the connection and checks them.
OnLink(Handler) ==
  \/ link # "none" /\ Handler /\ events' = Tail(events) /\ UNCHANGED end
  \/ link # "up" /\ Crash

\* It answers nothing of interest.
Quietly == answer' = Silent /\ UNCHANGED promised

StillAdvertising == m_is_advertising' = m_is_advertising          \* mutant
\* The SoftDevice stopped it by itself.
NotAdvertising == m_is_advertising' = FALSE
Connected ==
  /\ Fetch("CONNECTED")
  /\ OnLink(/\ connected' = TRUE /\ NotAdvertising /\ wasConnected' = TRUE
            /\ Quietly
            /\ UNCHANGED <<link, beacon, m_tear_down_in_progress, m_pkt_type, receipts, data,
                           engine, storage>>)

\* advertising_start()
AdvertisingStart ==
  IF m_is_advertising THEN UNCHANGED <<beacon, m_is_advertising>>
  ELSE beacon' = TRUE /\ m_is_advertising' = TRUE

Disconnected ==
  /\ Fetch("DISCONNECTED") /\ events' = Tail(events)
  /\ connected' = FALSE
  /\ IF m_tear_down_in_progress THEN UNCHANGED <<beacon, m_is_advertising>> ELSE AdvertisingStart
  /\ Quietly
  /\ UNCHANGED <<link, m_tear_down_in_progress, wasConnected, m_pkt_type, receipts, data,
                 engine, storage, end>>

\* Pairing, parameters, MTU: each is answered.
Request ==
  /\ Fetch("REQUEST")
  /\ OnLink(Quietly /\ UNCHANGED <<link, beacon, transport, engine, storage>>)

\* sd_ble_gap_disconnect(), which refuses to do it twice.
Disconnect(Handler) == OnLink(link = "up" /\ link' = "closing" /\ Handler)
GattTimeout ==
  /\ Fetch("GATT_TIMEOUT")
  /\ Disconnect(Quietly /\ UNCHANGED <<beacon, transport, engine, storage>>)

(* Control point writes: on_ctrl_pt_write(), on_dfu_evt().                 *)

\* Those that say what the packets to come are.
PacketType ==
  /\ \E c \in {"START", "INIT", "FW"} :
       Fetch(c) /\ OnLink(m_pkt_type' = c /\ Quietly
                         /\ UNCHANGED <<link, beacon, presence, receipts, data, engine, storage>>)

\* dfu_init_pkt_complete(); the init packet may be one that is refused.
InitDone ==
  /\ Fetch("INIT_DONE")
  /\ OnLink(/\ m_pkt_type' = "INIT"
            /\ \E good \in BOOLEAN :
                 st' = IF st = "RX_INIT" /\ good THEN "RX_DATA" ELSE st
            /\ Quietly
            /\ UNCHANGED <<link, beacon, presence, receipts, data, size, received, overrun, timer,
                           timedOut, status, storage>>)

Pending == \E i \in DOMAIN ops : ops[i].op = "data"
\* dfu_image_validate(): what is not in flash yet does not have the right CRC.
Validate ==
  /\ Fetch("VALIDATE")
  /\ OnLink(/\ IF st = "RX_DATA" /\ received = size /\ ~overrun
               THEN \/ st' = "VALIDATE"
                    \/ ~timedOut /\ ~Pending /\ st' = "WAIT_4_ACTIVATE"
               ELSE st' = st
            /\ Quietly
            /\ UNCHANGED <<link, beacon, transport, size, received, overrun, timer, timedOut,
                           status, storage>>)

\* dfu_transport_ble_close() when connected, then dfu_image_activate(), or
\* dfu_reset() if that refuses or was asked for.
Finish ==
  /\ \E c \in {"ACTIVATE", "RESET"} :
       /\ Fetch(c)
       /\ Disconnect(
            /\ m_tear_down_in_progress' = TRUE
            /\ IF c = "ACTIVATE" /\ st = "WAIT_4_ACTIVATE"
               THEN /\ timer' = IF timer = "on" THEN "off" ELSE timer
                    /\ status' = "SAVING" /\ ops' = ops \o Save("VALID")
               ELSE status' = ResetStatus /\ UNCHANGED <<timer, ops>>
            /\ Quietly
            /\ UNCHANGED <<beacon, connected, m_is_advertising, wasConnected, m_pkt_type, receipts,
                           data, image, timedOut, done, flash>>)

Receipts ==
  /\ \E c \in {"NOTIF", "NOTIF_OFF"} :
       /\ Fetch(c)
       /\ OnLink(/\ target' = IF c = "NOTIF" THEN Target ELSE 0
                 /\ left' = IF c = "NOTIF" THEN Target ELSE left
                 /\ Quietly
                 /\ UNCHANGED <<link, beacon, presence, m_pkt_type, data, engine, storage>>)

SizeRequest ==
  /\ Fetch("SIZE_REQ")
  /\ OnLink(/\ answer' = <<"count", counted>>
            /\ UNCHANGED <<link, beacon, transport, engine, storage, promised>>)

(* Packets: on_dfu_pkt_write(), which answers only what it refuses or ends.*)

Packet(type) == Fetch("PACKET") /\ m_pkt_type = type
Length == Head(events)[2]
\* The handler answers nothing: it works on a lost link as well.
Unanswered(Handler) == Handler /\ events' = Tail(events) /\ UNCHANGED end

OtherPacket ==
  /\ Packet("INVALID")
  /\ Unanswered(Quietly /\ UNCHANGED <<link, beacon, transport, engine, storage>>)

\* start_data_process()
StartData ==
  /\ Packet("START")
  /\ LET Handler == /\ IF Length = 0 THEN UNCHANGED <<image, ops>> ELSE StartPacket(Length)
                    /\ Quietly
                    /\ UNCHANGED <<link, beacon, transport, timer, timedOut, status, done, flash>>
     IN  IF Length # 0 /\ st = "IDLE" /\ ~timedOut THEN Unanswered(Handler) ELSE OnLink(Handler)

\* init_data_process(), dfu_init_pkt_handle(): the packet may be too long.
InitData ==
  /\ Packet("INIT")
  /\ LET Handler == /\ st' = IF st = "RDY" THEN "RX_INIT" ELSE st
                    /\ Quietly
                    /\ UNCHANGED <<link, beacon, transport, size, received, overrun, timer,
                                   timedOut, status, storage>>
     IN  \/ st \in {"RDY", "RX_INIT"} /\ ~timedOut /\ Unanswered(Handler)
         \/ OnLink(Handler)

(* app_data_process()                                                      *)

\* Produced and extracted in one go.
Taken == Extracted(Produced(pool))

\* No buffer, or a length that is not of words.
DataIgnored ==
  /\ Packet("FW") /\ (Length = 0 \/ ~CanProduce(pool))
  /\ OnLink(Quietly /\ UNCHANGED <<link, beacon, transport, engine, storage>>)

\* The engine refuses the chunk: its buffer, the newest, is consumed at once.
DataRefused ==
  /\ Packet("FW") /\ Length # 0 /\ CanProduce(pool) /\ ~Accepts
  /\ OnLink(/\ pool' = IF CanConsume(Taken, pool.write) THEN Consumed(Taken, pool.write) ELSE Taken
            /\ overrun' = (overrun \/ Overruns)
            /\ Quietly
            /\ UNCHANGED <<link, beacon, presence, m_pkt_type, receipts, counted, mp_final_packet,
                           st, size, received, timer, timedOut, status, storage>>)

LastChunk == received + 1 = size
Notified == target # 0 /\ ~LastChunk
DataAccepted ==
  /\ Packet("FW") /\ Length # 0 /\ CanProduce(pool) /\ Accepts
  /\ LET Handler ==
           /\ pool' = Taken
           /\ ops' = Append(ops, Store(pool.write))
           /\ received' = received + 1 /\ counted' = counted + 1
           /\ mp_final_packet' = IF LastChunk THEN pool.write ELSE mp_final_packet
           /\ promised' = IF LastChunk THEN received + 1 ELSE promised
           /\ left' = IF ~Notified THEN left ELSE IF left = 1 THEN target ELSE left - 1
           /\ answer' = IF Notified /\ left = 1 THEN <<"count", counted + 1>> ELSE Silent
           /\ UNCHANGED <<link, beacon, presence, m_pkt_type, target, st, size, overrun, timer,
                          timedOut, status, done, flash>>
     IN  IF Notified /\ left = 1 THEN OnLink(Handler) ELSE Unanswered(Handler)

ProcBle ==
  \/ Connected \/ Disconnected \/ Request \/ GattTimeout
  \/ PacketType \/ InitDone \/ Validate \/ Finish \/ Receipts \/ SizeRequest
  \/ OtherPacket \/ StartData \/ InitData \/ DataIgnored \/ DataRefused \/ DataAccepted

-----------------------------------------------------------------------------
(* proc_soc(): the callbacks of the first command, when no event waits.    *)

\* ble_dfu_response_send() outside a BLE event: the connection may be gone.
Respond(Handler) ==
  \/ connected /\ link # "none" /\ Handler
  \/ ~(connected /\ link = "up") /\ Crash

Soc(op) == Running /\ events = <<>> /\ done /\ Head(ops).op = op
Finished == done' = FALSE /\ UNCHANGED <<air, flash, end>>

\* dfu_cleared_func_app() saves the settings, then dfu_cb_handler().
Cleared ==
  /\ Soc("clear")
  /\ Respond(/\ ops' = Tail(ops) \o Save("INVALID") /\ st' = "RDY"
             /\ Quietly /\ Finished
             /\ UNCHANGED <<transport, size, received, overrun, timer, timedOut, status>>)

SettingsErased ==
  /\ Soc("sclear") /\ ops' = Tail(ops)
  /\ Quietly /\ Finished /\ UNCHANGED <<transport, engine>>

\* bootloader.c's pstorage_callback_handler().
SettingsStored ==
  /\ Soc("sstore") /\ ops' = Tail(ops)
  /\ status' = IF status = "SAVING" THEN "COMPLETE" ELSE status
  /\ Quietly /\ Finished /\ UNCHANGED <<transport, image, timer, timedOut>>

AnyBuffer(b) == mp_final_packet # NoBuffer                         \* mutant
IsFinal(b) == mp_final_packet = b
Stored ==
  /\ Soc("data")
  /\ LET b == Head(ops).b
         Handler == /\ ops' = Tail(ops)
                    /\ pool' = IF st = "RX_DATA" THEN Consumed(pool, b) ELSE pool
                    /\ answer' = IF st = "RX_DATA" /\ IsFinal(b) THEN Event("done") ELSE Silent
                    /\ Finished
                    /\ UNCHANGED <<presence, m_pkt_type, receipts, counted, mp_final_packet,
                                   engine, promised>>
     IN  IF st = "RX_DATA" /\ ~CanConsume(pool, b) THEN Crash
         ELSE IF st = "RX_DATA" /\ IsFinal(b) THEN Respond(Handler)
         ELSE Handler

ProcSoc == Cleared \/ SettingsErased \/ SettingsStored \/ Stored

-----------------------------------------------------------------------------
(* The DFU timer, and the end of the session.                              *)

Expire ==
  /\ Running /\ timer = "on" /\ timer' = "due"
  /\ Quietly /\ UNCHANGED <<air, transport, image, timedOut, status, storage, end>>

\* dfu_timeout_handler(), dfu_transport_ble_close(): a connection may be under
\* way that the transport does not know, then there is no advertising to stop.
Timeout ==
  /\ Running /\ timer = "due"
  /\ \/ /\ IF connected THEN link = "up" /\ link' = "closing" /\ UNCHANGED <<beacon, m_is_advertising>>
           ELSE /\ m_is_advertising => beacon
                /\ beacon' = FALSE /\ m_is_advertising' = FALSE /\ link' = link
        /\ m_tear_down_in_progress' = TRUE /\ timedOut' = TRUE
        /\ status' = "TIMEOUT" /\ timer' = "off"
        /\ Quietly
        /\ UNCHANGED <<events, connected, wasConnected, m_pkt_type, receipts, data, image, storage, end>>
     \/ /\ IF connected THEN link # "up" ELSE m_is_advertising /\ ~beacon
        /\ Crash

FinalStatus == {"COMPLETE", "TIMEOUT", "SYS_RESET", "RESET_TO_SELF"}
\* wait_for_events() returns, and main() goes on to the application or a reset.
Leave ==
  /\ Running /\ status \in FinalStatus
  /\ end' = IF status # "RESET_TO_SELF" /\ Valid THEN "app"
            ELSE IF wasConnected THEN "ota" ELSE "serial"
  /\ Quietly /\ UNCHANGED <<air, transport, engine, storage>>

\* The next session, whoever asks for it; flash is as it was left.
Restart ==
  /\ ~Running
  /\ link' = "none" /\ beacon' = TRUE /\ events' = <<>>
  /\ connected' = FALSE /\ m_is_advertising' = TRUE /\ m_tear_down_in_progress' = FALSE
  /\ m_pkt_type' = "INVALID" /\ counted' = 0 /\ target' = 0 /\ left' = 0
  /\ mp_final_packet' = NoBuffer /\ pool' = PoolOpen
  /\ st' = "IDLE" /\ size' = 0 /\ received' = 0 /\ overrun' = FALSE
  /\ timer' = "on" /\ timedOut' = FALSE /\ status' = "UPDATING" /\ wasConnected' = FALSE
  /\ ops' = <<>> /\ done' = FALSE
  /\ end' = "none" /\ answer' = Silent /\ promised' = 0
  /\ UNCHANGED flash

Next ==
  \/ Connect \/ LoseLink \/ HostWrites \/ FlashDone \/ FlashFails
  \/ ProcBle \/ ProcSoc \/ Expire \/ Timeout \/ Leave \/ Restart

Spec == Init /\ [][Next]_vars

-----------------------------------------------------------------------------
(* Properties.                                                             *)

TypeOK ==
  /\ link \in {"none", "up", "closing"} /\ beacon \in BOOLEAN
  /\ Len(events) <= MaxEvents + 1
  /\ connected \in BOOLEAN /\ m_is_advertising \in BOOLEAN /\ m_tear_down_in_progress \in BOOLEAN
  /\ m_pkt_type \in {"INVALID", "START", "INIT", "FW"}
  /\ target \in {0, Target} /\ left \in 0 .. Target
  /\ mp_final_packet \in Buffer \cup {NoBuffer} /\ pool \in Pool
  /\ size \in Sizes \cup {0} /\ \E n \in Sizes : received \in 0 .. n
  /\ end \in {"none", "app", "ota", "serial"}

\* A buffer that a queued store points to is not handed out again: it is in use
\* in the pool, and no other store has it, although the buffer of a refused
\* chunk is consumed before those of the chunks that came earlier.  It is its
\* buffers that the transport runs out of, not pstorage's commands: the loops
\* that wait for an entry, inside a handler, never wait.
StoresKeepBuffers ==
  /\ \A i, j \in DOMAIN ops :
       ops[i].op = "data" /\ st = "RX_DATA" =>
         ops[i].b \in pool.busy /\ (ops[j].b = ops[i].b => i = j)
  /\ Len(ops) <= QueueSize

\* The host is told that the image is received only when each of its chunks is
\* in flash, and a count that it could go on from after a lost link is what the
\* engine has.
AnswersTrue ==
  /\ answer[1] = "done" => /\ promised > 0
                            /\ received - Cardinality({i \in DOMAIN ops : ops[i].op = "data"}) >= promised
  /\ answer[1] = "count" => answer[2] = received

\* Until the session is to end, a host that is not connected can connect, or
\* the end of the last connection is still to be handled.
Reachable ==
  Running /\ ~m_tear_down_in_progress =>
    beacon \/ link # "none" \/ Event("DISCONNECTED") \in ToSet(events)

\* main.c:232: after an update over the air that did not complete the device is
\* reset "with the OTA DFU update in case we were in it, to allow completion".
BackOverTheAir == end = "serial" => ~wasConnected
=============================================================================
