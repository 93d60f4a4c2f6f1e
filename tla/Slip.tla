-------------------------------- MODULE Slip --------------------------------
(***************************************************************************)
(* hci_slip.c, encoder and decoder, with what slip_event_handle() of       *)
(* hci_transport.c does about a received frame: which buffer it registers  *)
(* next.  The two are at the two ends of one line, which loses and garbles *)
(* bytes; the host is taken to frame its packets as the encoder does.      *)
(* A refused app_uart_put() is tried again at APP_UART_TX_EMPTY with no    *)
(* difference, so a step is a byte that was put.  A frame is valid when it *)
(* is one that was sent (no CRC collisions), and the pool has a buffer to  *)
(* produce: SerialQueue shows when it has.                                 *)
(***************************************************************************)
EXTENDS Integers, Sequences

CONSTANTS
  DataFrames, \* reliable packets of the host
  AckFrames,  \* its acknowledgements
  BufSize,    \* HCI_RX_BUF_SIZE
  AckBufSize, \* ACK_BUF_SIZE
  MaxDamage   \* bytes that the line may lose or garble, in all

Byte == {"END", "ESC", "ESC_END", "ESC_ESC", "x"}
Frames == DataFrames \cup AckFrames

SlipAssumption ==
  /\ Frames \subseteq Seq(Byte)
  /\ {BufSize, AckBufSize, MaxDamage} \subseteq Nat

VARIABLES
  \* ---- the encoder
  tx,       \* mp_tx_buffer; <<>> in SLIP_READY
  index,    \* m_tx_buffer_index
  send,     \* send_tx_byte: "end", "default", "esc" or "encoded"
  \* ---- the decoder
  handle,   \* handle_rx_byte: "wait_start", "default" or "esc"
  buffer,   \* what mp_rx_buffer is: "pool" or "ack"
  got,      \* the m_rx_received_count bytes in it
  \* ---- history
  damage,   \* bytes lost or garbled
  damaged,  \* ... of the frame that is being sent
  missed    \* data frames in a row that came whole and were not received

encoder == <<tx, index, send>>
decoder == <<handle, buffer, got>>
vars == <<encoder, decoder, damage, damaged, missed>>

\* hci_slip_open(), and hci_transport_open() with its first buffer.
Init ==
  /\ tx = <<>> /\ index = 0 /\ send = "default"
  /\ handle = "wait_start" /\ buffer = "pool" /\ got = <<>>
  /\ damage = 0 /\ damaged = FALSE /\ missed = 0

-----------------------------------------------------------------------------
(* The encoder.                                                            *)

\* hci_slip_write() in SLIP_READY; in SLIP_TRANSMITTING it refuses.
Write(frame) ==
  /\ tx = <<>>
  /\ tx' = frame /\ index' = 0 /\ send' = "end"
  /\ damaged' = FALSE
  /\ UNCHANGED <<decoder, damage, missed>>

Special == {"END", "ESC"}
\* transmit_buffer() before it calls send_tx_byte.
NotEscaped == IF index = Len(tx) THEN "end" ELSE send           \* mutant
Sender ==
  IF index = Len(tx) THEN "end"
  ELSE IF send = "default" /\ tx[index + 1] \in Special THEN "esc" ELSE send

\* The byte that it puts.
Put == CASE Sender = "end" -> "END"
         [] Sender = "default" -> tx[index + 1]
         [] Sender = "esc" -> "ESC"
         [] Sender = "encoded" -> IF tx[index + 1] = "END" THEN "ESC_END" ELSE "ESC_ESC"
LastByte == index = Len(tx)

Sent ==
  /\ send' = IF Sender = "esc" THEN "encoded" ELSE "default"
  /\ IF LastByte THEN tx' = <<>> /\ index' = 0
     ELSE tx' = tx /\ index' = IF Sender \in {"default", "encoded"} THEN index + 1 ELSE index

-----------------------------------------------------------------------------
(* The decoder.                                                            *)

Size(b) == IF b = "pool" THEN BufSize ELSE AckBufSize
TooLate == Len(got) > Size(buffer)                              \* mutant
\* rx_buffer_overflowed(), asked before every byte.
Overflowed == Len(got) >= Size(buffer)

\* hci_slip_rx_buffer_register().
Register(b) == buffer' = b /\ got' = <<>> /\ handle' = "wait_start"

\* handle_slip_end() and, for a frame of any kind, slip_event_handle(): a valid
\* packet gets a new buffer registered, another one is received over.
SlipEnd ==
  IF got = <<>> THEN UNCHANGED <<buffer, got>> /\ handle' = "default"
  ELSE Register("pool") \* but see handle_rx_byte_esc()
SlipEndEsc == buffer' = "pool" /\ got' = <<>> /\ handle' = "default"

Store(byte) ==
  /\ got' = Append(got, byte)
  /\ handle' = "default" /\ buffer' = buffer

Decode(byte) ==
  CASE Overflowed -> Register("ack")
    [] ~Overflowed /\ handle = "wait_start" ->
         /\ handle' = IF byte = "END" THEN "default" ELSE "wait_start"
         /\ UNCHANGED <<buffer, got>>
    [] ~Overflowed /\ handle = "default" ->
         CASE byte = "END" -> SlipEnd
           [] byte = "ESC" -> handle' = "esc" /\ UNCHANGED <<buffer, got>>
           [] OTHER -> Store(byte)
    [] ~Overflowed /\ handle = "esc" ->
         CASE byte = "END" -> IF got = <<>> THEN SlipEnd ELSE SlipEndEsc
           [] byte = "ESC_END" -> Store("END")
           [] byte = "ESC_ESC" -> Store("ESC")
           [] OTHER -> Store(byte)

-----------------------------------------------------------------------------
(* The line.                                                               *)

\* The frame that ends with this byte is received: HCI_SLIP_RX_RDY with it.
Received == ~Overflowed /\ handle # "wait_start" /\ got = tx

\* What became of the frame whose last byte this is.
Judge(whole) ==
  missed' = IF ~LastByte THEN missed
            ELSE IF ~whole \/ Received THEN 0
            ELSE IF tx \in DataFrames /\ missed < 2 THEN missed + 1 ELSE missed

Arrive ==
  /\ tx # <<>> /\ Sent
  /\ Decode(Put)
  /\ Judge(~damaged)
  /\ UNCHANGED <<damage, damaged>>

Damage == damage < MaxDamage /\ damage' = damage + 1 /\ damaged' = TRUE

Lose ==
  /\ tx # <<>> /\ Damage /\ Sent
  /\ Judge(FALSE) /\ UNCHANGED decoder

Garble ==
  /\ tx # <<>> /\ Damage /\ Sent
  /\ \E byte \in Byte \ {Put} : Decode(byte)
  /\ Judge(FALSE)

Next == (\E f \in Frames : Write(f)) \/ Arrive \/ Lose \/ Garble

Spec == Init /\ [][Next]_vars

-----------------------------------------------------------------------------
(* Properties.                                                             *)

TypeOK ==
  /\ tx \in Frames \cup {<<>>} /\ index \in 0 .. Len(tx)
  /\ send \in {"end", "default", "encoded"}
  /\ handle \in {"wait_start", "default", "esc"} /\ buffer \in {"pool", "ack"}
  /\ got \in Seq(Byte)
  /\ damage \in 0 .. MaxDamage /\ damaged \in BOOLEAN /\ missed \in 0 .. 2

\* No byte is written past the end of the registered buffer: that of an
\* acknowledgement has five bytes, and the frames that come in are not shorter
\* because of it.
InBounds == Len(got) <= Size(buffer)

\* Whatever the line does to a frame, of the frames that come whole after it the
\* decoder misses one at most: a lost 0xC0 makes the next one a beginning where
\* an end was meant, and that does not go on -- as long as the registered buffer
\* is one for a data packet.
Resyncs == [][missed' > missed /\ missed > 0 => "ack" \in {buffer, buffer'}]_vars

\* The same without regard to the buffer.  hci_transport.c:526: a dropped packet
\* makes the transport register its buffer again "in order to avoid RX buffer
\* overflow"; hci_transport.h:53 promises the reception of reliable packets, and
\* a packet that got lost is sent again until it is received.
NeverDeaf == missed <= 1
=============================================================================
