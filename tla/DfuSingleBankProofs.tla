------------------------- MODULE DfuSingleBankProofs -------------------------
(***************************************************************************)
(* That no partial image is ever trusted, for every bank size, every image *)
(* and every number of power losses.  The argument follows the update:     *)
(* while the bank is erased its first chunk goes first; no data operation  *)
(* is ahead of the store that records INVALID; and over the air every      *)
(* queued data operation is for a chunk that is still erased, so a bank    *)
(* that passes the CRC has none left.                                      *)
(***************************************************************************)
EXTENDS DfuSingleBank, TLAPS, SequenceTheorems

\* What the theorems ask of the host: no START over the air while an update is
\* under way, and no update of size zero.  Both are needed: see the findings.
SafeInputs == ~Restarts /\ \A p \in StartPackets : Total(p) > 0

Receiving == {"RDY", "RX_INIT_PKT", "RX_DATA_PKT", "VALIDATE"}
SaveKinds == {"serase", "sstore"}
HeadIs(kinds) == fq # <<>> /\ fq[1].op \in kinds
Whole == \E s \in Images \cup SwdImages : Len(s) > 0 /\ Holds(s)

\* The sizes are those of an accepted start packet.
SizeInv ==
  /\ st # "IDLE" => mode = "dfu" /\ imageSize \in 1 .. BankChunks
  /\ st \in {"IDLE", "PREPARING", "RDY", "RX_INIT_PKT"} => received = 0 /\ ~overrun
  /\ st \in {"RX_DATA_PKT", "VALIDATE", "WAIT_4_ACTIVATE"} => received \in 0 .. imageSize

\* Nothing is left in RAM outside the DFU mode.
IdleInv ==
  /\ mode \in {"off", "check", "app"} => fq = <<>>
  /\ st = "IDLE" => cache = <<>> /\ (mode # "finalize" => fq = <<>>)
  /\ fq = <<>> => prog = 0
  /\ mode # "dfu" => ~ota

\* The erase of bank 0 starts at its first chunk.
PreparingInv ==
  st = "PREPARING" =>
    /\ Len(fq) = 1 /\ fq[1].op = "erase" /\ fq[1].k >= imageSize
    /\ prog \in 0 .. fq[1].k
    /\ cache = <<>>
    /\ \A k \in 0 .. prog - 1 : k \in Chunks => flash[k] = Erased

\* The settings operations are ahead of all data operations.
QueueOrder ==
  st \in Receiving =>
    /\ \A i \in 1 .. Len(fq) :
         \/ fq[i].op = "data"
         \/ i = 1 /\ fq[i].op \in SaveKinds
         \/ i = 2 /\ fq[i].op = "sstore" /\ fq[1].op = "serase"
    /\ HeadIs({"serase"}) => Len(fq) >= 2 /\ fq[2].op = "sstore"
    /\ \A i \in 1 .. Len(cache) : cache[i].op = "data"

\* Until the settings say INVALID the bank has no first chunk.
RecordInv ==
  st \in Receiving =>
    /\ sbuf.b0 = "INVALID" /\ sbuf.b1 # "VALID_BOOT"
    /\ HeadIs(SaveKinds) => flash[0] = Erased
    /\ HeadIs({"sstore"}) /\ prog > 0 => stg.b0 = "INVALID"
    /\ ~HeadIs(SaveKinds) => stg.b0 = "INVALID"

\* Over the air, queued data is for chunks that are still erased.
PendingInv ==
  ota /\ st \in Receiving /\ ~overrun =>
    /\ \A i \in 1 .. Len(fq) : fq[i].op = "data" =>
         /\ fq[i].k \in 0 .. received - 1
         /\ flash[fq[i].k] = Erased \/ (i = 1 /\ prog > 0)
    /\ \A i, j \in 1 .. Len(fq) :
         i < j /\ fq[i].op = "data" /\ fq[j].op = "data" => fq[i].k < fq[j].k
    /\ \A k \in received .. imageSize - 1 : flash[k] = Erased

\* Once the CRC has matched, nothing that is queued touches the bank.
ValidatedInv ==
  /\ st \in {"RX_DATA_PKT", "VALIDATE", "WAIT_4_ACTIVATE"} => init \in Images
  /\ st = "WAIT_4_ACTIVATE" =>
       /\ Len(init) = imageSize /\ Holds(init)
       /\ \A i \in 1 .. Len(fq) :
            fq[i].op \in SaveKinds \/ (fq[i].op = "data" /\ i = 1 /\ prog > 0)

\* main() completes a SoftDevice or bootloader update over a whole image.
FinalizeInv ==
  mode = "finalize" =>
    /\ st = "IDLE"
    /\ Whole
    /\ sbuf.b0 # "VALID_SD" /\ sbuf.b1 # "VALID_BOOT"
    /\ fq \in {SaveOps, <<SettingsStore>>, <<>>}
    /\ HeadIs({"sstore"}) /\ prog > 0 => stg.b0 = sbuf.b0
    /\ HeadIs({"sstore"}) /\ prog > 1 => stg.b1 = sbuf.b1
    /\ fq = <<>> => stg.b0 = sbuf.b0 /\ stg.b1 = sbuf.b1

\* What the settings claim is true of the bank.
ClaimInv ==
  /\ SdInProgress => Whole
  /\ flash[0] = Erased \/ stg.b0 = "INVALID" \/ Whole
  /\ mode = "check" => ~SdInProgress
  /\ mode = "dfu" /\ st # "WAIT_4_ACTIVATE" => ~SdInProgress

SafetyInv == /\ IdleInv /\ PreparingInv /\ QueueOrder /\ RecordInv
             /\ PendingInv /\ ValidatedInv /\ FinalizeInv /\ ClaimInv
IInv == TypeOK /\ SizeInv /\ SafetyInv

-----------------------------------------------------------------------------
(* Operations and their queue.                                             *)

\* Every operation that the engine issues is well formed.
LEMMA OperationTypes ==
  /\ \A n \in Int : EraseOp(n) \in Operation
  /\ \A k \in Int, v \in Content : DataOp(k, v) \in Operation
  /\ SettingsErase \in Operation /\ SettingsStore \in Operation
  /\ SaveOps \in Seq(Operation)
  BY DEF EraseOp, DataOp, SettingsErase, SettingsStore, SaveOps, Operation, Content

\* Rounding up to pages never loses a chunk.
LEMMA PageUpBounds == ASSUME NEW n \in Nat PROVE PageUp(n) \in Nat /\ PageUp(n) >= n
<1> DEFINE P == PageChunks
           q == (n + P - 1) \div P
           r == (n + P - 1) % P
<1>1. P \in Nat /\ P > 0
  BY SizesAssumption
<1>2. n + P - 1 = P * q + r /\ r \in 0 .. P - 1 /\ q \in Int
  BY <1>1
<1>3. q * P = P * q /\ P * q \in Int
  BY <1>1, <1>2
<1>4. P * q >= n
  BY <1>1, <1>2, <1>3
<1> QED
  BY <1>3, <1>4 DEF PageUp

LEMMA SettingsTypes ==
  /\ ErasedSettings \in Settings /\ ZeroSettings \in Settings
  /\ \A old, new \in Settings, n \in Nat : WordWritten(old, new, n) \in Settings
  BY DEF ErasedSettings, ZeroSettings, Settings, WordWritten, Bank0Codes, Bank1Codes

-----------------------------------------------------------------------------
(* Type correctness, together with the sizes it rests on.                  *)

LEMMA InitTypes == ASSUME Init PROVE TypeOK /\ SizeInv
<1>1. flash \in [Cells -> Content]
  BY DEF Init, Cells, Content
<1>2. TypeOK
  <2>1. received \in 0 .. BankChunks
    BY SizesAssumption DEF Init
  <2>2. fq \in Seq(Operation) /\ cache \in Seq(Operation)
    BY DEF Init
  <2>3. st \in DfuStates /\ status \in Statuses
    BY DEF Init, Statuses, DfuStates
  <2>4. stg \in Settings /\ sbuf \in Settings
    BY SettingsTypes DEF Init
  <2> QED
    BY <1>1, <2>1, <2>2, <2>3, <2>4 DEF Init, TypeOK
<1> QED
  BY <1>2 DEF Init, SizeInv

\* A reset leaves well-typed RAM, and sizes of zero.
LEMMA RamClearedTypes ==
  ASSUME RamCleared, flash' \in [Cells -> Content], stg' \in Settings,
         mode' \in {"off", "finalize", "check", "dfu", "app"}
  PROVE  TypeOK' /\ SizeInv'
<1>1. TypeOK'
  <2>1. received' \in 0 .. BankChunks
    BY SizesAssumption DEF RamCleared
  <2>2. fq' \in Seq(Operation) /\ cache' \in Seq(Operation)
    BY DEF RamCleared
  <2>3. st' \in DfuStates /\ status' \in Statuses
    BY DEF RamCleared, Statuses, DfuStates
  <2>4. sbuf' \in Settings
    BY SettingsTypes DEF RamCleared
  <2> QED
    BY <2>1, <2>2, <2>3, <2>4 DEF RamCleared, TypeOK
<1> QED
  BY <1>1 DEF RamCleared, SizeInv

LEMMA BootTypes == ASSUME TypeOK, SizeInv, Boot PROVE TypeOK' /\ SizeInv'
<1>1. CASE Start
  <2>1. fq' \in Seq(Operation) /\ status' \in Statuses
    BY <1>1, OperationTypes DEF Start, TypeOK, Statuses, opVars
  <2>0. sbuf' \in Settings
    <3>1. stg.b0 \in Bank0Codes /\ stg.b1 \in Bank1Codes
      BY DEF TypeOK, Settings
    <3>2. \A x \in Bank0Codes, y \in Bank1Codes :
            [b0 |-> IF x = "VALID_SD" THEN "INVALID" ELSE x,
             b1 |-> "INVALID", img |-> FALSE] \in Settings
      BY DEF Settings, Bank0Codes, Bank1Codes
    <3> QED
      BY <1>1, <3>1, <3>2 DEF Start, TypeOK, opVars
  <2>2. TypeOK'
    BY <1>1, <2>0, <2>1 DEF Start, TypeOK, nonVolatile, dfuVars, timerVars
  <2> QED
    BY <1>1, <2>2 DEF Start, SizeInv, dfuVars
<1>2. CASE MbrFault
  BY <1>2 DEF MbrFault, vars, TypeOK, SizeInv, dfuVars, timerVars, opVars
<1>3. CASE FinalizeDone
  BY <1>3 DEF FinalizeDone, nonVolatile, TypeOK, SizeInv, dfuVars, timerVars, opVars
<1>4. ASSUME NEW wanted, NEW link \in Links, CheckDfuMode(wanted, link)
      PROVE  TypeOK' /\ SizeInv'
  <2>1. CASE mode' = "dfu"
    <3>1. ota' = link /\ timerOn' = TRUE
          /\ UNCHANGED <<status, dfuVars, timerEvt, timedOut, opVars, nonVolatile>>
      BY <1>4, <2>1 DEF CheckDfuMode, Leave, Reboot
    <3> QED
      BY <2>1, <3>1, InputAssumption
      DEF TypeOK, SizeInv, dfuVars, opVars, nonVolatile
  <2>2. CASE mode' # "dfu"
    <3>1. RamCleared /\ mode' \in {"off", "app"} /\ UNCHANGED nonVolatile
      BY <1>4, <2>2 DEF CheckDfuMode, Leave, Reboot
    <3> QED
      BY <3>1, RamClearedTypes DEF nonVolatile, TypeOK
  <2> QED
    BY <2>1, <2>2
<1> QED
  BY <1>1, <1>2, <1>3, <1>4 DEF Boot

LEMMA FlashTypes == ASSUME TypeOK, SizeInv, Flash PROVE TypeOK' /\ SizeInv'
<1>1. CASE FlashStep
  <2>1. Head(fq).v \in Content
    <3>1. Head(fq) \in Operation
      BY <1>1 DEF FlashStep, TypeOK
    <3> QED
      BY <3>1 DEF Operation
  <2>2. flash' \in [Cells -> Content]
    <3>1. \/ flash' = [flash EXCEPT ![prog] = Erased]
          \/ flash' = [flash EXCEPT ![Head(fq).k] = Head(fq).v]
          \/ flash' = flash
      BY <1>1 DEF FlashStep
    <3>2. flash \in [Cells -> Content] /\ Erased \in Content
      BY DEF TypeOK, Content
    <3> QED
      BY <2>1, <3>1, <3>2
  <2>3. stg' \in Settings
    BY <1>1, SettingsTypes DEF FlashStep, TypeOK
  <2> QED
    BY <1>1, <2>2, <2>3
    DEF FlashStep, TypeOK, SizeInv, dfuVars, timerVars
<1>2. CASE OpDone
  <2>1. Tail(fq) \in Seq(Operation)
    BY <1>2 DEF OpDone, TypeOK
  <2>2. Tail(fq) \o BankErasedOps \in Seq(Operation)
    BY <2>1, OperationTypes DEF BankErasedOps
  <2>3. sbuf' \in Settings
    BY <1>2 DEF OpDone, TypeOK, Settings, Bank0Codes, Bank1Codes
  <2>4. fq' \in Seq(Operation) /\ st' \in DfuStates /\ prog' \in Nat /\ status' \in Statuses
    BY <1>2, <2>1, <2>2 DEF OpDone, TypeOK, DfuStates, Statuses, FinalStatus
  <2>5. TypeOK'
    BY <1>2, <2>3, <2>4 DEF OpDone, TypeOK, nonVolatile, timerVars
  <2> QED
    BY <1>2, <2>5 DEF OpDone, SizeInv
<1> QED
  BY <1>1, <1>2 DEF Flash

\* A write through the page cache leaves well-typed operations.
LEMMA SerialWriteTypes ==
  ASSUME TypeOK, NEW v \in Word, SerialWrite(v)
  PROVE  fq' \in Seq(Operation) /\ cache' \in Seq(Operation)
<1> DEFINE Queues == [cache : Seq(Operation), fq : Seq(Operation)]
<1>1. ASSUME NEW cq \in Queues, NEW op \in Operation
      PROVE  Put(cq, op) \in Queues
  <2>1. Append(cq.cache, op) \in Seq(Operation) /\ <<op>> \in Seq(Operation)
        /\ cq.fq \o cq.cache \in Seq(Operation)
    BY <1>1
  <2> QED
    BY <1>1, <2>1 DEF Put
<1>2. [cache |-> cache, fq |-> fq] \in Queues
  BY DEF TypeOK
<1>3. /\ DataOp(received, v) \in Operation
      /\ DataOp(received - 1, Garbage) \in Operation
      /\ DataOp(received, Garbage) \in Operation
  <2>1. received \in Int /\ received - 1 \in Int /\ v \in Content /\ Garbage \in Content
    BY DEF TypeOK, Content
  <2> QED
    BY <2>1, OperationTypes
<1>4. CachedWrite(v) \in Queues
  BY <1>1, <1>2, <1>3 DEF CachedWrite
<1>5. CachedWrite(v).fq \in Seq(Operation) /\ CachedWrite(v).cache \in Seq(Operation)
  BY <1>4
<1>6. CachedWrite(v).fq \o CachedWrite(v).cache \in Seq(Operation) /\ <<>> \in Seq(Operation)
  BY <1>5
<1> QED
  BY <1>5, <1>6 DEF SerialWrite

\* A start packet that is accepted has a size that fits the bank.
LEMMA StartTypes ==
  ASSUME TypeOK, SizeInv, SafeInputs, NEW p \in StartPackets, HostStart(p)
  PROVE  TypeOK' /\ SizeInv'
<1>1. Total(p) \in Nat /\ Total(p) > 0
  BY InputAssumption DEF SafeInputs, Total, StartPacket
<1>2. CASE ~ota /\ ~StartAccepted(p)
  <2>1. RamCleared /\ mode' = "off" /\ UNCHANGED nonVolatile
    BY <1>2 DEF HostStart, Reboot
  <2> QED
    BY <2>1, RamClearedTypes DEF nonVolatile, TypeOK
<1>3. CASE ota \/ StartAccepted(p)
  <2>1. StartPktHandle(p)
        /\ UNCHANGED <<nonVolatile, mode, ota, status, timerEvt, timedOut,
                       prog, sbuf, cache>>
        /\ mode = "dfu" /\ st = "IDLE"
    BY <1>3 DEF HostStart, HostReady, MainReady, SafeInputs, StartAccepted
  <2>2. fq' \in Seq(Operation)
    <3>1. EraseSize(Total(p)) \in Int
      BY <1>1, PageUpBounds, SizesAssumption DEF EraseSize
    <3>2. Append(fq, EraseOp(EraseSize(Total(p)))) \in Seq(Operation)
      BY <3>1, OperationTypes DEF TypeOK
    <3> QED
      BY <2>1, <3>2 DEF StartPktHandle, TypeOK
  <2>3. imageSize' \in Nat /\ activate' \in {"NONE", "SD", "BL", "APP"}
    BY <1>1, <2>1 DEF StartPktHandle, TypeOK, ActivateOf
  <2>4. CASE StartAccepted(p)
    <3>1. imageSize' \in 1 .. BankChunks /\ st' = "PREPARING" /\ timerOn' = TRUE
      BY <1>1, <2>1, <2>4, SizesAssumption DEF StartPktHandle, StartAccepted, TooLarge
    <3>2. TypeOK'
      BY <2>1, <2>2, <2>3, <3>1 DEF StartPktHandle, TypeOK, nonVolatile, DfuStates
    <3> QED
      BY <2>1, <3>1, <3>2 DEF StartPktHandle, SizeInv
  <2>5. CASE ~StartAccepted(p)
    <3>1. TypeOK'
      BY <2>1, <2>2, <2>3, <2>5 DEF StartPktHandle, TypeOK, nonVolatile
    <3> QED
      BY <2>1, <2>5, <3>1 DEF StartPktHandle, SizeInv
  <2> QED
    BY <2>4, <2>5
<1> QED
  BY <1>2, <1>3

LEMMA InitPktTypes ==
  ASSUME TypeOK, SizeInv, NEW d \in Images \cup {BadInit},
         HostInitBle(d) \/ HostInitSerial(d) \/ HostInitComplete
  PROVE  TypeOK' /\ SizeInv'
<1>1. CASE HostInitBle(d)
  <2>1. init' \in Images \cup {NoInit, BadInit} /\ timerOn' \in BOOLEAN
        /\ st' \in DfuStates
    BY <1>1 DEF HostInitBle, Appended, TypeOK, DfuStates
  <2> QED
    BY <1>1, <2>1 DEF HostInitBle, TypeOK, SizeInv, nonVolatile, opVars
<1>2. CASE HostInitSerial(d)
  <2>1. CASE st = "RDY" /\ d \in Images /\ ~timedOut
    <3>1. st' = "RX_DATA_PKT" /\ init' = d /\ timerOn' = TRUE
          /\ UNCHANGED <<nonVolatile, mode, ota, status, pkt, imageSize, activate,
                         received, overrun, timerEvt, timedOut, opVars>>
      BY <1>2, <2>1 DEF HostInitSerial
    <3>2. TypeOK'
      BY <3>1, <2>1 DEF TypeOK, nonVolatile, opVars, DfuStates
    <3> QED
      BY <3>1, <3>2, <2>1 DEF SizeInv, TypeOK
  <2>2. CASE ~(st = "RDY" /\ d \in Images /\ ~timedOut)
    <3>1. RamCleared /\ mode' = "off" /\ UNCHANGED nonVolatile
      BY <1>2, <2>2 DEF HostInitSerial, Reboot
    <3> QED
      BY <3>1, RamClearedTypes DEF nonVolatile, TypeOK
  <2> QED
    BY <2>1, <2>2
<1>3. CASE HostInitComplete
  <2>1. init' \in Images \cup {NoInit, BadInit} /\ st' \in DfuStates
    BY <1>3 DEF HostInitComplete, TypeOK, DfuStates
  <2>2. TypeOK'
    BY <1>3, <2>1 DEF HostInitComplete, TypeOK, nonVolatile, opVars, timerVars
  <2> QED
    BY <1>3, <2>2 DEF HostInitComplete, SizeInv, TypeOK
<1> QED
  BY <1>1, <1>2, <1>3

\* m_data_received never passes the size of the image.
LEMMA DataTypes ==
  ASSUME TypeOK, SizeInv, NEW v \in Word, HostData(v)
  PROVE  TypeOK' /\ SizeInv'
<1>1. /\ st = "RX_DATA_PKT" /\ mode = "dfu"
      /\ UNCHANGED <<nonVolatile, mode, ota, status, st, pkt, imageSize, activate,
                     init, timerEvt, timedOut, prog, sbuf>>
  BY DEF HostData, HostReady, MainReady
<1>2. received' \in 0 .. imageSize /\ imageSize \in 1 .. BankChunks
  <2>1. received \in 0 .. imageSize /\ imageSize \in 1 .. BankChunks
    BY <1>1 DEF SizeInv
  <2>2. \/ received' = 0
        \/ received' = received
        \/ received + 1 <= imageSize /\ received' = received + 1
    BY <2>1 DEF HostData, TypeOK
  <2> QED
    BY <1>1, <2>1, <2>2, SizesAssumption
<1>3. overrun' \in BOOLEAN /\ timerOn' \in BOOLEAN
  BY DEF HostData, TypeOK
<1>4. fq' \in Seq(Operation) /\ cache' \in Seq(Operation)
  <2>1. CASE SerialWrite(v)
    BY <2>1, SerialWriteTypes
  <2>2. CASE fq' = Append(fq, DataOp(received, v)) /\ cache' = cache
    <3>1. DataOp(received, v) \in Operation
      BY OperationTypes DEF TypeOK, Content
    <3> QED
      BY <2>2, <3>1 DEF TypeOK
  <2>3. CASE UNCHANGED <<fq, cache>>
    BY <2>3 DEF TypeOK
  <2> QED
    BY <2>1, <2>2, <2>3 DEF HostData
<1>5. received' \in 0 .. BankChunks
  BY <1>2, SizesAssumption
<1>6. TypeOK'
  BY <1>1, <1>3, <1>4, <1>5 DEF TypeOK, nonVolatile
<1> QED
  BY <1>1, <1>2, <1>6 DEF SizeInv

\* Activation queues the two operations that save the settings.
LEMMA ImageActivateTypes ==
  ASSUME TypeOK, ImageActivate
  PROVE  fq' \in Seq(Operation) /\ sbuf' \in Settings /\ status' \in Statuses
         /\ timerOn' \in BOOLEAN
<1>1. sbuf' \in Settings
  <2>1. /\ stg.b0 \in Bank0Codes
        /\ [sbuf EXCEPT !.b0 = "VALID_APP", !.b1 = "INVALID"] \in Settings
    BY DEF TypeOK, Settings, Bank0Codes, Bank1Codes
  <2>2. \A x \in BOOLEAN : [b0 |-> "VALID_SD", b1 |-> "INVALID", img |-> x] \in Settings
    BY DEF Settings, Bank0Codes, Bank1Codes
  <2>3. \A x \in BOOLEAN, b \in Bank0Codes :
          [b0 |-> b, b1 |-> "VALID_BOOT", img |-> x] \in Settings
    BY DEF Settings, Bank0Codes, Bank1Codes
  <2>4. (pkt.sd > 0 \/ pkt.bl > 0) \in BOOLEAN
    OBVIOUS
  <2> QED
    BY <2>1, <2>2, <2>3, <2>4 DEF ImageActivate, ActivatedSettings
<1>2. fq' \in Seq(Operation)
  <2>1. fq \o SaveOps \in Seq(Operation)
    BY OperationTypes DEF TypeOK
  <2> QED
    BY <2>1 DEF ImageActivate
<1> QED
  BY <1>1, <1>2 DEF ImageActivate, Statuses

LEMMA ValidatedTypes ==
  ASSUME TypeOK, SizeInv
  PROVE  Validated \in DfuStates
         /\ (Validated \in {"IDLE", "PREPARING", "RDY", "RX_INIT_PKT"} => Validated = st)
         /\ (Validated # st => st = "RX_DATA_PKT")
  BY DEF Validated, TypeOK, DfuStates

LEMMA FinishTypes ==
  ASSUME TypeOK, SizeInv, HostValidate \/ HostActivate \/ HostReset \/ HostStop
  PROVE  TypeOK' /\ SizeInv'
<1>1. CASE HostValidate
  <2>1. TypeOK'
    BY <1>1, ValidatedTypes DEF HostValidate, TypeOK, nonVolatile, opVars
  <2> QED
    BY <1>1, <2>1, ValidatedTypes DEF HostValidate, SizeInv
<1>2. CASE HostActivate
  <2>1. CASE Closing
    <3>1. RamCleared /\ mode' = "off" /\ UNCHANGED nonVolatile
      BY <1>2, <2>1 DEF HostActivate, Reboot
    <3> QED
      BY <3>1, RamClearedTypes DEF nonVolatile, TypeOK
  <2>2. CASE ~Closing
    <3>1. fq' \in Seq(Operation) /\ sbuf' \in Settings /\ status' \in Statuses
          /\ timerOn' \in BOOLEAN
      BY <1>2, <2>2, ImageActivateTypes
      DEF HostActivate, DfuReset, TypeOK, Statuses, FinalStatus
    <3> QED
      BY <1>2, <2>2, <3>1 DEF HostActivate, TypeOK, SizeInv, nonVolatile, dfuVars
  <2> QED
    BY <2>1, <2>2
<1>3. CASE HostReset
  <2>1. CASE Closing
    <3>1. RamCleared /\ mode' = "off" /\ UNCHANGED nonVolatile
      BY <1>3, <2>1 DEF HostReset, Reboot
    <3> QED
      BY <3>1, RamClearedTypes DEF nonVolatile, TypeOK
  <2>2. CASE ~Closing
    BY <1>3, <2>2
    DEF HostReset, DfuReset, TypeOK, SizeInv, nonVolatile, dfuVars, Statuses, FinalStatus
  <2> QED
    BY <2>1, <2>2
<1>4. CASE HostStop
  <2>1. fq' \in Seq(Operation) /\ sbuf' \in Settings /\ status' \in Statuses
        /\ timerOn' \in BOOLEAN
    <3>1. CASE ImageActivate
      BY <3>1, ImageActivateTypes
    <3>2. CASE ~ImageActivate
      BY <1>4, <3>2 DEF HostStop, TypeOK
    <3> QED
      BY <3>1, <3>2
  <2>2. TypeOK'
    BY <1>4, <2>1, ValidatedTypes DEF HostStop, TypeOK, nonVolatile
  <2> QED
    BY <1>4, <2>2, ValidatedTypes DEF HostStop, SizeInv
<1> QED
  BY <1>1, <1>2, <1>3, <1>4

LEMMA TimerTypes ==
  ASSUME TypeOK, SizeInv, Timer \/ WaitForEventsReturns
  PROVE  TypeOK' /\ SizeInv'
<1>1. CASE Timer
  <2>1. UNCHANGED <<nonVolatile, mode, ota, dfuVars, opVars>>
    BY <1>1 DEF Timer, TimerExpires, TimeoutHandler, StartupTimeout
  <2>2. /\ status' \in Statuses
        /\ timerOn' \in BOOLEAN /\ timerEvt' \in BOOLEAN /\ timedOut' \in BOOLEAN
    BY <1>1 DEF Timer, TimerExpires, TimeoutHandler, StartupTimeout, TypeOK, Statuses,
       FinalStatus, timerVars
  <2> QED
    BY <2>1, <2>2 DEF TypeOK, SizeInv, nonVolatile, dfuVars, opVars
<1>2. CASE WaitForEventsReturns
  <2>1. RamCleared /\ mode' \in {"off", "app"} /\ UNCHANGED nonVolatile
    BY <1>2 DEF WaitForEventsReturns, Leave, Reboot
  <2> QED
    BY <2>1, RamClearedTypes DEF nonVolatile, TypeOK
<1> QED
  BY <1>1, <1>2

LEMMA EnvironmentTypes ==
  ASSUME TypeOK, SizeInv, Environment
  PROVE  TypeOK' /\ SizeInv'
<1>1. CASE PowerLoss
  <2>1. RamCleared /\ mode' = "off" /\ UNCHANGED nonVolatile
    BY <1>1 DEF PowerLoss, Reboot
  <2> QED
    BY <2>1, RamClearedTypes DEF nonVolatile, TypeOK
<1>2. ASSUME NEW s \in SwdImages, SwdProgram(s)
      PROVE  TypeOK' /\ SizeInv'
  <2>1. \A k \in 0 .. Len(s) - 1 : s[k + 1] \in Content
    BY ContentAssumption DEF Content
  <2>2. flash' \in [Cells -> Content]
    BY <1>2, <2>1 DEF SwdProgram, TypeOK
  <2>3. TypeOK'
    BY <1>2, <2>2, SettingsTypes DEF SwdProgram, TypeOK, dfuVars, timerVars, opVars
  <2> QED
    BY <1>2, <2>3 DEF SwdProgram, SizeInv, dfuVars
<1> QED
  BY <1>1, <1>2 DEF Environment

LEMMA NextTypes ==
  ASSUME TypeOK, SizeInv, SafeInputs, [Next]_vars
  PROVE  TypeOK' /\ SizeInv'
<1>1. CASE Host
  <2>1. CASE \E d \in Images \cup {BadInit} : HostInitBle(d) \/ HostInitSerial(d)
    BY <2>1, InitPktTypes
  <2>2. CASE HostInitComplete
    BY <2>2, InitPktTypes
  <2> QED
    BY <1>1, <2>1, <2>2, StartTypes, DataTypes, FinishTypes DEF Host
<1>2. CASE UNCHANGED vars
  BY <1>2 DEF vars, TypeOK, SizeInv, dfuVars, timerVars, opVars
<1> QED
  BY <1>1, <1>2, BootTypes, FlashTypes, TimerTypes, EnvironmentTypes DEF Next

\* The state stays well typed: in particular m_data_received stays within the
\* bank, whatever packets arrive (with the sizes of SafeInputs).
THEOREM TypeCorrect == ASSUME SafeInputs PROVE Spec => []TypeOK
<1>1. Init => TypeOK /\ SizeInv
  BY InitTypes
<1>2. TypeOK /\ SizeInv /\ [Next]_vars => (TypeOK /\ SizeInv)'
  BY NextTypes
<1> QED
  BY <1>1, <1>2, PTL DEF Spec

-----------------------------------------------------------------------------
(* The inductive invariant.                                                *)

LEMMA InitSafety == ASSUME Init PROVE IInv
<1>1. TypeOK /\ SizeInv
  BY InitTypes
<1>2. flash[0] = Erased /\ ~SdInProgress
  <2>1. 0 \in Cells
    BY SizesAssumption DEF Cells
  <2> QED
    BY <2>1 DEF Init, SdInProgress, ErasedSettings
<1> QED
  BY <1>1, <1>2
  DEF Init, IInv, SafetyInv, IdleInv, PreparingInv, QueueOrder, Receiving, RecordInv,
      PendingInv, ValidatedInv, FinalizeInv, ClaimInv

\* A reset, or the jump to the application.
LEMMA RamClearedSafety ==
  ASSUME IInv, RamCleared, mode' \in {"off", "app"}, UNCHANGED nonVolatile
  PROVE  SafetyInv'
<1>1. IdleInv' /\ PreparingInv' /\ QueueOrder' /\ RecordInv' /\ PendingInv'
      /\ ValidatedInv' /\ FinalizeInv'
  BY DEF RamCleared, IdleInv, PreparingInv, QueueOrder, RecordInv, PendingInv,
     ValidatedInv, FinalizeInv, Receiving
<1>2. ClaimInv'
  BY DEF IInv, SafetyInv, ClaimInv, nonVolatile, SdInProgress, Whole, Holds
<1> QED
  BY <1>1, <1>2 DEF SafetyInv

\* What the invariant does not speak of may change.
LEMMA QuietSafety ==
  ASSUME IInv, UNCHANGED <<flash, stg, mode, ota, st, received, overrun, init, opVars>>,
         st # "IDLE" => imageSize' = imageSize
  PROVE  SafetyInv'
<1>1. IdleInv' /\ ClaimInv'
  BY DEF IInv, SafetyInv, IdleInv, ClaimInv, SdInProgress, Whole, Holds, opVars
<1>2. PreparingInv'
  BY DEF IInv, SafetyInv, PreparingInv, opVars
<1>3. QueueOrder' /\ RecordInv'
  BY DEF IInv, SafetyInv, QueueOrder, RecordInv, HeadIs, Receiving, opVars
<1>4. PendingInv'
  BY DEF IInv, SafetyInv, PendingInv, Receiving, opVars
<1>5. ValidatedInv'
  BY DEF IInv, SafetyInv, ValidatedInv, Holds, opVars
<1>6. FinalizeInv'
  BY DEF IInv, SafetyInv, FinalizeInv, Whole, Holds, HeadIs, opVars
<1> QED
  BY <1>1, <1>2, <1>3, <1>4, <1>5, <1>6 DEF SafetyInv

\* Where an operation can be at the head of the queue.
LEMMA HeadCases ==
  ASSUME IInv, fq # <<>>
  PROVE  \/ st = "PREPARING" /\ mode = "dfu" /\ fq[1].op = "erase"
         \/ st \in Receiving /\ mode = "dfu" /\ fq[1].op \in SaveKinds \cup {"data"}
         \/ st = "WAIT_4_ACTIVATE" /\ mode = "dfu"
            /\ (fq[1].op \in SaveKinds \/ (fq[1].op = "data" /\ prog > 0))
         \/ st = "IDLE" /\ mode = "finalize" /\ fq[1].op \in SaveKinds
<1>1. 1 \in 1 .. Len(fq)
  BY DEF IInv, TypeOK
<1>2. CASE st = "IDLE"
  <2>1. mode = "finalize"
    BY <1>2 DEF IInv, SafetyInv, IdleInv
  <2>2. fq = SaveOps \/ fq = <<SettingsStore>>
    BY <2>1 DEF IInv, SafetyInv, FinalizeInv
  <2> QED
    BY <1>2, <2>1, <2>2 DEF SaveOps, SettingsErase, SettingsStore, SaveKinds
<1>3. CASE st # "IDLE"
  BY <1>1, <1>3 DEF IInv, TypeOK, DfuStates, SizeInv, SafetyInv, PreparingInv, QueueOrder,
     ValidatedInv, Receiving, SaveKinds
<1> QED
  BY <1>2, <1>3

\* A validated image is whole.
LEMMA ValidatedIsWhole ==
  ASSUME IInv, st = "WAIT_4_ACTIVATE"
  PROVE  Whole /\ init \in Images /\ Len(init) = imageSize /\ Holds(init) /\ imageSize > 0
<1>1. init \in Images /\ Len(init) = imageSize /\ Holds(init)
  BY DEF IInv, SafetyInv, ValidatedInv
<1>2. imageSize > 0
  BY SizesAssumption DEF IInv, SizeInv
<1> QED
  BY <1>1, <1>2 DEF Whole

\* One page of the erase, or one chunk of it: the first chunk goes first.
LEMMA EraseStepSafety ==
  ASSUME IInv, FlashStep, st = "PREPARING"
  PROVE  SafetyInv'
<1>1. /\ fq[1].op = "erase" /\ Head(fq) = fq[1] /\ mode = "dfu" /\ fq # <<>>
      /\ fq[1].k \in Int /\ prog \in 0 .. fq[1].k - 1
  <2>1. fq # <<>> /\ Head(fq) = fq[1] /\ fq[1] \in Operation
    BY DEF FlashStep, IInv, TypeOK
  <2>2. fq[1].op = "erase" /\ mode = "dfu" /\ prog \in 0 .. fq[1].k
    BY DEF IInv, SafetyInv, PreparingInv, SizeInv
  <2>3. prog < fq[1].k
    BY <2>1, <2>2 DEF FlashStep, Steps
  <2>4. fq[1].k \in Int
    BY <2>1 DEF Operation
  <2> QED
    BY <2>1, <2>2, <2>3, <2>4
<1>2. /\ flash' = [flash EXCEPT ![prog] = Erased] /\ stg' = stg /\ prog' = prog + 1
      /\ UNCHANGED <<mode, ota, status, dfuVars, timerVars, fq, sbuf, cache>>
  BY <1>1 DEF FlashStep, SaveKinds
<1>3. \A k \in 0 .. prog' - 1 : k \in Chunks => flash'[k] = Erased
  <2>1. \A k \in 0 .. prog - 1 : k \in Chunks => flash[k] = Erased
    BY DEF IInv, SafetyInv, PreparingInv
  <2>2. Chunks \subseteq DOMAIN flash
    BY SizesAssumption DEF IInv, TypeOK, Chunks, Cells
  <2> QED
    BY <1>1, <1>2, <2>1, <2>2
<1>4. IdleInv'
  BY <1>1, <1>2 DEF IInv, SafetyInv, IdleInv, dfuVars
<1>5. PreparingInv'
  BY <1>1, <1>2, <1>3 DEF IInv, SafetyInv, PreparingInv, dfuVars
<1>6. QueueOrder' /\ RecordInv' /\ PendingInv' /\ ValidatedInv' /\ FinalizeInv'
  BY <1>1, <1>2
  DEF QueueOrder, RecordInv, PendingInv, ValidatedInv, FinalizeInv, Receiving, dfuVars
<1>7. ClaimInv'
  <2>1. flash'[0] = Erased
    <3>1. 0 \in 0 .. prog' - 1 /\ 0 \in Chunks
      BY <1>1, <1>2, SizesAssumption DEF Chunks
    <3> QED
      BY <1>3, <3>1
  <2>2. ~SdInProgress
    BY <1>1 DEF IInv, SafetyInv, ClaimInv
  <2> QED
    BY <1>1, <1>2, <2>1, <2>2 DEF ClaimInv, SdInProgress
<1> QED
  BY <1>4, <1>5, <1>6, <1>7 DEF SafetyInv

\* One word of the settings page.
LEMMA SettingsStepSafety ==
  ASSUME IInv, FlashStep, fq[1].op \in SaveKinds
  PROVE  SafetyInv'
<1> DEFINE new == IF fq[1].op = "serase" THEN ErasedSettings ELSE sbuf
<1>1. fq # <<>> /\ Head(fq) = fq[1] /\ prog \in Nat
  BY DEF FlashStep, IInv, TypeOK
<1>2. /\ flash' = flash /\ stg' = WordWritten(stg, new, prog) /\ prog' = prog + 1
      /\ UNCHANGED <<mode, ota, status, dfuVars, timerVars, fq, sbuf, cache>>
  BY <1>1 DEF FlashStep, SaveKinds
<1>3. /\ stg'.b0 = IF prog = 0 THEN new.b0 ELSE stg.b0
      /\ stg'.b1 = IF prog = 1 THEN new.b1 ELSE stg.b1
  BY <1>1, <1>2 DEF WordWritten
<1>4. IdleInv' /\ QueueOrder' /\ PendingInv' /\ PreparingInv'
  <2>1. st # "PREPARING"
    BY DEF IInv, SafetyInv, PreparingInv, SaveKinds
  <2>2. IdleInv' /\ PreparingInv'
    BY <1>1, <1>2, <2>1 DEF IInv, SafetyInv, IdleInv, PreparingInv, dfuVars
  <2>3. QueueOrder'
    BY <1>2 DEF IInv, SafetyInv, QueueOrder, HeadIs, Receiving, dfuVars
  <2>4. PendingInv'
    BY <1>1, <1>2 DEF IInv, SafetyInv, PendingInv, Receiving, SaveKinds, dfuVars
  <2> QED
    BY <2>2, <2>3, <2>4
<1>5. RecordInv'
  <2>1. CASE st \in Receiving
    BY <1>1, <1>2, <1>3, <2>1
    DEF IInv, SafetyInv, RecordInv, HeadIs, Receiving, SaveKinds, dfuVars
  <2>2. CASE st \notin Receiving
    BY <1>2, <2>2 DEF RecordInv, dfuVars
  <2> QED
    BY <2>1, <2>2
<1>6. ValidatedInv'
  BY <1>1, <1>2 DEF IInv, SafetyInv, ValidatedInv, Holds, SaveKinds, dfuVars
<1>7. FinalizeInv'
  <2> SUFFICES ASSUME mode = "finalize"
               PROVE  FinalizeInv'
    BY <1>2 DEF FinalizeInv
  <2>1. Whole'
    BY <1>2 DEF IInv, SafetyInv, FinalizeInv, Whole, Holds
  <2>2. HeadIs({"sstore"}) => new = sbuf
    BY DEF HeadIs
  <2>3. (HeadIs({"sstore"}) /\ prog' > 0 => stg'.b0 = sbuf.b0)
        /\ (HeadIs({"sstore"}) /\ prog' > 1 => stg'.b1 = sbuf.b1)
    BY <1>1, <1>2, <1>3, <2>2 DEF IInv, SafetyInv, FinalizeInv
  <2> QED
    BY <1>1, <1>2, <2>1, <2>3 DEF IInv, SafetyInv, FinalizeInv, HeadIs, dfuVars
<1>8. ClaimInv'
  <2>1. Whole' <=> Whole
    BY <1>2 DEF Whole, Holds
  <2>2. CASE st \in Receiving /\ mode = "dfu"
    <3>1. flash'[0] = Erased /\ sbuf.b1 # "VALID_BOOT" /\ sbuf.b0 = "INVALID"
      BY <1>1, <1>2, <2>2 DEF IInv, SafetyInv, RecordInv, HeadIs
    <3>2. ~SdInProgress
      BY <2>2 DEF IInv, SafetyInv, ClaimInv, Receiving
    <3>3. ~SdInProgress'
      BY <1>3, <3>1, <3>2 DEF SdInProgress, ErasedSettings
    <3> QED
      BY <1>2, <2>2, <3>1, <3>3 DEF ClaimInv
  <2>3. CASE st = "WAIT_4_ACTIVATE" /\ mode = "dfu"
    BY <1>2, <2>1, <2>3, ValidatedIsWhole DEF ClaimInv, dfuVars
  <2>4. CASE mode = "finalize"
    BY <1>2, <2>1, <2>4 DEF IInv, SafetyInv, FinalizeInv, ClaimInv
  <2> QED
    BY <1>1, <2>2, <2>3, <2>4, HeadCases DEF SaveKinds
<1> QED
  BY <1>4, <1>5, <1>6, <1>7, <1>8 DEF SafetyInv

\* A chunk of the image: the settings say INVALID by then.
LEMMA DataStepSafety ==
  ASSUME IInv, FlashStep, fq[1].op = "data"
  PROVE  SafetyInv' /\ stg.b0 = "INVALID" /\ ~SdInProgress
<1>1. fq # <<>> /\ Head(fq) = fq[1] /\ prog = 0 /\ 1 \in 1 .. Len(fq)
  BY DEF FlashStep, IInv, TypeOK, Steps
<1>2. st \in Receiving /\ mode = "dfu"
  BY <1>1, HeadCases DEF SaveKinds
<1>3. /\ flash' = [flash EXCEPT ![fq[1].k] = fq[1].v] /\ stg' = stg /\ prog' = 1
      /\ UNCHANGED <<mode, ota, status, dfuVars, timerVars, fq, sbuf, cache>>
  BY <1>1 DEF FlashStep
<1>4. ~HeadIs(SaveKinds)
  BY DEF HeadIs, SaveKinds
<1>5. stg.b0 = "INVALID" /\ ~SdInProgress
  BY <1>2, <1>4 DEF IInv, SafetyInv, RecordInv, ClaimInv, Receiving
<1>6. IdleInv' /\ PreparingInv' /\ QueueOrder' /\ RecordInv' /\ FinalizeInv'
  <2>1. IdleInv' /\ PreparingInv' /\ FinalizeInv'
    BY <1>1, <1>2, <1>3 DEF IInv, SafetyInv, IdleInv, PreparingInv, FinalizeInv, Receiving, dfuVars
  <2>2. QueueOrder'
    BY <1>3 DEF IInv, SafetyInv, QueueOrder, HeadIs, Receiving, dfuVars
  <2>3. RecordInv'
    BY <1>2, <1>3, <1>4, <1>5
    DEF IInv, SafetyInv, RecordInv, HeadIs, Receiving, SaveKinds, dfuVars
  <2> QED
    BY <2>1, <2>2, <2>3
<1>7. PendingInv'
  <2> SUFFICES ASSUME ota, ~overrun
               PROVE  PendingInv'
    BY <1>3 DEF PendingInv, dfuVars
  <2>1. /\ fq[1].k \in 0 .. received - 1
        /\ \A i \in 2 .. Len(fq) : fq[i].op = "data" => fq[i].k > fq[1].k
    <3>1. \A i, j \in 1 .. Len(fq) :
            i < j /\ fq[i].op = "data" /\ fq[j].op = "data" => fq[i].k < fq[j].k
      BY <1>2 DEF IInv, SafetyInv, PendingInv
    <3>2. fq[1].k \in 0 .. received - 1
      BY <1>1, <1>2 DEF IInv, SafetyInv, PendingInv
    <3>3. \A i \in 2 .. Len(fq) : fq[i].op = "data" =>
             i \in 1 .. Len(fq) /\ fq[1].k < fq[i].k /\ fq[i].k \in 0 .. received - 1
      BY <1>1, <1>2, <3>1 DEF IInv, SafetyInv, PendingInv
    <3> QED
      BY <3>2, <3>3
  <2>2. \A k \in Int : k # fq[1].k => flash'[k] = flash[k]
    BY <1>3
  <2>3. \A k \in received .. imageSize - 1 : flash'[k] = Erased
    BY <1>2, <2>1, <2>2 DEF IInv, SafetyInv, PendingInv, TypeOK
  <2>4. \A i \in 1 .. Len(fq) : fq[i].op = "data" =>
          fq[i].k \in 0 .. received - 1 /\ (flash'[fq[i].k] = Erased \/ (i = 1 /\ prog' > 0))
    <3>1. \A i \in 1 .. Len(fq) : fq[i].op = "data" =>
            fq[i].k \in 0 .. received - 1 /\ (flash[fq[i].k] = Erased \/ i = 1)
      BY <1>2 DEF IInv, SafetyInv, PendingInv
    <3>2. \A i \in 1 .. Len(fq) : i = 1 \/ i \in 2 .. Len(fq)
      OBVIOUS
    <3> QED
      BY <1>3, <2>1, <2>2, <3>1, <3>2
  <2> QED
    BY <1>2, <1>3, <2>3, <2>4 DEF IInv, SafetyInv, PendingInv, Receiving, dfuVars
<1>8. ValidatedInv'
  BY <1>2, <1>3 DEF IInv, SafetyInv, ValidatedInv, Receiving, dfuVars
<1>9. ClaimInv'
  BY <1>2, <1>3, <1>5 DEF ClaimInv, SdInProgress
<1> QED
  BY <1>5, <1>6, <1>7, <1>8, <1>9 DEF SafetyInv

LEMMA FlashStepSafety == ASSUME IInv, FlashStep PROVE SafetyInv'
<1>1. fq # <<>>
  BY DEF FlashStep
<1> QED
  BY <1>1, HeadCases, EraseStepSafety, SettingsStepSafety, DataStepSafety DEF SaveKinds

LEMMA TailFacts ==
  ASSUME TypeOK, fq # <<>>
  PROVE  /\ Len(Tail(fq)) = Len(fq) - 1 /\ Len(fq) \in Nat \ {0}
         /\ \A i \in 1 .. Len(fq) - 1 : i + 1 \in 1 .. Len(fq) /\ Tail(fq)[i] = fq[i + 1]
         /\ Head(fq) = fq[1] /\ fq[1] \in Operation
         /\ (Tail(fq) # <<>> <=> Len(fq) > 1)
<1>1. fq \in Seq(Operation)
  BY DEF TypeOK
<1>2. Len(fq) \in Nat \ {0} /\ Head(fq) = fq[1] /\ fq[1] \in Operation
  <2>1. Len(fq) \in Nat \ {0}
    BY <1>1, EmptySeq
  <2> QED
    BY <1>1, <2>1
<1>3. Tail(fq) \in Seq(Operation) /\ Len(Tail(fq)) = Len(fq) - 1
      /\ \A i \in 1 .. Len(Tail(fq)) : Tail(fq)[i] = fq[i + 1]
  BY <1>1, HeadTailProperties
<1>4. Tail(fq) # <<>> <=> Len(Tail(fq)) > 0
  <2>1. \A s \in Seq(Operation) : s # <<>> <=> Len(s) > 0
    BY EmptySeq
  <2> QED
    BY <1>3, <2>1, Zenon
<1>5. \A i \in 1 .. Len(fq) - 1 : i + 1 \in 1 .. Len(fq)
  BY <1>2
<1> QED
  BY <1>2, <1>3, <1>4, <1>5

\* The bank is erased: the settings are to say so.
LEMMA BankErasedSafety ==
  ASSUME IInv, OpDone, st = "PREPARING"
  PROVE  SafetyInv'
<1>1. fq # <<>> /\ Len(fq) = 1 /\ fq[1].op = "erase" /\ Head(fq) = fq[1] /\ mode = "dfu"
      /\ Tail(fq) = <<>>
  BY TailFacts DEF OpDone, IInv, TypeOK, SizeInv, SafetyInv, PreparingInv
<1>2. /\ prog' = 0 /\ fq' = SaveOps /\ st' = "RDY"
      /\ sbuf' = [sbuf EXCEPT !.b0 = "INVALID", !.b1 = stg.b1]
      /\ UNCHANGED <<flash, stg, mode, ota, imageSize, received, overrun, init, cache>>
  <2>1. fq' = Tail(fq) \o SaveOps
    BY <1>1 DEF OpDone, BankErasedOps
  <2>2. <<>> \o SaveOps = SaveOps
    BY OperationTypes
  <2> QED
    BY <1>1, <2>1, <2>2 DEF OpDone, nonVolatile
<1>3. /\ Len(fq') = 2 /\ fq'[1].op = "serase" /\ fq'[2].op = "sstore" /\ fq' # <<>>
  BY <1>2 DEF SaveOps, SettingsErase, SettingsStore
<1>4. \A k \in 0 .. imageSize - 1 : flash[k] = Erased
  <2>1. prog = fq[1].k /\ fq[1].k >= imageSize
    BY <1>1 DEF OpDone, Steps, IInv, SafetyInv, PreparingInv
  <2>2. imageSize \in 1 .. BankChunks /\ prog \in Nat
    BY <1>1 DEF IInv, TypeOK, SizeInv
  <2>3. \A k \in 0 .. prog - 1 : k \in Chunks => flash[k] = Erased
    BY DEF IInv, SafetyInv, PreparingInv
  <2>4. \A k \in 0 .. imageSize - 1 : k \in 0 .. prog - 1 /\ k \in Chunks
    BY <2>1, <2>2, SizesAssumption DEF Chunks
  <2> QED
    BY <2>3, <2>4
<1>5. flash[0] = Erased /\ received = 0 /\ ~SdInProgress
  <2>1. 0 \in 0 .. imageSize - 1
    BY <1>1, SizesAssumption DEF IInv, SizeInv
  <2> QED
    BY <1>1, <1>4, <2>1 DEF IInv, SizeInv, SafetyInv, ClaimInv
<1>6. IdleInv' /\ PreparingInv' /\ ValidatedInv' /\ FinalizeInv'
  BY <1>1, <1>2, <1>3 DEF IdleInv, PreparingInv, ValidatedInv, FinalizeInv
<1>7. QueueOrder'
  <2>1. cache' = <<>>
    BY <1>2 DEF IInv, SafetyInv, PreparingInv
  <2> QED
    BY <1>3, <2>1 DEF QueueOrder, HeadIs, SaveKinds
<1>8. RecordInv'
  <2>1. sbuf'.b0 = "INVALID" /\ sbuf'.b1 = stg.b1
    BY <1>2 DEF IInv, TypeOK, Settings
  <2> QED
    BY <1>2, <1>3, <1>5, <2>1 DEF RecordInv, HeadIs, SaveKinds, SdInProgress
<1>9. PendingInv'
  BY <1>2, <1>3, <1>4, <1>5 DEF PendingInv
<1>10. ClaimInv'
  BY <1>1, <1>2, <1>5 DEF ClaimInv, SdInProgress
<1> QED
  BY <1>6, <1>7, <1>8, <1>9, <1>10 DEF SafetyInv

\* Any other operation is complete.
LEMMA TailSafety ==
  ASSUME IInv, OpDone, st # "PREPARING"
  PROVE  SafetyInv'
<1>1. /\ fq # <<>> /\ prog = Steps(fq[1]) /\ prog' = 0 /\ fq' = Tail(fq)
      /\ UNCHANGED <<flash, stg, mode, ota, st, imageSize, received, overrun, init,
                     sbuf, cache>>
  BY TailFacts DEF OpDone, IInv, nonVolatile
<1>2. /\ Len(fq') = Len(fq) - 1 /\ Len(fq) \in Nat \ {0}
      /\ \A i \in 1 .. Len(fq') : i + 1 \in 2 .. Len(fq) /\ fq'[i] = fq[i + 1]
      /\ (fq' # <<>> <=> Len(fq) > 1)
  BY <1>1, TailFacts DEF IInv
<1>3. IdleInv' /\ PreparingInv'
  BY <1>1, HeadCases DEF IInv, SafetyInv, IdleInv, PreparingInv, Receiving, SizeInv
<1>4. QueueOrder'
  <2> SUFFICES ASSUME st \in Receiving
               PROVE  QueueOrder'
    BY <1>1 DEF QueueOrder
  <2>1. \A i \in 1 .. Len(fq') :
          fq'[i].op = "data" \/ (i = 1 /\ fq'[i].op = "sstore")
    BY <1>2 DEF IInv, SafetyInv, QueueOrder
  <2>2. \A i \in 1 .. Len(cache') : cache'[i].op = "data"
    BY <1>1 DEF IInv, SafetyInv, QueueOrder
  <2>3. ~HeadIs({"serase"})'
    <3>1. fq' # <<>> => 1 \in 1 .. Len(fq')
      BY <1>2
    <3> QED
      BY <2>1, <3>1 DEF HeadIs
  <2> QED
    BY <2>1, <2>2, <2>3 DEF QueueOrder, SaveKinds
<1>5. RecordInv'
  <2> SUFFICES ASSUME st \in Receiving
               PROVE  RecordInv'
    BY <1>1 DEF RecordInv
  <2>1. fq[1].op \in SaveKinds \cup {"data"}
    BY <1>1, HeadCases DEF Receiving
  <2>2. CASE fq[1].op = "serase"
    <3>1. fq' # <<>> /\ fq'[1].op = "sstore" /\ flash[0] = Erased
      BY <1>1, <1>2, <2>2 DEF IInv, SafetyInv, QueueOrder, RecordInv, HeadIs, SaveKinds
    <3> QED
      BY <1>1, <3>1 DEF IInv, SafetyInv, RecordInv, HeadIs, SaveKinds
  <2>3. CASE fq[1].op # "serase"
    <3>1. stg.b0 = "INVALID"
      <4>1. CASE fq[1].op = "sstore"
        BY <1>1, <4>1 DEF IInv, SafetyInv, RecordInv, HeadIs, Steps, SettingsWords
      <4>2. CASE fq[1].op = "data"
        BY <4>2 DEF IInv, SafetyInv, RecordInv, HeadIs, SaveKinds
      <4> QED
        BY <2>1, <2>3, <4>1, <4>2 DEF SaveKinds
    <3>2. \A i \in 1 .. Len(fq') : fq'[i].op = "data"
      BY <1>2, <2>3 DEF IInv, SafetyInv, QueueOrder
    <3>3. ~HeadIs(SaveKinds)' /\ ~HeadIs({"sstore"})'
      <4>1. fq' # <<>> => 1 \in 1 .. Len(fq')
        BY <1>2
      <4> QED
        BY <3>2, <4>1 DEF HeadIs, SaveKinds
    <3> QED
      BY <1>1, <3>1, <3>3 DEF IInv, SafetyInv, RecordInv
  <2> QED
    BY <2>2, <2>3
<1>6. PendingInv'
  <2> SUFFICES ASSUME ota, st \in Receiving, ~overrun
               PROVE  PendingInv'
    BY <1>1 DEF PendingInv
  <2>1. \A i \in 1 .. Len(fq') : fq'[i].op = "data" =>
          fq'[i].k \in 0 .. received - 1 /\ flash[fq'[i].k] = Erased
    BY <1>2 DEF IInv, SafetyInv, PendingInv
  <2>2. \A i, j \in 1 .. Len(fq') :
          i < j /\ fq'[i].op = "data" /\ fq'[j].op = "data" => fq'[i].k < fq'[j].k
    <3> TAKE i, j \in 1 .. Len(fq')
    <3>1. i + 1 \in 1 .. Len(fq) /\ j + 1 \in 1 .. Len(fq) /\ (i < j => i + 1 < j + 1)
      BY <1>2
    <3> QED
      BY <1>2, <3>1 DEF IInv, SafetyInv, PendingInv
  <2>3. \A k \in received .. imageSize - 1 : flash[k] = Erased
    BY DEF IInv, SafetyInv, PendingInv
  <2> QED
    BY <1>1, <2>1, <2>2, <2>3 DEF PendingInv
<1>7. ValidatedInv'
  BY <1>1, <1>2 DEF IInv, SafetyInv, ValidatedInv, Holds
<1>8. FinalizeInv'
  <2> SUFFICES ASSUME mode = "finalize"
               PROVE  FinalizeInv'
    BY <1>1 DEF FinalizeInv
  <2>1. Whole'
    BY <1>1 DEF IInv, SafetyInv, FinalizeInv, Whole, Holds
  <2>2. CASE fq = SaveOps
    <3>1. fq' = <<SettingsStore>> /\ fq' # <<>>
      BY <1>1, <2>2 DEF SaveOps
    <3>2. ~(prog' > 0)
      BY <1>1
    <3>3. st' = "IDLE" /\ sbuf'.b0 # "VALID_SD" /\ sbuf'.b1 # "VALID_BOOT"
      BY <1>1 DEF IInv, SafetyInv, FinalizeInv
    <3>4. ~(prog' > 1)
      BY <1>1
    <3> QED
      BY <2>1, <3>1, <3>2, <3>3, <3>4 DEF FinalizeInv
  <2>3. CASE fq = <<SettingsStore>>
    <3>1. fq' = <<>> /\ fq[1].op = "sstore" /\ prog = 3
      BY <1>1, <2>3 DEF SettingsStore, Steps, SettingsWords
    <3>2. stg.b0 = sbuf.b0 /\ stg.b1 = sbuf.b1
      BY <1>1, <3>1 DEF IInv, SafetyInv, FinalizeInv, HeadIs
    <3> QED
      BY <1>1, <2>1, <3>1, <3>2 DEF IInv, SafetyInv, FinalizeInv, HeadIs
  <2> QED
    BY <1>1, <2>2, <2>3 DEF IInv, SafetyInv, FinalizeInv
<1>9. ClaimInv'
  BY <1>1 DEF IInv, SafetyInv, ClaimInv, SdInProgress, Whole, Holds
<1> QED
  BY <1>3, <1>4, <1>5, <1>6, <1>7, <1>8, <1>9 DEF SafetyInv

LEMMA OpDoneSafety == ASSUME IInv, OpDone PROVE SafetyInv'
  BY BankErasedSafety, TailSafety

\* A finalize rewrites the settings of an update that is complete.
LEMMA StartSafety == ASSUME IInv, Start PROVE SafetyInv'
<1>1. /\ mode = "off" /\ st = "IDLE" /\ fq = <<>> /\ cache = <<>> /\ prog = 0 /\ ~ota
      /\ UNCHANGED <<nonVolatile, ota, dfuVars, timerVars, prog, cache>>
  BY DEF Start, IInv, SizeInv, SafetyInv, IdleInv
<1>2. Whole' <=> Whole
  BY <1>1 DEF Whole, Holds, nonVolatile
<1>3. PreparingInv' /\ QueueOrder' /\ RecordInv' /\ PendingInv' /\ ValidatedInv'
  BY <1>1 DEF PreparingInv, QueueOrder, RecordInv, PendingInv, ValidatedInv, Receiving, dfuVars
<1>4. CASE ~SdInProgress
  <2>1. mode' = "check" /\ UNCHANGED <<status, fq, sbuf>>
    BY <1>4 DEF Start
  <2>2. IdleInv' /\ FinalizeInv'
    BY <1>1, <2>1 DEF IdleInv, FinalizeInv, dfuVars
  <2>3. ClaimInv'
    BY <1>1, <1>2, <1>4, <2>1 DEF IInv, SafetyInv, ClaimInv, SdInProgress, nonVolatile
  <2> QED
    BY <1>3, <2>2, <2>3 DEF SafetyInv
<1>5. CASE SdInProgress
  <2>1. /\ mode' = "finalize" /\ fq' = SaveOps
        /\ sbuf' = [b0 |-> IF stg.b0 = "VALID_SD" THEN "INVALID" ELSE stg.b0,
                    b1 |-> "INVALID", img |-> FALSE]
    BY <1>5 DEF Start
  <2>2. fq' # <<>> /\ fq'[1].op = "serase"
    BY <2>1 DEF SaveOps, SettingsErase
  <2>3. IdleInv'
    BY <1>1, <2>1, <2>2 DEF IdleInv, dfuVars
  <2>4. Whole
    BY <1>5 DEF IInv, SafetyInv, ClaimInv
  <2>5. sbuf'.b0 # "VALID_SD" /\ sbuf'.b1 # "VALID_BOOT"
    BY <2>1
  <2>6. FinalizeInv'
    BY <1>1, <1>2, <2>1, <2>2, <2>4, <2>5 DEF FinalizeInv, HeadIs, dfuVars
  <2>7. ClaimInv'
    BY <1>2, <2>1, <2>4 DEF ClaimInv
  <2> QED
    BY <1>3, <2>3, <2>6, <2>7 DEF SafetyInv
<1> QED
  BY <1>4, <1>5

LEMMA BootSafety == ASSUME IInv, Boot PROVE SafetyInv'
<1>1. CASE MbrFault
  BY <1>1, QuietSafety DEF MbrFault, vars, dfuVars
<1>2. CASE FinalizeDone
  <2>1. /\ mode = "finalize" /\ mode' = "check" /\ fq = <<>> /\ ~SdInProgress
        /\ st = "IDLE" /\ Whole /\ cache = <<>> /\ prog = 0 /\ ~ota
    BY <1>2 DEF FinalizeDone, IInv, SafetyInv, FinalizeInv, IdleInv, SdInProgress
  <2>2. UNCHANGED <<nonVolatile, ota, dfuVars, opVars>>
    BY <1>2 DEF FinalizeDone
  <2>3. IdleInv'
    BY <2>1, <2>2 DEF IdleInv, dfuVars, opVars
  <2>4. PreparingInv' /\ QueueOrder' /\ RecordInv' /\ PendingInv' /\ ValidatedInv'
        /\ FinalizeInv'
    BY <2>1, <2>2
    DEF PreparingInv, QueueOrder, RecordInv, PendingInv, ValidatedInv, FinalizeInv,
        Receiving, dfuVars
  <2>5. ClaimInv'
    BY <2>1, <2>2 DEF ClaimInv, SdInProgress, Whole, Holds, nonVolatile
  <2> QED
    BY <2>3, <2>4, <2>5 DEF SafetyInv
<1>3. ASSUME NEW wanted, NEW link \in Links, CheckDfuMode(wanted, link)
      PROVE  SafetyInv'
  <2>1. CASE mode' = "dfu"
    <3>1. /\ mode = "check"
          /\ UNCHANGED <<status, dfuVars, timerEvt, timedOut, opVars, nonVolatile>>
      BY <1>3, <2>1 DEF CheckDfuMode, Leave, Reboot
    <3>2. st = "IDLE" /\ fq = <<>> /\ cache = <<>> /\ prog = 0 /\ ~SdInProgress
      BY <3>1 DEF IInv, SizeInv, SafetyInv, IdleInv, ClaimInv
    <3>3. IdleInv' /\ PreparingInv' /\ QueueOrder' /\ RecordInv' /\ PendingInv'
          /\ ValidatedInv' /\ FinalizeInv'
      BY <2>1, <3>1, <3>2
      DEF IdleInv, PreparingInv, QueueOrder, RecordInv, PendingInv, ValidatedInv,
          FinalizeInv, Receiving, dfuVars, opVars
    <3>4. ClaimInv'
      BY <2>1, <3>1, <3>2 DEF IInv, SafetyInv, ClaimInv, SdInProgress, Whole, Holds, nonVolatile
    <3> QED
      BY <3>3, <3>4 DEF SafetyInv
  <2>2. CASE mode' # "dfu"
    <3>1. RamCleared /\ mode' \in {"off", "app"} /\ UNCHANGED nonVolatile
      BY <1>3, <2>2 DEF CheckDfuMode, Leave, Reboot
    <3> QED
      BY <3>1, RamClearedSafety
  <2> QED
    BY <2>1, <2>2
<1> QED
  BY <1>1, <1>2, <1>3, StartSafety DEF Boot

LEMMA HostStartSafety ==
  ASSUME IInv, SafeInputs, NEW p \in StartPackets, HostStart(p)
  PROVE  SafetyInv'
<1>1. CASE ~ota /\ ~StartAccepted(p)
  BY <1>1, RamClearedSafety DEF HostStart, Reboot
<1>2. CASE ota \/ StartAccepted(p)
  <2>1. /\ StartPktHandle(p) /\ mode = "dfu" /\ st = "IDLE"
        /\ UNCHANGED <<nonVolatile, mode, ota, prog, sbuf, cache, received, overrun, init>>
    BY <1>2 DEF HostStart, HostReady, MainReady, SafeInputs, StartAccepted, StartPktHandle
  <2>2. CASE ~StartAccepted(p)
    BY <2>1, <2>2, QuietSafety DEF StartPktHandle, nonVolatile, opVars
  <2>3. CASE StartAccepted(p)
    <3>1. fq = <<>> /\ cache = <<>> /\ prog = 0 /\ ~SdInProgress
      BY <2>1 DEF IInv, SafetyInv, IdleInv, ClaimInv
    <3>2. EraseSize(Total(p)) \in Nat /\ EraseSize(Total(p)) >= Total(p) /\ Total(p) \in Nat
      <4>1. Total(p) \in Nat /\ Total(p) > 0
        BY InputAssumption DEF SafeInputs, Total, StartPacket
      <4> QED
        BY <4>1, PageUpBounds DEF EraseSize
    <3>3. /\ st' = "PREPARING" /\ imageSize' = Total(p)
          /\ fq' = <<EraseOp(EraseSize(Total(p)))>>
      <4>1. fq' = Append(<<>>, EraseOp(EraseSize(Total(p))))
        BY <2>1, <2>3, <3>1 DEF StartPktHandle
      <4> QED
        BY <2>1, <2>3, <4>1 DEF StartPktHandle, StartAccepted
    <3>4. Len(fq') = 1 /\ fq' # <<>> /\ fq'[1].op = "erase" /\ fq'[1].k = EraseSize(Total(p))
      BY <3>3 DEF EraseOp
    <3>5. PreparingInv'
      BY <2>1, <3>1, <3>2, <3>3, <3>4 DEF PreparingInv
    <3>6. IdleInv'
      BY <2>1, <3>1, <3>3, <3>4 DEF IInv, SafetyInv, IdleInv
    <3>7. QueueOrder' /\ RecordInv' /\ PendingInv' /\ ValidatedInv' /\ FinalizeInv'
      BY <2>1, <3>3
      DEF QueueOrder, RecordInv, PendingInv, ValidatedInv, FinalizeInv, Receiving
    <3>8. ClaimInv'
      BY <2>1, <3>1, <3>3 DEF IInv, SafetyInv, ClaimInv, SdInProgress, Whole, Holds, nonVolatile
    <3> QED
      BY <3>5, <3>6, <3>7, <3>8 DEF SafetyInv
  <2> QED
    BY <2>2, <2>3
<1> QED
  BY <1>1, <1>2

\* Between the states in which the bank is being filled.
LEMMA ReceivingSafety ==
  ASSUME IInv, UNCHANGED <<flash, stg, mode, ota, imageSize, received, overrun, opVars>>,
         st \in Receiving, st' \in Receiving, mode = "dfu",
         st' \in {"RX_DATA_PKT", "VALIDATE"} => init' \in Images
  PROVE  SafetyInv'
<1>1. IdleInv' /\ PreparingInv' /\ ValidatedInv' /\ FinalizeInv'
  BY DEF IInv, SafetyInv, IdleInv, PreparingInv, ValidatedInv, FinalizeInv, Receiving, opVars
<1>2. QueueOrder' /\ RecordInv'
  BY DEF IInv, SafetyInv, QueueOrder, RecordInv, HeadIs, opVars
<1>3. PendingInv'
  BY DEF IInv, SafetyInv, PendingInv, opVars
<1>4. ClaimInv'
  BY DEF IInv, SafetyInv, ClaimInv, SdInProgress, Whole, Holds, Receiving
<1> QED
  BY <1>1, <1>2, <1>3, <1>4 DEF SafetyInv

LEMMA InitPktSafety ==
  ASSUME IInv, NEW d \in Images \cup {BadInit},
         HostInitBle(d) \/ HostInitSerial(d) \/ HostInitComplete
  PROVE  SafetyInv'
<1>1. CASE HostInitBle(d)
  BY <1>1, ReceivingSafety
  DEF HostInitBle, HostReady, MainReady, Receiving, nonVolatile
<1>2. CASE HostInitSerial(d)
  <2>1. CASE st = "RDY" /\ d \in Images /\ ~timedOut
    BY <1>2, <2>1, ReceivingSafety
    DEF HostInitSerial, HostReady, MainReady, Receiving, nonVolatile
  <2>2. CASE ~(st = "RDY" /\ d \in Images /\ ~timedOut)
    BY <1>2, <2>2, RamClearedSafety DEF HostInitSerial, Reboot
  <2> QED
    BY <2>1, <2>2
<1>3. CASE HostInitComplete
  BY <1>3, ReceivingSafety
  DEF HostInitComplete, HostReady, MainReady, Receiving, nonVolatile
<1> QED
  BY <1>1, <1>2, <1>3

AllData(q) == \A i \in 1 .. Len(q) : q[i].op = "data"

\* Over serial a data packet makes data operations only.
LEMMA SerialWriteData ==
  ASSUME TypeOK, NEW v \in Word, SerialWrite(v), AllData(fq), AllData(cache)
  PROVE  AllData(fq') /\ AllData(cache')
<1> DEFINE S == {q \in Seq(Operation) : AllData(q)}
           Queues == [cache : S, fq : S]
<1>1. ASSUME NEW q \in S, NEW r \in S PROVE q \o r \in S
  <2>1. q \o r \in Seq(Operation) /\ Len(q \o r) = Len(q) + Len(r)
        /\ Len(q) \in Nat /\ Len(r) \in Nat
    BY <1>1
  <2>2. ASSUME NEW i \in 1 .. Len(q \o r) PROVE (q \o r)[i].op = "data"
    <3>1. CASE i <= Len(q)
      <4>1. (q \o r)[i] = q[i] /\ i \in 1 .. Len(q)
        BY <1>1, <2>1, <3>1
      <4> QED
        BY <1>1, <4>1 DEF AllData
    <3>2. CASE i > Len(q)
      <4>1. (q \o r)[i] = r[i - Len(q)] /\ i - Len(q) \in 1 .. Len(r)
        BY <1>1, <2>1, <3>2
      <4> QED
        BY <1>1, <4>1 DEF AllData
    <3> QED
      BY <2>1, <3>1, <3>2
  <2> QED
    BY <2>1, <2>2 DEF AllData
<1>2. ASSUME NEW q \in S, NEW op \in Operation, op.op = "data"
      PROVE  Append(q, op) \in S /\ <<op>> \in S
  <2>1. Append(q, op) \in Seq(Operation) /\ <<op>> \in Seq(Operation)
        /\ Len(Append(q, op)) = Len(q) + 1 /\ Len(q) \in Nat /\ Len(<<op>>) = 1
        /\ <<op>>[1] = op /\ Append(q, op)[Len(q) + 1] = op
        /\ \A i \in 1 .. Len(q) : Append(q, op)[i] = q[i]
    BY <1>2
  <2>2. \A i \in 1 .. Len(q) : q[i].op = "data"
    BY <1>2 DEF AllData
  <2>3. AllData(Append(q, op))
    BY <1>2, <2>1, <2>2 DEF AllData
  <2>4. AllData(<<op>>)
    BY <1>2, <2>1 DEF AllData
  <2> QED
    BY <2>1, <2>3, <2>4
<1>3. ASSUME NEW cq \in Queues, NEW op \in Operation, op.op = "data"
      PROVE  Put(cq, op) \in Queues
  <2>1. Append(cq.cache, op) \in S /\ <<op>> \in S /\ cq.fq \o cq.cache \in S
    BY <1>1, <1>2, <1>3
  <2> HIDE DEF S
  <2> QED
    BY <1>3, <2>1 DEF Put
<1>4. [cache |-> cache, fq |-> fq] \in Queues
  BY DEF TypeOK
<1>5. \A k \in Int, x \in Content : DataOp(k, x) \in Operation /\ DataOp(k, x).op = "data"
  BY OperationTypes DEF DataOp
<1>6. received \in Int /\ received - 1 \in Int /\ v \in Content /\ Garbage \in Content
  BY DEF TypeOK, Content
<1>7. CachedWrite(v) \in Queues
  <2> HIDE DEF Queues
  <2> QED
    BY <1>3, <1>4, <1>5, <1>6 DEF CachedWrite
<1>8. CachedWrite(v).fq \in S /\ CachedWrite(v).cache \in S /\ <<>> \in S
      /\ CachedWrite(v).fq \o CachedWrite(v).cache \in S
  <2>1. CachedWrite(v).fq \in S /\ CachedWrite(v).cache \in S
    BY <1>7
  <2>2. <<>> \in S
    BY DEF AllData
  <2> HIDE DEF S
  <2> QED
    BY <1>1, <2>1, <2>2
<1>9. fq' \in S /\ cache' \in S
  <2> HIDE DEF S
  <2> QED
    BY <1>8 DEF SerialWrite
<1> QED
  BY <1>9

\* A queue that grows by data keeps its order; over the air the new operation
\* is for a chunk that is still erased.
LEMMA HostDataSafety ==
  ASSUME IInv, NEW v \in Word, HostData(v)
  PROVE  SafetyInv'
<1>1. /\ st = "RX_DATA_PKT" /\ mode = "dfu" /\ st \in Receiving
      /\ ota \/ fq = <<>>
      /\ UNCHANGED <<flash, stg, mode, ota, status, st, pkt, imageSize, activate,
                     init, timerEvt, timedOut, prog, sbuf>>
  BY DEF HostData, HostReady, MainReady, nonVolatile, Receiving
<1>2. PreparingInv' /\ ValidatedInv' /\ FinalizeInv' /\ ClaimInv'
  BY <1>1
  DEF IInv, SafetyInv, PreparingInv, ValidatedInv, FinalizeInv, ClaimInv, SdInProgress,
      Whole, Holds
<1>3. CASE /\ UNCHANGED <<fq, cache>>
           /\ (received' = received /\ overrun' = overrun) \/ overrun' = TRUE
  <2>1. IdleInv' /\ QueueOrder' /\ RecordInv'
    BY <1>1, <1>3
    DEF IInv, SafetyInv, IdleInv, QueueOrder, RecordInv, HeadIs, Receiving
  <2>2. PendingInv'
    BY <1>1, <1>3 DEF IInv, SafetyInv, PendingInv
  <2> QED
    BY <1>2, <2>1, <2>2 DEF SafetyInv
<1>4. CASE /\ ota /\ ~overrun /\ ~overrun' /\ received + 1 <= imageSize
           /\ fq' = Append(fq, DataOp(received, v))
           /\ received' = received + 1 /\ cache' = cache
  <2>1. /\ Len(fq') = Len(fq) + 1 /\ Len(fq) \in Nat /\ fq' # <<>>
        /\ \A i \in 1 .. Len(fq) : fq'[i] = fq[i]
        /\ fq'[Len(fq) + 1].op = "data" /\ fq'[Len(fq) + 1].k = received
    BY <1>4 DEF IInv, TypeOK, DataOp
  <2>2. \A i \in 1 .. Len(fq') : i \in 1 .. Len(fq) \/ i = Len(fq) + 1
    BY <2>1
  <2>3. fq # <<>> => Len(fq) > 0 /\ fq'[1] = fq[1]
    BY <2>1 DEF IInv, TypeOK
  <2>4. fq = <<>> => Len(fq) = 0
    OBVIOUS
  <2>5. IdleInv'
    BY <1>1, <2>1 DEF IInv, SafetyInv, IdleInv
  <2>6. HeadIs(SaveKinds)' = HeadIs(SaveKinds) /\ HeadIs({"sstore"})' = HeadIs({"sstore"})
        /\ HeadIs({"serase"})' = HeadIs({"serase"})
    BY <2>1, <2>3, <2>4 DEF HeadIs, SaveKinds
  <2>7. QueueOrder'
    <3>1. \A i \in 1 .. Len(fq) :
            \/ fq'[i].op = "data"
            \/ i = 1 /\ fq'[i].op \in SaveKinds
            \/ i = 2 /\ fq'[i].op = "sstore" /\ fq'[1].op = "serase"
      BY <1>1, <2>1, <2>3, <2>4 DEF IInv, SafetyInv, QueueOrder
    <3>2. HeadIs({"serase"})' => Len(fq') >= 2 /\ fq'[2].op = "sstore"
      BY <1>1, <2>1, <2>6 DEF IInv, SafetyInv, QueueOrder
    <3>3. \A i \in 1 .. Len(cache') : cache'[i].op = "data"
      BY <1>1, <1>4 DEF IInv, SafetyInv, QueueOrder
    <3> QED
      BY <2>1, <2>2, <3>1, <3>2, <3>3 DEF QueueOrder
  <2>8. RecordInv'
    BY <1>1, <2>6 DEF IInv, SafetyInv, RecordInv
  <2>9. PendingInv'
    <3>1. /\ \A i \in 1 .. Len(fq) : fq[i].op = "data" =>
               fq[i].k \in 0 .. received - 1 /\ (flash[fq[i].k] = Erased \/ (i = 1 /\ prog > 0))
          /\ \A i, j \in 1 .. Len(fq) :
               i < j /\ fq[i].op = "data" /\ fq[j].op = "data" => fq[i].k < fq[j].k
          /\ \A k \in received .. imageSize - 1 : flash[k] = Erased
      BY <1>1, <1>4 DEF IInv, SafetyInv, PendingInv
    <3>2. received \in Nat /\ imageSize \in Nat /\ received \in received .. imageSize - 1
      BY <1>4 DEF IInv, TypeOK
    <3>3. \A i \in 1 .. Len(fq') : fq'[i].op = "data" =>
            fq'[i].k \in 0 .. received' - 1 /\ (flash[fq'[i].k] = Erased \/ (i = 1 /\ prog > 0))
      <4>1. \A i \in 1 .. Len(fq) : fq'[i].op = "data" =>
              fq'[i].k \in 0 .. received /\ (flash[fq'[i].k] = Erased \/ (i = 1 /\ prog > 0))
        BY <2>1, <3>1, <3>2
      <4>2. fq'[Len(fq) + 1].k \in 0 .. received /\ flash[fq'[Len(fq) + 1].k] = Erased
        BY <2>1, <3>1, <3>2
      <4> QED
        BY <1>4, <2>2, <3>2, <4>1, <4>2
    <3>4. \A i, j \in 1 .. Len(fq') :
            i < j /\ fq'[i].op = "data" /\ fq'[j].op = "data" => fq'[i].k < fq'[j].k
      <4> TAKE i, j \in 1 .. Len(fq')
      <4>1. i < j => i \in 1 .. Len(fq)
        BY <2>1
      <4>2. CASE j \in 1 .. Len(fq)
        BY <2>1, <3>1, <4>1, <4>2
      <4>3. CASE j = Len(fq) + 1
        <5>1. i < j /\ fq'[i].op = "data" => fq'[i].k \in 0 .. received - 1
          BY <2>1, <3>1, <4>1
        <5> QED
          BY <2>1, <3>2, <4>3, <5>1
      <4> QED
        BY <2>2, <4>2, <4>3
    <3>5. \A k \in received' .. imageSize - 1 : flash[k] = Erased
      BY <1>4, <3>1, <3>2
    <3> QED
      BY <1>1, <3>3, <3>4, <3>5 DEF PendingInv
  <2> QED
    BY <1>2, <2>5, <2>7, <2>8, <2>9 DEF SafetyInv
<1>5. CASE ~ota /\ SerialWrite(v)
  <2>1. fq = <<>> /\ prog = 0
    BY <1>1, <1>5 DEF IInv, SafetyInv, IdleInv
  <2>2. AllData(fq) /\ AllData(cache)
    BY <1>1, <2>1 DEF IInv, SafetyInv, QueueOrder, AllData
  <2>3. AllData(fq') /\ AllData(cache') /\ fq' \in Seq(Operation)
    BY <1>5, <2>2, SerialWriteData, SerialWriteTypes DEF IInv
  <2>4. ~HeadIs(SaveKinds)' /\ ~HeadIs({"sstore"})' /\ ~HeadIs({"serase"})'
    BY <2>3 DEF HeadIs, AllData, SaveKinds
  <2>5. stg.b0 = "INVALID" /\ sbuf.b0 = "INVALID" /\ sbuf.b1 # "VALID_BOOT"
    BY <1>1, <2>1 DEF IInv, SafetyInv, RecordInv, HeadIs
  <2>6. IdleInv' /\ PendingInv'
    BY <1>1, <1>5, <2>1 DEF IInv, SafetyInv, IdleInv, PendingInv
  <2>7. QueueOrder' /\ RecordInv'
    BY <1>1, <2>3, <2>4, <2>5 DEF QueueOrder, RecordInv, AllData
  <2> QED
    BY <1>2, <2>6, <2>7 DEF SafetyInv
<1> QED
  <2>1. received \in Nat /\ imageSize \in Nat /\ overrun \in BOOLEAN
    BY DEF IInv, TypeOK
  <2>2. CASE received + 1 > imageSize
    <3>1. overrun' = TRUE /\ UNCHANGED <<fq, cache>>
      BY <2>2, Zenon DEF HostData
    <3> QED
      BY <1>3, <3>1
  <2>3. CASE received + 1 <= imageSize
    <3>1. ~(received + 1 > imageSize)
      BY <2>1, <2>3
    <3>2. /\ overrun' = overrun
          /\ \/ overrun /\ UNCHANGED <<received, fq, cache>>
             \/ /\ ota /\ ~overrun /\ fq' = Append(fq, DataOp(received, v))
                /\ received' = received + 1 /\ cache' = cache
             \/ ~ota /\ SerialWrite(v)
      BY <3>1, Zenon DEF HostData, StoreRejected
    <3>3. ~overrun => ~overrun'
      BY <3>2
    <3> QED
      BY <1>3, <1>4, <1>5, <2>3, <3>2, <3>3
  <2> QED
    BY <2>1, <2>2, <2>3

\* The CRC is compared with the flash, yet nothing that is still queued can
\* belong to the image: its chunk would be erased, and no image has such a chunk.
LEMMA ValidateSafety ==
  ASSUME IInv, HostReady, st' = Validated, Validated # st,
         UNCHANGED <<flash, stg, mode, ota, imageSize, received, overrun, init, opVars>>
  PROVE  SafetyInv'
<1>1. /\ st = "RX_DATA_PKT" /\ AllReceived /\ mode = "dfu" /\ st \in Receiving
      /\ imageSize \in 1 .. BankChunks /\ (ota \/ fq = <<>>)
      /\ init \in Images
  BY DEF Validated, HostReady, MainReady, Receiving, IInv, SizeInv, SafetyInv, ValidatedInv
<1>2. CASE st' = "VALIDATE"
  BY <1>1, <1>2, ReceivingSafety DEF Receiving
<1>3. CASE st' = "WAIT_4_ACTIVATE"
  <2>1. Len(init) = imageSize /\ Holds(init)
    BY <1>1, <1>3 DEF Validated, CrcMatches
  <2>2. \A k \in 0 .. imageSize - 1 : flash[k] # Erased
    <3> TAKE k \in 0 .. imageSize - 1
    <3>1. flash[k] = init[k + 1]
      BY <1>1, <2>1 DEF Holds
    <3>2. init \in Seq(Word) /\ k + 1 \in 1 .. Len(init)
      BY <1>1, <2>1, ContentAssumption
    <3>3. init[k + 1] \in Word
      BY <3>2
    <3> QED
      BY <3>1, <3>3, ContentAssumption
  <2>3. \A i \in 1 .. Len(fq) :
          fq[i].op \in SaveKinds \/ (fq[i].op = "data" /\ i = 1 /\ prog > 0)
    <3>1. CASE fq = <<>>
      BY <3>1
    <3>2. CASE ota
      <4> TAKE i \in 1 .. Len(fq)
      <4>1. fq[i].op \in SaveKinds \/ fq[i].op = "data"
        BY <1>1 DEF IInv, SafetyInv, QueueOrder, SaveKinds
      <4>2. fq[i].op = "data" =>
              fq[i].k \in 0 .. imageSize - 1 /\ (flash[fq[i].k] = Erased \/ (i = 1 /\ prog > 0))
        BY <1>1, <3>2 DEF AllReceived, IInv, SafetyInv, PendingInv
      <4> QED
        BY <2>2, <4>1, <4>2
    <3> QED
      BY <1>1, <3>1, <3>2
  <2>4. IdleInv' /\ PreparingInv' /\ QueueOrder' /\ RecordInv' /\ PendingInv' /\ FinalizeInv'
    BY <1>1, <1>3
    DEF IInv, SafetyInv, IdleInv, PreparingInv, QueueOrder, RecordInv, PendingInv,
        FinalizeInv, Receiving, opVars
  <2>5. ValidatedInv'
    BY <1>1, <1>3, <2>1, <2>3 DEF ValidatedInv, Holds, opVars
  <2>6. ClaimInv'
    BY <1>1, <1>3 DEF IInv, SafetyInv, ClaimInv, SdInProgress, Whole, Holds
  <2> QED
    BY <2>4, <2>5, <2>6 DEF SafetyInv
<1> QED
  BY <1>1, <1>2, <1>3 DEF Validated

LEMMA HostValidateSafety == ASSUME IInv, HostValidate PROVE SafetyInv'
<1>1. CASE Validated # st
  BY <1>1, ValidateSafety DEF HostValidate, nonVolatile
<1>2. CASE Validated = st
  BY <1>2, QuietSafety DEF HostValidate, nonVolatile
<1> QED
  BY <1>1, <1>2

\* The settings of a validated image: two more operations behind the others.
LEMMA ActivateSafety ==
  ASSUME IInv, ImageActivate,
         UNCHANGED <<flash, stg, mode, ota, imageSize, received, overrun, init, prog, cache>>,
         mode = "dfu", st' = "WAIT_4_ACTIVATE", init \in Images, imageSize > 0,
         Len(init) = imageSize, Holds(init), fq = <<>> => prog = 0,
         \A i \in 1 .. Len(fq) :
           fq[i].op \in SaveKinds \/ (fq[i].op = "data" /\ i = 1 /\ prog > 0)
  PROVE  SafetyInv'
<1>1. fq' = fq \o SaveOps /\ Whole
  BY DEF ImageActivate, Whole
<1>2. /\ Len(fq') = Len(fq) + 2 /\ fq' # <<>> /\ Len(fq) \in Nat
      /\ \A i \in 1 .. Len(fq) : fq'[i] = fq[i]
      /\ fq'[Len(fq) + 1] = SettingsErase /\ fq'[Len(fq) + 2] = SettingsStore
  <2>1. /\ fq \in Seq(Operation) /\ SaveOps \in Seq(Operation) /\ Len(SaveOps) = 2
        /\ SaveOps[1] = SettingsErase /\ SaveOps[2] = SettingsStore
    BY OperationTypes DEF IInv, TypeOK, SaveOps
  <2>2. ASSUME NEW q \in Seq(Operation), NEW r \in Seq(Operation), Len(r) = 2
        PROVE  /\ Len(q \o r) = Len(q) + 2 /\ Len(q) \in Nat
               /\ \A i \in 1 .. Len(q) : (q \o r)[i] = q[i]
               /\ (q \o r)[Len(q) + 1] = r[1] /\ (q \o r)[Len(q) + 2] = r[2]
    <3>1. Len(q) \in Nat /\ q \o r \in Seq(Operation)
      BY <2>2
    <3>2. Len(q \o r) = Len(q) + Len(r)
      BY <2>2, ConcatProperties, Zenon
    <3>3. \A i \in 1 .. Len(q) + Len(r) :
            (q \o r)[i] = IF i <= Len(q) THEN q[i] ELSE r[i - Len(q)]
      BY <2>2, ConcatProperties, Zenon
    <3>4. \A i \in 1 .. Len(q) : (q \o r)[i] = q[i]
      BY <2>2, <3>1, <3>3
    <3>5. (q \o r)[Len(q) + 1] = r[1] /\ (q \o r)[Len(q) + 2] = r[2]
      <4>1. Len(q) + 1 \in 1 .. Len(q) + Len(r) /\ Len(q) + 2 \in 1 .. Len(q) + Len(r)
        BY <2>2, <3>1
      <4>2. /\ (q \o r)[Len(q) + 1] = r[(Len(q) + 1) - Len(q)]
            /\ (q \o r)[Len(q) + 2] = r[(Len(q) + 2) - Len(q)]
        <5>1. ~(Len(q) + 1 <= Len(q)) /\ ~(Len(q) + 2 <= Len(q))
          BY <3>1
        <5> QED
          BY <3>3, <4>1, <5>1, Zenon
      <4>3. (Len(q) + 1) - Len(q) = 1 /\ (Len(q) + 2) - Len(q) = 2
        BY <3>1
      <4> QED
        BY <4>2, <4>3, Zenon
    <3> QED
      BY <2>2, <3>1, <3>2, <3>4, <3>5
  <2>3. fq' # <<>>
    <3>1. fq' = <<>> => Len(fq') = 0
      BY EmptySeq, Zenon
    <3> QED
      BY <1>1, <2>1, <2>2, <3>1
  <2> QED
    BY <1>1, <2>1, <2>2, <2>3
<1>3. \A i \in 1 .. Len(fq') :
        fq'[i].op \in SaveKinds \/ (fq'[i].op = "data" /\ i = 1 /\ prog > 0)
  <2>1. \A i \in 1 .. Len(fq') : i \in 1 .. Len(fq) \/ i = Len(fq) + 1 \/ i = Len(fq) + 2
    BY <1>2
  <2>2. SettingsErase.op \in SaveKinds /\ SettingsStore.op \in SaveKinds
    BY DEF SettingsErase, SettingsStore, SaveKinds
  <2> QED
    BY <1>2, <2>1, <2>2
<1>4. ValidatedInv'
  BY <1>3 DEF ValidatedInv, Holds
<1>5. IdleInv' /\ PreparingInv' /\ QueueOrder' /\ RecordInv' /\ PendingInv' /\ FinalizeInv'
  BY <1>2
  DEF IInv, SafetyInv, IdleInv, PreparingInv, QueueOrder, RecordInv, PendingInv,
      FinalizeInv, Receiving
<1>6. ClaimInv'
  BY <1>1 DEF IInv, SafetyInv, ClaimInv, SdInProgress, Whole, Holds
<1> QED
  BY <1>4, <1>5, <1>6 DEF SafetyInv

LEMMA HostActivateSafety == ASSUME IInv, HostActivate PROVE SafetyInv'
<1>1. CASE Closing
  BY <1>1, RamClearedSafety DEF HostActivate, Reboot
<1>2. CASE ~Closing /\ st = "WAIT_4_ACTIVATE"
  <2>1. /\ ImageActivate /\ mode = "dfu"
        /\ UNCHANGED <<flash, stg, mode, ota, st, imageSize, received, overrun, init,
                       prog, cache>>
    BY <1>2 DEF HostActivate, HostReady, MainReady, nonVolatile, dfuVars
  <2>2. fq = <<>> => prog = 0
    BY DEF IInv, SafetyInv, IdleInv
  <2>3. \A i \in 1 .. Len(fq) :
          fq[i].op \in SaveKinds \/ (fq[i].op = "data" /\ i = 1 /\ prog > 0)
    BY <1>2 DEF IInv, SafetyInv, ValidatedInv
  <2>4. init \in Images /\ Len(init) = imageSize /\ Holds(init) /\ imageSize > 0
    BY <1>2, ValidatedIsWhole
  <2>5. st' = "WAIT_4_ACTIVATE"
    BY <1>2, <2>1
  <2> QED
    BY <2>1, <2>2, <2>3, <2>4, <2>5, ActivateSafety
<1>3. CASE ~Closing /\ st # "WAIT_4_ACTIVATE"
  BY <1>3, QuietSafety DEF HostActivate, DfuReset, nonVolatile, dfuVars, opVars
<1> QED
  BY <1>1, <1>2, <1>3

\* Serial: validation and activation in one step, with an empty queue.
LEMMA HostStopSafety == ASSUME IInv, HostStop PROVE SafetyInv'
<1>1. /\ fq = <<>> /\ mode = "dfu" /\ st' = Validated
      /\ UNCHANGED <<flash, stg, mode, ota, imageSize, received, overrun, init, prog, cache>>
  BY DEF HostStop, HostReady, MainReady, nonVolatile
<1>2. CASE st' = "WAIT_4_ACTIVATE"
  <2>1. ImageActivate
    BY <1>2 DEF HostStop
  <2>2. init \in Images /\ Len(init) = imageSize /\ Holds(init) /\ imageSize > 0
    <3>1. CASE st = "WAIT_4_ACTIVATE"
      BY <3>1, ValidatedIsWhole
    <3>2. CASE st # "WAIT_4_ACTIVATE"
      <4>1. st = "RX_DATA_PKT" /\ CrcMatches
        BY <1>1, <1>2, <3>2 DEF Validated
      <4>2. imageSize > 0
        BY <4>1, SizesAssumption DEF IInv, SizeInv
      <4> QED
        BY <4>1, <4>2 DEF CrcMatches, IInv, SafetyInv, ValidatedInv
    <3> QED
      BY <3>1, <3>2
  <2>3. prog = 0
    BY <1>1 DEF IInv, SafetyInv, IdleInv
  <2>4. \A i \in 1 .. Len(fq) :
          fq[i].op \in SaveKinds \/ (fq[i].op = "data" /\ i = 1 /\ prog > 0)
    BY <1>1
  <2> QED
    BY <1>1, <1>2, <2>1, <2>2, <2>3, <2>4, ActivateSafety
<1>3. CASE st' # "WAIT_4_ACTIVATE"
  <2>1. UNCHANGED opVars
    BY <1>1, <1>3 DEF HostStop, opVars
  <2>2. CASE Validated = st
    BY <1>1, <2>1, <2>2, QuietSafety
  <2>3. CASE Validated # st
    BY <1>1, <2>1, <2>3, ValidateSafety DEF HostStop
  <2> QED
    BY <2>2, <2>3
<1> QED
  BY <1>2, <1>3

LEMMA HostSafety == ASSUME IInv, SafeInputs, Host PROVE SafetyInv'
<1>1. CASE HostReset
  <2>1. CASE Closing
    BY <1>1, <2>1, RamClearedSafety DEF HostReset, Reboot
  <2>2. CASE ~Closing
    BY <1>1, <2>2, QuietSafety
    DEF HostReset, DfuReset, nonVolatile, dfuVars, opVars
  <2> QED
    BY <2>1, <2>2
<1>2. CASE HostInitComplete
  BY <1>2, InitPktSafety
<1>3. CASE \E d \in Images \cup {BadInit} : HostInitBle(d) \/ HostInitSerial(d)
  BY <1>3, InitPktSafety
<1> QED
  BY <1>1, <1>2, <1>3, HostStartSafety, HostDataSafety, HostValidateSafety,
     HostActivateSafety, HostStopSafety
  DEF Host

\* The image of a debug probe is whole.
LEMMA EnvironmentSafety == ASSUME IInv, Environment PROVE SafetyInv'
<1>1. CASE PowerLoss
  BY <1>1, RamClearedSafety DEF PowerLoss, Reboot
<1>2. ASSUME NEW s \in SwdImages, SwdProgram(s) PROVE SafetyInv'
  <2>1. /\ mode = "off" /\ st = "IDLE" /\ UNCHANGED <<mode, ota, dfuVars, opVars>>
        /\ flash' = [k \in Cells |-> IF k \in 0 .. Len(s) - 1 THEN s[k + 1] ELSE flash[k]]
    BY <1>2 DEF SwdProgram, IInv, SizeInv
  <2>2. s \in Images \cup SwdImages /\ Len(s) \in 1 .. BankChunks
    BY ContentAssumption
  <2>3. \A k \in 0 .. Len(s) - 1 : k \in Chunks /\ k \in Cells
    BY <2>2, SizesAssumption DEF Chunks, Cells
  <2>4. Whole'
    BY <2>1, <2>2, <2>3, SizesAssumption DEF Whole, Holds
  <2>5. ClaimInv'
    BY <2>1, <2>4 DEF ClaimInv
  <2>6. IdleInv' /\ PreparingInv' /\ QueueOrder' /\ RecordInv' /\ PendingInv'
        /\ ValidatedInv' /\ FinalizeInv'
    BY <2>1
    DEF IInv, SafetyInv, IdleInv, PreparingInv, QueueOrder, RecordInv, PendingInv,
        ValidatedInv, FinalizeInv, Receiving, dfuVars, opVars
  <2> QED
    BY <2>5, <2>6 DEF SafetyInv
<1> QED
  BY <1>1, <1>2 DEF Environment

LEMMA NextSafety == ASSUME IInv, SafeInputs, [Next]_vars PROVE IInv'
<1>1. TypeOK' /\ SizeInv'
  BY NextTypes DEF IInv
<1>2. ASSUME Timer PROVE SafetyInv'
  BY <1>2, QuietSafety
  DEF Timer, TimerExpires, TimeoutHandler, StartupTimeout, nonVolatile, dfuVars
<1>3. ASSUME WaitForEventsReturns PROVE SafetyInv'
  BY <1>3, RamClearedSafety DEF WaitForEventsReturns, Leave, Reboot
<1>4. ASSUME UNCHANGED vars PROVE SafetyInv'
  BY <1>4, QuietSafety DEF vars, dfuVars
<1>5. SafetyInv'
  BY <1>2, <1>3, <1>4, BootSafety, FlashStepSafety, OpDoneSafety, HostSafety,
     EnvironmentSafety
  DEF Next, Flash
<1> QED
  BY <1>1, <1>5 DEF IInv

\* The invariant holds in every reachable state.
THEOREM InvariantHolds == ASSUME SafeInputs PROVE Spec => []IInv
<1>1. Init => IInv
  BY InitSafety
<1>2. IInv /\ [Next]_vars => IInv'
  BY NextSafety
<1> QED
  BY <1>1, <1>2, PTL DEF Spec

-----------------------------------------------------------------------------
(* An activation ends with the settings as they were meant to be.          *)

\* What is queued ends with the one store of the settings, ...
StoreIsLast ==
  /\ fq # <<>> /\ fq[Len(fq)].op = "sstore"
  /\ \A i \in 1 .. Len(fq) - 1 : fq[i].op # "sstore"
\* ... which has written this much of the record.
StoredSoFar == /\ prog > 0 => stg.b0 = sbuf.b0
               /\ prog > 1 => stg.b1 = sbuf.b1
               /\ prog > 2 => stg.img = sbuf.img

\* In DFU mode only an activation saves the settings of an update; it finds
\* nothing but data ahead of its operations, and is not repeated over the air.
SavingInv ==
  mode = "dfu" =>
    /\ status \in {"SETTINGS_SAVING", "COMPLETE"} => st = "WAIT_4_ACTIVATE"
    /\ st = "WAIT_4_ACTIVATE" /\ status = "UPDATING" => AllData(fq)
    /\ status = "SETTINGS_SAVING" => StoreIsLast /\ (Len(fq) = 1 => StoredSoFar)
    /\ status = "COMPLETE" => fq = <<>> /\ stg = sbuf

\* A step that leaves the queue and the record alone and saves nothing.
LEMMA QuietSaving ==
  ASSUME SavingInv, UNCHANGED <<stg, mode, fq, prog, sbuf>>,
         st' = st \/ (st # "WAIT_4_ACTIVATE" /\ st' # "WAIT_4_ACTIVATE"),
         status' = status \/ status' \in {"TIMEOUT", "SYS_RESET", "RESET_TO_SELF"}
  PROVE  SavingInv'
  BY DEF SavingInv, StoreIsLast, StoredSoFar, AllData

\* Before the image is validated nothing is saved.
LEMMA EarlySaving ==
  ASSUME SavingInv, mode' = mode, st # "WAIT_4_ACTIVATE", st' # "WAIT_4_ACTIVATE",
         status' = status
  PROVE  SavingInv'
  BY DEF SavingInv

LEMMA BootSaving == ASSUME IInv, SavingInv, Boot PROVE SavingInv'
<1>1. CASE Start \/ FinalizeDone
  BY <1>1 DEF Start, FinalizeDone, SavingInv
<1>2. CASE MbrFault
  BY <1>2, QuietSaving DEF MbrFault, vars, dfuVars, opVars, nonVolatile
<1>3. ASSUME NEW wanted, NEW link \in Links, CheckDfuMode(wanted, link)
      PROVE  SavingInv'
  <2>1. CASE status = "UPDATING" /\ (wanted = "yes" \/ (wanted = "no" /\ ~AppIsValid))
    <3>1. status' = "UPDATING" /\ st' = "IDLE"
      BY <1>3, <2>1 DEF CheckDfuMode, dfuVars, IInv, SizeInv
    <3> QED
      BY <3>1 DEF SavingInv
  <2>2. CASE ~(status = "UPDATING" /\ (wanted = "yes" \/ (wanted = "no" /\ ~AppIsValid)))
    BY <1>3, <2>2 DEF CheckDfuMode, Leave, Reboot, SavingInv
  <2> QED
    BY <2>1, <2>2
<1> QED
  BY <1>1, <1>2, <1>3 DEF Boot

\* The store writes the three words of the record one after the other.
LEMMA FlashStepSaving == ASSUME IInv, SavingInv, FlashStep PROVE SavingInv'
<1>1. /\ fq # <<>> /\ Head(fq) = fq[1] /\ prog \in Nat /\ prog' = prog + 1
      /\ UNCHANGED <<mode, status, st, fq, sbuf>>
  BY DEF FlashStep, IInv, TypeOK, dfuVars
<1>2. CASE status = "SETTINGS_SAVING" /\ mode = "dfu"
  <2>1. st = "WAIT_4_ACTIVATE" /\ StoreIsLast
    BY <1>2 DEF SavingInv
  <2>2. StoreIsLast'
    BY <1>1, <2>1 DEF StoreIsLast
  <2>3. ASSUME Len(fq) = 1 PROVE StoredSoFar'
    <3>1. Head(fq).op = "sstore"
      BY <1>1, <2>1, <2>3 DEF StoreIsLast
    <3>2. stg' = WordWritten(stg, sbuf, prog)
      BY <3>1 DEF FlashStep
    <3>3. /\ stg'.b0 = IF prog = 0 THEN sbuf.b0 ELSE stg.b0
          /\ stg'.b1 = IF prog = 1 THEN sbuf.b1 ELSE stg.b1
          /\ stg'.img = IF prog = 2 THEN sbuf.img ELSE stg.img
      BY <3>2 DEF WordWritten
    <3>4. StoredSoFar
      BY <1>2, <2>3 DEF SavingInv
    <3> QED
      BY <1>1, <3>3, <3>4 DEF StoredSoFar
  <2> QED
    BY <1>1, <1>2, <2>1, <2>2, <2>3 DEF SavingInv
<1>3. CASE ~(status = "SETTINGS_SAVING" /\ mode = "dfu")
  BY <1>1, <1>3 DEF SavingInv, AllData
<1> QED
  BY <1>2, <1>3

\* The last operation to complete is the store, and all of it is written.
LEMMA OpDoneSaving == ASSUME IInv, SavingInv, OpDone PROVE SavingInv'
<1>1. /\ fq # <<>> /\ Head(fq) = fq[1] /\ prog = Steps(fq[1]) /\ prog' = 0
      /\ mode' = mode /\ stg' = stg
      /\ status' = IF SettingsSaved(fq[1]) THEN "COMPLETE" ELSE status
  BY TailFacts DEF OpDone, IInv, nonVolatile
<1>2. CASE mode = "dfu" /\ st = "WAIT_4_ACTIVATE"
  <2>1. fq' = Tail(fq) /\ UNCHANGED <<sbuf, st>>
    BY <1>2 DEF OpDone
  <2>2. /\ Len(fq') = Len(fq) - 1 /\ Len(fq) \in Nat \ {0}
        /\ \A i \in 1 .. Len(fq') : i + 1 \in 1 .. Len(fq) /\ fq'[i] = fq[i + 1]
        /\ (fq' # <<>> <=> Len(fq) > 1)
    BY <1>1, <2>1, TailFacts DEF IInv
  <2>3. CASE status = "UPDATING"
    <3>1. AllData(fq')
      BY <1>2, <2>2, <2>3 DEF SavingInv, AllData
    <3>2. status' = "UPDATING"
      BY <1>1, <2>3 DEF SettingsSaved
    <3> QED
      BY <1>2, <2>1, <3>1, <3>2 DEF SavingInv
  <2>4. CASE status = "SETTINGS_SAVING"
    <3>1. StoreIsLast /\ (Len(fq) = 1 => StoredSoFar)
      BY <1>2, <2>4 DEF SavingInv
    <3>2. CASE Len(fq) = 1
      <4>1. fq[1].op = "sstore" /\ prog = 3
        BY <1>1, <3>1, <3>2 DEF StoreIsLast, Steps, SettingsWords
      <4>2. stg.b0 = sbuf.b0 /\ stg.b1 = sbuf.b1 /\ stg.img = sbuf.img
        BY <3>1, <3>2, <4>1 DEF StoredSoFar
      <4>3. stg = sbuf
        BY <4>2 DEF IInv, TypeOK, Settings
      <4>4. status' = "COMPLETE" /\ fq' = <<>>
        BY <1>1, <2>2, <2>4, <3>2, <4>1 DEF SettingsSaved
      <4> QED
        BY <1>1, <1>2, <2>1, <4>3, <4>4 DEF SavingInv
    <3>3. CASE Len(fq) # 1
      <4>1. Len(fq) > 1 /\ fq' # <<>> /\ Len(fq') >= 1
        BY <2>2, <3>3
      <4>2. fq[1].op # "sstore"
        BY <3>1, <4>1 DEF StoreIsLast
      <4>3. status' = "SETTINGS_SAVING"
        BY <1>1, <2>4, <4>2 DEF SettingsSaved
      <4>4. StoreIsLast'
        <5>1. fq'[Len(fq')] = fq[Len(fq)]
          <6>1. Len(fq') \in 1 .. Len(fq') /\ Len(fq') + 1 = Len(fq)
            BY <2>2, <4>1
          <6> QED
            BY <2>2, <6>1
        <5>2. \A i \in 1 .. Len(fq') - 1 : i + 1 \in 1 .. Len(fq) - 1 /\ fq'[i] = fq[i + 1]
          BY <2>2
        <5> QED
          BY <3>1, <4>1, <5>1, <5>2 DEF StoreIsLast
      <4> QED
        BY <1>1, <1>2, <2>1, <4>3, <4>4 DEF SavingInv, StoredSoFar
    <3> QED
      BY <3>2, <3>3
  <2>5. CASE status \notin {"UPDATING", "SETTINGS_SAVING"}
    <3>1. status # "COMPLETE"
      BY <1>1, <1>2 DEF SavingInv
    <3>2. status' = status
      BY <1>1, <2>5 DEF SettingsSaved
    <3> QED
      BY <1>2, <2>1, <2>5, <3>1, <3>2 DEF SavingInv
  <2> QED
    BY <2>3, <2>4, <2>5
<1>3. CASE mode = "dfu" /\ st # "WAIT_4_ACTIVATE"
  <2>1. status # "SETTINGS_SAVING" /\ st' # "WAIT_4_ACTIVATE"
    BY <1>3 DEF SavingInv, OpDone
  <2> QED
    BY <1>1, <1>3, <2>1, EarlySaving DEF SettingsSaved
<1>4. CASE mode # "dfu"
  BY <1>1, <1>4 DEF SavingInv
<1> QED
  BY <1>2, <1>3, <1>4

\* An activation puts the two operations of a save behind data, or behind nothing.
LEMMA ActivateSaving ==
  ASSUME IInv, ImageActivate, AllData(fq), st' = "WAIT_4_ACTIVATE"
  PROVE  SavingInv'
<1>1. /\ fq' = fq \o SaveOps /\ status' = "SETTINGS_SAVING"
      /\ fq \in Seq(Operation) /\ SaveOps \in Seq(Operation)
      /\ Len(SaveOps) = 2 /\ SaveOps[1] = SettingsErase /\ SaveOps[2] = SettingsStore
  BY OperationTypes DEF ImageActivate, IInv, TypeOK, SaveOps
<1>2. Len(fq') = Len(fq) + 2 /\ Len(fq) \in Nat
  <2>1. Len(fq') = Len(fq) + Len(SaveOps)
    BY <1>1, ConcatProperties, Zenon
  <2>2. Len(fq) \in Nat
    BY <1>1
  <2> QED
    BY <1>1, <2>1, <2>2
<1>3. \A i \in 1 .. Len(fq) + Len(SaveOps) :
        fq'[i] = IF i <= Len(fq) THEN fq[i] ELSE SaveOps[i - Len(fq)]
  BY <1>1, ConcatProperties, Zenon
<1>4. fq'[Len(fq')] = SettingsStore
  <2>1. /\ Len(fq') \in 1 .. Len(fq) + Len(SaveOps) /\ ~(Len(fq') <= Len(fq))
        /\ Len(fq') - Len(fq) = 2
    BY <1>1, <1>2
  <2>2. fq'[Len(fq')] = SaveOps[Len(fq') - Len(fq)]
    BY <1>3, <2>1, Zenon
  <2> QED
    BY <1>1, <2>1, <2>2, Zenon
<1>5. ASSUME NEW i \in 1 .. Len(fq') - 1 PROVE fq'[i].op # "sstore"
  <2>1. i \in 1 .. Len(fq) + Len(SaveOps) /\ (i <= Len(fq) \/ i - Len(fq) = 1)
        /\ (~(i <= Len(fq)) => i - Len(fq) = 1) /\ (i <= Len(fq) => i \in 1 .. Len(fq))
    BY <1>1, <1>2
  <2>2. CASE i <= Len(fq)
    <3>1. fq'[i] = fq[i]
      BY <1>3, <2>1, <2>2, Zenon
    <3> QED
      BY <2>1, <2>2, <3>1 DEF AllData
  <2>3. CASE ~(i <= Len(fq))
    <3>1. fq'[i] = SaveOps[i - Len(fq)]
      BY <1>3, <2>1, <2>3, Zenon
    <3>2. fq'[i] = SettingsErase
      BY <1>1, <2>1, <2>3, <3>1, Zenon
    <3> QED
      BY <3>2 DEF SettingsErase
  <2> QED
    BY <2>2, <2>3
<1>6. fq' # <<>>
  <2>1. fq' = <<>> => Len(fq') = 0
    BY EmptySeq, Zenon
  <2> QED
    BY <1>2, <2>1
<1>7. StoreIsLast' /\ Len(fq') # 1
  BY <1>2, <1>4, <1>5, <1>6 DEF StoreIsLast, SettingsStore
<1> QED
  BY <1>1, <1>7 DEF SavingInv

\* A second activation finds the link being closed.
LEMMA HostActivateSaving == ASSUME IInv, SavingInv, HostActivate PROVE SavingInv'
<1>1. CASE Closing
  BY <1>1 DEF HostActivate, Reboot, SavingInv
<1>2. CASE ~Closing /\ st = "WAIT_4_ACTIVATE"
  <2>1. ImageActivate /\ st' = "WAIT_4_ACTIVATE" /\ mode = "dfu" /\ status = "UPDATING"
    BY <1>2 DEF HostActivate, HostReady, MainReady, dfuVars, Closing
  <2>2. AllData(fq)
    BY <1>2, <2>1 DEF SavingInv
  <2> QED
    BY <2>1, <2>2, ActivateSaving
<1>3. CASE ~Closing /\ st # "WAIT_4_ACTIVATE"
  BY <1>3, QuietSaving DEF HostActivate, DfuReset, nonVolatile, dfuVars
<1> QED
  BY <1>1, <1>2, <1>3

\* The CRC of the bank matches only when no settings operation is pending: the
\* bank would have no first chunk.
LEMMA ValidatedQueue ==
  ASSUME IInv, HostReady, st = "RX_DATA_PKT", Validated = "WAIT_4_ACTIVATE"
  PROVE  AllData(fq)
<1>1. AllReceived /\ CrcMatches /\ init \in Images /\ st \in Receiving
      /\ imageSize \in 1 .. BankChunks
  BY DEF Validated, IInv, SizeInv, SafetyInv, ValidatedInv, Receiving
<1>2. flash[0] # Erased
  <2>1. init \in Seq(Word) /\ Len(init) = imageSize /\ flash[0] = init[0 + 1]
    BY <1>1, ContentAssumption DEF CrcMatches, Holds
  <2>2. init[1] \in Word
    BY <1>1, <2>1
  <2> QED
    BY <2>1, <2>2, ContentAssumption
<1>3. ~HeadIs(SaveKinds)
  BY <1>1, <1>2 DEF IInv, SafetyInv, RecordInv
<1>4. ASSUME NEW i \in 1 .. Len(fq) PROVE fq[i].op = "data"
  <2>1. fq # <<>> /\ 1 \in 1 .. Len(fq)
    BY DEF IInv, TypeOK
  <2>2. fq[1].op \notin SaveKinds
    BY <1>3, <2>1 DEF HeadIs
  <2> QED
    BY <1>1, <2>2 DEF IInv, SafetyInv, QueueOrder, SaveKinds
<1> QED
  BY <1>4 DEF AllData

\* Before the activation an image is being received, or nothing is.
LEMMA ValidateSaving ==
  ASSUME IInv, SavingInv, HostReady, st' = Validated, Validated # st,
         UNCHANGED <<mode, status, fq>>
  PROVE  SavingInv'
<1>1. st = "RX_DATA_PKT" /\ st' \in {"VALIDATE", "WAIT_4_ACTIVATE"} /\ mode = "dfu"
  BY DEF Validated, HostReady, MainReady
<1>2. status \notin {"SETTINGS_SAVING", "COMPLETE"}
  BY <1>1 DEF SavingInv
<1>3. st' = "WAIT_4_ACTIVATE" => AllData(fq)
  BY <1>1, ValidatedQueue
<1> QED
  BY <1>2, <1>3 DEF SavingInv

LEMMA HostStopSaving == ASSUME IInv, SavingInv, HostStop PROVE SavingInv'
<1>1. fq = <<>> /\ mode = "dfu" /\ st' = Validated /\ HostReady
  BY DEF HostStop, HostReady, MainReady
<1>2. CASE st' = "WAIT_4_ACTIVATE"
  <2>1. ImageActivate /\ AllData(fq)
    BY <1>1, <1>2 DEF HostStop, AllData
  <2> QED
    BY <1>2, <2>1, ActivateSaving
<1>3. CASE st' # "WAIT_4_ACTIVATE"
  <2>1. UNCHANGED <<stg, mode, fq, prog, sbuf, status>>
    BY <1>1, <1>3 DEF HostStop, nonVolatile
  <2>2. CASE Validated = st
    BY <1>1, <2>1, <2>2, QuietSaving
  <2>3. CASE Validated # st
    BY <1>1, <2>1, <2>3, ValidateSaving
  <2> QED
    BY <2>2, <2>3
<1> QED
  BY <1>2, <1>3

LEMMA HostSaving == ASSUME IInv, SavingInv, SafeInputs, Host PROVE SavingInv'
<1>1. ASSUME NEW p \in StartPackets, HostStart(p) PROVE SavingInv'
  <2>1. CASE ~ota /\ ~StartAccepted(p)
    BY <1>1, <2>1 DEF HostStart, Reboot, SavingInv
  <2>2. CASE ota \/ StartAccepted(p)
    <3>1. st = "IDLE" /\ StartPktHandle(p) /\ UNCHANGED <<mode, status>>
      BY <1>1, <2>2 DEF HostStart, SafeInputs, StartAccepted
    <3>2. st' \in {"IDLE", "PREPARING"}
      BY <3>1 DEF StartPktHandle
    <3> QED
      BY <3>1, <3>2, EarlySaving
  <2> QED
    BY <2>1, <2>2
<1>2. ASSUME NEW d \in Images \cup {BadInit}, HostInitBle(d) \/ HostInitSerial(d)
      PROVE  SavingInv'
  <2>1. CASE HostInitBle(d)
    BY <2>1, EarlySaving DEF HostInitBle
  <2>2. CASE HostInitSerial(d) /\ st = "RDY" /\ d \in Images /\ ~timedOut
    BY <2>2, EarlySaving DEF HostInitSerial
  <2>3. CASE HostInitSerial(d) /\ ~(st = "RDY" /\ d \in Images /\ ~timedOut)
    BY <2>3 DEF HostInitSerial, Reboot, SavingInv
  <2> QED
    BY <1>2, <2>1, <2>2, <2>3
<1>3. ASSUME HostInitComplete PROVE SavingInv'
  BY <1>3, EarlySaving DEF HostInitComplete
<1>4. ASSUME NEW v \in Word, HostData(v) PROVE SavingInv'
  BY <1>4, EarlySaving DEF HostData
<1>5. ASSUME HostValidate PROVE SavingInv'
  <2>1. /\ HostReady /\ st' = Validated
        /\ UNCHANGED <<stg, mode, status, fq, prog, sbuf>>
    BY <1>5 DEF HostValidate, nonVolatile, opVars
  <2> QED
    BY <2>1, QuietSaving, ValidateSaving
<1>6. ASSUME HostReset PROVE SavingInv'
  <2>1. CASE Closing
    BY <1>6, <2>1 DEF HostReset, Reboot, SavingInv
  <2>2. CASE ~Closing
    BY <1>6, <2>2, QuietSaving DEF HostReset, DfuReset, nonVolatile, dfuVars
  <2> QED
    BY <2>1, <2>2
<1> QED
  BY <1>1, <1>2, <1>3, <1>4, <1>5, <1>6, HostActivateSaving, HostStopSaving DEF Host

LEMMA NextSaving == ASSUME IInv, SavingInv, SafeInputs, [Next]_vars PROVE SavingInv'
<1>1. ASSUME Timer PROVE SavingInv'
  BY <1>1, QuietSaving
  DEF Timer, TimerExpires, TimeoutHandler, StartupTimeout, nonVolatile, dfuVars, opVars
<1>2. ASSUME WaitForEventsReturns PROVE SavingInv'
  BY <1>2 DEF WaitForEventsReturns, Leave, Reboot, SavingInv
<1>3. ASSUME Environment PROVE SavingInv'
  BY <1>3 DEF Environment, PowerLoss, SwdProgram, Reboot, SavingInv
<1>4. ASSUME UNCHANGED vars PROVE SavingInv'
  BY <1>4, QuietSaving DEF vars, dfuVars, opVars, nonVolatile
<1> QED
  BY <1>1, <1>2, <1>3, <1>4, BootSaving, FlashStepSaving, OpDoneSaving, HostSaving
  DEF Next, Flash

-----------------------------------------------------------------------------
(* An overrun over the air.                                                *)

\* What leaves the count and the link alone, or clears the count, is harmless.
LEMMA QuietOverrun ==
  ASSUME OverrunBlocks, ota' => ota,
         UNCHANGED <<received, overrun>> \/ received' = 0
  PROVE  OverrunBlocks'
  BY DEF OverrunBlocks

LEMMA HostDataOverrun ==
  ASSUME OverrunBlocks, NEW v \in Word, HostData(v)
  PROVE  OverrunBlocks'
<1>1. ota' = ota
  BY DEF HostData
<1>2. CASE received + 1 > imageSize
  BY <1>1, <1>2, QuietOverrun DEF HostData
<1>3. CASE ~(received + 1 > imageSize)
  <2>1. /\ overrun' = overrun
        /\ \/ ota /\ overrun /\ received' = received
           \/ ota /\ ~overrun
           \/ ~ota
    BY <1>3, Zenon DEF HostData, StoreRejected
  <2> QED
    BY <1>1, <2>1 DEF OverrunBlocks
<1> QED
  BY <1>2, <1>3

LEMMA NextOverrun ==
  ASSUME IInv, OverrunBlocks, [Next]_vars
  PROVE  OverrunBlocks'
<1>1. CASE Boot
  <2>1. CASE Start \/ MbrFault \/ FinalizeDone
    BY <2>1, QuietOverrun DEF Start, MbrFault, FinalizeDone, vars, dfuVars
  <2>2. ASSUME NEW wanted, NEW link \in Links, CheckDfuMode(wanted, link)
        PROVE  OverrunBlocks'
    <3>1. received = 0
      BY <2>2 DEF CheckDfuMode, IInv, SizeInv
    <3>2. received' = 0
      BY <2>2, <3>1 DEF CheckDfuMode, Leave, Reboot, RamCleared, dfuVars
    <3> QED
      BY <3>2 DEF OverrunBlocks
  <2> QED
    BY <1>1, <2>1, <2>2 DEF Boot
<1>2. CASE Flash
  BY <1>2, QuietOverrun DEF Flash, FlashStep, OpDone, dfuVars
<1>3. CASE Host
  <2>1. ASSUME NEW p \in StartPackets, HostStart(p) PROVE OverrunBlocks'
    BY <2>1, QuietOverrun DEF HostStart, StartPktHandle, Reboot, RamCleared
  <2>2. ASSUME NEW d, HostInitBle(d) \/ HostInitSerial(d) PROVE OverrunBlocks'
    BY <2>2, QuietOverrun DEF HostInitBle, HostInitSerial, Reboot, RamCleared
  <2>3. CASE HostInitComplete \/ HostValidate \/ HostStop
    BY <2>3, QuietOverrun DEF HostInitComplete, HostValidate, HostStop
  <2>4. CASE HostActivate \/ HostReset
    BY <2>4, QuietOverrun DEF HostActivate, HostReset, Reboot, RamCleared, dfuVars
  <2> QED
    BY <1>3, <2>1, <2>2, <2>3, <2>4, HostDataOverrun DEF Host
<1>4. CASE Timer
  BY <1>4, QuietOverrun DEF Timer, TimerExpires, TimeoutHandler, StartupTimeout, dfuVars
<1>5. CASE WaitForEventsReturns \/ Environment
  BY <1>5, QuietOverrun
  DEF WaitForEventsReturns, Leave, Reboot, RamCleared, Environment, PowerLoss, SwdProgram,
      dfuVars
<1>6. CASE UNCHANGED vars
  BY <1>6, QuietOverrun DEF vars, dfuVars
<1> QED
  BY <1>1, <1>2, <1>3, <1>4, <1>5, <1>6 DEF Next

-----------------------------------------------------------------------------
(* What follows from it.                                                   *)

\* However often the power fails and whatever the host sends, main() jumps
\* only to an application that arrived whole or that a probe programmed.
THEOREM BootIsComplete == ASSUME SafeInputs PROVE Spec => []BootComplete
<1>1. IInv => BootComplete
  <2> SUFFICES ASSUME IInv, AppIsValid
               PROVE  Whole
    BY DEF BootComplete, Whole
  <2>1. flash[0] # Erased /\ stg.b0 # "INVALID"
    BY DEF AppIsValid
  <2> QED
    BY <2>1 DEF IInv, SafetyInv, ClaimInv
<1> QED
  BY <1>1, InvariantHolds, PTL

\* A SoftDevice or bootloader update is announced over a whole image only.
THEOREM UpdateIsComplete == ASSUME SafeInputs PROVE Spec => []UpdateComplete
<1>1. IInv => UpdateComplete
  BY DEF IInv, SafetyInv, ClaimInv, UpdateComplete, Whole
<1> QED
  BY <1>1, InvariantHolds, PTL

\* From the CRC check to the reset the image stays as it was checked.
THEOREM ValidatedStaysIntact == ASSUME SafeInputs PROVE Spec => []ValidatedIntact
<1>1. IInv => ValidatedIntact
  BY DEF IInv, SafetyInv, ValidatedInv, ValidatedIntact
<1> QED
  BY <1>1, InvariantHolds, PTL

\* In DFU mode only the flash operations write the flash.
LEMMA OnlyFlashStepWrites ==
  ASSUME Next, mode = "dfu", ~FlashStep
  PROVE  UNCHANGED nonVolatile
<1>1. CASE Boot
  BY <1>1 DEF Boot, Start, MbrFault, FinalizeDone, CheckDfuMode
<1>2. CASE OpDone
  BY <1>2 DEF OpDone
<1>3. CASE Host
  <2>1. ASSUME NEW p \in StartPackets, HostStart(p) PROVE UNCHANGED nonVolatile
    BY <2>1 DEF HostStart
  <2>2. ASSUME NEW d, HostInitBle(d) \/ HostInitSerial(d) PROVE UNCHANGED nonVolatile
    BY <2>2 DEF HostInitBle, HostInitSerial
  <2>3. ASSUME NEW v \in Word, HostData(v) PROVE UNCHANGED nonVolatile
    BY <2>3 DEF HostData
  <2>4. CASE HostInitComplete \/ HostValidate \/ HostStop
    BY <2>4 DEF HostInitComplete, HostValidate, HostStop
  <2>5. CASE HostActivate \/ HostReset
    BY <2>5 DEF HostActivate, HostReset
  <2> QED
    BY <1>3, <2>1, <2>2, <2>3, <2>4, <2>5 DEF Host
<1>4. CASE Timer \/ WaitForEventsReturns
  BY <1>4 DEF Timer, TimerExpires, TimeoutHandler, StartupTimeout, WaitForEventsReturns
<1>5. CASE Environment
  BY <1>5 DEF Environment, PowerLoss, SwdProgram
<1> QED
  BY <1>1, <1>2, <1>3, <1>4, <1>5 DEF Next, Flash

\* No byte of an image is written under a settings record that is still valid.
THEOREM InvalidComesFirst == ASSUME SafeInputs PROVE Spec => InvalidBeforeData
<1> DEFINE A == \A k \in Chunks :
                  flash'[k] # flash[k] /\ flash'[k] # Erased /\ mode = "dfu"
                    => stg.b0 = "INVALID" /\ stg.b1 # "VALID_BOOT"
<1>1. IInv /\ [Next]_vars => [A]_vars
  <2> SUFFICES ASSUME IInv, Next, mode = "dfu",
                      NEW k \in Chunks, flash'[k] # flash[k], flash'[k] # Erased
               PROVE  stg.b0 = "INVALID" /\ stg.b1 # "VALID_BOOT"
    BY DEF vars
  <2>1. FlashStep
    BY OnlyFlashStepWrites DEF nonVolatile
  <2>2. fq # <<>> /\ Head(fq) = fq[1]
    BY <2>1 DEF FlashStep, IInv, TypeOK
  <2>3. fq[1].op = "data"
    <3>1. CASE fq[1].op = "erase"
      <4>1. flash' = [flash EXCEPT ![prog] = Erased] /\ flash \in [Cells -> Content]
        BY <2>1, <2>2, <3>1 DEF FlashStep, IInv, TypeOK
      <4> QED
        BY <4>1, SizesAssumption DEF Chunks, Cells
    <3>2. CASE fq[1].op \in SaveKinds
      BY <2>1, <2>2, <3>2 DEF FlashStep, SaveKinds
    <3> QED
      BY <2>2, <3>1, <3>2, HeadCases
  <2> QED
    BY <2>1, <2>3, DataStepSafety DEF SdInProgress
<1>2. Spec => []IInv
  BY InvariantHolds
<1> HIDE DEF A
<1>3. Spec => [][A]_vars
  BY <1>1, <1>2, PTL DEF Spec
<1> QED
  BY <1>3 DEF A, InvalidBeforeData

\* COMPLETE says what bootloader_status_t promises: no flash operation is left,
\* and the settings page reads as the activation meant it.
THEOREM CompletionIsSafe == ASSUME SafeInputs PROVE Spec => []CompleteIsSafe
<1>1. Init => SavingInv
  BY DEF Init, SavingInv
<1>2. IInv /\ SavingInv /\ [Next]_vars => SavingInv'
  BY NextSaving
<1>3. Spec => []SavingInv
  BY <1>1, <1>2, InvariantHolds, PTL DEF Spec
<1>4. SavingInv => CompleteIsSafe
  BY DEF SavingInv, CompleteIsSafe
<1> QED
  BY <1>3, <1>4, PTL

\* Over the air, once m_data_received is at the top, no packet is stored again.
THEOREM OverrunStaysBlocked == ASSUME SafeInputs PROVE Spec => []OverrunBlocks
<1>1. Init => OverrunBlocks
  BY DEF Init, OverrunBlocks
<1>2. IInv /\ OverrunBlocks /\ [Next]_vars => OverrunBlocks'
  BY NextOverrun
<1> QED
  BY <1>1, <1>2, InvariantHolds, PTL DEF Spec

=============================================================================
