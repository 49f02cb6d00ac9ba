------------------------------ MODULE Services ------------------------------
(***************************************************************************)
(* What serves the board and the host rather than the DUT: the watchdog,   *)
(* both ways of the console port, the fault recorder, the reports' way to  *)
(* the host, the self test's transaction queue, and at the host the bench  *)
(* session and its decoder.  They share nothing but the processor, so a    *)
(* behaviour follows one of them, as subject says, and the others rest.    *)
(* Bytes, crashes, lines and calls are bounded: there the behaviours end.  *)
(***************************************************************************)
EXTENDS Watchdog, Sequences

CONSTANTS
  RxSize, RxChunk, RxDepth, RxBytes,  \* of SerialRx
  TxSize, TxLine, TxDepth, TxBytes,   \* of SerialTx
  MaxCrashes, MaxResets,              \* of FaultRecorder
  Lines, Room, Packet, Events,        \* of ReportLink
  QueueSize, CursorWidth, Jobs,       \* of SpiMaster: Size, Width
  Value, Tries, Calls, Mishaps,       \* of BenchLink
  StartByte, Known, Unknown, Payloads, Frames, Gaps  \* of Mavlink

(* The slot of a cursor is the same before and after it wraps.             *)
ASSUME ServicesAssumption ==
  /\ {RxSize, TxSize} \subseteq Nat \ {0} /\ RxSize >= 4 /\ {RxChunk, TxLine} \subseteq Nat
  /\ {QueueSize, CursorWidth} \subseteq Nat \ {0}
  /\ QueueSize < CursorWidth /\ CursorWidth % QueueSize = 0
  /\ {Jobs, MaxCrashes, MaxResets, Packet} \subseteq Nat
  /\ Value \subseteq Nat \ {0}
  /\ {StartByte} \union Known \union Unknown \subseteq Nat
  /\ \A p \in Payloads : p \in Seq(Nat)

VARIABLES
  subject,
  arrived, rdr, armed, rtof, dma, ring, head, tail, isr, pc, hand, len, part, last, lost,
  tx_ring, tx_head, tx_tail, xfersize, tx_dma, tdr, tc, tcie, tx_pc, todo, taken, out,
  at, level, step, kind, rec, crashes, resets, shown, consumed, captured,
  state, dtr, stat, dtog, buf, fifo, usb_pc, seen, host, made, got, gone, events,
  elem, q_head, curr, q_tail, busy, sel, xfer, spi_pc, sent, collected,
  bench_pc, call, try, again, calls, known, link, toBridge, hpc, hand_up, handle, ser,
  toClient, there, input, output, param, mishaps,
  sending, left, losing, torn, gaps, scan, nil, framed, whole, eaten

R == INSTANCE SerialRx WITH Size <- RxSize, Chunk <- RxChunk, Depth <- RxDepth, Bytes <- RxBytes

T == INSTANCE SerialTx WITH
  Size <- TxSize, Line <- TxLine, Depth <- TxDepth, Bytes <- TxBytes,
  ring <- tx_ring, head <- tx_head, tail <- tx_tail, dma <- tx_dma, pc <- tx_pc

F == INSTANCE FaultRecorder

L == INSTANCE ReportLink WITH pc <- usb_pc, lost <- gone

M == INSTANCE SpiMaster WITH
  Size <- QueueSize, Width <- CursorWidth,
  head <- q_head, tail <- q_tail, pc <- spi_pc, got <- collected

B == INSTANCE BenchLink WITH pc <- bench_pc, hand <- hand_up

D == INSTANCE Mavlink WITH Start <- StartByte, buf <- scan, got <- framed

rxVars == <<arrived, rdr, armed, rtof, dma, ring, head, tail, isr, pc, hand, len, part, last, lost>>
txVars ==
  <<tx_ring, tx_head, tx_tail, xfersize, tx_dma, tdr, tc, tcie, tx_pc, todo, taken, out>>
faultVars == <<at, level, step, kind, rec, crashes, resets, shown, consumed, captured>>
linkVars == <<state, dtr, stat, dtog, buf, fifo, usb_pc, seen, host, made, got, gone, events>>
spiVars == <<elem, q_head, curr, q_tail, busy, sel, xfer, spi_pc, sent, collected>>
benchVars ==
  <<bench_pc, call, try, again, calls, known, link, toBridge, hpc, hand_up, handle, ser,
    toClient, there, input, output, param, mishaps>>
decoderVars == <<sending, left, losing, torn, gaps, scan, nil, framed, whole, eaten>>
serviceVars ==
  <<subject, vars, rxVars, txVars, faultVars, linkVars, spiVars, benchVars, decoderVars>>

(* What rests does so in one of its initial states.                       *)
ServiceInit ==
  /\ subject \in {"watchdog", "rx", "tx", "fault", "link", "spi", "bench", "decoder"}
  /\ Init /\ R!Init /\ T!Init /\ F!Init /\ L!Init /\ M!Init /\ B!Init /\ D!Init
  /\ subject # "watchdog" => since = 0
  /\ subject # "bench" => param = 1

ServiceNext ==
  \/ subject = "watchdog" /\ Next
     /\ UNCHANGED <<subject, rxVars, txVars, faultVars, linkVars, spiVars, benchVars, decoderVars>>
  \/ subject = "rx" /\ R!Next
     /\ UNCHANGED <<subject, vars, txVars, faultVars, linkVars, spiVars, benchVars, decoderVars>>
  \/ subject = "tx" /\ T!Next
     /\ UNCHANGED <<subject, vars, rxVars, faultVars, linkVars, spiVars, benchVars, decoderVars>>
  \/ subject = "fault" /\ F!Next
     /\ UNCHANGED <<subject, vars, rxVars, txVars, linkVars, spiVars, benchVars, decoderVars>>
  \/ subject = "link" /\ L!Next
     /\ UNCHANGED <<subject, vars, rxVars, txVars, faultVars, spiVars, benchVars, decoderVars>>
  \/ subject = "spi" /\ M!Next
     /\ UNCHANGED <<subject, vars, rxVars, txVars, faultVars, linkVars, benchVars, decoderVars>>
  \/ subject = "bench" /\ B!Next
     /\ UNCHANGED <<subject, vars, rxVars, txVars, faultVars, linkVars, spiVars, decoderVars>>
  \/ subject = "decoder" /\ D!Steps
     /\ UNCHANGED
          <<subject, vars, rxVars, txVars, faultVars, linkVars, spiVars, benchVars>>

ServiceSpec == ServiceInit /\ [][ServiceNext]_serviceVars

(* Bytes pass either way of the console port in order, none twice, none    *)
(* stale, none lost uncounted or held back, and no chain of bursts stops   *)
(* with bytes left (RxInOrder, RxDelivered, TxInOrder, TxRests).           *)
BytesServed == R!RxInOrder /\ R!RxDelivered /\ T!TxInOrder /\ T!TxRests

(* A report is of one crash and comes once, and every captured crash is    *)
(* reported (ReportsTrue, CapturedReported).                               *)
PostMortem == F!ReportsTrue /\ F!CapturedReported

(* What ReportLink says of the reports to the host.                        *)
ReportsGenuine == L!ReportsGenuine
ReportsArrive == L!ReportsArrive /\ L!PipeOpen

(* What SpiMaster says of the transactions and of the thread that waits.   *)
SpiServed == M!Exchanged /\ M!NoneStuck

(* A parameter set and read at the bench is as the call says, and the      *)
(* stream loses no frame to a false start (Verified, FramesFound).         *)
BenchHeard == B!Verified /\ D!FramesFound
=============================================================================
