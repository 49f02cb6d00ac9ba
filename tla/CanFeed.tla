------------------------------ MODULE CanFeed ------------------------------
(***************************************************************************)
(* The transmit path of the GPS feeder and the receive side of the same    *)
(* controller (FDCAN3): the main loop cuts transfers into frames and puts  *)
(* them into a message queue (main.c, dronecan.c, canmsgq.h), interrupt    *)
(* IT0 pumps the queue into the hardware's buffers and reads its event     *)
(* FIFO, interrupt IT1 drains the receive FIFO (main.c, fdcan.c).  Both    *)
(* share the flags of one interrupt register and neither preempts the      *)
(* other; either preempts the main loop; the hardware goes on at any time. *)
(***************************************************************************)
EXTENDS Naturals, Sequences, FiniteSets

CONSTANTS Transfers, \* frames of each transfer the main loop sends, in order
          QLen,      \* cells of the message queue (64 in the code)
          Width,     \* its indices count modulo Width (2^32 in the code)
          Buffers,   \* transmit buffers, event and receive FIFO of the controller (3)
          DrainMax,  \* most elements an interrupt takes from a FIFO (8)
          InHandler, \* most frames that end on the bus while IT0 runs
          Mishaps,   \* most frames disturbed or lost on the bus
          RxFrames   \* most frames received from the bus

ASSUME SizeAssumption ==
    /\ QLen \in Nat \ {0} /\ Buffers \in Nat \ {0} /\ DrainMax \in Nat \ {0}
    /\ Width \in Nat /\ Width % QLen = 0 /\ Width > QLen
    /\ Mishaps \in Nat /\ RxFrames \in Nat /\ InHandler \in Nat
    /\ Transfers \in Seq(Nat \ {0})

Frame == UNION {{<<t, i>> : i \in 1 .. Transfers[t]} : t \in 1 .. Len(Transfers)}
NoFrame == <<0, 0>>

(* The flags of FDCAN_IR that are enabled, by the line they raise. *)
It0Flags == {"TEFN", "PEA", "BO"}
Flags == It0Flags \cup {"RF0N"}

VARIABLES
  head, tail, elem, dropped, \* struct CanMsgQueue
  pc, cur,        \* the main loop: where in gps_enqueue, and at which frame
  it0, got, seen, \* IT0: where, elements taken, the flags it read
  it1, taken,     \* IT1: where, elements taken
  pend,           \* lines the NVIC holds pending
  buf, events, rx,\* transmit buffers in use (oldest first), fill of the FIFOs
  ir, init,       \* FDCAN_IR; CCCR.INIT, set by the hardware on bus-off
  bus,            \* the last frame on the bus and how many there were
  yielded,        \* a frame has lost arbitration
  ended, mishaps, arrived  \* bounds: frames ended in this IT0, disturbed, received

queue == <<head, tail, elem, dropped>>
thread == <<pc, cur>>
isr0 == <<it0, got, seen>>
isr1 == <<it1, taken>>
hw == <<buf, events, rx, ir, init, bus>>
bounds == <<yielded, ended, mishaps, arrived>>
vars == <<queue, thread, isr0, isr1, pend, hw, bounds>>

(* fdcan_init: FIFOs empty, no flag set, the port started. *)
PortInit == /\ buf = << >> /\ events = 0 /\ rx = 0
            /\ ir = {} /\ init = FALSE

Init == /\ head = 0 /\ tail = 0 /\ dropped = 0
        /\ elem = [k \in 0 .. QLen - 1 |-> NoFrame]
        /\ pc = "loop" /\ cur = NoFrame
        /\ it0 = "off" /\ got = 0 /\ seen = {}
        /\ it1 = "off" /\ taken = 0
        /\ pend = {}
        /\ PortInit
        /\ bus = [frame |-> << >>, count |-> 0]
        /\ yielded = FALSE /\ ended = 0 /\ mishaps = 0 /\ arrived = 0

-----------------------------------------------------------------------------
(* The main loop.  It runs only while no interrupt does. *)

ThreadRuns == it0 = "off" /\ it1 = "off"

Fill == (head + Width - tail) % Width
Full == head = (tail + QLen) % Width
Empty == head = tail

(* A transfer is due: dronecan_broadcast cuts it into frames, numbered here. *)
Broadcast == /\ pc = "loop" /\ cur[1] < Len(Transfers)
             /\ cur' = <<cur[1] + 1, 1>>
             /\ pc' = "head"
             /\ UNCHANGED queue

(* gps_enqueue goes on with the next frame of the transfer, or kicks IT0. *)
NextFrame == IF cur[2] < Transfers[cur[1]]
             THEN pc' = "head" /\ cur' = <<cur[1], cur[2] + 1>>
             ELSE pc' = "kick" /\ UNCHANGED cur

(* canmsgq_head, and the cell it returns filled in. *)
TakeCell == /\ pc = "head" /\ ~Full
            /\ elem' = [elem EXCEPT ![head % QLen] = cur]
            /\ pc' = "push"
            /\ UNCHANGED <<cur, head, tail, dropped>>

DropFrame == /\ pc = "head" /\ Full
             /\ dropped' = dropped + 1
             /\ NextFrame
             /\ UNCHANGED <<head, tail, elem>>

Push == /\ pc = "push"
        /\ head' = (head + 1) % Width
        /\ NextFrame
        /\ UNCHANGED <<tail, elem, dropped>>

(* nvic_set_pending. *)
Kick == /\ pc = "kick"
        /\ pc' = "loop"
        /\ pend' = pend \cup {"IT0"}
        /\ UNCHANGED <<cur, queue>>

Thread == /\ ThreadRuns
          /\ \/ (Broadcast \/ TakeCell \/ DropFrame \/ Push) /\ UNCHANGED pend
             \/ Kick
          /\ UNCHANGED <<isr0, isr1, hw, bounds>>

-----------------------------------------------------------------------------
(* Interrupts.  A line that rises is latched by the NVIC; one still high     *)
(* when its handler returns is pending again.                                *)

Line(flags) == (IF flags \cap It0Flags # {} THEN {"IT0"} ELSE {})
               \cup (IF "RF0N" \in flags THEN {"IT1"} ELSE {})

Raise(flags) == /\ ir' = ir \cup flags
                /\ pend' = pend \cup (Line(ir') \ Line(ir))

(* fdcan_tx takes a frame unless all buffers are in use; fdcan_tx_done and   *)
(* fdcan_rx take the oldest element of their FIFOs.                          *)
CanTx(f) == Len(buf) < Buffers /\ buf' = Append(buf, f)
CanTxDone == events > 0 /\ events' = events - 1
CanRx == rx > 0 /\ rx' = rx - 1

It0Enter == /\ ThreadRuns /\ "IT0" \in pend
            /\ it0' = "drain" /\ got' = 0 /\ ended' = 0
            /\ pend' = pend \ {"IT0"}
            /\ UNCHANGED <<queue, thread, seen, isr1, hw, yielded, mishaps, arrived>>

It0Drain == /\ it0 = "drain" /\ got < DrainMax /\ CanTxDone
            /\ got' = got + 1
            /\ UNCHANGED <<queue, thread, it0, seen, isr1, pend, buf, rx, ir, init, bus, bounds>>

It0Drained == /\ it0 = "drain" /\ (events = 0 \/ got = DrainMax)
              /\ it0' = "pump"
              /\ UNCHANGED <<queue, thread, got, seen, isr1, pend, hw, bounds>>

(* A fault, for the mutants: a frame the buffers refuse is popped all the same. *)
PumpUnchecked == /\ it0 = "pump" /\ ~Empty
                 /\ buf' = IF Len(buf) < Buffers THEN Append(buf, elem[tail % QLen]) ELSE buf
                 /\ tail' = (tail + 1) % Width
                 /\ UNCHANGED <<head, elem, dropped, thread, isr0, isr1, pend>>
                 /\ UNCHANGED <<events, rx, ir, init, bus, bounds>>

(* One turn of gps_pump. *)
It0Pump == /\ it0 = "pump" /\ ~Empty /\ CanTx(elem[tail % QLen])
           /\ tail' = (tail + 1) % Width
           /\ UNCHANGED <<head, elem, dropped, thread, isr0, isr1, pend>>
           /\ UNCHANGED <<events, rx, ir, init, bus, bounds>>

(* The queue is empty or the buffers are full. *)
It0Pumped == /\ it0 = "pump" /\ (Empty \/ Len(buf) = Buffers)
             /\ it0' = "flags"
             /\ UNCHANGED <<queue, thread, got, seen, isr1, pend, hw, bounds>>

(* A fault, for the mutants: bus-off is not left. *)
NoRejoin == /\ it0 = "flags"
            /\ seen' = ir
            /\ it0' = "clear"
            /\ UNCHANGED <<queue, thread, got, isr1, pend, hw, bounds>>

(* IR is read; bus-off is left by clearing INIT. *)
It0Flag == /\ it0 = "flags"
           /\ seen' = ir
           /\ init' = (init /\ "BO" \notin ir)
           /\ it0' = "clear"
           /\ UNCHANGED <<queue, thread, got, isr1, pend, buf, events, rx, ir, bus, bounds>>

(* What was read is cleared, except the receive flags, and IT0 returns. *)
It0Clear == /\ it0 = "clear"
            /\ ir' = ir \ (seen \ {"RF0N"})
            /\ it0' = "off" /\ seen' = {} /\ got' = 0 /\ ended' = 0
            /\ pend' = pend \cup (Line(ir') \cap {"IT0"})
            /\ UNCHANGED <<queue, thread, isr1, buf, events, rx, init, bus, yielded, mishaps, arrived>>

(* IT1 clears its flag first, then drains what is there. *)
It1Enter == /\ ThreadRuns /\ "IT1" \in pend
            /\ it1' = "clear" /\ taken' = 0
            /\ pend' = pend \ {"IT1"}
            /\ UNCHANGED <<queue, thread, isr0, hw, bounds>>

(* A fault, for the mutants: IT1 leaves its flag set. *)
It1ClearsLate == /\ it1 = "clear"
                 /\ it1' = "drain"
                 /\ UNCHANGED <<queue, thread, isr0, taken, pend, hw, bounds>>

It1Clear == /\ it1 = "clear"
            /\ ir' = ir \ {"RF0N"}
            /\ it1' = "drain"
            /\ UNCHANGED <<queue, thread, isr0, taken, pend, buf, events, rx, init, bus, bounds>>

It1Drain == /\ it1 = "drain" /\ taken < DrainMax /\ CanRx
            /\ taken' = taken + 1
            /\ UNCHANGED <<queue, thread, isr0, it1, pend, buf, events, ir, init, bus, bounds>>

(* A fault, for the mutants: IT1 takes one frame and clears no more flags. *)
It1ReturnEarly == /\ it1 = "drain" /\ (rx = 0 \/ taken > 0)
                  /\ it1' = "off" /\ taken' = 0
                  /\ pend' = pend \cup (Line(ir) \cap {"IT1"})
                  /\ UNCHANGED <<queue, thread, isr0, hw, bounds>>

It1Return == /\ it1 = "drain" /\ (rx = 0 \/ taken = DrainMax)
             /\ it1' = "off" /\ taken' = 0
             /\ pend' = pend \cup (Line(ir) \cap {"IT1"})
             /\ UNCHANGED <<queue, thread, isr0, hw, bounds>>

Interrupt == \/ It0Enter \/ It0Drain \/ It0Drained \/ It0Pump \/ It0Pumped
             \/ It0Flag \/ It0Clear
             \/ It1Enter \/ It1Clear \/ It1Drain \/ It1Return

-----------------------------------------------------------------------------
(* The controller.  Retransmission is disabled (fdcan_init sets DAR): a      *)
(* frame that does not succeed leaves its buffer, with no event.             *)

(* A frame on the bus ends; IT0 is much shorter than a frame. *)
FrameEnds == /\ buf # << >> /\ ~init
             /\ ended' = IF it0 = "off" THEN 0 ELSE ended + 1
             /\ it0 # "off" => ended < InHandler
             /\ buf' = Tail(buf)

Sent == /\ FrameEnds
        /\ bus' = [frame |-> <<Head(buf)>>, count |-> bus.count + 1]
        /\ events' = IF events < Buffers THEN events + 1 ELSE events
        /\ Raise(IF events < Buffers THEN {"TEFN"} ELSE {})
        /\ UNCHANGED <<rx, init, yielded, mishaps, arrived>>

(* An error on the bus raises a flag, and at the limit stops the controller, *)
(* which takes far longer than IT0 to rejoin and stop once more; a lost      *)
(* arbitration raises none.                                                  *)
Disturbed == /\ FrameEnds /\ mishaps < Mishaps
             /\ mishaps' = mishaps + 1
             /\ \/ Raise({"PEA"}) /\ UNCHANGED init
                \/ "BO" \notin ir /\ Raise({"PEA", "BO"}) /\ init' = TRUE
             /\ UNCHANGED <<events, rx, bus, yielded, arrived>>

ArbitrationLost == /\ FrameEnds /\ mishaps < Mishaps
                   /\ mishaps' = mishaps + 1 /\ yielded' = TRUE
                   /\ UNCHANGED <<events, rx, ir, init, bus, pend, arrived>>

Received == /\ arrived < RxFrames /\ ~init
            /\ arrived' = arrived + 1
            /\ IF rx < Buffers
               THEN rx' = rx + 1 /\ Raise({"RF0N"})
               ELSE UNCHANGED <<rx, ir, pend>>
            /\ UNCHANGED <<buf, events, init, bus, yielded, ended, mishaps>>

Controller == /\ Sent \/ Disturbed \/ ArbitrationLost \/ Received
              /\ UNCHANGED <<queue, thread, isr0, isr1>>

(* The main loop has nothing left to send and all is quiet. *)
Idle == /\ pc = "loop" /\ cur[1] = Len(Transfers) /\ ThreadRuns
        /\ pend = {} /\ buf = << >>
        /\ UNCHANGED vars

Next == Thread \/ Interrupt \/ Controller \/ Idle

(* Interrupts are taken and return, the main loop goes on, the bus works     *)
(* off what is in the buffers; mishaps and received frames are not promised. *)
Fairness == /\ WF_vars(Interrupt)
            /\ SF_vars(It0Enter) /\ SF_vars(It1Enter)
            /\ SF_vars(Thread)
            /\ WF_vars(Sent /\ UNCHANGED <<queue, thread, isr0, isr1>>)

Spec == Init /\ [][Next]_vars /\ Fairness
-----------------------------------------------------------------------------
(* Properties *)

Index == 0 .. Width - 1

(* Types, and the queue never holds more than its cells: a frame is refused  *)
(* instead of overwriting one the pump has yet to take, across the wrap of   *)
(* the indices (canmsgq.h:33-44).                                            *)
TypeOK == /\ head \in Index /\ tail \in Index /\ Fill <= QLen
          /\ elem \in [0 .. QLen - 1 -> Frame \cup {NoFrame}]
          /\ dropped \in Nat
          /\ pc \in {"loop", "head", "push", "kick"}
          /\ cur \in Frame \cup {NoFrame}
          /\ it0 \in {"off", "drain", "pump", "flags", "clear"}
          /\ it1 \in {"off", "clear", "drain"}
          /\ it0 = "off" \/ it1 = "off"
          /\ got \in 0 .. DrainMax /\ taken \in 0 .. DrainMax
          /\ seen \subseteq Flags /\ ir \subseteq Flags
          /\ pend \subseteq {"IT0", "IT1"}
          /\ buf \in Seq(Frame) /\ Len(buf) <= Buffers
          /\ events \in 0 .. Buffers /\ rx \in 0 .. Buffers
          /\ init \in BOOLEAN /\ yielded \in BOOLEAN

Queued == [k \in 1 .. Fill |-> elem[(tail + k - 1) % QLen]]

(* Queue and buffers together are a Pipe: whatever the interleaving of       *)
(* gps_enqueue with IT0 and the bus, frames go out in the order the main     *)
(* loop made them, each once, and are refused only when the queue is full.   *)
FramePipe == INSTANCE Pipe WITH Room <- QLen + Buffers,
                                pending <- buf \o Queued,
                                refused <- dropped
InOrder == FramePipe!Spec

(* All sent, and nothing pending: what a lost arbitration leaves queued      *)
(* waits for the next transfer.                                              *)
LeftBehind == yielded /\ buf = << >> /\ pend = {} /\ pc = "loop" /\ cur[1] = Len(Transfers)

(* The next transmit interrupt goes on with the queue ("hw buffers full: the *)
(* next tx-complete irq re-pumps", main.c:209): what is queued leaves queue  *)
(* and buffers, through errors and bus-off, although IT0 clears flags raised *)
(* after it drained and pumped.  Only frames that lose arbitration go        *)
(* without an interrupt, and then the next transfer takes the queue along.   *)
Drains == ~Empty ~> (Empty /\ buf = << >>) \/ LeftBehind

(* A frame received while IT1 clears its flag, or while IT0 clears those of *)
(* the register the two share, is taken in the end, though the bound on the  *)
(* drain leaves the rest to "the next frame" (main.c:1096-1103).             *)
RxDrains == rx > 0 ~> rx = 0

(* Both interrupts come to rest once the bus does: no flag stays set that    *)
(* pends its line again for ever ("the 100%-CPU storm", main.c:1096).        *)
ComesToRest == []<>(pend = {} /\ ThreadRuns)

Settles == Drains /\ RxDrains /\ ComesToRest
=============================================================================
