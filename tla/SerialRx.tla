----------------------------- MODULE SerialRx -----------------------------
(***************************************************************************)
(* The receive side of the serial console: DMA bursts into a ring, a flush *)
(* on a receive timeout, and the main loop reading the ring                *)
(* (src/src/nlib/serial.h, fifo.h, dma.h, src/src/main.c).  The handlers   *)
(* preempt the main loop but not each other; the line goes on in any case. *)
(* The bytes on the line are numbered.                                     *)
(***************************************************************************)
EXTENDS Integers, Sequences

CONSTANTS
  Size,    \* of the ring, a multiple of four
  Chunk,   \* bytes the main loop reads at most
  Depth,   \* of the USART's receive FIFO
  Bytes    \* bound: bytes on the line

VARIABLES
  \* the line and the USART
  arrived,  \* bytes so far
  rdr,      \* receive FIFO
  armed,    \* a byte came since the last timeout
  rtof,     \* ISR_RTOF
  \* the DMA channel: enabled and DMAR, its place in the ring, the burst's
  \* size (xfersize), what is left of it, TCIF
  dma,
  \* vcp_rx.buf
  ring, head, tail,
  isr,      \* the USART handler: "none", or what it does next
  \* the main loop's fifo_read: what is next, the bytes copied, the length
  \* of the copy, the first or the second
  pc, hand, len, part,
  \* history: the last byte read, the bytes dropped and counted
  last, lost

lineVars == <<arrived, rdr, armed, rtof>>
fifoVars == <<ring, head, tail>>
mainVars == <<pc, hand, len, part, last>>
vars == <<lineVars, dma, fifoVars, isr, mainVars, lost>>

Min2(a, b) == IF a < b THEN a ELSE b

(* fifo.h: the contiguous room at the head, the contiguous content at the  *)
(* tail, and all the content up to h.                                      *)
HeadSize(h, t) ==
  IF h % Size < t % Size \/ h = t + Size THEN (t % Size) - (h % Size) ELSE Size - (h % Size)
TailSize(h, t) ==
  IF t % Size < h % Size \/ h = t THEN (h % Size) - (t % Size) ELSE Size - (t % Size)
Content(h) == {ring[i % Size] : i \in tail .. h - 1}

------------------------------------------------------------------------------
(* Receiving.                                                              *)

(* The end of a burst and a timeout are apart: the first is served by the  *)
(* time of the second.                                                     *)
Apart ==
  /\ rtof' => ~dma'.tcif
  /\ rtof' /\ dma'.on => Len(rdr') < dma'.left

(* No overflow comes between the reader's look and its pop.                *)
Steady ==
  pc = "pop" => head + dma.size + Len(rdr) - tail < Size

(* A byte arrives; without room in the USART it is lost, and counted.      *)
Arrive ==
  /\ arrived < Bytes /\ arrived' = arrived + 1
  /\ armed' = TRUE
  /\ IF Len(rdr) < Depth
     THEN rdr' = Append(rdr, arrived + 1) /\ UNCHANGED lost
     ELSE lost' = lost \union {arrived + 1} /\ UNCHANGED rdr
  /\ UNCHANGED <<rtof, dma, fifoVars, isr, mainVars>>
  /\ Apart /\ (isr # "none" => Steady')

DmaReady == dma.on /\ dma.left > 0

(* The DMA moves a byte.                                                   *)
DmaMove ==
  /\ rdr # <<>> /\ DmaReady
  /\ rdr' = Tail(rdr)
  /\ ring' = [ring EXCEPT ![(dma.dst + dma.size - dma.left) % Size] = Head(rdr)]
  /\ dma' = [dma EXCEPT !.left = @ - 1, !.tcif = @ \/ dma.left = 1]
  /\ UNCHANGED <<arrived, armed, rtof, head, tail, isr, mainVars, lost>>

(* Sixteen byte-times of silence: the DMA has long done what it can.       *)
Timeout ==
  /\ armed /\ (rdr = <<>> \/ ~DmaReady)
  /\ armed' = FALSE /\ rtof' = TRUE
  /\ UNCHANGED <<arrived, rdr, dma, fifoVars, isr, mainVars, lost>>
  /\ Apart

(* A fault, for the mutants: a burst does not stop at the tail.            *)
BurstLong(h, t) == Size \div 4

(* Up to a quarter of the buffer.                                          *)
Burst(h, t) == Min2(HeadSize(h, t), Size \div 4)

(* serial_dma_rx_start with the head at h: a full buffer is dropped, a     *)
(* burst started at the head.                                              *)
StartRx(h, flag) ==
  LET full == h = tail + Size
      h1 == IF full THEN 0 ELSE h
      t1 == IF full THEN 0 ELSE tail
  IN  /\ head' = h1 /\ tail' = t1
      /\ lost' = IF full THEN lost \union Content(h) ELSE lost
      /\ dma' = [on |-> TRUE, dst |-> h1 % Size, size |-> Burst(h1, t1),
                   left |-> Burst(h1, t1), tcif |-> flag]

(* serial_dma_rx_handler.                                                  *)
RxBurstDone ==
  /\ isr = "none" /\ dma.tcif /\ Steady
  /\ StartRx(head + dma.size, FALSE)
  /\ UNCHANGED <<lineVars, ring, isr, mainVars>>

(* serial_irq_rx_handler: DMAR and the channel off ...                     *)
RxStop ==
  /\ isr = "stop" /\ isr' = "flush"
  /\ dma' = [dma EXCEPT !.on = FALSE]
  /\ UNCHANGED <<lineVars, fifoVars, mainVars, lost>>

(* A fault, for the mutants: the partial burst is not flushed.             *)
RxFlushNothing ==
  /\ isr = "flush" /\ isr' = "drain"
  /\ rtof' = FALSE
  /\ UNCHANGED <<arrived, rdr, armed, dma, fifoVars, mainVars, lost>>

(* ... what the burst has moved so far is pushed ...                       *)
RxFlush ==
  /\ isr = "flush" /\ isr' = "drain"
  /\ rtof' = FALSE
  /\ head' = head + (dma.size - dma.left)
  /\ UNCHANGED <<arrived, rdr, armed, dma, ring, tail, mainVars, lost>>

(* ... then what waits in the USART, a full buffer being dropped ...       *)
RxDrain ==
  /\ isr = "drain" /\ rdr # <<>> /\ rdr' = Tail(rdr)
  /\ LET full == head = tail + Size
         h == IF full THEN 0 ELSE head
     IN  /\ ring' = [ring EXCEPT ![h % Size] = Head(rdr)]
         /\ head' = h + 1 /\ tail' = (IF full THEN 0 ELSE tail)
         /\ lost' = IF full THEN lost \union Content(head) ELSE lost
  /\ UNCHANGED <<arrived, armed, rtof, dma, isr, mainVars>>

(* ... and the DMA starts again.                                           *)
RxRestart ==
  /\ isr = "drain" /\ rdr = <<>> /\ isr' = "none"
  /\ StartRx(head, dma.tcif)
  /\ UNCHANGED <<lineVars, ring, mainVars>>

(* The vector of the USART, once the burst handler has run.                *)
Usart ==
  /\ isr = "none" /\ ~dma.tcif /\ rtof /\ Steady
  /\ isr' = "stop"
  /\ UNCHANGED <<lineVars, dma, fifoVars, mainVars, lost>>

------------------------------------------------------------------------------
(* The main loop, while no handler runs.                                   *)

(* fifo_read: the ring's tail is copied ...                                *)
ReadLook ==
  /\ pc = "look" /\ isr = "none" /\ pc' = "pop"
  /\ LET n == Min2(TailSize(head, tail), Chunk - Len(hand))
     IN  /\ len' = n
         /\ hand' = hand \o [i \in 1 .. n |-> ring[(tail + i - 1) % Size]]
  /\ UNCHANGED <<lineVars, dma, fifoVars, isr, part, last, lost>>

(* ... and popped, once more for what lies past the end of the buffer.     *)
ReadPop ==
  /\ pc = "pop" /\ isr = "none" /\ pc' = "look"
  /\ tail' = tail + len /\ len' = 0 /\ part' = 3 - part
  /\ hand' = IF part = 1 THEN hand ELSE <<>>
  /\ last' = IF part = 2 /\ hand # <<>> THEN hand[Len(hand)] ELSE last
  /\ UNCHANGED <<lineVars, dma, ring, head, isr, lost>>

------------------------------------------------------------------------------

(* After usart_init and serial_dma_rx_start.                               *)
Init ==
  /\ arrived = 0 /\ rdr = <<>> /\ armed = FALSE /\ rtof = FALSE
  /\ ring = [i \in 0 .. Size - 1 |-> 0] /\ head = 0 /\ tail = 0
  /\ dma = [on |-> TRUE, dst |-> 0, size |-> Burst(0, 0), left |-> Burst(0, 0), tcif |-> FALSE]
  /\ isr = "none" /\ pc = "look" /\ hand = <<>> /\ len = 0 /\ part = 1
  /\ last = 0 /\ lost = {}

Handler == RxBurstDone \/ Usart \/ RxStop \/ RxFlush \/ RxDrain \/ RxRestart
Main == ReadLook \/ ReadPop

Next == Arrive \/ DmaMove \/ Timeout \/ Handler \/ Main

Spec == Init /\ [][Next]_vars

------------------------------------------------------------------------------

(* The bytes read are bytes received, in order, none twice and none stale, *)
(* and between two of them there were only those dropped and counted,      *)
(* through bursts, timeouts, the wrap of the ring and dropped buffers      *)
(* (fifo.h: "can safely connect readers and writers at different irq       *)
(* priority levels"; serial.h: ovfl_count, the overrun counter).           *)
RxInOrder ==
  \A i \in DOMAIN hand :
    LET before == IF i = 1 THEN last ELSE hand[i - 1]
    IN  before < hand[i] /\ before + 1 .. hand[i] - 1 \subseteq lost

(* What the burst in flight has moved so far.                              *)
InBurst ==
  IF isr = "drain" THEN {}
  ELSE {ring[(dma.dst + i) % Size] : i \in 0 .. dma.size - dma.left - 1}

(* Every byte received is read, or in the ring, the burst or the USART on  *)
(* its way to the reader, or dropped and counted; and once a timeout has   *)
(* been served and no byte came since, nothing is held back in the burst   *)
(* or the USART.                                                           *)
RxDelivered ==
  /\ \A b \in last + 1 .. arrived :
       b \in lost \union Content(head) \union InBurst
              \union {hand[i] : i \in DOMAIN hand} \union {rdr[i] : i \in DOMAIN rdr}
  /\ ~armed /\ ~rtof /\ isr = "none" /\ ~dma.tcif => InBurst = {} /\ rdr = <<>>
=============================================================================
