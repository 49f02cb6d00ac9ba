----------------------------- MODULE SerialTx -----------------------------
(***************************************************************************)
(* The transmit side of the serial console: the main loop writes a ring,   *)
(* whole lines or character by character, and kicks a chain of DMA bursts  *)
(* that the transmission-complete interrupt continues                      *)
(* (src/src/nlib/serial.h, fifo.h, console.h, src/src/main.c).  The        *)
(* handlers preempt the main loop but not each other; the DMA and the      *)
(* USART go on in any case.  The bytes are numbered as they are accepted.  *)
(***************************************************************************)
EXTENDS Integers, Sequences

CONSTANTS
  Size,    \* of the ring
  Line,    \* bytes the main loop writes at most at a time
  Depth,   \* of the USART's transmit FIFO
  Bytes    \* bound: bytes accepted

VARIABLES
  ring, head, tail,  \* vcp.buf
  xfersize,          \* of the burst in flight
  dma,               \* the channel: its place in the ring, what is left, TCIF
  tdr,               \* transmit FIFO and shifter of the USART
  tc, tcie,          \* ISR_TC, CR1_TCIE
  pc, todo,          \* the main loop: what is next, the bytes left of a line
  taken, out         \* history: bytes accepted, the last byte on the line

fifoVars == <<ring, head, tail>>
uartVars == <<tdr, tc>>
vars == <<fifoVars, xfersize, dma, uartVars, tcie, pc, todo, taken, out>>

Min2(a, b) == IF a < b THEN a ELSE b

(* fifo.h.                                                                 *)
Free == tail + Size - head
HeadSize ==
  IF head % Size < tail % Size \/ Free = 0
  THEN (tail % Size) - (head % Size) ELSE Size - (head % Size)
TailSize ==
  IF tail % Size < head % Size \/ head = tail
  THEN (head % Size) - (tail % Size) ELSE Size - (tail % Size)

(* n bytes go in at the head, and count.                                   *)
PushHead(n) ==
  /\ ring' = [i \in 0 .. Size - 1 |->
               LET k == (i - head) % Size IN IF k < n THEN taken + k + 1 ELSE ring[i]]
  /\ head' = head + n /\ taken' = taken + n
  /\ UNCHANGED tail

------------------------------------------------------------------------------
(* The main loop.                                                          *)

(* fifo_write: all of the line or nothing, up to the end of the buffer ... *)
EchoFirst(n) ==
  /\ pc = "idle" /\ taken + n <= Bytes
  /\ IF Free < n
     THEN pc' = "kick" /\ UNCHANGED <<fifoVars, todo, taken>>
     ELSE LET l == Min2(HeadSize, n)
          IN  PushHead(l) /\ todo' = n - l /\ pc' = IF l < n THEN "rest" ELSE "kick"
  /\ UNCHANGED <<xfersize, dma, uartVars, tcie, out>>

(* ... then the rest from its beginning.                                   *)
EchoRest ==
  /\ pc = "rest" /\ pc' = "kick"
  /\ PushHead(todo) /\ todo' = 0
  /\ UNCHANGED <<xfersize, dma, uartVars, tcie, out>>

(* serial_printf: serial_putc, which drops what does not fit.              *)
Format(n) ==
  /\ pc = "idle" /\ taken + n <= Bytes
  /\ pc' = "putc" /\ todo' = n
  /\ UNCHANGED <<fifoVars, xfersize, dma, uartVars, tcie, taken, out>>

Putc ==
  /\ pc = "putc"
  /\ IF Free = 0 THEN UNCHANGED <<fifoVars, taken>> ELSE PushHead(1)
  /\ todo' = todo - 1 /\ pc' = IF todo = 1 THEN "kick" ELSE "putc"
  /\ UNCHANGED <<xfersize, dma, uartVars, tcie, out>>

(* serial_dma_tx_start.                                                    *)
Kick ==
  /\ pc = "kick" /\ pc' = "idle" /\ tcie' = TRUE
  /\ UNCHANGED <<fifoVars, xfersize, dma, uartVars, todo, taken, out>>

------------------------------------------------------------------------------
(* The handlers.                                                           *)

(* A fault, for the mutants: the burst's size stays.                       *)
TxBurstDoneKept ==
  /\ dma.tcif
  /\ dma' = [dma EXCEPT !.tcif = FALSE]
  /\ tail' = tail + xfersize
  /\ UNCHANGED <<ring, head, xfersize, uartVars, tcie, pc, todo, taken, out>>

(* serial_dma_tx_handler: the burst leaves the ring.                       *)
TxBurstDone ==
  /\ dma.tcif
  /\ dma' = [dma EXCEPT !.tcif = FALSE]
  /\ tail' = tail + xfersize /\ xfersize' = 0
  /\ UNCHANGED <<ring, head, uartVars, tcie, pc, todo, taken, out>>

(* A fault, for the mutants: the burst takes all the ring holds, as if it  *)
(* lay in one piece.                                                       *)
TxBurstAll ==
  /\ tc' = FALSE
  /\ xfersize' = head - tail
  /\ dma' = [src |-> tail % Size, left |-> head - tail, tcif |-> dma.tcif]
  /\ UNCHANGED tcie

(* A burst of what lies in one piece at the tail.                          *)
TxBurst ==
  /\ tc' = FALSE
  /\ xfersize' = TailSize
  /\ dma' = [src |-> tail % Size, left |-> TailSize, tcif |-> dma.tcif]
  /\ UNCHANGED tcie

(* serial_irq_tx_handler, which the receive timeout calls as well: the     *)
(* next burst, or the end of the chain.                                    *)
TxComplete ==
  /\ ~dma.tcif /\ tc /\ xfersize = 0
  /\ IF head = tail THEN tcie' = FALSE /\ UNCHANGED <<tc, xfersize, dma>> ELSE TxBurst
  /\ UNCHANGED <<fifoVars, tdr, pc, todo, taken, out>>

------------------------------------------------------------------------------
(* The hardware.                                                           *)

(* The DMA writes TDR; whether that clears TC is left open.  It counts on  *)
(* past the end of the buffer, into memory that is not the ring's.         *)
DmaMove ==
  /\ dma.left > 0 /\ Len(tdr) < Depth
  /\ tdr' = Append(tdr, IF dma.src < Size THEN ring[dma.src] ELSE 0)
  /\ dma' = [src |-> dma.src + 1, left |-> dma.left - 1, tcif |-> dma.left = 1]
  /\ tc' \in {FALSE, tc}
  /\ UNCHANGED <<fifoVars, xfersize, tcie, pc, todo, taken, out>>

(* A byte has gone out; with the last one the transmission is complete.    *)
Shift ==
  /\ tdr # <<>>
  /\ out' = Head(tdr) /\ tdr' = Tail(tdr)
  /\ tc' = (tc \/ Len(tdr) = 1)
  /\ UNCHANGED <<fifoVars, xfersize, dma, tcie, pc, todo, taken>>

------------------------------------------------------------------------------

(* After usart_init.                                                       *)
Init ==
  /\ ring = [i \in 0 .. Size - 1 |-> 0] /\ head = 0 /\ tail = 0
  /\ xfersize = 0 /\ dma = [src |-> 0, left |-> 0, tcif |-> FALSE]
  /\ tdr = <<>> /\ tc = TRUE /\ tcie = FALSE
  /\ pc = "idle" /\ todo = 0 /\ taken = 0 /\ out = 0

Main == EchoRest \/ Putc \/ Kick

Next ==
  \/ \E n \in 1 .. Line : EchoFirst(n) \/ Format(n)
  \/ Main \/ TxBurstDone \/ TxComplete \/ DmaMove \/ Shift

Spec == Init /\ [][Next]_vars

------------------------------------------------------------------------------

(* What the USART holds is the next bytes for the line, none left out,     *)
(* none twice, however the ring wraps, while the main loop refills what a  *)
(* burst gives back (fifo.h: "can safely connect readers and writers at    *)
(* different irq priority levels").                                        *)
TxInOrder == \A i \in DOMAIN tdr : tdr[i] = out + i

(* No kick is lost between a chain that ends and a line that begins: with  *)
(* the interrupt off and the line written the ring is empty, and with it   *)
(* on and nothing left to move the interrupt is pending, for a chain that  *)
(* can go on (serial.h: "idempotent - safe if running").                   *)
TxRests ==
  /\ pc = "idle" /\ ~tcie => head = tail /\ xfersize = 0
  /\ dma.left = 0 /\ ~dma.tcif /\ tdr = <<>> => tc /\ xfersize = 0
=============================================================================
