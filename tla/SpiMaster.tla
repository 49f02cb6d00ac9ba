----------------------------- MODULE SpiMaster -----------------------------
(***************************************************************************)
(* The master side's transaction queue: a ring with three cursors that the *)
(* thread fills and empties and the receive DMA's interrupt works off      *)
(* (src/src/nlib/spi.c, spi.h, dma.h, as src/selftest/main.c uses them).   *)
(* Transactions are numbered as they are enqueued.                         *)
(***************************************************************************)
EXTENDS Integers

CONSTANTS
  Size,   \* SPI_QUEUE_LEN
  Width,  \* of the cursors, a multiple of Size
  Jobs    \* bound: transactions

VARIABLES
  elem,              \* slot -> the transaction in it, and whether exchanged
  head, curr, tail,  \* of struct SPIQ
  busy,
  sel,               \* the transaction whose device is selected, 0 for none
  xfer,              \* the two DMA channels: their slot, or NoSlot; TCIF
  pc,                \* the thread
  sent, got          \* history: transactions enqueued, and collected

queueVars == <<elem, head, curr, tail>>
vars == <<queueVars, busy, sel, xfer, pc, sent, got>>

NoSlot == Size
Slot(i) == i % Size
Plus(i, n) == (i + n) % Width
Upto(i, j) == (j - i) % Width  \* from cursor i to cursor j

------------------------------------------------------------------------------

(* A fault, for the mutants: one too many.                                 *)
FullLate == head = Plus(tail, Size + 1)

(* spiq_head finds no slot.                                                *)
Full == head = Plus(tail, Size)

(* startxmit for the cursor c: select, then both channels.                 *)
StartXmit(c) ==
  /\ busy' = TRUE
  /\ sel' = elem[Slot(c)].job
  /\ xfer' = [slot |-> Slot(c), tcif |-> FALSE]

(* spiq_head, the caller's filling of the slot, and the first half of      *)
(* spiq_enq_head; a full queue refuses.                                    *)
Enqueue ==
  /\ pc = "idle" /\ sent < Jobs /\ ~Full
  /\ elem' = [elem EXCEPT ![Slot(head)] = [job |-> sent + 1, done |-> FALSE]]
  /\ head' = Plus(head, 1) /\ sent' = sent + 1
  /\ pc' = "look"
  /\ UNCHANGED <<curr, tail, busy, sel, xfer, got>>

(* The second half: a queue at rest is started, else the handler goes on.  *)
LookIdle ==
  /\ pc = "look" /\ pc' = IF busy THEN "idle" ELSE "start"
  /\ UNCHANGED <<queueVars, busy, sel, xfer, sent, got>>

Start ==
  /\ pc = "start" /\ pc' = "idle"
  /\ StartXmit(curr)
  /\ UNCHANGED <<queueVars, sent, got>>

(* spiq_tail and spiq_deq_tail.                                            *)
Collect ==
  /\ pc = "idle" /\ curr # tail
  /\ got' = elem[Slot(tail)].job /\ tail' = Plus(tail, 1)
  /\ UNCHANGED <<elem, head, curr, busy, sel, xfer, pc, sent>>

(* spi_wait.                                                               *)
Wait ==
  /\ pc = "idle" /\ pc' = "wait"
  /\ UNCHANGED <<queueVars, busy, sel, xfer, sent, got>>

(* A fault, for the mutants: the look is made with interrupts on.          *)
MaskedAsleep == pc = "asleep"

(* PRIMASK is set from the look to the wakeup.                             *)
Masked == pc \in {"wfi", "asleep"}

(* Nothing to wait for: a result, or nothing under way.                    *)
LookResult ==
  /\ pc = "wait"
  /\ pc' = IF curr # tail \/ (~busy /\ head = curr) THEN "idle" ELSE "wfi"
  /\ UNCHANGED <<queueVars, busy, sel, xfer, sent, got>>

Sleep ==
  /\ pc = "wfi" /\ pc' = "asleep"
  /\ UNCHANGED <<queueVars, busy, sel, xfer, sent, got>>

(* A pending interrupt wakes, masked or not.                               *)
Wake ==
  /\ pc = "asleep" /\ xfer.tcif /\ pc' = "wait"
  /\ UNCHANGED <<queueVars, busy, sel, xfer, sent, got>>

------------------------------------------------------------------------------

(* A transaction takes longer than spiq_enq_head from counting it to the   *)
(* look (two instructions; the self test's spiq_xmit finds the queue empty *)
(* in any case).                                                           *)
Brisk == pc = "look" => elem[xfer.slot].job # sent

(* The exchange is over.                                                   *)
Exchange ==
  /\ xfer.slot # NoSlot /\ ~xfer.tcif /\ Brisk
  /\ elem' = [elem EXCEPT ![xfer.slot].done = TRUE]
  /\ xfer' = [xfer EXCEPT !.tcif = TRUE]
  /\ UNCHANGED <<head, curr, tail, busy, sel, pc, sent, got>>

(* spi_rx_dma_handler: flags cleared, select released, the next started.   *)
RxDma ==
  /\ xfer.tcif /\ ~Masked
  /\ curr' = Plus(curr, 1)
  /\ IF head # curr'
     THEN StartXmit(curr')
     ELSE busy' = FALSE /\ sel' = 0 /\ xfer' = [slot |-> NoSlot, tcif |-> FALSE]
  /\ UNCHANGED <<elem, head, tail, pc, sent, got>>

------------------------------------------------------------------------------

(* After spiq_init.                                                        *)
Init ==
  /\ elem = [s \in 0 .. Size - 1 |-> [job |-> 0, done |-> FALSE]]
  /\ head = 0 /\ curr = 0 /\ tail = 0 /\ busy = FALSE
  /\ sel = 0 /\ xfer = [slot |-> NoSlot, tcif |-> FALSE]
  /\ pc = "idle" /\ sent = 0 /\ got = 0

Next ==
  \/ Enqueue \/ LookIdle \/ Start \/ Collect \/ Wait \/ LookResult \/ Sleep \/ Wake
  \/ Exchange \/ RxDma

Spec == Init /\ [][Next]_vars

------------------------------------------------------------------------------

(* Between the tail and the current one lie, in the order they were        *)
(* enqueued, the transactions exchanged and not collected, behind them     *)
(* those still to go, none missing; and what is on the bus is the current  *)
(* one, selected for itself alone (spi.h: "done, in flight, pending").     *)
Exchanged ==
  /\ Upto(tail, head) = sent - got
  /\ \A n \in 0 .. Upto(tail, head) - 1 :
       LET x == elem[Slot(Plus(tail, n))]
       IN  /\ x.job = got + 1 + n
           /\ n < Upto(tail, curr) => x.done
           /\ n > Upto(tail, curr) => ~x.done
  /\ xfer.slot # NoSlot =>
       xfer.slot = Slot(curr) /\ busy /\ sel = elem[Slot(curr)].job
  /\ xfer.slot = NoSlot => sel = 0

(* No wakeup is lost: a thread asleep has a transfer under way or its end  *)
(* pending (spi_wait: "WFI sleeps forever"); and no transaction is left    *)
(* waiting with the bus idle.                                              *)
NoneStuck ==
  /\ pc = "asleep" => xfer.slot # NoSlot
  /\ pc \notin {"look", "start"} /\ head # curr => xfer.slot # NoSlot
=============================================================================
