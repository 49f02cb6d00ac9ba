------------------------- MODULE SpiSlaveProperties -------------------------
(***************************************************************************)
(* What the engine of SpiSlave has to guarantee, and to which masters.     *)
(***************************************************************************)
EXTENDS SpiSlave

------------------------------------------------------------------------------
(* Against any master. *)

(* Every variable of the engine, its hardware and its callers stays in its *)
(* type; in particular the DMA never holds a transfer outside the memory   *)
(* of a device (spislave.h: the file and stream[] are the TX DMA buffer).  *)
TypeOK ==
  /\ low \subseteq Dev /\ pr \subseteq Dev /\ nvic \subseteq Dev
  /\ rx \in Seq(Byte) /\ Len(rx) <= RxDepth /\ skew \in BOOLEAN
  /\ tx \in Seq(Byte \union {Fill}) /\ rxneie \in BOOLEAN
  /\ dma \in Dev \union {None} /\ mar \in Nat /\ ndtr \in Nat
  /\ dma # None => mar + ndtr <= NReg + StreamMax
  /\ active \in Dev \union {None} /\ phase \in {"CMD", "WRITE", "READ"}
  /\ cmd \in Byte /\ addr0 \in Reg /\ addr \in Reg /\ ndtr0 \in Nat
  /\ mem \in [Dev -> [Cell -> Byte]]
  /\ frames \in [Dev -> Nat]
  /\ hook \in [dev : Dev \union {None}, cmd : Byte, addr : Reg, len : Int]
  /\ stray \in Nat /\ midframe \in Nat /\ unexpected \in Nat
  /\ isr \in {"none", "spi", "check", "resolve", "fast", "pend", "clear"}
  /\ snap \subseteq Dev /\ pend \subseteq Dev
  /\ masked \in BOOLEAN /\ thr \in {"idle", "check", "copy", "resync"}
  /\ tdev \in Dev \union {None} /\ DOMAIN src \subseteq Cell
  /\ \A c \in DOMAIN src : src[c] \in Byte
  /\ nfall \in Nat /\ lost \in BOOLEAN /\ heal \in {"whole", "cut", "after"}
  /\ resyncs \in Nat

(* The content of the files once the sample being copied counts as whole. *)
Settled == [d \in Dev |-> [c \in Cell |->
              IF thr = "copy" /\ d = tdev /\ c \in DOMAIN src THEN src[c] ELSE mem[d][c]]]

Port == INSTANCE RegisterPort WITH
          file <- Settled, burst <- dma, next <- mar, queue <- tx, Writable <- WMask

(* "A burst can never observe a half-committed sample" (spislave.h): the   *)
(* engine implements RegisterPort, whatever the master and the lines do.   *)
PortSafe == Port!Init /\ [][Port!Next]_(Port!vars)

------------------------------------------------------------------------------
(* Against a master that keeps all Promises, and with resyncs at any time. *)
(* Two things cut a frame, that is, make the engine miss its beginning: a  *)
(* resync (main.c: it costs a few frames), and the one edge that is lost,  *)
(* see Overlooked.  Because only the end of a frame scrubs the SPI, a cut  *)
(* frame spoils the next one, too; all the others are held to everything   *)
(* below.                                                                  *)

Quiet == pr = {} /\ nvic = {} /\ isr = "none"

(* With every interrupt served, the engine serves the device the lines     *)
(* select.  Of all edges, in every state of the handlers and in a resync,  *)
(* only one kind goes unresolved: that which spislave_resolve clears,      *)
(* having read the pins before it, with no vector latched for it.          *)
LinesResolved == Quiet /\ heal # "cut" /\ ~lost => active = Lowest(low)

(* In a read burst the master receives the fill for the command, the       *)
(* dummies owed, then consecutive cells of the device from the addressed   *)
(* one, none displaced and none torn (spislave.h: a byte queued late ships *)
(* one slot late).                                                         *)
BurstExact ==
  Quiet /\ phase = "READ" /\ heal = "whole" =>
    LET s == Source(active, addr0)
    IN  \A k \in 1 .. Len(miso) :
          LET j == k - 2 - Dummy[active]
          IN  miso[k] = IF j < 0 THEN Fill
                        ELSE IF j < s.n THEN mem[active][s.base + j] ELSE Stale

(* Frame f, as clocked by the master, is what the engine closes for d: the *)
(* hook gets its command, every writable byte has landed, and the length   *)
(* of a read covers what was shipped and at most one TX FIFO more.         *)
Delivers(d, f) ==
  LET a == AddrOf(f.bytes[1])
      n == Len(f.bytes) - 1
      Target(k) == (a + k - 2) % NReg
      Last(k) == \A m \in k + 1 .. Len(f.bytes) : Target(m) # Target(k)
      shipped == IF n > Dummy[d] THEN n - Dummy[d] ELSE 0
      all == Source(d, a).n
  IN  /\ f.dev = d
      /\ hook'.dev = d /\ hook'.cmd = f.bytes[1] /\ hook'.addr = a
      /\ IF IsRead(f.bytes[1])
         THEN /\ hook'.len >= IF shipped < all THEN shipped ELSE all
              /\ hook'.len <= shipped + TxDepth
         ELSE /\ hook'.len = n % NReg
              /\ \A k \in 2 .. Len(f.bytes) :
                   Target(k) \in WMask[d] /\ Last(k) => mem'[d][Target(k)] = f.bytes[k]

FrameDelivered ==
  [][\A d \in Dev : frames'[d] # frames[d] /\ due # <<>> => Delivers(d, Head(due))]_vars

(* No frame in which bytes were clocked is skipped or merged into another. *)
NoFrameLost == Len(due) <= 1 /\ (Quiet => due = <<>>)

(* A byte arrives with no device selected only in a frame that is cut, or  *)
(* in the one after: what the desync watchdog counts always has one of the *)
(* two causes, a resync or an overlooked edge.                             *)
StrayFree == [][stray' = stray \/ heal # "whole"]_vars

(* "Healthy is a HARD ZERO" (sensors.c:404): without a resync a master     *)
(* that keeps all Promises has no byte counted as a stray.                 *)
HardZero == stray = 0

(* Every change of the selects is resolved: the engine catches up with the *)
(* lines, or they change again, or the edge is one that is overlooked.     *)
LinesServed == \A L \in SUBSET Dev : (low = L) ~> (active = Lowest(L) \/ low # L \/ lost)
=============================================================================
