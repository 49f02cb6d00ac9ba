------------------------------ MODULE SpiSlave ------------------------------
(***************************************************************************)
(* The register-file SPI slave engine (src/src/nlib/spislave.{c,h}): one   *)
(* SPI serving several emulated devices, demultiplexed by their chip       *)
(* selects.  Modelled together with what it races against:                 *)
(*   - the bus master, which moves chip selects and clocks bytes;          *)
(*   - the hardware: the SPI's RX and TX FIFOs, the TX DMA, the EXTI       *)
(*     pending bits and the NVIC;                                          *)
(*   - the two handlers of priority group 0 (SPI3 and the CS EXTIs), which *)
(*     preempt the thread but never each other;                            *)
(*   - the thread, which commits samples with interrupts masked and, when  *)
(*     the watchdog tells it to, resyncs the whole bus.                    *)
(* One action is one access to state the others can see.                   *)
(***************************************************************************)
EXTENDS Integers, Sequences, FiniteSets

CONSTANTS
  NDev,         \* devices 1 .. NDev, in ascending chip select pin order
  NReg,         \* SPIDEV_REGS: registers of one device
  Dummy,        \* Dummy[d]: dummy bytes owed after a read command
  WMask,        \* WMask[d]: the registers the master may write
  StreamMax,    \* the largest stream buffer
  StreamSize,   \* StreamSize[d]: bytes of stream[], 0 without a drain port
  StreamAddr,   \* StreamAddr[d]: register of the drain port
  StreamPrefix, \* StreamPrefix[d]: registers mirrored below the port
  ClearOnRead,  \* ClearOnRead[d]: the read side effects of the frame hook
  RxDepth,      \* bytes the SPI's RX FIFO holds
  TxDepth,      \* bytes the SPI's TX FIFO holds
  MasterBytes,  \* the bytes the master sends
  Samples,      \* Samples[d]: what the thread commits, functions on cells
  MaxFrames,    \* bound: chip select assertions of the master
  MaxResyncs,   \* bound: resyncs of the sensor layer
  MaxLen,       \* bound: bytes the master clocks in a frame
  Assume        \* what the master is assumed to do, see Promises

Dev  == 1 .. NDev
None == 0                       \* no device: the NULL of s->active
Reg  == 0 .. NReg - 1
Byte == 0 .. 2 * NReg - 1       \* the top bit of a command is its read flag
Cell == 0 .. NReg + StreamMax - 1 \* the file's registers, then stream[]
Fill  == -1                     \* s->fill, the cover of command and dummy slots
Stale == -2                     \* what an empty TX FIFO shifts out

Promises == {"prompt",    \* no byte is clocked over unserved work, see Served
             "oneSelect"} \* at most one chip select is asserted

ASSUME SizeAssumption ==
  /\ NDev \in Nat \ {0} /\ NReg \in Nat \ {0} /\ StreamMax \in Nat
  /\ RxDepth \in Nat \ {0} /\ TxDepth \in Nat \ {0}
  /\ MaxFrames \in Nat /\ MaxLen \in Nat /\ MaxResyncs \in Nat

ASSUME DeviceAssumption ==
  /\ Dummy \in [Dev -> Nat]
  /\ WMask \in [Dev -> SUBSET Reg]
  /\ StreamSize \in [Dev -> 0 .. StreamMax]
  /\ StreamAddr \in [Dev -> Reg]
  /\ StreamPrefix \in [Dev -> Nat]
  /\ \A d \in Dev : /\ StreamPrefix[d] <= StreamAddr[d]
                    /\ StreamSize[d] > 0 => StreamPrefix[d] < StreamSize[d]
  /\ \A d \in Dev : ClearOnRead[d] \subseteq [lo : Reg, hi : Reg, clears : Reg]

ASSUME InputAssumption ==
  /\ MasterBytes \subseteq Byte
  /\ \A d \in Dev : \A s \in Samples[d] :
       DOMAIN s \subseteq Cell /\ \A c \in DOMAIN s : s[c] \in Byte
  /\ Assume \subseteq Promises

VARIABLES
  low,      \* the asserted chip selects
  pr,       \* EXTI.PR1: lines with a pending edge
  nvic,     \* CS vectors latched pending in the NVIC
  rx, tx,   \* the SPI's FIFOs
  skew,     \* its bit counter is off the master's byte boundaries
  rxneie,   \* SPI_CR2_RXNEIE
  dma,      \* device whose memory the TX DMA streams, None when disabled
  mar,      \* next cell the DMA fetches
  ndtr,     \* transfers the DMA has left
  active, phase, cmd, addr0, addr, ndtr0, \* the fields of struct SPISlave
  mem,      \* mem[d]: d->reg followed by d->stream
  frames,   \* frames[d]: completed frames
  hook,     \* arguments of the last frame hook
  stray, midframe, unexpected, \* the counters sensors_unexpected() sums
  isr,      \* where the running group-0 handler is
  snap,     \* spislave_resolve's local `low`, {} outside it
  pend,     \* its local `pend`
  masked,   \* PRIMASK
  thr,      \* where the thread is in spidev_commit or sensors_bus_resync
  tdev,     \* the device it commits to
  src,      \* what it still has to copy
  nfall,    \* chip select assertions so far (bound)
  sent,     \* bytes the master clocked in its frame
  miso,     \* bytes the master received in its frame
  due,      \* frames with bytes the master ended, engine not yet done with
  lost,     \* an edge left nothing that will look at the selects again
  heal,     \* whether the frame is cut (the engine missed its beginning), or the one before
  resyncs   \* resyncs so far (bound)

master  == <<nfall, sent, miso, due, lost, heal, resyncs>>
lines   == <<low, pr, nvic>>
spi     == <<rx, tx, skew, rxneie, dma, mar, ndtr>>
engine  == <<active, phase, cmd, addr0, addr, ndtr0>>
counts  == <<frames, hook, stray, midframe, unexpected>>
handler == <<isr, snap, pend>>
thread  == <<masked, thr, tdev, src>>
vars == <<lines, spi, engine, mem, counts, handler, thread, master>>

------------------------------------------------------------------------------
(* The hardware and the master. *)

(* "prompt", the timing the engine is built for (spislave.h): a byte-time  *)
(* is longer than a handler, so the edge that frames a byte, the command   *)
(* before it and the DMA's first fetch are served before it is clocked.    *)
Served ==
  /\ pr = {} /\ nvic = {} /\ isr \in {"none", "spi", "check"}
  /\ phase = "CMD" => rx = <<>>
  /\ phase = "WRITE" => Len(rx) < RxDepth
  /\ dma # None /\ ndtr > 0 => tx # <<>>

(* A fault, for the mutants: only the rising edge raises the line.         *)
RisingEdge(d) ==
  /\ pr' = IF d \in low THEN pr \union {d} ELSE pr
  /\ nvic' = IF d \in low THEN nvic \union {d} ELSE nvic

(* Both edges of a select raise its EXTI line; the NVIC latches only the   *)
(* rise of that line, so an edge on a line still pending adds nothing.     *)
Edge(d) ==
  /\ pr' = pr \union {d}
  /\ nvic' = IF d \in pr THEN nvic ELSE nvic \union {d}

Lowest(S) == IF S = {} THEN None ELSE CHOOSE d \in S : \A e \in S : d <= e

(* spislave_resolve has read the pins and not yet cleared the EXTI lines.  *)
Committed == isr \in {"fast", "pend", "clear"}

(* An edge in that window, on a line still pending, is cleared unseen: no  *)
(* vector is left, and the handler acts on the pins it has read.           *)
Overlooked == Committed /\ nvic' = {} /\ Lowest(low') # Lowest(snap)

CsFall(d) ==
  /\ d \notin low /\ nfall < MaxFrames + resyncs
  /\ "oneSelect" \in Assume => low = {}
  /\ Edge(d)
  /\ low' = low \union {d}
  /\ lost' = Overlooked
  /\ nfall' = nfall + 1 /\ sent' = <<>> /\ miso' = <<>>
  /\ UNCHANGED <<spi, engine, mem, counts, handler, thread, due, heal, resyncs>>

CsRise(d) ==
  /\ d \in low
  /\ Edge(d)
  /\ low' = low \ {d}
  /\ lost' = Overlooked
  /\ due' = IF sent = <<>> \/ heal # "whole" THEN due
            ELSE Append(due, [dev |-> d, bytes |-> sent])
  /\ heal' = CASE heal = "cut" -> "after"
              [] heal = "after" /\ sent # <<>> -> "whole"
              [] OTHER -> heal
  /\ sent' = <<>>
  /\ UNCHANGED <<spi, engine, mem, counts, handler, thread, nfall, miso, resyncs>>

(* A byte is received as sent, unless the bit counter is off or the SPI is *)
(* held in reset; a master cannot tell that a resync is running, nor that  *)
(* the edge which began its frame was overlooked: both cut the frame.      *)
ClockByte(b) ==
  /\ low # {} /\ Len(sent) < MaxLen
  /\ "prompt" \in Assume => Served \/ thr = "resync"
  /\ \E got \in IF skew THEN MasterBytes ELSE {b} :
       rx' = IF Len(rx) < RxDepth /\ thr # "resync" THEN Append(rx, got) ELSE rx
  /\ tx' = IF tx = <<>> THEN tx ELSE Tail(tx)
  /\ miso' = Append(miso, IF tx = <<>> THEN Stale ELSE Head(tx))
  /\ sent' = Append(sent, b)
  /\ heal' = IF thr = "resync" \/ lost THEN "cut" ELSE heal
  /\ UNCHANGED <<lines, skew, rxneie, dma, mar, ndtr, engine, mem, counts,
                 handler, thread, nfall, due, lost, resyncs>>

DmaFetch ==
  /\ dma # None /\ ndtr > 0 /\ Len(tx) < TxDepth
  /\ tx' = Append(tx, mem[dma][mar])
  /\ mar' = mar + 1 /\ ndtr' = ndtr - 1
  /\ UNCHANGED <<lines, rx, skew, rxneie, dma, engine, mem, counts, handler, thread, master>>

------------------------------------------------------------------------------
(* spislave_irq: the RXNE handler. *)

SpiPending == rxneie /\ rx # <<>>

SpiEnter ==
  /\ isr = "none" /\ ~masked /\ thr # "resync" /\ SpiPending
  /\ isr' = "spi"
  /\ UNCHANGED <<lines, spi, engine, mem, counts, snap, pend, thread, master>>

(* A fault, for the mutants: the length forgets the skipped mirror.        *)
SourceUnskipped(d, a) ==
  LET off == (StreamAddr[d] - a) % (2 * NReg)
  IN  IF StreamSize[d] > 0 /\ off <= StreamPrefix[d]
      THEN [base |-> NReg + StreamPrefix[d] - off, n |-> StreamSize[d]]
      ELSE [base |-> a, n |-> NReg - a]

(* The memory a read command streams: the drain port when the burst starts *)
(* on it or at most StreamPrefix below it (uint8_t arithmetic), else the   *)
(* file from the addressed register to its top.                            *)
Source(d, a) ==
  LET off  == (StreamAddr[d] - a) % (2 * NReg)
      skip == StreamPrefix[d] - off
  IN  IF StreamSize[d] > 0 /\ off <= StreamPrefix[d]
      THEN [base |-> NReg + skip, n |-> StreamSize[d] - skip]
      ELSE [base |-> a, n |-> NReg - a]

IsRead(b) == b >= NReg
AddrOf(b) == b % NReg

TakeStray ==
  /\ active = None
  /\ stray' = stray + 1
  /\ UNCHANGED <<isr, rxneie, dma, mar, ndtr, engine, mem, unexpected>>

TakeReadCommand(b) ==
  /\ active # None /\ phase = "CMD" /\ IsRead(b)
  /\ LET s == Source(active, AddrOf(b))
     IN  /\ dma' = active /\ mar' = s.base /\ ndtr' = s.n
         /\ ndtr0' = s.n
  /\ rxneie' = FALSE
  /\ cmd' = b /\ addr0' = AddrOf(b) /\ phase' = "READ"
  /\ isr' = "check"
  /\ UNCHANGED <<active, addr, mem, stray, unexpected>>

(* A fault, for the mutants: the write pointer is not loaded.              *)
CommandKeepsAddr(b) ==
  /\ active # None /\ phase = "CMD" /\ ~IsRead(b)
  /\ cmd' = b /\ addr0' = AddrOf(b) /\ phase' = "WRITE"
  /\ UNCHANGED <<isr, rxneie, dma, mar, ndtr, active, addr, ndtr0, mem, stray, unexpected>>

TakeWriteCommand(b) ==
  /\ active # None /\ phase = "CMD" /\ ~IsRead(b)
  /\ cmd' = b /\ addr0' = AddrOf(b) /\ addr' = AddrOf(b) /\ phase' = "WRITE"
  /\ UNCHANGED <<isr, rxneie, dma, mar, ndtr, active, ndtr0, mem, stray, unexpected>>

TakeWriteData(b) ==
  /\ active # None /\ phase # "CMD"
  /\ IF addr \in WMask[active]
     THEN mem' = [mem EXCEPT ![active][addr] = b] /\ UNCHANGED unexpected
     ELSE unexpected' = unexpected + 1 /\ UNCHANGED mem
  /\ addr' = (addr + 1) % NReg
  /\ UNCHANGED <<isr, rxneie, dma, mar, ndtr, active, phase, cmd, addr0, ndtr0, stray>>

SpiTake ==
  /\ isr = "spi" /\ rx # <<>>
  /\ rx' = Tail(rx)
  /\ LET b == Head(rx)
     IN  TakeStray \/ TakeReadCommand(b) \/ TakeWriteCommand(b) \/ TakeWriteData(b)
  /\ UNCHANGED <<lines, tx, skew, frames, hook, midframe, snap, pend, thread, master>>

(* After the drain: an edge that arrived meanwhile is resolved here,       *)
(* before the CS vector gets its turn.                                     *)
SpiExit ==
  /\ isr = "check" \/ (isr = "spi" /\ rx = <<>>)
  /\ isr' = IF pr = {} THEN "none" ELSE "resolve"
  /\ midframe' = IF pr = {} THEN midframe ELSE midframe + 1
  /\ UNCHANGED <<lines, spi, engine, mem, frames, hook, stray, unexpected,
                 snap, pend, thread, master>>

------------------------------------------------------------------------------
(* spislave_resolve: CS arbitration, from a CS vector or from SpiExit. *)

(* The CS vectors are one subpriority below SPI3. *)
CsEnter ==
  /\ isr = "none" /\ ~masked /\ thr # "resync" /\ nvic # {} /\ ~SpiPending
  /\ nvic' = nvic \ {Lowest(nvic)}
  /\ isr' = "resolve"
  /\ UNCHANGED <<low, pr, spi, engine, mem, counts, snap, pend, thread, master>>

ResolveRead ==
  /\ isr = "resolve"
  /\ snap' = low
  /\ isr' = IF active = None /\ Cardinality(low) = 1 THEN "fast" ELSE "pend"
  /\ UNCHANGED <<lines, spi, engine, mem, counts, pend, thread, master>>

(* A fault, for the mutants: the owed dummies are not queued.              *)
SelectNoDummies(sel, queued) ==
  /\ tx' = queued
  /\ active' = sel /\ phase' = "CMD"

(* spislave_select behind whatever the TX FIFO already holds. *)
Select(sel, queued) ==
  /\ tx' = queued \o [i \in 1 .. Dummy[sel] |-> Fill]
  /\ active' = sel /\ phase' = "CMD"

(* A fault, for the mutants: the fast path leaves the EXTI line pending.   *)
FastNoClear ==
  /\ isr = "fast"
  /\ Select(Lowest(snap), tx)
  /\ isr' = "none" /\ snap' = {}
  /\ UNCHANGED <<lines, rx, skew, rxneie, dma, mar, ndtr, cmd, addr0, addr, ndtr0,
                 mem, counts, pend, thread, master>>

(* The fast path, idle to a single select. *)
ResolveFast ==
  /\ isr = "fast"
  /\ Select(Lowest(snap), tx)
  /\ pr' = {}
  /\ isr' = "none" /\ snap' = {}
  /\ UNCHANGED <<low, nvic, rx, skew, rxneie, dma, mar, ndtr, cmd, addr0, addr, ndtr0,
                 mem, counts, pend, thread, master>>

ResolvePend ==
  /\ isr = "pend"
  /\ pend' = pr
  /\ isr' = "clear"
  /\ UNCHANGED <<lines, spi, engine, mem, counts, snap, thread, master>>

(* The length spislave_close_hw returns: for a read what the DMA fetched,  *)
(* prefetched bytes included.                                              *)
FrameLen ==
  CASE phase = "READ"  -> ndtr0 - ndtr
    [] phase = "WRITE" -> (addr - addr0) % NReg
    [] OTHER -> 0

(* spislave_close_hw scrubs the SPI: FIFOs empty, one fill queued, RXNE on, *)
(* bits counted from here.                                                  *)
Scrub ==
  /\ rx' = <<>> /\ rxneie' = TRUE /\ skew' = FALSE
  /\ dma' = None
  /\ UNCHANGED <<mar, ndtr>>

(* frame_reads() in the hooks of sensors.c: registers cleared because a    *)
(* read of len bytes from a covered their trigger.                         *)
Cleared(d, c, a, len) ==
  {t.clears : t \in {u \in ClearOnRead[d] : IsRead(c) /\ a <= u.hi /\ a + len > u.lo}}

(* spislave_close_account: count the frame, run the device's hook. *)
Account(d) ==
  /\ frames' = [frames EXCEPT ![d] = @ + 1]
  /\ hook' = [dev |-> d, cmd |-> cmd, addr |-> addr0, len |-> FrameLen]
  /\ mem' = [mem EXCEPT ![d] =
               [c \in Cell |-> IF c \in Cleared(d, cmd, addr0, FrameLen) THEN 0 ELSE @[c]]]
  /\ due' = IF due = <<>> THEN due ELSE Tail(due)

(* A fault, for the mutants: the pending bit of the own line is ignored.   *)
MissedBounce == active # None /\ Lowest(snap) # active
FrameOver == active # None /\ (Lowest(snap) # active \/ active \in pend)

(* A fault, for the mutants: the next device is not opened after a close.  *)
NoReselect ==
  /\ FrameOver
  /\ Scrub /\ tx' = <<Fill>> /\ active' = None /\ phase' = "CMD"
  /\ Account(active)

(* A frame ends when its device is no longer selected, or when its own     *)
(* line bounced: same device selected, but with an edge pending.           *)
ResolveClose ==
  LET sel == Lowest(snap)
  IN  /\ FrameOver
      /\ Scrub
      /\ IF sel = None
         THEN tx' = <<Fill>> /\ active' = None /\ phase' = "CMD"
         ELSE Select(sel, <<Fill>>)
      /\ Account(active)

ResolveKeep ==
  /\ Lowest(snap) = active /\ ~FrameOver
  /\ UNCHANGED <<rx, tx, skew, rxneie, dma, mar, ndtr, active, phase, mem, frames, hook, due>>

ResolveOpen ==
  LET sel == Lowest(snap)
  IN  /\ active = None /\ sel # None
      /\ Select(sel, tx)
      /\ UNCHANGED <<rx, skew, rxneie, dma, mar, ndtr, mem, frames, hook, due>>

ResolveAct ==
  /\ isr = "clear"
  /\ pr' = {}
  /\ ResolveClose \/ ResolveKeep \/ ResolveOpen
  /\ isr' = "none" /\ snap' = {} /\ pend' = {}
  /\ UNCHANGED <<low, nvic, cmd, addr0, addr, ndtr0, stray, midframe, unexpected,
                 thread, nfall, sent, miso, lost, heal, resyncs>>

------------------------------------------------------------------------------
(* spidev_commit and spidev_apply, at thread level. *)

IrqLock(d, s) ==
  /\ isr = "none" /\ thr = "idle"
  /\ masked' = TRUE
  /\ thr' = "check" /\ tdev' = d /\ src' = s
  /\ UNCHANGED <<lines, spi, engine, mem, counts, handler, master>>

(* A fault, for the mutants: the commit ignores a selected device.         *)
CommitUnchecked ==
  /\ isr = "none" /\ thr = "check"
  /\ thr' = "copy"
  /\ UNCHANGED <<lines, spi, engine, mem, counts, handler, masked, tdev, src, master>>

(* Refused while the device is selected. *)
CommitCheck ==
  /\ isr = "none" /\ thr = "check"
  /\ IF active = tdev
     THEN thr' = "idle" /\ masked' = FALSE /\ src' = <<>>
     ELSE thr' = "copy" /\ UNCHANGED <<masked, src>>
  /\ UNCHANGED <<lines, spi, engine, mem, counts, handler, tdev, master>>

CommitCopy ==
  /\ isr = "none" /\ thr = "copy"
  /\ \E c \in DOMAIN src :
       /\ mem' = [mem EXCEPT ![tdev][c] = src[c]]
       /\ src' = [x \in DOMAIN src \ {c} |-> src[x]]
  /\ UNCHANGED <<lines, spi, engine, counts, handler, masked, thr, tdev, master>>

IrqUnlock ==
  /\ isr = "none" /\ thr = "copy" /\ DOMAIN src = {}
  /\ masked' = FALSE
  /\ thr' = "idle"
  /\ UNCHANGED <<lines, spi, engine, mem, counts, handler, tdev, src, master>>

------------------------------------------------------------------------------
(* sensors_bus_resync, at thread level: what the watchdog does to a bus    *)
(* whose engine has lost the frames.                                       *)

(* With the SPI and CS vectors disabled the SPI is reset, the register     *)
(* files go back to their defaults (what stream[] holds stays) and         *)
(* spislave_init forgets the frame.  Nothing else runs meanwhile but the   *)
(* master, who clocks into an SPI held in reset.                           *)
ResyncBegin ==
  /\ isr = "none" /\ thr = "idle" /\ resyncs < MaxResyncs
  /\ thr' = "resync" /\ resyncs' = resyncs + 1
  /\ rx' = <<>> /\ tx' = <<>> /\ rxneie' = TRUE /\ skew' = FALSE /\ dma' = None
  /\ mem' = [d \in Dev |-> [c \in Cell |-> IF c \in Reg THEN 0 ELSE mem[d][c]]]
  /\ active' = None /\ phase' = "CMD"
  /\ heal' = IF low # {} /\ (sent # <<>> \/ low \cap pr = {}) THEN "cut" ELSE "whole"
  /\ due' = <<>> /\ lost' = FALSE
  /\ UNCHANGED <<lines, mar, ndtr, cmd, addr0, addr, ndtr0, counts, handler,
                 masked, tdev, src, nfall, sent, miso>>

(* A fault, for the mutants: the edges that came meanwhile are dropped.    *)
ResyncDropsEdges ==
  /\ thr = "resync" /\ thr' = "idle"
  /\ tx' = tx \o <<Fill>>
  /\ skew' \in BOOLEAN /\ (skew' => low # {})
  /\ heal' = IF skew' THEN "cut" ELSE heal
  /\ pr' = {} /\ nvic' = {}
  /\ UNCHANGED <<low, rx, rxneie, dma, mar, ndtr, engine, mem, counts, handler,
                 masked, tdev, src, nfall, sent, miso, due, lost, resyncs>>

(* The SPI is enabled again, in the middle of a byte if the master is      *)
(* clocking.  The NVIC's pending bits are cleared, the EXTI's are not, and *)
(* they keep their vectors pending.                                        *)
ResyncEnd ==
  /\ thr = "resync" /\ thr' = "idle"
  /\ tx' = tx \o <<Fill>>
  /\ skew' \in BOOLEAN /\ (skew' => low # {})
  /\ heal' = IF skew' THEN "cut" ELSE heal
  /\ nvic' = pr
  /\ UNCHANGED <<low, pr, rx, rxneie, dma, mar, ndtr, engine, mem, counts, handler,
                 masked, tdev, src, nfall, sent, miso, due, lost, resyncs>>

------------------------------------------------------------------------------

(* spislave_init on reset register files, every select high. *)
Init ==
  /\ low = {} /\ pr = {} /\ nvic = {}
  /\ rx = <<>> /\ tx = <<Fill>> /\ rxneie = TRUE /\ skew = FALSE
  /\ dma = None /\ mar = 0 /\ ndtr = 0
  /\ active = None /\ phase = "CMD" /\ cmd = 0 /\ addr0 = 0 /\ addr = 0 /\ ndtr0 = 0
  /\ mem = [d \in Dev |-> [c \in Cell |-> 0]]
  /\ frames = [d \in Dev |-> 0] /\ hook = [dev |-> None, cmd |-> 0, addr |-> 0, len |-> 0]
  /\ stray = 0 /\ midframe = 0 /\ unexpected = 0
  /\ isr = "none" /\ snap = {} /\ pend = {}
  /\ masked = FALSE /\ thr = "idle" /\ tdev = None /\ src = <<>>
  /\ nfall = 0 /\ sent = <<>> /\ miso = <<>> /\ due = <<>>
  /\ lost = FALSE /\ heal = "whole" /\ resyncs = 0

Isr == \/ SpiEnter \/ SpiTake \/ SpiExit
       \/ CsEnter \/ ResolveRead \/ ResolveFast \/ ResolvePend \/ ResolveAct

Thread == \/ \E d \in Dev : \E s \in Samples[d] : IrqLock(d, s)
          \/ CommitCheck \/ CommitCopy \/ IrqUnlock \/ ResyncBegin \/ ResyncEnd

Master == \/ \E d \in Dev : CsFall(d) \/ CsRise(d)
          \/ \E b \in MasterBytes : ClockByte(b)

Next == Isr \/ Thread \/ Master \/ DmaFetch

Spec == Init /\ [][Next]_vars

(* A pending unmasked interrupt is taken and its handler runs to its end;  *)
(* entry is only strongly fair because the thread may mask it meanwhile,   *)
(* as it does again and again.  The straight-line code under the lock ends.*)
Fairness ==
  /\ SF_vars(SpiEnter) /\ SF_vars(CsEnter)
  /\ WF_vars(SpiTake) /\ WF_vars(SpiExit)
  /\ WF_vars(ResolveRead) /\ WF_vars(ResolveFast)
  /\ WF_vars(ResolvePend) /\ WF_vars(ResolveAct)
  /\ WF_vars(CommitCheck) /\ WF_vars(CommitCopy) /\ WF_vars(IrqUnlock) /\ WF_vars(ResyncEnd)
  /\ WF_vars(DmaFetch)

FairSpec == Spec /\ Fairness
=============================================================================
